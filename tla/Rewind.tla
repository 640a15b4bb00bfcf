------------------------------- MODULE Rewind -------------------------------
(***************************************************************************)
(* src/proxy/rewind.rs: a connection of which some bytes were read ahead   *)
(* and put back in front (new_buffered), so that whoever serves it reads   *)
(* them again.  The peer's writes and what the reader gets are recorded.   *)
(***************************************************************************)
EXTENDS Naturals, Sequences

CONSTANTS
  Byte,
  MaxSent,     (* bound on the bytes a peer sends                           *)
  MaxRead      (* bound on the size of a read buffer                        *)

ASSUME RewindAssumption == MaxSent \in Nat /\ MaxRead \in Nat

VARIABLES
  pre,         (* bytes put back; an empty prefix is treated as none        *)
  inner,       (* bytes in the connection                                   *)
  sent,        (* everything the peer has written                           *)
  received,    (* what poll_read has returned                               *)
  closed,      (* the peer has closed its side                              *)
  eof          (* a read into a buffer with room has returned nothing       *)

rewindVars == <<pre, inner, sent, received, closed, eof>>

RewindInit ==
  /\ pre = <<>> /\ inner = <<>> /\ sent = <<>> /\ received = <<>>
  /\ closed = FALSE /\ eof = FALSE

-----------------------------------------------------------------------------
(* The peer.                                                               *)

Write(b) ==
  /\ ~closed
  /\ Len(sent) < MaxSent
  /\ sent' = Append(sent, b)
  /\ inner' = Append(inner, b)
  /\ UNCHANGED <<pre, received, closed, eof>>

Close ==
  /\ ~closed
  /\ closed' = TRUE
  /\ UNCHANGED <<pre, inner, sent, received, eof>>

-----------------------------------------------------------------------------
(* poll_read into a buffer with room for `remaining` bytes.                *)

Smaller(m, n) == IF m < n THEN m ELSE n

Drop(s, n) == SubSeq(s, n + 1, Len(s))

(* Variants marked "bug" are faulty forms of the definition below them: they *)
(* show that a property can fail, and no action uses them.                 *)

(* bug: the prefix is put back without advancing it.                        *)
PollPrefixAgain(remaining) ==
  LET n == Smaller(Len(pre), remaining) IN
  /\ pre # <<>>
  /\ received' = received \o SubSeq(pre, 1, n)
  /\ pre' = IF n < Len(pre) THEN pre ELSE <<>>
  /\ UNCHANGED <<inner, sent, closed, eof>>

(* The prefix comes first, as much of it as fits; the rest is put back.    *)
PollPrefix(remaining) ==
  LET n == Smaller(Len(pre), remaining) IN
  /\ pre # <<>>
  /\ received' = received \o SubSeq(pre, 1, n)
  /\ pre' = Drop(pre, n)
  /\ UNCHANGED <<inner, sent, closed, eof>>

(* Then the connection itself, which returns what has arrived ...          *)
PollInner(remaining) ==
  /\ pre = <<>>
  /\ \E n \in 1..Smaller(Len(inner), remaining) :
       /\ received' = received \o SubSeq(inner, 1, n)
       /\ inner' = Drop(inner, n)
  /\ UNCHANGED <<pre, sent, closed, eof>>

(* bug: an end without a look at whether the peer has closed.                *)
PollEndEarly(remaining) ==
  /\ pre = <<>> /\ inner = <<>>
  /\ remaining > 0
  /\ eof' = TRUE
  /\ UNCHANGED <<pre, inner, sent, received, closed>>

(* ... or nothing at its end, and is pending otherwise.                    *)
PollEnd(remaining) ==
  /\ pre = <<>> /\ inner = <<>> /\ closed
  /\ remaining > 0
  /\ eof' = TRUE
  /\ UNCHANGED <<pre, inner, sent, received, closed>>

PollRead(remaining) ==
  PollPrefix(remaining) \/ PollInner(remaining) \/ PollEnd(remaining)
=============================================================================
