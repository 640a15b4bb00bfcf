----------------------------- MODULE ByteStream -----------------------------
(***************************************************************************)
(* A connection as its reader may expect it: bytes come out in the order   *)
(* they went in, each once, and the end is reported only after the last.   *)
(***************************************************************************)
EXTENDS Naturals, Sequences

CONSTANTS
  Byte,
  MaxSent      (* bound on the bytes a peer sends                           *)

VARIABLES
  sent,        (* everything the peer has written                           *)
  unread,      (* what of it the reader has not got                         *)
  received,    (* what the reader has got                                   *)
  closed,      (* the peer has closed its side                              *)
  eof          (* the reader has been told                                  *)

vars == <<sent, unread, received, closed, eof>>

Init ==
  /\ sent = <<>> /\ unread = <<>> /\ received = <<>>
  /\ closed = FALSE /\ eof = FALSE

Write(b) ==
  /\ ~closed
  /\ Len(sent) < MaxSent
  /\ sent' = Append(sent, b)
  /\ unread' = Append(unread, b)
  /\ UNCHANGED <<received, closed, eof>>

Close ==
  /\ ~closed
  /\ closed' = TRUE
  /\ UNCHANGED <<sent, unread, received, eof>>

Read(n) ==
  /\ received' = received \o SubSeq(unread, 1, n)
  /\ unread' = SubSeq(unread, n + 1, Len(unread))
  /\ UNCHANGED <<sent, closed, eof>>

ReadEof ==
  /\ closed
  /\ unread = <<>>
  /\ eof' = TRUE
  /\ UNCHANGED <<sent, unread, received, closed>>

Next ==
  \/ \E b \in Byte : Write(b)
  \/ Close
  \/ \E n \in 1..Len(unread) : Read(n)
  \/ ReadEof

Spec == Init /\ [][Next]_vars

(* A reader that keeps reading.                                            *)
Fairness == WF_vars(ReadEof \/ \E n \in 1..Len(unread) : Read(n))

-----------------------------------------------------------------------------
(* Nothing is lost, repeated or reordered, and the end is the end.          *)
NothingLost ==
  /\ sent = received \o unread
  /\ eof => closed /\ unread = <<>>
=============================================================================
