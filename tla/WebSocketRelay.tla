--------------------------- MODULE WebSocketRelay ---------------------------
(***************************************************************************)
(* upgrade_websocket and serve_websocket of src/proxy/http.rs: after the   *)
(* client's upgrade the proxy connects to the server, and two pumps pass   *)
(* the frames on, one per direction, each holding a frame while its sink   *)
(* takes it.  select! ends both when one ends, whatever the other holds.   *)
(***************************************************************************)
EXTENDS Naturals, Sequences, SequencesExt

CONSTANTS
  MaxSent,     (* bound on the frames a peer sends                          *)
  Room         (* frames a connection takes before its peer reads           *)

ASSUME RelayAssumption == MaxSent \in Nat /\ Room \in Nat \ {0}

Sides == {"client", "server"}
Other(s) == CHOOSE t \in Sides : t # s

(* The frames of a side are numbered; the last it sends may be a Close.  A  *)
(* frame that breaks the protocol or a limit of tungstenite is an Err of   *)
(* its stream.                                                             *)
CloseFrame == 0
BadFrame == MaxSent + 1
Frame == 0..BadFrame

VARIABLES
  stage,       (* connecting to the server, failed to, open, or closed      *)
  gone,        (* sides whose connection has ended                          *)
  sent,        (* by each side: frames sent ...                             *)
  arriving,    (* ... and not read by the pump                              *)
  hand,        (* ... read, and not taken by the sink: at most one          *)
  leaving,     (* ... taken by the sink, and not read by the other side     *)
  got          (* ... read by the other side                                *)

frames == <<sent, arriving, hand, leaving, got>>
vars == <<stage, gone, frames>>

Init ==
  /\ stage = "connecting"
  /\ gone = {}
  /\ sent = [s \in Sides |-> <<>>]
  /\ arriving = [s \in Sides |-> <<>>]
  /\ hand = [s \in Sides |-> <<>>]
  /\ leaving = [s \in Sides |-> <<>>]
  /\ got = [s \in Sides |-> <<>>]

-----------------------------------------------------------------------------
(* The peers.                                                              *)

(* The server is there once the proxy is connected to it.                   *)
Attached(s) == s \notin gone /\ (s = "server" => stage \in {"open", "closed"})

PeerSends(s) ==
  /\ Attached(s)
  /\ Len(sent[s]) < MaxSent
  /\ ~Contains(sent[s], CloseFrame)
  /\ \E f \in {Len(sent[s]) + 1, CloseFrame, BadFrame} :
       /\ sent' = [sent EXCEPT ![s] = Append(@, f)]
       /\ arriving' = [arriving EXCEPT ![s] = Append(@, f)]
  /\ UNCHANGED <<stage, gone, hand, leaving, got>>

(* s reads what came from the other side.                                   *)
PeerReads(s) ==
  LET from == Other(s) IN
  /\ Attached(s)
  /\ leaving[from] # <<>>
  /\ got' = [got EXCEPT ![from] = Append(@, Head(leaving[from]))]
  /\ leaving' = [leaving EXCEPT ![from] = Tail(@)]
  /\ UNCHANGED <<stage, gone, sent, arriving, hand>>

PeerLeaves(s) ==
  /\ Attached(s)
  /\ gone' = gone \cup {s}
  /\ UNCHANGED <<stage, frames>>

-----------------------------------------------------------------------------
(* The proxy.                                                              *)

Connect ==
  /\ stage = "connecting"
  /\ stage' \in {"open", "failed"}
  /\ UNCHANGED <<gone, frames>>

(* The pump has read the Close of s: a connection takes no more frames for  *)
(* a side that has closed, but a Close in answer.                          *)
CloseRead(s) == Contains(got[s] \o leaving[s] \o hand[s], CloseFrame)

Takes(s, f) == f = CloseFrame \/ ~CloseRead(s)

(* The stream of s yields an error next, and its pump asks for the next.    *)
Broken(s) == hand[s] = <<>> /\ arriving[s] # <<>> /\ Head(arriving[s]) = BadFrame

(* Variants marked "bug" are faulty forms of the definition below them: they *)
(* show that a property can fail, and no action uses them.                 *)

(* bug: the next frame is read before the sink has taken the last.          *)
PumpReadsOn(s) ==
  /\ stage = "open"
  /\ ~CloseRead(s)
  /\ arriving[s] # <<>> /\ Head(arriving[s]) # BadFrame
  /\ hand' = [hand EXCEPT ![s] = <<Head(arriving[s])>>]
  /\ arriving' = [arriving EXCEPT ![s] = Tail(@)]
  /\ UNCHANGED <<stage, gone, sent, leaving, got>>

(* bug: frames are gathered in the hand without a bound.                    *)
PumpGathers(s) ==
  /\ stage = "open"
  /\ ~CloseRead(s)
  /\ arriving[s] # <<>> /\ Head(arriving[s]) # BadFrame
  /\ hand' = [hand EXCEPT ![s] = Append(@, Head(arriving[s]))]
  /\ arriving' = [arriving EXCEPT ![s] = Tail(@)]
  /\ UNCHANGED <<stage, gone, sent, leaving, got>>

PumpReads(s) ==
  /\ stage = "open"
  /\ hand[s] = <<>> /\ ~CloseRead(s)
  /\ arriving[s] # <<>> /\ Head(arriving[s]) # BadFrame
  /\ hand' = [hand EXCEPT ![s] = <<Head(arriving[s])>>]
  /\ arriving' = [arriving EXCEPT ![s] = Tail(@)]
  /\ UNCHANGED <<stage, gone, sent, leaving, got>>

PumpWrites(s) ==
  /\ stage = "open"
  /\ hand[s] # <<>> /\ Takes(Other(s), hand[s][1])
  /\ Len(leaving[s]) < Room
  /\ leaving' = [leaving EXCEPT ![s] = Append(@, hand[s][1])]
  /\ hand' = [hand EXCEPT ![s] = <<>>]
  /\ UNCHANGED <<stage, gone, sent, arriving, got>>

(* bug: a Close ends the pump before it is passed on.                       *)
PumpEndsAtClose(s) ==
  /\ stage = "open"
  /\ \/ CloseRead(s) \/ Broken(s)
     \/ hand[s] = <<>> /\ s \in gone /\ arriving[s] = <<>>
     \/ hand[s] # <<>> /\ (Other(s) \in gone \/ ~Takes(Other(s), hand[s][1]))
  /\ stage' = "closed"
  /\ UNCHANGED <<gone, frames>>

(* bug: the end of a side's frames is waited for, but no failed send.       *)
PumpEndsAtEnd(s) ==
  /\ stage = "open"
  /\ hand[s] = <<>>
  /\ CloseRead(s) \/ Broken(s) \/ (s \in gone /\ arriving[s] = <<>>)
  /\ stage' = "closed"
  /\ UNCHANGED <<gone, frames>>

(* The stream of s has ended, as it does after a Close, or yields an error: *)
(* its connection is gone, which may leave frames of it unread, or its peer *)
(* has sent a bad frame; or the sink fails.  One pump is enough for select! *)
PumpEnds(s) ==
  /\ stage = "open"
  /\ \/ hand[s] = <<>> /\ (CloseRead(s) \/ s \in gone)
     \/ Broken(s)
     \/ hand[s] # <<>> /\ (Other(s) \in gone \/ ~Takes(Other(s), hand[s][1]))
  /\ stage' = "closed"
  /\ UNCHANGED <<gone, frames>>

Next ==
  \/ Connect
  \/ \E s \in Sides :
        \/ PeerSends(s) \/ PeerReads(s) \/ PeerLeaves(s)
        \/ PumpReads(s) \/ PumpWrites(s) \/ PumpEnds(s)

(* The relay's task is polled, and a stream does end after its Close, when  *)
(* tungstenite has answered it.  Nothing is assumed of the peers' reading. *)
Fairness ==
  \A s \in Sides : WF_vars(PumpReads(s)) /\ WF_vars(PumpWrites(s)) /\ WF_vars(PumpEnds(s))

Spec == Init /\ [][Next]_vars /\ Fairness

-----------------------------------------------------------------------------
(* Every variable has its type; a pump holds one frame at most, and a      *)
(* connection no more than its room.                                       *)
TypeOK ==
  /\ stage \in {"connecting", "failed", "open", "closed"}
  /\ gone \subseteq Sides
  /\ {sent, arriving, hand, leaving, got} \subseteq [Sides -> Seq(Frame)]
  /\ \A s \in Sides : Len(hand[s]) <= 1 /\ Len(leaving[s]) <= Room

(* Whatever the two directions do to each other, and wherever select! cuts *)
(* them, each passes its frames on in their order, each once, and without  *)
(* a gap before the cut (serve_websocket).                                 *)
RelayIntact ==
  \A s \in Sides : sent[s] = got[s] \o leaving[s] \o hand[s] \o arriving[s]

(* While both peers are there the relay ends only because one has closed,  *)
(* and the other is then told so, but for one collision: it had a frame in *)
(* the pump that the closing side takes no more; or because one has sent a *)
(* bad frame, all it sent before having been passed on.  The other is told *)
(* nothing then (serve_websocket: both pumps break on an Err, and the one  *)
(* that ends first cancels the other's send).                              *)
CloseIsPassedOn ==
  stage = "closed" /\ gone = {} =>
       \E s \in Sides :
         \/ Broken(s)
         \/ /\ CloseRead(s)
            /\ Contains(got[s] \o leaving[s], CloseFrame) \/ hand[Other(s)] # <<>>

Blocked(s) == hand[s] # <<>> /\ Len(leaving[s]) = Room

(* Once a side is gone the relay ends, unless it holds a frame for the     *)
(* other side forever, because that one has stopped reading: there is no   *)
(* timeout in serve_websocket, and the pump that waits for the sink does   *)
(* not see its own side go.                                                *)
RelayEndsOrIsBlocked ==
  \A s \in Sides :
    (stage = "open" /\ s \in gone) ~> (stage = "closed" \/ [](Blocked(s) /\ stage = "open"))
=============================================================================
