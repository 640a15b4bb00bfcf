------------------------ MODULE WebSocketRelayProofs ------------------------
(***************************************************************************)
(* Proofs about the WebSocket relay for any number of frames and any room  *)
(* of a connection.                                                        *)
(***************************************************************************)
EXTENDS WebSocketRelay, SequenceTheorems, TLAPS

-----------------------------------------------------------------------------
(* Sequences.                                                              *)

(* Moving the first element of s behind r changes nothing of both.          *)
LEMMA MoveHead ==
  ASSUME NEW S, NEW r \in Seq(S), NEW s \in Seq(S), s # <<>>
  PROVE  /\ Append(r, Head(s)) \in Seq(S) /\ Tail(s) \in Seq(S)
         /\ Len(Tail(s)) < Len(s)
         /\ Append(r, Head(s)) \o Tail(s) = r \o s
<1>1. /\ Head(s) \in S /\ Tail(s) \in Seq(S) /\ Len(Tail(s)) = Len(s) - 1
      /\ \A i \in 1..Len(Tail(s)) : Tail(s)[i] = s[i + 1]
      /\ Head(s) = s[1]
      /\ Len(s) \in Nat \ {0} /\ Len(r) \in Nat
  BY HeadTailProperties, LenProperties
<1>2. /\ Append(r, Head(s)) \in Seq(S)
      /\ Len(Append(r, Head(s))) = Len(r) + 1
      /\ \A i \in 1..Len(r) : Append(r, Head(s))[i] = r[i]
      /\ Append(r, Head(s))[Len(r) + 1] = Head(s)
  BY <1>1, AppendProperties
<1>3. Append(r, Head(s)) \o Tail(s) = r \o s
  OBVIOUS
<1>4. QED
  BY <1>1, <1>2, <1>3

(* An element behind s is one behind r and s.                               *)
LEMMA AppendLast ==
  \A r, s \in Seq(Frame) : \A f \in Frame : Append(r \o s, f) = r \o Append(s, f)
<1>1. ASSUME NEW r \in Seq(Frame), NEW s \in Seq(Frame), NEW f \in Frame
      PROVE  Append(r \o s, f) = r \o Append(s, f)
  OBVIOUS
<1>2. QED
  BY <1>1

(* A sequence of at most one element that is not empty has one.             *)
LEMMA OneElement ==
  ASSUME NEW S, NEW s \in Seq(S), s # <<>>, Len(s) <= 1
  PROVE  s = <<s[1]>> /\ s[1] \in S
<1>1. Len(s) = 1
  <2>1. Len(s) \in Nat \ {0}
    BY EmptySeq, Zenon
  <2>2. QED
    BY <2>1
<1>2. s[1] \in S
  BY <1>1, ElementOfSeq
<1>3. <<s[1]>> \in Seq(S) /\ Len(<<s[1]>>) = 1 /\ <<s[1]>>[1] = s[1]
  BY <1>2
<1>4. \A i \in 1..Len(s) : i = 1
  BY <1>1
<1>5. QED
  BY <1>1, <1>2, <1>3, <1>4, SeqEqual, SMT

-----------------------------------------------------------------------------
(* What each step does to the four sequences of each direction.            *)

(* The frames of s that its peer has or is about to have, and all of them.  *)
Passed(s) == got[s] \o leaving[s]
Relayed(s) == got[s] \o leaving[s] \o hand[s] \o arriving[s]

LEMMA OtherSide ==
  \A s \in Sides : Other(s) \in Sides /\ Other(s) # s /\ Other(Other(s)) = s
<1>1. \A s \in Sides : Other(s) \in Sides /\ Other(s) # s
  BY DEF Sides, Other
<1>2. QED
  BY <1>1 DEF Sides

(* No frame has been sent yet.                                             *)
LEMMA RelayInit == Init => TypeOK /\ RelayIntact /\ CloseIsPassedOn
<1> SUFFICES ASSUME Init PROVE TypeOK /\ RelayIntact /\ CloseIsPassedOn
  OBVIOUS
<1>1. <<>> \in Seq(Frame) /\ Len(<<>>) = 0 /\ <<>> \o <<>> = <<>>
  BY EmptySeq, ConcatEmptySeq
<1>2. TypeOK
  BY <1>1, RelayAssumption DEF Init, TypeOK, Frame
<1>3. RelayIntact
  BY <1>1 DEF Init, RelayIntact
<1>4. CloseIsPassedOn
  BY DEF Init, CloseIsPassedOn
<1>5. QED
  BY <1>2, <1>3, <1>4

(* A new frame comes last ...                                              *)
LEMMA SendEffect ==
  ASSUME TypeOK, NEW s \in Sides, PeerSends(s)
  PROVE  TypeOK' /\ \A t \in Sides : sent[t] = Relayed(t) => sent'[t] = Relayed(t)'
<1> USE DEF TypeOK
<1>1. PICK f \in {Len(sent[s]) + 1, CloseFrame, BadFrame} :
        /\ sent' = [sent EXCEPT ![s] = Append(@, f)]
        /\ arriving' = [arriving EXCEPT ![s] = Append(@, f)]
  BY DEF PeerSends
<1>2. f \in Frame
  <2>1. Len(sent[s]) \in Nat /\ Len(sent[s]) < MaxSent
    BY LenProperties DEF PeerSends
  <2>2. QED
    BY <1>1, <2>1, RelayAssumption DEF Frame, CloseFrame, BadFrame
<1>3. Append(sent[s], f) \in Seq(Frame) /\ Append(arriving[s], f) \in Seq(Frame)
  BY <1>2, AppendProperties DEF Frame
<1>4. UNCHANGED <<stage, gone, hand, leaving, got>>
  BY DEF PeerSends
<1>5. TypeOK'
  BY <1>1, <1>3, <1>4 DEF Frame
<1>6. sent[s] = Relayed(s) => sent'[s] = Relayed(s)'
  <2>1. (got[s] \o leaving[s]) \o hand[s] \in Seq(Frame) /\ arriving[s] \in Seq(Frame)
    BY ConcatProperties DEF Frame
  <2>2. Append(Relayed(s), f) = (got[s] \o leaving[s] \o hand[s]) \o Append(arriving[s], f)
    BY <1>2, <2>1, AppendLast, Zenon DEF Relayed
  <2>3. QED
    BY <1>1, <1>4, <2>2 DEF Relayed
<1>7. \A t \in Sides \ {s} : sent'[t] = sent[t] /\ Relayed(t)' = Relayed(t)
  BY <1>1, <1>4 DEF Relayed
<1>8. QED
  BY <1>5, <1>6, <1>7

(* ... a frame that is read by the other side stays behind those before ... *)
LEMMA ReadEffect ==
  ASSUME TypeOK, NEW s \in Sides, PeerReads(s)
  PROVE  TypeOK' /\ sent' = sent /\ hand' = hand
         /\ \A t \in Sides : Passed(t)' = Passed(t) /\ Relayed(t)' = Relayed(t)
<1> USE DEF TypeOK
<1> DEFINE from == Other(s)
<1>1. from \in Sides
  BY OtherSide
<1>2. /\ leaving[from] # <<>>
      /\ got' = [got EXCEPT ![from] = Append(@, Head(leaving[from]))]
      /\ leaving' = [leaving EXCEPT ![from] = Tail(@)]
      /\ UNCHANGED <<stage, gone, sent, arriving, hand>>
  BY DEF PeerReads
<1> HIDE DEF from
<1>3. got[from] \in Seq(Frame) /\ leaving[from] \in Seq(Frame)
  BY <1>1 DEF Frame
<1>4. /\ Append(got[from], Head(leaving[from])) \in Seq(Frame)
      /\ Tail(leaving[from]) \in Seq(Frame)
      /\ Len(Tail(leaving[from])) < Len(leaving[from])
      /\ Append(got[from], Head(leaving[from])) \o Tail(leaving[from]) = got[from] \o leaving[from]
  BY <1>2, <1>3, MoveHead
<1>5. Len(Tail(leaving[from])) <= Room
  BY <1>1, <1>3, <1>4, LenProperties, RelayAssumption
<1>6. TypeOK'
  BY <1>1, <1>2, <1>4, <1>5 DEF Frame
<1>7. \A t \in Sides : Passed(t)' = Passed(t)
  BY <1>1, <1>2, <1>4 DEF Passed
<1>8. \A t \in Sides : Relayed(t)' = Relayed(t)
  BY <1>2, <1>7 DEF Passed, Relayed
<1>9. QED
  BY <1>2, <1>6, <1>7, <1>8

(* ... one that a pump reads was the next, and its hand is empty ...       *)
LEMMA PumpReadEffect ==
  ASSUME TypeOK, NEW s \in Sides, PumpReads(s)
  PROVE  TypeOK' /\ sent' = sent /\ \A t \in Sides : Relayed(t)' = Relayed(t)
<1> USE DEF TypeOK
<1>1. /\ hand[s] = <<>> /\ arriving[s] # <<>>
      /\ hand' = [hand EXCEPT ![s] = <<Head(arriving[s])>>]
      /\ arriving' = [arriving EXCEPT ![s] = Tail(@)]
      /\ UNCHANGED <<stage, gone, sent, leaving, got>>
  BY DEF PumpReads
<1>2. got[s] \in Seq(Frame) /\ leaving[s] \in Seq(Frame) /\ arriving[s] \in Seq(Frame)
  BY DEF Frame
<1>3. Passed(s) \in Seq(Frame)
  BY <1>2, ConcatProperties DEF Passed
<1>4. Head(arriving[s]) \in Frame /\ Tail(arriving[s]) \in Seq(Frame)
  BY <1>1, <1>2, HeadTailProperties
<1>5. TypeOK'
  <2>1. <<Head(arriving[s])>> \in Seq(Frame) /\ Len(<<Head(arriving[s])>>) = 1
    BY <1>4
  <2>2. QED
    BY <1>1, <1>4, <2>1 DEF Frame
<1>6. (Passed(s) \o <<Head(arriving[s])>>) \o Tail(arriving[s]) = (Passed(s) \o <<>>) \o arriving[s]
  <2>1. Append(Passed(s), Head(arriving[s])) \o Tail(arriving[s]) = Passed(s) \o arriving[s]
    BY <1>1, <1>2, <1>3, MoveHead
  <2>2. Append(Passed(s), Head(arriving[s])) = Passed(s) \o <<Head(arriving[s])>>
    BY <1>3, <1>4, AppendIsConcat
  <2>3. Passed(s) \o <<>> = Passed(s)
    BY <1>3, ConcatEmptySeq
  <2>4. QED
    BY <2>1, <2>2, <2>3
<1>7. \A t \in Sides : Relayed(t)' = Relayed(t)
  BY <1>1, <1>6 DEF Relayed, Passed
<1>8. QED
  BY <1>1, <1>5, <1>7

(* ... and one that the sink takes was the only one in the hand.            *)
LEMMA PumpWriteEffect ==
  ASSUME TypeOK, NEW s \in Sides, PumpWrites(s)
  PROVE  TypeOK' /\ sent' = sent /\ \A t \in Sides : Relayed(t)' = Relayed(t)
<1> USE DEF TypeOK
<1>1. /\ hand[s] # <<>> /\ Len(leaving[s]) < Room
      /\ leaving' = [leaving EXCEPT ![s] = Append(@, hand[s][1])]
      /\ hand' = [hand EXCEPT ![s] = <<>>]
      /\ UNCHANGED <<stage, gone, sent, arriving, got>>
  BY DEF PumpWrites
<1>2. got[s] \in Seq(Frame) /\ leaving[s] \in Seq(Frame) /\ hand[s] \in Seq(Frame)
  BY DEF Frame
<1>3. hand[s] = <<hand[s][1]>> /\ hand[s][1] \in Frame
  BY <1>1, <1>2, OneElement
<1>4. /\ Append(leaving[s], hand[s][1]) \in Seq(Frame)
      /\ Len(Append(leaving[s], hand[s][1])) = Len(leaving[s]) + 1
  BY <1>2, <1>3, AppendProperties
<1>5. TypeOK'
  <2>1. Len(leaving[s]) + 1 <= Room
    BY <1>1, <1>2, LenProperties, RelayAssumption
  <2>2. <<>> \in Seq(Frame) /\ Len(<<>>) = 0
    BY EmptySeq
  <2>3. QED
    BY <1>1, <1>4, <2>1, <2>2 DEF Frame
<1>6. (got[s] \o Append(leaving[s], hand[s][1])) \o <<>> = (got[s] \o leaving[s]) \o hand[s]
  <2>1. got[s] \o leaving[s] \in Seq(Frame)
    BY <1>2, ConcatProperties
  <2>2. got[s] \o Append(leaving[s], hand[s][1]) = Append(got[s] \o leaving[s], hand[s][1])
    BY <1>2, <1>3, AppendLast, Zenon
  <2>3. Append(got[s] \o leaving[s], hand[s][1]) = (got[s] \o leaving[s]) \o <<hand[s][1]>>
    BY <1>3, <2>1, AppendIsConcat
  <2>4. Append(got[s] \o leaving[s], hand[s][1]) \in Seq(Frame)
    BY <1>3, <2>1, AppendProperties
  <2>5. QED
    BY <1>3, <2>2, <2>3, <2>4, ConcatEmptySeq
<1>7. \A t \in Sides : Relayed(t)' = Relayed(t)
  BY <1>1, <1>6 DEF Relayed
<1>8. QED
  BY <1>1, <1>5, <1>7

-----------------------------------------------------------------------------
(* The invariants.                                                         *)

(* Every step keeps the types, the hand of one frame and the room.          *)
LEMMA RelayTypeStep == TypeOK /\ [Next]_vars => TypeOK'
<1> SUFFICES ASSUME TypeOK, [Next]_vars PROVE TypeOK'
  OBVIOUS
<1>1. ASSUME NEW s \in Sides, PeerSends(s) \/ PeerReads(s) \/ PumpReads(s) \/ PumpWrites(s)
      PROVE  TypeOK'
  BY <1>1, SendEffect, ReadEffect, PumpReadEffect, PumpWriteEffect
<1>2. ASSUME Connect \/ \E s \in Sides : PeerLeaves(s) \/ PumpEnds(s) PROVE TypeOK'
  BY <1>2 DEF Connect, PeerLeaves, PumpEnds, TypeOK, frames
<1>3. CASE UNCHANGED vars
  BY <1>3 DEF vars, frames, TypeOK
<1>4. QED
  BY <1>1, <1>2, <1>3 DEF Next

(* Every step keeps the frames of each side together and in order.          *)
LEMMA RelayStep == TypeOK /\ RelayIntact /\ [Next]_vars => RelayIntact'
<1> SUFFICES ASSUME TypeOK, RelayIntact, [Next]_vars PROVE RelayIntact'
  OBVIOUS
<1>1. \A s \in Sides : sent[s] = Relayed(s)
  BY DEF RelayIntact, Relayed
<1>2. ASSUME NEW s \in Sides, PeerSends(s) \/ PeerReads(s) \/ PumpReads(s) \/ PumpWrites(s)
      PROVE  \A t \in Sides : sent'[t] = Relayed(t)'
  BY <1>1, <1>2, SendEffect, ReadEffect, PumpReadEffect, PumpWriteEffect
<1>3. ASSUME UNCHANGED frames PROVE RelayIntact'
  BY <1>3 DEF frames, RelayIntact
<1>4. ASSUME Connect \/ \E s \in Sides : PeerLeaves(s) \/ PumpEnds(s) PROVE UNCHANGED frames
  BY <1>4 DEF Connect, PeerLeaves, PumpEnds
<1>5. QED
  BY <1>2, <1>3, <1>4 DEF Next, vars, RelayIntact, Relayed

(* What a peer sends comes behind a bad frame that is there.                *)
LEMMA BrokenStays ==
  ASSUME TypeOK, NEW s \in Sides, NEW t \in Sides, Broken(s), PeerSends(t)
  PROVE  Broken(s)'
<1>1. PICK f \in Frame : arriving' = [arriving EXCEPT ![t] = Append(@, f)]
  <2>1. PICK f \in {Len(sent[t]) + 1, CloseFrame, BadFrame} :
          arriving' = [arriving EXCEPT ![t] = Append(@, f)]
    BY DEF PeerSends
  <2>2. Len(sent[t]) \in Nat /\ Len(sent[t]) < MaxSent
    BY LenProperties DEF PeerSends, TypeOK
  <2>3. f \in Frame
    BY <2>2, RelayAssumption DEF Frame, CloseFrame, BadFrame
  <2>4. QED
    BY <2>1, <2>3, Zenon
<1>2. arriving[s] \in Seq(Frame) /\ arriving[s] # <<>>
  BY DEF TypeOK, Broken
<1>3. Append(arriving[s], f) # <<>> /\ Head(Append(arriving[s], f)) = Head(arriving[s])
  BY <1>2
<1>4. arriving'[s] = arriving[s] \/ arriving'[s] = Append(arriving[s], f)
  BY <1>1 DEF TypeOK
<1>5. hand' = hand
  BY DEF PeerSends
<1>6. QED
  BY <1>2, <1>3, <1>4, <1>5 DEF Broken

(* A pump ends with both peers there only behind a Close or a bad frame;    *)
(* once it has, no step takes that Close back from where the other side    *)
(* finds it, nor the bad frame from the head of its stream.                *)
LEMMA CloseStep == TypeOK /\ CloseIsPassedOn /\ [Next]_vars => CloseIsPassedOn'
<1> DEFINE Told(s) == CloseRead(s) /\ (Contains(Passed(s), CloseFrame) \/ hand[Other(s)] # <<>>)
           Explained(s) == Broken(s) \/ Told(s)
<1> SUFFICES ASSUME TypeOK, CloseIsPassedOn, [Next]_vars, stage' = "closed", gone' = {}
             PROVE  (\E s \in Sides : Explained(s))'
  BY DEF CloseIsPassedOn, Passed
<1>1. stage = "closed" /\ gone = {} => \E s \in Sides : Explained(s)
  BY DEF CloseIsPassedOn, Passed
<1>2. ASSUME NEW s \in Sides, PumpEnds(s) PROVE (\E t \in Sides : Explained(t))'
  <2>1. UNCHANGED <<got, leaving, hand, arriving>> /\ gone = {}
    BY <1>2 DEF PumpEnds, frames
  <2>2. CASE hand[s] = <<>> /\ CloseRead(s)
    <3>1. Passed(s) \in Seq(Frame)
      BY ConcatProperties DEF TypeOK, Passed
    <3>2. Passed(s) \o hand[s] = Passed(s)
      BY <2>2, <3>1, ConcatEmptySeq
    <3>3. Told(s)
      BY <2>2, <3>2 DEF CloseRead, Passed
    <3>4. QED
      BY <2>1, <3>3 DEF CloseRead, Passed
  <2>3. CASE hand[s] # <<>> /\ ~Takes(Other(s), hand[s][1])
    <3>1. Told(Other(s)) /\ Other(s) \in Sides
      BY <2>3, OtherSide DEF Takes
    <3>2. QED
      BY <2>1, <3>1 DEF CloseRead, Passed
  <2>4. CASE Broken(s)
    BY <2>1, <2>4 DEF Broken
  <2>5. QED
    BY <1>2, <2>1, <2>2, <2>3, <2>4 DEF PumpEnds
<1>3. ASSUME NEW s \in Sides, PeerReads(s) PROVE (\E t \in Sides : Explained(t))'
  <2>1. stage = "closed" /\ gone = {} /\ arriving' = arriving
    BY <1>3 DEF PeerReads
  <2>2. hand' = hand /\ \A t \in Sides : Passed(t)' = Passed(t)
    BY <1>3, ReadEffect
  <2>3. QED
    BY <1>1, <2>1, <2>2 DEF CloseRead, Passed, Broken
<1>4. ASSUME NEW s \in Sides, PeerSends(s) PROVE (\E t \in Sides : Explained(t))'
  <2>1. PICK t \in Sides : Explained(t)
    BY <1>1, <1>4 DEF PeerSends
  <2>2. CASE Broken(t)
    BY <1>4, <2>2, BrokenStays
  <2>3. CASE Told(t)
    BY <1>4, <2>3 DEF PeerSends, CloseRead, Passed
  <2>4. QED
    BY <2>1, <2>2, <2>3
<1>5. CASE UNCHANGED vars
  BY <1>1, <1>5 DEF vars, frames, CloseRead, Passed, Broken
<1>6. ASSUME NEW s \in Sides, PeerLeaves(s) PROVE FALSE
  BY <1>6 DEF PeerLeaves
<1>7. ASSUME Connect \/ \E s \in Sides : PumpReads(s) \/ PumpWrites(s) PROVE FALSE
  BY <1>7 DEF Connect, PumpReads, PumpWrites
<1>8. QED
  BY <1>2, <1>3, <1>4, <1>5, <1>6, <1>7 DEF Next

-----------------------------------------------------------------------------
(* Every variable keeps its type, a pump never holds two frames and a      *)
(* connection never more than its room (serve_websocket).                  *)
THEOREM RelayTypeCorrect == Spec => []TypeOK
BY RelayInit, RelayTypeStep, PTL DEF Spec

(* For any room and any number of frames, both directions at once: what a   *)
(* side has got, what is under way and what waits are together what the    *)
(* other has sent, in its order (serve_websocket).                         *)
THEOREM FramesStayInOrder == Spec => []RelayIntact
BY RelayInit, RelayTypeStep, RelayStep, PTL DEF Spec

(* The relay ends between two peers that are both there only because one    *)
(* closes and the other is told, in the one collision of a Close with a    *)
(* frame in the other pump, or because one breaks the protocol, behind all *)
(* it sent before (the Err arms and the select! of serve_websocket).       *)
THEOREM CloseReachesOther == Spec => []CloseIsPassedOn
BY RelayInit, RelayTypeStep, CloseStep, PTL DEF Spec
-----------------------------------------------------------------------------
(* What is left of a side that has gone.                                   *)

(* The steps the pump of s still makes to pass on what s has sent.          *)
Undelivered(s) == Len(arriving[s]) + Len(arriving[s]) + Len(hand[s])

(* A side that has gone stays gone and sends no more, and every read and    *)
(* every write of its pump leaves less to pass on.                         *)
GoneSideDrains ==
  \A s \in gone :
    /\ s \in gone'
    /\ Undelivered(s)' <= Undelivered(s)
    /\ PumpReads(s) \/ PumpWrites(s) => Undelivered(s)' < Undelivered(s)

(* The measure is a number, which a read and a write each make smaller.     *)
LEMMA UndeliveredType ==
  TypeOK => \A s \in Sides : Undelivered(s) \in Nat
<1> SUFFICES ASSUME TypeOK, NEW s \in Sides PROVE Undelivered(s) \in Nat
  OBVIOUS
<1>1. arriving[s] \in Seq(Frame) /\ hand[s] \in Seq(Frame)
  BY DEF TypeOK, Frame
<1>2. \A a, h \in Seq(Frame) : Len(a) + Len(a) + Len(h) \in Nat
  BY LenProperties
<1>3. QED
  BY <1>1, <1>2, Zenon DEF Undelivered

LEMMA ReadDrains ==
  ASSUME TypeOK, NEW s \in Sides, PumpReads(s)
  PROVE  /\ Undelivered(s)' < Undelivered(s)
         /\ \A t \in Sides \ {s} : Undelivered(t)' = Undelivered(t)
<1>1. /\ hand[s] = <<>> /\ arriving[s] # <<>>
      /\ hand' = [hand EXCEPT ![s] = <<Head(arriving[s])>>]
      /\ arriving' = [arriving EXCEPT ![s] = Tail(@)]
      /\ hand \in [Sides -> Seq(Frame)] /\ arriving \in [Sides -> Seq(Frame)]
  BY DEF PumpReads, TypeOK, Frame
<1>2. Len(arriving[s]) \in Nat /\ Len(Tail(arriving[s])) = Len(arriving[s]) - 1
  BY <1>1, HeadTailProperties, LenProperties
<1>3. Len(<<Head(arriving[s])>>) = 1 /\ Len(<<>>) = 0
  OBVIOUS
<1>4. Undelivered(s)' = (Len(arriving[s]) - 1) + (Len(arriving[s]) - 1) + 1
  BY <1>1, <1>2, <1>3 DEF Undelivered
<1>5. Undelivered(s) = Len(arriving[s]) + Len(arriving[s]) + 0
  BY <1>1, <1>3 DEF Undelivered
<1>6. \A t \in Sides \ {s} : Undelivered(t)' = Undelivered(t)
  BY <1>1 DEF Undelivered
<1>7. QED
  BY <1>2, <1>4, <1>5, <1>6

(* A write empties the hand.                                               *)
LEMMA WriteDrains ==
  ASSUME TypeOK, NEW s \in Sides, PumpWrites(s)
  PROVE  /\ Undelivered(s)' < Undelivered(s)
         /\ \A t \in Sides \ {s} : Undelivered(t)' = Undelivered(t)
<1>1. /\ hand[s] # <<>>
      /\ hand' = [hand EXCEPT ![s] = <<>>]
      /\ arriving' = arriving
      /\ hand \in [Sides -> Seq(Frame)]
  BY DEF PumpWrites, TypeOK, Frame
<1>2. Len(arriving[s]) \in Nat /\ Len(hand[s]) \in Nat
  BY LenProperties DEF TypeOK
<1>3. Len(hand[s]) # 0 /\ Len(<<>>) = 0
  BY <1>1, EmptySeq
<1>4. Undelivered(s)' = Len(arriving[s]) + Len(arriving[s]) + 0
  BY <1>1, <1>3 DEF Undelivered
<1>5. \A t \in Sides \ {s} : Undelivered(t)' = Undelivered(t)
  BY <1>1 DEF Undelivered
<1>6. Undelivered(s) = Len(arriving[s]) + Len(arriving[s]) + Len(hand[s])
  BY DEF Undelivered
<1>7. Undelivered(s)' < Undelivered(s)
  <2>1. \A a, h \in Nat : h # 0 => a + a + 0 < a + a + h
    OBVIOUS
  <2>2. Len(arriving[s]) + Len(arriving[s]) + 0 < Len(arriving[s]) + Len(arriving[s]) + Len(hand[s])
    BY <1>2, <1>3, <2>1, Zenon
  <2>3. QED
    BY <1>4, <1>6, <2>2, Zenon
<1>8. QED
  BY <1>5, <1>7

(* No other step gives the pump of a side that has gone anything.           *)
LEMMA GoneStep == TypeOK /\ [Next]_vars => [GoneSideDrains]_vars
<1> SUFFICES ASSUME TypeOK, [Next]_vars, NEW s \in gone
             PROVE  /\ s \in gone'
                    /\ Undelivered(s)' <= Undelivered(s)
                    /\ PumpReads(s) \/ PumpWrites(s) => Undelivered(s)' < Undelivered(s)
  BY DEF GoneSideDrains
<1>1. s \in Sides
  BY DEF TypeOK
<1>2. s \in gone'
  BY DEF Next, Connect, PeerSends, PeerReads, PeerLeaves, PumpReads, PumpWrites, PumpEnds, vars
<1>3. Undelivered(s) \in Nat /\ Undelivered(s)' \in Nat
  <2>1. TypeOK'
    BY RelayTypeStep
  <2>2. arriving'[s] \in Seq(Frame) /\ hand'[s] \in Seq(Frame)
    BY <1>1, <2>1 DEF TypeOK, Frame
  <2>3. \A a, h \in Seq(Frame) : Len(a) + Len(a) + Len(h) \in Nat
    BY LenProperties
  <2>4. Undelivered(s)' \in Nat
    BY <2>2, <2>3, Zenon DEF Undelivered
  <2>5. QED
    BY <1>1, <2>4, UndeliveredType
<1>4. PumpReads(s) \/ PumpWrites(s) => Undelivered(s)' < Undelivered(s)
  BY <1>1, ReadDrains, WriteDrains
<1>5. ASSUME NEW t \in Sides, PumpReads(t) \/ PumpWrites(t), t # s
      PROVE  Undelivered(s)' = Undelivered(s)
  BY <1>1, <1>5, ReadDrains, WriteDrains
<1>6. ASSUME NEW t \in Sides, PeerSends(t) PROVE Undelivered(s)' = Undelivered(s)
  <2>1. t # s /\ hand' = hand
    BY <1>6 DEF PeerSends, Attached
  <2>2. arriving'[s] = arriving[s]
    BY <1>1, <1>6, <2>1 DEF PeerSends, TypeOK
  <2>3. QED
    BY <2>1, <2>2 DEF Undelivered
<1>7. ASSUME \/ Connect \/ UNCHANGED vars
             \/ \E t \in Sides : PeerReads(t) \/ PeerLeaves(t) \/ PumpEnds(t)
      PROVE  Undelivered(s)' = Undelivered(s)
  <2>1. hand' = hand /\ arriving' = arriving
    BY <1>7 DEF Connect, PeerReads, PeerLeaves, PumpEnds, vars, frames
  <2>2. QED
    BY <2>1 DEF Undelivered
<1>8. Undelivered(s)' = Undelivered(s) \/ Undelivered(s)' < Undelivered(s)
  BY <1>4, <1>5, <1>6, <1>7, Zenon DEF Next
<1>9. Undelivered(s)' <= Undelivered(s)
  <2>1. \A m, n \in Nat : m = n \/ m < n => m <= n
    OBVIOUS
  <2>2. QED
    BY <1>3, <1>8, <2>1, Zenon
<1>10. QED
  BY <1>2, <1>4, <1>9

(* The safety behind RelayEndsOrIsBlocked, for any number of frames: once   *)
(* a side has gone its pump reads and writes only so often, so that it     *)
(* ends the relay or waits in one send for good (serve_websocket).         *)
THEOREM GoneSideIsDrained == Spec => [][GoneSideDrains]_vars
BY RelayTypeCorrect, GoneStep, PTL DEF Spec
=============================================================================
