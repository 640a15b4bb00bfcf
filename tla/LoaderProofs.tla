---------------------------- MODULE LoaderProofs ----------------------------
(***************************************************************************)
(* Proofs about HtmlLoader, for every set of documents and urls, every     *)
(* number of chunks and every channel capacity, and about the two          *)
(* specifications built on it.  Pipeline: the handlers and the loader on   *)
(* one channel keep what each promises on its own, and agree on what is    *)
(* captured.  SerialLoader: loads of a page that follow each other         *)
(* implement PageVersions, on a machine whose power may fail.  They share  *)
(* no variable but HtmlLoader's.                                           *)
(***************************************************************************)
EXTENDS Pipeline, SerialLoader, SequenceTheorems, TLAPS

-----------------------------------------------------------------------------
(* The loader.                                                             *)

(* The channel never exceeds its capacity and holds each document that     *)
(* waits for a task exactly once (mpsc::channel, loader.start).            *)
ChannelHoldsQueued ==
  /\ Len(channel) <= Capacity
  /\ IsInjective(channel)
  /\ Range(channel) = {d \in Docs : phase[d] = "queued"}

(* The table holds rows only of chunks a task has already gone through,    *)
(* and none of a document whose body was rejected or whose delete failed   *)
(* (process_document returns before its loop).                             *)
RowsAreProcessed ==
  \A d \in Docs :
    /\ entries[d] \subseteq 1..cursor[d]
    /\ phase[d] \notin {"adding", "done", "lost"} => cursor[d] = 0

(* An older capture of a page is one of the same url, and its load stays   *)
(* ended.                                                                  *)
OlderEnded ==
  \A d \in Docs : \A e \in older[d] : SameUrl(d, e) /\ phase[e] \in Ended

(* The inductive invariant: what the history variables say of the table    *)
(* needs the types, the loop bounds, the owner of each url, that a         *)
(* document leaves the channel only once, and that no task comes back.     *)
TableInv ==
  /\ TypeOK
  /\ ChannelHoldsQueued
  /\ RowsAreProcessed
  /\ OwnerOrOvertaken
  /\ LastLoadComplete
  /\ OlderEnded
  /\ NoOldVersionReturns

(* Each phase of a task is a phase, and a task goes on to one of two.      *)
LEMMA LoopPhaseType ==
  ASSUME NEW d, NEW n PROVE LoopPhase(d, n) \in {"adding", "done"}
BY DEF LoopPhase

(* The table starts empty and the invariant holds.                         *)
LEMMA TableInit == Init => TableInv
<1> SUFFICES ASSUME Init PROVE TableInv
  OBVIOUS
<1> USE TableAssumption, LoaderAssumption DEF Init, EmptyTable
<1>1. TypeOK
  BY DEF TypeOK, Phases
<1>2. ChannelHoldsQueued /\ RowsAreProcessed /\ OwnerOrOvertaken
  BY DEF ChannelHoldsQueued, RowsAreProcessed, OwnerOrOvertaken, Range, IsInjective
<1>3. LastLoadComplete
  BY DEF LastLoadComplete
<1>4. OlderEnded /\ NoOldVersionReturns
  BY DEF OlderEnded, NoOldVersionReturns
<1>5. QED
  BY <1>1, <1>2, <1>3, <1>4 DEF TableInv

(* A value put behind others stays the only one of its kind.                *)
LEMMA AppendOnce ==
  ASSUME NEW D, NEW s \in Seq(D), NEW x \in D, IsInjective(s), x \notin Range(s)
  PROVE  /\ Append(s, x) \in Seq(D)
         /\ IsInjective(Append(s, x))
         /\ Range(Append(s, x)) = Range(s) \cup {x}
<1>1. /\ Append(s, x) \in Seq(D)
      /\ DOMAIN s = 1..Len(s) /\ Len(s) \in Nat
      /\ DOMAIN Append(s, x) = 1..(Len(s) + 1)
      /\ \A i \in 1..Len(s) : Append(s, x)[i] = s[i]
      /\ Append(s, x)[Len(s) + 1] = x
  BY AppendProperties
<1>2. IsInjective(Append(s, x))
  BY <1>1 DEF IsInjective, Range
<1>3. Range(Append(s, x)) = Range(s) \cup {x}
  BY <1>1 DEF Range
<1>4. QED
  BY <1>1, <1>2, <1>3

(* Taking the first of values that occur once leaves the others.            *)
LEMMA TailOnce ==
  ASSUME NEW D, NEW s \in Seq(D), s # <<>>, IsInjective(s)
  PROVE  /\ Tail(s) \in Seq(D) /\ Len(Tail(s)) = Len(s) - 1
         /\ IsInjective(Tail(s))
         /\ Head(s) \in Range(s)
         /\ Range(Tail(s)) = Range(s) \ {Head(s)}
<1>1. /\ Head(s) = s[1]
      /\ Tail(s) \in Seq(D) /\ Len(Tail(s)) = Len(s) - 1
      /\ DOMAIN s = 1..Len(s) /\ Len(s) \in Nat \ {0}
      /\ DOMAIN Tail(s) = 1..(Len(s) - 1)
      /\ \A i \in 1..(Len(s) - 1) : Tail(s)[i] = s[i + 1]
  BY HeadTailProperties
<1>2. IsInjective(Tail(s)) /\ Head(s) \in Range(s)
  BY <1>1 DEF IsInjective, Range
<1>3. Range(Tail(s)) \subseteq Range(s) \ {Head(s)}
  BY <1>1 DEF IsInjective, Range
<1>4. ASSUME NEW x \in Range(s) \ {Head(s)} PROVE x \in Range(Tail(s))
  <2>1. PICK i \in 1..Len(s) : s[i] = x
    BY <1>1 DEF Range
  <2>2. i - 1 \in 1..(Len(s) - 1) /\ Tail(s)[i - 1] = x
    BY <1>1, <2>1
  <2>3. QED
    BY <1>1, <2>2 DEF Range
<1>5. QED
  BY <1>1, <1>2, <1>3, <1>4

(* What one turn of the receive loop does: the oldest document, which was   *)
(* queued, gets a task.                                                    *)
LEMMA ReceiveEffect ==
  ASSUME TypeOK, ChannelHoldsQueued, Receive
  PROVE  /\ channel' \in Seq(Docs) /\ Len(channel') = Len(channel) - 1
         /\ IsInjective(channel')
         /\ Range(channel') = Range(channel) \ {Head(channel)}
         /\ Head(channel) \in Docs
         /\ phase[Head(channel)] = "queued"
         /\ phase' = [phase EXCEPT ![Head(channel)] = "spawned"]
         /\ UNCHANGED <<process, cursor, entries, owner, overtaken, failed, older>>
<1>1. channel \in Seq(Docs) /\ channel # <<>> /\ IsInjective(channel)
  BY DEF TypeOK, ChannelHoldsQueued, Receive
<1>2. Head(channel) \in Docs /\ phase[Head(channel)] = "queued"
  BY <1>1, TailOnce DEF ChannelHoldsQueued
<1>3. QED
  BY <1>1, <1>2, TailOnce DEF Receive, historyVars

(* What the delete of d does, field by field: the rows of its url are gone, *)
(* d owns the url, and only tasks of the url in their loop are overtaken.  *)
LEMMA DeleteOldEffect ==
  ASSUME TypeOK, RowsAreProcessed, NEW d \in Docs, DeleteOld(d)
  PROVE  /\ cursor[d] = 0
         /\ phase' \in [Docs -> Phases]
         /\ phase'[d] = LoopPhase(d, 0)
         /\ \A e \in Docs \ {d} : phase'[e] = phase[e]
         /\ entries' \in [Docs -> SUBSET Nat]
         /\ \A e \in Docs : entries'[e] = IF SameUrl(d, e) THEN {} ELSE entries[e]
         /\ owner' \in [Urls -> Docs \cup {None}]
         /\ \A e \in Docs : owner'[UrlOf[e]] = IF SameUrl(d, e) THEN d ELSE owner[UrlOf[e]]
         /\ overtaken' \in [Docs -> SUBSET Docs]
         /\ \A e \in Docs : overtaken'[e] = IF phase[e] = "adding" /\ SameUrl(d, e)
                                            THEN overtaken[e] \cup {d}
                                            ELSE overtaken[e]
         /\ UNCHANGED <<process, channel, cursor, failed, older>>
<1> USE TableAssumption, LoaderAssumption DEF TypeOK, DeleteOld
<1>1. cursor[d] = 0 /\ UNCHANGED <<process, channel, cursor, failed, older>>
  BY DEF RowsAreProcessed
<1>2. /\ phase' \in [Docs -> Phases]
      /\ phase'[d] = LoopPhase(d, 0)
      /\ \A e \in Docs \ {d} : phase'[e] = phase[e]
  BY LoopPhaseType DEF Phases, Running, Ended
<1>3. /\ entries' \in [Docs -> SUBSET Nat]
      /\ \A e \in Docs : entries'[e] = IF SameUrl(d, e) THEN {} ELSE entries[e]
  BY DEF DeleteByUrl, SameUrl
<1>4. /\ owner' \in [Urls -> Docs \cup {None}]
      /\ \A e \in Docs : owner'[UrlOf[e]] = IF SameUrl(d, e) THEN d ELSE owner[UrlOf[e]]
  BY DEF SameUrl
<1>5. /\ overtaken' \in [Docs -> SUBSET Docs]
      /\ \A e \in Docs : overtaken'[e] = IF phase[e] = "adding" /\ SameUrl(d, e)
                                         THEN overtaken[e] \cup {d}
                                         ELSE overtaken[e]
  OBVIOUS
<1>6. QED
  BY <1>1, <1>2, <1>3, <1>4, <1>5

(* Every step preserves the types and the loop bounds.                      *)
LEMMA TypeStep ==
  ASSUME TypeOK, ChannelHoldsQueued, RowsAreProcessed, [Next]_vars
  PROVE  TypeOK'
<1> USE TableAssumption, LoaderAssumption DEF TypeOK, RowsAreProcessed, Phases, Running, Ended, historyVars
<1>1. ASSUME NEW d \in Docs, Send(d) PROVE TypeOK'
  BY <1>1 DEF Send, Enqueue
<1>2. CASE Receive
  <2>1. /\ channel' \in Seq(Docs)
        /\ Head(channel) \in Docs
        /\ phase' = [phase EXCEPT ![Head(channel)] = "spawned"]
        /\ UNCHANGED <<process, cursor, entries, owner, overtaken, failed, older>>
    BY <1>2, ReceiveEffect
  <2>2. QED
    BY <2>1
<1>3. ASSUME NEW d \in Docs, SplitBody(d) PROVE TypeOK'
  BY <1>3 DEF SplitBody
<1>4. ASSUME NEW d \in Docs, DeleteOld(d) PROVE TypeOK'
  BY <1>4, DeleteOldEffect DEF SameUrl, LoopPhase
<1>5. ASSUME NEW d \in Docs, DeleteFails(d) PROVE TypeOK'
  BY <1>5 DEF DeleteFails
<1>6. ASSUME NEW d \in Docs, AddChunk(d) PROVE TypeOK'
  BY <1>6 DEF AddChunk, NextChunk, InsertRow, LoopPhase
<1>7. ASSUME NEW d \in Docs, AddFails(d) PROVE TypeOK'
  BY <1>7 DEF AddFails, NextChunk, LoopPhase
<1>8. CASE Leave
  BY <1>8 DEF Leave, LoseDocs
<1>9. CASE Exit
  BY <1>9 DEF Exit, LoseDocs
<1>10. CASE Restart
  BY <1>10 DEF Restart
<1>11. CASE UNCHANGED vars
  BY <1>11 DEF vars
<1>12. QED
  BY <1>1, <1>2, <1>3, <1>4, <1>5, <1>6, <1>7, <1>8, <1>9, <1>10, <1>11 DEF Next, Task

(* Every step keeps the channel bounded and holding just the queued        *)
(* documents, each once.                                                   *)
LEMMA ChannelStep ==
  ASSUME TypeOK, ChannelHoldsQueued, RowsAreProcessed, [Next]_vars
  PROVE  ChannelHoldsQueued'
<1>1. ASSUME NEW d \in Docs, Send(d) PROVE ChannelHoldsQueued'
  <2>1. /\ channel \in Seq(Docs) /\ IsInjective(channel) /\ d \notin Range(channel)
        /\ channel' = Append(channel, d)
        /\ Len(channel) < Capacity
        /\ phase' = [phase EXCEPT ![d] = "queued"]
    BY <1>1 DEF TypeOK, ChannelHoldsQueued, Send, Enqueue
  <2>2. /\ Len(channel') = Len(channel) + 1
        /\ IsInjective(channel')
        /\ Range(channel') = Range(channel) \cup {d}
    BY <2>1, AppendOnce, AppendProperties
  <2>3. Len(channel') <= Capacity
    BY <2>1, <2>2, LoaderAssumption
  <2>4. QED
    BY <2>1, <2>2, <2>3 DEF TypeOK, ChannelHoldsQueued
<1>2. CASE Receive
  <2>1. Len(channel) <= Capacity => Len(channel') <= Capacity
    BY <1>2, ReceiveEffect, LoaderAssumption DEF TypeOK
  <2>2. QED
    BY <1>2, <2>1, ReceiveEffect DEF TypeOK, ChannelHoldsQueued
<1> USE TableAssumption, LoaderAssumption DEF TypeOK, ChannelHoldsQueued, Phases, Running, Ended, historyVars
<1>3. ASSUME NEW d \in Docs, Task(d) PROVE ChannelHoldsQueued'
  <2>1. /\ channel' = channel
        /\ phase[d] # "queued" /\ phase'[d] # "queued"
        /\ \A e \in Docs \ {d} : phase'[e] = phase[e]
    BY <1>3 DEF Task, SplitBody, DeleteOld, DeleteFails, AddChunk, AddFails, NextChunk, LoopPhase
  <2>2. QED
    BY <2>1
<1>4. CASE Leave \/ Exit
  <2>1. channel' = <<>> /\ \A d \in Docs : phase'[d] # "queued"
    BY <1>4 DEF Leave, Exit, LoseDocs
  <2>2. QED
    BY <2>1 DEF Range, IsInjective
<1>5. CASE Restart
  BY <1>5 DEF Restart
<1>6. CASE UNCHANGED vars
  BY <1>6 DEF vars
<1>7. QED
  BY <1>1, <1>2, <1>3, <1>4, <1>5, <1>6 DEF Next

(* Every step preserves RowsAreProcessed: a row appears only behind the     *)
(* cursor, and a task's cursor moves only in its loop.                      *)
LEMMA RowsStep ==
  ASSUME TypeOK, ChannelHoldsQueued, RowsAreProcessed, [Next]_vars
  PROVE  RowsAreProcessed'
<1> USE TableAssumption, LoaderAssumption DEF TypeOK, RowsAreProcessed, Phases, Running, Ended, historyVars
<1>1. ASSUME NEW d \in Docs, Send(d) PROVE RowsAreProcessed'
  BY <1>1 DEF Send, Enqueue
<1>2. CASE Receive
  BY <1>2, ReceiveEffect
<1>3. ASSUME NEW d \in Docs, SplitBody(d) PROVE RowsAreProcessed'
  BY <1>3 DEF SplitBody
<1>4. ASSUME NEW d \in Docs, DeleteOld(d) PROVE RowsAreProcessed'
  BY <1>4, DeleteOldEffect DEF SameUrl, LoopPhase
<1>5. ASSUME NEW d \in Docs, DeleteFails(d) PROVE RowsAreProcessed'
  BY <1>5 DEF DeleteFails
<1>6. ASSUME NEW d \in Docs, AddChunk(d) PROVE RowsAreProcessed'
  BY <1>6 DEF AddChunk, NextChunk, InsertRow, LoopPhase
<1>7. ASSUME NEW d \in Docs, AddFails(d) PROVE RowsAreProcessed'
  BY <1>7 DEF AddFails, NextChunk, LoopPhase
<1>8. CASE Leave
  BY <1>8 DEF Leave, LoseDocs
<1>9. CASE Exit
  BY <1>9 DEF Exit, LoseDocs
<1>10. CASE Restart
  BY <1>10 DEF Restart
<1>11. CASE UNCHANGED vars
  BY <1>11 DEF vars
<1>12. QED
  BY <1>1, <1>2, <1>3, <1>4, <1>5, <1>6, <1>7, <1>8, <1>9, <1>10, <1>11 DEF Next, Task

(* Every step preserves OwnerOrOvertaken: a delete empties the rows of its  *)
(* url and marks every task it overtakes.                                  *)
LEMMA OwnerStep ==
  ASSUME TypeOK, ChannelHoldsQueued, RowsAreProcessed, OwnerOrOvertaken, [Next]_vars
  PROVE  OwnerOrOvertaken'
<1> USE TableAssumption, LoaderAssumption DEF TypeOK, RowsAreProcessed, OwnerOrOvertaken, Phases, Running, Ended, historyVars
<1>1. ASSUME NEW d \in Docs, Send(d) PROVE OwnerOrOvertaken'
  BY <1>1 DEF Send, Enqueue
<1>2. CASE Receive
  BY <1>2, ReceiveEffect
<1>3. ASSUME NEW d \in Docs, SplitBody(d) PROVE OwnerOrOvertaken'
  BY <1>3 DEF SplitBody
<1>4. ASSUME NEW d \in Docs, DeleteOld(d) PROVE OwnerOrOvertaken'
  <2> SUFFICES ASSUME NEW e \in Docs
               PROVE  /\ owner'[UrlOf[e]] = e => phase'[e] \in {"adding", "done", "lost"}
                      /\ phase'[e] = "adding" \/ entries'[e] # {}
                            => owner'[UrlOf[e]] \in {e} \cup overtaken'[e]
    OBVIOUS
  <2>1. CASE e = d
    BY <1>4, <2>1, DeleteOldEffect, LoopPhaseType DEF SameUrl
  <2>2. CASE e # d /\ SameUrl(d, e)
    <3>1. /\ owner'[UrlOf[e]] = d
          /\ phase'[e] = phase[e]
          /\ entries'[e] = {}
          /\ phase[e] = "adding" => d \in overtaken'[e]
      BY <1>4, <2>2, DeleteOldEffect
    <3>2. QED
      BY <2>2, <3>1
  <2>3. CASE ~SameUrl(d, e)
    BY <1>4, <2>3, DeleteOldEffect DEF SameUrl
  <2>4. QED
    BY <2>1, <2>2, <2>3
<1>5. ASSUME NEW d \in Docs, DeleteFails(d) PROVE OwnerOrOvertaken'
  BY <1>5 DEF DeleteFails
<1>6. ASSUME NEW d \in Docs, AddChunk(d) PROVE OwnerOrOvertaken'
  BY <1>6 DEF AddChunk, NextChunk, InsertRow, LoopPhase
<1>7. ASSUME NEW d \in Docs, AddFails(d) PROVE OwnerOrOvertaken'
  BY <1>7 DEF AddFails, NextChunk, LoopPhase
<1>8. CASE Leave
  BY <1>8 DEF Leave, LoseDocs
<1>9. CASE Exit
  BY <1>9 DEF Exit, LoseDocs
<1>10. CASE Restart
  BY <1>10 DEF Restart
<1>11. CASE UNCHANGED vars
  BY <1>11 DEF vars
<1>12. QED
  BY <1>1, <1>2, <1>3, <1>4, <1>5, <1>6, <1>7, <1>8, <1>9, <1>10, <1>11 DEF Next, Task

(* Every step preserves LastLoadComplete: only a delete takes rows away,    *)
(* and it takes the url over.                                              *)
LEMMA LastLoadStep ==
  ASSUME TypeOK, ChannelHoldsQueued, RowsAreProcessed, OwnerOrOvertaken, LastLoadComplete, [Next]_vars
  PROVE  LastLoadComplete'
<1> USE TableAssumption, LoaderAssumption DEF TypeOK, RowsAreProcessed, OwnerOrOvertaken, LastLoadComplete, Phases, Running, Ended, historyVars
<1>1. ASSUME NEW d \in Docs, Send(d) PROVE LastLoadComplete'
  BY <1>1 DEF Send, Enqueue
<1>2. CASE Receive
  BY <1>2, ReceiveEffect
<1>3. ASSUME NEW d \in Docs, SplitBody(d) PROVE LastLoadComplete'
  BY <1>3 DEF SplitBody
<1>4. ASSUME NEW d \in Docs, DeleteOld(d) PROVE LastLoadComplete'
  <2> SUFFICES ASSUME NEW e \in Docs, owner'[UrlOf[e]] = e
               PROVE  1..cursor'[e] \ failed'[e] \subseteq entries'[e]
    OBVIOUS
  <2>1. CASE e = d
    <3>1. cursor'[e] = 0
      BY <1>4, <2>1, DeleteOldEffect
    <3>2. QED
      BY <3>1
  <2>2. CASE e # d
    <3>1. /\ owner[UrlOf[e]] = e
          /\ entries'[e] = entries[e]
          /\ UNCHANGED <<cursor, failed>>
      BY <1>4, <2>2, DeleteOldEffect
    <3>2. QED
      BY <3>1
  <2>3. QED
    BY <2>1, <2>2
<1>5. ASSUME NEW d \in Docs, DeleteFails(d) PROVE LastLoadComplete'
  BY <1>5 DEF DeleteFails
<1>6. ASSUME NEW d \in Docs, AddChunk(d) PROVE LastLoadComplete'
  BY <1>6 DEF AddChunk, NextChunk, InsertRow, LoopPhase
<1>7. ASSUME NEW d \in Docs, AddFails(d) PROVE LastLoadComplete'
  BY <1>7 DEF AddFails, NextChunk, LoopPhase
<1>8. CASE Leave
  BY <1>8 DEF Leave, LoseDocs
<1>9. CASE Exit
  BY <1>9 DEF Exit, LoseDocs
<1>10. CASE Restart
  BY <1>10 DEF Restart
<1>11. CASE UNCHANGED vars
  BY <1>11 DEF vars
<1>12. QED
  BY <1>1, <1>2, <1>3, <1>4, <1>5, <1>6, <1>7, <1>8, <1>9, <1>10, <1>11 DEF Next, Task

(* Every step keeps the loads of older captures ended.                      *)
LEMMA OlderStep ==
  ASSUME TypeOK, ChannelHoldsQueued, RowsAreProcessed, OlderEnded, [Next]_vars
  PROVE  OlderEnded'
<1> USE TableAssumption DEF TypeOK, OlderEnded, Phases, Running, Ended, historyVars
<1>1. ASSUME NEW d \in Docs, Send(d) PROVE OlderEnded'
  BY <1>1 DEF Send, Enqueue, SameUrl
<1>2. CASE Receive
  BY <1>2, ReceiveEffect
<1>3. ASSUME NEW d \in Docs, Task(d) PROVE OlderEnded'
  <2>1. older' = older /\ phase[d] \notin Ended /\ \A e \in Docs \ {d} : phase'[e] = phase[e]
    BY <1>3 DEF Task, SplitBody, DeleteOld, DeleteFails, AddChunk, AddFails, NextChunk
  <2>2. QED
    BY <2>1
<1>4. CASE Leave \/ Exit
  BY <1>4 DEF Leave, Exit, LoseDocs
<1>5. CASE Restart
  BY <1>5 DEF Restart
<1>6. CASE UNCHANGED vars
  BY <1>6 DEF vars
<1>7. QED
  BY <1>1, <1>2, <1>3, <1>4, <1>5, <1>6 DEF Next

(* Every step preserves NoOldVersionReturns: a delete takes the rows of all *)
(* older captures away, and none of their tasks runs to insert again.      *)
LEMMA OldVersionStep ==
  ASSUME TypeOK, ChannelHoldsQueued, RowsAreProcessed, OlderEnded, NoOldVersionReturns, [Next]_vars
  PROVE  NoOldVersionReturns'
<1> USE TableAssumption, LoaderAssumption DEF TypeOK, OlderEnded, NoOldVersionReturns, Phases, Running, Ended, historyVars
<1>1. ASSUME NEW d \in Docs, Send(d) PROVE NoOldVersionReturns'
  BY <1>1 DEF Send, Enqueue
<1>2. CASE Receive
  BY <1>2, ReceiveEffect
<1>3. ASSUME NEW d \in Docs, SplitBody(d) PROVE NoOldVersionReturns'
  BY <1>3 DEF SplitBody
<1>4. ASSUME NEW d \in Docs, DeleteOld(d) PROVE NoOldVersionReturns'
  <2> SUFFICES ASSUME NEW c \in Docs, phase'[c] \in {"adding", "done"}, NEW e \in older'[c]
               PROVE  entries'[e] = {}
    OBVIOUS
  <2>1. e \in older[c] /\ e \in Docs /\ SameUrl(c, e)
    BY <1>4, DeleteOldEffect
  <2>2. CASE c = d
    BY <1>4, <2>1, <2>2, DeleteOldEffect
  <2>3. CASE c # d
    BY <1>4, <2>1, <2>3, DeleteOldEffect
  <2>4. QED
    BY <2>2, <2>3
<1>5. ASSUME NEW d \in Docs, DeleteFails(d) PROVE NoOldVersionReturns'
  BY <1>5 DEF DeleteFails
<1>6. ASSUME NEW d \in Docs, AddChunk(d) PROVE NoOldVersionReturns'
  BY <1>6 DEF AddChunk, NextChunk, InsertRow, LoopPhase
<1>7. ASSUME NEW d \in Docs, AddFails(d) PROVE NoOldVersionReturns'
  BY <1>7 DEF AddFails, NextChunk, LoopPhase
<1>8. CASE Leave
  BY <1>8 DEF Leave, LoseDocs
<1>9. CASE Exit
  BY <1>9 DEF Exit, LoseDocs
<1>10. CASE Restart
  BY <1>10 DEF Restart
<1>11. CASE UNCHANGED vars
  BY <1>11 DEF vars
<1>12. QED
  BY <1>1, <1>2, <1>3, <1>4, <1>5, <1>6, <1>7, <1>8, <1>9, <1>10, <1>11 DEF Next, Task

-----------------------------------------------------------------------------
(* Every step preserves the invariant.                                     *)
LEMMA TableStep == TableInv /\ [Next]_vars => TableInv'
BY TypeStep, ChannelStep, RowsStep, OwnerStep, LastLoadStep, OlderStep, OldVersionStep DEF TableInv

(* The invariant holds initially and every step preserves it.              *)
THEOREM TableInvariant == Spec => []TableInv
BY TableInit, TableStep, PTL DEF Spec

(* Every variable keeps its type and no insertion loop runs past the last  *)
(* chunk (process_document).                                               *)
THEOREM TypeCorrect == Spec => []TypeOK
<1>1. TableInv => TypeOK
  BY DEF TableInv
<1>2. QED
  BY TableInvariant, <1>1, PTL

(* Whoever inserts or has rows is the last to have deleted those of its    *)
(* url, or was overtaken by that one (process_document).                   *)
THEOREM RowsHaveOwner == Spec => []OwnerOrOvertaken
<1>1. TableInv => OwnerOrOvertaken
  BY DEF TableInv
<1>2. QED
  BY TableInvariant, <1>1, PTL

(* The overlap of two loaders of one url is the only way to duplicates: if *)
(* nobody was overtaken in its insertion loop, the rows of a url come from *)
(* one document (loader.rs, process_document).                             *)
THEOREM NoOtherDuplicates == Spec => []DuplicatesOnlyByRace
<1>1. TableInv => DuplicatesOnlyByRace
  BY TableAssumption DEF TableInv, TypeOK, OwnerOrOvertaken, DuplicatesOnlyByRace, SameUrl
<1>2. QED
  BY TableInvariant, <1>1, PTL

(* The last loader to delete a url's rows loses none of its own: no other  *)
(* task, exit or restart takes a row of it away (process_document).        *)
THEOREM LastLoaderKeepsRows == Spec => []LastLoadComplete
<1>1. TableInv => LastLoadComplete
  BY DEF TableInv
<1>2. QED
  BY TableInvariant, <1>1, PTL

(* However many loads of a page follow each other, none brings a row of a  *)
(* capture back whose load had ended before (process_document).            *)
THEOREM CapturesReplaceInOrder == Spec => []NoOldVersionReturns
<1>1. TableInv => NoOldVersionReturns
  BY DEF TableInv
<1>2. QED
  BY TableInvariant, <1>1, PTL

-----------------------------------------------------------------------------
(* What a load leaves behind, and how it gets to its end.                   *)

(* A loop that has come to its end has gone through every chunk, and an     *)
(* exit leaves nothing in the channel and no task at work.                 *)
LoopsEnd == \A d \in Docs : phase[d] = "done" => cursor[d] = NumChunks[d]

NothingOutlivesProcess ==
  /\ process # "up" => channel = <<>>
  /\ process = "down" => \A d \in Docs : phase[d] \in {"unsent"} \cup Ended

LoadInv == TableInv /\ LoopsEnd /\ NothingOutlivesProcess

(* Every step keeps a loop that ended at its last chunk.                    *)
LEMMA LoopsEndStep ==
  ASSUME TypeOK, ChannelHoldsQueued, RowsAreProcessed, LoopsEnd, [Next]_vars
  PROVE  LoopsEnd'
<1> USE LoaderAssumption DEF TypeOK, LoopsEnd, Phases, Running, Ended, historyVars
<1>1. ASSUME NEW d \in Docs, Send(d) \/ SplitBody(d) \/ DeleteFails(d) PROVE LoopsEnd'
  BY <1>1 DEF Send, Enqueue, SplitBody, DeleteFails
<1>2. CASE Receive
  BY <1>2, ReceiveEffect
<1>3. ASSUME NEW d \in Docs, DeleteOld(d) PROVE LoopsEnd'
  <2>1. cursor[d] = 0 /\ cursor' = cursor /\ phase' = [phase EXCEPT ![d] = LoopPhase(d, 0)]
    BY <1>3, DeleteOldEffect DEF DeleteOld
  <2>2. LoopPhase(d, 0) = "done" => NumChunks[d] = 0
    BY DEF LoopPhase
  <2>3. QED
    BY <2>1, <2>2
<1>4. ASSUME NEW d \in Docs, AddChunk(d) \/ AddFails(d) PROVE LoopsEnd'
  <2>1. /\ phase[d] = "adding"
        /\ cursor' = [cursor EXCEPT ![d] = @ + 1]
        /\ phase' = [phase EXCEPT ![d] = LoopPhase(d, cursor[d] + 1)]
    BY <1>4 DEF AddChunk, AddFails, NextChunk
  <2>2. LoopPhase(d, cursor[d] + 1) = "done" => cursor[d] + 1 = NumChunks[d]
    BY <2>1 DEF LoopPhase
  <2>3. QED
    BY <2>1, <2>2
<1>5. CASE Leave \/ Exit
  BY <1>5 DEF Leave, Exit, LoseDocs
<1>6. CASE Restart \/ UNCHANGED vars
  BY <1>6 DEF Restart, vars
<1>7. QED
  BY <1>1, <1>2, <1>3, <1>4, <1>5, <1>6 DEF Next, Task

(* Every step keeps a process that is down idle: what was in the channel    *)
(* and the tasks are lost with it, and only a process that is up receives. *)
LEMMA IdleStep ==
  ASSUME TypeOK, ChannelHoldsQueued, RowsAreProcessed, NothingOutlivesProcess, [Next]_vars
  PROVE  NothingOutlivesProcess'
<1> USE DEF TypeOK, NothingOutlivesProcess, Phases, Running, Ended, historyVars
<1>1. ASSUME NEW d \in Docs, Send(d) PROVE NothingOutlivesProcess'
  BY <1>1 DEF Send, Enqueue
<1>2. CASE Receive
  BY <1>2 DEF Receive
<1>3. ASSUME NEW d \in Docs, Task(d) PROVE NothingOutlivesProcess'
  <2>1. process # "down" /\ process' = process /\ channel' = channel
    BY <1>3 DEF Task, SplitBody, DeleteOld, DeleteFails, AddChunk, AddFails, NextChunk
  <2>2. QED
    BY <2>1
<1>4. CASE Leave
  BY <1>4 DEF Leave
<1>5. CASE Exit
  BY <1>5 DEF Exit, LoseDocs
<1>6. CASE Restart \/ UNCHANGED vars
  BY <1>6 DEF Restart, vars
<1>7. QED
  BY <1>1, <1>2, <1>3, <1>4, <1>5, <1>6 DEF Next

(* The invariant holds initially and every step preserves it.              *)
LEMMA LoadInvariant == Init /\ [][Next]_vars => []LoadInv
<1>1. Init => LoadInv
  <2> SUFFICES ASSUME Init PROVE LoadInv
    OBVIOUS
  <2>1. LoopsEnd /\ NothingOutlivesProcess
    BY DEF Init, LoopsEnd, NothingOutlivesProcess
  <2>2. QED
    BY <2>1, TableInit DEF LoadInv
<1>2. LoadInv /\ [Next]_vars => LoadInv'
  <2> SUFFICES ASSUME LoadInv, [Next]_vars PROVE LoadInv'
    OBVIOUS
  <2>1. TypeOK /\ ChannelHoldsQueued /\ RowsAreProcessed
    BY DEF LoadInv, TableInv
  <2>2. TableInv'
    BY TableStep DEF LoadInv
  <2>3. LoopsEnd' /\ NothingOutlivesProcess'
    BY <2>1, LoopsEndStep, IdleStep DEF LoadInv
  <2>4. QED
    BY <2>2, <2>3 DEF LoadInv
<1>3. QED
  BY <1>1, <1>2, PTL

(* The owner has all of its rows, and none is left of a document that it    *)
(* did not overtake.                                                       *)
LEMMA WholePage == LoadInv => PageIsWhole
<1> SUFFICES ASSUME LoadInv,
                    NEW d \in Docs, owner[UrlOf[d]] = d, phase[d] = "done", failed[d] = {},
                    OvertookNone(d),
                    NEW e \in Docs, SameUrl(d, e)
             PROVE  entries[e] = IF e = d THEN 1..NumChunks[d] ELSE {}
  BY DEF PageIsWhole
<1>1. TypeOK /\ RowsAreProcessed /\ OwnerOrOvertaken /\ LastLoadComplete /\ LoopsEnd
  BY DEF LoadInv, TableInv
<1>2. CASE e = d
  BY <1>1, <1>2 DEF LastLoadComplete, LoopsEnd, RowsAreProcessed
<1>3. CASE e # d
  BY <1>1, <1>3 DEF OwnerOrOvertaken, OvertookNone, SameUrl
<1>4. QED
  BY <1>2, <1>3

(* For any documents, chunks and failures: the rows of a page are exactly  *)
(* the chunks of its last capture once that was loaded, also after loads   *)
(* that raced and left rows of several (process_document).                 *)
THEOREM QuietLoadIsWhole == Spec => []PageIsWhole
BY LoadInvariant, WholePage, PTL DEF Spec

(* A process that has ended leaves no document waiting and no task at work *)
(* for the next one, and one that leaves its select! none in the channel.  *)
THEOREM ExitEndsLoads == Spec => []NothingOutlivesProcess
<1>1. LoadInv => NothingOutlivesProcess
  BY DEF LoadInv
<1>2. QED
  BY LoadInvariant, <1>1, PTL DEF Spec

(* The steps that a document has ahead of it at most: the channel, the     *)
(* receive loop, the split, the delete and a turn for each chunk.          *)
StepsLeft(d) ==
  CASE phase[d] = "unsent" -> NumChunks[d] + 4
    [] phase[d] = "queued" -> NumChunks[d] + 3
    [] phase[d] = "spawned" -> NumChunks[d] + 2
    [] phase[d] = "split" -> NumChunks[d] + 1
    [] phase[d] = "adding" -> NumChunks[d] - cursor[d]
    [] OTHER -> 0

(* A document only gets closer to its end, whatever happens; each step of   *)
(* its task brings it closer, and no other document anywhere.              *)
Advances ==
  \A d \in Docs :
    /\ phase'[d] # phase[d] \/ cursor'[d] # cursor[d] => StepsLeft(d)' < StepsLeft(d)
    /\ Task(d) => /\ StepsLeft(d)' < StepsLeft(d)
                  /\ \A e \in Docs \ {d} : phase'[e] = phase[e] /\ cursor'[e] = cursor[e]

(* Whoever waits in the channel keeps its place, and moves on by one with  *)
(* each turn of the receive loop: the others that wait do not pass it.     *)
QueueMovesOn ==
  \A i \in 1..Len(channel) :
    phase'[channel[i]] = "queued" =>
      \E j \in 1..Len(channel') :
        channel'[j] = channel[i] /\ j = IF Receive THEN i - 1 ELSE i

(* What a step of a task does to its document and to the others.            *)
LEMMA TaskAdvances ==
  ASSUME TypeOK, RowsAreProcessed, NEW d \in Docs, Task(d)
  PROVE  /\ StepsLeft(d)' < StepsLeft(d)
         /\ \A e \in Docs \ {d} : phase'[e] = phase[e] /\ cursor'[e] = cursor[e]
<1> USE LoaderAssumption
<1>1. phase \in [Docs -> Phases] /\ cursor \in [Docs -> Nat] /\ NumChunks \in [Docs -> Nat]
  BY DEF TypeOK
<1>2. \E p \in Phases : phase' = [phase EXCEPT ![d] = p]
  BY LoopPhaseType DEF Task, SplitBody, DeleteOld, DeleteFails, AddChunk, AddFails, NextChunk, Phases, Running, Ended
<1>3. cursor' = cursor \/ cursor' = [cursor EXCEPT ![d] = @ + 1]
  BY DEF Task, SplitBody, DeleteOld, DeleteFails, AddChunk, AddFails, NextChunk
<1>4. \A e \in Docs \ {d} : phase'[e] = phase[e] /\ cursor'[e] = cursor[e]
  BY <1>1, <1>2, <1>3
<1>5. CASE SplitBody(d)
  BY <1>1, <1>4, <1>5 DEF SplitBody, StepsLeft
<1>6. CASE DeleteOld(d)
  <2>1. cursor[d] = 0 /\ cursor' = cursor /\ phase[d] = "split" /\ phase'[d] = LoopPhase(d, 0)
    BY <1>1, <1>6 DEF DeleteOld, RowsAreProcessed
  <2>2. phase'[d] \in {"adding", "done"}
    BY <2>1, LoopPhaseType
  <2>3. QED
    BY <1>1, <1>4, <2>1, <2>2 DEF StepsLeft
<1>7. CASE DeleteFails(d)
  BY <1>1, <1>4, <1>7 DEF DeleteFails, StepsLeft
<1>8. CASE AddChunk(d) \/ AddFails(d)
  <2>1. /\ phase[d] = "adding" /\ cursor[d] < NumChunks[d]
        /\ cursor'[d] = cursor[d] + 1 /\ phase'[d] = LoopPhase(d, cursor[d] + 1)
    BY <1>1, <1>8 DEF AddChunk, AddFails, NextChunk, TypeOK
  <2>2. phase'[d] \in {"adding", "done"}
    BY <2>1, LoopPhaseType
  <2>3. QED
    BY <1>1, <1>4, <2>1, <2>2 DEF StepsLeft
<1>9. QED
  BY <1>4, <1>5, <1>6, <1>7, <1>8 DEF Task

(* What the other steps do: one document is sent, one is received, or some  *)
(* are lost.                                                               *)
LEMMA OthersAdvance ==
  ASSUME TypeOK, ChannelHoldsQueued,
         (\E d \in Docs : Send(d)) \/ Receive \/ Leave \/ Exit \/ Restart \/ UNCHANGED vars,
         NEW d \in Docs
  PROVE  /\ cursor' = cursor
         /\ phase'[d] # phase[d] => StepsLeft(d)' < StepsLeft(d)
<1> USE LoaderAssumption DEF historyVars
<1>1. phase \in [Docs -> Phases] /\ cursor \in [Docs -> Nat] /\ NumChunks \in [Docs -> Nat]
  BY DEF TypeOK
<1>2. phase[d] = "adding" => cursor[d] < NumChunks[d]
  BY DEF TypeOK
<1>3. CASE \E e \in Docs : Send(e)
  BY <1>1, <1>3 DEF Send, Enqueue, StepsLeft
<1>4. CASE Receive
  <2>1. cursor' = cursor /\ \A e \in Docs : phase'[e] # phase[e] => phase[e] = "queued" /\ phase'[e] = "spawned"
    BY <1>1, <1>4, ReceiveEffect DEF Receive
  <2>2. QED
    BY <1>1, <2>1 DEF StepsLeft
<1>5. CASE Leave \/ Exit
  <2>1. cursor' = cursor /\ (phase'[d] # phase[d] => phase[d] \in {"queued"} \cup Running /\ phase'[d] = "lost")
    BY <1>1, <1>5 DEF Leave, Exit, LoseDocs
  <2>2. QED
    BY <1>1, <1>2, <2>1 DEF StepsLeft, Running
<1>6. CASE Restart \/ UNCHANGED vars
  BY <1>6 DEF Restart, vars
<1>7. QED
  BY <1>3, <1>4, <1>5, <1>6

(* For any number of documents and chunks: a document takes a bounded       *)
(* number of steps, none is undone, and no task does another's.  What       *)
(* EveryDocumentEnds needs besides is that its task goes on (process_document). *)
THEOREM LoadsAdvance == Spec => [][Advances]_vars
<1>1. LoadInv /\ [Next]_vars => [Advances]_vars
  <2> SUFFICES ASSUME LoadInv, Next PROVE Advances
    OBVIOUS
  <2>1. TypeOK /\ ChannelHoldsQueued /\ RowsAreProcessed
    BY DEF LoadInv, TableInv
  <2>2. ASSUME NEW d \in Docs, Task(d)
        PROVE  /\ StepsLeft(d)' < StepsLeft(d)
               /\ \A e \in Docs \ {d} : phase'[e] = phase[e] /\ cursor'[e] = cursor[e]
    BY <2>1, <2>2, TaskAdvances, Zenon
  <2>3. ASSUME NEW d \in Docs, phase'[d] # phase[d] \/ cursor'[d] # cursor[d]
        PROVE  StepsLeft(d)' < StepsLeft(d)
    <3>1. CASE \E e \in Docs : Task(e)
      BY <2>2, <2>3, <3>1
    <3>2. CASE (\E e \in Docs : Send(e)) \/ Receive \/ Leave \/ Exit \/ Restart
      BY <2>1, <2>3, <3>2, OthersAdvance
    <3>3. QED
      BY <3>1, <3>2 DEF Next
  <2>4. QED
    BY <2>2, <2>3, Zenon DEF Advances
<1>2. QED
  BY LoadInvariant, <1>1, PTL DEF Spec

(* What a step does to the channel, seen from a document that stays in it.  *)
LEMMA QueueStep ==
  ASSUME TypeOK, ChannelHoldsQueued, Next PROVE QueueMovesOn
<1> DEFINE keeps(i) == \E j \in 1..Len(channel') :
                         channel'[j] = channel[i] /\ j = IF Receive THEN i - 1 ELSE i
<1>1. /\ channel \in Seq(Docs) /\ Len(channel) \in Nat /\ DOMAIN channel = 1..Len(channel)
      /\ \A i \in 1..Len(channel) : channel[i] \in Docs /\ phase[channel[i]] = "queued"
  BY DEF TypeOK, ChannelHoldsQueued, Range
<1>2. Len(channel) \in Nat /\ (Receive => Len(channel') = Len(channel) - 1)
  BY <1>1, ReceiveEffect
<1> SUFFICES ASSUME NEW i \in 1..Len(channel), phase'[channel[i]] = "queued" PROVE keeps(i)
  BY DEF QueueMovesOn
<1>3. ASSUME NEW d \in Docs, Send(d) PROVE keeps(i)
  <2>1. channel' = Append(channel, d)
    BY <1>3 DEF Send, Enqueue
  <2>2. /\ Len(channel') = Len(channel) + 1
        /\ \A k \in 1..Len(channel) : channel'[k] = channel[k]
    BY <1>1, <2>1, AppendProperties
  <2>3. Len(channel') # Len(channel) - 1 /\ i \in 1..Len(channel')
    BY <1>2, <2>2
  <2>4. ~Receive
    BY <1>2, <2>3, Zenon
  <2>5. QED
    BY <2>2, <2>3, <2>4
<1>4. CASE Receive
  <2>1. channel # <<>> /\ channel' = Tail(channel) /\ phase' = [phase EXCEPT ![Head(channel)] = "spawned"]
    BY <1>4 DEF Receive
  <2>2. Head(channel) = channel[1] /\ Head(channel) \in Docs
    BY <1>1, <2>1
  <2>3. i # 1
    BY <1>1, <2>1, <2>2 DEF TypeOK
  <2>4. /\ Len(channel') = Len(channel) - 1
        /\ \A k \in 1..Len(channel) - 1 : channel'[k] = channel[k + 1]
    BY <1>1, <2>1
  <2>5. i - 1 \in 1..Len(channel') /\ channel'[i - 1] = channel[i]
    BY <1>1, <2>3, <2>4
  <2>6. QED
    BY <1>4, <2>5
<1>5. CASE UNCHANGED channel
  <2>1. Len(channel') # Len(channel) - 1
    BY <1>2, <1>5
  <2>2. ~Receive
    BY <1>2, <2>1, Zenon
  <2>3. QED
    BY <1>1, <1>5, <2>2
<1>6. CASE Leave \/ Exit
  BY <1>1, <1>6 DEF Leave, Exit, LoseDocs
<1>7. ((\E d \in Docs : Task(d)) \/ Restart) => UNCHANGED channel
  BY DEF Task, SplitBody, DeleteOld, DeleteFails, AddChunk, AddFails, NextChunk, Restart
<1> HIDE DEF keeps
<1>8. QED
  BY <1>3, <1>4, <1>5, <1>6, <1>7 DEF Next

(* For any capacity and number of documents: the loader receives in the     *)
(* order of the sends, and what is ahead of a document that waits only gets *)
(* less (loader.start, mpsc::channel).                                     *)
THEOREM ChannelIsFirstInFirstOut == Spec => [][QueueMovesOn]_vars
<1>1. LoadInv /\ [Next]_vars => [QueueMovesOn]_vars
  BY QueueStep DEF LoadInv, TableInv
<1>2. QED
  BY LoadInvariant, <1>1, PTL DEF Spec

-----------------------------------------------------------------------------
(* The pipeline.                                                           *)

HandlerTypes ==
  /\ request \in [Docs -> Proxy!Places]
  /\ exchange \in Traffic

(* What is known of a request from where it is: a response is only waited  *)
(* for when the request went to a server, a body is only collected when    *)
(* both filters passed, and only sent when it is long enough.              *)
HandlersKnow ==
  \A d \in Docs :
    /\ request[d] \in Proxy!Waiting =>
         exchange[d].kind = "request" /\ exchange[d].target # "missing"
    /\ request[d] \in {"collecting", "sending"} =>
         ~Proxy!Excluded(exchange[d]) /\ Proxy!FilterResponse(exchange[d])
    /\ request[d] = "sending" => exchange[d].size > MinBody

(* The inductive invariant: the loader's own, and what was decided about a *)
(* request before its page reached the channel.                            *)
PipelineInv ==
  /\ TableInv
  /\ HandlerTypes
  /\ HandlersKnow
  /\ CapturedIffAnswered

-----------------------------------------------------------------------------
(* The two refinements.                                                    *)

(* Every step of the pipeline is one of the loader, or none.                *)
LEMMA LoaderStep == [PipelineNext]_pipelineVars => [Next]_vars
<1> SUFFICES ASSUME [PipelineNext]_pipelineVars PROVE [Next]_vars
  OBVIOUS
<1>1. ASSUME NEW d \in Docs, Handle(d) \/ Refuse(d) PROVE [Next]_vars
  BY <1>1 DEF Handle, Refuse
<1>2. ASSUME NEW d \in Docs, Capture(d) PROVE [Next]_vars
  BY <1>2 DEF Capture, Next
<1>3. ASSUME NEW d \in Docs, SplitDecoded(d) \/ Load(d) PROVE [Next]_vars
  BY <1>3 DEF SplitDecoded, Load, Task, Next
<1>4. CASE Receive \/ Leave \/ Exit \/ Restart
  BY <1>4 DEF Next
<1>5. CASE UNCHANGED pipelineVars
  BY <1>5 DEF pipelineVars
<1>6. QED
  BY <1>1, <1>2, <1>3, <1>4, <1>5 DEF PipelineNext

(* Every step of the pipeline is one of the handlers, or none: what the    *)
(* loader does to its documents and to the table they do not see.          *)
LEMMA ProxyStep == [PipelineNext]_pipelineVars => [Proxy!Next]_(Proxy!vars)
<1> SUFFICES ASSUME [PipelineNext]_pipelineVars PROVE [Proxy!Next]_(Proxy!vars)
  OBVIOUS
<1>1. ASSUME NEW d \in Docs, Handle(d) \/ Refuse(d) \/ Capture(d)
      PROVE  Proxy!Next
  BY <1>1 DEF Handle, Refuse, Capture, Proxy!Next
<1>2. ASSUME NEW d \in Docs, SplitDecoded(d) \/ Load(d) PROVE UNCHANGED Proxy!vars
  <2>1. UNCHANGED <<request, exchange, channel, process>>
    BY <1>2 DEF SplitDecoded, SplitBody, Load, DeleteOld, DeleteFails, AddChunk, AddFails, NextChunk
  <2>2. QED
    BY <2>1 DEF Proxy!vars, receiver
<1>3. CASE (Receive /\ Proxy!Take) \/ (Leave /\ Proxy!DropReceiver) \/ (Exit /\ Proxy!Stop) \/ (Restart /\ Proxy!Start)
  BY <1>3 DEF Proxy!Next
<1>4. CASE UNCHANGED pipelineVars
  BY <1>4 DEF pipelineVars, vars, Proxy!vars, receiver
<1>5. QED
  BY <1>1, <1>2, <1>3, <1>4 DEF PipelineNext

-----------------------------------------------------------------------------
(* The invariant.                                                          *)

(* Only the send makes a page of what was none.                             *)
LEMMA UnsentStays ==
  ASSUME TypeOK, ChannelHoldsQueued, RowsAreProcessed,
         (\E d \in Docs : Task(d)) \/ Receive \/ Leave \/ Exit \/ Restart
  PROVE  \A d \in Docs : phase'[d] = "unsent" <=> phase[d] = "unsent"
<1> USE DEF TypeOK, Phases, Running, Ended
<1>1. ASSUME NEW d \in Docs, Task(d)
      PROVE  \A e \in Docs : phase'[e] = "unsent" <=> phase[e] = "unsent"
  BY <1>1 DEF Task, SplitBody, DeleteOld, DeleteFails, AddChunk, AddFails, NextChunk, LoopPhase
<1>2. CASE Receive
  BY <1>2, ReceiveEffect
<1>3. CASE Leave \/ Exit
  BY <1>3 DEF Leave, Exit, LoseDocs
<1>4. CASE Restart
  BY <1>4 DEF Restart
<1>5. QED
  BY <1>1, <1>2, <1>3, <1>4

(* No page is captured before any request is read.                         *)
LEMMA PipelineInitInv == PipelineInit => PipelineInv
<1> SUFFICES ASSUME PipelineInit PROVE PipelineInv
  OBVIOUS
<1>1. TableInv
  BY TableInit DEF PipelineInit
<1>2. HandlerTypes /\ HandlersKnow
  BY DEF PipelineInit, Proxy!Init, HandlerTypes, HandlersKnow, Proxy!Places, Proxy!Waiting
<1>3. CapturedIffAnswered
  BY DEF PipelineInit, Proxy!Init, Init, CapturedIffAnswered, Proxy!Returned
<1>4. QED
  BY <1>1, <1>2, <1>3 DEF PipelineInv

(* What every step of a handler keeps: a request comes to wait only by     *)
(* Forward, to collect by Respond and to send by Collect.                  *)
LEMMA HandlersStep ==
  ASSUME HandlerTypes, HandlersKnow, [Proxy!Next]_(Proxy!vars)
  PROVE  HandlerTypes' /\ HandlersKnow'
<1> USE DEF HandlerTypes, HandlersKnow, Proxy!Moves, Proxy!Places, Proxy!Waiting, Proxy!Ends, Proxy!Closed
<1>1. ASSUME NEW d \in Docs, Proxy!Forward(d) PROVE HandlerTypes' /\ HandlersKnow'
  BY <1>1 DEF Proxy!Forward
<1>2. ASSUME NEW d \in Docs, Proxy!Upgrade(d) PROVE HandlerTypes' /\ HandlersKnow'
  BY <1>2 DEF Proxy!Upgrade
<1>3. ASSUME NEW d \in Docs, Proxy!Respond(d) PROVE HandlerTypes' /\ HandlersKnow'
  BY <1>3 DEF Proxy!Respond
<1>4. ASSUME NEW d \in Docs, Proxy!Collect(d) PROVE HandlerTypes' /\ HandlersKnow'
  BY <1>4 DEF Proxy!Collect
<1>5. ASSUME NEW d \in Docs,
             Proxy!ServerFails(d) \/ Proxy!ClientLeaves(d) \/ Proxy!Send(d) \/ Proxy!SendFails(d)
               \/ Proxy!Deliver(d)
      PROVE  HandlerTypes' /\ HandlersKnow'
  BY <1>5 DEF Proxy!ServerFails, Proxy!ClientLeaves, Proxy!Send, Proxy!SendFails, Proxy!Deliver
<1>6. ASSUME Proxy!Take \/ Proxy!DropReceiver \/ Proxy!Start \/ UNCHANGED Proxy!vars
      PROVE  HandlerTypes' /\ HandlersKnow'
  BY <1>6 DEF Proxy!Take, Proxy!DropReceiver, Proxy!Start, Proxy!vars
<1>7. ASSUME Proxy!Stop PROVE HandlerTypes' /\ HandlersKnow'
  BY <1>7 DEF Proxy!Stop
<1>8. QED
  BY <1>1, <1>2, <1>3, <1>4, <1>5, <1>6, <1>7 DEF Proxy!Next

(* A handler that has not sent its page returns a response without one only *)
(* when it was not wanted, and a response that was returned stays so,      *)
(* whether its client receives it or not.                                  *)
LEMMA CaptureStep ==
  ASSUME TableInv, HandlerTypes, HandlersKnow, CapturedIffAnswered, [PipelineNext]_pipelineVars
  PROVE  CapturedIffAnswered'
<1> USE PipelineAssumption DEF Proxy!ExtractorAssumption
<1> USE DEF HandlerTypes, HandlersKnow, CapturedIffAnswered, Proxy!Moves, Proxy!Returned, Proxy!Places,
            Proxy!Waiting, Proxy!Ends
<1>1. ASSUME NEW d \in Docs, Handle(d) PROVE CapturedIffAnswered'
  <2>1. phase' = phase /\ exchange' = exchange
    BY <1>1 DEF Handle, vars, Proxy!Forward, Proxy!Upgrade, Proxy!Respond, Proxy!ServerFails,
                Proxy!ClientLeaves, Proxy!Collect, Proxy!Deliver
  <2>2. \A e \in Docs \ {d} : request'[e] = request[e]
    BY <1>1 DEF Handle, Proxy!Forward, Proxy!Upgrade, Proxy!Respond, Proxy!ServerFails,
                Proxy!ClientLeaves, Proxy!Collect, Proxy!Deliver
  <2>3. \/ /\ request[d] \notin Proxy!Returned
           /\ request'[d] \in Proxy!Returned => ~Wanted(exchange[d])
        \/ request[d] \in Proxy!Returned /\ request'[d] \in Proxy!Returned
    <3>1. CASE Proxy!Respond(d)
      BY <3>1 DEF Proxy!Respond, Proxy!Excluded, Wanted
    <3>2. CASE Proxy!Collect(d)
      BY <3>2 DEF Proxy!Collect, Wanted
    <3>3. CASE Proxy!Upgrade(d)
      BY <3>3 DEF Proxy!Upgrade, Wanted
    <3>4. CASE Proxy!Forward(d)
      BY <3>4 DEF Proxy!Forward
    <3>5. CASE Proxy!ServerFails(d) \/ Proxy!ClientLeaves(d) \/ Proxy!Deliver(d)
      BY <3>5 DEF Proxy!ServerFails, Proxy!ClientLeaves, Proxy!Closed, Proxy!Deliver
    <3>6. QED
      BY <1>1, <3>1, <3>2, <3>3, <3>4, <3>5 DEF Handle
  <2>4. QED
    BY <2>1, <2>2, <2>3 DEF Wanted
<1>2. ASSUME NEW d \in Docs, Refuse(d) PROVE CapturedIffAnswered'
  <2>1. phase' = phase /\ exchange' = exchange
    BY <1>2 DEF Refuse, vars, Proxy!SendFails
  <2>2. /\ request[d] \notin Proxy!Returned /\ request'[d] \notin Proxy!Returned
        /\ \A e \in Docs \ {d} : request'[e] = request[e]
    BY <1>2 DEF Refuse, Proxy!SendFails
  <2>3. QED
    BY <2>1, <2>2 DEF Wanted
<1>3. ASSUME NEW d \in Docs, Capture(d) PROVE CapturedIffAnswered'
  <2>1. exchange[d] \in Proxy!Exchange
    OBVIOUS
  <2>2. exchange[d].target \in {"excluded", "included", "missing"}
    BY <2>1 DEF Proxy!Exchange
  <2>3. Wanted(exchange[d])
    BY <1>3, <2>2 DEF Capture, Proxy!Send, Proxy!Excluded, Wanted
  <2>4. /\ request'[d] = "answered" /\ exchange' = exchange
        /\ \A e \in Docs \ {d} : request'[e] = request[e]
    BY <1>3 DEF Capture, Proxy!Send
  <2>5. phase'[d] = "queued" /\ \A e \in Docs \ {d} : phase'[e] = phase[e]
    BY <1>3 DEF Capture, Send, Enqueue, TableInv, TypeOK
  <2>6. QED
    BY <2>3, <2>4, <2>5 DEF Wanted
<1>4. ASSUME NEW d \in Docs, SplitDecoded(d) \/ Load(d) PROVE CapturedIffAnswered'
  <2>1. Task(d) /\ UNCHANGED <<request, exchange>>
    BY <1>4 DEF SplitDecoded, Load, Task
  <2>2. QED
    BY <2>1, UnsentStays DEF TableInv, Wanted
<1>5. CASE (Receive /\ Proxy!Take) \/ (Leave /\ Proxy!DropReceiver) \/ (Restart /\ Proxy!Start)
  <2>1. UNCHANGED <<request, exchange>>
    BY <1>5 DEF Proxy!Take, Proxy!DropReceiver, Proxy!Start
  <2>2. QED
    BY <1>5, <2>1, UnsentStays DEF TableInv, Wanted
<1>6. CASE Exit /\ Proxy!Stop
  <2>1. exchange' = exchange
    BY <1>6 DEF Proxy!Stop
  <2>2. \A d \in Docs : request'[d] \in Proxy!Returned <=> request[d] \in Proxy!Returned
    BY <1>6 DEF Proxy!Stop, Proxy!Closed
  <2>3. QED
    BY <1>6, <2>1, <2>2, UnsentStays DEF TableInv, Wanted
<1>7. CASE UNCHANGED pipelineVars
  BY <1>7 DEF pipelineVars, vars, Wanted
<1>8. QED
  BY <1>1, <1>2, <1>3, <1>4, <1>5, <1>6, <1>7 DEF PipelineNext

(* The invariant holds initially and every step preserves it.              *)
LEMMA PipelineInvariant == PipelineSpec => []PipelineInv
<1>1. PipelineInv /\ [PipelineNext]_pipelineVars => PipelineInv'
  <2> SUFFICES ASSUME PipelineInv, [PipelineNext]_pipelineVars PROVE PipelineInv'
    OBVIOUS
  <2>1. TableInv'
    BY LoaderStep, TableStep DEF PipelineInv
  <2>2. HandlerTypes' /\ HandlersKnow'
    BY ProxyStep, HandlersStep DEF PipelineInv
  <2>3. CapturedIffAnswered'
    BY CaptureStep DEF PipelineInv
  <2>4. QED
    BY <2>1, <2>2, <2>3 DEF PipelineInv
<1>2. QED
  BY PipelineInitInv, <1>1, PTL DEF PipelineSpec

-----------------------------------------------------------------------------
(* Every disjunct of PipelineNext takes one of HtmlLoader's steps or none,  *)
(* so that the loader's invariants are at hand in the pipeline.            *)
LEMMA PipelineLoads == PipelineSpec => Init /\ [][Next]_vars
<1>1. PipelineInit => Init
  BY DEF PipelineInit
<1>2. QED
  BY LoaderStep, <1>1, PTL DEF PipelineSpec

(* For every mix of requests and however the channel, the clients and the  *)
(* process come between: a page is captured exactly when the proxy has     *)
(* returned its response to hyper and it is one the index wants, so that   *)
(* what a client has received is captured, though not all that is captured *)
(* was received (handle_response).                                         *)
THEOREM CaptureFollowsAnswer == PipelineSpec => []CapturedIffAnswered
<1>1. PipelineInv => CapturedIffAnswered
  BY DEF PipelineInv
<1>2. QED
  BY PipelineInvariant, <1>1, PTL

(* Whatever encodings servers use, the loader has a decoder for each it is  *)
(* given (SUPPORTED_ENCODINGS, decompress_body).                           *)
THEOREM EncodingsAgree == PipelineSpec => []CapturedAreDecodable
<1>1. PipelineInv => CapturedAreDecodable
  BY DEF PipelineInv, CapturedIffAnswered, CapturedAreDecodable, Wanted, Proxy!FilterResponse,
         Proxy!EncodingPasses, Proxy!SupportedEncodings, DecodedEncodings
<1>2. QED
  BY PipelineInvariant, <1>1, PTL

(* What is proved of the loader on its own holds with the real handlers and *)
(* a store that fails and a process that restarts: in the pipeline, too, the *)
(* last load of a page is complete, no old capture comes back, two are     *)
(* there only if a delete ran in the middle of a loop, and a load that was *)
(* alone leaves exactly its chunks (process_document).                     *)
THEOREM PipelineKeepsPages ==
  PipelineSpec => [](LastLoadComplete /\ NoOldVersionReturns /\ DuplicatesOnlyByRace /\ PageIsWhole)
<1>1. LoadInv => LastLoadComplete /\ NoOldVersionReturns /\ DuplicatesOnlyByRace /\ PageIsWhole
  BY TableAssumption, WholePage DEF LoadInv, TableInv, TypeOK, OwnerOrOvertaken, DuplicatesOnlyByRace, SameUrl
<1>2. QED
  BY PipelineLoads, LoadInvariant, <1>1, PTL

(* A process that is down holds nothing: no request is waiting for its     *)
(* server, its body or the channel, no response is on its way to a client, *)
(* and no page to the loader.                                              *)
DownIsIdle ==
  process = "down" =>
    \A d \in Docs :
      /\ request[d] \notin Proxy!Waiting \cup {"answered"}
      /\ phase[d] \notin {"queued"} \cup Running

(* No handler waits when there is no process: a request is read only while  *)
(* there is one, and its end drops those that wait.                        *)
LEMMA HandlersIdle ==
  ASSUME HandlerTypes, [Proxy!Next]_(Proxy!vars),
         receiver = "none" => \A d \in Docs : request[d] \notin Proxy!Waiting \cup {"answered"}
  PROVE  (receiver = "none" => \A d \in Docs : request[d] \notin Proxy!Waiting \cup {"answered"})'
<1> DEFINE idle == receiver = "none" => \A d \in Docs : request[d] \notin Proxy!Waiting \cup {"answered"}
<1> USE DEF HandlerTypes, Proxy!Moves, Proxy!Places, Proxy!Waiting, Proxy!Ends, Proxy!Closed
<1>1. ASSUME NEW d \in Docs,
             Proxy!Forward(d) \/ Proxy!Upgrade(d) \/ Proxy!Respond(d) \/ Proxy!Collect(d)
               \/ Proxy!ServerFails(d) \/ Proxy!ClientLeaves(d) \/ Proxy!Send(d) \/ Proxy!SendFails(d)
               \/ Proxy!Deliver(d)
      PROVE  idle'
  <2> HIDE DEF receiver
  <2>1. receiver' = receiver /\ receiver # "none"
    BY <1>1 DEF Proxy!Forward, Proxy!Upgrade, Proxy!Respond, Proxy!Collect,
                Proxy!ServerFails, Proxy!ClientLeaves, Proxy!Send, Proxy!SendFails, Proxy!Deliver
  <2>2. QED
    BY <2>1
<1>2. ASSUME Proxy!Take \/ Proxy!DropReceiver \/ Proxy!Start PROVE idle'
  BY <1>2 DEF Proxy!Take, Proxy!DropReceiver, Proxy!Start
<1>3. ASSUME Proxy!Stop PROVE idle'
  BY <1>3 DEF Proxy!Stop
<1>4. ASSUME UNCHANGED Proxy!vars PROVE idle'
  BY <1>4 DEF Proxy!vars
<1>5. QED
  BY <1>1, <1>2, <1>3, <1>4 DEF Proxy!Next

(* For any requests and captures: whatever was on its way when the process  *)
(* ended, in the handlers, in the channel or in a task, is given up with    *)
(* it, and the next process starts with none of it (main.rs, lib.rs).      *)
THEOREM ExitEndsEverything == PipelineSpec => []DownIsIdle
<1> DEFINE idle == receiver = "none" => \A d \in Docs : request[d] \notin Proxy!Waiting \cup {"answered"}
<1>1. PipelineInit => idle
  BY DEF PipelineInit, Proxy!Init, Proxy!Waiting
<1>2. PipelineInv /\ idle /\ [PipelineNext]_pipelineVars => idle'
  BY HandlersIdle, ProxyStep DEF PipelineInv
<1>3. LoadInv /\ PipelineInv /\ idle => DownIsIdle
  BY DEF LoadInv, NothingOutlivesProcess, DownIsIdle, receiver, Running, Ended
<1> HIDE DEF idle
<1>4. PipelineSpec => []LoadInv
  BY PipelineLoads, LoadInvariant, PTL
<1>5. QED
  BY PipelineInvariant, <1>1, <1>2, <1>3, <1>4, PTL DEF PipelineSpec

-----------------------------------------------------------------------------
(* Loads that follow each other.                                           *)

(* The loads of one page follow each other, ...                             *)
OneInFlight ==
  \A d, e \in Docs : SameUrl(d, e) /\ InFlight(d) /\ InFlight(e) => d = e

(* ... so that whoever is in its insertion loop is the last to have         *)
(* deleted the rows of its url.                                            *)
AdderOwns == \A d \in Docs : phase[d] = "adding" => owner[UrlOf[d]] = d

(* What the table holds, and what a power failure would bring back of it:   *)
(* rows of the url's last deleter only, none of a chunk it has not come to. *)
Sound(state) ==
  /\ state.entries \in [Docs -> SUBSET Nat]
  /\ state.owner \in [Urls -> Docs \cup {None}]
  /\ \A d \in Docs :
       /\ state.entries[d] \subseteq 1..cursor[d]
       /\ state.entries[d] # {} => state.owner[UrlOf[d]] = d
       /\ state.owner[UrlOf[d]] = d => phase[d] \in {"adding", "done", "lost"}

(* The inductive invariant.                                                *)
SerialInv ==
  /\ TypeOK
  /\ ChannelHoldsQueued
  /\ RowsAreProcessed
  /\ OneInFlight
  /\ AdderOwns
  /\ Sound(Committed)
  /\ Sound(disk)
  /\ disk = [entries |-> disk.entries, owner |-> disk.owner]

(* No document is there and the table is empty, on the disk too.            *)
LEMMA SerialInitInv == SerialInit => SerialInv
<1> SUFFICES ASSUME SerialInit PROVE SerialInv
  OBVIOUS
<1>1. TypeOK /\ ChannelHoldsQueued /\ RowsAreProcessed
  BY TableInit DEF SerialInit, TableInv
<1>2. OneInFlight /\ AdderOwns
  BY DEF SerialInit, Init, OneInFlight, AdderOwns, InFlight, Running
<1>3. Sound(Committed)
  <2>1. \A d \in Docs : owner[UrlOf[d]] # d
    BY TableAssumption, LoaderAssumption DEF SerialInit, Init
  <2>2. \A d \in Docs : entries[d] = {}
    BY DEF SerialInit, Init, EmptyTable
  <2>3. QED
    BY <1>1, <2>1, <2>2 DEF Sound, Committed, TypeOK
<1>4. disk = Committed
  BY DEF SerialInit
<1>5. QED
  BY <1>1, <1>2, <1>3, <1>4 DEF SerialInv, Committed

(* A step of the loader that a serial one takes.                            *)
LEMMA SerialIsLoader ==
  ASSUME (\E d \in Docs : SerialSend(d) \/ Task(d)) \/ Receive \/ Leave \/ Exit \/ Restart
  PROVE  Next
BY DEF SerialSend, Next

(* A power failure stops the process as an exit does and takes the table    *)
(* back to what is on the disk.                                            *)
LEMMA PowerFailsEffect ==
  ASSUME SerialInv, PowerFails
  PROVE  /\ phase' \in [Docs -> Phases]
         /\ \A d \in Docs : phase'[d] \notin {"queued"} \cup Running
         /\ \A d \in Docs : phase[d] \in {"adding", "done", "lost"} => phase'[d] \in {"done", "lost"}
         /\ \A d \in Docs : phase'[d] \notin {"done", "lost"} => phase'[d] = phase[d]
         /\ channel' = <<>> /\ process' = "down"
         /\ Committed' = disk
         /\ UNCHANGED <<cursor, overtaken, failed, older, disk>>
<1>1. Committed' = disk
  BY DEF PowerFails, Committed, SerialInv
<1>2. QED
  BY <1>1 DEF PowerFails, LoseDocs, SerialInv, TypeOK, Phases, Running, Ended

(* What HtmlLoader promises of its own state survives a power failure.      *)
LEMMA SerialBaseStep ==
  ASSUME SerialInv, [SerialNext]_serialVars
  PROVE  TypeOK' /\ ChannelHoldsQueued' /\ RowsAreProcessed'
<1>1. ASSUME [Next]_vars PROVE TypeOK' /\ ChannelHoldsQueued' /\ RowsAreProcessed'
  BY <1>1, TypeStep, ChannelStep, RowsStep DEF SerialInv
<1>2. ASSUME PowerFails PROVE TypeOK' /\ ChannelHoldsQueued' /\ RowsAreProcessed'
  <2>1. /\ entries' = disk.entries /\ owner' = disk.owner
        /\ UNCHANGED <<cursor, overtaken, failed, older>>
    BY <1>2 DEF PowerFails
  <2>2. /\ phase' \in [Docs -> Phases] /\ channel' = <<>> /\ process' = "down"
        /\ \A d \in Docs : phase'[d] \notin {"queued", "spawned", "split", "adding"}
    BY <1>2, PowerFailsEffect DEF Running
  <2>3. /\ <<>> \in Seq(Docs) /\ Len(<<>>) <= Capacity
        /\ IsInjective(<<>>) /\ Range(<<>>) = {}
    BY EmptySeq, LoaderAssumption DEF IsInjective, Range
  <2>4. TypeOK'
    BY <2>1, <2>2, <2>3 DEF TypeOK, SerialInv, Sound
  <2>5. ChannelHoldsQueued'
    BY <2>2, <2>3 DEF ChannelHoldsQueued
  <2>6. ASSUME NEW d \in Docs, phase'[d] \notin {"adding", "done", "lost"} PROVE cursor'[d] = 0
    BY <1>2, <2>1, <2>6, PowerFailsEffect DEF SerialInv, RowsAreProcessed
  <2>7. RowsAreProcessed'
    BY <2>1, <2>6 DEF RowsAreProcessed, SerialInv, Sound
  <2>8. QED
    BY <2>4, <2>5, <2>7
<1>3. ASSUME Checkpoint \/ UNCHANGED serialVars PROVE UNCHANGED vars
  BY <1>3 DEF Checkpoint, serialVars
<1>4. QED
  BY <1>1, <1>2, <1>3, SerialIsLoader DEF SerialNext

(* Every step keeps the loads of one page apart.                            *)
LEMMA OneInFlightStep ==
  ASSUME SerialInv, [SerialNext]_serialVars
  PROVE  OneInFlight'
<1> USE DEF OneInFlight, InFlight, Running
<1>1. ASSUME NEW d \in Docs, SerialSend(d) PROVE OneInFlight'
  <2>1. /\ \A e \in Docs : SameUrl(d, e) => ~InFlight(e)
        /\ \A e \in Docs \ {d} : phase'[e] = phase[e]
    BY <1>1 DEF SerialSend, Send, Enqueue, SerialInv, TypeOK
  <2>2. QED
    BY <2>1 DEF SerialInv, SameUrl
<1>2. ASSUME \A d \in Docs : InFlight(d)' => InFlight(d) PROVE OneInFlight'
  BY <1>2 DEF SerialInv, SameUrl
<1>3. ASSUME NEW d \in Docs, Task(d) PROVE \A e \in Docs : InFlight(e)' => InFlight(e)
  BY <1>3 DEF Task, SplitBody, DeleteOld, DeleteFails, AddChunk, AddFails, NextChunk, LoopPhase,
              SerialInv, TypeOK
<1>4. ASSUME Receive PROVE \A e \in Docs : InFlight(e)' => InFlight(e)
  <2>1. /\ Head(channel) \in Docs /\ phase[Head(channel)] = "queued"
        /\ phase' = [phase EXCEPT ![Head(channel)] = "spawned"]
    BY <1>4, ReceiveEffect DEF SerialInv
  <2>2. QED
    BY <2>1 DEF SerialInv, TypeOK
<1>5. ASSUME Leave \/ Exit \/ Restart \/ PowerFails \/ Checkpoint \/ UNCHANGED serialVars
      PROVE  \A e \in Docs : InFlight(e)' => InFlight(e)
  BY <1>5 DEF Leave, Exit, Restart, PowerFails, Checkpoint, LoseDocs, serialVars, vars
<1>6. QED
  BY <1>1, <1>2, <1>3, <1>4, <1>5 DEF SerialNext

(* What the delete of a serial load does: nobody else is loading the url.   *)
LEMMA SerialDelete ==
  ASSUME SerialInv, NEW d \in Docs, DeleteOld(d)
  PROVE  /\ AdderOwns'
         /\ Sound(Committed)'
         /\ owner[UrlOf[d]] # d
<1> USE DEF SerialInv
<1>1. phase[d] = "split"
  BY DEF DeleteOld
<1>2. owner[UrlOf[d]] # d
  BY <1>1 DEF Sound, Committed
<1>3. ASSUME NEW e \in Docs, phase'[e] = "adding" PROVE owner'[UrlOf[e]] = e
  <2>1. CASE e = d
    BY <2>1, DeleteOldEffect DEF SameUrl
  <2>2. CASE e # d
    <3>1. phase[e] = "adding"
      BY <1>3, <2>2, DeleteOldEffect
    <3>2. ~SameUrl(d, e)
      BY <1>1, <2>2, <3>1 DEF OneInFlight, InFlight, Running
    <3>3. QED
      BY <3>1, <3>2, DeleteOldEffect DEF AdderOwns
  <2>3. QED
    BY <2>1, <2>2
<1>4. Sound(Committed)'
  <2>1. Committed' = [entries |-> entries', owner |-> owner'] /\ Committed = [entries |-> entries, owner |-> owner]
    BY DEF Committed
  <2>2. entries' \in [Docs -> SUBSET Nat] /\ owner' \in [Urls -> Docs \cup {None}] /\ cursor' = cursor
    BY DeleteOldEffect
  <2>3. ASSUME NEW e \in Docs
        PROVE  /\ entries'[e] \subseteq 1..cursor'[e]
               /\ entries'[e] # {} => owner'[UrlOf[e]] = e
               /\ owner'[UrlOf[e]] = e => phase'[e] \in {"adding", "done", "lost"}
    <3>1. CASE SameUrl(d, e)
      <4>1. entries'[e] = {} /\ owner'[UrlOf[e]] = d
        BY <3>1, DeleteOldEffect
      <4>2. phase'[d] \in {"adding", "done"}
        BY DeleteOldEffect, LoopPhaseType
      <4>3. QED
        BY <4>1, <4>2
    <3>2. CASE ~SameUrl(d, e)
      <4>1. entries'[e] = entries[e] /\ owner'[UrlOf[e]] = owner[UrlOf[e]] /\ e # d
        BY <3>2, DeleteOldEffect DEF SameUrl
      <4>2. phase'[e] = phase[e]
        BY <4>1, DeleteOldEffect
      <4>3. QED
        BY <2>1, <2>2, <4>1, <4>2 DEF Sound
    <3>3. QED
      BY <3>1, <3>2
  <2>4. QED
    BY <2>1, <2>2, <2>3 DEF Sound
<1>5. QED
  BY <1>2, <1>3, <1>4 DEF AdderOwns

(* Every step but a delete and a failure of power keeps who owns a url; it  *)
(* adds no row but the adder's, and takes no phase of an owner away.       *)
LEMMA OtherStep ==
  ASSUME SerialInv,
         \/ \E d \in Docs : Send(d) \/ SplitBody(d) \/ DeleteFails(d) \/ AddChunk(d) \/ AddFails(d)
         \/ Receive \/ Leave \/ Exit \/ Restart \/ UNCHANGED vars
  PROVE  /\ owner' = owner
         /\ \A d \in Docs : cursor'[d] \in Nat /\ cursor[d] <= cursor'[d]
         /\ \A d \in Docs : phase'[d] = "adding" => phase[d] = "adding"
         /\ \A d \in Docs : phase[d] \in {"adding", "done", "lost"}
                              => phase'[d] \in {"adding", "done", "lost"}
         /\ \A d \in Docs : entries'[d] = entries[d]
                              \/ (phase[d] = "adding" /\ entries'[d] = entries[d] \cup {cursor[d] + 1}
                                    /\ cursor'[d] = cursor[d] + 1)
<1> USE DEF SerialInv, TypeOK, Running, historyVars
<1>1. ASSUME NEW d \in Docs, Send(d)
      PROVE  UNCHANGED <<owner, cursor, entries>> /\ phase[d] = "unsent"
             /\ phase' = [phase EXCEPT ![d] = "queued"]
  BY <1>1 DEF Send, Enqueue
<1>2. ASSUME NEW d \in Docs, SplitBody(d) \/ DeleteFails(d)
      PROVE  UNCHANGED <<owner, cursor, entries>> /\ phase[d] \in {"spawned", "split"}
             /\ \E p \in {"split", "rejected", "refused"} : phase' = [phase EXCEPT ![d] = p]
  BY <1>2 DEF SplitBody, DeleteFails
<1>3. ASSUME NEW d \in Docs, AddChunk(d) \/ AddFails(d)
      PROVE  /\ owner' = owner /\ phase[d] = "adding"
             /\ cursor' = [cursor EXCEPT ![d] = cursor[d] + 1]
             /\ phase' = [phase EXCEPT ![d] = LoopPhase(d, cursor[d] + 1)]
             /\ entries' = entries \/ entries' = [entries EXCEPT ![d] = @ \cup {cursor[d] + 1}]
  BY <1>3 DEF AddChunk, AddFails, NextChunk, InsertRow
<1>4. ASSUME Receive
      PROVE  UNCHANGED <<owner, cursor, entries>> /\ phase[Head(channel)] = "queued"
             /\ Head(channel) \in Docs /\ phase' = [phase EXCEPT ![Head(channel)] = "spawned"]
  BY <1>4, ReceiveEffect
<1>5. ASSUME Leave \/ Exit \/ Restart \/ UNCHANGED vars
      PROVE  UNCHANGED <<owner, cursor, entries>>
             /\ \A d \in Docs : phase'[d] = phase[d] \/ phase'[d] = "lost"
  BY <1>5 DEF Leave, Exit, Restart, LoseDocs, vars
<1>6. QED
  <2>1. CASE \E d \in Docs : Send(d)
    BY <1>1, <2>1
  <2>2. CASE \E d \in Docs : SplitBody(d) \/ DeleteFails(d)
    <3>1. PICK d \in Docs : SplitBody(d) \/ DeleteFails(d)
      BY <2>2
    <3>2. /\ UNCHANGED <<owner, cursor, entries>> /\ phase[d] \in {"spawned", "split"}
          /\ phase'[d] \in {"split", "rejected", "refused"}
          /\ \A e \in Docs \ {d} : phase'[e] = phase[e]
      BY <1>2, <3>1
    <3>3. QED
      BY <3>2
  <2>3. CASE \E d \in Docs : AddChunk(d) \/ AddFails(d)
    <3>1. PICK d \in Docs : AddChunk(d) \/ AddFails(d)
      BY <2>3
    <3>2. /\ owner' = owner /\ phase[d] = "adding"
          /\ phase'[d] \in {"adding", "done"}
          /\ \A e \in Docs \ {d} : phase'[e] = phase[e]
      BY <1>3, <3>1, LoopPhaseType
    <3>3. /\ cursor'[d] = cursor[d] + 1
          /\ \A e \in Docs \ {d} : cursor'[e] = cursor[e]
      BY <1>3, <3>1
    <3>4. /\ entries'[d] = entries[d] \/ entries'[d] = entries[d] \cup {cursor[d] + 1}
          /\ \A e \in Docs \ {d} : entries'[e] = entries[e]
      BY <1>3, <3>1
    <3>5. \A e \in Docs : cursor'[e] \in Nat /\ cursor[e] <= cursor'[e]
      <4>1. \A e \in Docs : cursor[e] \in Nat
        OBVIOUS
      <4>2. \A e \in Docs : cursor'[e] = cursor[e] \/ cursor'[e] = cursor[e] + 1
        BY <3>3
      <4>3. QED
        BY <4>1, <4>2
    <3>6. \A e \in Docs : entries'[e] = entries[e]
                            \/ (phase[e] = "adding" /\ entries'[e] = entries[e] \cup {cursor[e] + 1}
                                  /\ cursor'[e] = cursor[e] + 1)
      BY <3>2, <3>3, <3>4, Zenon
    <3>7. /\ \A e \in Docs : phase'[e] = "adding" => phase[e] = "adding"
          /\ \A e \in Docs : phase[e] \in {"adding", "done", "lost"}
                              => phase'[e] \in {"adding", "done", "lost"}
      BY <3>2
    <3>8. QED
      BY <3>2, <3>5, <3>6, <3>7, Zenon
  <2>4. CASE Receive
    BY <1>4, <2>4
  <2>5. CASE Leave \/ Exit \/ Restart \/ UNCHANGED vars
    BY <1>5, <2>5
  <2>6. QED
    BY <2>1, <2>2, <2>3, <2>4, <2>5

(* A state of the table stays sound while the cursors move on and owners    *)
(* stay in a phase of theirs, as the one on the disk does.                  *)
LEMMA SoundStays ==
  ASSUME NEW state, Sound(state), cursor \in [Docs -> Nat],
         \A d \in Docs : cursor'[d] \in Nat /\ cursor[d] <= cursor'[d],
         \A d \in Docs : phase[d] \in {"adding", "done", "lost"}
                           => phase'[d] \in {"adding", "done", "lost"}
  PROVE  /\ \A d \in Docs : state.entries[d] \subseteq 1..cursor'[d]
         /\ \A d \in Docs : state.owner[UrlOf[d]] = d => phase'[d] \in {"adding", "done", "lost"}
<1>1. \A d \in Docs : 1..cursor[d] \subseteq 1..cursor'[d]
  OBVIOUS
<1>2. QED
  BY <1>1 DEF Sound

(* Every step of the loader keeps the table sound.                          *)
LEMMA CommittedStep ==
  ASSUME SerialInv,
         \/ \E d \in Docs : SerialSend(d) \/ Task(d)
         \/ Receive \/ Leave \/ Exit \/ Restart \/ UNCHANGED vars
  PROVE  AdderOwns' /\ Sound(Committed)'
<1>1. CASE \E d \in Docs : DeleteOld(d)
  BY <1>1, SerialDelete
<1>2. CASE \/ \E d \in Docs : Send(d) \/ SplitBody(d) \/ DeleteFails(d) \/ AddChunk(d) \/ AddFails(d)
           \/ Receive \/ Leave \/ Exit \/ Restart \/ UNCHANGED vars
  <2>1. /\ owner' = owner
        /\ \A d \in Docs : cursor'[d] \in Nat /\ cursor[d] <= cursor'[d]
        /\ \A d \in Docs : phase'[d] = "adding" => phase[d] = "adding"
        /\ \A d \in Docs : phase[d] \in {"adding", "done", "lost"}
                              => phase'[d] \in {"adding", "done", "lost"}
        /\ \A d \in Docs : entries'[d] = entries[d]
                              \/ (phase[d] = "adding" /\ entries'[d] = entries[d] \cup {cursor[d] + 1}
                                    /\ cursor'[d] = cursor[d] + 1)
    BY <1>2, OtherStep
  <2>2. AdderOwns'
    BY <2>1 DEF AdderOwns, SerialInv
  <2>3. entries' \in [Docs -> SUBSET Nat] /\ owner' \in [Urls -> Docs \cup {None}]
    <3>1. TypeOK'
      BY <1>2, TypeStep DEF SerialInv, Next, Task
    <3>2. QED
      BY <3>1 DEF TypeOK
  <2>4. /\ \A d \in Docs : entries[d] \subseteq 1..cursor'[d]
        /\ \A d \in Docs : owner[UrlOf[d]] = d => phase'[d] \in {"adding", "done", "lost"}
    <3>1. Sound(Committed) /\ cursor \in [Docs -> Nat]
      BY DEF SerialInv, TypeOK
    <3>2. /\ \A d \in Docs : Committed.entries[d] \subseteq 1..cursor'[d]
          /\ \A d \in Docs : Committed.owner[UrlOf[d]] = d => phase'[d] \in {"adding", "done", "lost"}
      BY <2>1, <3>1, SoundStays
    <3>3. Committed.entries = entries /\ Committed.owner = owner
      BY DEF Committed
    <3>4. QED
      BY <3>2, <3>3
  <2>5. ASSUME NEW d \in Docs
        PROVE  /\ entries'[d] \subseteq 1..cursor'[d]
               /\ entries'[d] # {} => owner'[UrlOf[d]] = d
    <3>1. CASE entries'[d] = entries[d]
      BY <2>1, <2>4, <3>1 DEF SerialInv, Sound, Committed
    <3>2. CASE phase[d] = "adding" /\ entries'[d] = entries[d] \cup {cursor[d] + 1}
                 /\ cursor'[d] = cursor[d] + 1
      <4>1. cursor[d] + 1 \in 1..cursor'[d]
        BY <3>2 DEF SerialInv, TypeOK
      <4>2. owner[UrlOf[d]] = d
        BY <3>2 DEF SerialInv, AdderOwns
      <4>3. QED
        BY <2>1, <2>4, <3>2, <4>1, <4>2
    <3>3. QED
      BY <2>1, <3>1, <3>2
  <2>6. QED
    BY <2>1, <2>2, <2>3, <2>4, <2>5 DEF Sound, Committed
<1>3. QED
  BY <1>1, <1>2 DEF Task, SerialSend

(* Every step of the loader, of the log and of the machine preserves the    *)
(* invariant.                                                              *)
LEMMA SerialStep == SerialInv /\ [SerialNext]_serialVars => SerialInv'
<1> SUFFICES ASSUME SerialInv, [SerialNext]_serialVars PROVE SerialInv'
  OBVIOUS
<1>1. TypeOK' /\ ChannelHoldsQueued' /\ RowsAreProcessed' /\ OneInFlight'
  BY SerialBaseStep, OneInFlightStep
<1>2. ASSUME \/ \E d \in Docs : SerialSend(d) \/ Task(d)
             \/ Receive \/ Leave \/ Exit \/ Restart \/ UNCHANGED vars,
             disk' = disk
      PROVE  AdderOwns' /\ Sound(Committed)' /\ Sound(disk)'
  <2>1. \A d \in Docs : cursor'[d] \in Nat /\ cursor[d] <= cursor'[d]
    <3>1. ASSUME NEW d \in Docs, DeleteOld(d) PROVE cursor' = cursor
      BY <3>1 DEF DeleteOld
    <3>2. QED
      BY <1>2, <3>1, OtherStep DEF Task, SerialSend, SerialInv, TypeOK
  <2>2. \A d \in Docs : phase[d] \in {"adding", "done", "lost"}
                          => phase'[d] \in {"adding", "done", "lost"}
    <3>1. ASSUME NEW d \in Docs, DeleteOld(d)
          PROVE \A e \in Docs : phase[e] \in {"adding", "done", "lost"} => phase'[e] = phase[e]
      BY <3>1 DEF DeleteOld, SerialInv, TypeOK
    <3>2. QED
      BY <1>2, <3>1, OtherStep DEF Task, SerialSend
  <2>3. Sound(disk)'
    <3>1. /\ \A d \in Docs : disk.entries[d] \subseteq 1..cursor'[d]
          /\ \A d \in Docs : disk.owner[UrlOf[d]] = d => phase'[d] \in {"adding", "done", "lost"}
      BY <2>1, <2>2, SoundStays DEF SerialInv, TypeOK
    <3>2. QED
      BY <1>2, <3>1 DEF SerialInv, Sound
  <2>4. QED
    BY <1>2, <2>3, CommittedStep
<1>3. ASSUME Checkpoint PROVE AdderOwns' /\ Sound(Committed)' /\ Sound(disk)' /\ disk' = Committed
  BY <1>3 DEF Checkpoint, vars, SerialInv, AdderOwns, Sound, Committed
<1>4. ASSUME PowerFails PROVE AdderOwns' /\ Sound(Committed)' /\ Sound(disk)' /\ disk' = disk
  <2>1. /\ \A d \in Docs : phase[d] \in {"adding", "done", "lost"} => phase'[d] \in {"done", "lost"}
        /\ \A d \in Docs : phase'[d] \notin {"queued"} \cup Running
        /\ Committed' = disk /\ cursor' = cursor /\ disk' = disk
    BY <1>4, PowerFailsEffect
  <2>2. Sound(disk)'
    BY <2>1 DEF SerialInv, Sound
  <2>3. Sound(Committed)'
    BY <2>1, <2>2 DEF Sound
  <2>4. QED
    BY <2>1, <2>2, <2>3 DEF AdderOwns, Running
<1>5. disk' = [entries |-> disk'.entries, owner |-> disk'.owner]
  BY DEF SerialNext, Checkpoint, PowerFails, serialVars, SerialInv, Committed
<1>6. QED
  BY <1>1, <1>2, <1>3, <1>4, <1>5 DEF SerialNext, serialVars, SerialInv

-----------------------------------------------------------------------------
(* The rows of a url in a table.                                           *)

LEMMA RowsOfMember ==
  ASSUME NEW table \in [Docs -> SUBSET Nat], NEW u
  PROVE  \A r : r \in RowsOf(table, u) <=>
                  r \in Docs \X Nat /\ UrlOf[r[1]] = u /\ r[2] \in table[r[1]]
<1>1. ASSUME NEW r \in Docs \X Nat, r[2] \in table[r[1]]
      PROVE  r \in Docs \X UNION Range(table)
  <2>1. r[1] \in Docs /\ r = <<r[1], r[2]>> /\ table[r[1]] \in Range(table)
    BY DEF Range
  <2>2. r[2] \in UNION Range(table)
    BY <1>1, <2>1
  <2>3. QED
    BY <2>1, <2>2
<1>2. ASSUME NEW r \in Docs \X UNION Range(table), r[2] \in table[r[1]]
      PROVE  r \in Docs \X Nat
  <2>1. r[1] \in Docs /\ r = <<r[1], r[2]>>
    OBVIOUS
  <2>2. r[2] \in Nat
    BY <1>2, <2>1
  <2>3. QED
    BY <2>1, <2>2
<1>3. QED
  BY <1>1, <1>2 DEF RowsOf

(* A delete takes all rows of its url away, and none of another ...         *)
LEMMA RowsAfterDelete ==
  ASSUME NEW table \in [Docs -> SUBSET Nat], NEW v, NEW u
  PROVE  RowsOf(DeleteByUrl(table, v), u) = IF u = v THEN {} ELSE RowsOf(table, u)
<1> DEFINE after == DeleteByUrl(table, v)
<1>1. after \in [Docs -> SUBSET Nat] /\ \A d \in Docs : after[d] = IF UrlOf[d] = v THEN {} ELSE table[d]
  BY DEF DeleteByUrl
<1> HIDE DEF after
<1>2. \A r : r \in RowsOf(after, u) <=>
               r \in Docs \X Nat /\ UrlOf[r[1]] = u /\ r[2] \in after[r[1]]
  BY <1>1, RowsOfMember
<1>3. \A r : r \in RowsOf(table, u) <=>
               r \in Docs \X Nat /\ UrlOf[r[1]] = u /\ r[2] \in table[r[1]]
  BY RowsOfMember
<1>4. \A r \in Docs \X Nat : r[1] \in Docs
  OBVIOUS
<1>5. CASE u = v
  BY <1>1, <1>2, <1>4, <1>5 DEF after
<1>6. CASE u # v
  <2>1. \A r : r \in RowsOf(after, u) <=> r \in RowsOf(table, u)
    BY <1>1, <1>2, <1>3, <1>4, <1>6
  <2>2. QED
    BY <1>6, <2>1 DEF after
<1>7. QED
  BY <1>5, <1>6

(* ... and an insertion brings one row to its url.                          *)
LEMMA RowsAfterInsert ==
  ASSUME NEW table \in [Docs -> SUBSET Nat], NEW d \in Docs, NEW k \in Nat, NEW u
  PROVE  RowsOf(InsertRow(table, d, k), u) =
           IF u = UrlOf[d] THEN RowsOf(table, u) \cup {<<d, k>>} ELSE RowsOf(table, u)
<1> DEFINE after == InsertRow(table, d, k)
<1>1. /\ after \in [Docs -> SUBSET Nat] /\ after[d] = table[d] \cup {k}
      /\ \A e \in Docs \ {d} : after[e] = table[e]
  BY DEF InsertRow
<1> HIDE DEF after
<1>2. \A r : r \in RowsOf(after, u) <=>
               r \in Docs \X Nat /\ UrlOf[r[1]] = u /\ r[2] \in after[r[1]]
  BY <1>1, RowsOfMember
<1>3. \A r : r \in RowsOf(table, u) <=>
               r \in Docs \X Nat /\ UrlOf[r[1]] = u /\ r[2] \in table[r[1]]
  BY RowsOfMember
<1>4. \A r \in Docs \X Nat : r[1] \in Docs /\ r = <<r[1], r[2]>>
  OBVIOUS
<1>5. <<d, k>> \in Docs \X Nat /\ <<d, k>>[1] = d /\ <<d, k>>[2] = k
  OBVIOUS
<1>6. ASSUME NEW r
      PROVE  r \in RowsOf(after, u) <=> r \in RowsOf(table, u) \/ (u = UrlOf[d] /\ r = <<d, k>>)
  <2>1. CASE r = <<d, k>>
    BY <1>1, <1>2, <1>3, <1>5, <2>1
  <2>2. CASE r # <<d, k>>
    <3>1. r \in Docs \X Nat => (r[2] \in after[r[1]] <=> r[2] \in table[r[1]])
      BY <1>1, <1>4, <2>2
    <3>2. QED
      BY <1>2, <1>3, <2>2, <3>1
  <2>3. QED
    BY <2>1, <2>2
<1>7. QED
  BY <1>6 DEF after

-----------------------------------------------------------------------------
(* The refinement.                                                         *)

(* What the index shows, field by field.                                   *)
LEMMA IndexOf ==
  /\ Index(Committed) = [version |-> owner, rows |-> [u \in Urls |-> RowsOf(entries, u)]]
  /\ Index(Committed)' = [version |-> owner', rows |-> [u \in Urls |-> RowsOf(entries', u)]]
BY DEF Index, Committed, RowsOf

(* The delete of a serial load replaces the version of the page, ...        *)
LEMMA DeleteReplaces ==
  ASSUME SerialInv, NEW d \in Docs, DeleteOld(d), disk' = disk
  PROVE  Versions!Replace(d)
<1>1. /\ owner[UrlOf[d]] # d
      /\ owner' = [owner EXCEPT ![UrlOf[d]] = d]
      /\ entries' = DeleteByUrl(entries, UrlOf[d])
  BY SerialDelete DEF DeleteOld
<1>2. /\ UrlOf[d] \in Urls /\ entries \in [Docs -> SUBSET Nat]
      /\ owner \in [Urls -> Docs \cup {None}]
  BY TableAssumption DEF SerialInv, TypeOK
<1>3. [u \in Urls |-> RowsOf(entries', u)]
        = [[u \in Urls |-> RowsOf(entries, u)] EXCEPT ![UrlOf[d]] = {}]
  <2>1. \A u \in Urls : RowsOf(entries', u) = IF u = UrlOf[d] THEN {} ELSE RowsOf(entries, u)
    <3>1. ASSUME NEW u \in Urls
          PROVE  RowsOf(DeleteByUrl(entries, UrlOf[d]), u) = IF u = UrlOf[d] THEN {} ELSE RowsOf(entries, u)
      BY <1>2, RowsAfterDelete
    <3>2. QED
      BY <1>1, <3>1
  <2>2. QED
    BY <2>1
<1>4. Index(Committed)' = [version |-> [Index(Committed).version EXCEPT ![UrlOf[d]] = d],
                           rows |-> [Index(Committed).rows EXCEPT ![UrlOf[d]] = {}]]
  BY <1>1, <1>3, IndexOf
<1>5. Index(Committed).version[UrlOf[d]] # d
  BY <1>1, IndexOf
<1>6. Index(disk)' = Index(disk)
  BY DEF Index, RowsOf
<1>7. QED
  BY <1>4, <1>5, <1>6 DEF Versions!Replace

(* ... an insertion stores the next chunk of the version there is, ...      *)
LEMMA AddStores ==
  ASSUME SerialInv, NEW d \in Docs, AddChunk(d), disk' = disk
  PROVE  cursor[d] + 1 \in 1..NumChunks[d] /\ Versions!Store(d, cursor[d] + 1)
<1> DEFINE k == cursor[d] + 1
<1>1. /\ phase[d] = "adding" /\ owner' = owner
      /\ entries' = InsertRow(entries, d, k)
  BY DEF AddChunk, NextChunk
<1>2. /\ UrlOf[d] \in Urls /\ entries \in [Docs -> SUBSET Nat]
      /\ cursor[d] \in Nat /\ NumChunks[d] \in Nat /\ cursor[d] < NumChunks[d]
      /\ owner[UrlOf[d]] = d /\ owner \in [Urls -> Docs \cup {None}]
  BY <1>1, TableAssumption, LoaderAssumption DEF SerialInv, TypeOK, AdderOwns
<1>3. k \in 1..NumChunks[d] /\ k \in Nat
  BY <1>2
<1>4. ASSUME NEW r \in RowsOf(entries, UrlOf[d]) PROVE r[1] = d /\ r[2] < k
  <2>1. r \in Docs \X Nat /\ UrlOf[r[1]] = UrlOf[d] /\ r[2] \in entries[r[1]]
    BY <1>2, RowsOfMember
  <2>2. r[1] \in Docs /\ entries[r[1]] # {}
    BY <2>1
  <2>3. owner[UrlOf[r[1]]] = r[1]
    BY <2>2 DEF SerialInv, Sound, Committed
  <2>4. r[1] = d
    BY <1>2, <2>1, <2>3
  <2>5. r[2] \in 1..cursor[d]
    BY <2>1, <2>4 DEF SerialInv, RowsAreProcessed
  <2>6. QED
    BY <1>2, <2>4, <2>5
<1> HIDE DEF k
<1>5. [u \in Urls |-> RowsOf(entries', u)]
        = [[u \in Urls |-> RowsOf(entries, u)] EXCEPT ![UrlOf[d]] = @ \cup {<<d, k>>}]
  <2>1. \A u \in Urls : RowsOf(entries', u) =
          IF u = UrlOf[d] THEN RowsOf(entries, u) \cup {<<d, k>>} ELSE RowsOf(entries, u)
    BY <1>1, <1>2, <1>3, RowsAfterInsert
  <2>2. QED
    BY <2>1
<1>6. Index(Committed)' =
        [version |-> Index(Committed).version,
         rows |-> [Index(Committed).rows EXCEPT ![UrlOf[d]] = @ \cup {<<d, k>>}]]
  <2> DEFINE rows == [u \in Urls |-> RowsOf(entries, u)]
  <2>1. Index(Committed).version = owner /\ Index(Committed).rows = rows
    BY IndexOf
  <2>2. Index(Committed)' = [version |-> owner, rows |-> [u \in Urls |-> RowsOf(entries', u)]]
    BY <1>1, IndexOf
  <2>3. [u \in Urls |-> RowsOf(entries', u)] = [rows EXCEPT ![UrlOf[d]] = @ \cup {<<d, k>>}]
    BY <1>5
  <2> HIDE DEF rows
  <2>4. QED
    BY <2>1, <2>2, <2>3
<1>7. /\ Index(Committed).version[UrlOf[d]] = d
      /\ Index(Committed).rows[UrlOf[d]] = RowsOf(entries, UrlOf[d])
  BY <1>2, IndexOf
<1>8. Index(disk)' = Index(disk)
  BY DEF Index, RowsOf
<1>9. Versions!Store(d, k)
  BY <1>4, <1>6, <1>7, <1>8 DEF Versions!Store
<1>10. QED
  BY <1>3, <1>9 DEF k

(* ... a checkpoint saves the index, and a power failure brings what was    *)
(* saved back; the other steps show the index as it is.                    *)
LEMMA VersionsStep ==
  ASSUME SerialInv, [SerialNext]_serialVars
  PROVE  [Versions!Next]_(Versions!vars)
<1>1. ASSUME NEW d \in Docs, DeleteOld(d), disk' = disk PROVE Versions!Next
  BY <1>1, DeleteReplaces DEF Versions!Next
<1>2. ASSUME NEW d \in Docs, AddChunk(d), disk' = disk PROVE Versions!Next
  BY <1>2, AddStores DEF Versions!Next
<1>3. CASE Checkpoint
  <2>1. disk' = Committed /\ Committed' = Committed
    BY <1>3 DEF Checkpoint, vars, Committed
  <2>2. Index(disk)' = Index(Committed) /\ Index(Committed)' = Index(Committed)
    BY <2>1 DEF Index, RowsOf
  <2>3. Versions!Save
    BY <2>2 DEF Versions!Save
  <2>4. QED
    BY <2>3 DEF Versions!Next
<1>4. CASE PowerFails
  <2>1. disk' = disk /\ Committed' = disk
    BY <1>4, PowerFailsEffect
  <2>2. Index(disk)' = Index(disk) /\ Index(Committed)' = Index(disk)
    BY <2>1 DEF Index, RowsOf
  <2>3. Versions!Recover
    BY <2>2 DEF Versions!Recover
  <2>4. QED
    BY <2>3 DEF Versions!Next
<1>5. ASSUME \/ \E d \in Docs : SerialSend(d) \/ SplitBody(d) \/ DeleteFails(d) \/ AddFails(d)
             \/ Receive \/ Leave \/ Exit \/ Restart \/ UNCHANGED vars,
             disk' = disk
      PROVE  UNCHANGED Versions!vars
  <2>1. UNCHANGED <<entries, owner>>
    BY <1>5 DEF SerialSend, Send, Enqueue, SplitBody, DeleteFails, AddFails, NextChunk,
                Receive, Leave, Exit, Restart, vars, historyVars
  <2>2. Index(Committed)' = Index(Committed) /\ Index(disk)' = Index(disk)
    BY <1>5, <2>1 DEF Index, RowsOf, Committed
  <2>3. QED
    BY <2>2 DEF Versions!vars
<1>6. QED
  BY <1>1, <1>2, <1>3, <1>4, <1>5 DEF SerialNext, Task, serialVars

(* When the loads of a page follow each other, then for all documents,      *)
(* chunks and failures, power failures included, a reader of the table     *)
(* sees of every page one capture that grows chunk by chunk and is          *)
(* replaced as a whole (process_document, WAL).                            *)
THEOREM SerialLoadsReplacePages == SerialSpec => ImplementsPageVersions
<1>1. SerialInit => Versions!Init
  <2> SUFFICES ASSUME SerialInit PROVE Versions!Init
    OBVIOUS
  <2>1. entries = EmptyTable /\ owner = [u \in Urls |-> None] /\ disk = Committed
    BY DEF SerialInit, Init
  <2>2. EmptyTable \in [Docs -> SUBSET Nat] /\ \A d \in Docs : EmptyTable[d] = {}
    BY DEF EmptyTable
  <2>3. \A u \in Urls : RowsOf(entries, u) = {}
    BY <2>1, <2>2, RowsOfMember
  <2>4. Index(Committed) = [version |-> [u \in Urls |-> None], rows |-> [u \in Urls |-> {}]]
    BY <2>1, <2>3, IndexOf
  <2>5. Index(disk) = Index(Committed)
    BY <2>1
  <2>6. QED
    BY <2>4, <2>5 DEF Versions!Init
<1>2. SerialInv /\ [SerialNext]_serialVars => [Versions!Next]_(Versions!vars)
  BY VersionsStep
<1>3. SerialInit /\ [][SerialNext]_serialVars => []SerialInv
  BY SerialInitInv, SerialStep, PTL
<1>4. QED
  BY <1>1, <1>2, <1>3, PTL DEF SerialSpec, ImplementsPageVersions, Versions!Spec
=============================================================================
