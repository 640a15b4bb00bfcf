-------------------------- MODULE LifecycleProofs --------------------------
(***************************************************************************)
(* What holds of every life of the program, for any number of connections. *)
(***************************************************************************)
EXTENDS Lifecycle, TLAPS

(* The statements of init_tables that this start has gone through are done. *)
SchemaGrows ==
  /\ stage = "starting" =>
       \A i \in 1..done : Steps[i].name \in Schema => Steps[i].name \in schema
  /\ stage \in {"selecting", "leaving"} => schema = Schema

(* What there is of listeners, connections and outcomes in each stage.      *)
StageTells ==
  /\ stage = "starting" => ~served /\ winner = "none" /\ open = {}
  /\ stage = "selecting" => winner = "none"
  /\ stage = "leaving" => winner \in Listeners
  /\ stage = "down" => open = {}
  /\ stage # "down" => status = "none"
  /\ stage # "selecting" => listening = {}

(* The inductive invariant.                                                *)
LifeInv == TypeOK /\ SchemaGrows /\ StageTells /\ StatusTells

(* There are seven steps, and the three of the schema are among them.       *)
LEMMA StepsCoverSchema ==
  /\ Len(Steps) = 7
  /\ \A n \in Schema : \E i \in 1..7 : Steps[i].name = n
<1>1. Len(Steps) = 7
  BY DEF Steps
<1>2. Steps[3].name = "entries" /\ Steps[4].name = "embedding index"
      /\ Steps[5].name = "url index"
  BY DEF Steps
<1>3. 3 \in 1..7 /\ 4 \in 1..7 /\ 5 \in 1..7
  OBVIOUS
<1>4. ASSUME NEW n \in Schema PROVE \E i \in 1..7 : Steps[i].name = n
  <2>1. CASE n = "entries"
    BY <1>2, <1>3, <2>1, Zenon
  <2>2. CASE n = "embedding index"
    BY <1>2, <1>3, <2>2, Zenon
  <2>3. CASE n = "url index"
    BY <1>2, <1>3, <2>3, Zenon
  <2> QED BY <2>1, <2>2, <2>3 DEF Schema
<1> QED BY <1>1, <1>4

(* A life begins with nothing.                                             *)
LEMMA InitLifeInv == Init => LifeInv
<1> SUFFICES ASSUME Init PROVE LifeInv
  OBVIOUS
<1>1. TypeOK
  <2>1. 0 \in 0..Len(Steps)
    BY StepsCoverSchema
  <2> QED BY <2>1 DEF Init, TypeOK
<1>2. \A i \in 1..done : FALSE
  BY DEF Init
<1>3. SchemaGrows
  BY <1>2, Zenon DEF Init, SchemaGrows
<1>4. StageTells /\ StatusTells
  BY DEF Init, StageTells, StatusTells
<1> QED BY <1>1, <1>3, <1>4 DEF LifeInv

(* Types are kept by every step.                                           *)
LEMMA LifeTypeStep ==
  ASSUME TypeOK, Next PROVE TypeOK'
<1>1. Len(Steps) = 7
  BY StepsCoverSchema
<1>2. CASE StepDone
  BY <1>1, <1>2 DEF StepDone, TypeOK
<1>3. CASE StepFails \/ Select \/ Exit \/ Kill
  BY <1>3 DEF StepFails, Select, Exit, Kill, TypeOK
<1>4. CASE Start
  <2>1. 0 \in 0..Len(Steps)
    BY <1>1
  <2> QED BY <1>4, <2>1 DEF Start, TypeOK
<1>5. ASSUME NEW b \in Listeners, Listen(b) PROVE TypeOK'
  BY <1>5 DEF Listen, TypeOK
<1>6. ASSUME NEW b \in Branches, BranchReturns(b) PROVE TypeOK'
  BY <1>6 DEF BranchReturns, TypeOK
<1>7. ASSUME NEW c \in Connections, Accept(c) \/ ConnectionEnds(c) PROVE TypeOK'
  BY <1>7 DEF Accept, ConnectionEnds, TypeOK
<1>8. CASE BreakOrRepair
  BY <1>8 DEF BreakOrRepair, TypeOK
<1> QED BY <1>2, <1>3, <1>4, <1>5, <1>6, <1>7, <1>8 DEF Next

(* A start that gets to select! has gone through every statement; the file *)
(* keeps what it has.                                                      *)
LEMMA SchemaStep ==
  ASSUME TypeOK, SchemaGrows, StageTells, Next PROVE SchemaGrows'
<1>1. CASE StepDone
  <2>1. stage' = "starting" /\ done' = done + 1 /\ done \in Nat
    BY <1>1 DEF StepDone, TypeOK
  <2>2. schema' = schema \cup ({Steps[done + 1].name} \cap Schema)
    BY <1>1 DEF StepDone, StepNow
  <2>3. ASSUME NEW i \in 1..done', Steps[i].name \in Schema
        PROVE  Steps[i].name \in schema'
    <3>1. CASE i = done + 1
      BY <2>2, <2>3, <3>1
    <3>2. CASE i # done + 1
      <4>1. i \in 1..done
        BY <2>1, <2>3, <3>2
      <4> QED BY <1>1, <2>2, <2>3, <4>1 DEF SchemaGrows, StepDone
    <3> QED BY <3>1, <3>2
  <2> QED BY <2>1, <2>3 DEF SchemaGrows
<1>2. CASE Select
  <2>1. Schema \subseteq schema
    BY <1>2, StepsCoverSchema DEF Select, SchemaGrows
  <2>2. schema = Schema
    BY <2>1 DEF TypeOK
  <2> QED BY <1>2, <2>2 DEF Select, SchemaGrows
<1>3. CASE StepFails \/ Exit \/ Kill \/ BreakOrRepair
  BY <1>3 DEF StepFails, Exit, Kill, BreakOrRepair, SchemaGrows
<1>4. CASE Start
  BY <1>4 DEF Start, SchemaGrows
<1>5. ASSUME NEW b \in Listeners, Listen(b) PROVE SchemaGrows'
  BY <1>5 DEF Listen, SchemaGrows
<1>6. ASSUME NEW b \in Branches, BranchReturns(b) PROVE SchemaGrows'
  BY <1>6 DEF BranchReturns, SchemaGrows
<1>7. ASSUME NEW c \in Connections, Accept(c) \/ ConnectionEnds(c) PROVE SchemaGrows'
  BY <1>7 DEF Accept, ConnectionEnds, SchemaGrows
<1> QED BY <1>1, <1>2, <1>3, <1>4, <1>5, <1>6, <1>7 DEF Next

(* The first branch to return is a listener: the channel is open while the *)
(* proxy's future is there.                                                *)
LEMMA FirstIsListener ==
  ASSUME StageTells, NEW b \in Branches, BranchReturns(b)
  PROVE  b \in Listeners
<1>1. winner = "none"
  BY DEF BranchReturns, StageTells
<1> QED BY <1>1 DEF BranchReturns, Returns, ChannelClosed, Branches, Listeners

(* Stages and exit statuses are kept by every step.                        *)
LEMMA StageStep ==
  ASSUME TypeOK, StageTells, StatusTells, Next PROVE StageTells' /\ StatusTells'
<1>1. CASE StepDone \/ StepFails \/ Select
  BY <1>1 DEF StepDone, StepFails, Select, StageTells, StatusTells
<1>2. CASE Exit \/ Kill \/ Start \/ BreakOrRepair
  BY <1>2 DEF Exit, Kill, Start, BreakOrRepair, TypeOK, StageTells, StatusTells
<1>3. ASSUME NEW b \in Listeners, Listen(b) PROVE StageTells' /\ StatusTells'
  BY <1>3 DEF Listen, StageTells, StatusTells
<1>4. ASSUME NEW b \in Branches, BranchReturns(b) PROVE StageTells' /\ StatusTells'
  BY <1>4, FirstIsListener DEF BranchReturns, StageTells, StatusTells
<1>5. ASSUME NEW c \in Connections, Accept(c) \/ ConnectionEnds(c)
      PROVE  StageTells' /\ StatusTells'
  BY <1>5 DEF Accept, ConnectionEnds, StageTells, StatusTells
<1> QED BY <1>1, <1>2, <1>3, <1>4, <1>5 DEF Next

(* The invariant holds of every life.                                      *)
THEOREM LifeInvariant == Spec => []LifeInv
<1>1. LifeInv /\ [Next]_vars => LifeInv'
  <2>1. ASSUME LifeInv, Next PROVE LifeInv'
    BY <2>1, LifeTypeStep, SchemaStep, StageStep DEF LifeInv
  <2>2. ASSUME LifeInv, UNCHANGED vars PROVE LifeInv'
    BY <2>2 DEF LifeInv, TypeOK, SchemaGrows, StageTells, StatusTells, vars
  <2> QED BY <2>1, <2>2
<1> QED BY InitLifeInv, <1>1, PTL DEF Spec

(* The variables of a life have their types.                               *)
THEOREM LifeTypeCorrect == Spec => []TypeOK
<1>1. LifeInv => TypeOK
  BY DEF LifeInv
<1> QED BY LifeInvariant, <1>1, PTL

(* No port is bound before the whole schema is there.                      *)
THEOREM SchemaBeforePorts == Spec => []ListensWithSchema
<1>1. LifeInv => ListensWithSchema
  BY DEF LifeInv, SchemaGrows, StageTells, ListensWithSchema
<1> QED BY LifeInvariant, <1>1, PTL

(* A failure has served nobody, and a success is a listener's end.         *)
THEOREM StatusIsTelling == Spec => []StatusTells
<1>1. LifeInv => StatusTells
  BY DEF LifeInv
<1> QED BY LifeInvariant, <1>1, PTL
=============================================================================
