------------------------------ MODULE Lifecycle ------------------------------
(***************************************************************************)
(* A life of the program, from main to its exit status: the steps of run   *)
(* (src/lib.rs), any of which may fail; the three branches of its select!, *)
(* two of which bind a port and accept connections; the end, which the     *)
(* first branch to return brings; and the next life, which Docker starts   *)
(* whatever the exit status was (docker-compose.yml, unless-stopped).      *)
(***************************************************************************)
EXTENDS Naturals, Sequences

CONSTANT Connections   (* tasks the proxy's listener may spawn               *)

(* What may be out of order around the program: the download of the model, *)
(* the database file, patterns and keys, sockets, or the machine itself.   *)
Resources == {"model", "database", "settings", "network", "host"}

Schema == {"entries", "embedding index", "url index"}
Listeners == {"proxy", "web"}
Branches == Listeners \cup {"loader"}

(* The steps of a start in their order, each with what it needs.            *)
Steps ==
  <<[name |-> "model", needs |-> "model"],
    [name |-> "connect", needs |-> "database"],
    [name |-> "entries", needs |-> "database"],
    [name |-> "embedding index", needs |-> "database"],
    [name |-> "url index", needs |-> "database"],
    [name |-> "patterns", needs |-> "settings"],
    [name |-> "keys", needs |-> "settings"]>>

VARIABLES
  stage,       (* down, starting, selecting or leaving                      *)
  done,        (* steps of this start that are done                         *)
  status,      (* exit status of the last life, none in a life              *)
  schema,      (* what the database file has of the schema                  *)
  listening,   (* ports that are bound                                      *)
  open,        (* connections of the proxy, each with a clone of the sender *)
  winner,      (* the branch of select! that returned, or none              *)
  broken,      (* resources that are out of order                           *)
  served       (* history: this life has accepted a connection              *)

vars == <<stage, done, status, schema, listening, open, winner, broken, served>>

Init ==
  /\ stage = "starting" /\ done = 0 /\ status = "none"
  /\ schema = {}
  /\ listening = {} /\ open = {} /\ winner = "none"
  /\ broken \in SUBSET Resources
  /\ served = FALSE

-----------------------------------------------------------------------------
(* run: each `?` ends it with an error, before any port is bound.           *)

StepNow == Steps[done + 1]

(* Variants marked "bug" are faulty forms of the definition below them: they *)
(* show that a property can fail, and no action uses them.                 *)

(* bug: a database with a table is taken to be complete.                   *)
StepDoneOnce ==
  /\ stage = "starting" /\ done < Len(Steps)
  /\ done' = IF StepNow.name \in schema THEN 5 ELSE done + 1
  /\ schema' = schema \cup ({StepNow.name} \cap Schema)
  /\ UNCHANGED <<stage, status, listening, open, winner, broken, served>>

StepDone ==
  /\ stage = "starting" /\ done < Len(Steps)
  /\ done' = done + 1
  /\ schema' = schema \cup ({StepNow.name} \cap Schema)
  /\ UNCHANGED <<stage, status, listening, open, winner, broken, served>>

(* bug: the step before the one that failed is tried again.                *)
StepFailsBack ==
  /\ stage = "starting" /\ done < Len(Steps)
  /\ StepNow.needs \in broken
  /\ done' = done - 1
  /\ UNCHANGED <<stage, status, schema, listening, open, winner, broken, served>>

StepFails ==
  /\ stage = "starting" /\ done < Len(Steps)
  /\ StepNow.needs \in broken
  /\ stage' = "down"
  /\ status' = "failure"
  /\ UNCHANGED <<done, schema, listening, open, winner, broken, served>>

Select ==
  /\ stage = "starting" /\ done = Len(Steps)
  /\ stage' = "selecting"
  /\ UNCHANGED <<done, status, schema, listening, open, winner, broken, served>>

-----------------------------------------------------------------------------
(* select!                                                                 *)

Listen(b) ==
  /\ stage = "selecting"
  /\ b \notin listening
  /\ listening' = listening \cup {b}
  /\ UNCHANGED <<stage, done, status, schema, open, winner, broken, served>>

Accept(c) ==
  /\ "proxy" \in listening
  /\ c \notin open
  /\ open' = open \cup {c}
  /\ served' = TRUE
  /\ UNCHANGED <<stage, done, status, schema, listening, winner, broken>>

(* Whoever ends, by itself or by an error, ends alone.                      *)
ConnectionEnds(c) ==
  /\ c \in open
  /\ open' = open \ {c}
  /\ UNCHANGED <<stage, done, status, schema, listening, winner, broken, served>>

(* The proxy's future owns the extractor and with it a sender until it     *)
(* returns, and so does every connection.                                  *)
ChannelClosed == winner # "none" /\ open = {}

(* The authority, a bind or an accept fails; recv returns None.            *)
Returns(b) ==
  \/ b \in Listeners /\ "network" \in broken
  \/ b = "proxy" /\ b \notin listening /\ "settings" \in broken
  \/ b = "loader" /\ ChannelClosed

(* bug: the error of a branch is the result of run.                         *)
BranchFails(b) ==
  /\ stage = "selecting"
  /\ Returns(b)
  /\ winner' = b
  /\ stage' = "down"
  /\ status' = "failure"
  /\ listening' = {}
  /\ open' = {}
  /\ UNCHANGED <<done, schema, broken, served>>

BranchReturns(b) ==
  /\ stage = "selecting"
  /\ Returns(b)
  /\ winner' = b
  /\ stage' = "leaving"
  /\ listening' = {}
  /\ UNCHANGED <<done, status, schema, open, broken, served>>

(* run is Ok whatever the branch returned; the runtime ends with main.     *)
Exit ==
  /\ stage = "leaving"
  /\ stage' = "down"
  /\ status' = "success"
  /\ open' = {}
  /\ UNCHANGED <<done, schema, listening, winner, broken, served>>

-----------------------------------------------------------------------------
(* Around the program.                                                     *)

Kill ==
  /\ stage # "down" /\ "host" \in broken
  /\ stage' = "down"
  /\ status' = "killed"
  /\ listening' = {} /\ open' = {}
  /\ UNCHANGED <<done, schema, winner, broken, served>>

(* bug: restart: on-failure.                                               *)
StartOnFailure ==
  /\ stage = "down" /\ status # "success"
  /\ stage' = "starting" /\ done' = 0 /\ status' = "none"
  /\ winner' = "none" /\ served' = FALSE
  /\ UNCHANGED <<schema, listening, open, broken>>

Start ==
  /\ stage = "down"
  /\ stage' = "starting" /\ done' = 0 /\ status' = "none"
  /\ winner' = "none" /\ served' = FALSE
  /\ UNCHANGED <<schema, listening, open, broken>>

BreakOrRepair ==
  /\ \E r \in Resources : broken' \in {broken \cup {r}, broken \ {r}}
  /\ UNCHANGED <<stage, done, status, schema, listening, open, winner, served>>

Next ==
  \/ StepDone \/ StepFails \/ Select
  \/ \E b \in Listeners : Listen(b)
  \/ \E b \in Branches : BranchReturns(b)
  \/ \E c \in Connections : Accept(c) \/ ConnectionEnds(c)
  \/ Exit \/ Kill \/ Start \/ BreakOrRepair

(* Every step of a start returns, the branches are polled, main returns,   *)
(* and Docker starts the program again.                                    *)
Fairness ==
  /\ WF_vars(StepDone) /\ WF_vars(Select) /\ WF_vars(Exit) /\ WF_vars(Start)
  /\ \A b \in Listeners : WF_vars(Listen(b))

Spec == Init /\ [][Next]_vars /\ Fairness

-----------------------------------------------------------------------------
(* Every variable has its type.                                            *)
TypeOK ==
  /\ stage \in {"down", "starting", "selecting", "leaving"}
  /\ done \in 0..Len(Steps)
  /\ status \in {"none", "success", "failure", "killed"}
  /\ schema \subseteq Schema
  /\ listening \subseteq Listeners
  /\ open \subseteq Connections
  /\ winner \in Branches \cup {"none"}
  /\ broken \subseteq Resources
  /\ served \in BOOLEAN

(* However many starts broke off between two statements of init_tables, no *)
(* port is bound before the whole schema is there.                         *)
ListensWithSchema == listening # {} => schema = Schema

(* An exit status of failure says that this life has served nobody, and    *)
(* one of success, that a listener failed: select! never ends by itself,   *)
(* since the channel cannot close before the proxy's future has returned   *)
(* (run_with_semantic_store).                                              *)
StatusTells ==
  /\ status = "failure" => ~served
  /\ status = "success" => winner \in Listeners

(* Once nothing is out of order any more, the program comes to listen on    *)
(* both ports and stays, whatever it died of before (docker-compose.yml).  *)
ComesBack == <>[](broken = {}) => <>[](listening = Listeners)
=============================================================================
