----------------------------- MODULE HtmlLoader -----------------------------
(***************************************************************************)
(* src/loader.rs on top of the table: the bounded channel of captured      *)
(* documents, the receive loop that spawns one task per document, and the  *)
(* steps of each task between two awaits: split the body, delete the rows  *)
(* of the url, then insert the chunks one by one.  The tasks run           *)
(* concurrently and nothing orders two tasks of the same url.  The process *)
(* may leave its select! (lib.rs), exit at any moment and be restarted on  *)
(* the same database file.                                                 *)
(***************************************************************************)
EXTENDS EntryTable, Sequences, Functions

CONSTANTS
  NumChunks,   (* chunks the splitter cuts each document's body into        *)
  Capacity,    (* slots of the channel, 100 in lib.rs                       *)
  None         (* no document                                               *)

ASSUME LoaderAssumption ==
  /\ NumChunks \in [Docs -> Nat]
  /\ Capacity \in Nat \ {0}
  /\ None \notin Docs

VARIABLES
  process,     (* the program: up, leaving (select! returned) or down       *)
  channel,     (* documents sent and not yet received, oldest first         *)
  phase,       (* where each document is                                    *)
  cursor,      (* chunks the insertion loop has gone through                *)
  entries,     (* the table, on disk                                        *)
  (* History variables: read by the properties, never by an action's guard. *)
  owner,       (* the document whose task last deleted the rows of a url    *)
  overtaken,   (* documents whose delete ran during this document's loop    *)
  failed,      (* chunks whose add_entry returned an error                  *)
  older        (* documents of the url whose load had ended when this one   *)
               (* was captured                                              *)

systemVars == <<process, channel, phase, cursor, entries>>
historyVars == <<owner, overtaken, failed, older>>
vars == <<process, channel, phase, cursor, entries, owner, overtaken, failed, older>>

-----------------------------------------------------------------------------
(* unsent:   not captured yet                                              *)
(* queued:   in the channel                                                *)
(* spawned:  has a task, which has not split the body yet                  *)
(* split:    chunks known, rows of the url not deleted yet                 *)
(* adding:   in the insertion loop                                         *)
(* done:     the task returned at the end of the loop                      *)
(* rejected: split_document returned an error, or panicked                 *)
(* refused:  delete_entries_by_url returned an error                       *)
(* lost:     dropped with the channel or with the runtime                  *)
Running == {"spawned", "split", "adding"}
Ended == {"done", "rejected", "refused", "lost"}
Phases == {"unsent", "queued"} \cup Running \cup Ended

Init ==
  /\ process = "up"
  /\ channel = <<>>
  /\ phase = [d \in Docs |-> "unsent"]
  /\ cursor = [d \in Docs |-> 0]
  /\ entries = EmptyTable
  /\ owner = [u \in Urls |-> None]
  /\ overtaken = [d \in Docs |-> {}]
  /\ failed = [d \in Docs |-> {}]
  /\ older = [d \in Docs |-> {}]

(* Variants marked "bug" are faulty forms of the definition below them: they *)
(* show that a property can fail, and no action uses them.                 *)

Enqueue(d) ==
  /\ process = "up"
  /\ phase[d] = "unsent"
  /\ channel' = Append(channel, d)
  /\ phase' = [phase EXCEPT ![d] = "queued"]
  /\ older' = [older EXCEPT ![d] = {e \in Docs : SameUrl(d, e) /\ phase[e] \in Ended}]
  /\ UNCHANGED <<process, cursor, entries, owner, overtaken, failed>>

(* The extractor's tx.send: waits for a free slot.                          *)
Send(d) ==
  /\ Len(channel) < Capacity
  /\ Enqueue(d)

(* bug: the loop waits for a full batch.                                   *)
ReceiveBatch ==
  /\ process = "up"
  /\ Len(channel) = Capacity
  /\ channel' = Tail(channel)
  /\ phase' = [phase EXCEPT ![Head(channel)] = "spawned"]
  /\ UNCHANGED <<process, cursor, entries, historyVars>>

(* One turn of the receive loop: the next document gets a task of its own. *)
Receive ==
  /\ process = "up"
  /\ channel # <<>>
  /\ channel' = Tail(channel)
  /\ phase' = [phase EXCEPT ![Head(channel)] = "spawned"]
  /\ UNCHANGED <<process, cursor, entries, historyVars>>

-----------------------------------------------------------------------------
(* The steps of the task of d, which run until the process is down.        *)

SplitBody(d) ==
  /\ process # "down"
  /\ phase[d] = "spawned"
  /\ \E outcome \in {"split", "rejected"} :
        phase' = [phase EXCEPT ![d] = outcome]
  /\ UNCHANGED <<process, channel, cursor, entries, historyVars>>

(* bug: one turn too many.                                                 *)
LoopPhaseOneMore(d, n) == IF n <= NumChunks[d] THEN "adding" ELSE "done"

(* bug: the last chunk is left out.                                        *)
LoopPhaseOneLess(d, n) == IF n + 1 < NumChunks[d] THEN "adding" ELSE "done"

(* The phase of a task that has gone through n chunks.                     *)
LoopPhase(d, n) == IF n < NumChunks[d] THEN "adding" ELSE "done"

DeleteOld(d) ==
  /\ process # "down"
  /\ phase[d] = "split"
  /\ entries' = DeleteByUrl(entries, UrlOf[d])
  /\ phase' = [phase EXCEPT ![d] = LoopPhase(d, 0)]
  /\ owner' = [owner EXCEPT ![UrlOf[d]] = d]
  /\ overtaken' = [e \in Docs |-> IF phase[e] = "adding" /\ SameUrl(d, e)
                                  THEN overtaken[e] \cup {d}
                                  ELSE overtaken[e]]
  /\ UNCHANGED <<process, channel, cursor, failed, older>>

(* bug: the error of the delete is only logged.                            *)
DeleteFailsAddsAnyway(d) ==
  /\ process # "down"
  /\ phase[d] = "split"
  /\ phase' = [phase EXCEPT ![d] = LoopPhase(d, 0)]
  /\ UNCHANGED <<process, channel, cursor, entries, historyVars>>

DeleteFails(d) ==
  /\ process # "down"
  /\ phase[d] = "split"
  /\ phase' = [phase EXCEPT ![d] = "refused"]
  /\ UNCHANGED <<process, channel, cursor, entries, historyVars>>

(* The loop moves past chunk cursor + 1, whether or not it was stored.     *)
NextChunk(d) ==
  /\ process # "down"
  /\ phase[d] = "adding"
  /\ cursor' = [cursor EXCEPT ![d] = @ + 1]
  /\ phase' = [phase EXCEPT ![d] = LoopPhase(d, cursor[d] + 1)]
  /\ UNCHANGED <<process, channel, owner, overtaken, older>>

AddChunk(d) ==
  /\ NextChunk(d)
  /\ entries' = InsertRow(entries, d, cursor[d] + 1)
  /\ UNCHANGED failed

(* Url::parse, the embedding or the INSERT failed: logged, and the loop    *)
(* goes on with the next chunk.                                            *)
AddFails(d) ==
  /\ NextChunk(d)
  /\ failed' = [failed EXCEPT ![d] = @ \cup {cursor[d] + 1}]
  /\ UNCHANGED entries

Task(d) ==
  \/ SplitBody(d)
  \/ DeleteOld(d)
  \/ DeleteFails(d)
  \/ AddChunk(d)
  \/ AddFails(d)

-----------------------------------------------------------------------------
(* The process.                                                            *)

LoseDocs(phases) ==
  phase' = [d \in Docs |-> IF phase[d] \in phases THEN "lost" ELSE phase[d]]

(* One branch of select! returned: the loader's future is dropped with its *)
(* receiver and the documents in the channel; spawned tasks still run.     *)
Leave ==
  /\ process = "up"
  /\ process' = "leaving"
  /\ channel' = <<>>
  /\ LoseDocs({"queued"})
  /\ UNCHANGED <<cursor, entries, historyVars>>

(* main returned and the runtime dropped its tasks where they were waiting, *)
(* or the process was killed.                                              *)
Exit ==
  /\ process # "down"
  /\ process' = "down"
  /\ channel' = <<>>
  /\ LoseDocs({"queued"} \cup Running)
  /\ UNCHANGED <<cursor, entries, historyVars>>

(* run() again: init_tables keeps an existing table.                        *)
Restart ==
  /\ process = "down"
  /\ process' = "up"
  /\ UNCHANGED <<channel, phase, cursor, entries, historyVars>>

Next ==
  \/ \E d \in Docs : Send(d) \/ Task(d)
  \/ Receive
  \/ Leave
  \/ Exit
  \/ Restart

(* The executor polls every spawned task and the receive loop, and every   *)
(* store call returns (busy_timeout bounds the wait for a lock).           *)
Fairness ==
  /\ WF_vars(Receive)
  /\ \A d \in Docs : WF_vars(Task(d))

Spec == Init /\ [][Next]_vars /\ Fairness

-----------------------------------------------------------------------------
(* Every variable has its type; the insertion loop never runs past the     *)
(* last chunk, and a task in the loop has a chunk left.                    *)
TypeOK ==
  /\ process \in {"up", "leaving", "down"}
  /\ channel \in Seq(Docs)
  /\ phase \in [Docs -> Phases]
  /\ cursor \in [Docs -> Nat]
  /\ \A d \in Docs : cursor[d] <= NumChunks[d]
  /\ \A d \in Docs : phase[d] = "adding" => cursor[d] < NumChunks[d]
  /\ entries \in [Docs -> SUBSET Nat]
  /\ owner \in [Urls -> Docs \cup {None}]
  /\ overtaken \in [Docs -> SUBSET Docs]
  /\ failed \in [Docs -> SUBSET Nat]
  /\ older \in [Docs -> SUBSET Docs]

(* Whoever is in its insertion loop, or has rows in the table, is the last *)
(* task to have deleted its url's rows, or was overtaken in its loop by    *)
(* that one (process_document: the delete comes first, once).              *)
OwnerOrOvertaken ==
  \A d \in Docs :
    /\ owner[UrlOf[d]] = d => phase[d] \in {"adding", "done", "lost"}
    /\ (phase[d] = "adding" \/ entries[d] # {})
          => owner[UrlOf[d]] \in {d} \cup overtaken[d]

(* The comment "First delete existing entries for the same URI to avoid    *)
(* duplicates" (loader.rs) holds but for one interleaving: rows of two     *)
(* documents of one url are present together only if another task of that  *)
(* url ran its delete while one of them was still in its insertion loop.   *)
DuplicatesOnlyByRace ==
  \A d, e \in Docs :
    (d # e /\ SameUrl(d, e) /\ entries[d] # {} /\ entries[e] # {})
      => overtaken[d] # {} \/ overtaken[e] # {}

(* The task that last deleted a url's rows keeps what it inserts after it: *)
(* every chunk it has gone through has its row, but for those whose        *)
(* add_entry failed, whatever the other tasks, exits and restarts did.     *)
LastLoadComplete ==
  \A d \in Docs :
    (owner[UrlOf[d]] = d) => 1..cursor[d] \ failed[d] \subseteq entries[d]

(* Loads that do not overlap replace each other in the order of their      *)
(* captures: once a task has deleted, no row of a document whose load had  *)
(* ended before that task's document was captured is there, or comes back  *)
(* (process_document; loads that overlap are in no order).                 *)
NoOldVersionReturns ==
  \A d \in Docs :
    phase[d] \in {"adding", "done"} => \A e \in older[d] : entries[e] = {}

(* The delete of d came while no other task was inserting rows of its url.  *)
OvertookNone(d) == \A e \in Docs : d \notin overtaken[e]

(* A load that went through without a failure, and did not overlap, leaves *)
(* the url with its own chunks, every one of them and nothing else, until  *)
(* another task of the url deletes them: also after loads that raced, lost *)
(* chunks or were cut by an exit (process_document).                       *)
PageIsWhole ==
  \A d \in Docs :
    (owner[UrlOf[d]] = d /\ phase[d] = "done" /\ failed[d] = {} /\ OvertookNone(d)) =>
      \A e \in Docs : SameUrl(d, e) => entries[e] = IF e = d THEN 1..NumChunks[d] ELSE {}

(* A document that reached the channel is handled to its end, or dropped   *)
(* by an exit of the process: no task is forgotten or stuck.               *)
EveryDocumentEnds ==
  \A d \in Docs : phase[d] = "queued" ~> phase[d] \in Ended

-----------------------------------------------------------------------------
(* What the comment promises, and the race refutes.                        *)

Quiet(u) == \A d \in Docs : UrlOf[d] = u => phase[d] \in Ended \cup {"unsent"}

(* loader.rs:69: once no task of a url is at work, its rows come from one  *)
(* document.                                                               *)
NoDuplicateEntries ==
  \A d, e \in Docs :
    (d # e /\ SameUrl(d, e) /\ Quiet(UrlOf[d])) => entries[d] = {} \/ entries[e] = {}
=============================================================================
