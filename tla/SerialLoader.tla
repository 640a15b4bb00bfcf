---------------------------- MODULE SerialLoader ----------------------------
(***************************************************************************)
(* The loader of HtmlLoader when a page is captured again only after the   *)
(* load of its previous capture has ended, on a machine whose power may    *)
(* fail.  Then the table implements PageVersions, whatever fails and       *)
(* whenever the process exits.  Nothing in loader.rs enforces the          *)
(* restriction, and without it the table does not (see NoDuplicateEntries  *)
(* in HtmlLoader).                                                         *)
(***************************************************************************)
EXTENDS HtmlLoader

VARIABLE disk   (* the commits that would survive a power failure           *)

serialVars == <<vars, disk>>

InFlight(d) == phase[d] \in {"queued"} \cup Running

Committed == [entries |-> entries, owner |-> owner]

SerialInit == Init /\ disk = Committed

SerialSend(d) ==
  /\ \A e \in Docs : SameUrl(d, e) => ~InFlight(e)
  /\ Send(d)

(* journal_mode = WAL, synchronous = NORMAL: a commit is written to the    *)
(* log, and what is in the log is on the disk from the next checkpoint on. *)
Checkpoint ==
  /\ disk # Committed
  /\ disk' = Committed
  /\ UNCHANGED vars

(* The machine goes down: the commits since the checkpoint are taken back. *)
PowerFails ==
  /\ entries' = disk.entries
  /\ owner' = disk.owner
  /\ process' = "down"
  /\ channel' = <<>>
  /\ LoseDocs({"queued"} \cup Running)
  /\ UNCHANGED <<cursor, overtaken, failed, older, disk>>

SerialNext ==
  \/ /\ \/ \E d \in Docs : SerialSend(d) \/ Task(d)
        \/ Receive \/ Leave \/ Exit \/ Restart
     /\ UNCHANGED disk
  \/ Checkpoint
  \/ PowerFails

SerialSpec == SerialInit /\ [][SerialNext]_serialVars /\ Fairness

-----------------------------------------------------------------------------
(* The rows of url u of a table, each with the document it belongs to.     *)
RowsOf(table, u) ==
  {r \in Docs \X UNION Range(table) : UrlOf[r[1]] = u /\ r[2] \in table[r[1]]}

Index(state) == [version |-> state.owner, rows |-> [u \in Urls |-> RowsOf(state.entries, u)]]

Versions == INSTANCE PageVersions WITH index <- Index(Committed), saved <- Index(disk)

(* loader.rs:69 "First delete existing entries for the same URI to avoid   *)
(* duplicates": the table always shows one capture of each page, which     *)
(* grows chunk by chunk and is replaced as a whole, and a power failure    *)
(* takes it back to what it has shown before (process_document, WAL).      *)
ImplementsPageVersions == Versions!Spec
=============================================================================
