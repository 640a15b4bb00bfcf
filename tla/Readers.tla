------------------------------ MODULE Readers ------------------------------
(***************************************************************************)
(* The readers of the table while the loader writes it: the search page,   *)
(* or a walk through the pages of get_all_entries.  They share nothing but *)
(* the table, which they do not change, so that a behaviour has one.       *)
(***************************************************************************)
EXTENDS EntryPages, SearchPage

CONSTANT PageRows   (* bound on the rows inserted when the page is the reader *)

VARIABLE reader

readersVars == <<reader, tableVars, walkVars, pageVars>>

ReadersInit == reader \in {"page", "walk"} /\ TableInit /\ WalkInit /\ PageInit

Read ==
  \/ reader = "walk" /\ WalkNext /\ UNCHANGED <<reader, tableVars, pageVars>>
  \/ reader = "page" /\ PageNext /\ UNCHANGED <<reader, tableVars, walkVars>>

ReadersNext ==
  \/ Read
  \/ /\ Load
     /\ reader = "page" => inserted' <= PageRows
     /\ UNCHANGED <<reader, walkVars, pageVars>>

(* A fetch settles: every store call returns (busy_timeout bounds the wait *)
(* for a lock), or the connection breaks.                                  *)
ReadersFairness ==
  WF_readersVars(\E q \in searches : Settle(q) /\ UNCHANGED <<reader, tableVars, walkVars>>)

ReadersSpec == ReadersInit /\ [][ReadersNext]_readersVars /\ ReadersFairness
=============================================================================
