---------------------------- MODULE PageVersions ----------------------------
(***************************************************************************)
(* What an index of pages promises about the rows of each url: they all    *)
(* come from one capture of the page, they appear in the order of its      *)
(* chunks, and they go all at once when another capture replaces it.  What *)
(* a machine that fails comes back with is an earlier state of the whole.  *)
(***************************************************************************)
EXTENDS EntryTable

CONSTANTS NumChunks, None

VARIABLES
  index,       (* version: the capture each url shows;                      *)
               (* rows: the rows of each url, capture and chunk number      *)
  saved        (* the state of the index a failure brings back              *)

vars == <<index, saved>>

Init ==
  /\ index = [version |-> [u \in Urls |-> None], rows |-> [u \in Urls |-> {}]]
  /\ saved = index

Replace(d) ==
  /\ index.version[UrlOf[d]] # d
  /\ index' = [version |-> [index.version EXCEPT ![UrlOf[d]] = d],
               rows |-> [index.rows EXCEPT ![UrlOf[d]] = {}]]
  /\ UNCHANGED saved

Store(d, k) ==
  /\ index.version[UrlOf[d]] = d
  /\ \A r \in index.rows[UrlOf[d]] : r[1] = d /\ r[2] < k
  /\ index' = [version |-> index.version,
               rows |-> [index.rows EXCEPT ![UrlOf[d]] = @ \cup {<<d, k>>}]]
  /\ UNCHANGED saved

Save == saved' = index /\ UNCHANGED index

Recover == index' = saved /\ UNCHANGED saved

Next ==
  \/ \E d \in Docs : Replace(d) \/ \E k \in 1..NumChunks[d] : Store(d, k)
  \/ Save
  \/ Recover

Spec == Init /\ [][Next]_vars
=============================================================================
