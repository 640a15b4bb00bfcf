------------------------------ MODULE RowTable ------------------------------
(***************************************************************************)
(* The `entries` table as its readers meet it: rows in the order of their  *)
(* rowids, which a scan follows, while the loader inserts and deletes.     *)
(***************************************************************************)
EXTENDS Integers, FiniteSets, Functions, FiniteSetsExt

CONSTANTS
  Urls,
  MaxRows      (* bound on the rows that are ever inserted                  *)

VARIABLES
  table,       (* the row of each rowid: its place among all insertions,    *)
               (* which stands for its UUID, and its url                    *)
  inserted,    (* history: how many rows were inserted                      *)
  gone         (* history: rows that were deleted                           *)

tableVars == <<table, inserted, gone>>

TableInit == table = <<>> /\ inserted = 0 /\ gone = {}

(* Without AUTOINCREMENT, a row gets the rowid after the greatest there is. *)
NextRowid == Max(DOMAIN table \cup {0}) + 1

Insert(u) ==
  /\ inserted < MaxRows
  /\ inserted' = inserted + 1
  /\ table' = [i \in DOMAIN table \cup {NextRowid} |->
                 IF i = NextRowid THEN [n |-> inserted', url |-> u] ELSE table[i]]
  /\ UNCHANGED gone

Delete(u) ==
  LET old == {i \in DOMAIN table : table[i].url = u}
  IN  /\ old # {}
      /\ table' = Restrict(table, DOMAIN table \ old)
      /\ gone' = gone \cup {table[i] : i \in old}
      /\ UNCHANGED inserted

Load == \E u \in Urls : Insert(u) \/ Delete(u)
=============================================================================
