----------------------------- MODULE EntryTable -----------------------------
(***************************************************************************)
(* The `entries` table of src/semantic_store.rs: what the SQL statements   *)
(* of LibSqlProvider do to it.  A row is one chunk of one captured         *)
(* document, so the pair (document, chunk number) stands for the UUID the  *)
(* row is given; the row's url is the url of its document.  A table maps   *)
(* every document to the numbers of its chunks that have a row.            *)
(***************************************************************************)
EXTENDS Naturals

CONSTANTS
  Docs,      (* captured documents: two fetches of a page are two documents *)
  Urls,
  UrlOf      (* the url each document was fetched from                      *)

ASSUME TableAssumption == UrlOf \in [Docs -> Urls]

SameUrl(d, e) == UrlOf[d] = UrlOf[e]

EmptyTable == [d \in Docs |-> {}]

(* INSERT INTO entries: one new row.                                       *)
InsertRow(table, d, k) == [table EXCEPT ![d] = @ \cup {k}]

(* bug: a delete that finds no row, or one without its WHERE clause.        *)
DeleteNothing(table, u) == table
DeleteEverything(table, u) == EmptyTable

(* DELETE FROM entries WHERE url = ?1: one statement, every row of the url. *)
DeleteByUrl(table, u) ==
  [d \in Docs |-> IF UrlOf[d] = u THEN {} ELSE table[d]]
=============================================================================
