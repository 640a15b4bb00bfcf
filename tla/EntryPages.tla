----------------------------- MODULE EntryPages -----------------------------
(***************************************************************************)
(* get_all_entries (src/semantic_store.rs), asked for one page after the   *)
(* other: a statement whose rows are fetched one by one, on a connection   *)
(* that the loader's tasks use at the same time, with a limit and an       *)
(* offset that are cast to signed integers.                                *)
(***************************************************************************)
EXTENDS RowTable, SequencesExt

CONSTANTS
  SignBit,     (* what the sign bit of an integer counts, 2^63 in the code  *)
  Limits       (* page sizes a caller may ask for                           *)

(* A caller may ask for any size, and its offsets stay in the signed range. *)
ASSUME PagesAssumption ==
  /\ SignBit \in Nat /\ MaxRows \in Nat
  /\ Limits \subseteq 1..(2 * SignBit - 1)
  /\ MaxRows < SignBit

VARIABLES
  walk,        (* called while a call is on its way, or done or failed      *)
  limit, offset,
  at,          (* rowid the statement's cursor is at, 0 before the first    *)
  page,        (* rows fetched by the call                                  *)
  read,        (* rows of the calls before                                  *)
  start        (* history: the rows there were, and were gone, at the start *)

walkVars == <<walk, limit, offset, at, page, read, start>>

WalkInit ==
  /\ walk = "done" /\ limit \in Limits /\ offset = 0
  /\ at = 0 /\ page = <<>> /\ read = <<>>
  /\ start = [there |-> {}, gone |-> {}]

(* usize as i64                                                            *)
Signed(n) == IF n < SignBit THEN n ELSE n - 2 * SignBit

(* bug: pages are numbered from one.                                       *)
SkipFromOne == Max({Signed(offset) - 1, 0})

(* OFFSET: a negative one skips nothing.                                   *)
Skip == Max({Signed(offset), 0})

(* Rowids the scan has still to visit; the offset is skipped once, before  *)
(* the first row.                                                          *)
Ahead ==
  IF at = 0
    THEN {i \in DOMAIN table : Cardinality({j \in DOMAIN table : j < i}) >= Skip}
    ELSE {i \in DOMAIN table : i > at}

(* LIMIT: a negative one is never used up.                                 *)
Exhausted == Len(page) = Signed(limit) \/ Ahead = {}

StartWalk ==
  /\ walk # "called"
  /\ walk' = "called"
  /\ limit' \in Limits /\ offset' = 0
  /\ at' = 0 /\ page' = <<>> /\ read' = <<>>
  /\ start' = [there |-> Range(table), gone |-> gone]

FetchRow ==
  /\ walk = "called" /\ ~Exhausted
  /\ at' = Min(Ahead)
  /\ page' = Append(page, table[Min(Ahead)])
  /\ UNCHANGED <<walk, limit, offset, read, start>>

(* The call returns; a page that is not full is the last one.              *)
ReturnPage ==
  /\ walk = "called" /\ Exhausted
  /\ read' = read \o page
  /\ page' = <<>> /\ at' = 0
  /\ \/ Len(page) < limit /\ walk' = "done" /\ UNCHANGED offset
     \/ Len(page) = limit /\ offset' = offset + limit /\ UNCHANGED walk
  /\ UNCHANGED <<limit, start>>

QueryFails ==
  /\ walk = "called"
  /\ walk' = "failed"
  /\ UNCHANGED <<limit, offset, at, page, read, start>>

WalkNext == StartWalk \/ FetchRow \/ ReturnPage \/ QueryFails

-----------------------------------------------------------------------------
(* What a walk makes of the table, whatever page size is asked for and     *)
(* however rows come and go between two rows of a page (get_all_entries,    *)
(* "with pagination support"): of the rows that were there when it started, *)
(* it reads none twice and misses no more than were deleted meanwhile; a   *)
(* row that came later is read twice only if rows were deleted, whose      *)
(* rowids are then given again behind the cursor.                          *)
WalkReadsOnce ==
  LET rows == read \o page
      deleted == gone \ start.gone
      missed == start.there \ (deleted \cup Range(rows))
  IN  /\ \A i, j \in DOMAIN rows :
            i # j /\ rows[i] = rows[j] => rows[i] \notin start.there /\ deleted # {}
      /\ walk = "done" => Cardinality(missed) <= Cardinality(deleted)
=============================================================================
