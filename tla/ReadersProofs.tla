--------------------------- MODULE ReadersProofs ---------------------------
(***************************************************************************)
(* What the search page shows and what a walk through the pages of         *)
(* get_all_entries reads, for any urls, any number of rows and of results, *)
(* any page size and width of integers, however the loader writes          *)
(* meanwhile.                                                              *)
(***************************************************************************)
EXTENDS Readers, TLAPS, FiniteSetTheorems, WellFoundedInduction

Row == [n : Nat, url : Urls]

(* Rows are numbered in the order of their insertion.                      *)
RowsNumbered ==
  /\ inserted \in Nat
  /\ Range(table) \cup gone \subseteq Row
  /\ \A r \in Range(table) \cup gone : r.n <= inserted

(* A row that was deleted does not come back.                              *)
GoneForGood == Range(table) \cap gone = {}

PageTypes ==
  /\ busy \in BOOLEAN
  /\ cards \in Seq(Row)
  /\ \A q \in searches : q.answer \in Seq(Row)

(* One search at a time, for whose answer the page has no cards yet, and   *)
(* whose answer has no row that was gone when it was asked.                *)
OneSearch ==
  /\ searches # {} => busy
  /\ \A q, r \in searches : q = r
  /\ busy => cards = <<>>
  /\ goneBefore \subseteq gone
  /\ \A q \in searches : Range(q.answer) \cap goneBefore = {}

(* The texts behind the cards are those of the cards.                      *)
TextsBehindCards == cards # <<>> => texts = cards

(* The inductive invariant.                                                *)
PageInv ==
  /\ RowsNumbered /\ GoneForGood
  /\ PageTypes /\ OneSearch /\ TextsBehindCards
  /\ NoGhosts /\ CardsShowOwnText

-----------------------------------------------------------------------------
(* The table.                                                              *)

(* An empty table.                                                         *)
LEMMA InitTable == TableInit => RowsNumbered /\ GoneForGood
<1> SUFFICES ASSUME TableInit PROVE RowsNumbered /\ GoneForGood
  OBVIOUS
<1>1. Range(table) = {} /\ gone = {} /\ inserted = 0
  BY DEF TableInit, Range
<1> QED BY <1>1 DEF RowsNumbered, GoneForGood

(* An insertion adds the next number, wherever it goes.                    *)
LEMMA InsertEffect ==
  ASSUME NEW u \in Urls, Insert(u)
  PROVE  /\ Range(table') \subseteq Range(table) \cup {[n |-> inserted + 1, url |-> u]}
         /\ inserted' = inserted + 1 /\ gone' = gone
<1>1. inserted' = inserted + 1 /\ gone' = gone
  BY DEF Insert
<1> DEFINE k == NextRowid
<1>2. table' = [i \in DOMAIN table \cup {k} |->
                  IF i = k THEN [n |-> inserted + 1, url |-> u] ELSE table[i]]
  BY <1>1 DEF Insert
<1> HIDE DEF k
<1>3. Range(table') \subseteq Range(table) \cup {[n |-> inserted + 1, url |-> u]}
  BY <1>2 DEF Range
<1> QED BY <1>1, <1>3

(* A deletion moves rows from the table to what is gone, and takes every   *)
(* copy of a row.                                                          *)
LEMMA DeleteEffect ==
  ASSUME NEW u \in Urls, Delete(u)
  PROVE  /\ Range(table') \subseteq Range(table)
         /\ gone \subseteq gone' /\ gone' \subseteq gone \cup Range(table)
         /\ inserted' = inserted
         /\ \A r \in Range(table') : r \notin gone' \ gone
<1> DEFINE old == {i \in DOMAIN table : table[i].url = u}
<1>1. /\ table' = [i \in DOMAIN table \ old |-> table[i]]
      /\ gone' = gone \cup {table[i] : i \in old}
      /\ inserted' = inserted
  BY DEF Delete, Restrict
<1>2. \A r \in Range(table') : r \in Range(table) /\ r.url # u
  BY <1>1 DEF Range
<1>3. \A r \in gone' \ gone : r \in Range(table) /\ r.url = u
  BY <1>1 DEF Range
<1> QED BY <1>1, <1>2, <1>3

(* Both keep the numbers apart.                                            *)
LEMMA TableStep ==
  ASSUME RowsNumbered, GoneForGood, Load
  PROVE  RowsNumbered' /\ GoneForGood' /\ gone \subseteq gone'
<1>1. ASSUME NEW u \in Urls, Insert(u)
      PROVE  RowsNumbered' /\ GoneForGood' /\ gone \subseteq gone'
  <2> DEFINE new == [n |-> inserted + 1, url |-> u]
  <2>1. /\ Range(table') \subseteq Range(table) \cup {new}
        /\ inserted' = inserted + 1 /\ gone' = gone
    BY <1>1, InsertEffect
  <2>2. new \in Row /\ new.n = inserted + 1
    BY DEF RowsNumbered, Row
  <2>3. new \notin gone
    BY <2>2 DEF RowsNumbered
  <2> HIDE DEF new
  <2>4. \A r \in Range(table) \cup gone : r.n \in Nat /\ r.n <= inserted
    BY DEF RowsNumbered, Row
  <2>5. \A r \in Range(table') \cup gone' : r.n <= inserted'
    BY <2>1, <2>2, <2>4 DEF RowsNumbered
  <2>6. Range(table') \cup gone' \subseteq Row /\ inserted' \in Nat
    BY <2>1, <2>2 DEF RowsNumbered
  <2>7. GoneForGood'
    BY <2>1, <2>3 DEF GoneForGood
  <2> QED BY <2>1, <2>5, <2>6, <2>7 DEF RowsNumbered
<1>2. ASSUME NEW u \in Urls, Delete(u)
      PROVE  RowsNumbered' /\ GoneForGood' /\ gone \subseteq gone'
  BY <1>2, DeleteEffect DEF RowsNumbered, GoneForGood
<1> QED BY <1>1, <1>2 DEF Load

-----------------------------------------------------------------------------
(* The page.                                                               *)

(* The rows of an answer are those of the table.                           *)
LEMMA AnswersAreRows ==
  ASSUME RowsNumbered, NEW rows \in Answers
  PROVE  rows \in Seq(Row) /\ Range(rows) \subseteq Range(table)
<1>1. PICK m \in 0..TopK : rows \in [1..m -> Range(table)]
  BY DEF Answers, SeqOf
<1>2. m \in Nat
  BY TopKAssumption
<1>3. rows \in [1..m -> Row]
  BY <1>1 DEF RowsNumbered
<1> QED BY <1>1, <1>2, <1>3 DEF Range

(* What an action of the page leaves to show.                              *)
PageGood == PageTypes /\ OneSearch /\ TextsBehindCards /\ NoGhosts /\ CardsShowOwnText

(* A submitted search is the only one, and empties the page.               *)
LEMMA SubmitStep ==
  ASSUME PageInv, Submit, UNCHANGED tableVars PROVE PageGood'
<1>1. searches' = {[state |-> "asked", answer |-> <<>>]}
  BY DEF PageInv, OneSearch, Submit
<1>2. cards' = <<>> /\ bodies' = <<>> /\ busy' = TRUE /\ goneBefore' = gone /\ gone' = gone
  BY DEF Submit, tableVars
<1>3. Range(<<>>) = {}
  BY DEF Range
<1> QED BY <1>1, <1>2, <1>3
        DEF PageGood, PageTypes, OneSearch, TextsBehindCards, NoGhosts, CardsShowOwnText

(* An answer is of the table as it is when the statement runs.             *)
LEMMA SearchStep ==
  ASSUME PageInv, NEW q \in searches, Search(q) \/ SearchFails(q), UNCHANGED tableVars
  PROVE  PageGood'
<1>1. Range(<<>>) = {} /\ <<>> \in Seq(Row)
  BY DEF Range
<1>2. PICK a : /\ searches' = (searches \ {q}) \cup {a}
               /\ a.answer \in Seq(Row) /\ Range(a.answer) \cap goneBefore = {}
  <2>1. CASE Search(q)
    <3>1. PICK rows \in Answers :
            searches' = (searches \ {q}) \cup {[state |-> "answered", answer |-> rows]}
      BY <2>1, Zenon DEF Search
    <3>2. rows \in Seq(Row) /\ Range(rows) \subseteq Range(table)
      BY AnswersAreRows DEF PageInv
    <3>3. Range(rows) \cap goneBefore = {}
      BY <3>2 DEF PageInv, GoneForGood, OneSearch
    <3> DEFINE a == [state |-> "answered", answer |-> rows]
    <3>4. a.answer = rows
      OBVIOUS
    <3> QED BY <3>1, <3>2, <3>3, <3>4, Zenon
  <2>2. CASE SearchFails(q)
    <3> DEFINE a == [state |-> "failed", answer |-> <<>>]
    <3>1. a.answer = <<>>
      OBVIOUS
    <3>2. searches' = (searches \ {q}) \cup {a}
      BY <2>2, Zenon DEF SearchFails
    <3>3. Range(a.answer) \cap goneBefore = {}
      BY <1>1, <3>1
    <3> HIDE DEF a
    <3> QED BY <1>1, <3>1, <3>2, <3>3, Zenon
  <2> QED BY <2>1, <2>2
<1>3. searches' = {a}
  BY <1>2 DEF PageInv, OneSearch
<1>4. UNCHANGED <<cards, bodies, texts, busy, goneBefore, gone>>
  BY DEF Search, SearchFails, tableVars
<1> QED BY <1>2, <1>3, <1>4 DEF PageInv, PageGood, PageTypes, OneSearch,
          TextsBehindCards, NoGhosts, CardsShowOwnText

(* The end of a search leaves its cards with their texts, or no cards.     *)
LEMMA SettleStep ==
  ASSUME PageInv, NEW q \in searches, Display(q) \/ DisplayThrows(q) \/ ShowError(q),
         UNCHANGED tableVars
  PROVE  PageGood'
<1>1. searches' = {} /\ busy' = FALSE
  BY DEF PageInv, OneSearch, Display, DisplayThrows, ShowError, Settled
<1>2. gone' = gone /\ goneBefore' = goneBefore
  BY DEF Display, DisplayThrows, ShowError, tableVars
<1>3. CASE Display(q)
  <2>1. /\ cards' = q.answer /\ bodies' = q.answer
        /\ texts' = IF q.answer = <<>> THEN texts ELSE q.answer
    BY <1>3 DEF Display
  <2> QED BY <1>1, <1>2, <2>1 DEF PageInv, PageGood, PageTypes, OneSearch,
            TextsBehindCards, NoGhosts, CardsShowOwnText
<1>4. CASE DisplayThrows(q) \/ ShowError(q)
  <2>1. cards = <<>> /\ cards' = cards /\ bodies' = bodies
    BY <1>4 DEF PageInv, OneSearch, DisplayThrows, ShowError
  <2> QED BY <1>1, <1>2, <2>1 DEF PageInv, PageGood, PageTypes, OneSearch,
            TextsBehindCards, NoGhosts, CardsShowOwnText
<1> QED BY <1>3, <1>4

(* A card that is opened or closed gets the text it had.                   *)
LEMMA ToggleStep ==
  ASSUME PageInv, NEW i, Toggle(i), UNCHANGED tableVars PROVE PageGood'
<1>1. i \in DOMAIN cards /\ bodies = cards /\ cards \in Seq(Row)
  BY DEF PageInv, PageTypes, CardsShowOwnText, Toggle
<1>2. texts = cards
  BY <1>1 DEF PageInv, TextsBehindCards
<1>3. bodies' = bodies
  BY <1>1, <1>2 DEF Toggle
<1> QED BY <1>3 DEF PageInv, PageGood, PageTypes, OneSearch, TextsBehindCards,
          NoGhosts, CardsShowOwnText, Toggle, tableVars

(* A page that is loaded again is empty.                                   *)
LEMMA ReloadStep ==
  ASSUME PageInv, Reload, UNCHANGED tableVars PROVE PageGood'
<1>1. Range(<<>>) = {} /\ <<>> \in Seq(Row)
  BY DEF Range
<1>2. /\ searches' = {} /\ cards' = <<>> /\ bodies' = <<>> /\ busy' = FALSE
      /\ gone' = gone /\ goneBefore' = goneBefore
  BY DEF Reload, tableVars
<1>3. PageTypes' /\ TextsBehindCards' /\ NoGhosts' /\ CardsShowOwnText'
  BY <1>1, <1>2 DEF PageTypes, TextsBehindCards, NoGhosts, CardsShowOwnText
<1>4. OneSearch'
  BY <1>2 DEF PageInv, OneSearch
<1> QED BY <1>3, <1>4 DEF PageGood

(* Nothing else touches the page.                                          *)
LEMMA ReadersStep ==
  ASSUME PageInv, [ReadersNext]_readersVars PROVE PageInv'
<1>1. CASE PageNext /\ UNCHANGED tableVars
  <2>1. PageGood'
    BY <1>1, SubmitStep, SearchStep, SettleStep, ToggleStep, ReloadStep
       DEF PageNext, Settle
  <2>2. RowsNumbered' /\ GoneForGood'
    BY <1>1 DEF PageInv, RowsNumbered, GoneForGood, tableVars
  <2> QED BY <2>1, <2>2 DEF PageInv, PageGood
<1>2. CASE Load /\ UNCHANGED pageVars
  <2>1. RowsNumbered' /\ GoneForGood' /\ gone \subseteq gone'
    BY <1>2, TableStep DEF PageInv
  <2> QED BY <1>2, <2>1 DEF PageInv, PageTypes, OneSearch, TextsBehindCards,
            NoGhosts, CardsShowOwnText, pageVars
<1>3. CASE UNCHANGED <<tableVars, pageVars>>
  BY <1>3 DEF PageInv, RowsNumbered, GoneForGood, PageTypes, OneSearch,
     TextsBehindCards, NoGhosts, CardsShowOwnText, tableVars, pageVars
<1> QED BY <1>1, <1>2, <1>3 DEF ReadersNext, Read, readersVars

(* The invariant holds while the loader writes and others read.            *)
THEOREM PageInvariant == ReadersSpec => []PageInv
<1>1. ReadersInit => PageInv
  <2> SUFFICES ASSUME ReadersInit PROVE PageInv
    OBVIOUS
  <2>1. RowsNumbered /\ GoneForGood
    BY InitTable DEF ReadersInit
  <2>2. Range(<<>>) = {} /\ <<>> \in Seq(Row)
    BY DEF Range
  <2>3. /\ searches = {} /\ cards = <<>> /\ bodies = <<>> /\ busy = FALSE
        /\ goneBefore = {}
    BY DEF ReadersInit, PageInit
  <2>4. PageTypes /\ TextsBehindCards /\ NoGhosts /\ CardsShowOwnText
    BY <2>2, <2>3 DEF PageTypes, TextsBehindCards, NoGhosts, CardsShowOwnText
  <2>5. OneSearch
    BY <2>3 DEF OneSearch
  <2> QED BY <2>1, <2>4, <2>5 DEF PageInv
<1> QED BY <1>1, ReadersStep, PTL DEF ReadersSpec

(* No card shows a row that was deleted before the search was submitted.   *)
THEOREM NoGhostIsShown == ReadersSpec => []NoGhosts
<1>1. PageInv => NoGhosts
  BY DEF PageInv
<1> QED BY PageInvariant, <1>1, PTL

(* Each card shows the text of the row it names.                           *)
THEOREM TextsAreTheirOwn == ReadersSpec => []CardsShowOwnText
<1>1. PageInv => CardsShowOwnText
  BY DEF PageInv
<1> QED BY PageInvariant, <1>1, PTL

-----------------------------------------------------------------------------
(* Sets of numbers.                                                        *)


(* A finite set of numbers that is not empty has a least member, ...       *)
LEMMA LeastExists ==
  ASSUME NEW S \in SUBSET Int, IsFiniteSet(S), S # {}
  PROVE  \E x \in S : \A y \in S : x <= y
<1> DEFINE below(x) == {y \in S : y < x}
           sets == {below(x) : x \in S}
<1>1. sets \subseteq FiniteSubsetsOf(S) /\ sets # {}
  <2>1. FiniteSubsetsOf(S) = SUBSET S
    BY FS_FiniteSubsetsOfFinite
  <2>2. PICK x \in S : TRUE
    OBVIOUS
  <2>3. below(x) \in sets
    OBVIOUS
  <2>4. \A T \in sets : T \in SUBSET S
    OBVIOUS
  <2> HIDE DEF sets
  <2> QED BY <2>1, <2>3, <2>4
<1>2. PICK least \in sets : \A T \in sets : <<T, least>> \notin StrictSubsetOrdering(S)
  BY <1>1, FS_StrictSubsetOrderingWellFounded, WFMin, Zenon
<1>3. PICK x \in S : least = below(x)
  BY <1>2
<1>4. ASSUME NEW y \in S, y < x PROVE FALSE
  <2>1. below(y) \subseteq below(x) /\ y \in below(x) /\ y \notin below(y)
    <3> HIDE DEF sets
    <3>1. x \in Int /\ y \in Int /\ \A z \in S : z \in Int
      OBVIOUS
    <3>2. y \in below(x) /\ y \notin below(y)
      BY <1>4, <3>1
    <3>3. ASSUME NEW z \in below(y) PROVE z \in below(x)
      BY <1>4, <3>1
    <3> QED BY <3>2, <3>3
  <2>2. below(y) \in sets
    OBVIOUS
  <2>3. <<below(y), below(x)>> \in StrictSubsetOrdering(S)
    <3> HIDE DEF sets
    <3>1. below(y) \in SUBSET S /\ below(x) \in SUBSET S
      OBVIOUS
    <3>2. below(y) # below(x)
      BY <2>1
    <3> HIDE DEF below
    <3> QED BY <2>1, <3>1, <3>2 DEF StrictSubsetOrdering
  <2> QED BY <1>2, <1>3, <2>2, <2>3
<1> QED BY <1>4

(* ... and a greatest.                                                     *)
LEMMA GreatestExists ==
  ASSUME NEW S \in SUBSET Int, IsFiniteSet(S), S # {}
  PROVE  \E x \in S : \A y \in S : x >= y
<1> DEFINE above(x) == {y \in S : x < y}
           sets == {above(x) : x \in S}
<1>1. sets \subseteq FiniteSubsetsOf(S) /\ sets # {}
  <2>1. FiniteSubsetsOf(S) = SUBSET S
    BY FS_FiniteSubsetsOfFinite
  <2>2. PICK x \in S : TRUE
    OBVIOUS
  <2>3. above(x) \in sets
    OBVIOUS
  <2>4. \A T \in sets : T \in SUBSET S
    OBVIOUS
  <2> HIDE DEF sets
  <2> QED BY <2>1, <2>3, <2>4
<1>2. PICK least \in sets : \A T \in sets : <<T, least>> \notin StrictSubsetOrdering(S)
  BY <1>1, FS_StrictSubsetOrderingWellFounded, WFMin, Zenon
<1>3. PICK x \in S : least = above(x)
  BY <1>2
<1>4. ASSUME NEW y \in S, x < y PROVE FALSE
  <2>1. above(y) \subseteq above(x) /\ y \in above(x) /\ y \notin above(y)
    <3> HIDE DEF sets
    <3>1. x \in Int /\ y \in Int /\ \A z \in S : z \in Int
      OBVIOUS
    <3>2. y \in above(x) /\ y \notin above(y)
      BY <1>4, <3>1
    <3>3. ASSUME NEW z \in above(y) PROVE z \in above(x)
      BY <1>4, <3>1
    <3> QED BY <3>2, <3>3
  <2>2. above(y) \in sets
    OBVIOUS
  <2>3. <<above(y), above(x)>> \in StrictSubsetOrdering(S)
    <3> HIDE DEF sets
    <3>1. above(y) \in SUBSET S /\ above(x) \in SUBSET S
      OBVIOUS
    <3>2. above(y) # above(x)
      BY <2>1
    <3> HIDE DEF above
    <3> QED BY <2>1, <3>1, <3>2 DEF StrictSubsetOrdering
  <2> QED BY <1>2, <1>3, <2>2, <2>3
<1> QED BY <1>4

(* The library's choice of the least one, ...                              *)
LEMMA MinIsLeast ==
  ASSUME NEW S \in SUBSET Int, IsFiniteSet(S), S # {}
  PROVE  Min(S) \in S /\ \A y \in S : Min(S) <= y
BY LeastExists DEF Min

(* ... and of the greatest.                                                *)
LEMMA MaxIsGreatest ==
  ASSUME NEW S \in SUBSET Int, IsFiniteSet(S), S # {}
  PROVE  Max(S) \in S /\ \A y \in S : Max(S) >= y
BY GreatestExists DEF Max

(* As many members as the function that names them has arguments.          *)
LEMMA ImageSize ==
  ASSUME NEW f, NEW K \in SUBSET DOMAIN f, IsFiniteSet(K),
         \A i, j \in K : f[i] = f[j] => i = j
  PROVE  /\ IsFiniteSet({f[i] : i \in K})
         /\ Cardinality({f[i] : i \in K}) = Cardinality(K)
<1> DEFINE T == {f[i] : i \in K}
           g == [i \in K |-> f[i]]
<1>1. g \in Bijection(K, T)
  BY DEF Bijection, Injection, Surjection, IsInjective
<1>2. ExistsBijection(K, T)
  BY <1>1, Zenon DEF ExistsBijection
<1> HIDE DEF T
<1>3. IsFiniteSet(T) /\ Cardinality(T) = Cardinality(K)
  BY <1>2, FS_Bijection
<1> QED BY <1>3 DEF T

(* How many members of a set are below a number: the offset that skips     *)
(* them.                                                                   *)
Rank(S, i) == Cardinality({j \in S : j < i})

(* There are only so many.                                                 *)
LEMMA RankIsNat ==
  ASSUME NEW S, IsFiniteSet(S), NEW i PROVE Rank(S, i) \in Nat
<1> DEFINE B == {j \in S : j < i}
<1>1. B \in SUBSET S
  OBVIOUS
<1> HIDE DEF B
<1>2. Cardinality(B) \in Nat
  BY <1>1, FS_Subset, FS_CardinalityType
<1> QED BY <1>2 DEF B, Rank

(* The first row behind an offset has as many rows before it.              *)
LEMMA RankOfFirst ==
  ASSUME NEW D \in SUBSET Int, IsFiniteSet(D), NEW k \in Nat, NEW m \in D,
         Rank(D, m) >= k, \A i \in D : Rank(D, i) >= k => m <= i
  PROVE  Rank(D, m) = k
<1> DEFINE B(i) == {j \in D : j < i}
<1> SUFFICES ASSUME Rank(D, m) # k PROVE FALSE
  OBVIOUS
<1>1. Rank(D, m) \in Nat /\ Rank(D, m) > k
  BY RankIsNat
<1>2. B(m) \in SUBSET D /\ IsFiniteSet(B(m)) /\ B(m) # {}
  <2>1. B(m) \in SUBSET D
    OBVIOUS
  <2>2. Cardinality(B(m)) > k
    BY <1>1 DEF Rank
  <2> HIDE DEF B
  <2>3. IsFiniteSet(B(m))
    BY <2>1, FS_Subset
  <2> QED BY <2>1, <2>2, <2>3, FS_EmptySet
<1>3. PICK z \in B(m) : \A y \in B(m) : z >= y
  <2> HIDE DEF B
  <2> QED BY <1>2, GreatestExists
<1>4. z \in D /\ z < m /\ B(z) = B(m) \ {z}
  <2>1. z \in Int /\ m \in Int /\ \A y \in D : y \in Int
    OBVIOUS
  <2>2. z \in D /\ z < m
    OBVIOUS
  <2>3. ASSUME NEW y \in B(z) PROVE y \in B(m) \ {z}
    BY <2>1, <2>2
  <2>4. ASSUME NEW y \in B(m), y # z PROVE y \in B(z)
    BY <1>3, <2>1, <2>4
  <2> QED BY <2>2, <2>3, <2>4
<1>5. Cardinality(B(z)) = Cardinality(B(m)) - 1
  <2> HIDE DEF B
  <2> QED BY <1>2, <1>3, <1>4, FS_RemoveElement
<1>6. Rank(D, z) >= k
  BY <1>1, <1>5 DEF Rank
<1> QED BY <1>4, <1>6

(* Rows behind the cursor of a full page, and those behind it that the next*)
(* offset will skip, are no more than the offset.                          *)
LEMMA SkippedNext ==
  ASSUME NEW D \in SUBSET Int, IsFiniteSet(D), NEW k \in Nat, NEW c \in Int,
         NEW N \in SUBSET {i \in D : c < i /\ Rank(D, i) < k}, N # {}
  PROVE  Cardinality(N) + Cardinality({i \in D : i <= c}) <= k
<1> DEFINE U == {i \in D : i <= c}
           B(i) == {j \in D : j < i}
<1>1. N \in SUBSET D /\ U \in SUBSET D /\ N \cap U = {}
  <2>1. \A i \in N : i \in D /\ c < i
    OBVIOUS
  <2>2. \A i \in U : i \in D /\ i <= c
    OBVIOUS
  <2>3. \A i \in D : i \in Int
    OBVIOUS
  <2> HIDE DEF U
  <2>4. \A i \in D : ~(c < i /\ i <= c)
    BY <2>3
  <2> QED BY <2>1, <2>2, <2>4
<1>2. IsFiniteSet(N) /\ IsFiniteSet(U) /\ Cardinality(N) \in Nat /\ Cardinality(U) \in Nat
  <2> HIDE DEF U
  <2> QED BY <1>1, FS_Subset, FS_CardinalityType
<1>3. PICK m \in N : \A y \in N : m >= y
  BY <1>1, <1>2, GreatestExists
<1>4. m \in D /\ c < m /\ Rank(D, m) < k
  OBVIOUS
<1>5. (N \cup U) \ {m} \subseteq B(m) /\ m \in N \cup U
  <2>1. m \in Int /\ \A y \in D : y \in Int
    OBVIOUS
  <2>2. ASSUME NEW y \in N, y # m PROVE y \in B(m)
    BY <1>1, <1>3, <2>1, <2>2
  <2>3. ASSUME NEW y \in U PROVE y \in B(m)
    BY <1>4, <2>1
  <2> QED BY <2>2, <2>3
<1>6. Cardinality(N \cup U) = Cardinality(N) + Cardinality(U) /\ IsFiniteSet(N \cup U)
  <2> HIDE DEF U
  <2>1. Cardinality(N \cap U) = 0
    BY <1>1, FS_EmptySet
  <2>2. Cardinality(N \cup U) = Cardinality(N) + Cardinality(U) - Cardinality(N \cap U)
    BY <1>2, FS_Union
  <2>3. IsFiniteSet(N \cup U)
    BY <1>2, FS_Union
  <2> QED BY <1>2, <2>1, <2>2, <2>3
<1>7. Cardinality((N \cup U) \ {m}) = Cardinality(N \cup U) - 1
  <2> HIDE DEF U
  <2> QED BY <1>5, <1>6, FS_RemoveElement
<1>8. B(m) \in SUBSET D
  OBVIOUS
<1>9. IsFiniteSet(B(m)) /\ Cardinality((N \cup U) \ {m}) <= Cardinality(B(m))
  <2> HIDE DEF B, U
  <2> QED BY <1>5, <1>8, FS_Subset
<1>10. Cardinality(B(m)) = Rank(D, m) /\ Rank(D, m) \in Nat
  BY RankIsNat DEF Rank
<1> HIDE DEF B, U
<1>11. Cardinality(N) + Cardinality(U) - 1 < k
  BY <1>2, <1>4, <1>6, <1>7, <1>9, <1>10
<1> QED BY <1>2, <1>11 DEF U

(* An offset skips as many rows it did not skip before as were deleted, at *)
(* most.                                                                   *)
LEMMA SkippedAfterDelete ==
  ASSUME NEW D \in SUBSET Int, IsFiniteSet(D), NEW K \in SUBSET D, NEW k \in Nat,
         NEW N \in SUBSET {i \in D \ K : Rank(D \ K, i) < k /\ Rank(D, i) >= k}
  PROVE  Cardinality(N) <= Cardinality(K)
<1>1. IsFiniteSet(K) /\ IsFiniteSet(D \ K) /\ Cardinality(K) \in Nat
  BY FS_Subset, FS_CardinalityType, FS_Difference
<1>2. CASE N = {}
  BY <1>1, <1>2, FS_EmptySet
<1>3. CASE N # {}
  <2>1. N \in SUBSET (D \ K) /\ IsFiniteSet(N)
    BY <1>1, FS_Subset
  <2>2. PICK y \in N : \A z \in N : y <= z
    BY <1>3, <2>1, LeastExists
  <2> DEFINE c == y - 1
             B == {j \in D : j < y}
             U == {i \in D \ K : i <= c}
  <2>3. y \in Int /\ c \in Int /\ \A j \in D : j \in Int
    BY <2>1
  <2>4. N \subseteq {i \in D \ K : c < i /\ Rank(D \ K, i) < k}
    BY <2>1, <2>2, <2>3
  <2>5. Cardinality(N) + Cardinality(U) <= k
    <3> HIDE DEF c
    <3> QED BY <1>1, <1>3, <2>3, <2>4, SkippedNext
  <2>6. U = B \ K
    <3>1. \A j \in D : j <= c <=> j < y
      BY <2>3
    <3> HIDE DEF c
    <3> QED BY <3>1
  <2>7. B \in SUBSET D /\ Cardinality(B) >= k
    BY DEF Rank
  <2> HIDE DEF U, B
  <2>8. IsFiniteSet(B) /\ Cardinality(U) = Cardinality(B) - Cardinality(B \cap K)
    BY <2>6, <2>7, FS_Subset, FS_Difference
  <2>9. Cardinality(B \cap K) <= Cardinality(K)
    BY <1>1, FS_Intersection
  <2>10. Cardinality(B) \in Nat /\ Cardinality(N) \in Nat /\ Cardinality(B \cap K) \in Nat
    BY <1>1, <2>1, <2>8, FS_CardinalityType, FS_Intersection
  <2> QED BY <1>1, <2>5, <2>7, <2>8, <2>9, <2>10
<1> QED BY <1>2, <1>3

-----------------------------------------------------------------------------
(* The walk through the pages.                                             *)


(* Rows that were deleted since the walk began.                            *)
Deleted == gone \ start.gone

(* Rows a walk must not read twice: those it found, and all of them as long*)
(* as none is deleted.                                                     *)
Kept(r) == r \in start.there \/ Deleted = {}

Rows == DOMAIN table

Place(i) == Rank(Rows, i)

UpTo(c) == {i \in Rows : i <= c}

Taken == Range(read) \cup Range(page)

Unread == {i \in Rows : table[i] \in start.there /\ table[i] \notin Taken}

(* Unread rows that the offset skips before the first row, ...             *)
SkippedByOffset == {i \in Unread : Place(i) < offset}

(* ... and that the cursor has passed after it.                            *)
SkippedByCursor == Unread \cap UpTo(at)

Missed == start.there \ (Deleted \cup Range(read \o page))

(* Rowids are never greater than the number of insertions, and no row has  *)
(* two.                                                                    *)
RowsPlaced ==
  /\ Rows \subseteq 1..inserted
  /\ inserted <= MaxRows
  /\ \A i, j \in Rows : table[i] = table[j] => i = j
  /\ IsFiniteSet(gone)

WalkTypes ==
  /\ offset \in Nat /\ at \in Nat /\ limit \in Limits
  /\ read \in Seq(Row) /\ page \in Seq(Row)
  /\ \A r \in Taken : r.n <= inserted
  /\ start.gone \subseteq gone
  /\ start.there \subseteq Range(table) \cup Deleted

NoneTwice ==
  LET rows == read \o page
  IN  \A i, j \in DOMAIN rows : i # j /\ rows[i] = rows[j] => ~Kept(rows[i])

(* The offset counts the rows of the calls before, the cursor is at the    *)
(* last row of this one, and neither exceeds the signed range.             *)
CursorIsLast ==
  /\ offset = Len(read)
  /\ at = 0 <=> page = <<>>
  /\ offset <= inserted
  /\ at # 0 => offset + Len(page) <= at /\ at <= inserted
  /\ at # 0 /\ Deleted = {} => at \in Rows

(* What was read is behind the cursor, and behind the next offset.         *)
TakenAreBehind ==
  \A i \in Rows : Kept(table[i]) /\ table[i] \in Taken =>
    /\ Place(i) < offset + Len(page)
    /\ at # 0 => i <= at

(* As long as there is a row ahead that the walk must not read twice, no   *)
(* more rows are behind the cursor than were read: no new one comes there. *)
PassedAreRead ==
  at # 0 /\ (Deleted = {} \/ \E i \in Rows : at < i /\ table[i] \in start.there)
    => Cardinality(UpTo(at)) <= offset + Len(page)

(* The rows that are skipped unread, and those that the next offset will   *)
(* skip, make up for rows that were deleted.                               *)
SkippedAreFew ==
  IF at = 0
    THEN Cardinality(SkippedByOffset) <= Cardinality(Deleted)
    ELSE /\ Cardinality(SkippedByCursor) <= Cardinality(Deleted)
         /\ Cardinality(SkippedByCursor) + offset + Len(page)
              <= Cardinality(Deleted) + Cardinality(UpTo(at))

CallInv == CursorIsLast /\ TakenAreBehind /\ PassedAreRead /\ SkippedAreFew

MissedAreFew == Cardinality(Missed) <= Cardinality(Deleted)

(* The inductive invariant.                                                *)
WalkInv ==
  /\ RowsNumbered /\ GoneForGood
  /\ RowsPlaced
  /\ WalkTypes
  /\ NoneTwice
  /\ walk = "called" => CallInv
  /\ walk = "done" => MissedAreFew

-----------------------------------------------------------------------------
(* The table is finite, and so is every part of it.                        *)
LEMMA RowsFinite ==
  ASSUME RowsNumbered, RowsPlaced
  PROVE  /\ Rows \in SUBSET Int /\ Rows \in SUBSET Nat
         /\ \A T \in SUBSET Rows : IsFiniteSet(T) /\ Cardinality(T) \in Nat
<1>1. inserted \in Nat /\ Rows \subseteq 1..inserted
  BY DEF RowsNumbered, RowsPlaced
<1>2. IsFiniteSet(1..inserted)
  BY <1>1, FS_Interval
<1>3. \A T \in SUBSET Rows : IsFiniteSet(T)
  BY <1>1, <1>2, FS_Subset
<1>4. \A T \in SUBSET Rows : Cardinality(T) \in Nat
  BY <1>3, FS_CardinalityType
<1>5. 1..inserted \subseteq Nat /\ 1..inserted \subseteq Int
  BY <1>1
<1> QED BY <1>1, <1>3, <1>4, <1>5

(* The rowid of a new row is greater than those there are.                 *)
LEMMA InsertPlaces ==
  ASSUME RowsNumbered, RowsPlaced, NEW u \in Urls, Insert(u)
  PROVE  /\ NextRowid \in Nat /\ \A i \in Rows : i < NextRowid
         /\ Rows' = Rows \cup {NextRowid}
         /\ \A i \in Rows : table'[i] = table[i]
         /\ table'[NextRowid] = [n |-> inserted + 1, url |-> u]
         /\ inserted' = inserted + 1 /\ gone' = gone
         /\ RowsPlaced'
<1> DEFINE k == NextRowid
<1>1. inserted \in Nat /\ Rows \subseteq 1..inserted
  BY DEF RowsNumbered, RowsPlaced
<1>2. Rows \cup {0} \in SUBSET Int /\ IsFiniteSet(Rows \cup {0}) /\ Rows \cup {0} # {}
  BY RowsFinite, FS_AddElement
<1>3. Max(Rows \cup {0}) \in Rows \cup {0} /\ \A i \in Rows \cup {0} : i <= Max(Rows \cup {0})
  BY <1>2, MaxIsGreatest
<1>4. k \in 1..(inserted + 1) /\ \A i \in Rows : i < k
  <2> DEFINE m == Max(Rows \cup {0})
  <2>1. k = m + 1
    BY DEF NextRowid, Rows
  <2>2. m \in 0..inserted /\ \A i \in Rows : i <= m
    <3>1. m \in Rows \cup {0} /\ \A i \in Rows : i <= m
      BY <1>3
    <3> HIDE DEF m
    <3> QED BY <1>1, <3>1
  <2> HIDE DEF m, k
  <2> QED BY <1>1, <2>1, <2>2
<1>5. /\ inserted' = inserted + 1 /\ gone' = gone /\ inserted < MaxRows
      /\ table' = [i \in Rows \cup {k} |->
                     IF i = k THEN [n |-> inserted', url |-> u] ELSE table[i]]
  BY DEF Insert, Rows
<1> HIDE DEF k
<1>6. k \notin Rows
  BY <1>1, <1>4
<1>7. /\ Rows' = Rows \cup {k}
      /\ \A i \in Rows : table'[i] = table[i]
      /\ table'[k] = [n |-> inserted + 1, url |-> u]
  BY <1>5, <1>6 DEF Rows
<1>8. \A i \in Rows : table[i].n <= inserted
  BY DEF RowsNumbered, Rows, Range
<1>9. \A i \in Rows : table[i] # table'[k]
  <2>1. table'[k].n = inserted + 1
    BY <1>7
  <2> QED BY <1>1, <1>8, <2>1
<1>10. RowsPlaced'
  <2>1. Rows' \subseteq 1..inserted' /\ inserted' <= MaxRows /\ IsFiniteSet(gone')
    BY <1>1, <1>4, <1>5, <1>7, PagesAssumption DEF RowsPlaced
  <2>2. \A i, j \in Rows' : table'[i] = table'[j] => i = j
    <3> SUFFICES ASSUME NEW i \in Rows', NEW j \in Rows', table'[i] = table'[j] PROVE i = j
      OBVIOUS
    <3>1. CASE i \in Rows /\ j \in Rows
      BY <1>7, <3>1 DEF RowsPlaced
    <3>2. CASE i = k /\ j \in Rows
      BY <1>7, <1>9, <3>2, Zenon
    <3>3. CASE i \in Rows /\ j = k
      BY <1>7, <1>9, <3>3, Zenon
    <3> QED BY <1>7, <3>1, <3>2, <3>3, Zenon
  <2> QED BY <2>1, <2>2 DEF RowsPlaced
<1> QED BY <1>4, <1>5, <1>7, <1>10 DEF k

(* A deletion leaves the others where they are, and adds as many rows to   *)
(* what was deleted as it takes.                                           *)
LEMMA DeletePlaces ==
  ASSUME RowsNumbered, RowsPlaced, GoneForGood, start.gone \subseteq gone, start' = start,
         NEW u \in Urls, Delete(u)
  PROVE  \E K \in SUBSET Rows :
           /\ Rows' = Rows \ K
           /\ \A i \in Rows' : table'[i] = table[i]
           /\ \A i \in K : table[i] \in Deleted'
           /\ Deleted \subseteq Deleted' /\ Deleted' # {}
           /\ IsFiniteSet(Deleted) /\ IsFiniteSet(Deleted')
           /\ Cardinality(Deleted) \in Nat
           /\ Cardinality(Deleted') = Cardinality(Deleted) + Cardinality(K)
           /\ gone \subseteq gone' /\ inserted' = inserted
           /\ RowsPlaced'
<1> DEFINE K == {i \in Rows : table[i].url = u}
           T == {table[i] : i \in K}
<1>1. /\ K # {} /\ table' = [i \in Rows \ K |-> table[i]]
      /\ gone' = gone \cup T /\ inserted' = inserted
  BY DEF Delete, Restrict, Rows
<1>2. Rows' = Rows \ K /\ \A i \in Rows' : table'[i] = table[i]
  BY <1>1 DEF Rows
<1>3. K \in SUBSET Rows
  OBVIOUS
<1>4. T \subseteq Range(table) /\ T # {} /\ \A i \in K : table[i] \in T
  BY <1>1 DEF Range, Rows
<1> HIDE DEF K
<1>5. IsFiniteSet(T) /\ Cardinality(T) = Cardinality(K)
  BY <1>3, RowsFinite, ImageSize DEF RowsPlaced, Rows
<1> HIDE DEF T
<1>6. Deleted' = Deleted \cup T /\ Deleted \cap T = {}
  BY <1>1, <1>4 DEF Deleted, GoneForGood
<1>7. IsFiniteSet(Deleted) /\ Cardinality(Deleted) \in Nat /\ Cardinality(T) \in Nat
  BY <1>5, FS_Difference, FS_CardinalityType DEF Deleted, RowsPlaced
<1>8. IsFiniteSet(Deleted') /\ Cardinality(Deleted') = Cardinality(Deleted) + Cardinality(T)
  <2>1. Cardinality(Deleted \cap T) = 0
    BY <1>6, FS_EmptySet
  <2>2. /\ IsFiniteSet(Deleted \cup T)
        /\ Cardinality(Deleted \cup T)
             = Cardinality(Deleted) + Cardinality(T) - Cardinality(Deleted \cap T)
    BY <1>5, <1>7, FS_Union
  <2> QED BY <1>6, <1>7, <2>1, <2>2
<1>9. RowsPlaced'
  <2>1. IsFiniteSet(gone')
    BY <1>1, <1>5, FS_Union DEF RowsPlaced
  <2> QED BY <1>1, <1>2, <2>1 DEF RowsPlaced
<1> QED BY <1>1, <1>2, <1>3, <1>4, <1>5, <1>6, <1>7, <1>8, <1>9

(* A new row is behind every other and was not read.                       *)
LEMMA InsertWalks ==
  ASSUME WalkInv, NEW u \in Urls, Insert(u), UNCHANGED walkVars
  PROVE  WalkInv'
<1> DEFINE k == NextRowid
<1>1. /\ k \in Nat /\ \A i \in Rows : i < k
      /\ Rows' = Rows \cup {k}
      /\ \A i \in Rows : table'[i] = table[i]
      /\ inserted' = inserted + 1 /\ gone' = gone
      /\ RowsPlaced'
  BY InsertPlaces DEF WalkInv
<1>2. table'[k].n = inserted + 1
  <2>1. table'[k] = [n |-> inserted + 1, url |-> u]
    BY InsertPlaces DEF WalkInv
  <2> HIDE DEF k
  <2> QED BY <2>1
<1> HIDE DEF k
<1>3. RowsNumbered' /\ GoneForGood'
  BY TableStep DEF WalkInv, Load
<1>4. inserted \in Nat /\ \A r \in Range(table) \cup gone : r.n <= inserted
  BY DEF WalkInv, RowsNumbered
<1>5. /\ UNCHANGED <<walk, limit, offset, at, page, read, start>>
      /\ Deleted' = Deleted /\ Taken' = Taken /\ Missed' = Missed
      /\ \A r : Kept(r)' <=> Kept(r)
  BY <1>1 DEF walkVars, Deleted, Taken, Missed, Kept
<1>6. table'[k] \notin start.there /\ table'[k] \notin Taken
  BY <1>2, <1>4 DEF WalkInv, WalkTypes, Deleted
<1>7. k \notin Rows /\ Rows \in SUBSET Int
  BY <1>1, RowsFinite DEF WalkInv
<1>8. Unread' = Unread
  BY <1>1, <1>5, <1>6, <1>7 DEF Unread
<1>9. \A i \in Rows : Place(i)' = Place(i)
  <2> SUFFICES ASSUME NEW i \in Rows PROVE Place(i)' = Place(i)
    OBVIOUS
  <2>1. {j \in Rows' : j < i} = {j \in Rows : j < i}
    <3>1. ~(k < i)
      BY <1>1, <1>7
    <3> QED BY <1>1, <3>1
  <2> QED BY <2>1 DEF Place, Rank
<1>10. WalkTypes'
  <2>1. \A r \in Taken' : r.n <= inserted'
    <3>1. \A r \in Taken : r \in Row
      BY DEF WalkInv, WalkTypes, Taken, Range
    <3> QED BY <1>1, <1>4, <1>5, <3>1 DEF WalkInv, WalkTypes, Row
  <2>2. Range(table) \subseteq Range(table')
    BY <1>1 DEF Range, Rows
  <2> QED BY <1>1, <1>5, <2>1, <2>2 DEF WalkInv, WalkTypes
<1>11. NoneTwice'
  BY <1>5 DEF WalkInv, NoneTwice
<1>12. ASSUME walk = "called" PROVE CallInv'
  <2>1. CallInv
    BY <1>12 DEF WalkInv
  <2>2. offset \in Nat /\ at \in Nat /\ Len(page) \in Nat
    BY DEF WalkInv, WalkTypes
  <2>3. CursorIsLast'
    BY <1>1, <1>4, <1>5, <2>1, <2>2 DEF CallInv, CursorIsLast
  <2>4. TakenAreBehind'
    BY <1>1, <1>5, <1>6, <1>9, <2>1 DEF CallInv, TakenAreBehind
  <2>5. at # 0 /\ (Deleted = {} \/ \E i \in Rows : at < i /\ table[i] \in start.there)
          => UpTo(at)' = UpTo(at)
    <3> SUFFICES ASSUME at < k PROVE UpTo(at)' = UpTo(at)
      <4>1. ASSUME NEW i \in Rows, at < i PROVE at < k
        BY <1>1, <1>7, <2>2, <4>1
      <4>2. at # 0 /\ Deleted = {} => at \in Rows
        BY <2>1 DEF CallInv, CursorIsLast
      <4> QED BY <1>1, <4>1, <4>2
    <3>1. ~(k <= at)
      BY <1>1, <2>2
    <3> QED BY <1>1, <1>5, <3>1 DEF UpTo
  <2>6. PassedAreRead'
    BY <1>1, <1>5, <1>6, <2>1, <2>5 DEF CallInv, PassedAreRead
  <2>7. at = 0 => SkippedByOffset' = SkippedByOffset
    BY <1>5, <1>8, <1>9 DEF SkippedByOffset, Unread
  <2>8. /\ SkippedByCursor' = SkippedByCursor
        /\ UpTo(at) \subseteq UpTo(at)'
    BY <1>1, <1>5, <1>7, <1>8 DEF SkippedByCursor, Unread, UpTo
  <2>9. /\ Cardinality(UpTo(at)) <= Cardinality(UpTo(at)')
        /\ Cardinality(UpTo(at)) \in Nat /\ Cardinality(UpTo(at)') \in Nat
    <3>1. UpTo(at)' \in SUBSET Rows'
      BY <1>5 DEF UpTo
    <3>2. IsFiniteSet(UpTo(at)') /\ Cardinality(UpTo(at)') \in Nat
      <4>1. IsFiniteSet(Rows')
        BY <1>1, RowsFinite, FS_AddElement DEF WalkInv
      <4>2. IsFiniteSet(UpTo(at)')
        BY <3>1, <4>1, FS_Subset
      <4> QED BY <4>2, FS_CardinalityType
    <3> QED BY <2>8, <3>2, FS_Subset, FS_CardinalityType
  <2>10. SkippedAreFew'
    <3>1. Cardinality(SkippedByCursor) \in Nat /\ Cardinality(Deleted) \in Nat
      <4>1. SkippedByCursor \in SUBSET Rows
        BY DEF SkippedByCursor, UpTo
      <4>2. IsFiniteSet(Deleted)
        BY FS_Difference DEF WalkInv, RowsPlaced, Deleted
      <4> QED BY <4>1, <4>2, RowsFinite, FS_CardinalityType DEF WalkInv
    <3>2. SkippedAreFew
      BY <2>1 DEF CallInv
    <3>3. CASE at = 0
      BY <1>5, <2>7, <3>2, <3>3 DEF SkippedAreFew
    <3>4. CASE at # 0
      BY <1>5, <2>2, <2>8, <2>9, <3>1, <3>2, <3>4 DEF SkippedAreFew
    <3> QED BY <3>3, <3>4
  <2> QED BY <2>3, <2>4, <2>6, <2>10 DEF CallInv
<1>13. walk = "done" => MissedAreFew'
  BY <1>5 DEF WalkInv, MissedAreFew
<1> QED BY <1>1, <1>3, <1>5, <1>10, <1>11, <1>12, <1>13 DEF WalkInv

(* What is missed was in the table, so that it can be counted.             *)
LEMMA MissedFinite ==
  ASSUME WalkInv PROVE IsFiniteSet(Missed) /\ IsFiniteSet(Deleted)
<1>1. IsFiniteSet({table[i] : i \in Rows})
  BY RowsFinite, ImageSize DEF WalkInv, RowsPlaced, Rows
<1>2. Missed \in SUBSET {table[i] : i \in Rows}
  BY DEF WalkInv, WalkTypes, Missed, Range, Rows
<1>3. IsFiniteSet(Missed)
  BY <1>1, <1>2, FS_Subset
<1>4. IsFiniteSet(Deleted)
  BY FS_Difference DEF WalkInv, RowsPlaced, Deleted
<1> QED BY <1>3, <1>4

(* A deletion brings rows nearer, and makes up for what is skipped by it.  *)
LEMMA DeleteWalks ==
  ASSUME WalkInv, NEW u \in Urls, Delete(u), UNCHANGED walkVars
  PROVE  WalkInv'
<1>1. UNCHANGED <<walk, limit, offset, at, page, read, start>>
  BY DEF walkVars
<1>2. PICK K \in SUBSET Rows :
        /\ Rows' = Rows \ K
        /\ \A i \in Rows' : table'[i] = table[i]
        /\ \A i \in K : table[i] \in Deleted'
        /\ Deleted \subseteq Deleted' /\ Deleted' # {}
        /\ IsFiniteSet(Deleted) /\ IsFiniteSet(Deleted')
        /\ Cardinality(Deleted) \in Nat
        /\ Cardinality(Deleted') = Cardinality(Deleted) + Cardinality(K)
        /\ gone \subseteq gone' /\ inserted' = inserted
        /\ RowsPlaced'
  BY <1>1, DeletePlaces DEF WalkInv, WalkTypes
<1>3. RowsNumbered' /\ GoneForGood'
  BY TableStep DEF WalkInv, Load
<1>4. inserted \in Nat /\ offset \in Nat /\ at \in Nat /\ Len(page) \in Nat
  BY DEF WalkInv, WalkTypes, RowsNumbered
<1>5. /\ Rows \in SUBSET Int /\ IsFiniteSet(Rows) /\ IsFiniteSet(K) /\ Cardinality(K) \in Nat
      /\ \A T \in SUBSET Rows : IsFiniteSet(T) /\ Cardinality(T) \in Nat
  BY RowsFinite DEF WalkInv
<1>6. Taken' = Taken /\ Missed' \subseteq Missed /\ \A r : Kept(r)' => r \in start.there /\ Kept(r)
  BY <1>1, <1>2 DEF Taken, Missed, Kept
<1>7. Unread' \subseteq Unread
  BY <1>1, <1>2, <1>6 DEF Unread
<1>8. \A i \in Rows' : Place(i)' \in Nat /\ Place(i) \in Nat /\ Place(i)' <= Place(i)
  <2> SUFFICES ASSUME NEW i \in Rows'
               PROVE  Place(i)' \in Nat /\ Place(i) \in Nat /\ Place(i)' <= Place(i)
    OBVIOUS
  <2> DEFINE A == {j \in Rows' : j < i}
             B == {j \in Rows : j < i}
  <2>1. A \in SUBSET B /\ B \in SUBSET Rows
    BY <1>2
  <2> HIDE DEF A, B
  <2>2. Cardinality(A) \in Nat /\ Cardinality(B) \in Nat /\ Cardinality(A) <= Cardinality(B)
    BY <1>5, <2>1, FS_Subset, FS_CardinalityType
  <2> QED BY <2>2 DEF A, B, Place, Rank
<1>9. WalkTypes'
  <2>1. \A r \in Range(table) : r \in Range(table') \cup Deleted'
    BY <1>2 DEF Range, Rows
  <2>2. start.there' \subseteq Range(table') \cup Deleted'
    BY <1>1, <1>2, <2>1 DEF WalkInv, WalkTypes
  <2> QED BY <1>1, <1>2, <1>6, <2>2 DEF WalkInv, WalkTypes
<1>10. NoneTwice'
  BY <1>1, <1>6 DEF WalkInv, NoneTwice
<1>11. ASSUME walk = "called" PROVE CallInv'
  <2>1. CallInv
    BY <1>11 DEF WalkInv
  <2>2. CursorIsLast'
    BY <1>1, <1>2, <2>1 DEF CallInv, CursorIsLast
  <2>3. TakenAreBehind'
    <3> SUFFICES ASSUME NEW i \in Rows', Kept(table[i])', (table[i] \in Taken)'
                 PROVE  Place(i)' < offset + Len(page) /\ (at # 0 => i <= at)
      BY <1>1 DEF TakenAreBehind
    <3>1. i \in Rows /\ Kept(table[i]) /\ table[i] \in Taken
      BY <1>2, <1>6
    <3>2. Place(i) < offset + Len(page) /\ (at # 0 => i <= at)
      BY <2>1, <3>1 DEF CallInv, TakenAreBehind
    <3> QED BY <1>4, <1>8, <3>2
  <2>4. /\ Cardinality(UpTo(at)) \in Nat /\ Cardinality(UpTo(at)') \in Nat
        /\ Cardinality(UpTo(at)') <= Cardinality(UpTo(at))
        /\ Cardinality(UpTo(at)) <= Cardinality(UpTo(at)') + Cardinality(K)
    <3> DEFINE A == UpTo(at)'
               B == UpTo(at)
    <3>1. A = B \ K /\ B \in SUBSET Rows
      BY <1>1, <1>2 DEF UpTo
    <3> HIDE DEF A, B
    <3>2. /\ IsFiniteSet(A) /\ IsFiniteSet(B)
          /\ Cardinality(A) = Cardinality(B) - Cardinality(B \cap K)
      BY <1>5, <3>1, FS_Difference
    <3>3. Cardinality(B \cap K) <= Cardinality(K) /\ IsFiniteSet(B \cap K)
      BY <1>5, FS_Intersection
    <3>4. Cardinality(A) \in Nat /\ Cardinality(B) \in Nat /\ Cardinality(B \cap K) \in Nat
      BY <3>2, <3>3, FS_CardinalityType
    <3>5. Cardinality(A) <= Cardinality(B) /\ Cardinality(B) <= Cardinality(A) + Cardinality(K)
      BY <1>5, <3>2, <3>3, <3>4
    <3> QED BY <3>4, <3>5 DEF A, B
  <2>5. PassedAreRead'
    <3> SUFFICES ASSUME at # 0, NEW i \in Rows', at < i, table'[i] \in start.there
                 PROVE  Cardinality(UpTo(at)') <= offset + Len(page)
      BY <1>1, <1>2 DEF PassedAreRead
    <3>1. i \in Rows /\ table[i] \in start.there
      BY <1>2
    <3>2. Cardinality(UpTo(at)) <= offset + Len(page)
      BY <2>1, <3>1 DEF CallInv, PassedAreRead
    <3> QED BY <1>4, <2>4, <3>2
  <2>6. CASE at = 0
    <3> DEFINE N == {i \in Rows \ K : Rank(Rows \ K, i) < offset /\ Rank(Rows, i) >= offset}
    <3>1. N \in SUBSET Rows
      OBVIOUS
    <3>2. Cardinality(N) <= Cardinality(K)
      BY <1>4, <1>5, SkippedAfterDelete, Zenon
    <3>3. SkippedByOffset' \subseteq SkippedByOffset \cup N
      <4> SUFFICES ASSUME NEW i \in SkippedByOffset', i \notin SkippedByOffset PROVE i \in N
        OBVIOUS
      <4>1. i \in Unread' /\ Place(i)' < offset
        BY <1>1 DEF SkippedByOffset
      <4>2. i \in Rows'
        BY <4>1 DEF Unread
      <4>3. Place(i) >= offset
        BY <1>4, <1>7, <1>8, <4>1, <4>2 DEF SkippedByOffset
      <4> QED BY <1>2, <4>1, <4>2, <4>3 DEF Place
    <3>4. SkippedByOffset \in SUBSET Rows
      BY DEF SkippedByOffset, Unread
    <3> HIDE DEF N
    <3>5. /\ IsFiniteSet(SkippedByOffset \cup N)
          /\ Cardinality(SkippedByOffset \cup N)
               = Cardinality(SkippedByOffset) + Cardinality(N) - Cardinality(SkippedByOffset \cap N)
      BY <1>5, <3>1, <3>4, FS_Union
    <3>6. Cardinality(SkippedByOffset') <= Cardinality(SkippedByOffset \cup N)
      BY <3>3, <3>5, FS_Subset
    <3>7. /\ Cardinality(SkippedByOffset \cap N) \in Nat /\ Cardinality(SkippedByOffset) \in Nat
          /\ Cardinality(N) \in Nat
      BY <1>5, <3>1, <3>4
    <3>8. SkippedByOffset' \in SUBSET Rows
      BY <1>2 DEF SkippedByOffset, Unread
    <3>9. Cardinality(SkippedByOffset') \in Nat
      BY <1>5, <3>8
    <3>10. Cardinality(SkippedByOffset) <= Cardinality(Deleted)
      BY <2>1, <2>6 DEF CallInv, SkippedAreFew
    <3>11. Cardinality(SkippedByOffset') <= Cardinality(Deleted')
      BY <1>2, <1>5, <3>2, <3>5, <3>6, <3>7, <3>9, <3>10
    <3>12. SkippedAreFew'
      BY <1>1, <2>6, <3>11 DEF SkippedAreFew
    <3> QED BY <2>2, <2>3, <2>5, <3>12 DEF CallInv
  <2>7. CASE at # 0
    <3>1. /\ SkippedByCursor \in SUBSET Rows
          /\ SkippedByCursor' \in SUBSET SkippedByCursor
      BY <1>1, <1>2, <1>7 DEF SkippedByCursor, UpTo
    <3>2. /\ Cardinality(SkippedByCursor) \in Nat /\ Cardinality(SkippedByCursor') \in Nat
          /\ Cardinality(SkippedByCursor') <= Cardinality(SkippedByCursor)
      BY <1>5, <3>1, FS_Subset, FS_CardinalityType
    <3>3. SkippedAreFew
      BY <2>1 DEF CallInv
    <3>4. SkippedAreFew'
      BY <1>1, <1>2, <1>4, <1>5, <2>4, <2>7, <3>2, <3>3 DEF SkippedAreFew
    <3> QED BY <2>2, <2>3, <2>5, <3>4 DEF CallInv
  <2> QED BY <2>6, <2>7
<1>12. ASSUME walk = "done" PROVE MissedAreFew'
  <2>1. IsFiniteSet(Missed)
    BY MissedFinite
  <2>2. Cardinality(Missed') <= Cardinality(Missed) /\ Cardinality(Missed') \in Nat
    BY <1>6, <2>1, FS_Subset, FS_CardinalityType
  <2>3. Cardinality(Missed) \in Nat /\ Cardinality(Missed) <= Cardinality(Deleted)
    BY <1>12, <2>1, FS_CardinalityType DEF WalkInv, MissedAreFew
  <2> QED BY <1>2, <1>5, <2>2, <2>3 DEF MissedAreFew
<1> QED BY <1>1, <1>2, <1>3, <1>9, <1>10, <1>11, <1>12 DEF WalkInv

(* The rows of a sequence of rows and of one that is longer by a row.      *)
LEMMA RangeOfJoined ==
  ASSUME NEW s \in Seq(Row), NEW t \in Seq(Row)
  PROVE  s \o t \in Seq(Row) /\ Range(s \o t) = Range(s) \cup Range(t)
<1>1. /\ Len(s) \in Nat /\ Len(t) \in Nat
      /\ s \o t \in Seq(Row) /\ Len(s \o t) = Len(s) + Len(t)
      /\ DOMAIN s = 1..Len(s) /\ DOMAIN t = 1..Len(t) /\ DOMAIN (s \o t) = 1..(Len(s) + Len(t))
  OBVIOUS
<1>2. \A i \in 1..Len(s) : i \in DOMAIN (s \o t) /\ (s \o t)[i] = s[i]
  BY <1>1
<1>3. \A i \in 1..Len(t) : Len(s) + i \in DOMAIN (s \o t) /\ (s \o t)[Len(s) + i] = t[i]
  BY <1>1
<1>4. \A i \in DOMAIN (s \o t) : (s \o t)[i] \in Range(s) \cup Range(t)
  <2> SUFFICES ASSUME NEW i \in DOMAIN (s \o t) PROVE (s \o t)[i] \in Range(s) \cup Range(t)
    OBVIOUS
  <2>1. CASE i <= Len(s)
    BY <1>1, <1>2, <2>1 DEF Range
  <2>2. CASE i > Len(s)
    <3>1. i - Len(s) \in 1..Len(t) /\ i = Len(s) + (i - Len(s))
      BY <1>1, <2>2
    <3>2. (s \o t)[i] = t[i - Len(s)]
      BY <1>3, <3>1
    <3> QED BY <1>1, <3>1, <3>2 DEF Range
  <2> QED BY <1>1, <2>1, <2>2
<1>5. Range(s \o t) \subseteq Range(s) \cup Range(t)
  BY <1>4 DEF Range
<1>6. Range(s) \subseteq Range(s \o t)
  <2> SUFFICES ASSUME NEW i \in DOMAIN s PROVE s[i] \in Range(s \o t)
    BY DEF Range
  <2> QED BY <1>1, <1>2 DEF Range
<1>7. Range(t) \subseteq Range(s \o t)
  <2> SUFFICES ASSUME NEW i \in DOMAIN t PROVE t[i] \in Range(s \o t)
    BY DEF Range
  <2> QED BY <1>1, <1>3 DEF Range
<1> QED BY <1>1, <1>5, <1>6, <1>7

(* The rows of a page that has one more.                                   *)
LEMMA RangeOfAppended ==
  ASSUME NEW s \in Seq(Row), NEW r \in Row
  PROVE  /\ Append(s, r) \in Seq(Row) /\ Len(Append(s, r)) = Len(s) + 1
         /\ Append(s, r) # <<>> /\ Range(Append(s, r)) = Range(s) \cup {r}
<1>1. /\ Append(s, r) \in Seq(Row) /\ Len(Append(s, r)) = Len(s) + 1 /\ Append(s, r) # <<>>
      /\ Len(s) \in Nat
      /\ DOMAIN s = 1..Len(s) /\ DOMAIN Append(s, r) = 1..(Len(s) + 1)
      /\ Append(s, r)[Len(s) + 1] = r /\ \A i \in 1..Len(s) : Append(s, r)[i] = s[i]
  OBVIOUS
<1>2. \A i \in 1..(Len(s) + 1) : i \in 1..Len(s) \/ i = Len(s) + 1
  BY <1>1
<1>3. Len(s) + 1 \in 1..(Len(s) + 1) /\ \A i \in 1..Len(s) : i \in 1..(Len(s) + 1)
  BY <1>1
<1> QED BY <1>1, <1>2, <1>3 DEF Range

(* The offset of a walk is not cut by its cast, ...                        *)
LEMMA SkipIsOffset ==
  ASSUME WalkInv, CallInv PROVE Skip = offset
<1>1. offset \in Nat /\ offset <= MaxRows
  BY PagesAssumption DEF WalkInv, WalkTypes, CallInv, CursorIsLast, RowsPlaced, RowsNumbered
<1>2. Signed(offset) = offset
  BY <1>1, PagesAssumption DEF Signed
<1>3. Max({offset, 0}) = offset
  BY <1>1 DEF Max
<1> QED BY <1>2, <1>3 DEF Skip

(* ... and a limit that is cut by its own is never reached.                *)
LEMMA ShortPageIsLast ==
  ASSUME WalkInv, Exhausted, Len(page) < limit PROVE Ahead = {}
<1>1. limit \in 1..(2 * SignBit - 1) /\ SignBit \in Nat /\ Len(page) \in Nat
  BY PagesAssumption DEF WalkInv, WalkTypes
<1>2. Len(page) # Signed(limit)
  BY <1>1 DEF Signed
<1> QED BY <1>2 DEF Exhausted

(* What a call has still to visit, with the casts out of the way.          *)
LEMMA AheadOfCursor ==
  ASSUME WalkInv, CallInv
  PROVE  Ahead = IF at = 0 THEN {i \in Rows : Place(i) >= offset} ELSE {i \in Rows : at < i}
<1>1. CASE at = 0
  BY <1>1, SkipIsOffset DEF Ahead, Place, Rank, Rows
<1>2. CASE at # 0
  <2>1. at \in Nat /\ Rows \in SUBSET Int
    BY RowsFinite DEF WalkInv, WalkTypes
  <2> QED BY <1>2, <2>1 DEF Ahead, Rows
<1> QED BY <1>1, <1>2

(* A row that is fetched has as many before it as were read, and is new to *)
(* the walk.                                                               *)
LEMMA FetchWalks ==
  ASSUME WalkInv, FetchRow, UNCHANGED tableVars
  PROVE  WalkInv'
<1> DEFINE m == Min(Ahead)
           row == table[m]
<1>1. /\ walk = "called" /\ walk' = walk /\ Ahead # {}
      /\ at' = m /\ page' = Append(page, row)
      /\ UNCHANGED <<limit, offset, read, start, table, inserted, gone>>
  BY DEF FetchRow, Exhausted, tableVars
<1>2. CallInv
  BY <1>1 DEF WalkInv
<1>3. Rows \in SUBSET Int /\ \A T \in SUBSET Rows : IsFiniteSet(T) /\ Cardinality(T) \in Nat
  BY RowsFinite DEF WalkInv
<1>4. Ahead \in SUBSET Rows
  BY <1>2, AheadOfCursor
<1>5. m \in Ahead /\ \A i \in Ahead : m <= i
  BY <1>1, <1>3, <1>4, MinIsLeast
<1> HIDE DEF m
<1>6. m \in Rows /\ row \in Range(table) /\ row \in Row
  BY <1>4, <1>5 DEF WalkInv, RowsNumbered, Range, Rows
<1>7. /\ offset \in Nat /\ at \in Nat /\ Len(page) \in Nat /\ inserted \in Nat
      /\ m \in 1..inserted
  BY <1>6 DEF WalkInv, WalkTypes, RowsNumbered, RowsPlaced
<1>8. /\ page' \in Seq(Row) /\ Len(page') = Len(page) + 1 /\ page' # <<>>
      /\ Taken' = Taken \cup {row}
  <2>1. page \in Seq(Row)
    BY DEF WalkInv, WalkTypes
  <2> HIDE DEF row
  <2> QED BY <1>1, <1>6, <2>1, RangeOfAppended DEF Taken
<1>9. Rows' = Rows /\ Deleted' = Deleted /\ \A r : Kept(r)' <=> Kept(r)
  BY <1>1 DEF Rows, Deleted, Kept
<1>10. \A i \in Rows : Place(i)' = Place(i) /\ Place(i) \in Nat
  BY <1>3, <1>9, RankIsNat DEF Place
(* Where the cursor stops.                                                 *)
<1>11. /\ {j \in Rows : j < m} \cup {m} = UpTo(m)
       /\ Cardinality(UpTo(m)) = Place(m) + 1
  <2> DEFINE B == {j \in Rows : j < m}
  <2>1. B \cup {m} = UpTo(m) /\ m \notin B /\ B \in SUBSET Rows
    <3>1. \A i \in Rows : i <= m <=> i < m \/ i = m
      BY <1>3, <1>6
    <3>2. ~(m < m)
      BY <1>7
    <3> QED BY <1>6, <3>1, <3>2 DEF UpTo
  <2> HIDE DEF B
  <2>2. Cardinality(B \cup {m}) = Cardinality(B) + 1
    BY <1>3, <2>1, FS_AddElement
  <2> QED BY <2>1, <2>2 DEF B, Place, Rank
<1>12. ASSUME at = 0 PROVE CallInv' /\ (Kept(row) => row \notin Taken)
  <2>1. page = <<>> /\ Len(page) = 0
    BY <1>2, <1>12 DEF CallInv, CursorIsLast
  <2>2. Ahead = {i \in Rows : Place(i) >= offset}
    BY <1>2, <1>12, AheadOfCursor
  <2>3. Place(m) = offset
    BY <1>3, <1>5, <1>6, <1>7, <2>2, RankOfFirst DEF Place
  <2>4. \A i \in Rows : i < m => Place(i) < offset
    <3> SUFFICES ASSUME NEW i \in Rows, i < m, ~(Place(i) < offset) PROVE FALSE
      OBVIOUS
    <3>1. i \in Ahead
      BY <1>7, <1>10, <2>2
    <3> QED BY <1>3, <1>5, <1>6, <3>1
  <2>5. {j \in Rows : j < m} \in SUBSET Rows /\ Place(m) <= m - 1
    <3> DEFINE B == {j \in Rows : j < m}
    <3>1. B \in SUBSET (1..(m - 1))
      <4>1. \A j \in Rows : j \in 1..inserted
        BY DEF WalkInv, RowsPlaced
      <4>2. \A j \in Rows : j < m => j \in 1..(m - 1)
        BY <1>7, <4>1
      <4> QED BY <4>2
    <3>2. IsFiniteSet(1..(m - 1)) /\ Cardinality(1..(m - 1)) = m - 1
      BY <1>7, FS_Interval
    <3> HIDE DEF B
    <3>3. Cardinality(B) <= m - 1
      BY <3>1, <3>2, FS_Subset
    <3> QED BY <3>3 DEF B, Place, Rank
  <2>6. Kept(row) => row \notin Taken
    BY <1>2, <1>6, <1>7, <2>1, <2>3 DEF CallInv, TakenAreBehind
  <2>7. \A i \in Rows : m < i => Place(i) > offset
    <3> SUFFICES ASSUME NEW i \in Rows, m < i PROVE Place(i) > offset
      OBVIOUS
    <3> DEFINE B == {j \in Rows : j < i}
    <3>1. UpTo(m) \in SUBSET B /\ B \in SUBSET Rows
      <4>1. \A j \in Rows : j <= m => j < i
        BY <1>3, <1>6
      <4> QED BY <4>1 DEF UpTo
    <3> HIDE DEF B
    <3>2. Cardinality(UpTo(m)) <= Cardinality(B) /\ Cardinality(B) \in Nat
      BY <1>3, <3>1, FS_Subset
    <3> QED BY <1>7, <1>11, <2>3, <3>2 DEF B, Place, Rank
  <2>8. CursorIsLast'
    BY <1>1, <1>2, <1>6, <1>7, <1>8, <1>9, <2>1, <2>3, <2>5 DEF CallInv, CursorIsLast
  <2>9. TakenAreBehind'
    <3> SUFFICES ASSUME NEW i \in Rows, Kept(table[i]), table[i] \in Taken \cup {row}
                 PROVE  Place(i) < offset + 1 /\ i <= m
      BY <1>1, <1>8, <1>9, <1>10, <2>1 DEF TakenAreBehind
    <3>1. CASE table[i] \in Taken
      <4>1. Place(i) < offset
        BY <1>2, <1>7, <2>1, <3>1 DEF CallInv, TakenAreBehind
      <4>2. ~(m < i)
        BY <1>7, <1>10, <2>7, <4>1
      <4> QED BY <1>3, <1>6, <1>7, <1>10, <4>1, <4>2
    <3>2. CASE i = m
      BY <1>3, <1>6, <1>7, <2>3, <3>2
    <3> QED BY <1>6, <3>1, <3>2 DEF WalkInv, RowsPlaced
  <2>10. PassedAreRead'
    BY <1>1, <1>7, <1>8, <1>9, <1>11, <2>1, <2>3 DEF PassedAreRead, UpTo
  <2>11. SkippedByCursor' \subseteq SkippedByOffset
    <3> SUFFICES ASSUME NEW i \in Unread', i \in UpTo(m) PROVE i \in SkippedByOffset
      BY <1>1, <1>9 DEF SkippedByCursor, UpTo
    <3>1. i \in Unread /\ i # m
      BY <1>1, <1>8, <1>9 DEF Unread
    <3>2. i < m
      BY <1>3, <1>6, <3>1 DEF UpTo
    <3> QED BY <2>4, <3>1, <3>2 DEF SkippedByOffset, Unread
  <2>12. SkippedAreFew'
    <3>1. SkippedByOffset \in SUBSET Rows
      BY DEF SkippedByOffset, Unread
    <3>2. /\ Cardinality(SkippedByCursor') <= Cardinality(SkippedByOffset)
          /\ Cardinality(SkippedByCursor') \in Nat
          /\ Cardinality(SkippedByOffset) \in Nat
      BY <1>3, <2>11, <3>1, FS_Subset, FS_CardinalityType
    <3>3. Cardinality(SkippedByOffset) <= Cardinality(Deleted)
      BY <1>2, <1>12 DEF CallInv, SkippedAreFew
    <3>4. UpTo(at)' = UpTo(m) /\ at' # 0
      BY <1>1, <1>7, <1>9 DEF UpTo
    <3>5. Cardinality(Deleted) \in Nat
      BY MissedFinite, FS_CardinalityType
    <3> QED BY <1>1, <1>7, <1>8, <1>9, <1>11, <2>1, <2>3, <3>2, <3>3, <3>4, <3>5 DEF SkippedAreFew
  <2> QED BY <2>6, <2>8, <2>9, <2>10, <2>12 DEF CallInv
<1>13. ASSUME at # 0 PROVE CallInv' /\ (Kept(row) => row \notin Taken)
  <2>1. Ahead = {i \in Rows : at < i}
    BY <1>2, <1>13, AheadOfCursor
  <2>2. at < m /\ \A i \in Rows : at < i => m <= i
    BY <1>5, <2>1
  <2>3. {j \in Rows : j < m} = UpTo(at)
    <3>1. \A j \in Rows : j < m <=> j <= at
      BY <1>3, <1>6, <1>7, <2>2
    <3> QED BY <3>1 DEF UpTo
  <2>4. /\ UpTo(m) = UpTo(at) \cup {m}
        /\ Place(m) = Cardinality(UpTo(at))
        /\ Cardinality(UpTo(m)) = Cardinality(UpTo(at)) + 1 /\ Cardinality(UpTo(at)) \in Nat
    <3>1. UpTo(at) \in SUBSET Rows
      BY DEF UpTo
    <3> QED BY <1>3, <1>11, <2>3, <3>1 DEF Place, Rank
  <2>5. Kept(row) => row \notin Taken
    BY <1>2, <1>6, <1>7, <1>13, <2>2 DEF CallInv, TakenAreBehind
  <2>6. CursorIsLast'
    BY <1>1, <1>2, <1>6, <1>7, <1>8, <1>9, <1>13, <2>2 DEF CallInv, CursorIsLast
  <2>7. Kept(row) => Place(m) <= offset + Len(page)
    BY <1>2, <1>6, <1>13, <2>2, <2>4 DEF CallInv, PassedAreRead, Kept
  <2>8. TakenAreBehind'
    <3> SUFFICES ASSUME NEW i \in Rows, Kept(table[i]), table[i] \in Taken \cup {row}
                 PROVE  Place(i) < offset + (Len(page) + 1) /\ i <= m
      BY <1>1, <1>8, <1>9, <1>10 DEF TakenAreBehind
    <3>1. CASE table[i] \in Taken
      <4>1. Place(i) < offset + Len(page) /\ i <= at
        BY <1>2, <1>13, <3>1 DEF CallInv, TakenAreBehind
      <4>2. i \in Int /\ m \in Int /\ Place(i) \in Nat
        BY <1>3, <1>6, <1>10
      <4> QED BY <1>7, <2>2, <4>1, <4>2
    <3>2. CASE i = m
      BY <1>3, <1>6, <1>7, <1>10, <2>7, <3>2
    <3> QED BY <1>6, <3>1, <3>2 DEF WalkInv, RowsPlaced
  <2>9. PassedAreRead'
    <3> SUFFICES ASSUME Deleted = {} \/ \E i \in Rows : m < i /\ table[i] \in start.there
                 PROVE  Cardinality(UpTo(m)) <= offset + (Len(page) + 1)
      BY <1>1, <1>8, <1>9 DEF PassedAreRead, UpTo
    <3>1. \A i \in Rows : m < i => at < i
      BY <1>3, <1>6, <1>7, <2>2
    <3>2. Cardinality(UpTo(at)) <= offset + Len(page)
      BY <1>2, <1>13, <3>1 DEF CallInv, PassedAreRead
    <3> QED BY <1>7, <2>4, <3>2
  <2>10. SkippedByCursor' \subseteq SkippedByCursor
    <3> SUFFICES ASSUME NEW i \in Unread', i \in UpTo(m) PROVE i \in SkippedByCursor
      BY <1>1, <1>9 DEF SkippedByCursor, UpTo
    <3>1. i \in Unread /\ i # m
      BY <1>1, <1>8, <1>9 DEF Unread
    <3> QED BY <2>4, <3>1 DEF SkippedByCursor
  <2>11. SkippedAreFew'
    <3>1. SkippedByCursor \in SUBSET Rows
      BY DEF SkippedByCursor, Unread
    <3>2. /\ Cardinality(SkippedByCursor') <= Cardinality(SkippedByCursor)
          /\ Cardinality(SkippedByCursor') \in Nat
          /\ Cardinality(SkippedByCursor) \in Nat
      BY <1>3, <2>10, <3>1, FS_Subset, FS_CardinalityType
    <3>3. /\ Cardinality(SkippedByCursor) <= Cardinality(Deleted)
          /\ Cardinality(SkippedByCursor) + offset + Len(page)
               <= Cardinality(Deleted) + Cardinality(UpTo(at))
      BY <1>2, <1>13 DEF CallInv, SkippedAreFew
    <3>4. UpTo(at)' = UpTo(m) /\ at' # 0
      BY <1>1, <1>7, <1>9 DEF UpTo
    <3>5. Cardinality(Deleted) \in Nat
      BY MissedFinite, FS_CardinalityType
    <3>6. /\ Cardinality(SkippedByCursor') <= Cardinality(Deleted)
          /\ Cardinality(SkippedByCursor') + offset + (Len(page) + 1)
               <= Cardinality(Deleted) + Cardinality(UpTo(m))
      BY <1>7, <2>4, <3>2, <3>3, <3>5
    <3> QED BY <1>1, <1>8, <1>9, <3>4, <3>6 DEF SkippedAreFew
  <2> QED BY <2>5, <2>6, <2>8, <2>9, <2>11 DEF CallInv
<1>14. CallInv' /\ (Kept(row) => row \notin Taken)
  BY <1>12, <1>13
<1>15. WalkTypes'
  <2>1. \A r \in Taken' : r.n <= inserted
    BY <1>6, <1>8 DEF WalkInv, WalkTypes, RowsNumbered
  <2> QED BY <1>1, <1>7, <1>8, <1>9, <2>1 DEF WalkInv, WalkTypes
<1>16. NoneTwice'
  <2> DEFINE rows == read \o page
  <2>1. read \in Seq(Row) /\ page \in Seq(Row)
    BY DEF WalkInv, WalkTypes
  <2>2. rows \in Seq(Row) /\ Range(rows) = Taken
    BY <2>1, RangeOfJoined DEF Taken
  <2>3. (read \o page)' = Append(rows, row)
    <3> HIDE DEF row
    <3> QED BY <1>1, <1>6, <2>1
  <2>4. \A i, j \in DOMAIN rows : i # j /\ rows[i] = rows[j] => ~Kept(rows[i])
    BY DEF WalkInv, NoneTwice
  <2> HIDE DEF rows, row
  <2>5. /\ Len(rows) \in Nat /\ DOMAIN rows = 1..Len(rows)
        /\ DOMAIN Append(rows, row) = 1..(Len(rows) + 1)
        /\ Append(rows, row)[Len(rows) + 1] = row
        /\ \A i \in DOMAIN rows : Append(rows, row)[i] = rows[i] /\ rows[i] \in Taken
    BY <1>6, <2>2 DEF Range
  <2>6. \A i, j \in DOMAIN Append(rows, row) :
           i # j /\ Append(rows, row)[i] = Append(rows, row)[j] => ~Kept(Append(rows, row)[i])
    <3> SUFFICES ASSUME NEW i \in DOMAIN Append(rows, row), NEW j \in DOMAIN Append(rows, row),
                        i # j, Append(rows, row)[i] = Append(rows, row)[j]
                 PROVE  ~Kept(Append(rows, row)[i])
      OBVIOUS
    <3>1. CASE i \in DOMAIN rows /\ j \in DOMAIN rows
      BY <2>4, <2>5, <3>1, Zenon
    <3>2. CASE i = Len(rows) + 1 /\ j \in DOMAIN rows
      BY <1>14, <2>5, <3>2, Zenon
    <3>3. CASE i \in DOMAIN rows /\ j = Len(rows) + 1
      BY <1>14, <2>5, <3>3, Zenon
    <3>4. \A k \in DOMAIN Append(rows, row) : k \in DOMAIN rows \/ k = Len(rows) + 1
      BY <2>5
    <3> QED BY <3>1, <3>2, <3>3, <3>4
  <2> QED BY <1>9, <2>3, <2>6 DEF NoneTwice
<1>17. RowsNumbered' /\ GoneForGood' /\ RowsPlaced'
  BY <1>1, <1>9 DEF WalkInv, RowsNumbered, GoneForGood, RowsPlaced
<1> QED BY <1>1, <1>14, <1>15, <1>16, <1>17 DEF WalkInv

(* A full page moves the offset to the cursor: the rows that deletions have*)
(* brought under it are skipped.  A short one is returned at the end of the*)
(* table.                                                                  *)
LEMMA ReturnWalks ==
  ASSUME WalkInv, ReturnPage, UNCHANGED tableVars
  PROVE  WalkInv'
<1>1. /\ walk = "called" /\ Exhausted
      /\ read' = read \o page /\ page' = <<>> /\ at' = 0
      /\ UNCHANGED <<limit, start, table, inserted, gone>>
  BY DEF ReturnPage, tableVars
<1>2. CallInv
  BY <1>1 DEF WalkInv
<1>3. Rows \in SUBSET Int /\ \A T \in SUBSET Rows : IsFiniteSet(T) /\ Cardinality(T) \in Nat
  BY RowsFinite DEF WalkInv
<1>4. Rows' = Rows /\ Deleted' = Deleted /\ \A r : Kept(r)' <=> Kept(r)
  BY <1>1 DEF Rows, Deleted, Kept
<1>5. /\ read \in Seq(Row) /\ page \in Seq(Row) /\ read' \in Seq(Row)
      /\ read' \o page' = read \o page
      /\ Len(read') = Len(read) + Len(page) /\ Len(page') = 0
      /\ Range(read') = Taken /\ Range(page') = {}
  <2>1. read \in Seq(Row) /\ page \in Seq(Row)
    BY DEF WalkInv, WalkTypes
  <2>2. read' \in Seq(Row) /\ Range(read') = Taken
    BY <1>1, <2>1, RangeOfJoined DEF Taken
  <2>3. Len(read') = Len(read) + Len(page) /\ Len(page') = 0
    BY <1>1, <2>1
  <2>4. read' \o page' = read'
    BY <1>1, <2>2
  <2>5. Range(page') = {}
    BY <1>1 DEF Range
  <2> QED BY <1>1, <2>1, <2>2, <2>3, <2>4, <2>5
<1>6. Taken' = Taken /\ Unread' = Unread /\ Missed' = Missed
  <2>1. Taken' = Taken
    BY <1>5 DEF Taken
  <2>2. Unread' = Unread
    BY <1>1, <1>4, <2>1 DEF Unread
  <2>3. Missed' = Missed
    <3>1. (read \o page)' = read \o page
      BY <1>5
    <3> QED BY <1>1, <1>4, <3>1 DEF Missed
  <2> QED BY <2>1, <2>2, <2>3
<1>7. /\ offset \in Nat /\ at \in Nat /\ Len(page) \in Nat /\ inserted \in Nat
      /\ limit \in Nat /\ limit # 0
  BY PagesAssumption DEF WalkInv, WalkTypes, RowsNumbered
<1>8. NoneTwice'
  <2>1. (read \o page)' = read \o page
    BY <1>5
  <2> QED BY <1>4, <2>1 DEF WalkInv, NoneTwice
<1>9. RowsNumbered' /\ GoneForGood' /\ RowsPlaced'
  BY <1>1, <1>4 DEF WalkInv, RowsNumbered, GoneForGood, RowsPlaced
<1>10. ASSUME offset' \in Nat PROVE WalkTypes'
  <2>1. page' \in Seq(Row) /\ at' \in Nat
    BY <1>1
  <2> QED BY <1>1, <1>4, <1>5, <1>6, <1>10, <2>1 DEF WalkInv, WalkTypes
<1>11. Cardinality(Deleted) \in Nat
  BY MissedFinite, FS_CardinalityType
<1>12. CASE Len(page) < limit /\ walk' = "done" /\ UNCHANGED offset
  <2>1. Ahead = {}
    BY <1>1, <1>12, ShortPageIsLast
  <2>2. Cardinality(Unread) <= Cardinality(Deleted)
    <3>1. CASE at = 0
      <4>1. \A i \in Rows : ~(Place(i) >= offset)
        BY <1>2, <2>1, <3>1, AheadOfCursor
      <4>2. \A i \in Rows : Place(i) \in Nat
        BY <1>3, RankIsNat DEF Place
      <4>3. SkippedByOffset = Unread
        BY <1>7, <4>1, <4>2 DEF SkippedByOffset, Unread
      <4> QED BY <1>2, <3>1, <4>3 DEF CallInv, SkippedAreFew
    <3>2. CASE at # 0
      <4>1. \A i \in Rows : ~(at < i)
        BY <1>2, <2>1, <3>2, AheadOfCursor
      <4>2. \A i \in Rows : i <= at
        BY <1>3, <1>7, <4>1
      <4>3. SkippedByCursor = Unread
        BY <4>2 DEF SkippedByCursor, UpTo, Unread
      <4> QED BY <1>2, <3>2, <4>3 DEF CallInv, SkippedAreFew
    <3> QED BY <3>1, <3>2
  <2>3. Unread \in SUBSET Rows
    BY DEF Unread
  <2> DEFINE T == {table[i] : i \in Unread}
  <2>4. IsFiniteSet(T) /\ Cardinality(T) = Cardinality(Unread)
    BY <1>3, <2>3, ImageSize DEF WalkInv, RowsPlaced, Rows
  <2>5. Missed \in SUBSET T
    <3>1. \A r \in Missed : r \in start.there /\ r \in Range(table) /\ r \notin Taken
      BY <1>5, <1>1 DEF WalkInv, WalkTypes, Missed
    <3> QED BY <3>1 DEF Range, Unread, Rows
  <2> HIDE DEF T
  <2>6. Cardinality(Missed) <= Cardinality(T) /\ Cardinality(Missed) \in Nat
    BY <2>4, <2>5, FS_Subset, FS_CardinalityType
  <2>7. Cardinality(Unread) \in Nat
    BY <1>3, <2>3
  <2>8. MissedAreFew'
    BY <1>4, <1>6, <1>11, <2>2, <2>4, <2>6, <2>7 DEF MissedAreFew
  <2> QED BY <1>7, <1>8, <1>9, <1>10, <1>12, <2>8 DEF WalkInv
<1>13. CASE Len(page) = limit /\ offset' = offset + limit /\ UNCHANGED walk
  <2>1. offset' = offset + Len(page) /\ offset' \in Nat
    BY <1>7, <1>13
  <2>2. at # 0
    BY <1>2, <1>7, <1>13 DEF CallInv, CursorIsLast
  <2>3. \A i \in Rows : Place(i)' = Place(i)
    BY <1>4 DEF Place
  <2>4. CursorIsLast'
    BY <1>1, <1>2, <1>5, <1>7, <2>1, <2>2 DEF CallInv, CursorIsLast
  <2>5. TakenAreBehind'
    BY <1>1, <1>2, <1>4, <1>5, <1>6, <2>1, <2>3 DEF CallInv, TakenAreBehind
  <2>6. PassedAreRead'
    BY <1>1 DEF PassedAreRead
  <2> DEFINE N == {i \in Rows : at < i /\ Rank(Rows, i) < offset'}
             C == SkippedByCursor
             U == UpTo(at)
             S == SkippedByOffset'
  <2>7. /\ Cardinality(C) <= Cardinality(Deleted)
        /\ Cardinality(C) + offset' <= Cardinality(Deleted) + Cardinality(U)
    <3>1. Cardinality(C) \in Nat /\ Cardinality(U) \in Nat
      BY <1>3 DEF SkippedByCursor, UpTo
    <3>2. Cardinality(C) + offset + Len(page) <= Cardinality(Deleted) + Cardinality(U)
      BY <1>2, <2>2 DEF CallInv, SkippedAreFew
    <3>3. Cardinality(C) <= Cardinality(Deleted)
      BY <1>2, <2>2 DEF CallInv, SkippedAreFew
    <3> HIDE DEF C, U
    <3> QED BY <1>7, <1>11, <2>1, <3>1, <3>2, <3>3
  <2>8. S \subseteq C \cup N
    <3> SUFFICES ASSUME NEW i \in S, i \notin N PROVE i \in C
      OBVIOUS
    <3>1. i \in Unread /\ i \in Rows /\ Place(i) < offset'
      BY <1>6, <2>3 DEF SkippedByOffset, Unread
    <3>2. ~(at < i)
      BY <3>1 DEF Place
    <3>3. i <= at
      BY <1>3, <1>7, <3>1, <3>2
    <3> QED BY <3>1, <3>3 DEF SkippedByCursor, UpTo
  <2>9. C \in SUBSET Rows /\ N \in SUBSET Rows /\ S \in SUBSET Rows /\ U \in SUBSET Rows
    BY <1>4 DEF SkippedByCursor, SkippedByOffset, Unread, UpTo
  <2>10. N # {} => Cardinality(N) + Cardinality(U) <= offset'
    <3>1. N \in SUBSET {i \in Rows : at < i /\ Rank(Rows, i) < offset'}
      OBVIOUS
    <3>2. at \in Int /\ IsFiniteSet(Rows)
      BY <1>3, <1>7
    <3>3. U = {i \in Rows : i <= at}
      BY DEF UpTo
    <3> HIDE DEF N, U
    <3> QED BY <1>3, <2>1, <3>1, <3>2, <3>3, SkippedNext
  <2> HIDE DEF N, C, U, S
  <2>11. /\ Cardinality(S) \in Nat /\ Cardinality(C) \in Nat /\ Cardinality(N) \in Nat
         /\ Cardinality(U) \in Nat
         /\ IsFiniteSet(S) /\ IsFiniteSet(C) /\ IsFiniteSet(N)
    BY <1>3, <2>9
  <2>12. Cardinality(S) <= Cardinality(Deleted)
    <3>1. CASE N = {}
      <4>1. S \in SUBSET C
        BY <2>8, <3>1
      <4>2. Cardinality(S) <= Cardinality(C)
        BY <2>11, <4>1, FS_Subset
      <4> QED BY <1>11, <2>7, <2>11, <4>2
    <3>2. CASE N # {}
      <4>1. /\ IsFiniteSet(C \cup N)
            /\ Cardinality(C \cup N) = Cardinality(C) + Cardinality(N) - Cardinality(C \cap N)
        BY <2>11, FS_Union
      <4>2. Cardinality(S) <= Cardinality(C \cup N)
        BY <2>8, <4>1, FS_Subset
      <4>3. Cardinality(C \cap N) \in Nat
        BY <2>11, FS_Intersection, FS_CardinalityType
      <4>4. Cardinality(N) + Cardinality(U) <= offset'
        BY <2>10, <3>2
      <4> QED BY <1>11, <2>1, <2>7, <2>11, <4>1, <4>2, <4>3, <4>4
    <3> QED BY <3>1, <3>2
  <2>13. SkippedAreFew'
    BY <1>1, <1>4, <2>12 DEF SkippedAreFew, S
  <2> QED BY <1>1, <1>8, <1>9, <1>10, <1>13, <2>1, <2>4, <2>5, <2>6, <2>13 DEF WalkInv, CallInv
<1> QED BY <1>12, <1>13 DEF ReturnPage

(* Nothing is read, missed or deleted when a walk starts.                  *)
LEMMA NothingRead ==
  ASSUME read = <<>>, page = <<>>
  PROVE  Taken = {} /\ NoneTwice /\ Range(read \o page) = {}
<1>1. read \o page = <<>> /\ Range(<<>>) = {}
  BY DEF Range
<1> QED BY <1>1 DEF Taken, NoneTwice

(* A walk that starts has read nothing.                                    *)
LEMMA StartWalks ==
  ASSUME WalkInv, StartWalk, UNCHANGED tableVars
  PROVE  WalkInv'
<1>1. /\ walk' = "called" /\ limit' \in Limits /\ offset' = 0 /\ at' = 0
      /\ page' = <<>> /\ read' = <<>>
      /\ start'.there = Range(table) /\ start'.gone = gone
      /\ UNCHANGED <<table, inserted, gone>>
  BY DEF StartWalk, tableVars
<1>2. Taken' = {} /\ NoneTwice'
  <2>1. read' \o page' = <<>> /\ Range(<<>>) = {}
    BY <1>1 DEF Range
  <2> QED BY <1>1, <2>1 DEF Taken, NoneTwice
<1>3. Rows' = Rows /\ Deleted' = {} /\ IsFiniteSet({}) /\ Cardinality({}) = 0
  BY <1>1, FS_EmptySet DEF Rows, Deleted
<1>4. WalkTypes'
  BY <1>1, <1>2 DEF WalkTypes
<1>5. SkippedByOffset' = {}
  <2>1. \A i \in Rows : Place(i)' \in Nat
    BY <1>3, RowsFinite, RankIsNat DEF WalkInv, Place
  <2>2. \A i \in Rows : ~(Place(i)' < 0)
    BY <2>1
  <2> QED BY <1>1, <1>3, <2>2 DEF SkippedByOffset, Unread
<1>6. CallInv'
  <2>1. CursorIsLast'
    BY <1>1 DEF WalkInv, RowsNumbered, CursorIsLast
  <2>2. TakenAreBehind' /\ PassedAreRead'
    BY <1>1, <1>2 DEF TakenAreBehind, PassedAreRead
  <2>3. SkippedAreFew'
    BY <1>1, <1>3, <1>5 DEF SkippedAreFew
  <2> QED BY <2>1, <2>2, <2>3 DEF CallInv
<1>7. RowsNumbered' /\ GoneForGood' /\ RowsPlaced'
  BY <1>1, <1>3 DEF WalkInv, RowsNumbered, GoneForGood, RowsPlaced
<1> QED BY <1>1, <1>2, <1>4, <1>6, <1>7 DEF WalkInv

(* A call that fails leaves what was read.                                 *)
LEMMA FailedWalks ==
  ASSUME WalkInv, QueryFails \/ UNCHANGED walkVars, UNCHANGED tableVars
  PROVE  WalkInv'
<1>1. /\ UNCHANGED <<limit, offset, at, page, read, start, table, inserted, gone>>
      /\ walk' = "failed" \/ walk' = walk
  BY DEF QueryFails, walkVars, tableVars
<1> USE <1>1 DEF Rows, Deleted, Kept, Place, UpTo, Taken, Unread, SkippedByOffset,
     SkippedByCursor, Missed
<1>2. RowsNumbered' /\ GoneForGood' /\ RowsPlaced' /\ WalkTypes' /\ NoneTwice'
  BY DEF WalkInv, RowsNumbered, GoneForGood, RowsPlaced, WalkTypes, NoneTwice
<1>3. CallInv' = CallInv
  BY DEF CallInv, CursorIsLast, TakenAreBehind, PassedAreRead, SkippedAreFew
<1>4. MissedAreFew' = MissedAreFew
  BY DEF MissedAreFew
<1> QED BY <1>2, <1>3, <1>4 DEF WalkInv

(* Before the first walk there is nothing to read.                         *)
LEMMA WalkBegins == ReadersInit => WalkInv
<1> SUFFICES ASSUME ReadersInit PROVE WalkInv
  OBVIOUS
<1>1. RowsNumbered /\ GoneForGood
  BY InitTable DEF ReadersInit
<1>2. /\ walk = "done" /\ limit \in Limits /\ offset = 0 /\ at = 0
      /\ page = <<>> /\ read = <<>> /\ start.there = {} /\ start.gone = {}
      /\ table = <<>> /\ inserted = 0 /\ gone = {}
  BY DEF ReadersInit, WalkInit, TableInit
<1>3. Taken = {} /\ NoneTwice
  BY <1>2, NothingRead
<1>4. Rows = {} /\ Deleted = {} /\ Missed = {}
  BY <1>2 DEF Rows, Deleted, Missed
<1>5. RowsPlaced
  BY <1>2, <1>4, FS_EmptySet, PagesAssumption DEF RowsPlaced
<1>6. WalkTypes
  BY <1>2, <1>3 DEF WalkTypes
<1>7. MissedAreFew
  BY <1>4, FS_EmptySet DEF MissedAreFew
<1> QED BY <1>1, <1>2, <1>3, <1>5, <1>6, <1>7 DEF WalkInv

(* Every step of the readers and of the loader keeps the invariant.        *)
LEMMA WalkStep == WalkInv /\ [ReadersNext]_readersVars => WalkInv'
<1> SUFFICES ASSUME WalkInv, [ReadersNext]_readersVars PROVE WalkInv'
  OBVIOUS
<1>1. CASE WalkNext /\ UNCHANGED tableVars
  BY <1>1, StartWalks, FetchWalks, ReturnWalks, FailedWalks DEF WalkNext
<1>2. CASE Load /\ UNCHANGED walkVars
  BY <1>2, InsertWalks, DeleteWalks DEF Load
<1>3. CASE UNCHANGED <<tableVars, walkVars>>
  BY <1>3, FailedWalks
<1> QED BY <1>1, <1>2, <1>3 DEF ReadersNext, Read, readersVars

(* The invariant holds for every walk while the loader writes.             *)
LEMMA WalkInvariant == ReadersSpec => []WalkInv
BY WalkBegins, WalkStep, PTL DEF ReadersSpec

(* However rows come and go during a walk, whatever the page size: a row   *)
(* that was there when it started is read once at most, any row is while   *)
(* none is deleted, and it misses no more rows than were deleted           *)
(* (get_all_entries).                                                      *)
THEOREM WalksReadOnce == ReadersSpec => []WalkReadsOnce
<1>1. WalkInv => WalkReadsOnce
  BY DEF WalkInv, NoneTwice, MissedAreFew, Missed, Kept, Deleted, WalkReadsOnce
<1> QED BY WalkInvariant, <1>1, PTL
=============================================================================
