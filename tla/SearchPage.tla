----------------------------- MODULE SearchPage -----------------------------
(***************************************************************************)
(* A search from the form of the page (the script of src/web.rs) through   *)
(* handle_request and VectorStore::search to the statement of              *)
(* LibSqlProvider::search and back to the cards.                           *)
(***************************************************************************)
EXTENDS RowTable, SequencesExt

CONSTANT TopK   (* results a search asks for                               *)

ASSUME TopKAssumption == TopK \in Nat

VARIABLES
  searches,    (* searches on their way: [state, answer]                    *)
  cards,       (* rows the result cards name, first to last                 *)
  bodies,      (* the row whose text each card shows                        *)
  expanded,    (* cards that show the whole text                            *)
  texts,       (* window.resultTexts                                        *)
  error,       (* an error message is shown                                 *)
  busy,        (* the button is disabled and the spinner is shown           *)
  goneBefore   (* history: rows gone when the last search was submitted     *)

pageVars == <<searches, cards, bodies, expanded, texts, error, busy, goneBefore>>

PageInit ==
  /\ searches = {}
  /\ cards = <<>> /\ bodies = <<>> /\ expanded = {} /\ texts = <<>>
  /\ error = FALSE /\ busy = FALSE
  /\ goneBefore = {}

-----------------------------------------------------------------------------
(* Variants marked "bug" are faulty forms of the definition below them: they *)
(* show that a property can fail, and no action uses them.                 *)

(* bug: the button stays enabled.                                          *)
SubmitAgain ==
  /\ cards' = <<>> /\ bodies' = <<>> /\ expanded' = {}
  /\ error' = FALSE /\ busy' = TRUE
  /\ searches' = searches \cup {[state |-> "asked", answer |-> <<>>]}
  /\ goneBefore' = gone
  /\ UNCHANGED texts

(* A disabled button also keeps the Enter key from submitting the form; an *)
(* empty query asks nothing.                                               *)
Submit ==
  /\ ~busy
  /\ cards' = <<>> /\ bodies' = <<>> /\ expanded' = {}
  /\ error' = FALSE /\ busy' = TRUE
  /\ searches' = searches \cup {[state |-> "asked", answer |-> <<>>]}
  /\ goneBefore' = gone
  /\ UNCHANGED texts

(* vector_top_k is approximate, and its order is that of the scores: any   *)
(* rows of the table, each once, in any order.                             *)
Answers == {s \in SeqOf(Range(table), TopK) : IsInjective(s)}

(* The statement runs at one moment, and its rows are the response.        *)
Search(q) ==
  /\ q.state = "asked"
  /\ \E rows \in Answers :
        searches' = (searches \ {q}) \cup {[state |-> "answered", answer |-> rows]}
  /\ UNCHANGED <<cards, bodies, expanded, texts, error, busy, goneBefore>>

(* The embedding or the statement failed, the connection broke, or the     *)
(* response is not what was asked for.                                     *)
SearchFails(q) ==
  /\ q.state # "failed"
  /\ searches' = (searches \ {q}) \cup {[state |-> "failed", answer |-> <<>>]}
  /\ UNCHANGED <<cards, bodies, expanded, texts, error, busy, goneBefore>>

Settled(q) == searches' = searches \ {q} /\ busy' = FALSE

(* bug: the texts of a search are put behind those of the last one.         *)
DisplayBehind(q) ==
  /\ q.state = "answered"
  /\ cards' = q.answer /\ bodies' = q.answer /\ expanded' = {}
  /\ texts' = texts \o q.answer
  /\ Settled(q)
  /\ UNCHANGED <<error, goneBefore>>

(* displayResults: no results leave the texts of an earlier search there.  *)
Display(q) ==
  /\ q.state = "answered"
  /\ cards' = q.answer /\ bodies' = q.answer /\ expanded' = {}
  /\ texts' = IF q.answer = <<>> THEN texts ELSE q.answer
  /\ Settled(q)
  /\ UNCHANGED <<error, goneBefore>>

(* The making of a card throws, when marked was not loaded or cannot parse *)
(* the text: some texts are replaced, and no card is.                      *)
DisplayThrows(q) ==
  /\ q.state = "answered"
  /\ \E i \in 1..Len(q.answer) : texts' = SubSeq(q.answer, 1, i)
  /\ error' = TRUE
  /\ Settled(q)
  /\ UNCHANGED <<cards, bodies, expanded, goneBefore>>

(* bug: the button is enabled at the end of try.                           *)
ShowErrorOnly(q) ==
  /\ q.state = "failed"
  /\ error' = TRUE
  /\ searches' = searches \ {q}
  /\ UNCHANGED <<cards, bodies, expanded, texts, busy, goneBefore>>

ShowError(q) ==
  /\ q.state = "failed"
  /\ error' = TRUE
  /\ Settled(q)
  /\ UNCHANGED <<cards, bodies, expanded, texts, goneBefore>>

(* toggleExpand: the text comes from window.resultTexts.                   *)
Toggle(i) ==
  /\ i \in DOMAIN cards \cap DOMAIN texts
  /\ bodies' = [bodies EXCEPT ![i] = texts[i]]
  /\ expanded' = (expanded \cup {i}) \ (expanded \cap {i})
  /\ UNCHANGED <<searches, cards, texts, error, busy, goneBefore>>

(* The page is loaded again and its searches are forgotten.                *)
Reload ==
  /\ searches' = {}
  /\ cards' = <<>> /\ bodies' = <<>> /\ expanded' = {} /\ texts' = <<>>
  /\ error' = FALSE /\ busy' = FALSE
  /\ UNCHANGED goneBefore

Settle(q) ==
  Search(q) \/ SearchFails(q) \/ Display(q) \/ DisplayThrows(q) \/ ShowError(q)

PageNext ==
  \/ Submit
  \/ \E q \in searches : Settle(q)
  \/ \E i \in 1..TopK : Toggle(i)
  \/ Reload

-----------------------------------------------------------------------------
(* No card shows a row that was deleted before the search was submitted: an *)
(* answer is never older than its question (the submit handler).           *)
NoGhosts == Range(cards) \cap goneBefore = {}

(* However searches end and cards are opened and closed, each card shows   *)
(* the text of the row it names (displayResults, toggleExpand).            *)
CardsShowOwnText == bodies = cards

(* A search ends with results or an error, and the form can be used again. *)
SearchSettles == busy ~> ~busy
=============================================================================
