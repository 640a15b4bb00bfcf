---------------------------- MODULE MCExchanges ----------------------------
(***************************************************************************)
(* Exchanges for the extractor's instances, with sizes in units: a body of *)
(* 1 unit is at the minimum, one of 2 beyond it, one of 3 beyond the       *)
(* maximum of 2.                                                           *)
(***************************************************************************)
EXTENDS Naturals

Chunked(n) == [hint |-> [known |-> FALSE, upper |-> 0], size |-> n]
Sized(n) == [hint |-> [known |-> TRUE, upper |-> n], size |-> n]

Page(target, agent, encoding, type, body) ==
  [kind |-> "request", target |-> target, agent |-> agent, encoding |-> encoding, type |-> type,
   hint |-> body.hint, size |-> body.size]

Ask(kind, target) ==
  [Page(target, "browser", "missing", "missing", Sized(0)) EXCEPT !.kind = kind]
=============================================================================
