----------------------------- MODULE MCReaders -----------------------------
(***************************************************************************)
(* Two urls, five rows in all for a walk and four for the page, integers   *)
(* of four bits.                                                           *)
(***************************************************************************)
EXTENDS Readers

CONSTANTS p, q
=============================================================================
