----------------------------- MODULE MCLifecycle -----------------------------
(***************************************************************************)
(* Two connections, and everything that can break and be repaired.         *)
(***************************************************************************)
EXTENDS Lifecycle

CONSTANTS c1, c2
=============================================================================
