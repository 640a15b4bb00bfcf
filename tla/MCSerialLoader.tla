--------------------------- MODULE MCSerialLoader ---------------------------
(***************************************************************************)
(* Three captures of page p, cut into two, one and no chunk, and one of q. *)
(***************************************************************************)
EXTENDS SerialLoader, TLC

CONSTANTS d1, d2, d3, d4, p, q

MCUrlOf == d1 :> p @@ d2 :> p @@ d3 :> p @@ d4 :> q
MCNumChunks == d1 :> 2 @@ d2 :> 1 @@ d3 :> 0 @@ d4 :> 1
=============================================================================
