-------------------------- MODULE MCWebSocketRelay --------------------------
(***************************************************************************)
(* Two peers that send three frames each over connections of one frame, so *)
(* that frames wait at every place of the relay at once.                   *)
(***************************************************************************)
EXTENDS WebSocketRelay
=============================================================================
