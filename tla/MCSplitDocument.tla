-------------------------- MODULE MCSplitDocument --------------------------
(***************************************************************************)
(* Every body of up to five bytes, with a check of three bytes.            *)
(***************************************************************************)
EXTENDS SplitDocument

MCBodies == BoundedSeq(Byte, 5)
=============================================================================
