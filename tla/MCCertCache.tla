----------------------------- MODULE MCCertCache -----------------------------
(***************************************************************************)
(* Two connections that may race for the certificates of two authorities,  *)
(* in a time in which entries expire and certificates may.  The wall clock *)
(* is a unit behind the monotonic one or ahead, so that it moves against   *)
(* it by two in the life of a certificate: back by more than Offset, and   *)
(* ahead by all that the cache leaves for it (Ttl \div 2 less the offset    *)
(* and the pause).                                                         *)
(***************************************************************************)
EXTENDS CertCache, TLC

CONSTANTS c1, c2, a1, a2

Symmetry == Permutations(Connections) \cup Permutations(Authorities)
=============================================================================
