---------------------------- MODULE MCExtractor ----------------------------
(***************************************************************************)
(* The extractor on its own, with two pages of any size, announced or not. *)
(***************************************************************************)
EXTENDS Extractor, MCExchanges

CONSTANTS d1, d2

Html(body) == Page("included", "browser", "gzip", "html", body)

MCTraffic ==
  [Docs -> {Html(Sized(n)) : n \in 0..3} \cup {Html(Chunked(n)) : n \in 0..3}]
=============================================================================
