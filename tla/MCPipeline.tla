----------------------------- MODULE MCPipeline -----------------------------
(***************************************************************************)
(* Three requests: two of page p, a chunk each, and one of page q, of none. *)
(***************************************************************************)
EXTENDS Pipeline, MCExchanges, TLC

CONSTANTS d1, d2, d3, p, q

MCUrlOf == d1 :> p @@ d2 :> p @@ d3 :> q
MCNumChunks == d1 :> 1 @@ d2 :> 1 @@ d3 :> 0

Indexed == Page("included", "browser", "gzip", "html", Sized(2))

(* Whatever a request can be or meet, one thing at a time: every encoding, *)
(* agent, type and target, every size with and without a length, and the   *)
(* upgrades.                                                               *)
AnyExchange ==
  {Page("included", "browser", encoding, "html", Sized(2)) :
     encoding \in {"gzip", "br", "deflate", "zstd", "identity", "other", "unreadable", "missing"}}
  \cup {Page(target, "browser", "gzip", "html", Sized(2)) : target \in {"excluded", "missing"}}
  \cup {Page("included", agent, "gzip", "html", Sized(2)) : agent \in {"other", "unreadable", "missing"}}
  \cup {Page("included", "browser", "gzip", type, Sized(2)) : type \in {"other", "unreadable", "missing"}}
  \cup {Page("included", "browser", "gzip", "html", body) :
          body \in {Sized(n) : n \in 0..3} \cup {Chunked(n) : n \in 0..3}}
  \cup {Ask(kind, target) : kind \in {"connect", "websocket"}, target \in {"included", "missing"}}

(* Three pages to be indexed, or one beside a request of any kind and one  *)
(* that names no host.                                                     *)
MCTraffic ==
  {[d \in Docs |-> Indexed]}
  \cup {d1 :> x @@ d2 :> Indexed @@ d3 :> Ask("request", "missing") : x \in AnyExchange}
=============================================================================
