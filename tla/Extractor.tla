------------------------------ MODULE Extractor ------------------------------
(***************************************************************************)
(* The path of a request through proxy_service_impl (src/proxy/http.rs)    *)
(* and HttpBodyExtractor (src/extractor.rs): upgrades, exclusion of the    *)
(* host, the request to the server, filter_response, the collection of the *)
(* body, and the send into the bounded channel, which holds the client's   *)
(* response back while the channel is full.  The receiving end stands for  *)
(* the loader.                                                             *)
(***************************************************************************)
EXTENDS Naturals, Sequences, Functions

CONSTANTS
  Docs,          (* requests; a captured response is the document of its request *)
  Traffic,       (* what the requests can be and meet together, see Exchange     *)
  BrowserOnly,   (* config.browser_only                                          *)
  MinBody,       (* min_body_size, 50                                            *)
  MaxBody,       (* max_body_size, 10 MiB                                        *)
  Capacity

SupportedEncodings == {"gzip", "br", "deflate", "zstd", "identity"}

(* kind:     a WebSocket upgrade, a CONNECT, or any other request          *)
(* target:   the authority of the request uri, after recover_uri_authority  *)
(* agent:    the User-Agent header of the request                          *)
(* encoding: the Content-Encoding header, lower-cased                      *)
(* type:     the Content-Type header                                       *)
(* hint:     the upper bound of the body's size: its Content-Length, none  *)
(*           for a chunked body                                            *)
(* size:     the length of the body when it ends                           *)
Exchange ==
  [kind : {"request", "connect", "websocket"},
   target : {"excluded", "included", "missing"},
   agent : {"browser", "other", "unreadable", "missing"},
   encoding : SupportedEncodings \cup {"other", "unreadable", "missing"},
   type : {"html", "other", "unreadable", "missing"},
   hint : [known : BOOLEAN, upper : Nat],
   size : Nat]

(* What is assumed of the constants where they get their values.  A body of *)
(* known length ends at that length or with an error.                      *)
ExtractorAssumption ==
  /\ Traffic \subseteq [Docs -> Exchange]
  /\ \A t \in Traffic, d \in Docs : t[d].hint.known => t[d].size = t[d].hint.upper
  /\ BrowserOnly \in BOOLEAN
  /\ MinBody \in Nat /\ MaxBody \in Nat
  /\ Capacity \in Nat \ {0}

VARIABLES
  request,     (* where each request is                                     *)
  exchange,    (* what it meets                                             *)
  channel,     (* captured documents sent and not yet received              *)
  receiver     (* the channel's receiver: open, dropped when the select! of *)
               (* lib.rs has returned, none when the process is down        *)

vars == <<request, exchange, channel, receiver>>

(* new:        not read from the client yet                                *)
(* forwarded:  client.request is waiting for the server's response         *)
(* collecting: handle_response is collecting the body                      *)
(* sending:    handle_response is waiting for a slot of the channel        *)
(* answered:   the service returned a response, which hyper is writing     *)
(* received:   the client has it                                           *)
(* cut:        the connection ended before the client had all of it        *)
(* failed:     the service returned an error, the connection is closed     *)
(* dropped:    the service's future was dropped: client or process gone    *)
Waiting == {"forwarded", "collecting", "sending"}
Returned == {"answered", "received", "cut"}
Ends == {"received", "cut", "failed", "dropped"}
Places == {"new", "answered"} \cup Waiting \cup Ends

Init ==
  /\ request = [d \in Docs |-> "new"]
  /\ exchange \in Traffic
  /\ channel = <<>>
  /\ receiver = "open"

Moves(d, from, to) ==
  /\ request[d] = from
  /\ request' = [request EXCEPT ![d] = to]

-----------------------------------------------------------------------------
(* extractor.rs                                                             *)

AgentPasses(x) == BrowserOnly => x.agent = "browser"

(* Variants marked "bug" are faulty forms of the definition below them: they *)
(* show that a property can fail, and no action uses them.                 *)

(* bug: the list of encodings is not consulted.                             *)
EncodingPassesAny(x) == TRUE

(* An unreadable header counts as none.                                    *)
EncodingPasses(x) == x.encoding \in SupportedEncodings \cup {"unreadable", "missing"}

SizePasses(x) == x.hint.known => x.hint.upper <= MaxBody /\ x.hint.upper >= MinBody

FilterResponse(x) ==
  /\ AgentPasses(x)
  /\ EncodingPasses(x)
  /\ x.type = "html"
  /\ SizePasses(x)

(* The body is collected, and is long enough to be sent or not.             *)
Collect(d) ==
  /\ Moves(d, "collecting", IF exchange[d].size > MinBody THEN "sending" ELSE "answered")
  /\ UNCHANGED <<exchange, channel, receiver>>

(* The page is in the channel, and the response goes back to hyper; its    *)
(* client has none of it yet.                                              *)
Send(d) ==
  /\ Moves(d, "sending", "answered")
  /\ receiver = "open"
  /\ Len(channel) < Capacity
  /\ channel' = Append(channel, d)
  /\ UNCHANGED <<exchange, receiver>>

(* bug: a send that fails is tried again.                                   *)
SendFailsRetried(d) ==
  /\ Moves(d, "sending", "sending")
  /\ receiver = "dropped"
  /\ UNCHANGED <<exchange, channel, receiver>>

(* tx.send fails once the receiver is dropped: the client gets no response. *)
SendFails(d) ==
  /\ Moves(d, "sending", "failed")
  /\ receiver = "dropped"
  /\ UNCHANGED <<exchange, channel, receiver>>

-----------------------------------------------------------------------------
(* proxy/http.rs                                                            *)

(* A request without an authority is not excluded, but client.request fails. *)
Excluded(x) == x.target = "excluded"

Forward(d) ==
  /\ receiver # "none"
  /\ exchange[d].kind = "request"
  /\ Moves(d, "new", IF exchange[d].target = "missing" THEN "failed" ELSE "forwarded")
  /\ UNCHANGED <<exchange, channel, receiver>>

(* A WebSocket upgrade needs a Host header and a key, and is answered before *)
(* its server is asked, wherever it goes; a CONNECT is answered at once: a *)
(* tunnel, or status 400 when it names no host.                            *)
Upgrade(d) ==
  /\ receiver # "none"
  /\ \/ exchange[d].kind = "connect" /\ Moves(d, "new", "answered")
     \/ /\ exchange[d].kind = "websocket"
        /\ \/ exchange[d].target # "missing" /\ Moves(d, "new", "answered")
           \/ Moves(d, "new", "failed")
  /\ UNCHANGED <<exchange, channel, receiver>>

(* bug: the filter is asked before the exclusion, which then comes too late. *)
RespondFiltered(d) ==
  /\ Moves(d, "forwarded",
           IF FilterResponse(exchange[d]) THEN "collecting" ELSE "answered")
  /\ UNCHANGED <<exchange, channel, receiver>>

(* The head of the response arrives: passed through, or handled.           *)
Respond(d) ==
  /\ Moves(d, "forwarded",
           IF ~Excluded(exchange[d]) /\ FilterResponse(exchange[d])
             THEN "collecting"
             ELSE "answered")
  /\ UNCHANGED <<exchange, channel, receiver>>

PassedThrough(x) == x.kind = "request" /\ (Excluded(x) \/ ~FilterResponse(x))

(* The server fails before its response, in the middle of a body that is   *)
(* collected, or in the middle of one that is passed on as it comes.       *)
ServerFails(d) ==
  /\ \/ Moves(d, "forwarded", "failed")
     \/ Moves(d, "collecting", "failed")
     \/ PassedThrough(exchange[d]) /\ Moves(d, "answered", "cut")
  /\ UNCHANGED <<exchange, channel, receiver>>

(* hyper has written the response, to a client that reads it.               *)
Deliver(d) ==
  /\ Moves(d, "answered", "received")
  /\ UNCHANGED <<exchange, channel, receiver>>

(* Where a request is once its connection is closed: the service's future   *)
(* is dropped, or what is left of its response.                            *)
Closed(place) ==
  CASE place \in Waiting -> "dropped"
    [] place = "answered" -> "cut"
    [] OTHER -> place

(* The client closes its connection before it has its response.             *)
ClientLeaves(d) ==
  /\ request[d] \in Waiting \cup {"answered"}
  /\ request' = [request EXCEPT ![d] = Closed(@)]
  /\ UNCHANGED <<exchange, channel, receiver>>

-----------------------------------------------------------------------------
(* The rest of the process, as far as it touches the channel.               *)

Take ==
  /\ receiver = "open"
  /\ channel # <<>>
  /\ channel' = Tail(channel)
  /\ UNCHANGED <<request, exchange, receiver>>

DropReceiver ==
  /\ receiver = "open"
  /\ receiver' = "dropped"
  /\ channel' = <<>>
  /\ UNCHANGED <<request, exchange>>

(* The process ends, with every connection.                                *)
Stop ==
  /\ receiver # "none"
  /\ receiver' = "none"
  /\ channel' = <<>>
  /\ request' = [d \in Docs |-> Closed(request[d])]
  /\ UNCHANGED exchange

Start ==
  /\ receiver = "none"
  /\ receiver' = "open"
  /\ UNCHANGED <<request, exchange, channel>>

Next ==
  \/ \E d \in Docs :
        \/ Forward(d) \/ Upgrade(d) \/ Respond(d) \/ ServerFails(d) \/ ClientLeaves(d)
        \/ Collect(d) \/ Send(d) \/ SendFails(d) \/ Deliver(d)
  \/ Take
  \/ DropReceiver
  \/ Stop
  \/ Start

(* The loader keeps receiving, and a task that waits for a slot gets one   *)
(* when slots become free again and again (tokio hands them out in the     *)
(* order of the requests).  Nothing is assumed of servers and clients.     *)
Fairness ==
  /\ \A d \in Docs : SF_vars(Send(d) \/ SendFails(d))
  /\ WF_vars(Take)

Spec == Init /\ [][Next]_vars /\ Fairness

-----------------------------------------------------------------------------
(* Every variable has its type.                                            *)
TypeOK ==
  /\ request \in [Docs -> Places]
  /\ exchange \in Traffic
  /\ channel \in Seq(Docs)
  /\ Len(channel) <= Capacity
  /\ receiver \in {"open", "dropped", "none"}

-----------------------------------------------------------------------------
(* What a comment promises, and a body of no announced length refutes.      *)

(* extractor.rs:83, "Make sure the body is not too large": no page in the  *)
(* channel is larger than the maximum.                                     *)
BodiesNotTooLarge ==
  \A i \in 1..Len(channel) : exchange[channel[i]].size <= MaxBody
=============================================================================
