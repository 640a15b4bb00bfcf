------------------------------ MODULE Pipeline ------------------------------
(***************************************************************************)
(* run_with_semantic_store (src/lib.rs) from a request to the rows of its  *)
(* page: the proxy's handlers of Extractor and the loader of HtmlLoader on *)
(* one channel.  A handler's send is the loader's Send, the receive loop   *)
(* is the extractor's Take, and the process's steps stop both.             *)
(***************************************************************************)
EXTENDS HtmlLoader

CONSTANTS Traffic, BrowserOnly, MinBody, MaxBody

VARIABLES request, exchange

pipelineVars == <<vars, request, exchange>>

(* The receiver lives in the loader's future, inside select!.              *)
receiver ==
  CASE process = "up" -> "open"
    [] process = "leaving" -> "dropped"
    [] process = "down" -> "none"

Proxy == INSTANCE Extractor

ASSUME PipelineAssumption == Proxy!ExtractorAssumption

PipelineInit == Init /\ Proxy!Init

(* decompress_body and split_document: what a body can be decoded from.    *)
DecodedEncodings == {"gzip", "br", "deflate", "zstd", "identity", "missing", "unreadable"}

SplitDecoded(d) ==
  /\ SplitBody(d)
  /\ exchange[d].encoding \notin DecodedEncodings => phase'[d] = "rejected"
  /\ UNCHANGED <<request, exchange>>

Handle(d) ==
  /\ UNCHANGED vars
  /\ \/ Proxy!Forward(d) \/ Proxy!Upgrade(d) \/ Proxy!Respond(d)
     \/ Proxy!ServerFails(d) \/ Proxy!ClientLeaves(d) \/ Proxy!Collect(d) \/ Proxy!Deliver(d)

Refuse(d) == UNCHANGED vars /\ Proxy!SendFails(d)

Capture(d) == Send(d) /\ Proxy!Send(d)

Load(d) ==
  /\ DeleteOld(d) \/ DeleteFails(d) \/ AddChunk(d) \/ AddFails(d)
  /\ UNCHANGED <<request, exchange>>

PipelineNext ==
  \/ \E d \in Docs : Handle(d) \/ Capture(d) \/ Refuse(d) \/ SplitDecoded(d) \/ Load(d)
  \/ Receive /\ Proxy!Take
  \/ Leave /\ Proxy!DropReceiver
  \/ Exit /\ Proxy!Stop
  \/ Restart /\ Proxy!Start

PipelineFairness ==
  /\ \A d \in Docs : WF_pipelineVars(SplitDecoded(d) \/ Load(d))
  /\ \A d \in Docs : SF_pipelineVars(Capture(d) \/ Refuse(d))
  /\ WF_pipelineVars(Receive /\ Proxy!Take)

PipelineSpec == PipelineInit /\ [][PipelineNext]_pipelineVars /\ PipelineFairness

-----------------------------------------------------------------------------
Wanted(x) ==
  /\ x.kind = "request"
  /\ x.target = "included"
  /\ Proxy!FilterResponse(x)
  /\ x.size > MinBody

(* A page is captured if the proxy returned a response for it that the     *)
(* index wants, and only then: whatever wanted page a client has received   *)
(* is captured, and a request that failed or was dropped leaves nothing    *)
(* behind.  What is captured may still be cut before its client has all of *)
(* it (handle_response sends the page first, and hyper writes afterwards). *)
CapturedIffAnswered ==
  \A d \in Docs :
    phase[d] # "unsent" <=> request[d] \in Proxy!Returned /\ Wanted(exchange[d])

(* Every encoding the extractor lets through is one the loader decodes:     *)
(* SUPPORTED_ENCODINGS of extractor.rs against decompress_body of          *)
(* loader.rs, two lists kept apart.                                        *)
CapturedAreDecodable ==
  \A d \in Docs : phase[d] # "unsent" => exchange[d].encoding \in DecodedEncodings

(* A response held back by the channel becomes a page the loader has        *)
(* finished with, unless its connection ended without it.                  *)
HeldPagesEnd ==
  \A d \in Docs :
    request[d] = "sending" ~> phase[d] \in Ended \/ request[d] \in {"failed", "dropped"}
=============================================================================
