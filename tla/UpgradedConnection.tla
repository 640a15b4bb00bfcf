------------------------- MODULE UpgradedConnection -------------------------
(***************************************************************************)
(* serve_upgraded of src/proxy/http.rs: what becomes of a connection after *)
(* CONNECT.  An excluded host gets a blind tunnel.  Otherwise one read of  *)
(* up to four bytes decides between plain HTTP, TLS and giving up, and the *)
(* bytes read are put back through Rewind for the server that takes over.  *)
(***************************************************************************)
EXTENDS Rewind

CONSTANT
  Streams      (* what clients may send, sequences of Byte                  *)

ASSUME StreamsAssumption == Streams \subseteq Seq(Byte)

VARIABLES
  stream,      (* what this client is going to send                         *)
  excluded,    (* should_exclude_host(authority)                            *)
  stage,       (* what serve_upgraded is doing                              *)
  stalled      (* whoever serves it waits for its target or its handler     *)

vars == <<rewindVars, stream, excluded, stage, stalled>>

SniffLen == 4
Get == <<"G", "E", "T", " ">>
TlsRecord == <<"0x16", "0x03">>

StartsWith(s, prefix) ==
  Len(prefix) <= Len(s) /\ SubSeq(s, 1, Len(prefix)) = prefix

Init ==
  /\ RewindInit
  /\ stream \in Streams
  /\ excluded \in BOOLEAN
  /\ stage = "upgraded"
  /\ stalled = FALSE

Serving == stage \in {"http", "tls", "tunnel"}

(* The client sends the bytes of its stream, and then may close.            *)
ClientWrites ==
  /\ Len(sent) < Len(stream)
  /\ Write(stream[Len(sent) + 1])
  /\ UNCHANGED <<stream, excluded, stage, stalled>>

ClientCloses ==
  /\ Close
  /\ UNCHANGED <<stream, excluded, stage, stalled>>

(* serve_passthrough, once its connection to the authority is there.        *)
Passthrough ==
  /\ stage = "upgraded"
  /\ excluded
  /\ stage' \in {"tunnel", "failed"}
  /\ UNCHANGED <<rewindVars, stream, excluded, stalled>>

(* bug: only the first byte of a TLS record is compared.                    *)
SelectedByFirst(bytes) ==
  CASE bytes = Get -> "http"
    [] StartsWith(bytes, <<"0x16">>) -> "tls"
    [] OTHER -> "failed"

(* bug: bytes that may become "GET " make the proxy read once more.         *)
SelectedOrAgain(bytes) ==
  CASE bytes = Get -> "http"
    [] StartsWith(bytes, TlsRecord) -> "tls"
    [] Len(bytes) \in 1..3 /\ StartsWith(Get, bytes) -> "upgraded"
    [] OTHER -> "failed"

(* bug: the minor version of the record is compared too.                   *)
SelectedByVersion(bytes) ==
  CASE bytes = Get -> "http"
    [] StartsWith(bytes, TlsRecord \o <<"0x01">>) -> "tls"
    [] OTHER -> "failed"

(* Which server a first read of these bytes selects: the buffer is zero    *)
(* behind them.                                                            *)
Selected(bytes) ==
  CASE bytes = Get -> "http"
    [] StartsWith(bytes, TlsRecord) -> "tls"
    [] OTHER -> "failed"

(* One read, which returns at least a byte and at most what has arrived,   *)
(* or none at the end of the stream.                                       *)
Sniff ==
  /\ stage = "upgraded"
  /\ ~excluded
  /\ \E n \in 0..Smaller(Len(inner), SniffLen) :
       /\ n = 0 => inner = <<>> /\ closed
       /\ pre' = SubSeq(inner, 1, n)
       /\ inner' = Drop(inner, n)
       /\ stage' = Selected(SubSeq(inner, 1, n))
  /\ UNCHANGED <<sent, received, closed, eof, stream, excluded, stalled>>

(* The server, the TLS acceptor or the tunnel reads on ...                  *)
Serve ==
  /\ Serving
  /\ ~stalled
  /\ \E remaining \in 0..MaxRead : PollRead(remaining)
  /\ UNCHANGED <<stream, excluded, stage, stalled>>

(* ... unless it has to wait: copy_bidirectional for a target that takes no *)
(* bytes, hyper for the handler of a request or for a client that does not *)
(* read its response.  Nothing bounds the wait.                            *)
Stall ==
  /\ Serving
  /\ ~stalled
  /\ stalled' = TRUE
  /\ UNCHANGED <<rewindVars, stream, excluded, stage>>

Resume ==
  /\ Serving
  /\ stalled
  /\ stalled' = FALSE
  /\ UNCHANGED <<rewindVars, stream, excluded, stage>>

(* The connection breaks at a read, or its server gives it up: an error of  *)
(* the TLS handshake, of the certificate or of the protocol.               *)
Break ==
  /\ \/ stage = "upgraded" /\ ~excluded /\ stage' = "failed"
     \/ Serving /\ stage' = "ended"
  /\ UNCHANGED <<rewindVars, stream, excluded, stalled>>

Next ==
  \/ ClientWrites \/ ClientCloses
  \/ Passthrough \/ Sniff \/ Serve \/ Stall \/ Resume \/ Break

(* The task is polled, and whoever serves the connection reads on if it is  *)
(* not kept waiting for ever: as often as its wait ends, it is polled.      *)
(* Nothing is assumed of what it waits for, or of the client.              *)
Fairness == WF_vars(Passthrough) /\ WF_vars(Sniff) /\ SF_vars(Serve)

Spec == Init /\ [][Next]_vars /\ Fairness

-----------------------------------------------------------------------------
(* Every variable has its type, and nothing has been read before the peek,  *)
(* so that the bytes it puts back are the first of the connection.         *)
TypeOK ==
  /\ {pre, inner, sent, received} \subseteq Seq(Byte)
  /\ closed \in BOOLEAN /\ eof \in BOOLEAN
  /\ stream \in Streams
  /\ excluded \in BOOLEAN
  /\ stage \in {"upgraded", "tunnel", "http", "tls", "failed", "ended"}
  /\ stage = "upgraded" => pre = <<>>
  /\ stalled \in BOOLEAN

Stream == INSTANCE ByteStream WITH unread <- pre \o inner

(* Whoever serves the connection reads what the client sent, from its very  *)
(* first byte, although the proxy has looked at it before (rewind.rs).     *)
ImplementsByteStream == Stream!Spec

(* The server the first read selects gets a stream of its protocol, from   *)
(* its first byte, however the network cuts it (serve_upgraded).           *)
ServerSeesProtocol ==
  /\ (stage = "http" /\ Len(received) >= Len(Get)) => StartsWith(received, Get)
  /\ (stage = "tls" /\ Len(received) >= Len(TlsRecord)) => StartsWith(received, TlsRecord)

(* A client that closes in an accepted connection has had everything it    *)
(* sent read, and its close seen, unless its server gave up, or waits for  *)
(* ever for its target or its handler (no timeout in http.rs).             *)
EverythingIsServed ==
  (closed /\ Serving) ~> (stage = "ended" \/ (eof /\ received = sent) \/ []stalled)

(* http.rs:194-199: nothing is served but what starts with "GET " or a TLS  *)
(* record, so that plain HTTP of every other method, which serve_stream    *)
(* would serve, is given up with the unknown; and what does start so is     *)
(* given up at the peek only if its first read returned less than is looked *)
(* for, or nothing, since serve_upgraded does not read again.              *)
PeekDecides ==
  ~excluded =>
    /\ stage \in {"http", "tls", "ended"} =>
         StartsWith(stream, Get) \/ StartsWith(stream, TlsRecord)
    /\ stage = "failed" =>
         /\ StartsWith(stream, Get) => Len(pre) < Len(Get)
         /\ StartsWith(stream, TlsRecord) => Len(pre) < Len(TlsRecord)
=============================================================================
