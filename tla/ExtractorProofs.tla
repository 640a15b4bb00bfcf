-------------------------- MODULE ExtractorProofs --------------------------
(***************************************************************************)
(* Proofs about the path of a request for every set of requests, whatever  *)
(* each of them can meet, every size bound and every channel capacity, as  *)
(* far as ExtractorAssumption allows them.                                 *)
(***************************************************************************)
EXTENDS Extractor, SequenceTheorems, TLAPS

(* A body is collected only of a response that the filters let through ...  *)
CollectedArePassed ==
  \A d \in Docs :
    request[d] \in {"collecting", "sending"} =>
      ~Excluded(exchange[d]) /\ FilterResponse(exchange[d])

(* ... and sent only when it is long enough.                                *)
SentAreLong == \A d \in Docs : request[d] = "sending" => exchange[d].size > MinBody

(* Whatever is sent is longer than the minimum, and longer than the maximum *)
(* only if no length was announced: the bounds filter_response puts on the *)
(* hint and handle_response on the collected bytes meet on the same body.  *)
SentAreOfSize ==
  \A d \in Docs :
    request[d] = "sending" =>
      /\ exchange[d].size > MinBody
      /\ exchange[d].size > MaxBody => ~exchange[d].hint.known

(* The inductive invariant: what is sent is of size because of what was    *)
(* checked two steps before, when only a hint of the size was known.       *)
HandlerInv == TypeOK /\ CollectedArePassed /\ SentAreLong

-----------------------------------------------------------------------------
(* No request has been read and the channel is empty.                      *)
LEMMA HandlerInit ==
  ASSUME ExtractorAssumption, Init PROVE HandlerInv
<1>1. <<>> \in Seq(Docs) /\ Len(<<>>) <= Capacity
  BY EmptySeq DEF ExtractorAssumption
<1>2. TypeOK
  BY <1>1 DEF Init, TypeOK, Places, Waiting, Ends
<1>3. CollectedArePassed /\ SentAreLong
  BY DEF Init, CollectedArePassed, SentAreLong
<1>4. QED
  BY <1>2, <1>3 DEF HandlerInv

(* Every step preserves the types and the bound of the channel.             *)
LEMMA HandlerTypeStep ==
  ASSUME ExtractorAssumption, TypeOK, [Next]_vars PROVE TypeOK'
<1> USE DEF ExtractorAssumption, TypeOK, Places, Waiting, Ends, Moves, Closed
<1>1. ASSUME NEW d \in Docs, Forward(d) PROVE TypeOK'
  BY <1>1 DEF Forward
<1>2. ASSUME NEW d \in Docs, Upgrade(d) PROVE TypeOK'
  BY <1>2 DEF Upgrade
<1>3. ASSUME NEW d \in Docs, Respond(d) PROVE TypeOK'
  BY <1>3 DEF Respond
<1>4. ASSUME NEW d \in Docs, ServerFails(d) PROVE TypeOK'
  BY <1>4 DEF ServerFails
<1>5. ASSUME NEW d \in Docs, ClientLeaves(d) PROVE TypeOK'
  BY <1>5 DEF ClientLeaves
<1>6. ASSUME NEW d \in Docs, Collect(d) PROVE TypeOK'
  BY <1>6 DEF Collect
<1>7. ASSUME NEW d \in Docs, Send(d) PROVE TypeOK'
  <2>1. channel' \in Seq(Docs) /\ Len(channel') = Len(channel) + 1
    BY <1>7, AppendProperties DEF Send
  <2>2. Len(channel) \in Nat /\ Len(channel) < Capacity
    BY <1>7, LenProperties DEF Send
  <2>3. Len(channel') <= Capacity
    BY <2>1, <2>2
  <2>4. QED
    BY <1>7, <2>1, <2>3 DEF Send
<1>8. ASSUME NEW d \in Docs, SendFails(d) PROVE TypeOK'
  BY <1>8 DEF SendFails
<1>81. ASSUME NEW d \in Docs, Deliver(d) PROVE TypeOK'
  BY <1>81 DEF Deliver
<1>9. CASE Take
  <2>1. channel' \in Seq(Docs) /\ Len(channel') = Len(channel) - 1
    BY <1>9, HeadTailProperties DEF Take
  <2>2. QED
    BY <1>9, <2>1, LenProperties DEF Take
<1>10. CASE DropReceiver \/ Stop
  <2>1. <<>> \in Seq(Docs) /\ Len(<<>>) <= Capacity
    BY EmptySeq
  <2>2. channel' \in Seq(Docs) /\ Len(channel') <= Capacity
    BY <1>10, <2>1 DEF DropReceiver, Stop
  <2>3. QED
    BY <1>10, <2>2 DEF DropReceiver, Stop
<1>11. CASE Start
  BY <1>11 DEF Start
<1>12. CASE UNCHANGED vars
  BY <1>12 DEF vars
<1>13. QED
  BY <1>1, <1>2, <1>3, <1>4, <1>5, <1>6, <1>7, <1>8, <1>81, <1>9, <1>10, <1>11, <1>12 DEF Next

(* A request comes to collect only by Respond, which asks both filters, and *)
(* to send only by Collect, which looks at what was collected.             *)
LEMMA HandlerStep ==
  ASSUME ExtractorAssumption, HandlerInv, [Next]_vars PROVE HandlerInv'
<1>1. TypeOK'
  BY HandlerTypeStep DEF HandlerInv
<1> USE DEF HandlerInv, TypeOK, CollectedArePassed, SentAreLong, Moves
<1>2. ASSUME NEW d \in Docs, Forward(d) \/ Upgrade(d)
      PROVE  CollectedArePassed' /\ SentAreLong'
  BY <1>2 DEF Forward, Upgrade
<1>3. ASSUME NEW d \in Docs, Respond(d) PROVE CollectedArePassed' /\ SentAreLong'
  BY <1>3 DEF Respond
<1>4. ASSUME NEW d \in Docs, ServerFails(d) \/ ClientLeaves(d) \/ Send(d) \/ SendFails(d) \/ Deliver(d)
      PROVE  CollectedArePassed' /\ SentAreLong'
  BY <1>4 DEF ServerFails, ClientLeaves, Closed, Waiting, Send, SendFails, Deliver
<1>5. ASSUME NEW d \in Docs, Collect(d) PROVE CollectedArePassed' /\ SentAreLong'
  BY <1>5 DEF Collect
<1>6. ASSUME Take \/ DropReceiver \/ Start \/ UNCHANGED vars
      PROVE  CollectedArePassed' /\ SentAreLong'
  BY <1>6 DEF Take, DropReceiver, Start, vars
<1>7. ASSUME Stop PROVE CollectedArePassed' /\ SentAreLong'
  <2>1. \A d \in Docs : request'[d] \notin {"collecting", "sending"}
    BY <1>7 DEF Stop, Closed, Waiting
  <2>2. QED
    BY <2>1
<1>8. QED
  BY <1>1, <1>2, <1>3, <1>4, <1>5, <1>6, <1>7 DEF Next

-----------------------------------------------------------------------------
(* The invariant holds initially and every step preserves it.              *)
LEMMA HandlerInvariant ==
  ASSUME ExtractorAssumption PROVE Spec => []HandlerInv
<1>1. Init => HandlerInv
  BY HandlerInit
<1>2. HandlerInv /\ [Next]_vars => HandlerInv'
  BY HandlerStep
<1>3. QED
  BY <1>1, <1>2, PTL DEF Spec

(* Every variable keeps its type and the channel its bound, whatever        *)
(* responses compete for its slots (HttpBodyExtractor::handle_response).   *)
THEOREM HandlerTypeCorrect ==
  ASSUME ExtractorAssumption PROVE Spec => []TypeOK
<1>1. HandlerInv => TypeOK
  BY DEF HandlerInv
<1>2. QED
  BY HandlerInvariant, <1>1, PTL

(* For all bounds, also where the minimum is above the maximum: a page that *)
(* is sent is longer than the minimum, and longer than the maximum only if *)
(* its length was not announced, which BodiesNotTooLarge shows to happen    *)
(* (filter_response, handle_response).                                     *)
THEOREM SizesAreBounded ==
  ASSUME ExtractorAssumption PROVE Spec => []SentAreOfSize
<1>1. HandlerInv => SentAreOfSize
  <2> SUFFICES ASSUME HandlerInv, NEW d \in Docs, request[d] = "sending"
               PROVE  /\ exchange[d].size > MinBody
                      /\ exchange[d].size > MaxBody => ~exchange[d].hint.known
    BY DEF SentAreOfSize
  <2>1. exchange[d].size > MinBody /\ SizePasses(exchange[d])
    BY DEF HandlerInv, SentAreLong, CollectedArePassed, FilterResponse
  <2>2. exchange \in Traffic /\ exchange[d] \in Exchange
    BY DEF ExtractorAssumption, HandlerInv, TypeOK
  <2>3. exchange[d].hint.known => exchange[d].hint.upper <= MaxBody
    BY <2>1 DEF SizePasses
  <2>4. exchange[d].hint.known => exchange[d].size <= MaxBody
    BY <2>2, <2>3 DEF ExtractorAssumption
  <2>5. exchange[d].size \in Nat /\ MaxBody \in Nat
    BY <2>2 DEF ExtractorAssumption, Exchange
  <2>6. QED
    BY <2>1, <2>4, <2>5
<1>2. QED
  BY HandlerInvariant, <1>1, PTL
-----------------------------------------------------------------------------
(* The way of a request to its answer.                                      *)

(* Where a request is on its way: a request only goes up, and there is     *)
(* nothing above its end.                                                  *)
Order(place) ==
  CASE place = "new" -> 0
    [] place = "forwarded" -> 1
    [] place = "collecting" -> 2
    [] place = "sending" -> 3
    [] place = "answered" -> 4
    [] OTHER -> 5

(* No step takes a request back, or ends it twice; a response that the      *)
(* channel has held back is returned in the step that puts its page there, *)
(* behind all others, and no part of it reaches its client before.         *)
Proceeds ==
  \A d \in Docs :
    /\ request'[d] # request[d] => Order(request[d]) < Order(request'[d])
    /\ request[d] = "sending" /\ request'[d] \in Returned =>
         request'[d] = "answered" /\ channel' = Append(channel, d)

(* Every document is sent by its own request, and once.                     *)
SentOnce ==
  /\ \A i, j \in 1..Len(channel) : channel[i] = channel[j] => i = j
  /\ \A i \in 1..Len(channel) : request[channel[i]] \in Returned

(* A step of one handler or of all of them.                                 *)
LEMMA ProceedsStep == TypeOK /\ Next => Proceeds
<1> SUFFICES ASSUME TypeOK, Next PROVE Proceeds
  OBVIOUS
<1> USE DEF TypeOK, Proceeds, Moves, Order, Places, Waiting, Ends, Returned, Closed
<1>1. ASSUME NEW d \in Docs, Forward(d) \/ Upgrade(d) PROVE Proceeds
  BY <1>1 DEF Forward, Upgrade
<1>2. ASSUME NEW d \in Docs, Respond(d) \/ ServerFails(d) \/ Collect(d) PROVE Proceeds
  BY <1>2 DEF Respond, ServerFails, Collect
<1>3. ASSUME NEW d \in Docs, Send(d) PROVE Proceeds
  BY <1>3 DEF Send
<1>4. ASSUME NEW d \in Docs, SendFails(d) \/ ClientLeaves(d) \/ Deliver(d) PROVE Proceeds
  BY <1>4 DEF SendFails, ClientLeaves, Deliver
<1>5. CASE Take \/ DropReceiver \/ Start
  BY <1>5 DEF Take, DropReceiver, Start
<1>6. CASE Stop
  BY <1>6 DEF Stop
<1>7. QED
  BY <1>1, <1>2, <1>3, <1>4, <1>5, <1>6 DEF Next

(* A response that was returned is not taken back.                          *)
LEMMA ReturnedStays ==
  ASSUME TypeOK, [Next]_vars
  PROVE  \A d \in Docs : request[d] \in Returned => request'[d] \in Returned
<1> USE DEF TypeOK, Moves, Places, Waiting, Ends, Returned, Closed
<1>1. ASSUME NEW d \in Docs,
             Forward(d) \/ Upgrade(d) \/ Respond(d) \/ Collect(d) \/ Send(d) \/ SendFails(d)
      PROVE  \A e \in Docs : request[e] \in Returned => request'[e] \in Returned
  BY <1>1 DEF Forward, Upgrade, Respond, Collect, Send, SendFails
<1>2. ASSUME NEW d \in Docs, ServerFails(d) \/ ClientLeaves(d) \/ Deliver(d)
      PROVE  \A e \in Docs : request[e] \in Returned => request'[e] \in Returned
  BY <1>2 DEF ServerFails, ClientLeaves, Deliver
<1>3. CASE Take \/ DropReceiver \/ Start \/ UNCHANGED vars
  BY <1>3 DEF Take, DropReceiver, Start, vars
<1>4. CASE Stop
  BY <1>4 DEF Stop
<1>5. QED
  BY <1>1, <1>2, <1>3, <1>4 DEF Next

(* A request is not in the channel before its send, and has a response     *)
(* from then on.                                                           *)
LEMMA SentOnceStep == TypeOK /\ SentOnce /\ [Next]_vars => SentOnce'
<1> SUFFICES ASSUME TypeOK, SentOnce, [Next]_vars PROVE SentOnce'
  OBVIOUS
<1>1. /\ channel \in Seq(Docs) /\ Len(channel) \in Nat
      /\ \A i \in 1..Len(channel) : channel[i] \in Docs
  BY LenProperties, ElementOfSeq DEF TypeOK
<1>2. ASSUME \A d \in Docs : request[d] \in Returned => request'[d] \in Returned,
             channel' \in {channel, <<>>} PROVE SentOnce'
  <2>1. CASE channel' = channel
    BY <1>1, <1>2, <2>1 DEF SentOnce
  <2>2. CASE channel' = <<>>
    BY <2>2, EmptySeq DEF SentOnce
  <2>3. QED
    BY <1>2, <2>1, <2>2
<1>3. \A d \in Docs : request[d] \in Returned => request'[d] \in Returned
  BY ReturnedStays
<1>4. ASSUME NEW d \in Docs, Send(d) PROVE SentOnce'
  <2>1. /\ request[d] = "sending" /\ request'[d] = "answered"
        /\ channel' = Append(channel, d)
    BY <1>4 DEF Send, Moves, TypeOK
  <2>11. request[d] \notin Returned /\ request'[d] \in Returned
    BY <2>1 DEF Returned
  <2>2. /\ Len(channel') = Len(channel) + 1
        /\ channel'[Len(channel) + 1] = d
        /\ \A i \in 1..Len(channel) : channel'[i] = channel[i]
    BY <1>1, <2>1, AppendProperties
  <2>3. \A i \in 1..Len(channel) : channel[i] # d
    BY <2>11 DEF SentOnce
  <2>4. \A i \in 1..Len(channel') : i \in 1..Len(channel) \/ i = Len(channel) + 1
    BY <1>1, <2>2
  <2>5. \A i \in 1..Len(channel') : request'[channel'[i]] \in Returned
    BY <1>1, <1>3, <2>11, <2>2, <2>4 DEF SentOnce
  <2>6. \A i, j \in 1..Len(channel') : channel'[i] = channel'[j] => i = j
    BY <2>2, <2>3, <2>4 DEF SentOnce
  <2>7. QED
    BY <2>5, <2>6 DEF SentOnce
<1>5. CASE Take
  <2>1. channel # <<>> /\ channel' = Tail(channel) /\ request' = request
    BY <1>5 DEF Take
  <2>2. /\ Len(channel') = Len(channel) - 1
        /\ \A i \in 1..Len(channel') : channel'[i] = channel[i + 1] /\ i + 1 \in 1..Len(channel)
    BY <1>1, <2>1, HeadTailProperties
  <2>3. \A i \in 1..Len(channel') : request'[channel'[i]] \in Returned
    BY <2>1, <2>2 DEF SentOnce
  <2>4. ASSUME NEW i \in 1..Len(channel'), NEW j \in 1..Len(channel'), channel'[i] = channel'[j]
        PROVE  i = j
    <3>1. i + 1 \in 1..Len(channel) /\ j + 1 \in 1..Len(channel) /\ channel[i + 1] = channel[j + 1]
      BY <2>2, <2>4
    <3>2. i + 1 = j + 1
      BY <3>1, Zenon DEF SentOnce
    <3>3. QED
      BY <3>2
  <2>5. QED
    BY <2>3, <2>4 DEF SentOnce
<1>6. CASE DropReceiver \/ Stop \/ Start
  BY <1>2, <1>3, <1>6 DEF DropReceiver, Stop, Start
<1>7. ASSUME NEW d \in Docs,
             Forward(d) \/ Upgrade(d) \/ Respond(d) \/ ServerFails(d)
               \/ ClientLeaves(d) \/ Collect(d) \/ SendFails(d) \/ Deliver(d)
      PROVE  SentOnce'
  <2>1. channel' = channel
    BY <1>7 DEF Forward, Upgrade, Respond, ServerFails, ClientLeaves, Collect, SendFails, Deliver
  <2>2. QED
    BY <1>2, <1>3, <2>1
<1>8. CASE UNCHANGED vars
  BY <1>2, <1>3, <1>8 DEF vars
<1>9. QED
  BY <1>4, <1>5, <1>6, <1>7, <1>8 DEF Next

(* For any requests and whatever they meet: at most five steps from a       *)
(* request to its end, none of them undone, and a response that is held     *)
(* back is returned only with its page in the channel.  What HeldPagesEnd   *)
(* needs besides is that the loader goes on (handle_response).             *)
THEOREM RequestsProceed ==
  ASSUME ExtractorAssumption PROVE Spec => [][Proceeds]_vars
<1>1. TypeOK /\ [Next]_vars => [Proceeds]_vars
  BY ProceedsStep
<1>2. QED
  BY HandlerTypeCorrect, <1>1, PTL DEF Spec

(* For any capacity and number of requests: no page is in the channel       *)
(* twice, and none whose request failed or was dropped (handle_response).  *)
THEOREM PagesAreSentOnce ==
  ASSUME ExtractorAssumption PROVE Spec => []SentOnce
<1>1. Init => SentOnce
  <2>1. Len(<<>>) = 0
    BY EmptySeq
  <2>2. QED
    BY <2>1 DEF Init, SentOnce
<1>2. QED
  BY HandlerTypeCorrect, SentOnceStep, <1>1, PTL DEF Spec
=============================================================================
