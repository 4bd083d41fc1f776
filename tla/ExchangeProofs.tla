---------------------------- MODULE ExchangeProofs ----------------------------
(***************************************************************************)
(* Proofs about what the two ends of a transaction agree on.  Both bodies  *)
(* follow one argument: what is acknowledged has arrived from the first    *)
(* frame on, a body that is finished does not change any more, and one     *)
(* that is acknowledged to its end is there.                               *)
(***************************************************************************)
EXTENDS Exchange, WellFoundedInduction, TLAPS

\* Whole, said without counting.
Complete(got, queued, finished) == finished /\ \A s \in 0 .. queued - 1 : s \in got

RequestComplete == Complete(request_got, request_queued, request_finished)
ResponseComplete == Complete(response_got, response_queued, response_finished)

RequestInv ==
  /\ \A s \in request_got : s < request_queued
  /\ \A s \in 0 .. request_ack - 1 : s \in request_got
  /\ request_finished => request_queued > 0
  /\ ~ request_finished => request_queued <= MaxData

\* The client has nothing of a response before its head; the bridge ends its body
\* when it starts to wait for the acknowledgements.
ResponseInv ==
  /\ \A s \in response_got : s < response_queued /\ head
  /\ \A s \in 0 .. response_ack - 1 : s \in response_got
  /\ response_finished => response_queued > 0
  /\ ~ response_finished => response_queued <= MaxData
  /\ response_finished => task \notin {"none", "requesting", "answered", "opened", "streaming"}
  /\ task = "draining" => response_finished

BridgeInv ==
  /\ client \in {"start", "inserted"} => call = "none"
  /\ call \in {"none", "sent"} => entry = "none" /\ task = "none" /\ loop = "idle"
  /\ upstream_body = "closed" => entry = "gone" \/ RequestComplete
  /\ dispatcher = "cleared" => current_route < MaxRotations

\* The three properties, in these terms.
Agreement ==
  /\ outcome = "ok" => head /\ ResponseComplete /\ (has_body => RequestComplete)
  /\ verdict = "ok" => ResponseComplete
  /\ body_seen = "truncated" => entry = "gone"

ExchangeInv == TypeOK /\ RequestInv /\ ResponseInv /\ BridgeInv /\ Agreement

------------------------------------------------------------------------------
(* What has arrived                                                        *)

LEMMA LeastNumber ==
  ASSUME NEW T, T \subseteq Nat, T # {}
  PROVE  \E n \in T : \A m \in T : n <= m
<1> DEFINE less == {ss \in Nat \X Nat : ss[1] < ss[2]}
<1>1. IsWellFoundedOn(less, Nat)
  BY NatLessThanWellFounded, Zenon DEF OpToRel
<1>2. PICK n \in T : \A m \in T : ~ (<<m, n>> \in less)
  BY <1>1, WFMin
<1>3. ASSUME NEW m \in T PROVE n <= m
  <2>1. m \in Nat /\ n \in Nat /\ <<m, n>> \in Nat \X Nat
    OBVIOUS
  <2>2. ~ (m < n)
    BY <1>2, <2>1
  <2> QED
    BY <2>1, <2>2
<1> QED
  BY <1>3

LEMMA ContiguousPrefix ==
  ASSUME NEW got, got \subseteq SeqNo
  PROVE  LET n == Contiguous(got)
         IN /\ n \in 0 .. MaxData + 1
            /\ n \notin got
            /\ \A s \in 0 .. n - 1 : s \in got
<1> DEFINE free == {n \in 0 .. MaxData + 1 : n \notin got}
           P(n) == n \notin got /\ \A s \in 0 .. n - 1 : s \in got
<1>1. MaxData \in Nat /\ MaxData + 1 \in free
  BY ExchangeAssumption DEF SeqNo
<1>2. free \subseteq Nat /\ free # {}
  BY <1>1
<1> HIDE DEF free
<1>3. PICK n \in free : \A m \in free : n <= m
  BY <1>2, LeastNumber
<1> USE DEF free
<1>4. n \in 0 .. MaxData + 1 /\ P(n)
  BY <1>1, <1>3
<1> HIDE DEF P
<1>5. LET k == CHOOSE k \in 0 .. MaxData + 1 : P(k) IN k \in 0 .. MaxData + 1 /\ P(k)
  BY <1>4
<1> QED
  BY <1>5 DEF Contiguous, P

\* Of what has been queued, what arrived and forms a prefix; and Whole means the
\* same as Complete.
LEMMA Arrived ==
  ASSUME NEW got, got \subseteq SeqNo, NEW queued \in 0 .. MaxData + 1,
         NEW finished \in BOOLEAN, \A s \in got : s < queued
  PROVE  /\ Contiguous(got) \in 0 .. queued
         /\ \A s \in 0 .. Contiguous(got) - 1 : s \in got
         /\ Whole(got, queued, finished) <=> Complete(got, queued, finished)
<1> DEFINE n == Contiguous(got)
<1>1. n \in 0 .. MaxData + 1 /\ n \notin got /\ \A s \in 0 .. n - 1 : s \in got
  BY ContiguousPrefix
<1> HIDE DEF n
<1>2. n <= queued
  <2>1. CASE n = 0
    BY <1>1, <2>1
  <2>2. CASE n > 0
    <3>1. n - 1 \in got
      BY <1>1, <2>2
    <3> QED
      BY <1>1, <3>1
  <2> QED
    BY <1>1, <2>1, <2>2
<1>3. (\A s \in 0 .. queued - 1 : s \in got) <=> n = queued
  <2>1. CASE n = queued
    BY <1>1, <2>1
  <2>2. CASE n < queued
    BY <1>1, <2>2
  <2> QED
    BY <1>1, <1>2, <2>1, <2>2
<1> USE DEF n
<1> QED
  BY <1>1, <1>2, <1>3 DEF Whole, Complete

\* Everything acknowledged and everything queued: everything is there.
LEMMA AckedToTheEnd ==
  ASSUME NEW got, NEW ack, NEW queued \in 0 .. MaxData + 1, ack = queued,
         \A s \in 0 .. ack - 1 : s \in got
  PROVE  Complete(got, queued, TRUE)
BY DEF Complete

\* What a step leaves alone.
LEMMA QuietKeeps ==
  ASSUME ExchangeInv, TypeOK',
         UNCHANGED <<has_body, request_queued, request_finished, request_got, request_ack,
                     response_queued, response_finished, response_got, response_ack>>,
         head => head',
         response_finished =>
           task' \notin {"none", "requesting", "answered", "opened", "streaming"},
         task' = "draining" => response_finished,
         client' \in {"start", "inserted"} => call' = "none",
         call' \in {"none", "sent"} =>
           entry' = "none" /\ task' = "none" /\ loop' = "idle",
         upstream_body' = "closed" => upstream_body = "closed" \/ entry' = "gone",
         entry = "gone" => entry' = "gone",
         dispatcher' = "cleared" => current_route' < MaxRotations,
         outcome' = "ok" => outcome = "ok",
         verdict' = "ok" => verdict = "ok",
         body_seen' = "truncated" => body_seen = "truncated"
  PROVE  ExchangeInv'
<1>1. RequestInv' /\ RequestComplete' = RequestComplete
  BY DEF ExchangeInv, RequestInv, RequestComplete, Complete
<1>2. ResponseInv' /\ ResponseComplete' = ResponseComplete
  BY DEF ExchangeInv, ResponseInv, ResponseComplete, Complete
<1>3. BridgeInv'
  BY <1>1 DEF ExchangeInv, BridgeInv
<1>4. Agreement'
  BY <1>1, <1>2 DEF ExchangeInv, Agreement
<1> QED
  BY <1>1, <1>2, <1>3, <1>4 DEF ExchangeInv

LEMMA Facts ==
  ASSUME ExchangeInv
  PROVE  /\ TypeOK /\ RequestInv /\ ResponseInv /\ BridgeInv /\ Agreement
         /\ MaxData \in Nat /\ MaxRotations \in Nat /\ BodySlots \in Nat \ {0}
BY ExchangeAssumption DEF ExchangeInv

LEMMA WholeIsComplete ==
  ASSUME ExchangeInv
  PROVE  /\ Whole(request_got, request_queued, request_finished) <=> RequestComplete
         /\ Whole(response_got, response_queued, response_finished) <=> ResponseComplete
<1>1. /\ request_got \subseteq SeqNo /\ request_queued \in 0 .. MaxData + 1
      /\ request_finished \in BOOLEAN /\ \A s \in request_got : s < request_queued
  BY Facts DEF TypeOK, RequestInv
<1>2. /\ response_got \subseteq SeqNo /\ response_queued \in 0 .. MaxData + 1
      /\ response_finished \in BOOLEAN /\ \A s \in response_got : s < response_queued
  BY Facts DEF TypeOK, ResponseInv
<1>3. Whole(request_got, request_queued, request_finished) <=> RequestComplete
  BY <1>1, Arrived DEF RequestComplete
<1>4. Whole(response_got, response_queued, response_finished) <=> ResponseComplete
  BY <1>2, Arrived DEF ResponseComplete
<1> QED
  BY <1>3, <1>4

------------------------------------------------------------------------------
(* The client                                                              *)

LEMMA InsertKeeps == ASSUME ExchangeInv, Insert PROVE ExchangeInv'
<1>1. TypeOK'
  BY Facts
     DEF TypeOK, Insert, frameVars, Clients, clientRest, bridgeVars, loopVars, upstreamVars,
         taskVars
<1> QED
  BY <1>1, Facts, QuietKeeps
     DEF Insert, frameVars, ResponseInv, BridgeInv, clientRest, bridgeVars, loopVars,
         upstreamVars, taskVars

LEMMA OpenKeeps == ASSUME ExchangeInv, Open PROVE ExchangeInv'
<1>1. TypeOK'
  BY Facts
     DEF TypeOK, Open, Clients, clientRest, bridgeVars, loopVars, upstreamVars, taskVars
<1> QED
  BY <1>1, Facts, QuietKeeps
     DEF Open, ResponseInv, BridgeInv, clientRest, bridgeVars, loopVars, upstreamVars, taskVars

LEMMA AcceptedKeeps == ASSUME ExchangeInv, Accepted PROVE ExchangeInv'
<1>1. TypeOK'
  BY Facts
     DEF TypeOK, Accepted, frameVars, Clients, clientRest, bridgeVars, loopVars, upstreamVars,
         taskVars
<1> QED
  BY <1>1, Facts, QuietKeeps
     DEF Accepted, frameVars, ResponseInv, BridgeInv, clientRest, bridgeVars, loopVars,
         upstreamVars, taskVars

LEMMA TakeAckKeeps == ASSUME ExchangeInv, TakeAck PROVE ExchangeInv'
<1>1. TypeOK'
  BY Facts
     DEF TypeOK, TakeAck, frameVars, clientRest, bridgeVars, loopVars, upstreamVars, taskVars
<1> QED
  BY <1>1, Facts, QuietKeeps
     DEF TakeAck, frameVars, ResponseInv, BridgeInv, clientRest, bridgeVars, loopVars,
         upstreamVars, taskVars

LEMMA TakeOpenKeeps == ASSUME ExchangeInv, TakeOpen PROVE ExchangeInv'
<1>1. TypeOK'
  BY Facts
     DEF TypeOK, TakeOpen, clientRest, bridgeVars, loopVars, upstreamVars, taskVars
<1> QED
  BY <1>1, Facts, QuietKeeps
     DEF TakeOpen, ResponseInv, BridgeInv, clientRest, bridgeVars, loopVars, upstreamVars,
         taskVars

LEMMA LeftKeeps == ASSUME ExchangeInv, Left PROVE ExchangeInv'
<1>1. TypeOK'
  <2>1. {open_frame', error_frame', cancel_frame'} \subseteq {"unsent", "sent", "taken"}
    BY Facts DEF TypeOK, Left
  <2>2. /\ client' = "over" /\ registered' \in BOOLEAN
        /\ UNCHANGED <<outcome, reply_route, request_queued, request_finished, request_acked, head,
                       response_got, response_ack, call, open_frame, error_frame, clientRest>>
    BY DEF Left
  <2> QED
    BY <2>1, <2>2, Facts
       DEF TypeOK, Clients, clientRest, bridgeVars, loopVars, upstreamVars, taskVars
<1> QED
  BY <1>1, Facts, QuietKeeps
     DEF Left, ResponseInv, BridgeInv, clientRest, bridgeVars, loopVars, upstreamVars, taskVars

\* run_stream_inner returns with an error, whatever it is.
LEMMA LeaveKeeps ==
  ASSUME ExchangeInv, Leave("error"), error_frame' \in {error_frame, "taken"},
         UNCHANGED <<registered, call, open_frame, cancel_frame, clientRest>>
  PROVE  ExchangeInv'
<1>1. TypeOK'
  BY Facts
     DEF TypeOK, Leave, Clients, clientRest, bridgeVars, loopVars, upstreamVars, taskVars
<1> QED
  BY <1>1, Facts, QuietKeeps
     DEF Leave, ResponseInv, BridgeInv, clientRest, bridgeVars, loopVars, upstreamVars, taskVars

LEMMA ClientFailsKeeps ==
  ASSUME ExchangeInv,
         Refused \/ CallFails \/ TakeError \/ ChannelCloses \/ ClientTimesOut \/ ConsumerGone
  PROVE  ExchangeInv'
BY LeaveKeeps
   DEF Refused, CallFails, TakeError, ChannelCloses, ClientTimesOut, ConsumerGone, frameVars

\* The request grows until it is finished.
LEMMA QueueKeeps == ASSUME ExchangeInv, Queue PROVE ExchangeInv'
<1>1. /\ client = "running" /\ ~ request_finished
      /\ request_queued' = request_queued + 1
      /\ \/ request_queued < MaxData /\ request_finished' = request_finished
         \/ request_finished' = TRUE
      /\ UNCHANGED <<client, outcome, reply_route, request_acked, head, response_got,
                     response_ack, registered, frameVars, clientRest>>
  BY DEF Queue
<1>2. request_queued \in Nat /\ request_queued <= MaxData /\ request_queued' \in 0 .. MaxData + 1
  BY <1>1, Facts DEF TypeOK, RequestInv
<1>3. TypeOK'
  <2>1. /\ request_acked' \in 0 .. request_queued'
        /\ request_ack' \in request_acked' .. request_queued'
    BY <1>1, <1>2, Facts DEF TypeOK, clientRest, bridgeVars, loopVars
  <2>2. request_finished' \in BOOLEAN
    BY <1>1, Facts DEF TypeOK
  <2> QED
    BY <1>1, <1>2, <2>1, <2>2, Facts
       DEF TypeOK, frameVars, clientRest, bridgeVars, loopVars, upstreamVars, taskVars
<1>4. RequestInv'
  <2>1. \A s \in request_got : s < request_queued'
    BY <1>1, <1>2, Facts DEF RequestInv, TypeOK, SeqNo
  <2> QED
    BY <1>1, <1>2, <2>1, Facts DEF RequestInv, clientRest, bridgeVars, loopVars
<1>5. ResponseInv' /\ ResponseComplete' = ResponseComplete
  BY <1>1, Facts DEF ResponseInv, ResponseComplete, Complete, clientRest, bridgeVars, taskVars
<1>6. ~ RequestComplete
  BY <1>1 DEF RequestComplete, Complete
<1>7. BridgeInv'
  BY <1>1, <1>6, Facts DEF BridgeInv, clientRest, bridgeVars, frameVars, loopVars, taskVars
<1>8. Agreement'
  <2>1. outcome = "ok" => ~ has_body
    BY <1>6, Facts DEF Agreement
  <2> QED
    BY <1>1, <1>5, <2>1, Facts DEF Agreement, clientRest, bridgeVars, upstreamVars, taskVars
<1> QED
  BY <1>3, <1>4, <1>5, <1>7, <1>8 DEF ExchangeInv

\* The response arrives, or its acknowledgement follows what has arrived; the client
\* runs or waits for its consumer.
LEMMA ReceivingResponseKeeps ==
  ASSUME ExchangeInv,
         client \notin {"start", "inserted"}, client' \in {"running"} \union Handing,
         response_got \subseteq response_got', response_got' \subseteq SeqNo,
         \A t \in response_got' : t < response_queued /\ head,
         response_ack' = response_ack \/ AcknowledgeResponse,
         UNCHANGED <<outcome, reply_route, request_queued, request_finished, request_acked, head,
                     registered, frameVars, clientRest>>
  PROVE  ExchangeInv'
<1>1. response_queued \in 0 .. MaxData + 1 /\ response_finished \in BOOLEAN
  BY Facts DEF TypeOK
<1>2. /\ Contiguous(response_got') \in 0 .. response_queued
      /\ \A t \in 0 .. Contiguous(response_got') - 1 : t \in response_got'
  BY <1>1, Arrived
<1>3. \/ response_ack' = response_ack
      \/ response_ack' = Contiguous(response_got') /\ Contiguous(response_got') > response_ack
  BY DEF AcknowledgeResponse
<1>4. response_ack' \in response_acked .. response_queued
  BY <1>2, <1>3, Facts DEF TypeOK
<1>5. TypeOK'
  BY <1>1, <1>4, Facts
     DEF TypeOK, Clients, frameVars, clientRest, bridgeVars, loopVars, upstreamVars, taskVars
<1>6. ResponseInv'
  BY <1>1, <1>2, <1>3, Facts DEF ResponseInv, clientRest, bridgeVars, taskVars
<1>7. RequestInv' /\ RequestComplete' = RequestComplete
  BY Facts DEF RequestInv, RequestComplete, Complete, clientRest, bridgeVars, loopVars
<1>8. ResponseComplete => ResponseComplete'
  BY DEF ResponseComplete, Complete, clientRest, bridgeVars, taskVars
<1>9. BridgeInv'
  BY <1>7, Facts DEF BridgeInv, Handing, clientRest, bridgeVars, frameVars, loopVars, taskVars
<1>10. Agreement'
  BY <1>7, <1>8, Facts DEF Agreement, clientRest, bridgeVars, upstreamVars, taskVars
<1> QED
  BY <1>5, <1>6, <1>7, <1>9, <1>10 DEF ExchangeInv

LEMMA TakeResponseKeeps ==
  ASSUME ExchangeInv, NEW s \in SeqNo, TakeResponse(s)
  PROVE  ExchangeInv'
<1>1. client = "running" /\ s < response_queued /\ UNCHANGED <<registered, frameVars, clientRest>>
  BY DEF TakeResponse, Reachable
<1>2. CASE ~ head
  <2>1. Leave("error")
    BY <1>2 DEF TakeResponse
  <2> QED
    BY <1>1, <2>1, LeaveKeeps DEF frameVars
<1>3. CASE head
  <2>1. PICK due \in BOOLEAN : Receive(s, due)
    <3> DEFINE d == AckDue(response_got \union {s}, s,
                           Whole(response_got \union {s}, response_queued, response_finished))
    <3>1. Receive(s, d)
      BY <1>3 DEF TakeResponse
    <3>2. d \in BOOLEAN
      BY DEF AckDue
    <3> QED
      BY <3>1, <3>2
  <2>2. /\ response_got' = response_got \union {s}
        /\ response_ack' = response_ack \/ AcknowledgeResponse
        /\ client' \in {"running"} \union Handing
        /\ UNCHANGED <<outcome, reply_route, request_queued, request_finished, request_acked, head>>
    BY <1>1, <2>1 DEF Receive, Handing
  <2>3. /\ response_got' \subseteq SeqNo
        /\ \A t \in response_got' : t < response_queued /\ head
    BY <1>1, <1>3, <2>2, Facts DEF TypeOK, ResponseInv
  <2> QED
    BY <1>1, <2>2, <2>3, ReceivingResponseKeeps
<1> QED
  BY <1>2, <1>3

\* What the consumer held up arrived before.
LEMMA ConsumedKeeps == ASSUME ExchangeInv, Consumed PROVE ExchangeInv'
<1>1. /\ client \in Handing /\ client' = "running" /\ response_got' = response_got
      /\ response_ack' = response_ack \/ AcknowledgeResponse
      /\ UNCHANGED <<outcome, reply_route, request_queued, request_finished, request_acked, head,
                     registered, frameVars, clientRest>>
  BY DEF Consumed
<1>2. response_got \subseteq SeqNo /\ \A t \in response_got : t < response_queued /\ head
  BY Facts DEF TypeOK, ResponseInv
<1> QED
  BY <1>1, <1>2, ReceivingResponseKeeps DEF Handing

\* The loop is left when both bodies are through: then both are complete.
LEMMA BreaksKeeps == ASSUME ExchangeInv, Breaks PROVE ExchangeInv'
<1>1. /\ client = "running" /\ client' = "leaving" /\ outcome' = "ok"
      /\ has_body => request_finished /\ request_acked = request_queued
      /\ Whole(response_got, response_queued, response_finished)
      /\ UNCHANGED <<reply_route, request_queued, request_finished, request_acked, head,
                     response_got, response_ack, registered, frameVars, clientRest>>
  BY DEF Breaks, Leave
<1>2. ResponseComplete
  BY <1>1, WholeIsComplete
<1>3. head
  <2>1. 0 \in 0 .. response_queued - 1
    BY <1>2, Facts DEF ResponseComplete, Complete, ResponseInv, TypeOK
  <2> QED
    BY <1>2, <2>1, Facts DEF ResponseComplete, Complete, ResponseInv
<1>4. has_body => RequestComplete
  <2>1. has_body => request_ack = request_queued
    BY <1>1, Facts DEF TypeOK
  <2> QED
    BY <1>1, <2>1, Facts DEF RequestInv, RequestComplete, Complete
<1>5. TypeOK'
  BY <1>1, Facts
     DEF TypeOK, Clients, frameVars, clientRest, bridgeVars, loopVars, upstreamVars, taskVars
<1>6. RequestInv' /\ RequestComplete' = RequestComplete
  BY <1>1, Facts DEF RequestInv, RequestComplete, Complete, clientRest, bridgeVars, loopVars
<1>7. ResponseInv' /\ ResponseComplete' = ResponseComplete
  BY <1>1, Facts DEF ResponseInv, ResponseComplete, Complete, clientRest, bridgeVars, taskVars
<1>8. BridgeInv'
  BY <1>1, <1>6, Facts DEF BridgeInv, clientRest, bridgeVars, frameVars, loopVars, taskVars
<1>9. Agreement'
  BY <1>1, <1>2, <1>3, <1>4, <1>6, <1>7, Facts
     DEF Agreement, clientRest, bridgeVars, upstreamVars, taskVars
<1> QED
  BY <1>5, <1>6, <1>7, <1>8, <1>9 DEF ExchangeInv

LEMMA RouteStepKeeps == ASSUME ExchangeInv, RouteStep PROVE ExchangeInv'
<1>1. UNCHANGED routeRest /\ registered' \in BOOLEAN
  BY Facts DEF RouteStep, RouteDies, RouteReplaced, RouteLost, TypeOK
<1>2. /\ dispatcher' \in {"live", "cleared", "ended"} /\ current_route' \in 0 .. MaxRotations
      /\ dispatcher' = "cleared" => current_route' < MaxRotations
  <2>1. current_route \in 0 .. MaxRotations /\ (dispatcher = "cleared" => current_route < MaxRotations)
    BY Facts DEF TypeOK, BridgeInv
  <2> QED
    BY <2>1, Facts DEF RouteStep, RouteDies, RouteReplaced, RouteLost
<1>3. TypeOK'
  BY <1>1, <1>2, Facts
     DEF TypeOK, routeRest, clientVars, frameVars, bridgeVars, loopVars, upstreamVars, taskVars
<1> QED
  BY <1>1, <1>2, <1>3, Facts, QuietKeeps
     DEF ResponseInv, BridgeInv, routeRest, clientVars, frameVars, bridgeVars, loopVars,
         upstreamVars, taskVars

------------------------------------------------------------------------------
(* The event loop of the bridge                                            *)

LEMMA HandleOpenKeeps == ASSUME ExchangeInv, HandleOpen PROVE ExchangeInv'
<1>1. TypeOK'
  BY Facts
     DEF TypeOK, HandleOpen, Tasks, loopVars, bridgeRest, clientVars, routeVars, loopVars
<1> QED
  BY <1>1, Facts, QuietKeeps
     DEF HandleOpen, ResponseInv, BridgeInv, bridgeRest, clientVars, routeVars, loopVars

\* What a set of frames gives the event loop to hand over, and what it may say of it.
LEMMA RequestFacts ==
  ASSUME ExchangeInv, NEW got, request_got \subseteq got, got \subseteq SeqNo,
         \A s \in got : s < request_queued
  PROVE  /\ Contiguous(got) \in 0 .. request_queued
         /\ \A s \in 0 .. Contiguous(got) - 1 : s \in got
         /\ Whole(got, request_queued, request_finished)
               <=> Complete(got, request_queued, request_finished)
         /\ Released(got) \in Int /\ Released(got) <= MaxData
<1>1. /\ request_queued \in 0 .. MaxData + 1 /\ request_finished \in BOOLEAN
      /\ request_got \subseteq SeqNo /\ \A s \in request_got : s < request_queued
      /\ request_finished => request_queued > 0
      /\ ~ request_finished => request_queued <= MaxData
      /\ MaxData \in Nat
  BY Facts DEF TypeOK, RequestInv
<1>2. /\ Contiguous(got) \in 0 .. request_queued
      /\ \A s \in 0 .. Contiguous(got) - 1 : s \in got
      /\ Whole(got, request_queued, request_finished)
            <=> Complete(got, request_queued, request_finished)
  BY <1>1, Arrived
<1>3. Contiguous(request_got) \in 0 .. request_queued
  BY <1>1, Arrived
<1> DEFINE data(n) == IF request_finished /\ n = request_queued THEN n - 1 ELSE n
<1>4. \A n \in 0 .. request_queued : data(n) \in Int /\ data(n) <= MaxData /\ data(n) >= 0
  BY <1>1
<1>5. data(Contiguous(got)) <= MaxData /\ data(Contiguous(got)) \in Int
  BY <1>2, <1>4
<1>6. data(Contiguous(request_got)) \in Int /\ data(Contiguous(request_got)) >= 0
  BY <1>3, <1>4
<1>7. Released(got) = data(Contiguous(got)) - data(Contiguous(request_got))
  BY DEF Released
<1> HIDE DEF data
<1> QED
  BY <1>1, <1>2, <1>5, <1>6, <1>7

\* The request arrives and nothing is taken back.
LEMMA ReceivingKeeps ==
  ASSUME ExchangeInv, TypeOK', UNCHANGED <<bridgeRest, frameVars, entry, completion, taskVars>>,
         request_got \subseteq request_got',
         \A s \in request_got' : s < request_queued,
         request_ack' = request_ack \/ request_ack' = Contiguous(request_got'),
         upstream_body' = "closed" =>
           upstream_body = "closed"
             \/ Whole(request_got', request_queued, request_finished),
         UNCHANGED body_seen, loop' = "idle" \/ entry = "open"
  PROVE  ExchangeInv'
<1>1. request_got' \subseteq SeqNo
  BY DEF TypeOK
<1>2. /\ \A s \in 0 .. Contiguous(request_got') - 1 : s \in request_got'
      /\ Whole(request_got', request_queued, request_finished)
            <=> Complete(request_got', request_queued, request_finished)
  BY <1>1, RequestFacts
<1>3. UNCHANGED <<request_queued, request_finished>>
  BY DEF bridgeRest, clientVars
<1>4. RequestInv'
  BY <1>2, <1>3, Facts DEF RequestInv
<1>5. /\ RequestComplete => RequestComplete'
      /\ RequestComplete' <=> Whole(request_got', request_queued, request_finished)
  BY <1>2, <1>3 DEF RequestComplete, Complete
<1>6. ResponseInv' /\ ResponseComplete' = ResponseComplete
  BY Facts DEF ResponseInv, ResponseComplete, Complete, bridgeRest, clientVars, taskVars
<1>7. BridgeInv'
  BY <1>5, Facts DEF BridgeInv, bridgeRest, clientVars, routeVars, frameVars, taskVars
<1>8. Agreement'
  BY <1>5, <1>6, Facts DEF Agreement, bridgeRest, clientVars, taskVars
<1> QED
  BY <1>4, <1>6, <1>7, <1>8 DEF ExchangeInv

LEMMA TakeRequestKeeps == ASSUME ExchangeInv, NEW s \in SeqNo, TakeRequest(s) PROVE ExchangeInv'
<1> DEFINE got == request_got \union {s}
<1>1. /\ s < request_queued /\ request_got' = got /\ entry = "open"
      /\ UNCHANGED <<loopRest, cancel_frame, entry, completion, taskVars>>
  BY DEF TakeRequest
<1>2. /\ request_got \subseteq got /\ got \subseteq SeqNo /\ \A q \in got : q < request_queued
  BY <1>1, Facts DEF TypeOK, RequestInv
<1>3. /\ Contiguous(got) \in 0 .. request_queued
      /\ Released(got) \in Int /\ Released(got) <= MaxData
  BY <1>2, RequestFacts
<1>4. CASE Released(got) > 0
  <2>1. /\ loop' = "sending" /\ left' = Released(got) /\ handled' = s
        /\ UNCHANGED <<request_ack, upstream_body>>
    BY <1>1, <1>4 DEF TakeRequest
  <2>2. left' \in 0 .. MaxData
    BY <1>3, <1>4, <2>1, Facts
  <2>3. TypeOK'
    BY <1>1, <1>2, <2>1, <2>2, Facts
       DEF TypeOK, loopRest, bridgeRest, clientVars, routeVars, upstreamVars, taskVars
  <2> QED
    BY <1>1, <1>2, <2>1, <2>3, ReceivingKeeps DEF loopRest, bridgeRest, frameVars, upstreamVars
<1>5. CASE ~ (Released(got) > 0)
  <2>1. /\ Acknowledge(got, s) /\ UNCHANGED <<loop, left, handled>>
        /\ upstream_body' = IF Whole(got, request_queued, request_finished)
                            THEN "closed" ELSE upstream_body
    BY <1>1, <1>5 DEF TakeRequest
  <2>2. request_ack' = request_ack
          \/ (request_ack' = Contiguous(got) /\ Contiguous(got) > request_ack)
    BY <2>1 DEF Acknowledge
  <2>3. request_ack' \in request_acked .. request_queued
    BY <1>3, <2>2, Facts DEF TypeOK
  <2>4. TypeOK'
    BY <1>1, <1>2, <2>1, <2>3, Facts
       DEF TypeOK, loopRest, bridgeRest, clientVars, routeVars, upstreamVars, taskVars
  <2> QED
    BY <1>1, <1>2, <2>1, <2>2, <2>4, ReceivingKeeps
       DEF loopRest, bridgeRest, frameVars, upstreamVars
<1> QED
  BY <1>4, <1>5

LEMMA HandedOverKeeps == ASSUME ExchangeInv, HandedOver PROVE ExchangeInv'
<1>1. /\ loop' = "idle" /\ Acknowledge(request_got, handled)
      /\ upstream_body' = IF Whole(request_got, request_queued, request_finished)
                          THEN "closed" ELSE upstream_body
      /\ UNCHANGED <<loopRest, cancel_frame, entry, completion, request_got, left, handled,
                     taskVars>>
  BY DEF HandedOver
<1>2. request_got \subseteq SeqNo /\ \A s \in request_got : s < request_queued
  BY Facts DEF TypeOK, RequestInv
<1>3. Contiguous(request_got) \in 0 .. request_queued
  BY <1>2, RequestFacts
<1>4. request_ack' = request_ack
        \/ (request_ack' = Contiguous(request_got) /\ Contiguous(request_got) > request_ack)
  BY <1>1 DEF Acknowledge
<1>5. request_ack' \in request_acked .. request_queued
  BY <1>3, <1>4, Facts DEF TypeOK
<1>6. TypeOK'
  BY <1>1, <1>5, Facts
     DEF TypeOK, loopRest, bridgeRest, clientVars, routeVars, upstreamVars, taskVars
<1> QED
  BY <1>1, <1>2, <1>4, <1>6, ReceivingKeeps DEF loopRest, bridgeRest, frameVars, upstreamVars

LEMMA HandOverKeeps == ASSUME ExchangeInv, HandOver PROVE ExchangeInv'
<1>1. TypeOK'
  BY Facts
     DEF TypeOK, HandOver, frameVars, taskVars, bridgeRest, clientVars, routeVars
<1> QED
  BY <1>1, Facts, QuietKeeps
     DEF HandOver, frameVars, taskVars, ResponseInv, BridgeInv, bridgeRest, clientVars,
         routeVars

LEMMA HandOverFailsKeeps == ASSUME ExchangeInv, HandOverFails PROVE ExchangeInv'
<1>1. TypeOK'
  BY Facts
     DEF TypeOK, HandOverFails, taskVars, loopRest, bridgeRest, clientVars, routeVars,
         upstreamVars
<1> QED
  BY <1>1, Facts, QuietKeeps
     DEF HandOverFails, taskVars, ResponseInv, BridgeInv, loopRest, bridgeRest, clientVars,
         routeVars, upstreamVars

LEMMA TakeResponseAckKeeps == ASSUME ExchangeInv, TakeResponseAck PROVE ExchangeInv'
<1>1. TypeOK'
  BY Facts
     DEF TypeOK, TakeResponseAck, loopVars, loopRest, bridgeRest, clientVars, routeVars,
         upstreamVars
<1> QED
  BY <1>1, Facts, QuietKeeps
     DEF TakeResponseAck, loopVars, ResponseInv, BridgeInv, loopRest, bridgeRest, clientVars,
         routeVars, upstreamVars

LEMMA TakeCancelKeeps == ASSUME ExchangeInv, TakeCancel PROVE ExchangeInv'
<1>1. TypeOK'
  BY Facts
     DEF TypeOK, TakeCancel, taskVars, loopRest, bridgeRest, clientVars, routeVars, upstreamVars
<1> QED
  BY <1>1, Facts, QuietKeeps
     DEF TakeCancel, taskVars, ResponseInv, BridgeInv, loopRest, bridgeRest, clientVars,
         routeVars, upstreamVars

LEMMA CancelTaskKeeps == ASSUME ExchangeInv, CancelTask PROVE ExchangeInv'
<1>1. TypeOK'
  BY Facts
     DEF TypeOK, CancelTask, Tasks, loopRest, bridgeRest, clientVars, routeVars, upstreamVars
<1> QED
  BY <1>1, Facts, QuietKeeps
     DEF CancelTask, TaskOver, ResponseInv, BridgeInv, loopRest, bridgeRest, clientVars,
         routeVars, upstreamVars

LEMMA CancelAllKeeps == ASSUME ExchangeInv, CancelAll PROVE ExchangeInv'
<1>1. TypeOK'
  BY Facts
     DEF TypeOK, CancelAll, loopVars, Tasks, loopRest, bridgeRest, clientVars, routeVars,
         upstreamVars
<1> QED
  BY <1>1, Facts, QuietKeeps
     DEF CancelAll, loopVars, TaskOver, ResponseInv, BridgeInv, loopRest, bridgeRest,
         clientVars, routeVars, upstreamVars

------------------------------------------------------------------------------
(* The upstream and its task                                               *)

LEMMA UpstreamReadsKeeps == ASSUME ExchangeInv, UpstreamReads PROVE ExchangeInv'
<1>1. TypeOK'
  BY Facts
     DEF TypeOK, UpstreamReads, upstreamRest, bridgeRest, clientVars, routeVars, frameVars,
         loopVars, taskVars
<1> QED
  BY <1>1, Facts, QuietKeeps
     DEF UpstreamReads, ResponseInv, BridgeInv, upstreamRest, bridgeRest, clientVars, routeVars,
         frameVars, loopVars, taskVars

LEMMA UpstreamDropsKeeps == ASSUME ExchangeInv, UpstreamDrops PROVE ExchangeInv'
<1>1. TypeOK'
  <2>1. chunks' = 0 /\ reading' = FALSE /\ body_seen' = "broken" /\ UNCHANGED upstreamRest
    BY DEF UpstreamDrops
  <2>2. chunks' \in 0 .. BodySlots
    BY <2>1, ExchangeAssumption
  <2>3. reading' \in BOOLEAN
    BY <2>1
  <2> QED
    BY <2>1, <2>2, <2>3, Facts
       DEF TypeOK, upstreamRest, bridgeRest, clientVars, routeVars, frameVars, loopVars, taskVars
<1> QED
  BY <1>1, Facts, QuietKeeps
     DEF UpstreamDrops, ResponseInv, BridgeInv, upstreamRest, bridgeRest, clientVars, routeVars,
         frameVars, loopVars, taskVars

LEMMA AnsweredKeeps == ASSUME ExchangeInv, Answered PROVE ExchangeInv'
<1>1. TypeOK'
  BY Facts
     DEF TypeOK, Answered, Tasks, taskRest, bridgeRest, clientVars, routeVars, loopVars,
         upstreamVars
<1> QED
  BY <1>1, Facts, QuietKeeps
     DEF Answered, ResponseInv, BridgeInv, taskRest, bridgeRest, clientVars, routeVars,
         loopVars, upstreamVars

LEMMA SendOpenKeeps == ASSUME ExchangeInv, SendOpen PROVE ExchangeInv'
<1>1. TypeOK'
  BY Facts
     DEF TypeOK, SendOpen, Tasks, taskRest, bridgeRest, clientVars, routeVars, loopVars,
         upstreamVars
<1> QED
  BY <1>1, Facts, QuietKeeps
     DEF SendOpen, ResponseInv, BridgeInv, taskRest, bridgeRest, clientVars, routeVars,
         loopVars, upstreamVars

LEMMA SetSenderKeeps == ASSUME ExchangeInv, SetSender PROVE ExchangeInv'
<1>1. TypeOK'
  BY Facts
     DEF TypeOK, SetSender, Tasks, taskRest, bridgeRest, clientVars, routeVars, loopVars,
         upstreamVars
<1> QED
  BY <1>1, Facts, QuietKeeps
     DEF SetSender, ResponseInv, BridgeInv, taskRest, bridgeRest, clientVars, routeVars,
         loopVars, upstreamVars

LEMMA TaskFailsKeeps == ASSUME ExchangeInv, TaskFails PROVE ExchangeInv'
<1>1. TypeOK'
  BY Facts
     DEF TypeOK, TaskFails, Tasks, taskRest, bridgeRest, clientVars, routeVars, loopVars,
         upstreamVars
<1> QED
  BY <1>1, Facts, QuietKeeps
     DEF TaskFails, ResponseInv, BridgeInv, taskRest, bridgeRest, clientVars, routeVars,
         loopVars, upstreamVars

LEMMA RemovedKeeps == ASSUME ExchangeInv, Removed PROVE ExchangeInv'
<1>1. TypeOK'
  BY Facts
     DEF TypeOK, Removed, Tasks, taskRest, bridgeRest, clientVars, routeVars, loopVars,
         upstreamVars
<1> QED
  BY <1>1, Facts, QuietKeeps
     DEF Removed, ResponseInv, BridgeInv, taskRest, bridgeRest, clientVars, routeVars, loopVars,
         upstreamVars

LEMMA RecordedKeeps == ASSUME ExchangeInv, Recorded PROVE ExchangeInv'
<1>1. TypeOK'
  BY Facts
     DEF TypeOK, Recorded, Tasks, taskRest, bridgeRest, clientVars, routeVars, loopVars,
         upstreamVars
<1> QED
  BY <1>1, Facts, QuietKeeps
     DEF Recorded, ResponseInv, BridgeInv, taskRest, bridgeRest, clientVars, routeVars,
         loopVars, upstreamVars

\* The end of the body that is seen too early is that of a transaction that left.
LEMMA UpstreamSeesEndKeeps == ASSUME ExchangeInv, UpstreamSeesEnd PROVE ExchangeInv'
<1>1. /\ SenderGone /\ reading' = FALSE /\ chunks' = chunks /\ UNCHANGED upstreamRest
      /\ body_seen' = IF Whole(request_got, request_queued, request_finished)
                      THEN "whole" ELSE "truncated"
  BY DEF UpstreamSeesEnd
<1>2. reading' \in BOOLEAN /\ body_seen' \in {"whole", "truncated"}
  BY <1>1
<1>3. TypeOK'
  BY <1>1, <1>2, Facts
     DEF TypeOK, upstreamRest, bridgeRest, clientVars, routeVars, frameVars, loopVars, taskVars
<1>4. Whole(request_got, request_queued, request_finished) <=> RequestComplete
  BY WholeIsComplete
<1>5. upstream_body = "closed" \/ entry = "gone"
  BY <1>1 DEF SenderGone
<1>6. body_seen' = "truncated" => entry = "gone"
  BY <1>1, <1>4, <1>5, Facts DEF BridgeInv
<1>7. RequestInv' /\ RequestComplete' = RequestComplete
  BY <1>1, Facts
     DEF RequestInv, RequestComplete, Complete, upstreamRest, bridgeRest, clientVars, loopVars
<1>8. ResponseInv' /\ ResponseComplete' = ResponseComplete
  BY <1>1, Facts
     DEF ResponseInv, ResponseComplete, Complete, upstreamRest, bridgeRest, clientVars, taskVars
<1>9. BridgeInv'
  BY <1>1, <1>7, Facts
     DEF BridgeInv, upstreamRest, bridgeRest, clientVars, routeVars, frameVars, loopVars, taskVars
<1>10. Agreement'
  BY <1>1, <1>6, <1>7, <1>8, Facts
     DEF Agreement, upstreamRest, bridgeRest, clientVars, taskVars
<1> QED
  BY <1>3, <1>7, <1>8, <1>9, <1>10 DEF ExchangeInv

\* The response grows until it is finished.
LEMMA ResponseGrows ==
  ASSUME ExchangeInv, task = "streaming", task' \in {"streaming", "draining"},
         response_queued' = response_queued + 1,
         \/ task' = "streaming" /\ response_queued < MaxData /\ UNCHANGED response_finished
         \/ task' = "draining" /\ response_finished' = TRUE,
         UNCHANGED <<taskRest, open_frame, error_frame, entry, completion, verdict, response_acked>>
  PROVE  ExchangeInv'
<1>1. ~ response_finished /\ response_queued \in Nat /\ response_queued <= MaxData
  BY Facts DEF ResponseInv, TypeOK
<1>2. response_queued' \in 0 .. MaxData + 1 /\ response_finished' \in BOOLEAN
  <2>1. response_queued' \in 0 .. MaxData + 1
    BY <1>1, Facts
  <2>2. response_finished' \in BOOLEAN
    BY Facts DEF TypeOK
  <2> QED
    BY <2>1, <2>2
<1>3. response_acked \in 0 .. response_queued' /\ response_ack \in response_acked .. response_queued'
  BY <1>1, Facts DEF TypeOK
<1>4. TypeOK'
  BY <1>2, <1>3, Facts
     DEF TypeOK, Tasks, taskRest, bridgeRest, clientVars, routeVars, loopVars, upstreamVars
<1>5. RequestInv' /\ RequestComplete' = RequestComplete
  BY Facts DEF RequestInv, RequestComplete, Complete, taskRest, bridgeRest, clientVars, loopVars
<1>6. \A s \in response_got : s < response_queued'
  BY <1>1, Facts DEF ResponseInv, TypeOK, SeqNo
<1>7. ResponseInv'
  BY <1>1, <1>6, Facts DEF ResponseInv, taskRest, bridgeRest, clientVars
<1>8. BridgeInv'
  BY <1>5, Facts DEF BridgeInv, taskRest, bridgeRest, clientVars, routeVars, loopVars
<1>9. outcome # "ok" /\ verdict # "ok"
  BY <1>1, Facts DEF Agreement, ResponseComplete, Complete
<1>10. Agreement'
  BY <1>9, Facts DEF Agreement, taskRest, bridgeRest, clientVars, upstreamVars
<1> QED
  BY <1>4, <1>5, <1>7, <1>8, <1>10 DEF ExchangeInv

LEMMA PushChunkKeeps == ASSUME ExchangeInv, PushChunk PROVE ExchangeInv'
BY ResponseGrows DEF PushChunk

LEMMA FinishInputKeeps == ASSUME ExchangeInv, FinishInput PROVE ExchangeInv'
BY ResponseGrows DEF FinishInput

\* The task ends well when the last frame of the response is acknowledged.
LEMMA DrainedKeeps == ASSUME ExchangeInv, Drained PROVE ExchangeInv'
<1>1. /\ task = "draining" /\ response_acked = response_queued
      /\ task' = "ended" /\ verdict' = "ok"
      /\ UNCHANGED <<taskRest, open_frame, error_frame, entry, completion, response_queued,
                     response_finished, response_acked>>
  BY DEF Drained
<1>2. response_ack = response_queued
  BY <1>1, Facts DEF TypeOK
<1>3. ResponseComplete
  BY <1>1, <1>2, Facts DEF ResponseInv, ResponseComplete, Complete
<1>4. TypeOK'
  BY <1>1, Facts
     DEF TypeOK, Tasks, taskRest, bridgeRest, clientVars, routeVars, loopVars, upstreamVars
<1>5. RequestInv' /\ RequestComplete' = RequestComplete
  BY <1>1, Facts
     DEF RequestInv, RequestComplete, Complete, taskRest, bridgeRest, clientVars, loopVars
<1>6. ResponseInv' /\ ResponseComplete' = ResponseComplete
  BY <1>1, Facts DEF ResponseInv, ResponseComplete, Complete, taskRest, bridgeRest, clientVars
<1>7. BridgeInv'
  BY <1>1, <1>5, Facts DEF BridgeInv, taskRest, bridgeRest, clientVars, routeVars, loopVars
<1>8. Agreement'
  BY <1>1, <1>3, <1>5, <1>6, Facts DEF Agreement, taskRest, bridgeRest, clientVars, upstreamVars
<1> QED
  BY <1>4, <1>5, <1>6, <1>7, <1>8 DEF ExchangeInv

------------------------------------------------------------------------------
(* The theorems                                                            *)

LEMMA InitExchange == Init => ExchangeInv
<1> SUFFICES ASSUME Init PROVE ExchangeInv
  OBVIOUS
<1>1. MaxData \in Nat /\ MaxRotations \in Nat /\ BodySlots \in Nat
  BY ExchangeAssumption
<1>2. TypeOK
  <2>1. /\ 0 \in 0 .. MaxRotations /\ 0 \in 0 .. MaxData + 1 /\ 0 \in 0 .. MaxData
        /\ 0 \in 0 .. BodySlots /\ 0 \in 0 .. 0
    BY <1>1
  <2>2. /\ request_queued = 0 /\ request_acked = 0 /\ request_ack = 0
        /\ response_queued = 0 /\ response_acked = 0 /\ response_ack = 0
    BY DEF Init
  <2>3. /\ {open_frame, error_frame, cancel_frame} \subseteq {"unsent", "sent", "taken"}
        /\ request_got \subseteq SeqNo /\ response_got \subseteq SeqNo
    BY DEF Init
  <2> QED
    BY <2>1, <2>2, <2>3 DEF Init, TypeOK, Clients, Tasks, SeqNo
<1>3. RequestInv /\ ResponseInv /\ BridgeInv /\ Agreement
  BY <1>1 DEF Init, RequestInv, ResponseInv, BridgeInv, Agreement
<1> QED
  BY <1>2, <1>3 DEF ExchangeInv

LEMMA StepKeeps == ExchangeInv /\ [Next]_vars => ExchangeInv'
<1> SUFFICES ASSUME ExchangeInv, [Next]_vars PROVE ExchangeInv'
  OBVIOUS
<1>1. CASE ClientStep
  BY <1>1, InsertKeeps, OpenKeeps, AcceptedKeeps, QueueKeeps, TakeAckKeeps, TakeOpenKeeps,
     TakeResponseKeeps, ConsumedKeeps, BreaksKeeps, LeftKeeps, ClientFailsKeeps DEF ClientStep
<1>2. CASE LoopStep
  BY <1>2, HandleOpenKeeps, TakeRequestKeeps, HandOverKeeps, HandOverFailsKeeps, HandedOverKeeps,
     TakeResponseAckKeeps, TakeCancelKeeps, CancelTaskKeeps, CancelAllKeeps DEF LoopStep
<1>3. CASE UpstreamStep
  BY <1>3, UpstreamReadsKeeps, UpstreamSeesEndKeeps, UpstreamDropsKeeps DEF UpstreamStep
<1>4. CASE TaskStep
  BY <1>4, AnsweredKeeps, SendOpenKeeps, SetSenderKeeps, PushChunkKeeps, FinishInputKeeps,
     DrainedKeeps, TaskFailsKeeps, RemovedKeeps, RecordedKeeps DEF TaskStep
<1>5. CASE UNCHANGED vars
  <2>1. TypeOK'
    BY <1>5, Facts
       DEF vars, TypeOK, clientVars, routeVars, frameVars, bridgeVars, loopVars, upstreamVars,
           taskVars
  <2> QED
    BY <1>5, <2>1, Facts, QuietKeeps
       DEF vars, ResponseInv, BridgeInv, clientVars, routeVars, frameVars, bridgeVars, loopVars,
           upstreamVars, taskVars
<1> QED
  BY <1>1, <1>2, <1>3, <1>4, <1>5, RouteStepKeeps DEF Next

LEMMA ExchangeInvariant == Spec => []ExchangeInv
BY InitExchange, StepKeeps, PTL DEF Spec

\* Every variable of the two ends keeps its type, in every world: acknowledgements
\* never exceed what was sent, nor the event loop what a body may hold.
THEOREM TypesHold == Spec => []TypeOK
BY ExchangeInvariant, PTL DEF ExchangeInv

\* What run_stream_inner reports as a success is a success on both sides: the page
\* has the head and the whole response, the bridge the whole request.
THEOREM SuccessIsConfirmed == Spec => []OkIsConfirmed
<1>1. ExchangeInv => OkIsConfirmed
  <2> SUFFICES ASSUME ExchangeInv PROVE OkIsConfirmed
    OBVIOUS
  <2> QED
    BY WholeIsComplete, Facts DEF OkIsConfirmed, Agreement
<1> QED
  BY <1>1, ExchangeInvariant, PTL

\* A response that run_upstream has drained is at the client to its End frame,
\* whatever became of the transaction there.
THEOREM DeliveriesReceived == Spec => []DeliveredIsReceived
<1>1. ExchangeInv => DeliveredIsReceived
  <2> SUFFICES ASSUME ExchangeInv PROVE DeliveredIsReceived
    OBVIOUS
  <2> QED
    BY WholeIsComplete, Facts DEF DeliveredIsReceived, Agreement
<1> QED
  BY <1>1, ExchangeInvariant, PTL

\* handle_message closes the body of the upstream request only when all of it has
\* arrived; any earlier end comes from the removal of the transaction.
THEOREM NoTruncationInPlace == Spec => []TruncationNeedsRemoval
<1>1. ExchangeInv => TruncationNeedsRemoval
  BY DEF ExchangeInv, Agreement, TruncationNeedsRemoval
<1> QED
  BY <1>1, ExchangeInvariant, PTL

==============================================================================
