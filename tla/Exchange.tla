------------------------------- MODULE Exchange -------------------------------
(***************************************************************************)
(* One streamed transaction from its opening to its end on both sides: the *)
(* client's run_stream with the return route its answers come by, and the  *)
(* bridge's transaction with its event loop and its upstream task.         *)
(*                                                                         *)
(* The bodies appear by what BodyStream shows of them: a frame that was    *)
(* queued is sent until it is acknowledged, so it may arrive at any later  *)
(* time, more than once, or never; of the acknowledgements only the latest *)
(* matters.  The control frames ResponseOpen, Error and Cancel are sent    *)
(* once.  Frame s of a body is its s-th item, the last one the End.        *)
(***************************************************************************)
EXTENDS Integers, FiniteSets

CONSTANTS
  Worlds,        \* what may go wrong, see below
  MaxData,       \* bound: data frames of a body
  AckStride,     \* 4 in the code
  BodySlots,     \* capacity of the channel to the upstream request
  MaxRotations   \* bound: deaths of the client's return route

(* "calm": nothing fails, nobody cancels, no frame is reordered around      *)
(*         ResponseOpen, and the upstream answers after it read the request *)
(* "early": the same, but the upstream answers when it likes                *)
(* "rough": everything the code has an error path for                       *)
ASSUME ExchangeAssumption ==
  /\ Worlds \subseteq {"calm", "early", "rough"}
  /\ MaxData \in Nat /\ AckStride \in Nat \ {0} /\ BodySlots \in Nat \ {0}
  /\ MaxRotations \in Nat

VARIABLES
  world, has_body,
  client,           \* run_stream
  outcome,          \* history: how it returned
  registered,       \* its entry in the client's transactions
  dispatcher,       \* dispatch_updates: "live", "cleared" or "ended"
  current_route, reply_route,
  request_queued, request_finished, request_acked,
  head,             \* response_head_sent
  response_got, response_ack,
  call,             \* the AppCall with the opening
  open_frame, error_frame, cancel_frame,
  entry,            \* the bridge's transaction: "none", "open" or "gone"
  completion,       \* its identifier in the completion store
  request_got, request_ack,
  loop,             \* the bridge's event loop
  left,             \* chunks it still has to hand over
  handled,          \* the request frame it is about
  upstream_body,    \* the sender in the transaction: "none", "open" or "closed"
  chunks, reading,  \* the channel it feeds, and whether its receiver is alive
  body_seen,        \* history: the end of the request as the upstream saw it
  task, verdict,    \* run_upstream, and how it returned
  response_queued, response_finished, response_acked

routeVars == <<registered, dispatcher, current_route>>
clientVars == <<client, outcome, reply_route, request_queued, request_finished, request_acked,
                head, response_got, response_ack>>
frameVars == <<call, open_frame, error_frame, cancel_frame>>
loopVars == <<request_got, request_ack, loop, left, handled>>
upstreamVars == <<chunks, reading, body_seen>>
taskVars == <<task, verdict, response_queued, response_finished, response_acked>>
bridgeVars == <<entry, completion, loopVars, upstream_body, upstreamVars, taskVars>>
vars == <<world, has_body, clientVars, routeVars, frameVars, bridgeVars>>

------------------------------------------------------------------------------
Rough == world = "rough"

SeqNo == 0 .. MaxData

\* How many frames from the first on have arrived.
Contiguous(got) == CHOOSE n \in 0 .. MaxData + 1 : n \notin got /\ \A s \in 0 .. n - 1 : s \in got

Whole(got, queued, finished) == finished /\ Contiguous(got) = queued

\* Mutant of AckDue: the end of a body alone is no reason.
AckDueInStride(got, s, whole) ==
  (\E t \in got : t > Contiguous(got)) \/ s % AckStride = AckStride - 1

\* output.completed || selective # 0 || sequence % 4 == 3
AckDue(got, s, whole) == whole \/ (\E t \in got : t > Contiguous(got)) \/ s % AckStride = AckStride - 1

\* Where run_stream waits for the consumer of its response to take a chunk, which
\* it does inside a branch of its select!: the deadline, a cancellation and the
\* events have to wait as well.  In "handing_acked" an acknowledgement is to follow.
Handing == {"handing", "handing_acked"}

Clients == {"start", "inserted", "calling", "running", "leaving", "over"} \union Handing
Tasks == {"none", "requesting", "answered", "opened", "streaming", "draining", "ended", "reported",
          "done", "aborted"}

TypeOK ==
  /\ world \in Worlds /\ has_body \in BOOLEAN
  /\ client \in Clients /\ outcome \in {"none", "ok", "error"}
  /\ registered \in BOOLEAN /\ dispatcher \in {"live", "cleared", "ended"}
  /\ current_route \in 0 .. MaxRotations /\ reply_route \in 0 .. MaxRotations
  /\ request_queued \in 0 .. MaxData + 1 /\ request_finished \in BOOLEAN
  /\ request_acked \in 0 .. request_queued /\ request_ack \in request_acked .. request_queued
  /\ head \in BOOLEAN /\ response_got \subseteq SeqNo
  /\ call \in {"none", "sent", "accepted", "rejected"}
  /\ {open_frame, error_frame, cancel_frame} \subseteq {"unsent", "sent", "taken"}
  /\ entry \in {"none", "open", "gone"} /\ completion \in {"none", "inflight", "done"}
  /\ request_got \subseteq SeqNo
  /\ loop \in {"idle", "sending", "cancelling"} /\ left \in 0 .. MaxData /\ handled \in SeqNo
  /\ upstream_body \in {"none", "open", "closed"}
  /\ chunks \in 0 .. BodySlots /\ reading \in BOOLEAN
  /\ body_seen \in {"none", "whole", "truncated", "broken"}
  /\ task \in Tasks /\ verdict \in {"none", "ok", "error"}
  /\ response_queued \in 0 .. MaxData + 1 /\ response_finished \in BOOLEAN
  /\ response_acked \in 0 .. response_queued /\ response_ack \in response_acked .. response_queued

Init ==
  /\ world \in Worlds /\ has_body \in BOOLEAN
  /\ client = "start" /\ outcome = "none"
  /\ registered = FALSE /\ dispatcher = "live" /\ current_route = 0 /\ reply_route = 0
  /\ request_queued = 0 /\ request_finished = FALSE /\ request_acked = 0
  /\ head = FALSE /\ response_got = {} /\ response_ack = 0
  /\ call = "none" /\ open_frame = "unsent" /\ error_frame = "unsent" /\ cancel_frame = "unsent"
  /\ entry = "none" /\ completion = "none"
  /\ request_got = {} /\ request_ack = 0 /\ loop = "idle" /\ left = 0 /\ handled = 0
  /\ upstream_body = "none" /\ chunks = 0 /\ reading = FALSE /\ body_seen = "none"
  /\ task = "none" /\ verdict = "none"
  /\ response_queued = 0 /\ response_finished = FALSE /\ response_acked = 0

------------------------------------------------------------------------------
(* The client: run_stream                                                  *)

clientRest == <<world, has_body, dispatcher, current_route, bridgeVars>>

\* The entry is made before the return route is read.
Insert ==
  /\ client = "start"
  /\ client' = "inserted" /\ registered' = TRUE
  /\ UNCHANGED <<outcome, reply_route, request_queued, request_finished, request_acked, head,
                 response_got, response_ack, frameVars, clientRest>>

Open ==
  /\ client = "inserted"
  /\ client' = "calling" /\ call' = "sent" /\ reply_route' = current_route
  /\ UNCHANGED <<outcome, registered, request_queued, request_finished, request_acked, head,
                 response_got, response_ack, open_frame, error_frame, cancel_frame, clientRest>>

\* run_stream_inner returns; run_stream has the entry to remove.
Leave(how) ==
  /\ client' = "leaving" /\ outcome' = how
  /\ UNCHANGED <<reply_route, request_queued, request_finished, request_acked, head,
                 response_got, response_ack>>

Accepted ==
  /\ client = "calling" /\ call = "accepted"
  /\ client' = "running"
  /\ UNCHANGED <<outcome, reply_route, request_queued, request_finished, request_acked, head,
                 response_got, response_ack, registered, frameVars, clientRest>>

Refused ==
  /\ client = "calling" /\ call = "rejected"
  /\ Leave("error")
  /\ UNCHANGED <<registered, frameVars, clientRest>>

\* The AppCall times out or fails, whatever becomes of the opening.
CallFails ==
  /\ Rough /\ client = "calling"
  /\ Leave("error")
  /\ UNCHANGED <<registered, frameVars, clientRest>>

\* A chunk of the request or its end is queued and dispatched.
Queue ==
  /\ client = "running" /\ has_body /\ ~ request_finished
  /\ request_queued' = request_queued + 1
  /\ \/ request_queued < MaxData /\ UNCHANGED request_finished
     \/ request_finished' = TRUE
  /\ UNCHANGED <<client, outcome, reply_route, request_acked, head, response_got, response_ack,
                 registered, frameVars, clientRest>>

\* dispatch_updates hands a frame to the transaction.
Reachable ==
  /\ client = "running" /\ registered
  /\ dispatcher = "live" /\ reply_route = current_route

TakeAck ==
  /\ Reachable /\ request_ack > request_acked
  /\ request_acked' = request_ack
  /\ UNCHANGED <<client, outcome, reply_route, request_queued, request_finished, head,
                 response_got, response_ack, registered, frameVars, clientRest>>

\* The consumer's channel has room for its first event, the head.
TakeOpen ==
  /\ Reachable /\ open_frame = "sent"
  /\ open_frame' = "taken" /\ head' = TRUE
  /\ UNCHANGED <<client, outcome, reply_route, request_queued, request_finished, request_acked,
                 response_got, response_ack, registered, call, error_frame, cancel_frame, clientRest>>

\* What there is of the response is acknowledged.
AcknowledgeResponse ==
  response_ack' = IF Contiguous(response_got') > response_ack
                  THEN Contiguous(response_got') ELSE response_ack

\* A frame of the response, which is acknowledged after the consumer's channel took
\* what it releases.  The decoder decides which frame of those before it, the End
\* included, gives a chunk; the channel may be full then.
Receive(s, due) ==
  /\ response_got' = response_got \union {s}
  /\ \/ /\ IF due THEN AcknowledgeResponse ELSE UNCHANGED response_ack
        /\ UNCHANGED client
     \/ /\ Contiguous(response_got') > Contiguous(response_got)
        /\ client' = IF due THEN "handing_acked" ELSE "handing"
        /\ UNCHANGED response_ack
  /\ UNCHANGED <<outcome, reply_route, request_queued, request_finished, request_acked, head>>

\* A response frame before its ResponseOpen ends the transaction.
TakeResponse(s) ==
  /\ Reachable /\ s < response_queued
  /\ LET got == response_got \union {s}
         due == AckDue(got, s, Whole(got, response_queued, response_finished))
     IN IF head THEN Receive(s, due) ELSE Rough /\ Leave("error")
  /\ UNCHANGED <<registered, frameVars, clientRest>>

\* The consumer reads, and the loop goes on.
Consumed ==
  /\ client \in Handing
  /\ client' = "running"
  /\ UNCHANGED response_got
  /\ IF client = "handing_acked" THEN AcknowledgeResponse ELSE UNCHANGED response_ack
  /\ UNCHANGED <<outcome, reply_route, request_queued, request_finished, request_acked, head,
                 registered, frameVars, clientRest>>

\* The consumer drops its end of the channel.
ConsumerGone ==
  /\ Rough /\ client \in Handing
  /\ Leave("error")
  /\ UNCHANGED <<registered, frameVars, clientRest>>

TakeError ==
  /\ Reachable /\ error_frame = "sent"
  /\ error_frame' = "taken"
  /\ Leave("error")
  /\ UNCHANGED <<registered, call, open_frame, cancel_frame, clientRest>>

\* Its entry was cleared: the event channel is closed.
ChannelCloses ==
  /\ client = "running" /\ ~ registered
  /\ Leave("error")
  /\ UNCHANGED <<registered, frameVars, clientRest>>

\* Mutant of Breaks: the response alone ends the transaction.
BreaksOnResponse ==
  /\ client = "running"
  /\ Whole(response_got, response_queued, response_finished)
  /\ Leave("ok")
  /\ UNCHANGED <<registered, frameVars, clientRest>>

\* Both directions are through: the loop is left.
Breaks ==
  /\ client = "running"
  /\ has_body => request_finished /\ request_acked = request_queued
  /\ Whole(response_got, response_queued, response_finished)
  /\ Leave("ok")
  /\ UNCHANGED <<registered, frameVars, clientRest>>

\* Mutant of ClientTimesOut: the deadline is the response's.
ClientTimesOutAfterHead ==
  /\ Rough /\ client = "running" /\ head
  /\ Leave("error")
  /\ UNCHANGED <<registered, frameVars, clientRest>>

\* Cancelled, disconnected, a send that failed, or at last the deadline.  All of
\* them are seen where the loop selects, so never while it waits for its consumer.
ClientTimesOut ==
  /\ Rough /\ client = "running"
  /\ Leave("error")
  /\ UNCHANGED <<registered, frameVars, clientRest>>

\* The Cancel frame is sent after a failure only, and once.
Left ==
  /\ client = "leaving"
  /\ client' = "over" /\ registered' = FALSE
  /\ \/ outcome = "error" /\ cancel_frame' = "sent"
     \/ (outcome = "ok" \/ Rough) /\ UNCHANGED cancel_frame
  /\ UNCHANGED <<outcome, reply_route, request_queued, request_finished, request_acked, head,
                 response_got, response_ack, call, open_frame, error_frame, clientRest>>

------------------------------------------------------------------------------
(* The client's return route: dispatch_updates                             *)

routeRest == <<world, has_body, clientVars, frameVars, bridgeVars>>

\* Every transaction is dropped before there is a new route.
RouteDies ==
  /\ Rough /\ dispatcher = "live" /\ current_route < MaxRotations
  /\ dispatcher' = "cleared" /\ registered' = FALSE
  /\ UNCHANGED <<current_route, routeRest>>

RouteReplaced ==
  /\ dispatcher = "cleared"
  /\ dispatcher' = "live" /\ current_route' = current_route + 1
  /\ UNCHANGED <<registered, routeRest>>

\* A failed allocation ends dispatch_updates for good, and so does a payload that
\* does not decode or the end of the events; the transactions are left as they are.
RouteLost ==
  /\ dispatcher = "cleared" \/ (Rough /\ dispatcher = "live")
  /\ dispatcher' = "ended"
  /\ UNCHANGED <<registered, current_route, routeRest>>

------------------------------------------------------------------------------
(* The bridge: the opening                                                 *)

bridgeRest == <<world, has_body, clientVars, routeVars>>

\* handle_open with all its steps (BridgeTransactions has them one by one).  An
\* opening whose reply fails is undone, and may have been accepted all the same.
HandleOpen ==
  /\ call = "sent"
  /\ \/ /\ call' = "accepted"
        /\ entry' = "open" /\ completion' = "inflight"
        /\ upstream_body' = IF has_body THEN "open" ELSE "none"
        /\ reading' = has_body
        /\ body_seen' = IF has_body THEN "none" ELSE "whole"
        /\ task' = "requesting"
     \/ /\ Rough /\ call' \in {"rejected", "accepted"}
        /\ UNCHANGED <<entry, completion, upstream_body, reading, body_seen, task>>
  /\ UNCHANGED <<bridgeRest, open_frame, error_frame, cancel_frame, loopVars, chunks, verdict,
                 response_queued, response_finished, response_acked>>

------------------------------------------------------------------------------
(* The bridge: handle_message                                              *)

loopRest == <<bridgeRest, call, open_frame, error_frame, upstreamVars>>

\* The acknowledgement of what has arrived, if it is due.
Acknowledge(got, s) ==
  request_ack' =
    IF AckDue(got, s, Whole(got, request_queued, request_finished)) /\ Contiguous(got) > request_ack
    THEN Contiguous(got) ELSE request_ack

\* Chunks that the frame releases; the End frame itself carries none.
Released(got) ==
  LET data(n) == IF request_finished /\ n = request_queued THEN n - 1 ELSE n
  IN data(Contiguous(got)) - data(Contiguous(request_got))

\* Mutant of TakeRequest: the End frame closes the body before the gap is filled.
TakeRequestClosesAtEnd(s) ==
  /\ loop = "idle" /\ entry = "open"
  /\ s < request_queued
  /\ request_got' = request_got \union {s}
  /\ IF Released(request_got') > 0
     THEN /\ loop' = "sending" /\ left' = Released(request_got') /\ handled' = s
          /\ UNCHANGED <<request_ack, upstream_body>>
     ELSE /\ Acknowledge(request_got', s)
          /\ upstream_body' = IF request_finished /\ s + 1 = request_queued
                              THEN "closed" ELSE upstream_body
          /\ UNCHANGED <<loop, left, handled>>
  /\ UNCHANGED <<loopRest, cancel_frame, entry, completion, taskVars>>

\* A frame of the request.  With chunks to hand over the loop waits for their
\* channel, without it is done at once.  For an ended transaction, or one that
\* the completion store knows, the frame is ignored.
TakeRequest(s) ==
  /\ loop = "idle" /\ entry = "open"
  /\ s < request_queued
  /\ request_got' = request_got \union {s}
  /\ IF Released(request_got') > 0
     THEN /\ loop' = "sending" /\ left' = Released(request_got') /\ handled' = s
          /\ UNCHANGED <<request_ack, upstream_body>>
     ELSE /\ Acknowledge(request_got', s)
          /\ upstream_body' = IF Whole(request_got', request_queued, request_finished)
                              THEN "closed" ELSE upstream_body
          /\ UNCHANGED <<loop, left, handled>>
  /\ UNCHANGED <<loopRest, cancel_frame, entry, completion, taskVars>>

HandOver ==
  /\ loop = "sending" /\ left > 0
  /\ reading /\ upstream_body = "open" /\ chunks < BodySlots
  /\ chunks' = chunks + 1 /\ left' = left - 1
  /\ UNCHANGED <<bridgeRest, frameVars, entry, completion, request_got, request_ack, loop, handled,
                 upstream_body, reading, body_seen, taskVars>>

\* Mutant of HandOverFails: a receiver that went away is not noticed.
HandOverBlocks ==
  /\ loop = "sending" /\ left > 0 /\ upstream_body # "open"
  /\ loop' = "idle" /\ left' = 0
  /\ UNCHANGED <<loopRest, cancel_frame, entry, completion, request_got, request_ack, handled,
                 upstream_body, taskVars>>

\* The upstream request is gone or its body closed: no acknowledgement.
HandOverFails ==
  /\ loop = "sending" /\ left > 0
  /\ ~ reading \/ upstream_body # "open"
  /\ loop' = "idle" /\ left' = 0
  /\ UNCHANGED <<loopRest, cancel_frame, entry, completion, request_got, request_ack, handled,
                 upstream_body, taskVars>>

HandedOver ==
  /\ loop = "sending" /\ left = 0
  /\ loop' = "idle"
  /\ Acknowledge(request_got, handled)
  /\ upstream_body' = IF Whole(request_got, request_queued, request_finished)
                      THEN "closed" ELSE upstream_body
  /\ UNCHANGED <<loopRest, cancel_frame, entry, completion, request_got, left, handled, taskVars>>

\* An acknowledgement of the response; before response_sender is set it is an
\* error, and without effect.
TakeResponseAck ==
  /\ loop = "idle" /\ entry = "open"
  /\ task \in {"streaming", "draining"}
  /\ response_ack > response_acked
  /\ response_acked' = response_ack
  /\ UNCHANGED <<loopRest, cancel_frame, entry, completion, loopVars, upstream_body, task, verdict,
                 response_queued, response_finished>>

\* cancel: the entry and the body's sender go first.  Cancelling a transaction
\* that ended, or never came, changes nothing.
TakeCancel ==
  /\ loop = "idle" /\ cancel_frame = "sent"
  /\ cancel_frame' = "taken"
  /\ \/ /\ entry = "open"
        /\ entry' = "gone" /\ loop' = "cancelling"
        /\ upstream_body' = IF has_body THEN "closed" ELSE "none"
     \/ /\ entry # "open"
        /\ UNCHANGED <<entry, loop, upstream_body>>
  /\ UNCHANGED <<loopRest, completion, request_got, request_ack, left, handled, taskVars>>

TaskOver == task \in {"done", "aborted"}

\* Then the task is aborted and the end recorded.
CancelTask ==
  /\ loop = "cancelling"
  /\ loop' = "idle" /\ completion' = "done"
  /\ task' = IF TaskOver THEN task ELSE "aborted"
  /\ UNCHANGED <<loopRest, cancel_frame, entry, request_got, request_ack, left, handled,
                 upstream_body, verdict, response_queued, response_finished, response_acked>>

\* cancel_all, when the bridge's own route died.
CancelAll ==
  /\ Rough /\ loop = "idle" /\ entry = "open"
  /\ entry' = "gone" /\ completion' = "done" /\ task' = IF TaskOver THEN task ELSE "aborted"
  /\ UNCHANGED <<loopRest, cancel_frame, loopVars, upstream_body, verdict, response_queued,
                 response_finished, response_acked>>

------------------------------------------------------------------------------
(* The upstream's end of the request body (external)                       *)

upstreamRest == <<bridgeRest, frameVars, entry, completion, loopVars, upstream_body, taskVars>>

UpstreamReads ==
  /\ reading /\ chunks > 0
  /\ chunks' = chunks - 1
  /\ UNCHANGED <<upstreamRest, reading, body_seen>>

\* The sender was taken, or went with the last reference to the transaction.
SenderGone == upstream_body = "closed" \/ (entry = "gone" /\ TaskOver /\ loop # "sending")

\* The end of the channel is the end of a chunked body, whatever its reason.
UpstreamSeesEnd ==
  /\ reading /\ chunks = 0 /\ SenderGone
  /\ reading' = FALSE
  /\ body_seen' = IF Whole(request_got, request_queued, request_finished)
                  THEN "whole" ELSE "truncated"
  /\ UNCHANGED <<upstreamRest, chunks>>

\* The connection fails, or is dropped with the task that used it.
UpstreamDrops ==
  /\ reading
  /\ Rough \/ TaskOver
  /\ reading' = FALSE /\ chunks' = 0 /\ body_seen' = "broken"
  /\ UNCHANGED upstreamRest

------------------------------------------------------------------------------
(* The bridge: run_upstream and the task around it                         *)

taskRest == <<bridgeRest, call, cancel_frame, loopVars, upstream_body, upstreamVars>>

Answered ==
  /\ task = "requesting"
  /\ world = "calm" => body_seen = "whole"
  /\ task' = "answered"
  /\ UNCHANGED <<taskRest, open_frame, error_frame, entry, completion, verdict, response_queued,
                 response_finished, response_acked>>

\* ResponseOpen goes out; response_sender is set after it.
SendOpen ==
  /\ task = "answered"
  /\ task' = "opened" /\ open_frame' = "sent"
  /\ UNCHANGED <<taskRest, error_frame, entry, completion, verdict, response_queued,
                 response_finished, response_acked>>

SetSender ==
  /\ task = "opened"
  /\ task' = "streaming"
  /\ UNCHANGED <<taskRest, open_frame, error_frame, entry, completion, verdict, response_queued,
                 response_finished, response_acked>>

PushChunk ==
  /\ task = "streaming" /\ response_queued < MaxData
  /\ response_queued' = response_queued + 1
  /\ UNCHANGED <<taskRest, open_frame, error_frame, entry, completion, task, verdict,
                 response_finished, response_acked>>

FinishInput ==
  /\ task = "streaming"
  /\ task' = "draining"
  /\ response_queued' = response_queued + 1 /\ response_finished' = TRUE
  /\ UNCHANGED <<taskRest, open_frame, error_frame, entry, completion, verdict, response_acked>>

\* Mutant of Drained: the last frame need not be acknowledged.
DrainedOneShort ==
  /\ task = "draining" /\ response_acked + 1 >= response_queued
  /\ task' = "ended" /\ verdict' = "ok"
  /\ UNCHANGED <<taskRest, open_frame, error_frame, entry, completion, response_queued,
                 response_finished, response_acked>>

Drained ==
  /\ task = "draining" /\ response_acked = response_queued
  /\ task' = "ended" /\ verdict' = "ok"
  /\ UNCHANGED <<taskRest, open_frame, error_frame, entry, completion, response_queued,
                 response_finished, response_acked>>

\* The upstream or a send fails, or the deadline passes.
TaskFails ==
  /\ Rough /\ task \in {"requesting", "answered", "opened", "streaming", "draining"}
  /\ task' = "ended" /\ verdict' = "error"
  /\ UNCHANGED <<taskRest, open_frame, error_frame, entry, completion, response_queued,
                 response_finished, response_acked>>

\* The entry goes before the Error frame, which is sent once or lost.
Removed ==
  /\ task = "ended"
  /\ task' = "reported"
  /\ entry' = "gone"
  /\ \/ verdict = "error" /\ error_frame' = "sent"
     \/ (verdict = "ok" \/ Rough) /\ UNCHANGED error_frame
  /\ UNCHANGED <<taskRest, open_frame, completion, verdict, response_queued, response_finished,
                 response_acked>>

\* Mutant of Recorded: a failed transaction stays in flight.
RecordedOnSuccess ==
  /\ task = "reported"
  /\ task' = "done" /\ completion' = IF verdict = "ok" THEN "done" ELSE completion
  /\ UNCHANGED <<taskRest, open_frame, error_frame, entry, verdict, response_queued,
                 response_finished, response_acked>>

Recorded ==
  /\ task = "reported"
  /\ task' = "done" /\ completion' = "done"
  /\ UNCHANGED <<taskRest, open_frame, error_frame, entry, verdict, response_queued,
                 response_finished, response_acked>>

------------------------------------------------------------------------------
ClientStep ==
  \/ Insert \/ Open \/ Accepted \/ Refused \/ CallFails
  \/ Queue \/ TakeAck \/ TakeOpen \/ (\E s \in SeqNo : TakeResponse(s)) \/ Consumed
  \/ ConsumerGone \/ TakeError \/ ChannelCloses \/ Breaks \/ ClientTimesOut \/ Left

RouteStep == RouteDies \/ RouteReplaced \/ RouteLost

LoopStep ==
  \/ HandleOpen \/ (\E s \in SeqNo : TakeRequest(s)) \/ HandOver \/ HandOverFails \/ HandedOver
  \/ TakeResponseAck \/ TakeCancel \/ CancelTask \/ CancelAll

UpstreamStep == UpstreamReads \/ UpstreamSeesEnd \/ UpstreamDrops

TaskStep ==
  \/ Answered \/ SendOpen \/ SetSender \/ PushChunk \/ FinishInput \/ Drained
  \/ TaskFails \/ Removed \/ Recorded

Next == ClientStep \/ RouteStep \/ LoopStep \/ UpstreamStep \/ TaskStep

Spec == Init /\ [][Next]_vars

\* Everybody runs.  Whether frames arrive, requests and responses end, the upstream
\* reads and the client's consumer reads is up to the world; in a rough one only
\* the deadlines are sure: the bridge's wherever its task waits, the client's where
\* its loop selects, and Veilid's own for the AppCall and the sends.
Fairness ==
  /\ WF_vars(Insert) /\ WF_vars(Open) /\ WF_vars(Accepted) /\ WF_vars(Refused) /\ WF_vars(CallFails)
  /\ WF_vars(ChannelCloses) /\ WF_vars(Breaks) /\ WF_vars(ClientTimesOut) /\ WF_vars(Left)
  /\ WF_vars(HandleOpen) /\ WF_vars(HandOverFails) /\ WF_vars(HandedOver) /\ WF_vars(CancelTask)
  /\ WF_vars(TaskFails) /\ WF_vars(Removed) /\ WF_vars(Recorded) /\ WF_vars(Drained)
  /\ WF_vars(TaskOver /\ UpstreamDrops)
  /\ WF_vars(~ Rough /\ Queue) /\ WF_vars(~ Rough /\ TakeAck) /\ WF_vars(~ Rough /\ TakeOpen)
  /\ WF_vars(~ Rough /\ Consumed)
  /\ \A s \in SeqNo : WF_vars(~ Rough /\ TakeResponse(s)) /\ WF_vars(~ Rough /\ TakeRequest(s))
  /\ WF_vars(~ Rough /\ HandOver) /\ WF_vars(~ Rough /\ TakeResponseAck)
  /\ WF_vars(~ Rough /\ UpstreamReads) /\ WF_vars(~ Rough /\ UpstreamSeesEnd)
  /\ WF_vars(~ Rough /\ Answered) /\ WF_vars(SendOpen) /\ WF_vars(SetSender)
  /\ WF_vars(~ Rough /\ FinishInput)

FairSpec == Spec /\ Fairness

------------------------------------------------------------------------------
(* Properties                                                              *)

\* A transaction that the client reports as a success is one both sides agree
\* on: the page got the head and every chunk up to the End that the bridge sent,
\* and the bridge has the whole request (run_stream_inner).
OkIsConfirmed ==
  outcome = "ok" =>
    /\ head /\ Whole(response_got, response_queued, response_finished)
    /\ has_body => Whole(request_got, request_queued, request_finished)

\* A response that the bridge counts as delivered was received to its end.
DeliveredIsReceived ==
  verdict = "ok" => Whole(response_got, response_queued, response_finished)

\* The upstream sees the end of a request body that is not all of it only after
\* the transaction left the bridge: a gap never closes the body (handle_message).
TruncationNeedsRemoval == body_seen = "truncated" => entry = "gone"

\* Whatever fails, and even when the transaction was registered while the return
\* route was being replaced, run_stream comes to its end, with one exception: for a
\* consumer that neither reads nor leaves it waits beyond its deadline.
ClientEnds == Rough => <>(client = "over") \/ <>[](client \in Handing)

\* The bridge forgets every transaction it accepted and records its end.
BridgeEnds == Rough /\ entry = "open" ~> entry = "gone" /\ completion = "done"

\* A request chunk that the upstream does not take holds up the event loop, with
\* it all other transactions and their cancellations, but not for ever.
EventLoopIsFreed == loop # "idle" ~> loop = "idle"

\* Without failures and cancellations a transaction succeeds.
UndisturbedSucceeds == world # "rough" ~> outcome = "ok"

==============================================================================
