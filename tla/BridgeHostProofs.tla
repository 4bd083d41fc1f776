--------------------------- MODULE BridgeHostProofs ---------------------------
(***************************************************************************)
(* Proofs about the event loop of the bridge and its requests to           *)
(* veilid-server: answers belong to their requests, the files follow the   *)
(* allocation, and a call is replied to once.  The first part is about the *)
(* remote transport alone, the second about the steps of the bridge.       *)
(***************************************************************************)
EXTENDS BridgeHost, SequenceTheorems, TLAPS

Sent(r) == request[r] # "unsent"

\* A request is written at most once, so what veilid-server did with it is never
\* undone, and only its own answer makes it succeed.
Matched ==
  /\ \A r \in Requests : request[r] \in {"unsent", "queueing"} =>
       server[r] = "unseen" /\ \A i \in 1 .. Len(queue) : queue[i] # r
  /\ \A i \in 1 .. Len(queue) : server[queue[i]] = "unseen"
  /\ \A i, j \in 1 .. Len(queue) : queue[i] = queue[j] => i = j
  /\ \A r \in answered : server[r] = "answered"
  /\ \A r \in Requests : request[r] = "ok" => server[r] = "answered"

\* The files are as far as the loop is with the route it allocated last.
Published ==
  /\ files["json"] <= files["base64"] /\ files["base64"] <= files["blob"]
  /\ files["blob"] <= allocation
  /\ loop \in {"base64", "json", "activating", "serving"} => files["blob"] = allocation
  /\ loop \in {"json", "activating", "serving"} => files["base64"] = allocation
  /\ loop \in {"activating", "serving"} => files["json"] = allocation
  /\ loop = "serving" => active_route = allocation

\* Only a route that was asked for exists, and one that has been reported dead
\* can still be replaced.
Replaceable ==
  /\ \A r \in Routes : Sent(Allocate(r)) => r <= allocation
  /\ \A r \in alive : r <= allocation
  /\ \A i \in 1 .. Len(events) : events[i].kind = "Dead" => events[i].route < MaxTurns
  /\ loop = "crashed" => allocation < MaxTurns

\* Nothing is sent for a call that can still be replied to.
Replied ==
  \A c \in Calls :
    /\ called[c] = 0 \/ c \in pending_calls => ~ Sent(Reply(c, 1)) /\ ~ Sent(Reply(c, 2))
    /\ c \in pending_calls => called[c] # 0
    /\ ~ (Sent(Reply(c, 1)) /\ Sent(Reply(c, 2)))
    /\ handler[c] = "replied" => \E n \in 1 .. 2 : server[Reply(c, n)] = "answered"

\* What the transport owes its caller in one step.
Kept ==
  /\ RemoteTypeOK' /\ Matched'
  /\ \A r \in Requests : server[r] = "answered" => server'[r] = "answered"

HostInv == TypeOK /\ Matched /\ Published /\ Replaceable /\ Replied

------------------------------------------------------------------------------
(* The transport                                                           *)

LEMMA SendKeeps ==
  ASSUME RemoteTypeOK, Matched, NEW r \in Requests, Send(r)
  PROVE  /\ Kept
         /\ \A q \in Requests : Sent(q)' => Sent(q) \/ q = r
BY DEF RemoteTypeOK, Matched, Send, Result, Kept, Sent, Results

LEMMA EnqueueKeeps ==
  ASSUME RemoteTypeOK, Matched, NEW r \in Requests, Enqueue(r)
  PROVE  Kept
<1>1. /\ request[r] = "queueing" /\ request' = [request EXCEPT ![r] = "waiting"]
      /\ queue \in Seq(Requests) /\ queue' = Append(queue, r) /\ Len(queue) < QueueSlots
      /\ UNCHANGED <<pending, writer, reader, server, answered>>
  BY DEF Enqueue, Result, RemoteTypeOK
<1>2. /\ queue' \in Seq(Requests) /\ Len(queue') = Len(queue) + 1 /\ Len(queue) \in Nat
      /\ queue'[Len(queue) + 1] = r
      /\ \A i \in 1 .. Len(queue) : queue'[i] = queue[i] /\ queue[i] \in Requests
  BY <1>1
<1>3. RemoteTypeOK'
  BY <1>1, <1>2, RemoteAssumption DEF RemoteTypeOK
<1>4. server[r] = "unseen" /\ \A i \in 1 .. Len(queue) : queue[i] # r
  BY <1>1 DEF Matched
<1>5. \A i \in 1 .. Len(queue') :
        \/ i = Len(queue) + 1 /\ queue'[i] = r
        \/ i \in 1 .. Len(queue) /\ queue'[i] = queue[i] /\ queue[i] # r
  BY <1>2, <1>4
<1>6. ASSUME NEW q \in Requests, request'[q] \in {"unsent", "queueing"}
      PROVE  server'[q] = "unseen" /\ \A i \in 1 .. Len(queue') : queue'[i] # q
  <2>1. q # r /\ request'[q] = request[q]
    BY <1>1, <1>6 DEF RemoteTypeOK
  <2>2. server[q] = "unseen" /\ \A i \in 1 .. Len(queue) : queue[i] # q
    BY <1>6, <2>1 DEF Matched
  <2> QED
    BY <1>1, <1>5, <2>1, <2>2
<1>7. \A i \in 1 .. Len(queue') : server'[queue'[i]] = "unseen"
  BY <1>1, <1>4, <1>5 DEF Matched
<1>8. \A i, j \in 1 .. Len(queue') : queue'[i] = queue'[j] => i = j
  BY <1>5 DEF Matched
<1>9. \A q \in Requests : request'[q] = "ok" => server'[q] = "answered"
  BY <1>1 DEF Matched, RemoteTypeOK
<1> QED
  BY <1>1, <1>3, <1>6, <1>7, <1>8, <1>9 DEF Matched, Kept

\* The ways a request comes back.
LEMMA ReturnKeeps ==
  ASSUME RemoteTypeOK, Matched, NEW r \in Requests,
         EnqueueFails(r) \/ ReturnsAnswer(r) \/ ReturnsClosed(r) \/ TimesOut(r)
  PROVE  Kept
<1>1. PICK result \in Results :
        /\ request[r] \in {"queueing", "waiting"}
        /\ request' = [request EXCEPT ![r] = result] /\ (result = "ok" => r \in answered)
        /\ pending' \subseteq pending /\ answered' \subseteq answered
        /\ UNCHANGED <<queue, writer, reader, server>>
  BY DEF EnqueueFails, ReturnsAnswer, ReturnsClosed, TimesOut, Result, Results
<1>2. RemoteTypeOK'
  BY <1>1 DEF RemoteTypeOK
<1>3. request[r] \in {"queueing", "waiting"} /\ result \notin {"unsent", "queueing"}
  BY <1>1 DEF Results
<1>4. \A q \in Requests : request'[q] = IF q = r THEN result ELSE request[q]
  BY <1>1 DEF RemoteTypeOK
<1>5. Matched'
  BY <1>1, <1>3, <1>4 DEF Matched
<1> QED
  BY <1>1, <1>2, <1>5 DEF Kept

LEMMA RequestStepKeeps ==
  ASSUME RemoteTypeOK, Matched, NEW r \in Requests, RequestStep(r)
  PROVE  Kept /\ (\A q \in Requests : Sent(q)' => Sent(q))
<1>1. Kept
  BY EnqueueKeeps, ReturnKeeps DEF RequestStep
<1>2. request[r] # "unsent" /\ \E result : request' = [request EXCEPT ![r] = result]
  BY DEF RequestStep, Enqueue, EnqueueFails, ReturnsAnswer, ReturnsClosed, TimesOut, Result
<1> QED
  BY <1>1, <1>2 DEF Sent, RemoteTypeOK

LEMMA WriteKeeps ==
  ASSUME RemoteTypeOK, Matched, Write
  PROVE  Kept
<1>1. /\ queue \in Seq(Requests) /\ queue # <<>>
      /\ queue' = Tail(queue) /\ server' = [server EXCEPT ![Head(queue)] = "written"]
      /\ UNCHANGED <<request, pending, writer, reader, answered>>
  BY DEF Write, RemoteTypeOK
<1>2. /\ queue' \in Seq(Requests) /\ Len(queue') = Len(queue) - 1
      /\ Len(queue) \in Nat \ {0} /\ Head(queue) = queue[1] /\ Head(queue) \in Requests
      /\ \A i \in 1 .. Len(queue') : queue'[i] = queue[i + 1] /\ queue[i + 1] \in Requests
  BY <1>1
<1>3. RemoteTypeOK'
  BY <1>1, <1>2, RemoteAssumption DEF RemoteTypeOK
<1>4. server[Head(queue)] = "unseen"
  BY <1>2 DEF Matched
<1>5. \A i \in 1 .. Len(queue') :
        /\ i + 1 \in 1 .. Len(queue) /\ queue'[i] = queue[i + 1] /\ queue'[i] # Head(queue)
        /\ queue'[i] \in Requests
  BY <1>2 DEF Matched
<1>6. ASSUME NEW q \in Requests, request'[q] \in {"unsent", "queueing"}
      PROVE  server'[q] = "unseen" /\ \A i \in 1 .. Len(queue') : queue'[i] # q
  <2>1. server[q] = "unseen" /\ \A i \in 1 .. Len(queue) : queue[i] # q
    BY <1>1, <1>6 DEF Matched
  <2>2. q # Head(queue)
    BY <1>2, <2>1
  <2> QED
    BY <1>1, <1>5, <2>1, <2>2 DEF RemoteTypeOK
<1>7. \A i \in 1 .. Len(queue') : server'[queue'[i]] = "unseen"
  BY <1>1, <1>5 DEF Matched, RemoteTypeOK
<1>8. \A i, j \in 1 .. Len(queue') : queue'[i] = queue'[j] => i = j
  BY <1>2, <1>5 DEF Matched
<1>9. \A q \in Requests : server[q] = "answered" => server'[q] = "answered"
  BY <1>1, <1>4 DEF RemoteTypeOK
<1>10. \A q \in answered' : server'[q] = "answered"
  BY <1>1, <1>9 DEF Matched, RemoteTypeOK
<1>11. \A q \in Requests : request'[q] = "ok" => server'[q] = "answered"
  BY <1>1, <1>9 DEF Matched
<1> QED
  BY <1>3, <1>6, <1>7, <1>8, <1>9, <1>10, <1>11 DEF Matched, Kept

LEMMA AnswerKeeps ==
  ASSUME RemoteTypeOK, Matched, NEW r \in Requests, Execute(r) \/ ReadAnswer(r)
  PROVE  Kept
<1>1. /\ server[r] \in {"written", "executed"}
      /\ \/ server' = [server EXCEPT ![r] = "executed"] /\ UNCHANGED answered
            /\ server[r] = "written"
         \/ server' = [server EXCEPT ![r] = "answered"] /\ answered' \subseteq answered \union {r}
      /\ pending' \subseteq pending
      /\ UNCHANGED <<request, queue, writer, reader>>
  BY DEF Execute, ReadAnswer
<1>2. RemoteTypeOK'
  BY <1>1 DEF RemoteTypeOK
<1>3. \A q \in Requests : server[q] = "answered" => server'[q] = "answered"
  BY <1>1 DEF RemoteTypeOK
<1>4. \A q \in answered' : server'[q] = "answered"
  BY <1>1, <1>3 DEF Matched, RemoteTypeOK
<1>5. \A i \in 1 .. Len(queue) : queue[i] # r /\ queue[i] \in Requests
  BY <1>1 DEF Matched, RemoteTypeOK
<1>6. \A q \in Requests : q # r => server'[q] = server[q]
  BY <1>1 DEF RemoteTypeOK
<1> QED
  BY <1>1, <1>2, <1>3, <1>4, <1>5, <1>6 DEF Matched, Kept

LEMMA ReaderKeeps ==
  ASSUME RemoteTypeOK, Matched, WriterEnds \/ ReaderStops \/ ReaderClears
  PROVE  Kept /\ UNCHANGED <<request, server>>
<1>1. /\ UNCHANGED <<request, server, answered>>
      /\ pending' \subseteq pending
      /\ reader' \in {"up", "stopped", "down"} /\ writer' \in BOOLEAN
      /\ queue' = queue \/ queue' = <<>>
  BY DEF WriterEnds, ReaderStops, ReaderClears, RemoteTypeOK
<1>2. <<>> \in Seq(Requests) /\ Len(<<>>) = 0 /\ 0 <= QueueSlots
  BY RemoteAssumption
<1>3. queue' \in Seq(Requests) /\ Len(queue') <= QueueSlots
  BY <1>1, <1>2 DEF RemoteTypeOK
<1>4. RemoteTypeOK'
  BY <1>1, <1>3 DEF RemoteTypeOK
<1>5. \A i \in 1 .. Len(queue') : i \in 1 .. Len(queue) /\ queue'[i] = queue[i]
  BY <1>1, <1>2
<1>6. Matched'
  BY <1>1, <1>5 DEF Matched
<1> QED
  BY <1>1, <1>4, <1>6 DEF Kept

LEMMA ReconnectKeeps ==
  ASSUME RemoteTypeOK, Matched, Reconnect
  PROVE  Kept /\ (\A q \in Requests : Sent(q)' => Sent(q))
BY RemoteAssumption DEF RemoteTypeOK, Matched, Reconnect, Kept, Results, Sent

LEMMA IdleKeeps ==
  ASSUME RemoteTypeOK, Matched, UNCHANGED remoteVars
  PROVE  Kept /\ UNCHANGED <<request, server>>
BY DEF RemoteTypeOK, Matched, remoteVars, Kept

------------------------------------------------------------------------------
(* The requests of the bridge                                              *)

LEMMA Identities ==
  /\ \A r \in Routes : Allocate(r) \in Requests
  /\ \A c \in Calls, n \in 1 .. 2 : Reply(c, n) \in Requests
  /\ \A c \in Calls, n \in 1 .. 2, r \in Routes : Reply(c, n) # Allocate(r)
  /\ \A c, d \in Calls, n, m \in 1 .. 2 : Reply(c, n) = Reply(d, m) => c = d /\ n = m
BY RemoteAssumption, HostAssumption DEF Requests, Routes, Allocate, Reply

\* What the replies rest on does not change when nothing is sent.
LEMMA RepliedStays ==
  ASSUME Replied,
         \A r \in Requests : Sent(r)' => Sent(r),
         \A r \in Requests : server[r] = "answered" => server'[r] = "answered",
         UNCHANGED called, pending_calls' \subseteq pending_calls,
         \A c \in Calls : handler'[c] = "replied" => handler[c] = "replied"
  PROVE  Replied'
<1> SUFFICES ASSUME NEW c \in Calls
             PROVE  /\ called'[c] = 0 \/ c \in pending_calls'
                           => ~ Sent(Reply(c, 1))' /\ ~ Sent(Reply(c, 2))'
                    /\ c \in pending_calls' => called'[c] # 0
                    /\ ~ (Sent(Reply(c, 1))' /\ Sent(Reply(c, 2))')
                    /\ handler'[c] = "replied" =>
                          \E n \in 1 .. 2 : server'[Reply(c, n)] = "answered"
  BY DEF Replied, Sent, Reply
<1>1. \A n \in 1 .. 2 : Reply(c, n) \in Requests /\ (Sent(Reply(c, n))' => Sent(Reply(c, n)))
  BY Identities DEF Sent, Reply
<1>2. Reply(c, 1) \in Requests /\ (Sent(Reply(c, 1))' => Sent(Reply(c, 1)))
  BY <1>1
<1>3. Reply(c, 2) \in Requests /\ (Sent(Reply(c, 2))' => Sent(Reply(c, 2)))
  BY <1>1
<1> QED
  BY <1>1, <1>2, <1>3 DEF Replied

LEMMA ReplaceableStays ==
  ASSUME Replaceable,
         \A r \in Requests : Sent(r)' => Sent(r),
         UNCHANGED <<loop, allocation, alive, events>>
  PROVE  Replaceable'
BY Identities DEF Replaceable, Sent, Allocate

LEMMA PublishedStays ==
  ASSUME Published, UNCHANGED <<loop, allocation, active_route, files>>
  PROVE  Published'
BY DEF Published

\* A step of the transport alone.
LEMMA TransportKeeps ==
  ASSUME HostInv, Kept, UNCHANGED hostVars, \A r \in Requests : Sent(r)' => Sent(r)
  PROVE  HostInv'
<1>1. TypeOK'
  BY DEF HostInv, TypeOK, Kept, hostVars
<1>2. Replied'
  BY RepliedStays DEF HostInv, Kept, hostVars
<1> QED
  BY <1>1, <1>2, ReplaceableStays, PublishedStays DEF HostInv, Kept, hostVars

LEMMA RemoteStepKeeps == ASSUME HostInv, RemoteStep PROVE HostInv'
<1>1. RemoteTypeOK /\ Matched /\ UNCHANGED hostVars
  BY DEF HostInv, TypeOK, RemoteStep
<1>2. CASE Write
  <2>1. UNCHANGED request
    BY <1>2 DEF Write
  <2> QED
    BY <1>1, <1>2, <2>1, WriteKeeps, TransportKeeps DEF Sent
<1>3. CASE ReaderStops
  BY <1>1, <1>3, ReaderKeeps, TransportKeeps DEF Sent
<1>4. ASSUME NEW r \in Requests, RequestStep(r)
      PROVE  HostInv'
  BY <1>1, <1>4, RequestStepKeeps, TransportKeeps
<1>5. ASSUME NEW r \in Requests, ReadAnswer(r)
      PROVE  HostInv'
  <2>1. UNCHANGED request
    BY <1>5 DEF ReadAnswer
  <2> QED
    BY <1>1, <1>5, <2>1, AnswerKeeps, TransportKeeps DEF Sent
<1> QED
  BY <1>2, <1>3, <1>4, <1>5 DEF RemoteStep

------------------------------------------------------------------------------
(* The route and its files                                                 *)

LEMMA HostFacts ==
  ASSUME HostInv
  PROVE  /\ TypeOK /\ RemoteTypeOK /\ Matched /\ Published /\ Replaceable /\ Replied
         /\ allocation \in Routes /\ MaxTurns \in Nat
BY RemoteAssumption DEF HostInv, TypeOK

LEMMA StartAllocationKeeps == ASSUME HostInv, StartAllocation PROVE HostInv'
<1>1. /\ loop = "cancelling" /\ loop' = "allocating" /\ Send(Allocate(allocation))
      /\ UNCHANGED <<active_route, files, routeRest>>
  BY DEF StartAllocation, Goto
<1>2. Allocate(allocation) \in Requests
  BY HostFacts, Identities
<1>3. Kept /\ \A q \in Requests : Sent(q)' => Sent(q) \/ q = Allocate(allocation)
  BY <1>1, <1>2, HostFacts, SendKeeps
<1>4. TypeOK'
  BY <1>1, <1>3 DEF HostInv, TypeOK, Kept, Loops, routeRest
<1>5. Published'
  BY <1>1 DEF HostInv, Published, routeRest
<1>6. Replaceable'
  <2>1. ASSUME NEW r \in Routes, Sent(Allocate(r))' PROVE r <= allocation
    <3>1. Allocate(r) \in Requests /\ (Allocate(r) = Allocate(allocation) => r = allocation)
      BY Identities DEF Allocate
    <3>2. Sent(Allocate(r)) \/ Allocate(r) = Allocate(allocation)
      BY <1>3, <2>1, <3>1 DEF Sent, Allocate
    <3> QED
      BY <3>1, <3>2, HostFacts DEF Replaceable, Routes
  <2> QED
    BY <1>1, <2>1, HostFacts DEF Replaceable, routeRest, Sent, Allocate
<1>7. Replied'
  <2>1. \A c \in Calls, n \in 1 .. 2 : Sent(Reply(c, n))' => Sent(Reply(c, n))
    BY <1>3, HostFacts, Identities DEF Sent, Reply, Allocate
  <2>2. \A c \in Calls, n \in 1 .. 2 :
          server[Reply(c, n)] = "answered" => server'[Reply(c, n)] = "answered"
    BY <1>3, Identities DEF Kept
  <2>3. 1 \in 1 .. 2 /\ 2 \in 1 .. 2
    OBVIOUS
  <2> QED
    BY <1>1, <2>1, <2>2, <2>3, HostFacts DEF Replied, routeRest, Sent, Reply
<1> QED
  BY <1>3, <1>4, <1>5, <1>6, <1>7 DEF HostInv, Kept

\* The steps between the allocation and the event loop.
LEMMA PublishingKeeps ==
  ASSUME HostInv, UNCHANGED <<remoteVars, routeRest>>,
         loop # "crashed", loop' # "crashed", loop' \in Loops,
         active_route' \in 0 .. MaxTurns, files' \in [Files -> 0 .. MaxTurns], Published'
  PROVE  HostInv'
<1>1. Kept /\ UNCHANGED <<request, server>>
  BY HostFacts, IdleKeeps
<1>2. TypeOK'
  BY <1>1 DEF HostInv, TypeOK, Kept, routeRest
<1>3. Replaceable'
  BY <1>1, HostFacts DEF Replaceable, Sent, routeRest
<1>4. Replied'
  BY <1>1, HostFacts, RepliedStays DEF Sent, routeRest
<1> QED
  BY <1>1, <1>2, <1>3, <1>4 DEF HostInv, Kept

LEMMA AllocatedKeeps == ASSUME HostInv, Allocated PROVE HostInv'
<1>1. /\ loop = "allocating" /\ loop' \in {"blob", "ended"}
      /\ UNCHANGED <<remoteVars, active_route, files, routeRest>>
  BY DEF Allocated, Goto, After
<1>2. Published'
  BY <1>1, HostFacts DEF Published, routeRest
<1> QED
  BY <1>1, <1>2, PublishingKeeps, HostFacts DEF TypeOK, Loops

LEMMA WriteFileKeeps == ASSUME HostInv, NEW file \in Files, WriteFile(file) PROVE HostInv'
<1>1. /\ loop = file /\ file \in {"blob", "base64", "json"}
      /\ \/ files' = [files EXCEPT ![file] = allocation] /\ loop' = After(file)
         \/ files' = files /\ loop' = "ended"
      /\ UNCHANGED <<remoteVars, active_route, routeRest>>
  BY DEF WriteFile, Goto, Files
<1>2. /\ files \in [Files -> 0 .. MaxTurns] /\ Files = {"blob", "base64", "json"}
      /\ allocation \in 0 .. MaxTurns /\ allocation' = allocation
  BY <1>1, HostFacts DEF TypeOK, Files, Routes, routeRest
<1>3. files' \in [Files -> 0 .. MaxTurns]
  BY <1>1, <1>2
<1>4. \A f \in Files : files[f] \in Nat /\ allocation \in Nat
  BY <1>2, HostFacts
<1>5. loop' \in {"base64", "json", "activating", "ended"}
  BY <1>1 DEF After
<1>6. Published'
  <2>1. CASE files' = files /\ loop' = "ended"
    BY <1>2, <2>1, HostFacts DEF Published
  <2>2. CASE file = "blob" /\ files' = [files EXCEPT !["blob"] = allocation] /\ loop' = "base64"
    BY <1>1, <1>2, <1>4, <2>2, HostFacts DEF Published
  <2>3. CASE file = "base64" /\ files' = [files EXCEPT !["base64"] = allocation] /\ loop' = "json"
    BY <1>1, <1>2, <1>4, <2>3, HostFacts DEF Published
  <2>4. CASE file = "json" /\ files' = [files EXCEPT !["json"] = allocation] /\ loop' = "activating"
    BY <1>1, <1>2, <1>4, <2>4, HostFacts DEF Published
  <2> QED
    BY <1>1, <2>1, <2>2, <2>3, <2>4 DEF After
<1> QED
  BY <1>1, <1>3, <1>5, <1>6, PublishingKeeps, HostFacts DEF TypeOK, Loops

LEMMA ActivateKeeps == ASSUME HostInv, Activate PROVE HostInv'
<1>1. /\ loop = "activating"
      /\ \/ active_route' = allocation /\ loop' = "serving"
         \/ active_route' = active_route /\ loop' = "ended"
      /\ UNCHANGED <<remoteVars, files, routeRest>>
  BY DEF Activate, Goto
<1>2. Published'
  BY <1>1, HostFacts DEF Published, routeRest
<1> QED
  BY <1>1, <1>2, PublishingKeeps, HostFacts DEF TypeOK, Loops, Routes

------------------------------------------------------------------------------
(* Updates                                                                 *)

\* A queue of events gets longer.
LEMMA EventAppended ==
  ASSUME HostInv, NEW e \in Event, events' = Append(events, e)
  PROVE  /\ events' \in Seq(Event)
         /\ \A i \in 1 .. Len(events') :
              \/ i \in 1 .. Len(events) /\ events'[i] = events[i]
              \/ events'[i] = e
BY HostFacts DEF TypeOK

LEMMA EventTypes ==
  /\ \A c \in Calls : [kind |-> "AppCall", call |-> c] \in Event
  /\ \A r \in Routes : [kind |-> "Dead", route |-> r] \in Event
  /\ [kind |-> "Shutdown"] \in Event
  /\ \A e \in Event : e.kind = "AppCall" => e.call \in Calls
  /\ \A e \in Event : e.kind = "Dead" => e.route \in Routes
<1>1. /\ \A c \in Calls : [kind |-> "AppCall", call |-> c] \in Event
      /\ \A r \in Routes : [kind |-> "Dead", route |-> r] \in Event
      /\ [kind |-> "Shutdown"] \in Event
  BY DEF Event
<1>2. ASSUME NEW e \in Event
      PROVE  /\ e.kind = "AppCall" => e.call \in Calls
             /\ e.kind = "Dead" => e.route \in Routes
  <2>1. CASE e \in {[kind |-> "AppCall", call |-> c] : c \in Calls}
    BY <2>1
  <2>2. CASE e \in {[kind |-> "Dead", route |-> r] : r \in Routes}
    BY <2>2
  <2>3. CASE e \in {[kind |-> "Shutdown"]}
    BY <2>3
  <2> QED
    BY <2>1, <2>2, <2>3 DEF Event
<1> QED
  BY <1>1, <1>2

LEMMA AppCallKeeps == ASSUME HostInv, NEW c \in Calls, AppCall(c) PROVE HostInv'
<1> DEFINE e == [kind |-> "AppCall", call |-> c]
<1>1. PICK route \in alive : called' = [called EXCEPT ![c] = route]
  BY DEF AppCall
<1>2. /\ called[c] = 0 /\ pending_calls' = pending_calls \union {c}
      /\ events' = Append(events, e)
      /\ UNCHANGED <<remoteVars, updateRest, alive, handler>>
  BY DEF AppCall
<1>3. Kept /\ UNCHANGED <<request, server>>
  BY <1>2, HostFacts, IdleKeeps
<1>4. route \in 1 .. MaxTurns /\ called \in [Calls -> 0 .. MaxTurns]
  BY HostFacts DEF TypeOK, Routes
<1>5. /\ events' \in Seq(Event)
      /\ \A i \in 1 .. Len(events') : \/ i \in 1 .. Len(events) /\ events'[i] = events[i]
                                     \/ events'[i] = e
  BY <1>2, EventAppended, EventTypes
<1>6. TypeOK'
  BY <1>1, <1>2, <1>3, <1>4, <1>5 DEF HostInv, TypeOK, Kept, updateRest
<1>7. Published'
  BY <1>2, HostFacts, PublishedStays DEF updateRest
<1>8. Replaceable'
  BY <1>2, <1>3, <1>5, HostFacts DEF Replaceable, Sent, updateRest
<1>9. \A d \in Calls : called'[d] = IF d = c THEN route ELSE called[d]
  BY <1>1, <1>4
<1>10. Replied'
  BY <1>2, <1>3, <1>4, <1>9, HostFacts DEF Replied, Sent, updateRest
<1> QED
  BY <1>3, <1>6, <1>7, <1>8, <1>10 DEF HostInv, Kept

LEMMA RouteDiesKeeps == ASSUME HostInv, NEW route \in Routes, RouteDies(route) PROVE HostInv'
<1> DEFINE e == [kind |-> "Dead", route |-> route]
<1>1. /\ route \in alive /\ allocation < MaxTurns /\ alive' = alive \ {route}
      /\ events' = events \/ events' = Append(events, e)
      /\ UNCHANGED <<remoteVars, updateRest, pending_calls, called, handler>>
  BY DEF RouteDies
<1>2. Kept /\ UNCHANGED <<request, server>>
  BY <1>1, HostFacts, IdleKeeps
<1>3. route < MaxTurns
  BY <1>1, HostFacts DEF Replaceable, Routes
<1>4. /\ events' \in Seq(Event)
      /\ \A i \in 1 .. Len(events') : \/ i \in 1 .. Len(events) /\ events'[i] = events[i]
                                     \/ events'[i] = e
  <2>1. CASE events' = events
    BY <2>1, HostFacts DEF TypeOK
  <2>2. CASE events' = Append(events, e)
    BY <2>2, EventAppended, EventTypes
  <2> QED
    BY <1>1, <2>1, <2>2
<1>5. TypeOK'
  BY <1>1, <1>2, <1>4 DEF HostInv, TypeOK, Kept, updateRest
<1>6. Replaceable'
  BY <1>1, <1>2, <1>3, <1>4, HostFacts DEF Replaceable, Sent, updateRest
<1>7. Replied'
  BY <1>1, <1>2, HostFacts, RepliedStays DEF Sent
<1>8. Published'
  BY <1>1, HostFacts, PublishedStays DEF updateRest
<1> QED
  BY <1>2, <1>5, <1>6, <1>7, <1>8 DEF HostInv, Kept

LEMMA ReaderEndsKeeps == ASSUME HostInv, ReaderEnds PROVE HostInv'
<1> DEFINE e == [kind |-> "Shutdown"]
<1>1. /\ ReaderClears /\ events' = Append(events, e)
      /\ UNCHANGED <<updateRest, alive, pending_calls, called, handler>>
  BY DEF ReaderEnds
<1>2. Kept /\ UNCHANGED <<request, server>>
  BY <1>1, HostFacts, ReaderKeeps
<1>3. /\ events' \in Seq(Event)
      /\ \A i \in 1 .. Len(events') : \/ i \in 1 .. Len(events) /\ events'[i] = events[i]
                                     \/ events'[i] = e
  BY <1>1, EventAppended, EventTypes
<1>4. TypeOK'
  BY <1>1, <1>2, <1>3 DEF HostInv, TypeOK, Kept, updateRest
<1>5. Replaceable'
  BY <1>1, <1>2, <1>3, HostFacts DEF Replaceable, Sent, updateRest
<1>6. Replied'
  BY <1>1, <1>2, HostFacts, RepliedStays DEF Sent
<1>7. Published'
  BY <1>1, HostFacts, PublishedStays DEF updateRest
<1> QED
  BY <1>2, <1>4, <1>5, <1>6, <1>7 DEF HostInv, Kept

\* A route comes into being only for a request that was written.
LEMMA ServerWorksKeeps == ASSUME HostInv, ServerWorks PROVE HostInv'
<1>1. /\ ServerStep /\ UNCHANGED <<updateRest, events, pending_calls, called, handler>>
      /\ alive' = alive \union {r \in Routes : /\ server[Allocate(r)] = "written"
                                               /\ server'[Allocate(r)] = "executed"}
  BY DEF ServerWorks
<1>2. Kept /\ UNCHANGED request
  <2>1. CASE WriterEnds
    BY <2>1, HostFacts, ReaderKeeps
  <2>2. ASSUME NEW r \in Requests, Execute(r) PROVE Kept /\ UNCHANGED request
    BY <2>2, HostFacts, AnswerKeeps DEF Execute
  <2> QED
    BY <1>1, <2>1, <2>2 DEF ServerStep
<1>3. TypeOK'
  BY <1>1, <1>2 DEF HostInv, TypeOK, Kept, updateRest
<1>4. \A r \in alive' : r <= allocation
  <2>1. ASSUME NEW r \in Routes, server[Allocate(r)] = "written" PROVE r <= allocation
    <3>1. Allocate(r) \in Requests /\ Sent(Allocate(r))
      BY <2>1, Identities, HostFacts DEF Matched, Sent
    <3> QED
      BY <3>1, HostFacts DEF Replaceable
  <2> QED
    BY <1>1, <2>1, HostFacts DEF Replaceable
<1>5. Replaceable'
  BY <1>1, <1>2, <1>4, HostFacts DEF Replaceable, Sent, updateRest
<1>6. Replied'
  BY <1>1, <1>2, HostFacts, RepliedStays DEF Sent, Kept
<1>7. Published'
  BY <1>1, HostFacts, PublishedStays DEF updateRest
<1> QED
  BY <1>2, <1>3, <1>5, <1>6, <1>7 DEF HostInv, Kept

------------------------------------------------------------------------------
(* The event loop                                                          *)

LEMMA EventTaken ==
  ASSUME HostInv, NEW kind, Next_event(kind)
  PROVE  /\ loop = "serving" /\ events' \in Seq(Event)
         /\ Head(events) \in Event /\ Head(events).kind = kind
         /\ Head(events) = events[1] /\ 1 \in 1 .. Len(events)
         /\ \A i \in 1 .. Len(events') : i + 1 \in 1 .. Len(events) /\ events'[i] = events[i + 1]
<1>1. /\ loop = "serving" /\ events # <<>> /\ Head(events).kind = kind
      /\ events' = Tail(events) /\ events \in Seq(Event)
  BY HostFacts DEF TypeOK, Next_event
<1>2. /\ events' \in Seq(Event) /\ Len(events) \in Nat \ {0} /\ Len(events') = Len(events) - 1
      /\ Head(events) = events[1] /\ events[1] \in Event
      /\ \A i \in 1 .. Len(events') : events'[i] = events[i + 1]
  BY <1>1
<1> QED
  BY <1>1, <1>2

LEMMA TakeCallKeeps == ASSUME HostInv, TakeCall PROVE HostInv'
<1>1. /\ Next_event("AppCall")
      /\ UNCHANGED <<loop, allocation, active_route, loopRest>>
      /\ handler' = [handler EXCEPT ![Head(events).call] =
                       IF called[Head(events).call] = active_route THEN "working" ELSE "ignored"]
  BY DEF TakeCall
<1>2. Kept /\ UNCHANGED <<request, server>>
  BY <1>1, HostFacts, IdleKeeps DEF loopRest
<1>3. Head(events).call \in Calls /\ handler \in [Calls -> Handlers]
  BY <1>1, EventTaken, EventTypes, HostFacts DEF TypeOK
<1>4. /\ handler' \in [Calls -> Handlers]
      /\ \A c \in Calls : handler'[c] = "replied" => handler[c] = "replied"
  BY <1>1, <1>3 DEF Handlers
<1>5. TypeOK'
  BY <1>1, <1>2, <1>4, EventTaken DEF HostInv, TypeOK, Kept, loopRest
<1>6. Replaceable'
  BY <1>1, <1>2, EventTaken, HostFacts DEF Replaceable, Sent, loopRest
<1>7. Replied'
  BY <1>1, <1>2, <1>4, HostFacts, RepliedStays DEF Sent, loopRest
<1>8. Published'
  BY <1>1, HostFacts, PublishedStays DEF loopRest
<1> QED
  BY <1>2, <1>5, <1>6, <1>7, <1>8 DEF HostInv, Kept

\* The loop leaves the events of a route, for the next route or for good.
LEMMA LeavingKeeps ==
  ASSUME HostInv, NEW kind, Next_event(kind), UNCHANGED <<active_route, handler, loopRest>>,
         \/ UNCHANGED <<loop, allocation>>
         \/ loop' = "ended" /\ UNCHANGED allocation
         \/ loop' = "cancelling" /\ allocation' = allocation + 1 /\ allocation < MaxTurns
  PROVE  HostInv'
<1>1. Kept /\ UNCHANGED <<request, server>>
  BY HostFacts, IdleKeeps DEF loopRest
<1>2. allocation' \in Routes /\ allocation <= allocation' /\ allocation \in Nat
  BY HostFacts DEF Routes
<1>3. TypeOK'
  BY <1>1, <1>2, EventTaken DEF HostInv, TypeOK, Kept, Loops, loopRest
<1>4. \A r \in Routes : r <= allocation => r <= allocation'
  BY <1>2 DEF Routes
<1>5. Replaceable'
  <2>1. \A r \in Routes : Sent(Allocate(r))' => r <= allocation'
    BY <1>1, <1>4, HostFacts DEF Replaceable, Sent, Allocate
  <2>2. \A r \in alive' : r <= allocation'
    BY <1>4, HostFacts DEF Replaceable, TypeOK, loopRest
  <2>3. \A i \in 1 .. Len(events') : events'[i].kind = "Dead" => events'[i].route < MaxTurns
    BY EventTaken, HostFacts DEF Replaceable
  <2>4. loop' # "crashed"
    BY EventTaken
  <2> QED
    BY <2>1, <2>2, <2>3, <2>4 DEF Replaceable
<1>6. Replied'
  BY <1>1, HostFacts, RepliedStays DEF Sent, loopRest
<1>7. Published'
  <2>1. CASE UNCHANGED <<loop, allocation>>
    BY <2>1, HostFacts, PublishedStays DEF loopRest
  <2>2. CASE loop' \in {"ended", "cancelling"}
    BY <1>2, <2>2, HostFacts DEF Published, TypeOK, Files, loopRest
  <2> QED
    BY <2>1, <2>2
<1> QED
  BY <1>1, <1>3, <1>5, <1>6, <1>7 DEF HostInv, Kept

LEMMA TakeDeathKeeps == ASSUME HostInv, TakeDeath PROVE HostInv'
<1>1. /\ Next_event("Dead") /\ UNCHANGED <<active_route, handler, loopRest>>
      /\ \/ UNCHANGED <<loop, allocation>>
         \/ /\ Head(events).route = active_route
            /\ loop' = "cancelling" /\ allocation' = allocation + 1
  BY DEF TakeDeath, Goto
<1>2. Head(events).route < MaxTurns
  BY <1>1, EventTaken, HostFacts DEF Replaceable
<1>3. active_route = allocation
  BY <1>1, EventTaken, HostFacts DEF Published
<1> QED
  BY <1>1, <1>2, <1>3, LeavingKeeps

LEMMA TakeShutdownKeeps == ASSUME HostInv, TakeShutdown PROVE HostInv'
BY LeavingKeeps DEF TakeShutdown, Goto

------------------------------------------------------------------------------
(* Handlers                                                                *)

\* A reply goes out and takes the call with it.
LEMMA ReplyStartsKeeps ==
  ASSUME HostInv, NEW c \in Calls, NEW attempt \in 1 .. 2, StartReply(c, attempt)
  PROVE  HostInv'
<1>1. /\ c \in pending_calls /\ pending_calls' = pending_calls \ {c}
      /\ Send(Reply(c, attempt)) /\ handler' = [handler EXCEPT ![c] = "replying"]
      /\ UNCHANGED handlerRest
  BY DEF StartReply
<1>2. Reply(c, attempt) \in Requests
  BY Identities
<1>3. Kept /\ \A q \in Requests : Sent(q)' => Sent(q) \/ q = Reply(c, attempt)
  BY <1>1, <1>2, HostFacts, SendKeeps
<1>4. handler' \in [Calls -> Handlers] /\ \A d \in Calls : d # c => handler'[d] = handler[d]
  BY <1>1, HostFacts DEF TypeOK, Handlers
<1>5. TypeOK'
  BY <1>1, <1>3, <1>4 DEF HostInv, TypeOK, Kept, handlerRest, updateRest
<1>6. Published'
  BY <1>1, HostFacts, PublishedStays DEF handlerRest, updateRest
<1>7. Replaceable'
  <2>1. \A r \in Routes : Sent(Allocate(r))' => Sent(Allocate(r))
    BY <1>3, Identities DEF Sent, Allocate, Reply
  <2> QED
    BY <1>1, <2>1, HostFacts DEF Replaceable, Sent, Allocate, handlerRest, updateRest
<1>8. \A d \in Calls, n \in 1 .. 2 :
        /\ Sent(Reply(d, n))' => Sent(Reply(d, n)) \/ (d = c /\ n = attempt)
        /\ server[Reply(d, n)] = "answered" => server'[Reply(d, n)] = "answered"
  <2> TAKE d \in Calls, n \in 1 .. 2
  <2>1. Reply(d, n) \in Requests
    BY Identities
  <2>2. Reply(d, n) = Reply(c, attempt) => d = c /\ n = attempt
    BY DEF Reply
  <2>3. Sent(Reply(d, n))' => Sent(Reply(d, n)) \/ Reply(d, n) = Reply(c, attempt)
    BY <1>3, <2>1 DEF Sent, Reply
  <2>4. server[Reply(d, n)] = "answered" => server'[Reply(d, n)] = "answered"
    BY <1>3, <2>1 DEF Kept
  <2> QED
    BY <2>2, <2>3, <2>4, Zenon
<1>9. called' = called /\ called[c] # 0 /\ ~ Sent(Reply(c, 1)) /\ ~ Sent(Reply(c, 2))
  BY <1>1, HostFacts DEF Replied, handlerRest
<1>10. ASSUME NEW d \in Calls
       PROVE  /\ called'[d] = 0 \/ d \in pending_calls'
                    => ~ Sent(Reply(d, 1))' /\ ~ Sent(Reply(d, 2))'
              /\ d \in pending_calls' => called'[d] # 0
              /\ ~ (Sent(Reply(d, 1))' /\ Sent(Reply(d, 2))')
              /\ handler'[d] = "replied" => \E n \in 1 .. 2 : server'[Reply(d, n)] = "answered"
  <2>1. /\ Sent(Reply(d, 1))' => Sent(Reply(d, 1)) \/ (d = c /\ attempt = 1)
        /\ Sent(Reply(d, 2))' => Sent(Reply(d, 2)) \/ (d = c /\ attempt = 2)
    BY <1>8
  <2>2. CASE d = c
    <3>1. handler'[d] = "replying"
      BY <1>1, <2>2, HostFacts DEF TypeOK
    <3> QED
      BY <1>1, <1>9, <2>1, <2>2, <3>1
  <2>3. CASE d # c
    <3>1. /\ called[d] = 0 \/ d \in pending_calls => ~ Sent(Reply(d, 1)) /\ ~ Sent(Reply(d, 2))
          /\ d \in pending_calls => called[d] # 0
          /\ ~ (Sent(Reply(d, 1)) /\ Sent(Reply(d, 2)))
          /\ handler[d] = "replied" => \E n \in 1 .. 2 : server[Reply(d, n)] = "answered"
      BY HostFacts DEF Replied
    <3> QED
      BY <1>1, <1>4, <1>8, <1>9, <2>1, <2>3, <3>1
  <2> QED
    BY <2>2, <2>3
<1>11. Replied'
  BY <1>10 DEF Replied, Sent, Reply
<1> QED
  BY <1>3, <1>5, <1>6, <1>7, <1>11 DEF HostInv, Kept

\* A handler that goes on without a request.
LEMMA HandlerKeeps ==
  ASSUME HostInv, NEW c \in Calls, NEW step \in Handlers,
         step = "replied" => \E n \in 1 .. 2 : server[Reply(c, n)] = "answered",
         handler' = [handler EXCEPT ![c] = step],
         UNCHANGED <<remoteVars, pending_calls, handlerRest>>
  PROVE  HostInv'
<1>1. Kept /\ UNCHANGED <<request, server>>
  BY HostFacts, IdleKeeps
<1>2. \A d \in Calls : handler'[d] = IF d = c THEN step ELSE handler[d]
  BY HostFacts DEF TypeOK
<1>3. TypeOK'
  BY <1>1 DEF HostInv, TypeOK, Kept, handlerRest, updateRest
<1>4. Published'
  BY HostFacts, PublishedStays DEF handlerRest, updateRest
<1>5. Replaceable'
  BY <1>1, HostFacts, ReplaceableStays DEF Sent, handlerRest, updateRest
<1>6. Replied'
  BY <1>1, <1>2, HostFacts DEF Replied, Sent, Reply, handlerRest
<1> QED
  BY <1>1, <1>3, <1>4, <1>5, <1>6 DEF HostInv, Kept

LEMMA HandlerRepliesKeeps == ASSUME HostInv, NEW c \in Calls, HandlerReplies(c) PROVE HostInv'
<1>1. CASE StartReply(c, IF handler[c] = "working" THEN 1 ELSE 2)
  BY <1>1, ReplyStartsKeeps
<1>2. CASE NoSuchCall(c)
  BY <1>2, HandlerKeeps DEF NoSuchCall, Handlers
<1> QED
  BY <1>1, <1>2 DEF HandlerReplies

LEMMA HandlerRepliedKeeps == ASSUME HostInv, NEW c \in Calls, HandlerReplied(c) PROVE HostInv'
<1> DEFINE reply == Reply(c, Attempt(c))
           step == IF request[reply] = "ok" THEN "replied"
                   ELSE IF Attempt(c) = 1 THEN "retry" ELSE "unreplied"
<1>1. Attempt(c) \in 1 .. 2
  BY DEF Attempt
<1>2. request[reply] = "ok" => server[reply] = "answered"
  BY <1>1, Identities, HostFacts DEF Matched
<1>3. step \in Handlers /\ (step = "replied" => request[reply] = "ok")
  BY DEF Handlers
<1>4. step = "replied" => \E n \in 1 .. 2 : server[Reply(c, n)] = "answered"
  BY <1>1, <1>2, <1>3
<1>5. handler' = [handler EXCEPT ![c] = step] /\ UNCHANGED <<remoteVars, pending_calls, handlerRest>>
  BY DEF HandlerReplied
<1> HIDE DEF step
<1> QED
  BY <1>3, <1>4, <1>5, HandlerKeeps

------------------------------------------------------------------------------
(* The process                                                             *)

LEMMA CrashKeeps == ASSUME HostInv, Crash PROVE HostInv'
<1>1. /\ loop' = "crashed" /\ allocation < MaxTurns
      /\ crashes < MaxCrashes /\ crashes' = crashes + 1
      /\ events' = <<>> /\ pending_calls' = {} /\ Reconnect
      /\ handler' = [c \in Calls |-> IF handler[c] \in {"working", "replying", "retry"}
                                     THEN "unreplied" ELSE handler[c]]
      /\ UNCHANGED <<allocation, active_route, files, alive, called>>
  BY DEF Crash, Goto
<1>2. Kept /\ \A q \in Requests : Sent(q)' => Sent(q)
  BY <1>1, HostFacts, ReconnectKeeps
<1>3. /\ handler' \in [Calls -> Handlers]
      /\ \A c \in Calls : handler'[c] = "replied" => handler[c] = "replied"
  BY <1>1, HostFacts DEF TypeOK, Handlers
<1>4. events' \in Seq(Event) /\ Len(events') = 0
  BY <1>1
<1>5. crashes' \in 0 .. MaxCrashes
  BY <1>1, HostFacts, HostAssumption DEF TypeOK
<1>6. TypeOK'
  BY <1>1, <1>2, <1>3, <1>4, <1>5 DEF HostInv, TypeOK, Kept, Loops
<1>7. Published'
  BY <1>1, HostFacts DEF Published
<1>8. Replaceable'
  BY <1>1, <1>2, <1>4, HostFacts, Identities DEF Replaceable, Sent, Allocate
<1>9. Replied'
  BY <1>1, <1>2, <1>3, HostFacts, RepliedStays DEF Kept
<1> QED
  BY <1>2, <1>6, <1>7, <1>8, <1>9 DEF HostInv, Kept

LEMMA RestartKeeps == ASSUME HostInv, Restart PROVE HostInv'
<1>1. /\ loop = "crashed" /\ loop' = "cancelling" /\ active_route' = 0
      /\ allocation' = allocation + 1
      /\ UNCHANGED <<remoteVars, files, alive, events, pending_calls, called, handler, crashes>>
  BY DEF Restart, Goto
<1>2. Kept /\ UNCHANGED <<request, server>>
  BY <1>1, HostFacts, IdleKeeps
<1>3. allocation < MaxTurns
  BY <1>1, HostFacts DEF Replaceable
<1>4. allocation' \in Routes /\ allocation <= allocation' /\ allocation \in Nat
  BY <1>1, <1>3, HostFacts DEF Routes
<1>5. TypeOK'
  BY <1>1, <1>2, <1>4, HostFacts DEF HostInv, TypeOK, Kept, Loops
<1>6. Published'
  BY <1>1, <1>4, HostFacts DEF Published, TypeOK, Files
<1>7. Replaceable'
  <2>1. \A r \in Routes : r <= allocation => r <= allocation'
    BY <1>4 DEF Routes
  <2> QED
    BY <1>1, <1>2, <2>1, HostFacts DEF Replaceable, Sent, Allocate, TypeOK
<1>8. Replied'
  BY <1>1, <1>2, HostFacts, RepliedStays DEF Sent
<1> QED
  BY <1>2, <1>5, <1>6, <1>7, <1>8 DEF HostInv, Kept

------------------------------------------------------------------------------
(* The theorems                                                            *)

LEMMA InitHost == Init => HostInv
<1> SUFFICES ASSUME Init PROVE HostInv
  OBVIOUS
<1>1. RemoteInit /\ queue = <<>> /\ events = <<>> /\ answered = {} /\ alive = {}
  BY DEF Init, RemoteInit
<1>2. /\ \A r \in Requests : request[r] = "unsent" /\ server[r] = "unseen"
      /\ queue \in Seq(Requests) /\ Len(queue) = 0 /\ events \in Seq(Event) /\ Len(events) = 0
  BY <1>1 DEF RemoteInit
<1>3. RemoteTypeOK
  BY <1>1, <1>2, RemoteAssumption DEF RemoteInit, RemoteTypeOK
<1>4. TypeOK
  BY <1>2, <1>3, RemoteAssumption, HostAssumption DEF Init, TypeOK, Loops, Handlers, Routes
<1>5. Matched
  BY <1>1, <1>2 DEF Matched
<1>6. Published
  BY DEF Init, Published, Files
<1>7. Replaceable
  BY <1>1, <1>2, Identities DEF Init, Replaceable, Sent
<1>8. Replied
  <2>1. \A c \in Calls : ~ Sent(Reply(c, 1)) /\ ~ Sent(Reply(c, 2))
    BY <1>2, Identities DEF Sent
  <2> QED
    BY <2>1 DEF Init, Replied
<1> QED
  BY <1>4, <1>5, <1>6, <1>7, <1>8 DEF HostInv

LEMMA StepKeeps == HostInv /\ [Next]_vars => HostInv'
<1> SUFFICES ASSUME HostInv, [Next]_vars PROVE HostInv'
  OBVIOUS
<1>1. CASE RouteStep
  BY <1>1, StartAllocationKeeps, AllocatedKeeps, WriteFileKeeps, ActivateKeeps DEF RouteStep
<1>2. CASE HandlerStep
  BY <1>2, HandlerRepliesKeeps, HandlerRepliedKeeps DEF HandlerStep
<1>3. CASE UNCHANGED vars
  <2>1. UNCHANGED remoteVars /\ UNCHANGED hostVars
    BY <1>3 DEF vars
  <2> QED
    BY <2>1, IdleKeeps, TransportKeeps, HostFacts DEF Sent
<1> QED
  BY <1>1, <1>2, <1>3, RemoteStepKeeps, ReaderEndsKeeps, ServerWorksKeeps, AppCallKeeps,
     RouteDiesKeeps, TakeCallKeeps, TakeDeathKeeps, TakeShutdownKeeps, CrashKeeps, RestartKeeps
     DEF Next

LEMMA HostInvariant == Spec => []HostInv
BY InitHost, StepKeeps, PTL DEF Spec

\* Every variable of the bridge and of its transport keeps its type, whatever the
\* bounds: a route that dies can always be replaced by one within them.
THEOREM TypesHold == Spec => []TypeOK
BY HostInvariant, PTL DEF HostInv

\* No crash and no failed write of persist_route leaves a description of a route
\* next to an older blob.
THEOREM FilesFollow == Spec => []FilesInOrder
<1>1. HostInv => FilesInOrder
  BY DEF HostInv, Published, FilesInOrder
<1> QED
  BY <1>1, HostInvariant, PTL

\* run_live takes calls only on the route that its files describe.
THEOREM ServesPublished == Spec => []ServedIsPublished
<1>1. HostInv => ServedIsPublished
  BY DEF HostInv, Published, ServedIsPublished, Files
<1> QED
  BY <1>1, HostInvariant, PTL

\* A call that is being replied to has left pending_calls for good, so the retry in
\* run_live never sends a second reply.
THEOREM RepliesOnce == Spec => []OneReply
<1>1. HostInv => OneReply
  <2> SUFFICES ASSUME HostInv, NEW c \in Calls,
                      server[Reply(c, 1)] # "unseen", server[Reply(c, 2)] # "unseen"
               PROVE  FALSE
    BY DEF OneReply
  <2>1. Reply(c, 1) \in Requests /\ Reply(c, 2) \in Requests
    BY Identities
  <2>2. Sent(Reply(c, 1)) /\ Sent(Reply(c, 2))
    BY <2>1 DEF HostInv, Matched, Sent
  <2> QED
    BY <2>2 DEF HostInv, Replied
<1> QED
  BY <1>1, HostInvariant, PTL

\* Only its own answer makes a request succeed, across timeouts, closed channels
\* and a new connection.
THEOREM SuccessesExecuted == Spec => []SuccessIsExecuted
<1>1. HostInv => SuccessIsExecuted
  BY DEF HostInv, Matched, Replied, SuccessIsExecuted
<1> QED
  BY <1>1, HostInvariant, PTL

==============================================================================
