--------------------------- MODULE RemoteTransport ---------------------------
(***************************************************************************)
(* The requests of one RemoteVeilidTransport to veilid-server: request(),  *)
(* the writer task behind its bounded channel, the reader task with the    *)
(* map of pending requests.  Identifiers are 32 bits wide and counted up,  *)
(* so within the time a request may take none comes twice; here a request  *)
(* is identified by its caller and by the how many-th it is of this caller.*)
(***************************************************************************)
EXTENDS Integers, Sequences, FiniteSets

CONSTANTS
  Callers,      \* tasks that make requests, one at a time
  MaxTurns,     \* bound: requests of one caller
  QueueSlots    \* 256 in the code: requests that wait for the writer

ASSUME RemoteAssumption ==
  MaxTurns \in Nat \ {0} /\ QueueSlots \in Nat \ {0}

VARIABLES
  request,   \* where each request is, in the end its result
  pending,   \* the requests whose answer the reader can deliver
  queue,     \* the channel to the writer
  writer,    \* is the writer task running
  reader,    \* the reader task: "up", "stopped" or "down"
  server,    \* what veilid-server did with each request
  answered   \* answers delivered and not yet returned

remoteVars == <<request, pending, queue, writer, reader, server, answered>>

Requests == Callers \X (1 .. MaxTurns)

Results == {"ok", "timeout", "shutdown"}

RemoteTypeOK ==
  /\ request \in [Requests -> {"unsent", "queueing", "waiting"} \cup Results]
  /\ pending \subseteq Requests /\ answered \subseteq Requests
  /\ queue \in Seq(Requests) /\ Len(queue) <= QueueSlots
  /\ writer \in BOOLEAN /\ reader \in {"up", "stopped", "down"}
  /\ server \in [Requests -> {"unseen", "written", "executed", "answered"}]

RemoteInit ==
  /\ request = [r \in Requests |-> "unsent"]
  /\ pending = {} /\ answered = {} /\ queue = <<>>
  /\ writer = TRUE /\ reader = "up"
  /\ server = [r \in Requests |-> "unseen"]

------------------------------------------------------------------------------
Result(r, result) == request' = [request EXCEPT ![r] = result]

\* request: the pending entry comes first.
Send(r) ==
  /\ request[r] = "unsent"
  /\ Result(r, "queueing") /\ pending' = pending \union {r}
  /\ UNCHANGED <<queue, writer, reader, server, answered>>

\* A place in the channel is waited for without a timeout.
Enqueue(r) ==
  /\ request[r] = "queueing" /\ writer /\ Len(queue) < QueueSlots
  /\ Result(r, "waiting") /\ queue' = Append(queue, r)
  /\ UNCHANGED <<pending, writer, reader, server, answered>>

EnqueueFails(r) ==
  /\ request[r] = "queueing" /\ ~ writer
  /\ Result(r, "shutdown") /\ pending' = pending \ {r}
  /\ UNCHANGED <<queue, writer, reader, server, answered>>

ReturnsAnswer(r) ==
  /\ request[r] = "waiting" /\ r \in answered
  /\ Result(r, "ok") /\ answered' = answered \ {r}
  /\ UNCHANGED <<pending, queue, writer, reader, server>>

\* The reader dropped the sender of the answer.
ReturnsClosed(r) ==
  /\ request[r] = "waiting" /\ r \notin pending \union answered
  /\ Result(r, "shutdown")
  /\ UNCHANGED <<pending, queue, writer, reader, server, answered>>

\* Mutant of TimesOut: the time runs from when the request is written.
TimesOutWritten(r) ==
  /\ request[r] = "waiting" /\ r \notin answered
  /\ server[r] # "unseen"
  /\ Result(r, "timeout") /\ pending' = pending \ {r}
  /\ UNCHANGED <<queue, writer, reader, server, answered>>

\* The request may be executed all the same; its answer will be dropped.
TimesOut(r) ==
  /\ request[r] = "waiting" /\ r \notin answered
  /\ Result(r, "timeout") /\ pending' = pending \ {r}
  /\ UNCHANGED <<queue, writer, reader, server, answered>>

RequestStep(r) ==
  Enqueue(r) \/ EnqueueFails(r) \/ ReturnsAnswer(r) \/ ReturnsClosed(r) \/ TimesOut(r)

------------------------------------------------------------------------------
Write ==
  /\ writer /\ queue # <<>>
  /\ queue' = Tail(queue)
  /\ server' = [server EXCEPT ![Head(queue)] = "written"]
  /\ UNCHANGED <<request, pending, writer, reader, answered>>

\* The writer ends, and with it what waits in its channel.
WriterEnds ==
  /\ writer
  /\ writer' = FALSE /\ queue' = <<>>
  /\ UNCHANGED <<request, pending, reader, server, answered>>

\* A request that is refused counts as one that is never executed: its caller
\* treats all failures alike.
Execute(r) ==
  /\ server[r] = "written"
  /\ server' = [server EXCEPT ![r] = "executed"]
  /\ UNCHANGED <<request, pending, queue, writer, reader, answered>>

\* Mutant of ReadAnswer: answers are taken for those of the pending requests in
\* some order, not by their identifier.
ReadAnswerUnmatched(r) ==
  /\ reader = "up" /\ server[r] = "executed"
  /\ server' = [server EXCEPT ![r] = "answered"]
  /\ IF pending = {} THEN UNCHANGED <<pending, answered>>
     ELSE \E p \in pending : pending' = pending \ {p} /\ answered' = answered \union {p}
  /\ UNCHANGED <<request, queue, writer, reader>>

\* The reader takes the response to r: an answer nobody waits for is dropped.
ReadAnswer(r) ==
  /\ reader = "up" /\ server[r] = "executed"
  /\ server' = [server EXCEPT ![r] = "answered"]
  /\ pending' = pending \ {r}
  /\ answered' = IF r \in pending THEN answered \union {r} ELSE answered
  /\ UNCHANGED <<request, queue, writer, reader>>

\* The connection ends, or a line cannot be read.
ReaderStops ==
  /\ reader = "up"
  /\ reader' = "stopped"
  /\ UNCHANGED <<request, pending, queue, writer, server, answered>>

\* The pending requests are dropped.  One that comes later waits for its timeout.
ReaderClears ==
  /\ reader = "stopped"
  /\ reader' = "down" /\ pending' = {}
  /\ UNCHANGED <<request, queue, writer, server, answered>>

ServerStep == WriterEnds \/ \E r \in Requests : Execute(r)

\* A new connection after a restart; what was under way is lost to the bridge.
Reconnect ==
  /\ request' = [r \in Requests |-> IF request[r] \in {"queueing", "waiting"}
                                    THEN "shutdown" ELSE request[r]]
  /\ pending' = {} /\ answered' = {} /\ queue' = <<>>
  /\ writer' = TRUE /\ reader' = "up"
  /\ UNCHANGED server

==============================================================================
