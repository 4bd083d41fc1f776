# VeilidHttp: TLA+ models and proofs

VeilidHttp carries HTTP requests over Veilid private routes. A browser request
goes through Electron and a native sidecar (the *client*) to a *bridge* beside
one HTTP server. This directory holds TLA+ models of that code, the TLC
configurations that check them on small instances, and TLAPS proofs that hold
for all values of the constants.

1. [Components](#1-components) – inventory of the system
2. [Modules](#2-modules) – what models what, and how state and actions correspond to the code
3. [Abstractions](#3-abstractions-and-bounds)
4. [Runs](#4-runs) – what each run checks and what it shows
5. [Fairness](#5-fairness)
6. [Disagreements found](#6-where-documentation-and-code-disagree)
7. [Proofs](#7-proofs)
8. [Not modelled, and the plan](#8-not-modelled-and-the-plan)

## 1. Components

| Component | State | Operations | Hard behaviour |
|---|---|---|---|
| `ReceiveWindow`, `AckSnapshot` (core) | `received`, `next_contiguous` | `record`, `snapshot`, `acknowledges` | duplicates, gaps, end of the sequence space |
| `OutboundBody` (engine) | pending items, in-flight frames, byte counters, peer window, next sequence | `push`, `finish_input`, `set_peer_window`, `acknowledge`, `take_sendable` | reordered acknowledgements, shared byte budget, retransmission |
| `InboundBody`, `Reassembler` (engine, core) | receive window, held payloads, pending End, decoder | `receive`, `ack` | reordering, duplicates, failure after a number was recorded |
| Body loops (`runtime.rs`, `streaming.rs`) | per-transaction sender and receiver | `run_stream_inner`, `run_upstream`, `handle_message` | stale back-pressure answers, acknowledgement policy, lost acknowledgements |
| Bridge transactions (`streaming.rs`, `main.rs`) | transaction map, one task per transaction | open, cancel, cancel all, atomic call | cancel racing with open, claims across awaits |
| `CompletionStore` (`completion.rs`) | entry map, record files | claim, lookup, record, abandon, prune | crash between memory and disk, a temporary file shared by two calls, eviction |
| Bridge event loop (`main.rs`) | active route, files of the route | dispatch, allocate, publish, replace | head-of-line blocking, route death, crash between files |
| Client runtime (`runtime.rs`) | transaction map, return route | start, run, dispatch, rotate | lost `ResponseOpen`, route death, overall timeout, a consumer that does not read |
| `TransactionJournal`, `SendWindow` (core) | entries; frames | begin, transition, expire | no caller in the workspace |
| Sidecar IPC (`native/src/main.rs`, `sidecar.ts`) | entry, credits and channels per stream | start, data, credit, end, cancel | credits lost or doubled, cancel racing with end |
| Remote transport | pending requests, writer channel, inbound calls | request, timeout, late answer, reply | answer after its timeout, lost connection |
| Codecs, HTTP normalisation, route identity, native transport, CLI, container | none, or no protocol state | pure functions, adapters | – |

How they interact: Electron and the sidecar exchange IPC frames with credits.
The client opens a transaction by an *AppCall*, whose answer is
`RequestAccepted` with the bridge's receive window. Everything after travels as
*AppMessages*, which Veilid may lose, repeat and reorder: request frames and
response acknowledgements to the bridge's route, response frames and request
acknowledgements to the client's return route. The bridge's single event loop
handles messages one after another, while one task per transaction talks to the
HTTP server. The two meet in the transaction's mutexes.

What makes each part correct:

- receive window: a snapshot acknowledges what was recorded and nothing else;
- sender: bounded frames, bounded bytes, nothing released that was not received,
  no queued item behind an open window;
- receiver: payloads delivered in order, once each; completion only for the whole body;
- a transfer: completion at the sender means verified delivery; a finished body
  reaches completion; a loop that stopped reading is told to go on;
- bridge transactions and completion store: an identifier is forwarded at most
  once while its record is retained, across duplicates, cancels and restarts;
- completion store on disk: a record in place stays whole while it is retained;
- client runtime: a request ends in a response or an error, whatever is lost, as long as its
  consumer reads or leaves, and a success is one both sides agree on;
- event loop and routes: the loop is never held up for ever, what it serves is what it
  published, a dead route is replaced;
- sidecar IPC: credit is conserved, an end means the whole body in either direction,
  and what ended on one side is released on the other;
- remote transport: a call is replied to at most once, an answer belongs to its request.

The body transfer is the part on which everything else rests, so it comes first.

## 2. Modules

```
AckWindow ── ReceiveWindow ── ReceiveWindowProofs
    ├── OutboundBody ── BodySource ── SenderAlone ── SenderAloneProofs
    │                        │  └──── BodySourceProofs ──┘
    └── InboundBody ──── BodyEndpoints ── BodyStream ── BodyStreamProofs
                             │    └────── FairBodyStream
                      ReliableStream (abstract)

CompletionStore ── BridgeTransactions ── MCBridgeTransactions
                             └────────── BridgeTransactionsProofs
Exchange ── ExchangeProofs
SidecarIpc ── SidecarIpcProofs
RemoteTransport ── BridgeHost ── BridgeHostProofs
```

**`AckWindow`** – arithmetic of `crates/veilid-http-core/src/lib.rs`. The
`while remove(&next)` loops become the predicate `FirstGap`; `Snapshot` and
`Acknowledges` are the two halves of the acknowledgement.

**`ReceiveWindow`** – `record` called with any numbers in any order, with a history
of what was recorded. `received` and `next_contiguous` are the struct's fields.

**`OutboundBody`** – `outgoing.rs`. `pending` is the length of the queue,
`in_flight` the keys of the map of retained frames, `unsent` those whose
`last_sent_ms` is `None`, `outcome` what the last call returned. `Pump` is the
whole loop of `pump` with its three exits (window full or queue empty, budget
exceeded, sequence space exhausted); `Queue` is a series of `queue` calls that a
budget error may cut short. Every public operation ends in `Pump`, in the model as
in the code.

**`BodySource`** – the loops that own an `OutboundBody`. The client decides to read
and reads in one step of `select!` (`MayRead` from `"open"`); the bridge decides in one
step and gets the chunk in a later one (`StartReading`, `"reading"`). A chunk is
several `push` calls between which nothing else runs (`"chunk"`): the client's
task is not interrupted, the bridge holds the mutex.

**`SenderAlone`** – the sender against every peer whose acknowledgements have the
shape that `snapshot` gives them and name only frames that were issued.

**`InboundBody`** – `incoming.rs` and `Reassembler::push`. `delivered` is a history of
what entered the decoder. `ReceiveData` follows the code's order: record the number,
push into the reassembler (which may refuse), feed the decoder (which may be gone),
try to finish.

**`BodyEndpoints`** – both ends. `ShouldAck` and `Acks` are the policy of
`streaming.rs:358` and `runtime.rs:474`. An error of `receive` ends the client's loop and is
only logged by the bridge (`HandleFrame`); the consumer may be gone after the frame
was recorded (`HandleFrameUnread`).

**`BodyStream`** – both ends over a network that is the set of all messages sent:
delivering one leaves it there, so loss, repetition and reordering need no actions
of their own.

**`FairBodyStream`** – the same ends over two FIFO channels with a bounded number of
losses, to ask for progress.

**`ReliableStream`** – the abstract specification: the reader gets a prefix of what was
written, verification needs the closed body read to its end, confirmation needs
verification. `BodyEndpoints!ImplementsStream` is the refinement, with the mapping
`written <- Queued` without the End item, `closed <- input_finished`,
`read <- delivered`, `verified <- completed`, `confirmed <- is_complete`.

**`CompletionStore`** – `completion.rs`. `memory` is the map of entries, `file` the expiry
in each record file (`Torn` for a file that cannot be read), `temporary` the same of the
temporary files. What runs under the lock is one step. `record` goes on after it with the
system calls of `persist_entry`: it opens and empties the temporary file (`CreateTemporary`), fills it
(`FillTemporary`) and renames it (`Rename`), then removes the files of evicted records
(`RemoveEvicted`); `write` says how far each caller has come. The name of the temporary file is made of the
identifier alone, so that two calls of one identifier may empty, fill and rename each
other's; one that still writes when the other renames writes into the record file (`Overwrite`).
Any of the system calls may fail (`PersistFails`). Every operation prunes first, `abandon` excepted, as in
the code.

**`BridgeTransactions`** – the callers of the store. `handler[c]` is where the task that
handles AppCall `c` is, from one await or lock to the next, and in the end its reply;
`task[c]` is the upstream task that an opening spawns, `stored` whether its handle is in the
transaction, `registered` the map of transactions, `loop` and `doomed` the one event loop
with the transactions `cancel_all` has drained. `Restart` ends the process, loses
everything but the files and reads them again. `forwards` counts the upstream requests
of an identifier since it was last forgotten: when its record expired or was
evicted, or when the process ended before its completion was on disk. `saved` has the
identifiers whose completion was renamed into place, `raced` those whose files two
`record` calls touched side by side.
`MCBridgeTransactions` adds what makes the state spaces of its two runs smaller (section 4).

**`Exchange`** – one streamed transaction end to end. `client` follows `run_stream` from
the entry in the transaction map (`Insert`) over the AppCall to the `break` of its loop
(`Breaks`) and the removal of the entry; `dispatcher` is `dispatch_updates` with the return
route it replaces. On the bridge, `loop` is the one event loop with the chunks it still has to
hand to the upstream (`left`), `task` is `run_upstream`, `entry` the transaction and
`completion` its record, `chunks` and `reading` the channel to the upstream request with
its receiver, `upstream_body` the sender that closes it. A body is a set of sequence
numbers that arrived and a cumulative acknowledgement: what `BodyStream` shows of it.
`ResponseOpen`, `Error` and `Cancel` are frames that are sent once and may be lost. In `"handing"` the
client waits for its consumer to take a chunk (`Receive`), inside a branch of its `select!`: it does nothing
else until the consumer reads (`Consumed`) or leaves (`ConsumerGone`), and acknowledges afterwards. `body_seen`
is what the HTTP server took for the request body.

**`SidecarIpc`** – one stream between Electron and the sidecar. Up and down the pipe run two
FIFOs of frames. `pending` is Electron's entry in its `pending` map and how it ended, `pump` the
loop `pumpRequestBody`, `queued` the chunks in the page's `ReadableStream`. On the other side
`active` is the entry of `serve_connection`, `permits` and `closed` its semaphore, `accepting` its
`request_body` sender, `task` the spawned response task of `start_http_request`, `granted` the
channel to `forward_request_credits`, and `run` the transaction with `input` and `events`, the channels of
`start_request`. `RunTakes`, `RunFinishesInput` and `RunDisconnects` are ready branches of one
`select!`, which may take any of them.

**`RemoteTransport`** – `request` in its steps: the pending entry, the place in the channel to
the writer, the answer or the timeout; `Write` is the writer task, `ReadAnswer` and
`ReaderEnds` the reader. `server` is what veilid-server did: it may execute a request that
has timed out.

**`BridgeHost`** – `run_live` over it. `loop` follows the allocation of a route through the three
files of `persist_route` and its activation, then serves events; `handler[c]` is the task of
AppCall `c` from dispatch to its reply, with the second attempt of a failed reply. `Crash` may
come between any two steps and keeps `files`.

Operators named *Mutant of …* in the modules are plausible bugs of the definition
that follows them. Each property is violated when the right one takes its place.

## 3. Abstractions and bounds

- *Payloads.* A body is the sequence of its frames. Compression and batching decide
  how many frames a call releases (`MaxReleased`), nothing else about them matters.
- *Bytes.* Every queued item takes `PayloadBytes`, every encoded frame `FrameBytes`,
  with `PayloadBytes <= FrameBytes`. `SenderAlone` uses 1 and 2, so that a frame grows
  when it is encoded; the other runs use 1 and a budget that is never reached.
- *Out-of-order budget.* `MaxHeld` payloads of one size.
- *Integrity.* Length and digest match exactly when the decoder consumed
  0, 1, …, up to the End frame.
- *Time.* A frame sent before is due or not due, at any moment (`BodyStream`), or when
  nothing of it is on the way (`FairBodyStream`).
- *Sequence numbers* end at `MaxSeq`, with the code's saturating and checked additions.
- *Bitmap.* `AckBits` is 3 or 4 instead of 64. All places where the width matters are
  relative to it (`LocalWindow <= AckBits`).
- *Overall timeouts, cancellation, dead routes* stop an end at any time (`StopSource`,
  `StopSink`); `Exchange` has each of them as an action of its own.
- *Worlds.* `Exchange` starts in one of three worlds: in a `rough` one everything with an error
  path may happen, in a `calm` one nothing fails, and in an `early` one the upstream alone is
  impatient. A world is chosen at the start and never changes.
- *Bodies of an exchange.* `MaxData` data frames and an End, each sent until acknowledged, so
  that it may arrive at any later time, repeatedly or never. The acknowledgement stride is 2.
- *The client's consumer.* The channel to it has 8 places; a body of one frame stands for one
  that has filled them, so that any chunk may have to wait. The head never does: it is the first event of a channel
  made for this transaction. Nor do the credits of a request body, of which there are never more than the
  first grant (`UploadCreditBounded`), in a channel twice as large.
- *Temporary files* that nobody writes any more count as gone: the next call empties the file before it
  uses it, and a start does not read them.
- *One IPC stream.* Streams meet only in the pipe and the limit of requests; identifiers are
  never reused (`nextRequestId`). The sidecar's queue to the socket is part of the FIFO `down`. Losing
  the connection is left out: Electron's `failAll` kills the child, and the sidecar cancels all
  streams at the end of the pipe.
- *Requests to veilid-server* carry no data. The numbering (`MaxTurns`) replaces the 32-bit
  counter, which does not come round within the time a request may take.
- *Answers.* Whether a retained response is replayed or a tombstone refuses the
  duplicate is left out: either ends the call without forwarding it. `Notify` is left
  out: an atomic call asks again every 50 ms in any case.
- *Clock.* One tick is longer than an opening, the sending of a request or a `record` call
  (at most `VHTTP_REMOTE_TIMEOUT`, 2 minutes), and a retention is at least two ticks
  (15 minutes): `Tick` lets each of them last over one tick at most. How long the upstream
  takes is not bounded.
- *One request per identifier* (`docs/protocol.md:157`): whether it can be translated at all
  is a property of the identifier (`Malformed`).
- *`MaxItems`* bounds a body. In the stream models it is at most `MaxSeq`, as no real
  body reaches 2^32 frames within its overall timeout; `SenderAlone` and
  `ReceiveWindow` reach the end of the space.

## 4. Runs

| Run | Configuration | Question | Result |
|---|---|---|---|
| `receive_window` | 7 numbers, bitmap 3 | are snapshots exact and monotone? | yes |
| `sender_alone` | bitmap 4, window 3, frames of 2 bytes for payloads of 1, budget 8, space of 8, up to 10 items | do window, budget and span hold against every peer? is the window used? | yes |
| `body_stream_request` | window 2, bitmap 3, six items, `MaxHeld` 4 | does a request body implement the stream? does the receiver ever fail? | yes; no |
| `fair_body_stream` | window 2, bitmap 3, stride 2, `MaxHeld` 1, five items, one frame and one acknowledgement lost | does retransmission deliver, does a body complete, does reading resume, what if the receiver refuses frames it recorded? | yes; never misdelivered |
| `stall_frame_loss` | window 4, one frame lost | does a closed body complete? | no, see 6 |
| `bridge_duplicates` | three calls of any kind, one identifier, retention 2, two ticks, one crash | forwarded at most once while retained? one preparation at a time? | yes |
| `bridge_ends` | two calls, a good and a malformed identifier, limits of one, one crash | does every claim, registration and call end? does a record in place stay whole, through evictions, failed writes and shared temporary files? | yes; yes, but for racing calls of one identifier, see 6 |
| `exchange` | calm and rough worlds, one data frame and an End in either direction, one slot to the upstream, one rotation | do both sides agree on success? does everybody end, whatever is lost? | yes; the client unless its consumer neither reads nor leaves |
| `exchange_early_answer` | early world, no rotation | does an undisturbed request succeed when the upstream answers first? | no, see 6 |
| `sidecar_ipc` | input capacity 1, high water mark 2, one event ahead, two upload and four response chunks | is credit conserved? are ends whole? is everything released? | yes |
| `sidecar_truncated_upload` | input capacity 2, two upload and two response chunks | does a cancelled upload end as if it were whole? | yes, see 6 |
| `bridge_host` | one AppCall, three routes, one place to the writer, one crash | are files in order, replies single, dead routes replaced? | yes |

Why the bounds are enough. The sender's windows are relative: what it can do
depends on the distance between its oldest retained frame and its next number,
which `SpanBounded` limits to `AckBits + LocalWindow`. Six items with a bitmap of 3 and a window
of 2 pass that distance, so every relative position of a frame, an acknowledgement
and the bitmap occurs. `sender_alone` gives a body more items than the space has
numbers and a budget below window plus chunk, so all three exits of `pump` and both
of `queue` occur. `MaxHeld = AckBits + LocalWindow - 1` is the smallest budget for
which `ReceiverNeverFails` holds: with 3 instead of 4 a late acknowledgement
reopens the window and a frame is refused. `fair_body_stream` has room for one payload only,
so that refusals happen too.

In the bridge, identifiers meet only in the two limits, so one identifier with three
calls shows every interleaving of an execution, a duplicate and a successor, with all
that cancels, expires, fails or restarts between them. Two identifiers with limits of one
make either limit bite: the record of one is evicted for the other, its file removed late or brought back
by a crash before that, and two of the three writers (two calls, the event loop's cancellation) can record the
same identifier at once. Without the exception for `raced`, TLC finds both losses of section 6 in
`bridge_ends`, a removed file and one written by halves.

Calls are alike. `bridge_duplicates` uses TLC's symmetry for it, and a view that leaves out what
neither a step nor its two properties can tell: which reply a handler gave, how a task ended, the
kind of a call that is over and the history `raced`. Symmetry and views are unsound for liveness, so `bridge_ends` has
none of them: it starts from the states in which one of its two calls has the least request
(`SortedInit`), the other starting states being these with the calls exchanged.

In `exchange` the actors meet in the order of steps, not in the length of bodies: one data
frame and an End already arrive in either order, twice or not at all, around `ResponseOpen`, the final
acknowledgements and the removal of the transaction; one slot to the upstream is full after
one chunk. One rotation of the return route can fall before, into and after the opening.
In `sidecar_ipc` the input channel of 1 is empty, full and handed on; four response chunks against a
high water mark of 2 use every credit twice. In `bridge_host` an AppCall's two replies and the
allocations compete for one place in front of the writer; three routes allow a replacement, a
crash and another.

Every module with variables has a `TypeOK`. `SidecarIpc`'s is among the properties of its run, and the
proofs establish all of them but that of `FairBodyStream`. Those of the other modules hold in the
configurations too (add `TypeOK` to `INVARIANTS`); they are not part of the runs, as they say nothing
beyond the types.

`CHECK_DEADLOCK FALSE` is set wherever a body ends, or the calls of a behaviour do:
there is then nothing left to do.

What the runs show beyond "it holds":

- A receiver has to hold `AckBits + LocalWindow - 1` payloads out of order, 95 frames
  with the defaults and not the 32 it advertised. The default of 4 MiB covers every
  legal window with frames of 30 KiB; a configuration that lowers
  `VHTTP_MAX_OUT_OF_ORDER_BYTES` to its own window does not.
- A refused frame is lost for good, as its number was recorded before: the transfer
  can then only fail, and the models show that it does not do anything worse.
- Beside the wait for its consumer nothing keeps the client beyond its deadline (`ClientEnds`): not a lost
  `ResponseOpen`, `Error` or acknowledgement, not a return route that dies before the opening or while it is replaced, and not
  the end of `dispatch_updates` by a payload that does not decode.
- The closing of the response semaphore is what releases a stream whose page went away: with a
  semaphore that stays open, `sidecar_ipc` finds the response task waiting for ever.
- Upload chunks never meet a full channel in the sidecar, though `serve_connection` would end
  the stream if they did (`UploadCreditBounded`).
- An upstream that stops reading holds up the bridge's event loop, and all transactions
  with it, until the overall deadline of that one transaction: `EventLoopIsFreed` holds because the
  deadline drops the receiver, and for no other reason.
- Either side may report a failure of what the other counts as done (a deadline comes before the
  last acknowledgement). Only a success says something about both: `OkIsConfirmed` and `DeliveredIsReceived`.
- A route that dies while it is being published is noticed: its event waits in the queue until
  it is the active route.
- At-most-once forwarding rests on records that outlive the openings under way:
  `bridge_duplicates` has room for a record of its identifier. With two identifiers and room
  for one record, TLC finds the escaped opening of section 6 claimed again while it still
  executes, once its record is evicted.

## 5. Fairness

`BridgeTransactions!FairSpec` assumes weak fairness of every step of the bridge's own
tasks, that is of each handler, each task and the event loop, with the file operations of their
record calls: each await ends, by an answer, by the remote timeout or by the overall
timeout. Arrivals, messages, route deaths, crashes and the clock are not fair, and
neither is an atomic call's timeout: `EverythingEnds` shows that its wait ends
because the claim it waits for does.

`FairBodyStream` assumes:

- strong fairness of dispatching a given frame (`SendIncluding`): both loops come back to
  `take_sendable` at least every 50 ms. It is strong because the bound on the
  channels (`Due`) withholds a frame while acknowledgements of other frames are on
  the way, which its real timer does not;
- weak fairness of leaving a wait for a chunk (the 50 ms branch of `select!`) and of
  pushing a chunk to its end (no await in the client, a held mutex in the bridge);
- weak fairness of delivering the next frame and strong fairness of handling the next
  acknowledgement. `select!` polls its ready branches in random order, so that other
  work cannot keep an acknowledgement waiting for ever. It is strong because pushing
  a chunk disables it for a while.

Reading another chunk and ending the input are never assumed. Neither end gives up,
since each gives up by itself after the overall timeout and nothing would have to be
shown.

`Exchange!Fairness`: the program's own steps are fair, each await ending by a result or by a
deadline. What depends on the world (frames arriving, the upstream reading and answering, chunks
coming, the client's consumer reading) is fair only where the world is not rough. There `BridgeEnds` rests on
the bridge's deadline alone, which is a timeout around the whole task and drops it at any await. The client's deadline is a
branch of its `select!`, so it is fair only where the loop selects (`ClientTimesOut` from `"running"`); the AppCall and the sends
end by Veilid's own timeouts. For the wait inside a branch nothing is assumed: `ClientEnds` says that the client ends
or waits there for ever. `UndisturbedSucceeds` says what happens where nothing fails and the consumer reads.

`SidecarIpc!Fairness`: both processes handle their frames and the sidecar's tasks run; a
transaction ends by itself at the latest at its overall deadline, strongly fair because handing
over an event, which waits, disables it for a while. Neither the page nor the source of the
request body is fair: a page may leave its queue full, which `StreamSettles` allows for.

`BridgeHost!Fairness`: the tasks of the bridge run, the writer gets rid of what it has to write
(see section 6) and a request that waits is given up after its timeout. veilid-server owes
nothing, neither an answer nor an event.

## 6. Where documentation and code disagree

- **Gap closed by a retransmission** (`stall_frame_loss`). `docs/streaming.md:69-70`
  describes cumulative and selective acknowledgements that release received frames. The
  retransmitted frame closes the gap, so its acknowledgement has no selective bits
  and is sent only when the frame's own number is 3 modulo 4. The sender keeps the
  reduced window of the acknowledgement before, and can stop for good. The repository's
  fault test acknowledges every frame, and does not meet this.
- **An early answer strands the request** (`exchange_early_answer`). `docs/protocol.md:170` calls the
  two streams independently sequenced, and `docs/protocol.md:207-208` does not reject a large
  stream that progresses. The bridge's task ends, and removes the transaction, when the response is
  acknowledged (`streaming.rs:276`). An upstream that answers before it has read its request, as servers do
  for redirects, authentication and refused uploads, leaves a client whose remaining request
  frames are ignored: it has the response and reports a timeout after the overall deadline.
  The upstream may also see the rest of the body missing without noticing, as the channel is simply
  closed.
- **A cancelled upload is completed** (`sidecar_truncated_upload`). `docs/protocol.md:215-217` has the
  digest detect truncation. On a Cancel the sidecar drops the stream's entry, with it the sender of the
  request body (`native/src/main.rs:669`). The transaction sees a closed channel and a cancel
  signal at once; if it takes the first (`runtime.rs:523`), it sends an End frame whose length and
  digest match what was uploaded so far, and the HTTP server may get a truncated body as whole.
  `UploadEndsWhole` shows that this takes a cancellation.

Further observations, which have no run of their own:

- *A retained record may lose its file.* `ARCHITECTURE.md:127` promises that recent completed
  identifiers are not forwarded again after a restart. There are two ways to break it, and both take two calls of
  `record` that touch the files of one identifier side by side. `record` removes the files of what it
  evicted after it released the lock; meanwhile an evicted identifier may be claimed, executed and
  recorded again, and its new file is removed. And the temporary file has the same name for all calls of an
  identifier: while the task of a transaction records its end, a cancellation may record it too
  (`streaming.rs:289`, `450`), empty the file the task has just filled, and leave it to be renamed into place empty
  or half written; the next start ignores such a file. TLC finds both with the configuration of `bridge_ends`
  when `RecordedIsDurable` is asked of all identifiers. They are what its exception `raced` names; that there is
  no third way is what the run and the theorem `CompletionsDurable` show.
- *A cancelled opening goes on.* `streaming.rs:414` and `docs/streaming.md:73` promise that cancelling
  aborts. Between `insert` (line 258) and the storing of the task handle (line 293) there is nothing to
  abort; the opening starts its task afterwards and no message can reach it any more.
- *A repeated opening is refused.* `docs/limitations.md:26` has concurrent duplicates wait or
  share. Between the first opening's claim and its insertion, while its return route is
  imported, they get an error.
- `docs/configuration.md:13` allows windows `1..=64`, but with a window of 3 the sender stops
  after frame 2, in-order frames being acknowledged at 3 modulo 4 (`FairBodyStream`
  with a window below `AckStride` and nothing lost).
- `completion.rs:16,94` speak of a limit of executions; it counts claims, and the cancelled
  opening above lost its claim to the record of its own cancellation.
- At that limit `claim` answers `Wait`, which `handle_open` takes for a duplicate: a new
  opening is told that it was seen before (`ClaimRefused`).
- The comment at `crates/veilid-http-core/src/lib.rs:28` promises false for a duplicate;
  a number below the prefix returns true once. `AcknowledgementsOnlyGrow` and the
  stream runs show that it does no harm, as the reassembler drops the payload.
- `docs/server-docker.md:94` has the bridge publish its route atomically. Each file is replaced
  atomically, the three of them are not: a reader may see the blob of one route and the description of an
  older one, never of a newer one (`FilesInOrder`).
- `VHTTP_REMOTE_TIMEOUT` (`docs/configuration.md:11`) does not cover the wait for a place in
  the writer's channel (`veilid-remote/src/lib.rs:232`): while the socket takes nothing, requests hang.
- A reply that timed out may have been executed. `app_call_reply` forgets the call first, so the
  retry is refused rather than sent twice (`OneReply`), but the bridge then takes back a
  transaction that the client believes accepted. AppCalls for a route no longer current are never
  replied to, and their entries stay in `pending_calls`.
- The transaction awaits its consumer inside a branch of `select!` (`runtime.rs:442`, `469-472`): until the page reads
  or goes away, neither its deadline nor a cancellation nor acknowledgements are looked at. A page that leaves its
  response unread keeps the transaction, and its permit in the sidecar, beyond the overall timeout (`ClientEnds`;
  without its exception TLC finds the client in `"handing"` for ever).
- One payload that does not decode ends the client's `dispatch_updates` for good (`runtime.rs:620-621`), as does a
  failed allocation: every transaction from then on only has its deadline (`RouteLost`).
- `serve_connection` cancels all streams when the pipe ends, but not when a frame is malformed (it returns
  at `native/src/main.rs:468`).
- `sidecar.ts:76`: the receive buffer is never cleared. Bytes of a frame that a crash of the sidecar
  cut off prefix the first frame of the next sidecar, which is refused as malformed, so every
  later start fails. `failAll` is also called by late events of an earlier process, and then
  ends the new one. `docs/testing.md:84` lists sidecar restart among the behaviours to test.

## 7. Proofs

Every safety invariant and the action property of the passing runs is a theorem about the
specification of its module (for `FairBodyStream`, see the end of this section). They hold for every
value of the constants under the named assumptions of the modules, which say what the constructors and
the configuration check enforce (a window of at most one bitmap, a budget of at least one full window
of frames, limits that are not 0) and, for the transfer, that a body ends before the sequence space does
(`SpaceAssumption`). Some results need more, stated in the theorem: `Spacious` for `ReceiverIsSafe`,
`Roomy` and `Lasting` for two theorems about the completion store. Without `Spacious` or `Roomy` the property is false, and
sections 4 and 6 say how.

**A receive window** (`ReceiveWindowProofs`), up to the saturating end of the space. The inductive
invariant is the types and `Kept`: a number below the last one was recorded if and only if it lies below
the prefix or is in `received`. The code may also hold a number both ways, as a repeated number below the
prefix is inserted again; `Kept` says that this makes no difference to what is acknowledged.

| Theorem of `ReceiveWindowProofs` | Property |
|---|---|
| `TypesHold` | `TypeOK` |
| `SnapshotsExact` | `SnapshotIsExact` |
| `AcknowledgementsGrow` | `AcknowledgementsOnlyGrow`, an action property |

**The sender against every peer** (`BodySourceProofs`, `SenderAloneProofs`). The
inductive invariant `SourceInv` is type correctness, `WindowRespected`,
`BudgetRespected` and `ReleasedNearby`. `WindowRespected` is not inductive without the
types (the retained frames must be finitely many and below `next_sequence` for the new
ones to be disjoint). `SpanBounded` does not follow from window and budget: an
acknowledgement may release frames above one that is missing, again and again. It
follows from `ReleasedNearby`, the history of what was released in one formula: all
numbers a bitmap width above a retained frame are retained themselves, so there are
fewer of them than the window holds. The lemmas are stated for the operations of
`OutboundBody` (`PumpPost`, `QueuePost`, `RefilledInv`) and shared with the transfer.
`WorkConserving` needs nothing beside `SourceInv`: every operation that succeeds left `pump` by the
first of its exits (`PumpConserves`, `QueueConserves`), and what changes a window pumps.

| Theorem of `SenderAloneProofs` | Property |
|---|---|
| `TypesHold` | `TypeOK` |
| `WindowHolds` | `WindowRespected` |
| `BudgetHolds` | `BudgetRespected` |
| `NearbyHolds` | `ReleasedNearby` |
| `SpanHolds` | `SpanBounded` |
| `ConservesWork` | `WorkConserving` |

**One transfer over any network** (`BodyStreamProofs`). The inductive invariant
`StreamInv` adds to `SourceInv`:

- `LengthInv`: the body fits its bound, a finished one has its End item;
- `ReceiverInv`: every recorded number was issued, and the number of the End frame is
  recorded only by a completed body; what is held or was released are pieces; the
  decoder consumed exactly the released run unless a failed `finish` took it;
- `ChannelInv`: messages are true for ever. A frame's End mark still agrees with the
  sender, whatever was queued since, and what an old acknowledgement claims is still
  recorded. This is what makes late and repeated messages harmless;
- `ReleasedIsRecorded`: what is no longer retransmitted has been recorded.

Two facts carry the argument. The sender's numbering only grows and its End item is
the last one (`Grew`, `GrewKeepsFrames`), so everything said about an issued frame stays
true. And `receive` forgets nothing (`RecordPost`, `TryFinishPost`), so
acknowledgements stay true. A sender that is complete then released its End frame,
which is recorded, so the body was verified (`CompleteVerified`).

| Theorem of `BodyStreamProofs` | Property |
|---|---|
| `TypesHold` | `TypeOK` |
| `ReleasedFramesAreRecorded` | `ReleasedIsRecorded` |
| `PayloadsInOrder` | `DeliveredInOrder` |
| `CompletionMeansDelivery` | `CompletionIsDelivery` |
| `TransferImplementsStream` | `ImplementsStream` |
| `ReceiverIsSafe` | `ReceiverNeverFails`, given `Spacious` |

For the last one every step of the transfer is a step of the sender (`SenderRefines`:
it writes, confirms, or is invisible) or a receive (`ReceiverRefines`: it reads, or is
invisible).

`ReceiverIsSafe` assumes `Spacious`, `MaxHeld >= AckBits + LocalWindow - 1`, which `body_stream_request` meets with
equality; with one payload less TLC finds a frame refused. Its invariant `AlignedInv` says that the
window and the `Reassembler` go in step until the body is complete: they miss the same first number
and hold the same ones above it. A frame that arrives was issued, and the first missing number is still
retained (`ReleasedIsRecorded`), so `SpanBounded` leaves room for what lies between (`HeldFits`).

**The credits of one IPC stream** (`SidecarIpcProofs`), for any capacities that do not exceed
`MAX_STREAM_CREDITS` and bodies of any length. Neither bound is inductive by itself. The
inductive invariant `CreditInv` joins the types, both bounds and `NewStream`: before the sidecar has
handled the Request frame no upload credit exists anywhere, so that the first grant may
create it. The credits on the way are the members of a set of pairs (frame, credit), counted
by `Cardinality`; the lemmas of the first part say what appending a frame to a channel and
taking one from it do to that count (`AppendInFlight`, `TailInFlight`), and every step is then
arithmetic on two accounts, `Uploads` and `Responses` (`SameAccounts`, and one `...Keeps` lemma per action).

| Theorem of `SidecarIpcProofs` | Property |
|---|---|
| `SidecarTypes` | `TypeOK` |
| `UploadsBounded` | `UploadCreditBounded` |
| `ResponsesBounded` | `ResponseCreditBounded` |

**The ends of one IPC stream** (second part of `SidecarIpcProofs`). The inductive invariant joins the types and
`EndsInv`, which says what an end stands for while it is on its way:

- `EntryInv`: the sidecar's entry follows the Request frame, the transaction the entry, and a transaction
  succeeds only after it has finished its request and produced the whole response;
- `UploadInv`: unless it was cancelled or refused, a request loses no chunk (what Electron wrote is in the
  pipe, in the input channel or taken), and the sidecar stops accepting only after the End frame;
- `EventsInv`: the head is the first event of a response and the terminal event the last one, and it agrees
  with the verdict of the transaction;
- `ResponseInv`: as long as the page may still see the end, what was produced is shown, in the pipe, held by the
  response task or in the event channel (`Downloads`), and behind an End frame nothing is left;
- `ReasonInv`: nothing cancels a stream without a reason: the page gave up, the transaction failed, the
  upload was refused, or the End frame was sent before (`Doomed`, `EndSent`). This is why an answer to late frames
  cannot turn a finished response into a failure.

None of the three properties is inductive alone: each is about the last of several hand-overs, and a
frame lost, doubled or overtaken at an earlier one would break it.

| Theorem of `SidecarIpcProofs` | Property |
|---|---|
| `ClosesWhole` | `ClosedIsWhole` |
| `SuccessArrives` | `SuccessReachesPage` |
| `UploadsEndWhole` | `UploadEndsWhole` |

**What both ends of a transaction agree on** (`ExchangeProofs`), in all three worlds and for bodies of any
length. Both bodies follow one argument, `ExchangeInv`: a cumulative acknowledgement stands for frames that have
arrived from the first one on, also when it is stale; a finished body does not change any more
(`ResponseInv` places its end in the life of the task); so a body acknowledged to its end is there. `BridgeInv`
orders the two sides: nothing exists at the bridge before the AppCall, and the upstream's body is closed
by the whole request or by the removal of the transaction. The cumulative acknowledgement is the first
missing number, which exists by well-foundedness (`LeastNumber`); `Whole` counts frames, the proofs quantify
over them (`Complete`). That the client may wait between the arrival of a response frame and its acknowledgement
makes no difference to this, as what has arrived stays there (`ReceivingResponseKeeps`).

| Theorem of `ExchangeProofs` | Property |
|---|---|
| `TypesHold` | `TypeOK` |
| `SuccessIsConfirmed` | `OkIsConfirmed` |
| `DeliveriesReceived` | `DeliveredIsReceived` |
| `NoTruncationInPlace` | `TruncationNeedsRemoval` |

**The event loop and its transport** (`BridgeHostProofs`), for any number of calls, routes and crashes. `HostInv` is
the types and

- `Matched`: a request is written once, so what veilid-server did with it is never undone and only its own
  answer makes it succeed; this part is proved of the steps of `RemoteTransport` alone;
- `Published`: each file is as far as the loop is with the route it allocated last, crashes included;
- `Replaceable`: only routes that were asked for exist, so that the next one is new;
- `Replied`: as long as a call can be replied to, neither of its two replies was sent.

| Theorem of `BridgeHostProofs` | Property |
|---|---|
| `TypesHold` | `TypeOK` |
| `FilesFollow` | `FilesInOrder` |
| `ServesPublished` | `ServedIsPublished` |
| `RepliesOnce` | `OneReply` |
| `SuccessesExecuted` | `SuccessIsExecuted` |

**At-most-once forwarding** (`BridgeTransactionsProofs`), for any number of calls, identifiers, crashes and ticks. Two
hypotheses are part of `ForwardsOnce` and `ClaimsAreExclusive`:

- `Roomy`: there is room for a record of every identifier, so that nothing is evicted. With an eviction the two
  properties are false: an opening that was cancelled executes beside the next one (section 4), and a late removal
  deletes a newer record (section 6);
- `Lasting`: `Retention > 1`, a record is retained for more than a tick. Section 3 (*Clock*) says why the
  code meets it: a tick is longer than an opening and at most half a retention.

`StoreInv` adds to the types that a `record` call has no evicted files to remove (`WriteInv`) and that what was
saved has a file, in memory or not (`DiskInv`). `TransactionInv` adds who holds an identifier:

- `Holds(c)`: call `c` has claimed its identifier and has neither sent its request nor given the claim back. The
  claim goes over from the handler to the task with the reply (`TaskInv`);
- `ClaimInv`: whoever holds an identifier holds it alone (`Sole`), it has not been forwarded (`Unsent`), and it is
  known (`Secure`). The last is the difficult part, as a cancel may have replaced the claim by a record, which expires.
  It cannot expire early: whoever holds an identifier over a tick has held it since the tick before, and
  a record written in the meantime lasts for two, so `Secure` bounds its expiry by whether `c` is `aged`;
- `ForwardInv`: an identifier that is not known has not been forwarded since it was forgotten. A restart forgets
  exactly what it does not find in the files (`DiskInv`), and ends whoever held it.

| Theorem of `BridgeTransactionsProofs` | Property |
|---|---|
| `TypesHold` | `TypeOK` |
| `ForwardsOnce` | `AtMostOnce`, given `Roomy` and `Lasting` |
| `ClaimsAreExclusive` | `ClaimsExclude`, given `Roomy` and `Lasting` |
| `CompletionsDurable` | `RecordedIsDurable` |

**Records on disk** (third part of `BridgeTransactionsProofs`), for any limit of records, with evictions. `RecordedIsDurable` is
not inductive: it says nothing of the calls that may still touch a file. `AloneInv` does, of every identifier that has not
`raced` and is retained or has its file (`Settled`). At most one `record` call has still to write its file or to remove it; that
call writes a record of it from the beginning, so it never has the place of a renamed file open nor this file among its
evicted ones; and its temporary file is empty while the call fills it and whole when the call renames it. Then
a renaming puts a whole record in place, and no removal is for this identifier. An identifier that is evicted or expires
counts as new and is no longer spoken of; when it is recorded again while its old file is still to be removed,
it has `raced`. A restart ends every call and keeps the readable files (`Reload`), and the files that go are those
of the records that go.


*Only model-checked.* Progress: `EverythingEnds`, and the temporal properties of `FairBodyStream`, `Exchange`,
`SidecarIpc` and `BridgeHost`, as liveness under fairness and `ENABLED` are out of the prover's reach. Safety
over the FIFO channels of `FairBodyStream`: `CompletionIsDelivery` and `DeliveredInOrder` are proved for
`BodyStream`, whose network can do more, and model-checked there. That everything ends where records are
evicted (`bridge_ends`).

## 8. Not modelled, and the plan

Not modelled, with the reason:

- *Start-up and restart of the sidecar* (`startInternal`, `failAll`, the handshake), and the control
  commands: the processes have no state that survives a connection, the receive
  buffer of section 6 excepted.
- *`request_buffered`*, which collects a response for the command line tool, and the start of
  the client runtime.
- *Several transactions in one `Exchange`*: they meet in the event loop, which one of them shows to
  be freed, and in the limits of the completion store, which `BridgeTransactions` has.
- *`TransactionJournal`, `SendWindow`* have no caller in the workspace. (`begin` overwrites the entry of a
  known identifier although it reports false, which a caller would have to know.)
- *`FrameBatcher`, `RetryPolicy`, bundling*: pure helpers; the models leave open what they compute. (The
  attempt count of `RetryPolicy` is documented as one-based, `core/src/lib.rs:270`; attempt 1
  waits twice the initial delay.)
- Codecs, compression and digests (their contract is assumed), HTTP header rewriting, route
  hashes, the native transport (an adapter without protocol state), the command line tool,
  container start-up and the Electron user interface.

Theorems to come: that the safety of the endpoints carries over to the channels of
`FairBodyStream`, whose deliveries are deliveries of `BodyStream`'s network (a frame in a channel has been
sent); that `Exchange`'s bodies are what `BodyStream` leaves visible of a transfer; and what remains of
`AtMostOnce` where records are evicted.
