------------------------------ MODULE SidecarIpc ------------------------------
(***************************************************************************)
(* One HTTP stream between the Electron main process (sidecar.ts) and the  *)
(* native sidecar (main.rs and the channels of start_request), with the    *)
(* credits that bound it in both directions.  The two processes share a    *)
(* byte stream: each direction is a FIFO of frames, of which one stream    *)
(* sees its own.  Request identifiers are never reused.                    *)
(*                                                                         *)
(* The transaction itself (runtime.rs) appears by what its loop does to    *)
(* the channels: it takes request chunks, offers response events, ends.    *)
(* The sidecar's queue to the socket belongs to the FIFO `down`.           *)
(***************************************************************************)
EXTENDS Integers, Sequences, FiniteSets

CONSTANTS
  InputCapacity,      \* REQUEST_INPUT_CHANNEL_FRAMES, also the first grant
  BodyCapacity,       \* INITIAL_RESPONSE_CREDITS, the page's high water mark
  EventCapacity,      \* response events the runtime may be ahead
  MaxStreamCredits,   \* MAX_STREAM_CREDITS of both processes
  MaxUploads,         \* bound: chunks of the request body
  MaxChunks           \* bound: chunks of the response body

ASSUME SidecarAssumption ==
  /\ InputCapacity \in Nat \ {0} /\ BodyCapacity \in Nat \ {0}
  /\ EventCapacity \in Nat \ {0}
  /\ MaxStreamCredits \in Nat
  /\ InputCapacity <= MaxStreamCredits /\ BodyCapacity <= MaxStreamCredits
  /\ MaxUploads \in Nat /\ MaxChunks \in Nat

VARIABLES
  pending,          \* Electron's entry of the stream: "live", "closed" or "failed"
  head_resolved,
  aborted,          \* history: the page or its body source gave the stream up
  pump,             \* pumpRequestBody
  request_credits,
  response_credits,
  queued,           \* chunks in the page's response stream
  up,               \* frames to the sidecar, oldest first
  down,             \* frames to Electron
  active,           \* the sidecar's entry: "new", "live" or "gone"
  accepting,        \* its request_body sender is there
  permits,          \* its response_credits semaphore
  closed,           \* that semaphore is closed
  cancel,           \* the watch channel to the transaction
  task,             \* the response task of start_http_request
  input,            \* chunks in the request input channel
  granted,          \* credits in the channel to forward_request_credits
  run,              \* the transaction
  events,           \* its response event channel
  request_finished, \* it called finish_input: the End frame will be sent
  verdict,          \* history: how run_stream_inner returned
  written, taken, end_written, produced, shown   \* histories of chunks

pageVars == <<head_resolved, response_credits, queued, shown>>
pumpVars == <<request_credits, written, end_written>>
electronVars == <<pending, aborted, pump, pageVars, pumpVars>>
entryVars == <<active, accepting, permits, closed, cancel>>
runVars == <<run, request_finished, verdict, taken, produced>>
sidecarVars == <<entryVars, task, input, granted, events, runVars>>
vars == <<electronVars, up, down, sidecarVars>>

------------------------------------------------------------------------------
Plain(kind) == [kind |-> kind, credits |-> 0]
Data == [kind |-> "Data", credits |-> 1]
Credit(n) == [kind |-> "Credit", credits |-> n]

\* A data frame weighs one credit, a credit frame as many as it grants.
Frame ==
  {Plain(kind) : kind \in {"Request", "End", "Cancel", "Response", "Failure"}}
    \union {Data} \union {Credit(n) : n \in 1 .. MaxStreamCredits}

\* The credits of one kind of frame that are on the way.
InFlight(channel, kind) ==
  Cardinality({p \in (DOMAIN channel) \X (1 .. MaxStreamCredits) :
                 channel[p[1]].kind = kind /\ p[2] <= channel[p[1]].credits})

Pumps == {"reading", "waiting", "writing", "done"}
Runs == {"none", "opening", "running", "sending", "ending", "over"}
Event == {"Head", "Data", "End", "Error"}

TypeOK ==
  /\ pending \in {"live", "closed", "failed"} /\ head_resolved \in BOOLEAN
  /\ aborted \in BOOLEAN /\ pump \in Pumps
  /\ request_credits \in Nat /\ response_credits \in Nat /\ queued \in Nat
  /\ up \in Seq(Frame) /\ down \in Seq(Frame)
  /\ active \in {"new", "live", "gone"}
  /\ accepting \in BOOLEAN /\ closed \in BOOLEAN /\ cancel \in BOOLEAN
  /\ permits \in Nat /\ input \in Nat /\ granted \in Nat
  /\ task \in {"none", "receiving", "holding", "finishing", "done"}
  /\ run \in Runs /\ events \in Seq(Event)
  /\ request_finished \in BOOLEAN /\ verdict \in {"none", "ok", "error"}
  /\ written \in Nat /\ taken \in Nat /\ end_written \in BOOLEAN
  /\ produced \in Nat /\ shown \in Nat

\* streamRequest wrote REQUEST and granted the whole high water mark.  A stream
\* without a request body has no pump.
Init ==
  /\ pending = "live" /\ head_resolved = FALSE /\ aborted = FALSE
  /\ pump \in {"reading", "done"}
  /\ request_credits = 0 /\ response_credits = BodyCapacity /\ queued = 0
  /\ up = <<Plain("Request"), Credit(BodyCapacity)>>
  /\ down = <<>>
  /\ active = "new" /\ accepting = FALSE /\ permits = 0 /\ closed = FALSE
  /\ cancel = FALSE /\ task = "none"
  /\ input = 0 /\ granted = 0
  /\ run = "none" /\ events = <<>>
  /\ request_finished = (pump = "done")
  /\ verdict = "none"
  /\ written = 0 /\ taken = 0 /\ end_written = (pump = "done")
  /\ produced = 0 /\ shown = 0

------------------------------------------------------------------------------
(* Electron                                                                *)

\* failStream, or the end of the stream: the entry is deleted and a pump that
\* waits for a credit is rejected.  A stream in error drops its queue.
Settle(how) ==
  /\ pending' = how
  /\ pump' = IF pump = "waiting" THEN "done" ELSE pump
  /\ queued' = IF how = "failed" THEN 0 ELSE queued

\* Mutant of PumpReads: a credit at hand is used without being taken.
PumpReadsFree ==
  /\ pump = "reading" /\ written < MaxUploads
  /\ pump' = IF pending # "live" THEN "done"
             ELSE IF request_credits > 0 THEN "writing" ELSE "waiting"
  /\ UNCHANGED <<pending, aborted, pageVars, pumpVars, up, down, sidecarVars>>

\* takeRequestCredit for the next chunk of the body.
PumpReads ==
  /\ pump = "reading" /\ written < MaxUploads
  /\ \/ /\ pending # "live"
        /\ pump' = "done" /\ UNCHANGED request_credits
     \/ /\ pending = "live" /\ request_credits > 0
        /\ pump' = "writing" /\ request_credits' = request_credits - 1
     \/ /\ pending = "live" /\ request_credits = 0
        /\ pump' = "waiting" /\ UNCHANGED request_credits
  /\ UNCHANGED <<pending, aborted, pageVars, written, end_written, up, down, sidecarVars>>

\* With its credit the pump writes the frame without looking at the entry again.
PumpWrites ==
  /\ pump = "writing"
  /\ pump' = "reading"
  /\ up' = Append(up, Data)
  /\ written' = written + 1
  /\ UNCHANGED <<pending, aborted, pageVars, request_credits, end_written, down, sidecarVars>>

PumpEnds ==
  /\ pump = "reading"
  /\ pump' = "done"
  /\ up' = Append(up, Plain("End"))
  /\ end_written' = TRUE
  /\ UNCHANGED <<pending, aborted, pageVars, request_credits, written, down, sidecarVars>>

\* The body source fails: failStream notifies the sidecar.
PumpFails ==
  /\ pump = "reading" /\ pending = "live"
  /\ pump' = "done" /\ pending' = "failed" /\ aborted' = TRUE /\ queued' = 0
  /\ up' = Append(up, Plain("Cancel"))
  /\ UNCHANGED <<head_resolved, response_credits, shown, pumpVars, down, sidecarVars>>

\* cancelStream: AbortSignal, or the page cancels the response stream.
Abort ==
  /\ pending = "live"
  /\ Settle("failed") /\ aborted' = TRUE
  /\ up' = Append(up, Plain("Cancel"))
  /\ UNCHANGED <<head_resolved, response_credits, shown, pumpVars, down, sidecarVars>>

\* Mutants of Desired: the chunks waiting in the page's queue are not counted,
\* or there is no desire before they are all read.
DesiredIgnoresQueue == BodyCapacity

DesiredWhenEmpty == IF queued = 0 THEN BodyCapacity ELSE 0

\* desiredSize of the response stream, never negative.
Desired == IF queued < BodyCapacity THEN BodyCapacity - queued ELSE 0

\* grantResponseCredits, called back when the response stream pulls.
Grant ==
  /\ pending = "live" /\ Desired > response_credits
  /\ response_credits' = Desired
  /\ up' = Append(up, Credit(Desired - response_credits))
  /\ UNCHANGED <<pending, aborted, pump, head_resolved, queued, shown, pumpVars, down, sidecarVars>>

PageReads ==
  /\ queued > 0
  /\ queued' = queued - 1
  /\ UNCHANGED <<pending, aborted, pump, head_resolved, response_credits, shown, pumpVars,
                 up, down, sidecarVars>>

\* addRequestCredits: a waiting pump takes the first credit.
AddRequestCredits(n) ==
  LET rest == IF pump = "waiting" THEN n - 1 ELSE n
  IN IF request_credits + rest > MaxStreamCredits
     THEN Settle("failed") /\ up' = Append(up, Plain("Cancel")) /\ UNCHANGED request_credits
     ELSE /\ pump' = IF pump = "waiting" THEN "writing" ELSE pump
          /\ request_credits' = request_credits + rest
          /\ UNCHANGED <<pending, queued, up>>

\* A chunk of the response; one without a credit fails the stream.
ReceiveData ==
  IF response_credits > 0
  THEN /\ response_credits' = response_credits - 1
       /\ queued' = queued + 1 /\ shown' = shown + 1
       /\ UNCHANGED <<pending, pump, up>>
  ELSE /\ Settle("failed") /\ up' = Append(up, Plain("Cancel"))
       /\ UNCHANGED <<response_credits, shown>>

\* receive: the next frame.  Once the entry is gone it is dropped.
Receive ==
  /\ down # <<>>
  /\ down' = Tail(down)
  /\ LET frame == Head(down)
     IN \/ /\ pending # "live"
           /\ UNCHANGED <<electronVars, up>>
        \/ /\ pending = "live" /\ frame.kind = "Credit"
           /\ AddRequestCredits(frame.credits)
           /\ UNCHANGED <<aborted, head_resolved, response_credits, shown, written, end_written>>
        \/ /\ pending = "live" /\ frame.kind = "Data"
           /\ ReceiveData
           /\ UNCHANGED <<aborted, head_resolved, pumpVars>>
        \/ /\ pending = "live" /\ frame.kind = "Response"
           /\ head_resolved' = TRUE
           /\ UNCHANGED <<pending, aborted, pump, response_credits, queued, shown, pumpVars, up>>
        \/ /\ pending = "live" /\ frame.kind \in {"End", "Cancel", "Failure"}
           /\ Settle(IF frame.kind = "End" THEN "closed" ELSE "failed")
           /\ UNCHANGED <<aborted, head_resolved, response_credits, shown, pumpVars, up>>
  /\ UNCHANGED sidecarVars

------------------------------------------------------------------------------
(* The sidecar's reader: serve_connection handles one frame after another  *)

\* Mutant of Remove: the semaphore stays open.
RemoveLeavesOpen ==
  /\ active' = "gone" /\ accepting' = FALSE
  /\ closed' = closed
  /\ cancel' = (cancel \/ active = "live")

\* An entry leaves `active`: its semaphore is closed, its transaction cancelled,
\* and with the entry goes the request_body sender.
Remove ==
  /\ active' = "gone" /\ accepting' = FALSE
  /\ closed' = TRUE
  /\ cancel' = (cancel \/ active = "live")

Answer(kind) == down' = Append(down, Plain(kind))

\* start_http_request, which the reader waits for: a refused stream has no
\* entry (limit of active requests, unknown site, failed route import).
HandleRequest ==
  /\ Head(up).kind = "Request" /\ active = "new"
  /\ \/ /\ active' = "live"
        /\ accepting' = ~ request_finished
        /\ down' = IF request_finished THEN down ELSE Append(down, Credit(InputCapacity))
        /\ run' = "opening" /\ task' = "receiving"
     \/ /\ active' = "gone"
        /\ Answer("Failure")
        /\ UNCHANGED <<accepting, run, task>>
  /\ UNCHANGED <<permits, closed, cancel, input, granted, events, request_finished, verdict,
                 taken, produced>>

\* run_stream_inner still holds the receiver of the request channel.
Listening == run \in {"opening", "running", "sending"}

HandleData ==
  /\ Head(up).kind = "Data"
  /\ \/ /\ accepting /\ Listening /\ input < InputCapacity
        /\ input' = input + 1
        /\ UNCHANGED <<entryVars, down>>
     \/ /\ accepting /\ ~ (Listening /\ input < InputCapacity)
        /\ Remove /\ UNCHANGED permits
        /\ Answer("Cancel")
        /\ UNCHANGED input
     \/ /\ ~ accepting
        /\ Answer("Cancel")
        /\ UNCHANGED <<entryVars, input>>
  /\ UNCHANGED <<task, granted, events, runVars>>

HandleEnd ==
  /\ Head(up).kind = "End"
  /\ IF accepting THEN accepting' = FALSE /\ UNCHANGED down
                  ELSE Answer("Cancel") /\ UNCHANGED accepting
  /\ UNCHANGED <<active, permits, closed, cancel, task, input, granted, events, runVars>>

HandleCredit ==
  /\ Head(up).kind = "Credit"
  /\ \/ /\ active = "live" /\ ~ closed
        /\ permits + Head(up).credits <= MaxStreamCredits
        /\ permits' = permits + Head(up).credits
        /\ UNCHANGED <<closed, down>>
     \/ /\ active # "live" \/ closed \/ permits + Head(up).credits > MaxStreamCredits
        /\ closed' = (closed \/ active = "live")
        /\ Answer("Cancel")
        /\ UNCHANGED permits
  /\ UNCHANGED <<active, accepting, cancel, task, input, granted, events, runVars>>

HandleCancel ==
  /\ Head(up).kind = "Cancel"
  /\ IF active = "live" THEN Remove /\ UNCHANGED permits ELSE UNCHANGED entryVars
  /\ UNCHANGED <<down, task, input, granted, events, runVars>>

Handle ==
  /\ up # <<>>
  /\ up' = Tail(up)
  /\ (HandleRequest \/ HandleData \/ HandleEnd \/ HandleCredit \/ HandleCancel)
  /\ UNCHANGED electronVars

\* forward_request_credits.
Forward ==
  /\ granted > 0
  /\ granted' = granted - 1
  /\ down' = Append(down, Credit(1))
  /\ UNCHANGED <<electronVars, up, entryVars, task, input, events, runVars>>

------------------------------------------------------------------------------
(* The response task of start_http_request                                 *)

Pop(event) == events # <<>> /\ Head(events) = event /\ events' = Tail(events)

TaskHead ==
  /\ task = "receiving" /\ Pop("Head")
  /\ Answer("Response")
  /\ UNCHANGED task

\* A chunk is taken before there is a credit for it.
TaskHolds ==
  /\ task = "receiving" /\ Pop("Data")
  /\ task' = "holding"
  /\ UNCHANGED down

\* Mutant of TaskEnds: the stream stops accepting credits before its End frame
\* is queued.
TaskEndsClosed ==
  /\ task = "receiving" /\ events # <<>> /\ Head(events) = "End"
  /\ IF closed THEN Pop("End") /\ Answer("End") /\ task' = "finishing" /\ UNCHANGED entryVars
               ELSE closed' = TRUE
                    /\ UNCHANGED <<events, down, task, active, accepting, permits, cancel>>

TaskEnds ==
  /\ task = "receiving" /\ Pop("End")
  /\ Answer("End")
  /\ task' = "finishing"
  /\ UNCHANGED entryVars

\* Mutant of TaskFails: after the head an error ends the stream.
TaskFailsAsEnd ==
  /\ task = "receiving" /\ Pop("Error")
  /\ Answer(IF produced > 0 THEN "End" ELSE "Failure")
  /\ task' = "finishing"

\* An error before the head answers the request, one after it cancels.
TaskFails ==
  /\ task = "receiving" /\ Pop("Error")
  /\ Answer(IF produced > 0 THEN "Cancel" ELSE "Failure")
  /\ task' = "finishing"

TaskForwards ==
  /\ (TaskHead \/ TaskHolds \/ TaskFails)
  /\ UNCHANGED <<electronVars, up, entryVars, input, granted, runVars>>

TaskEndsStream ==
  /\ TaskEnds
  /\ UNCHANGED <<electronVars, up, input, granted, runVars>>

\* Mutant of TaskSends: no credit is acquired first.
TaskSendsUnpaid ==
  /\ task = "holding" /\ ~ closed
  /\ permits' = permits - 1
  /\ down' = Append(down, Data)
  /\ task' = "receiving"
  /\ UNCHANGED <<electronVars, up, active, accepting, closed, cancel, input, granted, events, runVars>>

\* acquire_owned and forget, then the frame.
TaskSends ==
  /\ task = "holding" /\ ~ closed /\ permits > 0
  /\ permits' = permits - 1
  /\ down' = Append(down, Data)
  /\ task' = "receiving"
  /\ UNCHANGED <<electronVars, up, active, accepting, closed, cancel, input, granted, events, runVars>>

TaskStops ==
  /\ task = "holding" /\ closed
  /\ task' = "finishing"
  /\ UNCHANGED <<electronVars, up, down, entryVars, input, granted, events, runVars>>

TaskFinishes ==
  /\ task = "finishing"
  /\ task' = "done"
  /\ Remove /\ UNCHANGED permits
  /\ events' = <<>>
  /\ UNCHANGED <<electronVars, up, down, input, granted, runVars>>

------------------------------------------------------------------------------
(* The transaction, as far as the channels show it                         *)

runEnv == <<electronVars, up, down, entryVars, task>>

\* RequestOpen was accepted; until then nothing interrupts the AppCall.
RunOpens ==
  /\ run = "opening"
  /\ run' = "running"
  /\ UNCHANGED <<runEnv, input, granted, events, request_finished, verdict, taken, produced>>

\* One chunk of input is pushed and its credit given back.
RunTakes ==
  /\ run = "running" /\ ~ request_finished /\ input > 0
  /\ input' = input - 1 /\ granted' = granted + 1
  /\ taken' = taken + 1
  /\ UNCHANGED <<runEnv, run, events, request_finished, verdict, produced>>

\* Mutant of RunFinishesInput: the end is seen while chunks are still queued.
RunFinishesEarly ==
  /\ run = "running" /\ ~ request_finished /\ ~ accepting
  /\ request_finished' = TRUE
  /\ UNCHANGED <<runEnv, run, input, granted, events, verdict, taken, produced>>

\* The sender is gone and the channel empty: finish_input.  A cancellation that
\* is also due does not come first: select! picks any ready branch.
RunFinishesInput ==
  /\ run = "running" /\ ~ request_finished /\ input = 0 /\ ~ accepting
  /\ request_finished' = TRUE
  /\ UNCHANGED <<runEnv, run, input, granted, events, verdict, taken, produced>>

\* The head (the first event produced) or a chunk is offered to the consumer.
RunOffers ==
  /\ run = "running" /\ produced <= MaxChunks
  /\ run' = "sending"
  /\ UNCHANGED <<runEnv, input, granted, events, request_finished, verdict, taken, produced>>

RunSends ==
  /\ run = "sending" /\ task # "done" /\ Len(events) < EventCapacity
  /\ run' = "running"
  /\ events' = Append(events, IF produced = 0 THEN "Head" ELSE "Data")
  /\ produced' = produced + 1
  /\ UNCHANGED <<runEnv, input, granted, request_finished, verdict, taken>>

RunEnds(how) ==
  /\ run' = "ending"
  /\ verdict' = how
  /\ UNCHANGED <<runEnv, input, granted, events, request_finished, taken, produced>>

\* The request was acknowledged to its end and the whole response received.
RunSucceeds ==
  /\ run = "running" /\ request_finished /\ produced > 0
  /\ RunEnds("ok")

\* A failure of the transaction at any time, its deadline or a cancellation.
RunFails ==
  /\ run \in {"opening", "running"}
  /\ RunEnds("error")

\* The response task dropped its receiver.
RunDisconnects ==
  /\ run = "sending" /\ task = "done"
  /\ RunEnds("error")

\* The terminal event, for which the sender waits like for any other.
RunReports ==
  /\ run = "ending"
  /\ task = "done" \/ Len(events) < EventCapacity
  /\ run' = "over"
  /\ events' = IF task = "done" THEN events
               ELSE Append(events, IF verdict = "ok" THEN "End" ELSE "Error")
  /\ UNCHANGED <<runEnv, input, granted, request_finished, verdict, taken, produced>>

------------------------------------------------------------------------------
Next ==
  \/ PumpReads \/ PumpWrites \/ PumpEnds \/ PumpFails \/ Abort
  \/ Grant \/ PageReads \/ Receive
  \/ Handle \/ Forward
  \/ TaskForwards \/ TaskEndsStream \/ TaskSends \/ TaskStops \/ TaskFinishes
  \/ RunOpens \/ RunTakes \/ RunFinishesInput \/ RunOffers \/ RunSends
  \/ RunSucceeds \/ RunFails \/ RunDisconnects \/ RunReports

Spec == Init /\ [][Next]_vars

\* Both processes keep running and handle what is due, and a transaction ends at
\* the latest at its deadline.  Neither the page nor its body source owes
\* anything: only a page that still wants the stream reads it.
Fairness ==
  /\ WF_vars(PumpWrites) /\ WF_vars(Grant) /\ WF_vars(Receive) /\ WF_vars(Handle) /\ WF_vars(Forward)
  /\ WF_vars(TaskForwards) /\ WF_vars(TaskEndsStream) /\ WF_vars(TaskSends)
  /\ WF_vars(TaskStops) /\ WF_vars(TaskFinishes)
  /\ WF_vars(RunSends) /\ WF_vars(RunDisconnects) /\ WF_vars(RunReports)
  /\ SF_vars(RunSucceeds \/ RunFails)

FairSpec == Spec /\ Fairness

------------------------------------------------------------------------------
(* Properties                                                              *)

\* The first grant is all the credit a request body ever has: what Electron may
\* send, what is on the way, what waits in the input channel and what is on its
\* way back never exceed it.  So the channel always has room for a chunk
\* (start_request, takeRequestCredit, forward_request_credits).
UploadCreditBounded ==
  request_credits + (IF pump = "writing" THEN 1 ELSE 0) + InFlight(up, "Data")
    + input + granted + InFlight(down, "Credit") <= InputCapacity

\* The sidecar never holds more response credit than Electron counts as given
\* out, so no chunk arrives without one and no grant exceeds the maximum; and
\* the chunks that the page has not read yet stay below its high water mark.
ResponseCreditBounded ==
  /\ permits + InFlight(up, "Credit") + InFlight(down, "Data") <= response_credits
  /\ response_credits + queued <= BodyCapacity

\* A response that the page sees end is the whole response: every event of a
\* transaction that succeeded was handed over before (StreamEnd, sidecar.ts).
ClosedIsWhole ==
  pending = "closed" => verdict = "ok" /\ head_resolved /\ shown + 1 = produced

\* A transaction that succeeded is not turned into a failure on the way to the
\* page: what the sidecar answers to late frames of Electron comes after the End.
SuccessReachesPage ==
  pending = "failed" /\ verdict = "ok" => aborted

\* Without a cancellation the request ends only where Electron ended it.
UploadEndsWhole ==
  request_finished => cancel \/ (end_written /\ taken = written)

\* The same for every request body: what the bridge and the HTTP server see as
\* complete is the body that Electron finished (protocol.md, Integrity).
NoTruncatedUpload ==
  request_finished => end_written /\ taken = written

\* A stream that ended at Electron, whatever the reason, ends in the sidecar:
\* its entry, with the permit it holds, and its transaction go away.
EndedStreamIsReleased ==
  pending # "live" ~> active = "gone" /\ run \in {"none", "over"}

\* A stream is settled unless the page leaves its queue full.
StreamSettles == pending = "live" ~> (pending # "live" \/ queued = BodyCapacity)

==============================================================================
