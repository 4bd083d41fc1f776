--------------------------- MODULE BridgeTransactions ---------------------------
(***************************************************************************)
(* The bridge's transactions: openings of streams (handle_open and the     *)
(* task it spawns), atomic calls (handle_atomic_call), cancellation by a   *)
(* message or by the death of the route, and restarts of the process, over *)
(* the CompletionStore.                                                    *)
(*                                                                         *)
(* Every AppCall is handled by a task of its own; the event loop handles   *)
(* one AppMessage or route change after the other.  A step goes from one   *)
(* await or lock to the next.  What an upstream request does between its   *)
(* start and its end is the subject of BodyStream.                         *)
(***************************************************************************)
EXTENDS CompletionStore

CONSTANTS
  Calls,        \* the AppCalls of one behaviour
  EventLoop,    \* run_live, as a writer of the store
  Malformed,    \* identifiers whose request cannot be sent to the upstream
  MaxRestarts,  \* bound: crashes
  None          \* no call

ASSUME BridgeAssumption ==
  /\ Writers = Calls \cup {EventLoop}
  /\ EventLoop \notin Calls /\ None \notin Calls
  /\ Malformed \subseteq Ids
  /\ MaxRestarts \in Nat

VARIABLES
  request,     \* kind and identifier of each call
  handler,     \* where the handler of each call is, in the end its reply
  task,        \* where the upstream task of each opening is
  stored,      \* the openings whose task handle is stored and not yet taken
  registered,  \* transactions: the opening that owns each identifier
  loop,        \* what the event loop is doing
  doomed,      \* cancel_all: drained transactions it has not yet come to
  restarts,    \* number of crashes
  aged,        \* see Tick
  forwards,    \* history: upstream requests since the identifier was forgotten
  saved,       \* history: retained identifiers whose completion was renamed into place
  raced        \* history: retained identifiers with file operations side by side

bridgeVars == <<handler, task, stored, registered, loop, doomed>>
historyVars == <<restarts, aged, forwards, saved, raced>>
vars == <<storeVars, request, bridgeVars, historyVars>>

Replies == {"accepted", "seen", "rejected", "answered", "conflict", "timeout", "lost"}

Opening == {"insert", "spawn", "reply", "undoTask", "undoEntry", "abandon"}
Atomic  == {"forward", "upstream", "record", "writing"}

Handler == {"unsent", "lookup", "claim"} \cup Opening \cup Atomic \cup Replies

Task == {"none", "waiting", "started", "upstream", "ended", "record", "writing",
         "aborted", "done"}

\* Where a task can be aborted: record does not await once it has the lock.
Abortable == {"waiting", "started", "upstream", "ended", "record"}

Idle == [step |-> "idle", call |-> None]

TypeOK ==
  /\ StoreTypeOK
  /\ request \in [Calls -> [kind : {"open", "atomic"}, id : Ids]]
  /\ handler \in [Calls -> Handler]
  /\ task \in [Calls -> Task]
  /\ stored \subseteq Calls
  /\ registered \in [Ids -> Calls \cup {None}]
  /\ loop \in {Idle} \cup [step : {"abort", "record", "writing"}, call : Calls]
  /\ doomed \subseteq Calls
  /\ restarts \in 0 .. MaxRestarts
  /\ aged \subseteq Writers
  /\ forwards \in [Ids -> Nat]
  /\ saved \subseteq Ids
  /\ raced \subseteq Ids

Id(c) == request[c].id

Init ==
  /\ StoreInit
  /\ request \in [Calls -> [kind : {"open", "atomic"}, id : Ids]]
  /\ handler = [c \in Calls |-> "unsent"]
  /\ task = [c \in Calls |-> "none"]
  /\ stored = {}
  /\ registered = [id \in Ids |-> None]
  /\ loop = Idle
  /\ doomed = {}
  /\ restarts = 0
  /\ aged = {}
  /\ forwards = [id \in Ids |-> 0]
  /\ saved = {}
  /\ raced = {}

------------------------------------------------------------------------------
At(c, kind, step) == request[c].kind = kind /\ handler[c] = step

Goto(c, step) == handler' = [handler EXCEPT ![c] = step]
TaskGoto(c, step) == task' = [task EXCEPT ![c] = step]

\* An identifier whose record ran out or was evicted counts as new.
CountAsNew(ids) ==
  /\ forwards' = [id \in Ids |-> IF id \in ids THEN 0 ELSE forwards[id]]
  /\ saved' = saved \ ids

Forget(ids) == CountAsNew(ids) /\ raced' = raced \ ids

Forward(id) == forwards' = [forwards EXCEPT ![id] = @ + 1]

\* The event loop takes the call and spawns its handler.
Arrive(c) ==
  /\ handler[c] = "unsent" /\ loop = Idle /\ doomed = {}
  /\ Goto(c, IF request[c].kind = "open" THEN "lookup" ELSE "claim")
  /\ UNCHANGED <<storeVars, request, task, stored, registered, loop, doomed, historyVars>>

\* handle_open: a registered transaction gets the same reply again.
LookUpOpen(c) ==
  /\ At(c, "open", "lookup")
  /\ Goto(c, IF registered[Id(c)] # None THEN "accepted" ELSE "claim")
  /\ UNCHANGED <<storeVars, request, task, stored, registered, loop, doomed, historyVars>>

\* Where a call goes whose claim is not granted.  An opening always gets the
\* error transaction-already-seen; an atomic call asks again after 50 ms, while
\* the identifier or the limit stands in its way.
NotClaimed(c) ==
  IF request[c].kind = "open" THEN "seen"
  ELSE IF Pruned[Id(c)].status = "complete" THEN "conflict" ELSE "claim"

ClaimGranted(c) ==
  /\ handler[c] = "claim"
  /\ Claim(Id(c))
  /\ Goto(c, IF request[c].kind = "open" THEN "insert" ELSE "forward")
  /\ Forget(Expired)
  /\ UNCHANGED <<request, task, stored, registered, loop, doomed, restarts, aged>>

ClaimRefused(c) ==
  /\ handler[c] = "claim"
  /\ ~ Claimable(Id(c))
  /\ Lookup
  /\ Goto(c, NotClaimed(c))
  /\ Forget(Expired)
  /\ UNCHANGED <<request, task, stored, registered, loop, doomed, restarts, aged>>

------------------------------------------------------------------------------
(* handle_open_claimed                                                     *)

\* The request is refused or the return route cannot be imported.
OpenFails(c) ==
  /\ At(c, "open", "insert")
  /\ Goto(c, "abandon")
  /\ UNCHANGED <<storeVars, request, task, stored, registered, loop, doomed, historyVars>>

Insert(c) ==
  /\ At(c, "open", "insert")
  /\ registered' = [registered EXCEPT ![Id(c)] = c]
  /\ Goto(c, "spawn")
  /\ UNCHANGED <<storeVars, request, task, stored, loop, doomed, historyVars>>

\* The task waits for the start signal; its handle is stored.
Spawn(c) ==
  /\ At(c, "open", "spawn")
  /\ TaskGoto(c, "waiting")
  /\ stored' = stored \cup {c}
  /\ Goto(c, "reply")
  /\ UNCHANGED <<storeVars, request, registered, loop, doomed, historyVars>>

\* The reply went out: the start signal releases the task, if it is still there.
ReplyAccepted(c) ==
  /\ At(c, "open", "reply")
  /\ task' = [task EXCEPT ![c] = IF @ = "waiting" THEN "started" ELSE @]
  /\ Goto(c, "accepted")
  /\ UNCHANGED <<storeVars, request, stored, registered, loop, doomed, historyVars>>

ReplyFails(c) ==
  /\ At(c, "open", "reply")
  /\ Goto(c, "undoTask")
  /\ UNCHANGED <<storeVars, request, task, stored, registered, loop, doomed, historyVars>>

\* task.take() and abort().
TakeTask(c) ==
  /\ task' = [task EXCEPT ![c] = IF c \in stored /\ @ \in Abortable THEN "aborted" ELSE @]
  /\ stored' = stored \ {c}

UndoTask(c) ==
  /\ At(c, "open", "undoTask")
  /\ TakeTask(c)
  /\ Goto(c, "undoEntry")
  /\ UNCHANGED <<storeVars, request, registered, loop, doomed, historyVars>>

\* transactions.remove, whichever opening owns the identifier.
Deregister(id) == registered' = [registered EXCEPT ![id] = None]

UndoEntry(c) ==
  /\ At(c, "open", "undoEntry")
  /\ Deregister(Id(c))
  /\ Goto(c, "abandon")
  /\ UNCHANGED <<storeVars, request, task, stored, loop, doomed, historyVars>>

AbandonOpen(c) ==
  /\ At(c, "open", "abandon")
  /\ Abandon(Id(c))
  /\ Goto(c, "rejected")
  /\ UNCHANGED <<request, task, stored, registered, loop, doomed, historyVars>>

------------------------------------------------------------------------------
(* The task of an opening: run_upstream and what follows it                *)

TaskForward(c) ==
  /\ task[c] = "started" /\ Id(c) \notin Malformed
  /\ TaskGoto(c, "upstream")
  /\ Forward(Id(c))
  /\ UNCHANGED <<storeVars, request, handler, stored, registered, loop, doomed,
                 restarts, aged, saved, raced>>

\* Success, an error of either side or the overall timeout; an error that comes
\* before the request is sent included.
UpstreamEnds(c) ==
  /\ task[c] \in {"started", "upstream"}
  /\ TaskGoto(c, "ended")
  /\ UNCHANGED <<storeVars, request, handler, stored, registered, loop, doomed, historyVars>>

TaskDeregister(c) ==
  /\ task[c] = "ended"
  /\ Deregister(Id(c))
  /\ TaskGoto(c, "record")
  /\ UNCHANGED <<storeVars, request, handler, stored, loop, doomed, historyVars>>

\* A record call that has still to write or to remove the file of id.
Touches(w, id) ==
  \/ write[w].step \in Persisting /\ id = write[w].id
  \/ write[w].step \in Persisting \cup {"cleanup"} /\ id \in write[w].evicted

Record(w, id) ==
  \E evicted \in SUBSET Ids :
    LET forgotten == Expired \cup (evicted \ Executing(memory))
    IN /\ RecordInMemory(w, id, evicted)
       /\ CountAsNew(forgotten)
       /\ raced' = (raced \ forgotten)
                     \cup {x \in {id} : \E v \in Writers : Touches(v, id)}

TaskRecord(c) ==
  /\ task[c] = "record"
  /\ Record(c, Id(c))
  /\ TaskGoto(c, "writing")
  /\ UNCHANGED <<request, handler, stored, registered, loop, doomed, restarts, aged>>

TaskDone(c) ==
  /\ task[c] = "writing" /\ write[c] = NoWrite
  /\ TaskGoto(c, "done")
  /\ UNCHANGED <<storeVars, request, handler, stored, registered, loop, doomed, historyVars>>

------------------------------------------------------------------------------
(* handle_atomic_call                                                      *)

AtomicForward(c) ==
  /\ At(c, "atomic", "forward") /\ Id(c) \notin Malformed
  /\ Goto(c, "upstream")
  /\ Forward(Id(c))
  /\ UNCHANGED <<storeVars, request, task, stored, registered, loop, doomed,
                 restarts, aged, saved, raced>>

\* The upstream answered, or a small error response takes the answer's place: a
\* request that cannot be decoded or connected gets one without being sent.
AtomicResponse(c) ==
  /\ request[c].kind = "atomic" /\ handler[c] \in {"forward", "upstream"}
  /\ Goto(c, "record")
  /\ UNCHANGED <<storeVars, request, task, stored, registered, loop, doomed, historyVars>>

\* A request that cannot be translated is abandoned first, and recorded after.
AtomicFails(c) ==
  /\ At(c, "atomic", "forward") /\ Id(c) \in Malformed
  /\ Abandon(Id(c))
  /\ Goto(c, "record")
  /\ UNCHANGED <<request, task, stored, registered, loop, doomed, historyVars>>

AtomicRecord(c) ==
  /\ At(c, "atomic", "record")
  /\ Record(c, Id(c))
  /\ Goto(c, "writing")
  /\ UNCHANGED <<request, task, stored, registered, loop, doomed, restarts, aged>>

AtomicReply(c) ==
  /\ At(c, "atomic", "writing") /\ write[c] = NoWrite
  /\ Goto(c, "answered")
  /\ UNCHANGED <<storeVars, request, task, stored, registered, loop, doomed, historyVars>>

\* The call has waited for the overall timeout.
AtomicTimeout(c) ==
  /\ At(c, "atomic", "claim")
  /\ ~ Claimable(Id(c)) /\ Pruned[Id(c)].status # "complete"
  /\ Lookup
  /\ Goto(c, "timeout")
  /\ Forget(Expired)
  /\ UNCHANGED <<request, task, stored, registered, loop, doomed, restarts, aged>>

------------------------------------------------------------------------------
(* The event loop                                                          *)

\* A Cancel or Error message for a registered transaction.  For any other one
\* there is only a lookup.
Cancel(id) ==
  /\ loop = Idle /\ doomed = {}
  /\ registered[id] # None
  /\ loop' = [step |-> "abort", call |-> registered[id]]
  /\ Deregister(id)
  /\ UNCHANGED <<storeVars, request, handler, task, stored, doomed, historyVars>>

\* A message for a transaction that is not registered.
LookUpMessage ==
  /\ loop = Idle /\ doomed = {} /\ Expired # {}
  /\ Lookup
  /\ Forget(Expired)
  /\ UNCHANGED <<request, bridgeVars, restarts, aged>>

\* The route died: cancel_all drains the transactions.
RouteDies ==
  /\ loop = Idle /\ doomed = {}
  /\ doomed' = {registered[id] : id \in Ids} \ {None}
  /\ doomed' # {}
  /\ registered' = [id \in Ids |-> None]
  /\ UNCHANGED <<storeVars, request, handler, task, stored, loop, historyVars>>

NextDoomed(c) ==
  /\ loop = Idle /\ c \in doomed
  /\ loop' = [step |-> "abort", call |-> c]
  /\ doomed' = doomed \ {c}
  /\ UNCHANGED <<storeVars, request, handler, task, stored, registered, historyVars>>

LoopAbort ==
  /\ loop.step = "abort"
  /\ TakeTask(loop.call)
  /\ loop' = [loop EXCEPT !.step = "record"]
  /\ UNCHANGED <<storeVars, request, handler, registered, doomed, historyVars>>

LoopRecord ==
  /\ loop.step = "record"
  /\ Record(EventLoop, Id(loop.call))
  /\ loop' = [loop EXCEPT !.step = "writing"]
  /\ UNCHANGED <<request, handler, task, stored, registered, doomed, restarts, aged>>

LoopDone ==
  /\ loop.step = "writing" /\ write[EventLoop] = NoWrite
  /\ loop' = Idle
  /\ UNCHANGED <<storeVars, request, handler, task, stored, registered, doomed, historyVars>>

------------------------------------------------------------------------------
(* The files, the clock and the process                                    *)

WriteTemporary(w) ==
  /\ CreateTemporary(w) \/ FillTemporary(w) \/ Overwrite(w)
  /\ UNCHANGED <<request, bridgeVars, historyVars>>

WriteFile(w) ==
  /\ Rename(w)
  /\ saved' = IF memory[write[w].id].status = "complete"
               THEN saved \cup {write[w].id} ELSE saved
  /\ UNCHANGED <<request, bridgeVars, restarts, aged, forwards, raced>>

WriteFails(w) ==
  /\ PersistFails(w)
  /\ UNCHANGED <<request, bridgeVars, historyVars>>

RemoveFile(w) ==
  /\ RemoveEvicted(w)
  /\ UNCHANGED <<request, bridgeVars, historyVars>>

\* Calls and tasks in a step that lasts at most minutes: an opening, the sending
\* of a request, a call of record.
Brief ==
  {c \in Calls : handler[c] \in Opening \cup (Atomic \ {"upstream"})
                   \/ task[c] \in {"waiting", "started", "record", "writing"}}
    \cup (IF loop = Idle THEN {} ELSE {EventLoop})

\* A tick is longer than any of these: none of them lasts from one tick over the
\* next.  With Retention above 1 none outlives a record written meanwhile.
Tick ==
  /\ now < MaxTime
  /\ aged \cap Brief = {}
  /\ now' = now + 1
  /\ aged' = Brief
  /\ UNCHANGED <<memory, file, temporary, write, request, bridgeVars, restarts, forwards,
                 saved, raced>>

\* The process ends and starts again.  What was under way is gone.  An identifier
\* that is not loaded counts as new unless its completion had been on disk, was
\* readable and neither too old nor too many.
Restart ==
  /\ restarts < MaxRestarts
  /\ restarts' = restarts + 1
  /\ \E trimmed \in SUBSET Ids :
       /\ Reload(trimmed)
       /\ LET dropped == trimmed \cup {id \in Ids : file[id] # NoFile /\ file[id] <= now}
              unsaved == {id \in Ids \ saved : file[id] = NoFile}
          IN Forget(dropped \cup unsaved)
  /\ handler' = [c \in Calls |->
       IF handler[c] \in Replies \cup {"unsent"} THEN handler[c] ELSE "lost"]
  /\ task' = [c \in Calls |-> IF task[c] \in {"none", "done"} THEN task[c] ELSE "aborted"]
  /\ stored' = {}
  /\ registered' = [id \in Ids |-> None]
  /\ loop' = Idle
  /\ doomed' = {}
  /\ aged' = {}
  /\ UNCHANGED request

HandleOpen(c) ==
  \/ LookUpOpen(c) \/ OpenFails(c) \/ Insert(c) \/ Spawn(c) \/ ReplyAccepted(c)
  \/ ReplyFails(c) \/ UndoTask(c) \/ UndoEntry(c) \/ AbandonOpen(c)

HandleAtomic(c) ==
  \/ AtomicForward(c) \/ AtomicResponse(c) \/ AtomicFails(c) \/ AtomicRecord(c)
  \/ AtomicReply(c)

RunTask(c) ==
  TaskForward(c) \/ UpstreamEnds(c) \/ TaskDeregister(c) \/ TaskRecord(c) \/ TaskDone(c)

RunLoop == LoopAbort \/ LoopRecord \/ LoopDone \/ \E c \in Calls : NextDoomed(c)

WriteStep(w) == WriteTemporary(w) \/ WriteFile(w) \/ WriteFails(w) \/ RemoveFile(w)

Progress ==
  \/ \E c \in Calls :
       ClaimGranted(c) \/ ClaimRefused(c) \/ HandleOpen(c) \/ HandleAtomic(c) \/ RunTask(c)
  \/ RunLoop
  \/ \E w \in Writers : WriteStep(w)

Environment ==
  \/ \E c \in Calls : Arrive(c) \/ AtomicTimeout(c)
  \/ \E id \in Ids : Cancel(id)
  \/ RouteDies \/ LookUpMessage \/ Tick \/ Restart

Next == Progress \/ Environment

Spec == Init /\ [][Next]_vars

\* Every handler, every task and the event loop take their next step in the end, the
\* file operations of their record calls included: upstream requests and replies have
\* their timeouts.  Calls, messages, crashes and the clock are not fair.
Fairness ==
  /\ \A c \in Calls :
       /\ WF_vars(ClaimGranted(c) \/ ClaimRefused(c) \/ HandleOpen(c) \/ HandleAtomic(c))
       /\ WF_vars(RunTask(c) \/ WriteStep(c))
  /\ WF_vars(RunLoop \/ WriteStep(EventLoop))

FairSpec == Spec /\ Fairness

------------------------------------------------------------------------------
(* Properties                                                              *)

\* An identifier is sent to the upstream at most once while it is executing or
\* its completion is retained, whatever is repeated, cancelled or restarted.
AtMostOnce == \A id \in Ids : forwards[id] <= 1

\* A completion that was renamed into place stays on disk, whole, as long as it is
\* retained, so that a restart finds it: through failed writes, crashes between any
\* two file operations, evictions and removals of other records.  Excepted are the
\* identifiers of raced: a record call of theirs began while another one had still
\* to write the same temporary file, or to remove the file of the record evicted
\* before.
RecordedIsDurable ==
  \A id \in (Completed(memory) \cap saved) \ raced : file[id] \in Expiry

\* Between its claim and its upstream request a call has the identifier for
\* itself, whoever cancels, abandons or records it meanwhile.
Preparing(c) ==
  \/ handler[c] \in {"insert", "spawn", "reply", "forward"}
  \/ task[c] \in {"waiting", "started"}

ClaimsExclude ==
  \A c, d \in Calls :
    c # d /\ Id(c) = Id(d) /\ Id(c) \notin Malformed => ~ (Preparing(c) /\ Preparing(d))

\* Every claim, registration and handler comes to its end: nothing takes up the
\* limit of executions for ever and every call has its reply.
Quiet ==
  /\ Executing(memory) = {}
  /\ \A id \in Ids : registered[id] = None
  /\ \A c \in Calls : handler[c] \in Replies \cup {"unsent"}
  /\ \A c \in Calls : task[c] \in {"none", "aborted", "done"}

EverythingEnds == <>[]Quiet

==============================================================================
