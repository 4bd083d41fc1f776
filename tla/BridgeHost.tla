------------------------------ MODULE BridgeHost ------------------------------
(***************************************************************************)
(* run_live of the bridge over the remote transport: the private route it  *)
(* allocates, publishes in files and replaces when it dies, the AppCalls   *)
(* it takes on that route, and the replies of their handlers.  The process *)
(* may crash and be started again; the files stay.                         *)
(***************************************************************************)
EXTENDS RemoteTransport

CONSTANTS
  EventLoop,   \* run_live, as a caller of the transport
  Calls,       \* inbound AppCalls; their handlers are callers too
  MaxCrashes   \* bound: crashes

ASSUME HostAssumption ==
  /\ Callers = Calls \union {EventLoop} /\ EventLoop \notin Calls
  /\ MaxTurns >= 2 /\ MaxCrashes \in Nat

VARIABLES
  loop,           \* where run_live is
  allocation,     \* the route it allocates, the first one is 1
  active_route,   \* 0 before there is one
  files,          \* the route in each of the files current.*
  alive,          \* routes that exist at veilid-server
  events,         \* from the reader to run_live
  pending_calls,  \* AppCalls that can be replied to
  called,         \* the route each AppCall came by, 0 if it has not come
  handler,        \* the handler of each AppCall
  crashes

hostVars == <<loop, allocation, active_route, files, alive, events, pending_calls, called,
              handler, crashes>>
vars == <<remoteVars, hostVars>>

Routes == 1 .. MaxTurns
Allocate(route) == <<EventLoop, route>>
Reply(c, attempt) == <<c, attempt>>

Files == {"blob", "base64", "json"}
Event == {[kind |-> "AppCall", call |-> c] : c \in Calls}
           \union {[kind |-> "Dead", route |-> r] : r \in Routes} \union {[kind |-> "Shutdown"]}

Loops == {"cancelling", "allocating", "blob", "base64", "json", "activating", "serving",
          "ended", "crashed"}
Handlers == {"none", "ignored", "working", "replying", "retry", "replied", "unreplied"}

TypeOK ==
  /\ RemoteTypeOK
  /\ loop \in Loops /\ allocation \in Routes
  /\ active_route \in 0 .. MaxTurns /\ files \in [Files -> 0 .. MaxTurns]
  /\ alive \subseteq Routes /\ events \in Seq(Event) /\ pending_calls \subseteq Calls
  /\ called \in [Calls -> 0 .. MaxTurns] /\ handler \in [Calls -> Handlers]
  /\ crashes \in 0 .. MaxCrashes

Init ==
  /\ RemoteInit
  /\ loop = "cancelling" /\ allocation = 1 /\ active_route = 0
  /\ files = [f \in Files |-> 0]
  /\ alive = {} /\ events = <<>> /\ pending_calls = {}
  /\ called = [c \in Calls |-> 0] /\ handler = [c \in Calls |-> "none"]
  /\ crashes = 0

------------------------------------------------------------------------------
(* allocate_route and persist_route                                        *)

routeRest == <<allocation, alive, events, pending_calls, called, handler, crashes>>

Goto(step) == loop' = step

\* cancel_all is done (nothing to cancel at the start); the request goes out.
StartAllocation ==
  /\ loop = "cancelling"
  /\ Send(Allocate(allocation))
  /\ Goto("allocating")
  /\ UNCHANGED <<active_route, files, routeRest>>

\* Mutant of After: the description goes first.
AfterWithJsonFirst(step) ==
  CASE step = "allocating" -> "json"   [] step = "json" -> "blob"
    [] step = "blob" -> "base64"       [] step = "base64" -> "activating"

\* The order in which the files are replaced.
After(step) ==
  CASE step = "allocating" -> "blob"   [] step = "blob" -> "base64"
    [] step = "base64" -> "json"       [] step = "json" -> "activating"

\* A failure of the allocation ends run_live.
Allocated ==
  /\ loop = "allocating" /\ request[Allocate(allocation)] \in Results
  /\ Goto(IF request[Allocate(allocation)] = "ok" THEN After("allocating") ELSE "ended")
  /\ UNCHANGED <<remoteVars, active_route, files, routeRest>>

\* Mutant of WriteFile: a file that cannot be written is passed over.
WriteFileOrSkip(file) ==
  /\ loop = file
  /\ \/ files' = [files EXCEPT ![file] = allocation]
     \/ UNCHANGED files
  /\ Goto(After(file))
  /\ UNCHANGED <<remoteVars, active_route, routeRest>>

\* atomic_write of one file: it is replaced, or run_live ends.
WriteFile(file) ==
  /\ loop = file
  /\ \/ files' = [files EXCEPT ![file] = allocation] /\ Goto(After(file))
     \/ UNCHANGED files /\ Goto("ended")
  /\ UNCHANGED <<remoteVars, active_route, routeRest>>

\* The copies for the history may fail too, and at the start opening the store.
Activate ==
  /\ loop = "activating"
  /\ \/ active_route' = allocation /\ Goto("serving")
     \/ UNCHANGED active_route /\ Goto("ended")
  /\ UNCHANGED <<remoteVars, files, routeRest>>

RouteStep ==
  StartAllocation \/ Allocated \/ (\E file \in Files : WriteFile(file)) \/ Activate

------------------------------------------------------------------------------
(* What the reader makes of updates (map_update)                           *)

updateRest == <<loop, allocation, active_route, files, crashes>>

Connected == reader = "up" /\ loop # "crashed"

AppCall(c) ==
  /\ Connected /\ called[c] = 0
  /\ \E route \in alive : called' = [called EXCEPT ![c] = route]
  /\ pending_calls' = pending_calls \union {c}
  /\ events' = Append(events, [kind |-> "AppCall", call |-> c])
  /\ UNCHANGED <<remoteVars, updateRest, alive, handler>>

\* Mutant of RouteDies: only the death of a route in use is reported.
RouteDiesInUse(route) ==
  /\ route \in alive /\ allocation < MaxTurns
  /\ alive' = alive \ {route}
  /\ events' = IF Connected /\ route = active_route
               THEN Append(events, [kind |-> "Dead", route |-> route]) ELSE events
  /\ UNCHANGED <<remoteVars, updateRest, pending_calls, called, handler>>

\* A route dies at any time, the one that is being published included.
RouteDies(route) ==
  /\ route \in alive /\ allocation < MaxTurns
  /\ alive' = alive \ {route}
  /\ events' = IF Connected THEN Append(events, [kind |-> "Dead", route |-> route]) ELSE events
  /\ UNCHANGED <<remoteVars, updateRest, pending_calls, called, handler>>

\* An update Shutdown has the same effect as the end of the connection.
ReaderEnds ==
  /\ ReaderClears
  /\ events' = Append(events, [kind |-> "Shutdown"])
  /\ UNCHANGED <<updateRest, alive, pending_calls, called, handler>>

\* An executed allocation is a route, whether or not the bridge hears of it.
ServerWorks ==
  /\ ServerStep
  /\ alive' = alive \union {r \in Routes : /\ server[Allocate(r)] = "written"
                                           /\ server'[Allocate(r)] = "executed"}
  /\ UNCHANGED <<updateRest, events, pending_calls, called, handler>>

------------------------------------------------------------------------------
(* The event loop                                                          *)

loopRest == <<remoteVars, files, alive, pending_calls, called, crashes>>

Next_event(kind) ==
  /\ loop = "serving" /\ events # <<>> /\ Head(events).kind = kind
  /\ events' = Tail(events)

\* A call by another route is not answered, and never leaves pending_calls.
TakeCall ==
  /\ Next_event("AppCall")
  /\ LET c == Head(events).call
     IN handler' = [handler EXCEPT ![c] = IF called[c] = active_route THEN "working" ELSE "ignored"]
  /\ UNCHANGED <<loop, allocation, active_route, loopRest>>

TakeDeath ==
  /\ Next_event("Dead")
  /\ IF Head(events).route = active_route
     THEN Goto("cancelling") /\ allocation' = allocation + 1
     ELSE UNCHANGED <<loop, allocation>>
  /\ UNCHANGED <<active_route, handler, loopRest>>

TakeShutdown ==
  /\ Next_event("Shutdown")
  /\ Goto("ended")
  /\ UNCHANGED <<allocation, active_route, handler, loopRest>>

------------------------------------------------------------------------------
(* Handlers of calls, and their replies                                    *)

handlerRest == <<updateRest, alive, events, called>>

\* Mutant of StartReply: the call stays until the reply has succeeded.
StartReplyKeeps(c, attempt) ==
  /\ c \in pending_calls
  /\ Send(Reply(c, attempt))
  /\ handler' = [handler EXCEPT ![c] = "replying"]
  /\ UNCHANGED <<pending_calls, handlerRest>>

\* app_call_reply: the call is taken out first, so it cannot be replied to again.
StartReply(c, attempt) ==
  /\ c \in pending_calls
  /\ pending_calls' = pending_calls \ {c}
  /\ Send(Reply(c, attempt))
  /\ handler' = [handler EXCEPT ![c] = "replying"]
  /\ UNCHANGED handlerRest

NoSuchCall(c) ==
  /\ c \notin pending_calls
  /\ handler' = [handler EXCEPT ![c] = "unreplied"]
  /\ UNCHANGED <<remoteVars, pending_calls, handlerRest>>

\* The handler is done with its work, or answers the failure of its reply with
\* the error request-open-rejected.
HandlerReplies(c) ==
  /\ handler[c] \in {"working", "retry"}
  /\ StartReply(c, IF handler[c] = "working" THEN 1 ELSE 2) \/ NoSuchCall(c)

Attempt(c) == IF request[Reply(c, 2)] = "unsent" THEN 1 ELSE 2

HandlerReplied(c) ==
  /\ handler[c] = "replying" /\ request[Reply(c, Attempt(c))] \in Results
  /\ handler' = [handler EXCEPT ![c] =
                   IF request[Reply(c, Attempt(c))] = "ok" THEN "replied"
                   ELSE IF Attempt(c) = 1 THEN "retry" ELSE "unreplied"]
  /\ UNCHANGED <<remoteVars, pending_calls, handlerRest>>

HandlerStep == \E c \in Calls : HandlerReplies(c) \/ HandlerReplied(c)

------------------------------------------------------------------------------
(* The process                                                             *)

\* run_live returned, or the process dies: handlers and connection go with it.
Crash ==
  /\ loop # "crashed" /\ crashes < MaxCrashes /\ allocation < MaxTurns
  /\ Goto("crashed") /\ crashes' = crashes + 1
  /\ events' = <<>> /\ pending_calls' = {}
  /\ handler' = [c \in Calls |-> IF handler[c] \in {"working", "replying", "retry"}
                                 THEN "unreplied" ELSE handler[c]]
  /\ Reconnect
  /\ UNCHANGED <<allocation, active_route, files, alive, called>>

\* The files are not read again: a new route is allocated and published.
Restart ==
  /\ loop = "crashed"
  /\ Goto("cancelling") /\ active_route' = 0 /\ allocation' = allocation + 1
  /\ UNCHANGED <<remoteVars, files, alive, events, pending_calls, called, handler, crashes>>

RemoteStep ==
  /\ Write \/ ReaderStops \/ \E r \in Requests : RequestStep(r) \/ ReadAnswer(r)
  /\ loop # "crashed"
  /\ UNCHANGED hostVars

Next ==
  \/ RouteStep \/ RemoteStep \/ ReaderEnds \/ ServerWorks
  \/ (\E c \in Calls : AppCall(c)) \/ (\E r \in Routes : RouteDies(r))
  \/ TakeCall \/ TakeDeath \/ TakeShutdown
  \/ HandlerStep \/ Crash \/ Restart

Spec == Init /\ [][Next]_vars

\* The tasks run, the writer gets rid of what it has to write, and a request that
\* waits is given up in time.  Nothing is owed by veilid-server.
Fairness ==
  /\ WF_vars(RouteStep) /\ WF_vars(ReaderEnds) /\ WF_vars(Restart)
  /\ WF_vars(TakeCall \/ TakeDeath \/ TakeShutdown)
  /\ WF_vars(loop # "crashed" /\ Write /\ UNCHANGED hostVars)
  /\ \A r \in Requests : WF_vars(loop # "crashed" /\ RequestStep(r) /\ UNCHANGED hostVars)
  /\ \A c \in Calls : WF_vars(HandlerReplies(c) \/ HandlerReplied(c))

FairSpec == Spec /\ Fairness

------------------------------------------------------------------------------
(* Properties                                                              *)

\* Whoever reads the description of the current route while it is replaced, or
\* after a crash in between, finds a blob that is as new (persist_route).
FilesInOrder == files["json"] <= files["base64"] /\ files["base64"] <= files["blob"]

\* A bridge that takes calls on a route has published exactly this route.
ServedIsPublished == loop = "serving" => \A f \in Files : files[f] = active_route

\* An AppCall is replied to at most once, also when the first reply was executed
\* and reported as a failure (app_call_reply and the retry in run_live).
OneReply ==
  \A c \in Calls : ~ (server[Reply(c, 1)] # "unseen" /\ server[Reply(c, 2)] # "unseen")

\* A request that succeeded was executed, and nothing else was taken for its
\* answer; a handler that says replied did reply.
SuccessIsExecuted ==
  /\ \A r \in Requests : request[r] = "ok" => server[r] = "answered"
  /\ \A c \in Calls : handler[c] = "replied" => \E n \in 1 .. 2 : server[Reply(c, n)] = "answered"

\* A route that dies, be it while it is published, is replaced, or the bridge ends.
DeadRouteIsReplaced ==
  \A r \in Routes : active_route = r /\ r \notin alive
                      ~> active_route # r \/ loop \in {"ended", "crashed"}

\* A lost connection ends run_live, whatever it was waiting for, a request that
\* came after the pending ones were dropped included.
ConnectionLossEnds == reader # "up" ~> loop \in {"ended", "crashed"}

==============================================================================
