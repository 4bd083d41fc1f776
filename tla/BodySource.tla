------------------------------ MODULE BodySource ------------------------------
(***************************************************************************)
(* OutboundBody driven by the loop that owns it: run_stream_inner for a    *)
(* request body, run_upstream for a response body.  The loop asks          *)
(* is_backpressured before it takes a chunk from its source; one chunk is  *)
(* split into several push calls between which nothing else runs.          *)
(*                                                                         *)
(* The client asks and takes the chunk in one task that also handles the   *)
(* acknowledgements.  The bridge's answer is stale when the chunk comes:   *)
(* it waits for the upstream while another task applies acknowledgements,  *)
(* which may lower the peer's window.                                      *)
(***************************************************************************)
EXTENDS OutboundBody

CONSTANTS
  MaxItems,   \* bound: items one body queues, its End frame included
  Direction   \* "request" (sent by the client) or "response" (by the bridge)

ASSUME SourceAssumption ==
  /\ MaxItems \in Nat \ {0}
  /\ Direction \in {"request", "response"}

VARIABLE source   \* where the loop is

\* "open": at its top; "reading": the bridge waits for a chunk; "chunk": between
\* two pushes; "closed": finish_input was called; "failed": the loop has ended.
Sources == {"open", "reading", "chunk", "closed", "failed"}

sourceVars == <<outboundVars, source>>

SourceTypeOK == source \in Sources

\* Items queued so far; those below next_sequence have become frames.
Queued == next_sequence + pending

SourceInit(peer) == OutboundInit(peer) /\ source = "open"

------------------------------------------------------------------------------
\* run_upstream found room and waits for its upstream; its notification or its
\* 50 ms tick take it back to the top of the loop.
StartReading ==
  /\ Direction = "response"
  /\ source = "open" /\ ~ is_backpressured
  /\ source' = "reading"
  /\ UNCHANGED outboundVars

StopReading ==
  /\ source = "reading"
  /\ source' = "open"
  /\ UNCHANGED outboundVars

\* The loop may take what its source gives, a chunk or the end.
MayRead ==
  \/ source = "reading"
  \/ Direction = "request" /\ source = "open" /\ ~ is_backpressured

\* One push call of a chunk.  An error leaves the loop: the body is dropped.
PushPart(released, last) ==
  /\ source = "chunk" \/ MayRead
  /\ Queued + released < MaxItems
  /\ Push(released)
  /\ source' = IF outcome' # "ok" THEN "failed" ELSE IF last THEN "open" ELSE "chunk"

\* The source ended: finish_input, from the same branch that reads a chunk.
CloseInput(trailing) ==
  /\ MayRead
  /\ Queued + trailing < MaxItems
  /\ FinishInput(trailing)
  /\ source' = IF outcome' # "ok" THEN "failed" ELSE "closed"

\* An error of acknowledge ends the client's loop (runtime.rs).  The bridge
\* applies it in handle_message, whose error is only logged.
ApplyAck(ack) ==
  /\ source \in {"open", "reading", "closed"}
  /\ Acknowledge(ack)
  /\ source' = IF outcome' # "ok" /\ Direction = "request" THEN "failed" ELSE source

\* ResponseOpen repeats the bridge's request window to the client; a response
\* body gets the client's window once, before its first chunk.
ApplyPeerWindow(window) ==
  /\ source \in {"open", "closed"}
  /\ Direction = "response" => Queued = 0
  /\ SetPeerWindow(window)
  /\ source' = IF outcome' # "ok" THEN "failed" ELSE source

\* take_sendable at the top of the loop, which its 50 ms tick comes back to.
Dispatch(due) ==
  /\ source \in {"open", "closed"}
  /\ TakeSendable(due)
  /\ UNCHANGED source

------------------------------------------------------------------------------
(* Properties                                                              *)

\* No acknowledgement order and no advertised window makes the sender retain
\* more frames than its local window (pump and acknowledge, outgoing.rs).
WindowRespected == Cardinality(in_flight) <= LocalWindow

\* Every frame released so far lies less than one bitmap width above every
\* frame still retained.
ReleasedNearby ==
  \A s \in Issued \ in_flight, r \in in_flight : s < r + AckBits

\* How far a sender can run ahead of its oldest unacknowledged frame: the
\* bitmap width and one window.  This is what a receiver has to buffer, and it
\* exceeds the window that both peers advertise.
SpanBounded ==
  \A r \in in_flight : next_sequence < r + AckBits + LocalWindow

\* Pending plus retained bytes never exceed the configured budget.
BudgetRespected == Buffered(pending, Cardinality(in_flight)) <= MaxBufferedBytes

\* A call that succeeded left no item queued behind an open window, so an
\* acknowledgement that opens the window always moves data.
WorkConserving ==
  outcome = "ok" /\ source # "failed" =>
    pending = 0 \/ Cardinality(in_flight) >= EffectiveWindow(peer_window)

==============================================================================
