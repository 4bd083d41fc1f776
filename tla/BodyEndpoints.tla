----------------------------- MODULE BodyEndpoints -----------------------------
(***************************************************************************)
(* The two ends of one body transfer: the sending loop of BodySource, and  *)
(* the receiving handler with its acknowledgement policy.  A request body  *)
(* goes from run_stream_inner to handle_message, a response body from      *)
(* run_upstream to run_stream_inner.                                       *)
(*                                                                         *)
(* Handing the decoded chunks to the consumer is part of receiving a       *)
(* frame: both handlers wait for the consumer's channel before they        *)
(* acknowledge and before they take another frame, so a slow consumer is   *)
(* one that delays the receive.                                            *)
(***************************************************************************)
EXTENDS BodySource, InboundBody

CONSTANT AckStride   \* 4 in the code: in-order frames per acknowledgement

ASSUME AckStrideAssumption == AckStride \in Nat \ {0}

\* A body ends long before the sequence space does (2^32 frames of up to 30 KiB
\* within an hour); SenderAlone covers the end of the space.
ASSUME SpaceAssumption == MaxItems <= MaxSeq

VARIABLES
  sink,      \* receiving loop: "open", "failed", or "left" after completion
  reopened   \* ResponseOpen has repeated the receive window of a request

endpointVars == <<sourceVars, inboundVars, sink, reopened>>

EndpointTypeOK ==
  /\ OutboundTypeOK /\ SourceTypeOK /\ InboundTypeOK
  /\ sink \in {"open", "failed", "left"}
  /\ reopened \in BOOLEAN

\* Opening the transaction gave the sender the receiver's capacity.
EndpointInit ==
  /\ SourceInit(Capacity)
  /\ InboundInit
  /\ sink = "open"
  /\ reopened = FALSE

------------------------------------------------------------------------------
Frame == [sequence : SeqNo, end : BOOLEAN]

\* The End item is the last one that was queued.
IsEnd(s) == input_finished /\ s + 1 = Queued

FrameAt(s) == [sequence |-> s, end |-> IsEnd(s)]

WaitForChunk ==
  /\ StartReading \/ StopReading
  /\ UNCHANGED <<inboundVars, sink, reopened>>

ChunkPart ==
  /\ \E released \in 0 .. MaxReleased, last \in BOOLEAN : PushPart(released, last)
  /\ UNCHANGED <<inboundVars, sink, reopened>>

EndInput ==
  /\ \E trailing \in 0 .. MaxReleased : CloseInput(trailing)
  /\ UNCHANGED <<inboundVars, sink, reopened>>

\* ResponseOpen arrives at a client that may still be sending its request.
ReopenWindow ==
  /\ Direction = "request" /\ ~ reopened
  /\ ApplyPeerWindow(Capacity)
  /\ reopened' = TRUE
  /\ UNCHANGED <<inboundVars, sink>>

HandleAck(ack) ==
  /\ ApplyAck(ack)
  /\ UNCHANGED <<inboundVars, sink, reopened>>

Receive(f) == IF f.end THEN ReceiveEnd(f.sequence) ELSE ReceiveData(f.sequence)

\* An error of receive ends the client's loop.  The bridge logs it and goes on.
HandleFrame(f) ==
  /\ sink = "open"
  /\ Receive(f)
  /\ sink' = IF result' # "ok" /\ Direction = "response" THEN "failed" ELSE sink
  /\ UNCHANGED <<sourceVars, reopened>>

\* The consumer of the decoded chunks is gone: the handler fails after receive
\* and before its acknowledgement, with the same consequence.
HandleFrameUnread(f) ==
  /\ sink = "open"
  /\ Receive(f)
  /\ result' = "ok" /\ (delivered' # delivered \/ completed' # completed)
  /\ sink' = IF Direction = "response" THEN "failed" ELSE sink
  /\ UNCHANGED <<sourceVars, reopened>>

\* Mutant of ShouldAck: arrivals in order are acknowledged only at the end.
AckWithoutStride(f, ack) == completed' \/ ack.selective # {}

\* A successful receive is acknowledged on completion, while frames are held
\* out of order, and on every AckStride-th sequence number.
ShouldAck(f, ack) ==
  \/ completed'
  \/ ack.selective # {}
  \/ f.sequence % AckStride = AckStride - 1

\* The acknowledgements that receiving f sends: none or one.
Acks(f) ==
  LET ack == Ack(received', next_contiguous')
  IN IF result' = "ok" /\ ShouldAck(f, ack) THEN {ack} ELSE {}

\* The transaction ends at one of its ends: overall timeout, cancellation, a
\* dead route, or, after completion, because the other direction is done too.
StopSource ==
  /\ source \in {"open", "reading", "closed"}
  /\ source' = "failed"
  /\ UNCHANGED <<outboundVars, inboundVars, sink, reopened>>

StopSink ==
  /\ sink = "open"
  /\ sink' = IF completed THEN "left" ELSE "failed"
  /\ UNCHANGED <<sourceVars, inboundVars, reopened>>

------------------------------------------------------------------------------
(* Properties of the two ends, whatever the network between them           *)

Recorded(s) == s < next_contiguous \/ s \in received

\* A frame is released from retransmission only when the receiver recorded it.
ReleasedIsRecorded == \A s \in Issued \ in_flight : Recorded(s)

\* The decoder consumes the payloads in order, none missing and none twice.
DeliveredInOrder == delivered = Numbers(0, Len(delivered))

\* The sender's is_complete, which ends its loop with success, means that the
\* receiver verified the whole body: nothing was lost on the way.
CompletionIsDelivery ==
  is_complete /\ source # "failed" =>
    completed /\ Len(delivered) = next_sequence - 1

\* With a budget for one bitmap width and one window the receiver never fails,
\* whatever arrives late, twice or out of order.
ReceiverNeverFails == result = "ok"

\* The body as the abstract stream: the End item is not a piece.
Stream == INSTANCE ReliableStream WITH
  written   <- IF input_finished THEN Queued - 1 ELSE Queued,
  closed    <- input_finished,
  read      <- delivered,
  verified  <- completed,
  confirmed <- is_complete

ImplementsStream == Stream!Spec

==============================================================================
