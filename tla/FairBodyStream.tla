----------------------------- MODULE FairBodyStream -----------------------------
(***************************************************************************)
(* One body transfer over a network that keeps order, so that what a body  *)
(* needs to make progress can be asked.  Both loops keep running: neither  *)
(* deadline, cancellation nor route failure happens, and every consumer    *)
(* takes what it is given.                                                 *)
(*                                                                         *)
(* A frame is due for retransmission when neither a copy of it nor an      *)
(* acknowledgement is on the way: the retry delay exceeds a round trip.    *)
(* This bounds the channels.  A message may be lost instead of being       *)
(* delivered, a bounded number of times in each direction.                 *)
(***************************************************************************)
EXTENDS BodyEndpoints, SequencesExt

CONSTANTS
  MaxFrameLosses,   \* bound: frames the network loses
  MaxAckLosses      \* bound: acknowledgements it loses

ASSUME LossAssumption == MaxFrameLosses \in Nat /\ MaxAckLosses \in Nat

VARIABLES
  data_chan,     \* frames on the way, oldest first
  ack_chan,      \* acknowledgements on the way, oldest first
  frame_losses,
  ack_losses

netVars == <<data_chan, ack_chan, frame_losses, ack_losses>>

vars == <<endpointVars, netVars>>

Init ==
  /\ EndpointInit
  /\ data_chan = <<>>
  /\ ack_chan = <<>>
  /\ frame_losses = 0
  /\ ack_losses = 0

------------------------------------------------------------------------------
Due == {s \in in_flight \ unsent : ack_chan = <<>> /\ FrameAt(s) \notin ToSet(data_chan)}

\* take_sendable returns the frames in the order of their sequence numbers.
Send(due) ==
  /\ Dispatch(due)
  /\ data_chan' = data_chan \o
       [i \in 1 .. Cardinality(Sendable(due)) |->
          FrameAt(SetToSortSeq(Sendable(due), LAMBDA a, b : a < b)[i])]
  /\ UNCHANGED <<inboundVars, sink, reopened, ack_chan, frame_losses, ack_losses>>

SendIncluding(s) ==
  \E due \in SUBSET Due : s \in Sendable(due) /\ Send(due)

Wait == WaitForChunk /\ UNCHANGED netVars

Chunk == ChunkPart /\ UNCHANGED netVars

Produce == (WaitForChunk \/ ChunkPart \/ EndInput \/ ReopenWindow) /\ UNCHANGED netVars

DeliverFrame ==
  /\ data_chan # <<>>
  /\ HandleFrame(Head(data_chan))
  /\ data_chan' = Tail(data_chan)
  /\ ack_chan' = ack_chan \o SetToSeq(Acks(Head(data_chan)))
  /\ UNCHANGED <<frame_losses, ack_losses>>

DeliverAck ==
  /\ ack_chan # <<>>
  /\ HandleAck(Head(ack_chan))
  /\ ack_chan' = Tail(ack_chan)
  /\ UNCHANGED <<data_chan, frame_losses, ack_losses>>

LoseFrame ==
  /\ data_chan # <<>>
  /\ frame_losses < MaxFrameLosses
  /\ data_chan' = Tail(data_chan)
  /\ frame_losses' = frame_losses + 1
  /\ UNCHANGED <<endpointVars, ack_chan, ack_losses>>

LoseAck ==
  /\ ack_chan # <<>>
  /\ ack_losses < MaxAckLosses
  /\ ack_chan' = Tail(ack_chan)
  /\ ack_losses' = ack_losses + 1
  /\ UNCHANGED <<endpointVars, data_chan, frame_losses>>

Next ==
  \/ Produce
  \/ \E due \in SUBSET Due : Send(due)
  \/ DeliverFrame
  \/ DeliverAck
  \/ LoseFrame
  \/ LoseAck

\* The sending loop ticks every 50 ms and takes every frame whose own delay has
\* elapsed.  Fairness is strong because the bound in Due withholds a frame while
\* acknowledgements of others are on the way, which its timer does not.  Both
\* loops take the next message: select! chooses among its ready branches at
\* random, so small chunks cannot keep an acknowledgement waiting for ever.  A
\* chunk in hand is pushed to its end, reading the next one needs no fairness.
Fairness ==
  /\ \A s \in 0 .. (MaxItems - 1) : SF_vars(SendIncluding(s))
  /\ WF_vars(source = "reading" /\ Wait)
  /\ WF_vars(source = "chunk" /\ Chunk)
  /\ WF_vars(DeliverFrame)
  /\ SF_vars(DeliverAck)

Spec == Init /\ [][Next]_vars /\ Fairness

------------------------------------------------------------------------------
(* Properties                                                              *)

\* Retransmission works: a frame that got a sequence number is recorded by the
\* receiver, whatever the network lost, unless the sender gave the body up or the
\* receiver's verification of it failed (take_sendable, receive).
FramesArrive ==
  \A s \in 0 .. (MaxItems - 1) :
    (s \in in_flight) ~> (Recorded(s) \/ source = "failed" \/ decoder = "taken")

\* The receiver's verdict on the whole body reaches a sender that finished its
\* input (should_ack and take_sendable, streaming.rs and outgoing.rs).
ClosedBodyCompletes == (source = "closed") ~> is_complete

\* As long as no frame is lost the transfer does not stall, although
\* acknowledgements are.
CompletesWithoutLoss == (source = "closed") ~> (is_complete \/ frame_losses > 0)

\* A loop that stopped reading its source is eventually told to go on: neither
\* the window nor the byte budget stays exhausted, as long as no frame is lost.
ReadingResumes ==
  (source = "open" /\ is_backpressured) ~> (~ is_backpressured \/ frame_losses > 0)

==============================================================================
