----------------------------- MODULE OutboundBody -----------------------------
(***************************************************************************)
(* OutboundBody of crates/veilid-http-engine: the sending half of one      *)
(* request or response body.  Compressed payloads wait in a queue until    *)
(* the window has room; a frame that got a sequence number is retained     *)
(* until an acknowledgement covers it and is sent again when it is due.    *)
(*                                                                         *)
(* Payload bytes are abstracted to their number of frames: every queued    *)
(* item retains PayloadBytes, every encoded frame FrameBytes.  The last    *)
(* item of a finished body is the End frame.  Retry timestamps are         *)
(* abstracted to "already sent": a frame sent before may be due or not.    *)
(***************************************************************************)
EXTENDS AckWindow

CONSTANTS
  LocalWindow,        \* window_frames given to new
  PayloadBytes,       \* bytes one queued item retains
  FrameBytes,         \* bytes one encoded frame retains
  MaxBufferedBytes,   \* max_pending_bytes given to new
  MaxReleased         \* bound: frames one call of the encoder and batcher releases

\* What new accepts: a window of 1..=64 and a budget of one full window.
ASSUME OutboundAssumption ==
  /\ LocalWindow \in 1 .. AckBits
  /\ PayloadBytes \in Nat \ {0}
  /\ FrameBytes \in Nat
  /\ PayloadBytes <= FrameBytes
  /\ MaxBufferedBytes \in Nat
  /\ FrameBytes * LocalWindow <= MaxBufferedBytes
  /\ MaxReleased \in Nat

VARIABLES
  pending,         \* items queued, not yet given a sequence number
  next_sequence,   \* sequence number of the next frame
  in_flight,       \* retained frames: sequence numbers awaiting acknowledgement
  unsent,          \* the retained frames whose last_sent_ms is None
  peer_window,     \* capacity the peer last advertised
  input_finished,  \* the End item has been queued
  outcome          \* what the last call returned

outboundVars ==
  <<pending, next_sequence, in_flight, unsent, peer_window, input_finished, outcome>>

Outcomes == {"ok", "PendingLimit", "SequenceExhausted"}

\* The sequence numbers given to frames so far.
Issued == {s \in SeqNo : s < next_sequence}

OutboundTypeOK ==
  /\ pending \in Nat
  /\ next_sequence \in SeqNo
  /\ in_flight \subseteq Issued
  /\ unsent \subseteq in_flight
  /\ peer_window \in 0 .. AckBits
  /\ input_finished \in BOOLEAN
  /\ outcome \in Outcomes

\* new, followed by the first set_peer_window(peer).
OutboundInit(peer) ==
  /\ pending = 0
  /\ next_sequence = 0
  /\ in_flight = {}
  /\ unsent = {}
  /\ peer_window = peer
  /\ input_finished = FALSE
  /\ outcome = "ok"

------------------------------------------------------------------------------
\* Mutants of EffectiveWindow and Fits: the local bound is forgotten once the peer
\* advertises a window; the budget forgets the frames kept for retransmission.
PeerWindowOnly(peer) == peer

FitsPendingOnly(items, frames) == items * PayloadBytes <= MaxBufferedBytes

EffectiveWindow(peer) == IF LocalWindow < peer THEN LocalWindow ELSE peer

Buffered(items, frames) == items * PayloadBytes + frames * FrameBytes

Fits(items, frames) == Buffered(items, frames) <= MaxBufferedBytes

is_backpressured ==
  \/ Buffered(pending, Cardinality(in_flight)) >= MaxBufferedBytes
  \/ Cardinality(in_flight) >= EffectiveWindow(peer_window)

is_complete == input_finished /\ pending = 0 /\ in_flight = {}

\* Give sequence numbers to queued items while the window has room.  A frame
\* larger than its payload may exceed the budget, and the sequence space may
\* end; the item that meets the end of the space has already left the queue.
Pump(items, retained, peer) ==
  LET space == EffectiveWindow(peer) - Cardinality(retained)
      room == IF space <= 0 THEN 0 ELSE IF items < space THEN items ELSE space
  IN \E moved \in 0 .. room :
       LET frames == next_sequence .. (next_sequence + moved - 1)
           count == Cardinality(retained) + moved
           over == ~ Fits(items - moved - 1, count + 1)
       IN /\ next_sequence + moved <= MaxSeq
          /\ moved > 0 => Fits(items - moved, count)
          /\ next_sequence' = next_sequence + moved
          /\ in_flight' = retained \union frames
          /\ unsent' = (unsent \intersect retained) \union frames
          /\ \/ /\ moved = room
                /\ pending' = items - moved
                /\ outcome' = "ok"
             \/ /\ moved < room
                /\ over
                /\ pending' = items - moved
                /\ outcome' = "PendingLimit"
             \/ /\ moved < room
                /\ ~ over
                /\ next_sequence + moved = MaxSeq
                /\ pending' = items - moved - 1
                /\ outcome' = "SequenceExhausted"

\* Queue `count` items one by one.  The first that exceeds the budget ends the
\* call with an error, after those before it were queued and before any pump.
Queue(count) ==
  \/ /\ Fits(pending + count, Cardinality(in_flight))
     /\ Pump(pending + count, in_flight, peer_window)
  \/ \E fit \in 0 .. (count - 1) :
       /\ fit > 0 => Fits(pending + fit, Cardinality(in_flight))
       /\ ~ Fits(pending + fit + 1, Cardinality(in_flight))
       /\ pending' = pending + fit
       /\ outcome' = "PendingLimit"
       /\ UNCHANGED <<next_sequence, in_flight, unsent>>

\* push: the encoder and the batcher release between none and MaxReleased frames.
Push(released) ==
  /\ ~ input_finished
  /\ Queue(released)
  /\ UNCHANGED <<peer_window, input_finished>>

\* finish_input: the trailing frames and the End item; a budget error leaves the
\* body unfinished, an error of the pump that follows does not.
FinishInput(trailing) ==
  /\ ~ input_finished
  /\ Queue(trailing + 1)
  /\ input_finished' = Fits(pending + trailing + 1, Cardinality(in_flight))
  /\ UNCHANGED peer_window

SetPeerWindow(window) ==
  /\ peer_window' = window
  /\ Pump(pending, in_flight, window)
  /\ UNCHANGED input_finished

\* Mutant of Acknowledge: released capacity is not refilled.
AcknowledgeWithoutPump(ack) ==
  /\ peer_window' = ack.window
  /\ in_flight' = {s \in in_flight : ~ Acknowledges(ack, s)}
  /\ unsent' = unsent \intersect in_flight'
  /\ outcome' = "ok"
  /\ UNCHANGED <<pending, next_sequence, input_finished>>

Acknowledge(ack) ==
  /\ peer_window' = ack.window
  /\ Pump(pending, {s \in in_flight : ~ Acknowledges(ack, s)}, ack.window)
  /\ UNCHANGED input_finished

\* Mutant of Sendable: a frame is sent once.
SendableOnce(due) == unsent

\* take_sendable returns the never-sent frames and those of `due` whose retry
\* delay has elapsed, and marks them sent.
Sendable(due) == unsent \union due

TakeSendable(due) ==
  /\ Sendable(due) # {}
  /\ unsent' = {}
  /\ UNCHANGED <<pending, next_sequence, in_flight, peer_window, input_finished, outcome>>

==============================================================================
