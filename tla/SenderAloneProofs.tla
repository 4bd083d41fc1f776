--------------------------- MODULE SenderAloneProofs ---------------------------
(***************************************************************************)
(* The sender's safety properties, proved for every window, budget and     *)
(* bitmap width, against a peer that acknowledges anything it was sent.    *)
(***************************************************************************)
EXTENDS SenderAlone, BodySourceProofs

\* The shape of an acknowledgement is all the invariant needs.
LEMMA PeerAckShape ==
  ASSUME SourceInv, NEW ack \in PeerAcks
  PROVE  ack.next \in Nat /\ ack.window \in 0 .. AckBits
<1>1. next_sequence \in Nat
  BY DEF SourceInv, OutboundTypeOK, SeqNo
<1> QED
  BY <1>1 DEF PeerAcks

\* Every step of the sender against any peer preserves the invariant.
LEMMA StepInv ==
  ASSUME SourceInv, [Next]_sourceVars
  PROVE  SourceInv'
<1>1. CASE \E released \in 0 .. MaxReleased, last \in BOOLEAN : PushPart(released, last)
  BY <1>1, PushPartInv, OutboundAssumption
<1>2. CASE \E trailing \in 0 .. MaxReleased : CloseInput(trailing)
  BY <1>2, CloseInputInv, OutboundAssumption
<1>3. CASE \E ack \in PeerAcks : ApplyAck(ack)
  BY <1>3, PeerAckShape, ApplyAckInv
<1>4. CASE \E window \in 1 .. AckBits : ApplyPeerWindow(window)
  BY <1>4, ApplyPeerWindowInv, ConstantTypes
<1>5. CASE \E due \in SUBSET (in_flight \ unsent) : Dispatch(due)
  BY <1>5, DispatchInv
<1>6. CASE UNCHANGED sourceVars
  <2>1. UNCHANGED outboundVars /\ source' \in Sources
    BY <1>6 DEF sourceVars, SourceInv, SourceTypeOK
  <2> QED
    BY <2>1, SourceUnchangedInv
<1>7. CASE StartReading \/ StopReading
  <2>1. UNCHANGED outboundVars /\ source' \in Sources
    BY <1>7 DEF StartReading, StopReading, Sources
  <2> QED
    BY <2>1, SourceUnchangedInv
<1> QED
  BY <1>1, <1>2, <1>3, <1>4, <1>5, <1>6, <1>7 DEF Next

\* Every reachable state of the sender satisfies the invariant.
LEMMA Invariance == Spec => []SourceInv
<1>1. Init => SourceInv
  BY SourceInitInv, ConstantTypes DEF Init
<1>2. SourceInv /\ [Next]_sourceVars => SourceInv'
  BY StepInv
<1> QED
  BY <1>1, <1>2, PTL DEF Spec

\* The sender's variables keep their types (OutboundBody, outgoing.rs).
THEOREM TypesHold == Spec => []TypeOK
<1>1. SourceInv => TypeOK
  BY DEF SourceInv, TypeOK
<1> QED
  BY <1>1, Invariance, PTL

\* The sender never retains more frames than its local window, whatever the peer
\* advertises (pump and acknowledge, outgoing.rs).
THEOREM WindowHolds == Spec => []WindowRespected
<1>1. SourceInv => WindowRespected
  BY DEF SourceInv
<1> QED
  BY <1>1, Invariance, PTL

\* Queued payloads and retained frames never exceed the byte budget, although a
\* frame is larger than its payload (queue and pump, outgoing.rs).
THEOREM BudgetHolds == Spec => []BudgetRespected
<1>1. SourceInv => BudgetRespected
  BY DEF SourceInv
<1> QED
  BY <1>1, Invariance, PTL

\* An acknowledgement taken while a frame is missing names nothing beyond the
\* bitmap above it, so no frame is released far above a retained one.
THEOREM NearbyHolds == Spec => []ReleasedNearby
<1>1. SourceInv => ReleasedNearby
  BY DEF SourceInv
<1> QED
  BY <1>1, Invariance, PTL

\* Between its oldest unacknowledged frame and its newest one the sender never
\* has more than one bitmap width and one window of sequence numbers: what a
\* receiver must be ready to hold out of order.
THEOREM SpanHolds == Spec => []SpanBounded
<1>1. SourceInv => SpanBounded
  BY SpanIsBounded
<1> QED
  BY <1>1, Invariance, PTL

\* Only an operation that succeeds promises anything, and it does so by its own
\* pump: what earlier calls left in the queue does not matter.
LEMMA StepConserves ==
  ASSUME SourceInv, WorkConserving, [Next]_sourceVars
  PROVE  WorkConserving'
<1>1. CASE \E released \in 0 .. MaxReleased, last \in BOOLEAN : PushPart(released, last)
  BY <1>1, QueueConserves, OutboundAssumption DEF PushPart, Push
<1>2. CASE \E trailing \in 0 .. MaxReleased : CloseInput(trailing)
  <2>1. PICK trailing \in 0 .. MaxReleased : CloseInput(trailing)
    BY <1>2
  <2>2. trailing + 1 \in Nat
    BY OutboundAssumption
  <2> QED
    BY <2>1, <2>2, QueueConserves DEF CloseInput, FinishInput
<1>3. CASE \E ack \in PeerAcks : ApplyAck(ack)
  <2>1. PICK ack \in PeerAcks : ApplyAck(ack)
    BY <1>3
  <2>2. ack.window \in 0 .. AckBits
    BY PeerAckShape
  <2> QED
    BY <2>1, <2>2, PumpConserves DEF ApplyAck, Acknowledge
<1>4. CASE \E window \in 1 .. AckBits : ApplyPeerWindow(window)
  BY <1>4, PumpConserves, ConstantTypes DEF ApplyPeerWindow, SetPeerWindow
<1>5. CASE \E due \in SUBSET (in_flight \ unsent) : Dispatch(due)
  BY <1>5, SameConserves DEF Dispatch, TakeSendable
<1>6. CASE StartReading \/ StopReading \/ UNCHANGED sourceVars
  BY <1>6, SameConserves DEF StartReading, StopReading, sourceVars, outboundVars
<1> QED
  BY <1>1, <1>2, <1>3, <1>4, <1>5, <1>6 DEF Next

\* A call that succeeds leaves nothing queued behind an open window, so no room
\* that an acknowledgement makes is wasted (acknowledge and pump, outgoing.rs).
THEOREM ConservesWork == Spec => []WorkConserving
<1>1. Init => WorkConserving
  BY DEF Init, SourceInit, OutboundInit, WorkConserving
<1>2. SourceInv /\ WorkConserving /\ [Next]_sourceVars => WorkConserving'
  BY StepConserves
<1> QED
  BY <1>1, <1>2, Invariance, PTL DEF Spec

==============================================================================
