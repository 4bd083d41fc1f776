---------------------------- MODULE BodySourceProofs ----------------------------
(***************************************************************************)
(* What every operation of the sender preserves, whoever calls it and      *)
(* whatever acknowledgement it is given: the facts that the proofs about   *)
(* SenderAlone and BodyStream share.                                       *)
(***************************************************************************)
EXTENDS BodySource, FiniteSetTheorems, TLAPS

\* The inductive invariant.  Types alone do not bound the retained frames, and
\* the bound on their span needs the history of what was released.
SourceInv ==
  /\ OutboundTypeOK
  /\ SourceTypeOK
  /\ WindowRespected
  /\ ReleasedNearby
  /\ BudgetRespected

\* What a call that keeps the frames `retained` and then pumps leaves behind.
Refilled(retained) ==
  /\ next_sequence' \in SeqNo
  /\ pending' \in Nat
  /\ \E moved \in Nat :
       /\ next_sequence' = next_sequence + moved
       /\ in_flight' = retained \union (next_sequence .. (next_sequence + moved - 1))
  /\ unsent' \subseteq in_flight'
  /\ outcome' \in Outcomes
  /\ Cardinality(in_flight') <= LocalWindow
  /\ Fits(pending', Cardinality(in_flight'))

------------------------------------------------------------------------------
\* The constants' types, without the product that bounds the budget.
LEMMA ConstantTypes ==
  /\ AckBits \in Nat /\ MaxSeq \in Nat
  /\ LocalWindow \in Nat /\ LocalWindow <= AckBits
  /\ PayloadBytes \in Nat /\ FrameBytes \in Nat /\ MaxBufferedBytes \in Nat
  BY AckWindowAssumption, OutboundAssumption

\* Sequence numbers issued so far are finitely many (the BTreeMap of frames).
LEMMA IssuedIsFinite ==
  ASSUME next_sequence \in SeqNo, NEW S \in SUBSET Issued
  PROVE  IsFiniteSet(S) /\ Cardinality(S) \in Nat
<1>1. IsFiniteSet(0 .. MaxSeq)
  BY ConstantTypes, FS_Interval
<1>2. S \subseteq 0 .. MaxSeq
  BY DEF Issued, SeqNo
<1>3. IsFiniteSet(S)
  BY <1>1, <1>2, FS_Subset
<1> QED
  BY <1>3, FS_CardinalityType

\* Frames that get the next numbers are counted on top of the retained ones.
LEMMA CountWithNew ==
  ASSUME next_sequence \in SeqNo, NEW S \in SUBSET Issued, NEW m \in Nat
  PROVE  Cardinality(S \union (next_sequence .. (next_sequence + m - 1))) = Cardinality(S) + m
<1> DEFINE T == next_sequence .. (next_sequence + m - 1)
<1>1. IsFiniteSet(S) /\ Cardinality(S) \in Nat
  BY IssuedIsFinite
<1>2. next_sequence \in Nat
  BY DEF SeqNo
<1>3. IsFiniteSet(T) /\ Cardinality(T) = m
  BY <1>2, FS_Interval
<1>4. S \intersect T = {}
  BY <1>2 DEF Issued
<1> HIDE DEF T
<1>5. Cardinality(S \union T) = Cardinality(S) + Cardinality(T) - Cardinality(S \intersect T)
  BY <1>1, <1>3, FS_Union
<1>6. Cardinality(S \intersect T) = 0
  BY <1>4, FS_EmptySet
<1> QED
  BY <1>1, <1>3, <1>5, <1>6 DEF T

\* Fewer items and fewer frames take no more of the byte budget.
LEMMA FitsMonotone ==
  ASSUME NEW items \in Nat, NEW frames \in Nat,
         NEW fewer \in 0 .. items, NEW less \in 0 .. frames,
         Fits(items, frames)
  PROVE  Fits(fewer, less)
<1>1. \A a, b, c \in Nat : a <= b => a * c <= b * c
  BY Z3
<1>2. fewer * PayloadBytes <= items * PayloadBytes /\ less * FrameBytes <= frames * FrameBytes
  BY <1>1, ConstantTypes
<1>3. /\ fewer * PayloadBytes \in Nat /\ items * PayloadBytes \in Nat
      /\ less * FrameBytes \in Nat /\ frames * FrameBytes \in Nat
  BY ConstantTypes, Z3
<1> QED
  BY <1>2, <1>3, ConstantTypes DEF Fits, Buffered

\* pump fills the window without exceeding the local bound or the budget, and
\* the frames it adds have the next sequence numbers (pump, outgoing.rs).
LEMMA PumpPost ==
  ASSUME OutboundTypeOK,
         NEW items \in Nat, NEW retained \in SUBSET in_flight, NEW peer \in 0 .. AckBits,
         Cardinality(retained) <= LocalWindow,
         Fits(items, Cardinality(retained)),
         Pump(items, retained, peer)
  PROVE  Refilled(retained)
<1> DEFINE space == EffectiveWindow(peer) - Cardinality(retained)
           room == IF space <= 0 THEN 0 ELSE IF items < space THEN items ELSE space
<1>1. /\ next_sequence \in SeqNo /\ next_sequence \in Nat
      /\ retained \in SUBSET Issued
      /\ Cardinality(retained) \in Nat
  <2>1. next_sequence \in SeqNo /\ retained \in SUBSET Issued
    BY DEF OutboundTypeOK
  <2> QED
    BY <2>1, IssuedIsFinite DEF SeqNo
<1>2. EffectiveWindow(peer) \in Nat /\ EffectiveWindow(peer) <= LocalWindow
  BY ConstantTypes DEF EffectiveWindow
<1>3. room \in 0 .. items /\ Cardinality(retained) + room <= LocalWindow
  BY <1>1, <1>2, ConstantTypes
<1> HIDE DEF room
<1>4. PICK moved \in 0 .. room :
        /\ next_sequence + moved <= MaxSeq
        /\ moved > 0 => Fits(items - moved, Cardinality(retained) + moved)
        /\ next_sequence' = next_sequence + moved
        /\ in_flight' = retained \union (next_sequence .. (next_sequence + moved - 1))
        /\ unsent' = (unsent \intersect retained)
                       \union (next_sequence .. (next_sequence + moved - 1))
        /\ \/ pending' = items - moved
           \/ moved < room /\ pending' = items - moved - 1
        /\ outcome' \in {"ok", "PendingLimit", "SequenceExhausted"}
  BY DEF Pump, room
<1>5. /\ moved \in Nat /\ moved <= items /\ moved <= room /\ room \in Nat
      /\ pending' \in 0 .. (items - moved)
      /\ outcome' \in Outcomes
  <2>1. room \in Nat /\ room <= items /\ moved \in Nat /\ moved <= room
    BY <1>3, <1>4
  <2>2. outcome' \in Outcomes
    BY <1>4 DEF Outcomes
  <2> QED
    BY <1>4, <2>1, <2>2
<1>6. next_sequence' \in SeqNo /\ unsent' \subseteq in_flight'
  BY <1>1, <1>4, <1>5, ConstantTypes DEF SeqNo
<1>7. Cardinality(in_flight') = Cardinality(retained) + moved
  BY <1>1, <1>4, <1>5, CountWithNew
<1>8. Cardinality(in_flight') <= LocalWindow
  BY <1>1, <1>3, <1>5, <1>7, ConstantTypes
<1>9. Fits(items - moved, Cardinality(retained) + moved)
  <2>1. CASE moved = 0
    <3>1. items - moved = items /\ Cardinality(retained) + moved = Cardinality(retained)
      BY <1>1, <2>1
    <3> QED
      BY <3>1
  <2>2. CASE moved > 0
    BY <1>4, <2>2
  <2> QED
    BY <1>5, <2>1, <2>2
<1>10. Fits(pending', Cardinality(in_flight'))
  <2>1. items - moved \in Nat /\ Cardinality(retained) + moved \in Nat
    BY <1>1, <1>3, <1>5
  <2>2. Cardinality(retained) + moved \in 0 .. (Cardinality(retained) + moved)
    BY <2>1
  <2> QED
    BY <1>5, <1>7, <1>9, <2>1, <2>2, FitsMonotone
<1> QED
  BY <1>4, <1>5, <1>6, <1>8, <1>10 DEF Refilled

\* Queueing items keeps every retained frame, whether the call succeeds or meets
\* the budget half-way (push and finish_input).
LEMMA QueuePost ==
  ASSUME SourceInv, NEW count \in Nat, Queue(count)
  PROVE  Refilled(in_flight)
<1>1. /\ OutboundTypeOK /\ next_sequence \in SeqNo /\ next_sequence \in Nat
      /\ pending \in Nat /\ in_flight \in SUBSET Issued
      /\ peer_window \in 0 .. AckBits
      /\ Cardinality(in_flight) <= LocalWindow
      /\ Fits(pending, Cardinality(in_flight))
  BY DEF SourceInv, OutboundTypeOK, SeqNo, WindowRespected, BudgetRespected, Fits
<1>2. CASE /\ Fits(pending + count, Cardinality(in_flight))
           /\ Pump(pending + count, in_flight, peer_window)
  BY <1>1, <1>2, PumpPost
<1>3. CASE \E fit \in 0 .. (count - 1) :
             /\ fit > 0 => Fits(pending + fit, Cardinality(in_flight))
             /\ ~ Fits(pending + fit + 1, Cardinality(in_flight))
             /\ pending' = pending + fit
             /\ outcome' = "PendingLimit"
             /\ UNCHANGED <<next_sequence, in_flight, unsent>>
  <2>1. PICK fit \in 0 .. (count - 1) :
             /\ fit > 0 => Fits(pending + fit, Cardinality(in_flight))
             /\ pending' = pending + fit
             /\ outcome' = "PendingLimit"
             /\ UNCHANGED <<next_sequence, in_flight, unsent>>
    BY <1>3
  <2>2. pending' \in Nat /\ Fits(pending', Cardinality(in_flight'))
    BY <1>1, <2>1
  <2>3. /\ next_sequence' = next_sequence + 0
        /\ in_flight' = in_flight \union (next_sequence .. (next_sequence + 0 - 1))
    BY <1>1, <2>1
  <2>4. next_sequence' \in SeqNo /\ unsent' \subseteq in_flight' /\ outcome' \in Outcomes
    BY <1>1, <2>1 DEF OutboundTypeOK, Outcomes
  <2>5. Cardinality(in_flight') <= LocalWindow
    BY <1>1, <2>1
  <2>6. 0 \in Nat
    OBVIOUS
  <2> QED
    BY <2>2, <2>3, <2>4, <2>5, <2>6 DEF Refilled
<1> QED
  BY <1>2, <1>3 DEF Queue

------------------------------------------------------------------------------
\* Frames that get the next numbers lie above all that were released before, and
\* the retained ones among `in_flight` were near those already.
LEMMA ReleasedStayNearby ==
  ASSUME SourceInv, NEW retained \in SUBSET in_flight, Refilled(retained),
         \A s \in in_flight \ retained, r \in retained : s < r + AckBits
  PROVE  ReleasedNearby'
<1>1. next_sequence \in Nat /\ AckBits \in Nat /\ in_flight \subseteq Issued
  BY ConstantTypes DEF SourceInv, OutboundTypeOK, SeqNo
<1>2. PICK moved \in Nat :
        /\ next_sequence' = next_sequence + moved
        /\ in_flight' = retained \union (next_sequence .. (next_sequence + moved - 1))
  BY DEF Refilled
<1>3. SUFFICES ASSUME NEW s \in SeqNo, s < next_sequence + moved, s \notin in_flight',
                      NEW r \in in_flight'
               PROVE  s < r + AckBits
  BY <1>2 DEF ReleasedNearby, Issued
<1>4. s \in Nat /\ s < next_sequence /\ s \in Issued /\ s \notin retained
  BY <1>1, <1>2, <1>3 DEF SeqNo, Issued
<1>5. CASE r \in next_sequence .. (next_sequence + moved - 1)
  BY <1>1, <1>4, <1>5
<1>6. CASE r \in retained
  BY <1>4, <1>6 DEF SourceInv, ReleasedNearby
<1> QED
  BY <1>2, <1>3, <1>5, <1>6

\* What an acknowledgement leaves retained is not below its `next`, and what it
\* releases lies within the bitmap above it (acknowledges, core lib.rs).
LEMMA AckReleasesNearby ==
  ASSUME OutboundTypeOK, NEW ack, ack.next \in Nat,
         NEW s \in in_flight, Acknowledges(ack, s),
         NEW r \in in_flight, ~ Acknowledges(ack, r)
  PROVE  s < r + AckBits
<1>1. s \in Nat /\ r \in Nat /\ AckBits \in Nat
  BY ConstantTypes DEF OutboundTypeOK, Issued, SeqNo
<1> QED
  BY <1>1 DEF Acknowledges

\* Acknowledging frames keeps a subset of them, so window and budget still hold.
LEMMA RetainedFits ==
  ASSUME SourceInv, NEW retained \in SUBSET in_flight
  PROVE  /\ Cardinality(retained) <= LocalWindow
         /\ Fits(pending, Cardinality(retained))
<1>1. next_sequence \in SeqNo /\ in_flight \in SUBSET Issued /\ pending \in Nat
  BY DEF SourceInv, OutboundTypeOK
<1>2. IsFiniteSet(in_flight) /\ Cardinality(in_flight) \in Nat
  BY <1>1, IssuedIsFinite
<1>3. IsFiniteSet(retained) /\ Cardinality(retained) <= Cardinality(in_flight)
  BY <1>2, FS_Subset
<1>4. Cardinality(retained) \in Nat
  BY <1>3, FS_CardinalityType
<1>5. Cardinality(in_flight) <= LocalWindow /\ Fits(pending, Cardinality(in_flight))
  BY DEF SourceInv, WindowRespected, BudgetRespected, Fits
<1>6. Cardinality(retained) \in 0 .. Cardinality(in_flight) /\ pending \in 0 .. pending
  BY <1>1, <1>2, <1>3, <1>4
<1>7. Fits(pending, Cardinality(retained))
  BY <1>1, <1>2, <1>5, <1>6, FitsMonotone
<1> QED
  BY <1>2, <1>3, <1>4, <1>5, <1>7, ConstantTypes

\* From the state a call left behind to the invariant.
LEMMA RefilledInv ==
  ASSUME SourceInv, NEW retained \in SUBSET in_flight, Refilled(retained), ReleasedNearby',
         peer_window' \in 0 .. AckBits, input_finished' \in BOOLEAN,
         source' \in Sources
  PROVE  SourceInv'
<1>1. next_sequence \in Nat /\ in_flight \subseteq Issued
  BY DEF SourceInv, OutboundTypeOK, SeqNo
<1>2. PICK moved \in Nat :
        /\ next_sequence' = next_sequence + moved
        /\ in_flight' = retained \union (next_sequence .. (next_sequence + moved - 1))
  BY DEF Refilled
<1>3. in_flight' \subseteq Issued'
  <2>1. SUFFICES ASSUME NEW s \in in_flight'
                 PROVE  s \in SeqNo /\ s < next_sequence + moved
    BY <1>2 DEF Issued
  <2>2. next_sequence + moved \in SeqNo
    BY <1>2 DEF Refilled
  <2>3. CASE s \in retained
    BY <1>1, <1>2, <2>3 DEF Issued, SeqNo
  <2>4. CASE s \in next_sequence .. (next_sequence + moved - 1)
    BY <1>1, <1>2, <2>2, <2>4, ConstantTypes DEF SeqNo
  <2> QED
    BY <1>2, <2>1, <2>3, <2>4
<1>4. OutboundTypeOK'
  BY <1>3 DEF Refilled, OutboundTypeOK
<1>5. SourceTypeOK' /\ WindowRespected' /\ BudgetRespected'
  BY DEF Refilled, SourceTypeOK, WindowRespected, BudgetRespected, Fits
<1> QED
  BY <1>4, <1>5 DEF SourceInv

------------------------------------------------------------------------------
\* The initial state of a body whose peer advertised a legal window.
LEMMA SourceInitInv ==
  ASSUME NEW peer \in 0 .. AckBits, SourceInit(peer)
  PROVE  SourceInv
<1>1. Cardinality({}) = 0
  BY FS_EmptySet
<1>2. OutboundTypeOK /\ SourceTypeOK /\ ReleasedNearby
  <2>1. /\ pending = 0 /\ next_sequence = 0 /\ in_flight = {} /\ unsent = {}
        /\ peer_window = peer /\ input_finished = FALSE /\ outcome = "ok" /\ source = "open"
    BY DEF SourceInit, OutboundInit
  <2>2. next_sequence \in SeqNo /\ pending \in Nat /\ peer_window \in 0 .. AckBits
    BY <2>1, ConstantTypes DEF SeqNo
  <2>3. in_flight \subseteq Issued /\ unsent \subseteq in_flight /\ ReleasedNearby
    BY <2>1 DEF ReleasedNearby
  <2>4. input_finished \in BOOLEAN /\ outcome \in Outcomes /\ SourceTypeOK
    BY <2>1 DEF Outcomes, SourceTypeOK, Sources
  <2> QED
    BY <2>2, <2>3, <2>4 DEF OutboundTypeOK
<1>3. WindowRespected
  BY <1>1, ConstantTypes DEF SourceInit, OutboundInit, WindowRespected
<1>4. BudgetRespected
  BY <1>1, ConstantTypes DEF SourceInit, OutboundInit, BudgetRespected, Buffered
<1> QED
  BY <1>2, <1>3, <1>4 DEF SourceInv

\* A call that queues items, and one that pumps after acknowledging frames.
LEMMA QueueInv ==
  ASSUME SourceInv, NEW count \in Nat, Queue(count),
         peer_window' = peer_window, input_finished' \in BOOLEAN,
         source' \in Sources
  PROVE  SourceInv'
<1>1. Refilled(in_flight)
  BY QueuePost
<1>2. ReleasedNearby'
  BY <1>1, ReleasedStayNearby
<1>3. peer_window' \in 0 .. AckBits
  BY DEF SourceInv, OutboundTypeOK
<1> QED
  BY <1>1, <1>2, <1>3, RefilledInv

\* The same for a call that pumps after releasing frames.
LEMMA PumpInv ==
  ASSUME SourceInv, NEW retained \in SUBSET in_flight, NEW peer \in 0 .. AckBits,
         Pump(pending, retained, peer),
         \A s \in in_flight \ retained, r \in retained : s < r + AckBits,
         peer_window' = peer, UNCHANGED input_finished,
         source' \in Sources
  PROVE  SourceInv' /\ Refilled(retained)
<1>1. OutboundTypeOK /\ pending \in Nat /\ input_finished' \in BOOLEAN
  BY DEF SourceInv, OutboundTypeOK
<1>2. Refilled(retained)
  BY <1>1, RetainedFits, PumpPost
<1>3. ReleasedNearby'
  BY <1>2, ReleasedStayNearby
<1> QED
  BY <1>1, <1>2, <1>3, RefilledInv

\* The invariant is preserved by every operation of the sending loop.
LEMMA PushPartInv ==
  ASSUME SourceInv, NEW released \in Nat, NEW last \in BOOLEAN, PushPart(released, last)
  PROVE  SourceInv'
<1>1. /\ Queue(released) /\ peer_window' = peer_window
      /\ input_finished' \in BOOLEAN
      /\ source' \in Sources
  BY DEF SourceInv, OutboundTypeOK, PushPart, Push, Sources
<1> QED
  BY <1>1, QueueInv

\* finish_input, with its trailing frames.
LEMMA CloseInputInv ==
  ASSUME SourceInv, NEW trailing \in Nat, CloseInput(trailing)
  PROVE  SourceInv'
<1>1. /\ Queue(trailing + 1) /\ peer_window' = peer_window
      /\ source' \in Sources
  BY DEF CloseInput, FinishInput, Sources
<1>2. input_finished' \in BOOLEAN
  BY DEF CloseInput, FinishInput, Fits
<1>3. trailing + 1 \in Nat
  OBVIOUS
<1> QED
  BY <1>1, <1>2, <1>3, QueueInv

\* acknowledge, which releases frames and refills the window.
LEMMA ApplyAckInv ==
  ASSUME SourceInv, NEW ack, ack.next \in Nat, ack.window \in 0 .. AckBits, ApplyAck(ack)
  PROVE  SourceInv' /\ Refilled({s \in in_flight : ~ Acknowledges(ack, s)})
<1> DEFINE retained == {s \in in_flight : ~ Acknowledges(ack, s)}
<1>1. /\ Pump(pending, retained, ack.window) /\ peer_window' = ack.window
      /\ UNCHANGED input_finished
      /\ source' \in Sources
  BY DEF ApplyAck, Acknowledge, Sources
<1>2. \A s \in in_flight \ retained, r \in retained : s < r + AckBits
  BY AckReleasesNearby DEF SourceInv
<1>3. retained \in SUBSET in_flight
  OBVIOUS
<1> HIDE DEF retained
<1>4. SourceInv' /\ Refilled(retained)
  BY <1>1, <1>2, <1>3, PumpInv
<1> QED
  BY <1>4 DEF retained

\* set_peer_window.
LEMMA ApplyPeerWindowInv ==
  ASSUME SourceInv, NEW window \in 0 .. AckBits, ApplyPeerWindow(window)
  PROVE  SourceInv' /\ Refilled(in_flight)
<1>1. /\ Pump(pending, in_flight, window) /\ peer_window' = window
      /\ UNCHANGED input_finished
      /\ source' \in Sources
  BY DEF ApplyPeerWindow, SetPeerWindow, Sources
<1> QED
  BY <1>1, PumpInv

\* take_sendable.
LEMMA DispatchInv ==
  ASSUME SourceInv, NEW due \in SUBSET in_flight, Dispatch(due)
  PROVE  SourceInv'
<1>1. /\ unsent' = {}
      /\ UNCHANGED <<pending, next_sequence, in_flight, peer_window, input_finished,
                     outcome, source>>
  BY DEF Dispatch, TakeSendable
<1>2. OutboundTypeOK'
  BY <1>1 DEF SourceInv, OutboundTypeOK, Issued
<1>3. SourceTypeOK' /\ WindowRespected' /\ ReleasedNearby' /\ BudgetRespected'
  BY <1>1 DEF SourceInv, SourceTypeOK, WindowRespected, ReleasedNearby, BudgetRespected,
     Issued, Buffered
<1> QED
  BY <1>2, <1>3 DEF SourceInv

\* Steps of others, and the end of the transaction.
LEMMA SourceUnchangedInv ==
  ASSUME SourceInv, UNCHANGED outboundVars,
         source' \in Sources
  PROVE  SourceInv'
<1>1. OutboundTypeOK'
  BY DEF SourceInv, OutboundTypeOK, outboundVars, Issued
<1>2. SourceTypeOK' /\ WindowRespected' /\ ReleasedNearby' /\ BudgetRespected'
  BY DEF SourceInv, outboundVars, SourceTypeOK, WindowRespected, ReleasedNearby,
     BudgetRespected, Issued, Buffered
<1> QED
  BY <1>1, <1>2 DEF SourceInv

\* The span: all numbers that are a bitmap width above a retained frame are
\* themselves retained, and there are fewer of them than the window holds.
LEMMA SpanIsBounded ==
  ASSUME SourceInv
  PROVE  SpanBounded
<1>1. SUFFICES ASSUME NEW r \in in_flight
               PROVE  next_sequence < r + AckBits + LocalWindow
  BY DEF SpanBounded
<1>2. /\ next_sequence \in SeqNo /\ next_sequence \in Nat /\ in_flight \in SUBSET Issued
      /\ AckBits \in Nat /\ AckBits > 0 /\ LocalWindow \in Nat /\ r \in Nat /\ MaxSeq \in Nat
      /\ next_sequence <= MaxSeq
  BY ConstantTypes, AckWindowAssumption DEF SourceInv, OutboundTypeOK, SeqNo, Issued
<1> DEFINE far == (r + AckBits) .. (next_sequence - 1)
<1>3. far \subseteq in_flight \ {r}
  <2>1. SUFFICES ASSUME NEW s \in far
                 PROVE  s \in in_flight /\ s # r
    OBVIOUS
  <2>2. s \in Nat /\ s >= r + AckBits /\ s < next_sequence
    BY <1>2, <2>1
  <2>3. s \in Issued
    BY <1>2, <2>2 DEF Issued, SeqNo
  <2>4. ~ (s < r + AckBits)
    BY <1>2, <2>2
  <2> QED
    BY <1>2, <2>2, <2>3, <2>4 DEF SourceInv, ReleasedNearby
<1>4. IsFiniteSet(in_flight) /\ Cardinality(in_flight) \in Nat
  BY <1>2, IssuedIsFinite
<1>5. IsFiniteSet(in_flight \ {r}) /\ Cardinality(in_flight \ {r}) = Cardinality(in_flight) - 1
  BY <1>1, <1>4, FS_RemoveElement
<1>6. Cardinality(far) <= Cardinality(in_flight \ {r})
  BY <1>3, <1>5, FS_Subset
<1>7. Cardinality(far) = IF r + AckBits > next_sequence - 1 THEN 0
                         ELSE next_sequence - 1 - (r + AckBits) + 1
  BY <1>2, FS_Interval
<1>8. Cardinality(in_flight) <= LocalWindow
  BY DEF SourceInv, WindowRespected
<1>9. 1 <= LocalWindow
  BY OutboundAssumption
<1> HIDE DEF far
<1> QED
  BY <1>2, <1>4, <1>5, <1>6, <1>7, <1>8, <1>9

------------------------------------------------------------------------------
\* A call to pump that reports success has emptied the queue or filled the window
\* (the loop of pump, outgoing.rs).
LEMMA PumpFills ==
  ASSUME SourceInv, NEW items \in Nat, NEW retained \in SUBSET in_flight,
         NEW peer \in 0 .. AckBits, Pump(items, retained, peer), outcome' = "ok"
  PROVE  pending' = 0 \/ Cardinality(in_flight') >= EffectiveWindow(peer)
<1> DEFINE space == EffectiveWindow(peer) - Cardinality(retained)
           room == IF space <= 0 THEN 0 ELSE IF items < space THEN items ELSE space
<1>1. next_sequence \in SeqNo /\ retained \in SUBSET Issued /\ Cardinality(retained) \in Nat
  <2>1. next_sequence \in SeqNo /\ retained \in SUBSET Issued
    BY DEF SourceInv, OutboundTypeOK
  <2> QED
    BY <2>1, IssuedIsFinite
<1>2. EffectiveWindow(peer) \in Nat
  BY ConstantTypes DEF EffectiveWindow
<1>3. /\ in_flight' = retained \union (next_sequence .. (next_sequence + room - 1))
      /\ pending' = items - room
  BY DEF Pump
<1>4. room \in Nat /\ (room = items \/ Cardinality(retained) + room >= EffectiveWindow(peer))
  BY <1>1, <1>2
<1> HIDE DEF room
<1>5. Cardinality(in_flight') = Cardinality(retained) + room
  BY <1>1, <1>3, <1>4, CountWithNew
<1> QED
  BY <1>3, <1>4, <1>5

\* Every operation of the loop leaves the sender work conserving.
LEMMA QueueConserves ==
  ASSUME SourceInv, NEW count \in Nat, Queue(count), peer_window' = peer_window
  PROVE  WorkConserving'
<1>1. /\ pending + count \in Nat /\ peer_window \in 0 .. AckBits /\ in_flight \in SUBSET in_flight
  BY DEF SourceInv, OutboundTypeOK
<1>2. outcome' = "ok" => Pump(pending + count, in_flight, peer_window)
  BY DEF Queue
<1>3. outcome' = "ok" => pending' = 0 \/ Cardinality(in_flight') >= EffectiveWindow(peer_window)
  BY <1>1, <1>2, PumpFills
<1> QED
  BY <1>3 DEF WorkConserving, EffectiveWindow

LEMMA PumpConserves ==
  ASSUME SourceInv, NEW retained \in SUBSET in_flight, NEW peer \in 0 .. AckBits,
         Pump(pending, retained, peer), peer_window' = peer
  PROVE  WorkConserving'
<1>1. pending \in Nat
  BY DEF SourceInv, OutboundTypeOK
<1>2. outcome' = "ok" => pending' = 0 \/ Cardinality(in_flight') >= EffectiveWindow(peer)
  BY <1>1, PumpFills
<1> QED
  BY <1>2 DEF WorkConserving, EffectiveWindow

LEMMA SameConserves ==
  ASSUME WorkConserving,
         UNCHANGED <<pending, in_flight, peer_window, outcome>>,
         source' # "failed" => source # "failed"
  PROVE  WorkConserving'
BY DEF WorkConserving, EffectiveWindow

==============================================================================
