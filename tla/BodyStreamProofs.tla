---------------------------- MODULE BodyStreamProofs ----------------------------
(***************************************************************************)
(* One body transfer over a network that loses, repeats and reorders: what *)
(* the sender's completion means, that the transfer implements the         *)
(* abstract stream, for every window, bitmap, budget and body length, and  *)
(* which out-of-order budget the receiver needs never to refuse a frame.   *)
(***************************************************************************)
EXTENDS BodyStream, BodySourceProofs, SequenceTheorems

\* A data frame: issued, and not the End frame.
Piece(s) == s \in Issued /\ ~ IsEnd(s)

\* The body fits its bound, and a finished one has its End item.
LengthInv ==
  /\ Queued \in 0 .. MaxItems
  /\ input_finished => Queued >= 1

\* What the receiver recorded was issued, the End frame only when it completed;
\* what it holds or released are pieces; what it delivered is a prefix of them.
ReceiverInv ==
  /\ InboundTypeOK
  /\ \A s \in SeqNo : Recorded(s) => s \in Issued /\ (IsEnd(s) => completed)
  /\ \A s \in SeqNo : s \in held \/ s < next_delivery => Piece(s)
  /\ pending_end # None => pending_end \in Issued /\ IsEnd(pending_end)
  /\ Len(delivered) <= next_delivery
  /\ decoder = "live" => Len(delivered) = next_delivery
  /\ DeliveredInOrder
  /\ completed => decoder = "taken" /\ pending_end # None /\ Len(delivered) = pending_end

\* Messages are true for ever: a frame's End mark, and what an acknowledgement claims.
ChannelInv ==
  /\ data_net \subseteq Frame
  /\ ack_net \subseteq AckMessage
  /\ \A f \in data_net : f.sequence \in Issued /\ (f.end <=> IsEnd(f.sequence))
  /\ \A ack \in ack_net, s \in SeqNo : Acknowledges(ack, s) => Recorded(s)

LoopInv == sink \in {"open", "failed", "left"} /\ reopened \in BOOLEAN

\* The inductive invariant of the transfer.
StreamInv ==
  /\ SourceInv
  /\ LengthInv
  /\ ReceiverInv
  /\ ChannelInv
  /\ ReleasedIsRecorded
  /\ LoopInv

------------------------------------------------------------------------------
(* The sender's side                                                       *)

\* What a step of the sender does to the numbering of the body.
Grew ==
  \E total \in 0 .. MaxItems :
    /\ Queued' = total
    /\ next_sequence' \in Nat
    /\ next_sequence <= next_sequence'
    /\ next_sequence' <= total
    /\ Queued <= total
    /\ input_finished' \in BOOLEAN
    /\ input_finished => input_finished' /\ total = Queued
    /\ ~ input_finished /\ input_finished' => Queued < total

\* The constants that bound the body and the advertised window.
LEMMA SpaceTypes ==
  /\ MaxItems \in Nat /\ MaxItems <= MaxSeq /\ MaxItems > 0
  /\ Capacity \in Nat /\ Capacity <= AckBits
  BY SourceAssumption, SpaceAssumption, InboundAssumption, ConstantTypes

\* What the sender's invariant says of its counters.
LEMMA SenderTypes ==
  ASSUME SourceInv
  PROVE  /\ next_sequence \in Nat /\ next_sequence \in SeqNo /\ next_sequence <= MaxSeq
         /\ pending \in Nat /\ Queued = next_sequence + pending
         /\ Queued \in Nat /\ next_sequence <= Queued
         /\ in_flight \subseteq Issued /\ input_finished \in BOOLEAN
<1>1. /\ next_sequence \in SeqNo /\ pending \in Nat /\ in_flight \subseteq Issued
      /\ input_finished \in BOOLEAN
  BY DEF SourceInv, OutboundTypeOK
<1>2. next_sequence \in Nat /\ next_sequence <= MaxSeq
  BY <1>1, ConstantTypes DEF SeqNo
<1>3. Queued = next_sequence + pending
  BY DEF Queued
<1> QED
  BY <1>1, <1>2, <1>3

\* A body within the sequence space never meets its end: pump moves items and
\* loses none (pump, outgoing.rs).
LEMMA PumpTotal ==
  ASSUME SourceInv, NEW items \in Nat, NEW retained \in SUBSET in_flight, NEW peer \in 0 .. AckBits,
         next_sequence + items <= MaxItems,
         Pump(items, retained, peer)
  PROVE  /\ Queued' = next_sequence + items
         /\ next_sequence' \in Nat
         /\ next_sequence <= next_sequence'
         /\ next_sequence' <= next_sequence + items
<1> DEFINE space == EffectiveWindow(peer) - Cardinality(retained)
           room == IF space <= 0 THEN 0 ELSE IF items < space THEN items ELSE space
<1>1. next_sequence \in Nat /\ MaxItems \in Nat /\ MaxSeq \in Nat /\ MaxItems <= MaxSeq
  BY SenderTypes, SpaceTypes, ConstantTypes
<1>2. room \in 0 .. items
  <2>1. retained \in SUBSET Issued /\ next_sequence \in SeqNo
    BY SenderTypes
  <2>2. Cardinality(retained) \in Nat
    BY <2>1, IssuedIsFinite
  <2>3. EffectiveWindow(peer) \in Nat
    BY ConstantTypes DEF EffectiveWindow
  <2> QED
    BY <2>2, <2>3
<1> HIDE DEF room
<1>3. PICK moved \in 0 .. room :
        /\ next_sequence' = next_sequence + moved
        /\ \/ pending' = items - moved
           \/ moved < room /\ next_sequence + moved = MaxSeq
  BY DEF Pump, room
<1>4. pending' = items - moved
  BY <1>1, <1>2, <1>3
<1>5. moved \in Nat /\ moved <= items
  BY <1>2, <1>3
<1>6. Queued' = next_sequence' + pending'
  BY DEF Queued
<1>7. Queued' = (next_sequence + moved) + (items - moved)
  BY <1>3, <1>4, <1>6, Zenon
<1>8. (next_sequence + moved) + (items - moved) = next_sequence + items
  BY <1>1, <1>5
<1> QED
  BY <1>1, <1>3, <1>5, <1>7, <1>8

\* Queueing items: all of them, or some when the budget is met.
LEMMA QueueTotal ==
  ASSUME SourceInv, NEW count \in Nat, Queued + count <= MaxItems, Queue(count)
  PROVE  \E total \in 0 .. MaxItems :
           /\ Queued' = total
           /\ next_sequence' \in Nat
           /\ next_sequence <= next_sequence'
           /\ next_sequence' <= total
           /\ Queued <= total
           /\ Fits(pending + count, Cardinality(in_flight)) => total = Queued + count
<1>1. /\ next_sequence \in Nat /\ pending \in Nat /\ Queued = next_sequence + pending
      /\ MaxItems \in Nat /\ peer_window \in 0 .. AckBits
  BY SenderTypes, SpaceTypes DEF SourceInv, OutboundTypeOK
<1>2. CASE /\ Fits(pending + count, Cardinality(in_flight))
           /\ Pump(pending + count, in_flight, peer_window)
  <2>1. pending + count \in Nat /\ next_sequence + (pending + count) <= MaxItems
    BY <1>1
  <2>2. /\ Queued' = next_sequence + (pending + count)
        /\ next_sequence' \in Nat
        /\ next_sequence <= next_sequence'
        /\ next_sequence' <= next_sequence + (pending + count)
    BY <1>1, <1>2, <2>1, PumpTotal
  <2>3. next_sequence + (pending + count) = Queued + count /\ Queued + count \in 0 .. MaxItems
    BY <1>1
  <2>4. Queued <= Queued + count
    BY <1>1
  <2> QED
    BY <2>2, <2>3, <2>4
<1>3. CASE \E fit \in 0 .. (count - 1) :
             /\ ~ Fits(pending + fit + 1, Cardinality(in_flight))
             /\ pending' = pending + fit
             /\ UNCHANGED next_sequence
  <2>1. PICK fit \in 0 .. (count - 1) :
             /\ ~ Fits(pending + fit + 1, Cardinality(in_flight))
             /\ pending' = pending + fit
             /\ UNCHANGED next_sequence
    BY <1>3
  <2>2. Queued' = next_sequence + (pending + fit)
    BY <2>1 DEF Queued
  <2>3. /\ next_sequence + (pending + fit) = Queued + fit
        /\ Queued + fit \in 0 .. MaxItems
        /\ Queued <= Queued + fit /\ next_sequence <= Queued + fit
    BY <1>1
  <2>4. ~ Fits(pending + count, Cardinality(in_flight))
    <3>1. Cardinality(in_flight) \in Nat
      BY SenderTypes, IssuedIsFinite
    <3>2. /\ pending + count \in Nat
          /\ pending + fit + 1 \in 0 .. (pending + count)
          /\ Cardinality(in_flight) \in 0 .. Cardinality(in_flight)
      BY <1>1, <3>1
    <3> QED
      BY <2>1, <3>1, <3>2, FitsMonotone
  <2> QED
    BY <1>1, <2>1, <2>2, <2>3, <2>4
<1> QED
  BY <1>2, <1>3 DEF Queue

\* The three kinds of calls that change a sender.
LEMMA PushGrew ==
  ASSUME SourceInv, LengthInv, NEW released \in Nat, NEW last \in BOOLEAN, PushPart(released, last)
  PROVE  Grew
<1>1. /\ Queue(released) /\ Queued + released < MaxItems
      /\ input_finished = FALSE /\ input_finished' = FALSE
  BY SenderTypes DEF PushPart, Push
<1>2. Queued + released <= MaxItems
  BY <1>1, SenderTypes, SpaceTypes
<1> QED
  BY <1>1, <1>2, QueueTotal DEF Grew

\* finish_input grows the body by its trailing frames and its End item.
LEMMA CloseGrew ==
  ASSUME SourceInv, LengthInv, NEW trailing \in Nat, CloseInput(trailing)
  PROVE  Grew
<1>1. /\ Queue(trailing + 1) /\ Queued + trailing < MaxItems
      /\ input_finished = FALSE
      /\ input_finished' = Fits(pending + trailing + 1, Cardinality(in_flight))
  BY SenderTypes DEF CloseInput, FinishInput
<1>2. /\ Queued + (trailing + 1) <= MaxItems /\ trailing + 1 \in Nat
      /\ pending + (trailing + 1) = pending + trailing + 1
      /\ Queued < Queued + (trailing + 1)
  BY <1>1, SenderTypes, SpaceTypes
<1>3. PICK total \in 0 .. MaxItems :
        /\ Queued' = total
        /\ next_sequence' \in Nat
        /\ next_sequence <= next_sequence'
        /\ next_sequence' <= total
        /\ Queued <= total
        /\ Fits(pending + (trailing + 1), Cardinality(in_flight)) => total = Queued + (trailing + 1)
  BY <1>1, <1>2, QueueTotal
<1>4. input_finished' \in BOOLEAN
  BY <1>1 DEF Fits
<1>5. input_finished' => Queued < total
  BY <1>1, <1>2, <1>3
<1> QED
  BY <1>1, <1>3, <1>4, <1>5 DEF Grew

\* An acknowledgement or a window update moves items and adds none.
LEMMA RefillGrew ==
  ASSUME SourceInv, LengthInv, NEW retained \in SUBSET in_flight, NEW peer \in 0 .. AckBits,
         Pump(pending, retained, peer), UNCHANGED input_finished
  PROVE  Grew
<1>1. /\ next_sequence \in Nat /\ pending \in Nat /\ Queued = next_sequence + pending
      /\ input_finished \in BOOLEAN
      /\ Queued \in 0 .. MaxItems /\ MaxItems \in Nat
  BY SenderTypes, SpaceTypes DEF LengthInv
<1>2. /\ Queued' = Queued
      /\ next_sequence' \in Nat
      /\ next_sequence <= next_sequence'
      /\ next_sequence' <= Queued
  BY <1>1, PumpTotal
<1>3. Queued <= Queued
  BY <1>1
<1> QED
  BY <1>1, <1>2, <1>3 DEF Grew

\* A sender that does not change its numbering.
LEMMA SameGrew ==
  ASSUME SourceInv, LengthInv, UNCHANGED <<next_sequence, pending, input_finished>>
  PROVE  Grew
<1>1. /\ next_sequence \in Nat /\ pending \in Nat /\ Queued = next_sequence + pending
      /\ input_finished \in BOOLEAN
      /\ Queued \in 0 .. MaxItems /\ MaxItems \in Nat
  BY SenderTypes, SpaceTypes DEF LengthInv
<1>2. Queued' = Queued
  BY DEF Queued
<1> QED
  BY <1>1, <1>2 DEF Grew

\* Growth keeps the number and the kind of every issued frame.
LEMMA GrewKeepsFrames ==
  ASSUME SourceInv, LengthInv, Grew
  PROVE  /\ LengthInv'
         /\ Issued \subseteq Issued'
         /\ \A s \in Issued : IsEnd(s)' <=> IsEnd(s)
         /\ \A s \in Issued : Piece(s) => Piece(s)'
<1>1. /\ next_sequence \in Nat /\ Queued \in Nat /\ next_sequence <= Queued
      /\ input_finished \in BOOLEAN /\ MaxItems \in Nat
      /\ input_finished => Queued >= 1
  BY SenderTypes, SpaceTypes DEF LengthInv
<1>2. PICK total \in 0 .. MaxItems :
        /\ Queued' = total
        /\ next_sequence' \in Nat
        /\ next_sequence <= next_sequence'
        /\ next_sequence' <= total
        /\ Queued <= total
        /\ input_finished' \in BOOLEAN
        /\ input_finished => input_finished' /\ total = Queued
        /\ ~ input_finished /\ input_finished' => Queued < total
  BY DEF Grew
<1>3. LengthInv'
  <2>1. Queued' \in 0 .. MaxItems
    BY <1>2
  <2>2. input_finished' => total >= 1
    BY <1>1, <1>2
  <2>3. input_finished' => Queued' >= 1
    BY <1>2, <2>2
  <2> QED
    BY <2>1, <2>3 DEF LengthInv
<1>4. \A s \in Issued : s \in SeqNo /\ s \in Nat /\ s < next_sequence
  BY DEF Issued, SeqNo
<1>5. Issued \subseteq Issued'
  <2>1. SUFFICES ASSUME NEW s \in Issued PROVE s < next_sequence'
    BY <1>4 DEF Issued
  <2>2. s \in Nat /\ s < next_sequence
    BY <1>4
  <2> QED
    BY <1>1, <1>2, <2>2
<1>6. \A s \in Issued : IsEnd(s)' <=> IsEnd(s)
  <2>1. SUFFICES ASSUME NEW s \in Issued PROVE IsEnd(s)' <=> IsEnd(s)
    OBVIOUS
  <2>2. s \in Nat /\ s + 1 <= next_sequence
    BY <1>1, <1>4
  <2>3. IsEnd(s)' <=> input_finished' /\ s + 1 = total
    BY <1>2 DEF IsEnd
  <2>4. CASE input_finished
    BY <1>2, <2>3, <2>4 DEF IsEnd
  <2>5. CASE ~ input_finished /\ input_finished'
    <3>1. s + 1 # total
      BY <1>1, <1>2, <2>2, <2>5
    <3> QED
      BY <2>3, <2>5, <3>1 DEF IsEnd
  <2>6. CASE ~ input_finished /\ ~ input_finished'
    BY <2>3, <2>6 DEF IsEnd
  <2> QED
    BY <2>4, <2>5, <2>6
<1> QED
  BY <1>3, <1>5, <1>6 DEF Piece

------------------------------------------------------------------------------
(* The receiver's side                                                     *)

\* A window given by its set and prefix has recorded s.
RecordedIn(s, have, from) == s < from \/ s \in have

\* Consecutive numbers as a sequence, and two such runs put together.
LEMMA NumbersSeq ==
  ASSUME NEW first \in Nat, NEW beyond \in Nat, first <= beyond, NEW S,
         first .. (beyond - 1) \subseteq S
  PROVE  /\ Numbers(first, beyond) \in Seq(S)
         /\ Len(Numbers(first, beyond)) = beyond - first
         /\ \A i \in 1 .. (beyond - first) : Numbers(first, beyond)[i] = first + i - 1
<1> DEFINE count == beyond - first
<1>1. count \in Nat
  OBVIOUS
<1>2. ASSUME NEW i \in 1 .. count PROVE first + i - 1 \in S
  <2>1. first + i - 1 \in first .. (beyond - 1)
    OBVIOUS
  <2> QED
    BY <2>1
<1>3. Numbers(first, beyond) = [i \in 1 .. count |-> first + i - 1]
  BY DEF Numbers
<1> HIDE DEF count
<1>4. Numbers(first, beyond) \in [1 .. count -> S]
  BY <1>2, <1>3
<1>5. Numbers(first, beyond) \in Seq(S)
  BY <1>1, <1>4, SeqDef
<1>6. DOMAIN Numbers(first, beyond) = 1 .. count
  BY <1>3
<1>7. Len(Numbers(first, beyond)) = count
  BY <1>1, <1>5, <1>6, LenProperties
<1>8. \A i \in 1 .. count : Numbers(first, beyond)[i] = first + i - 1
  BY <1>3
<1> QED
  BY <1>5, <1>8, <1>7 DEF count

\* Two adjacent runs are one run.
LEMMA NumbersConcat ==
  ASSUME NEW mid \in Nat, NEW beyond \in Nat, mid <= beyond
  PROVE  Numbers(0, mid) \o Numbers(mid, beyond) = Numbers(0, beyond)
<1> DEFINE a == Numbers(0, mid)
           b == Numbers(mid, beyond)
           c == Numbers(0, beyond)
<1>1. /\ 0 .. (mid - 1) \subseteq Nat /\ mid .. (beyond - 1) \subseteq Nat
      /\ 0 .. (beyond - 1) \subseteq Nat /\ 0 \in Nat /\ 0 <= mid /\ 0 <= beyond
  OBVIOUS
<1>2. /\ a \in Seq(Nat) /\ Len(a) = mid - 0 /\ \A i \in 1 .. (mid - 0) : a[i] = 0 + i - 1
      /\ b \in Seq(Nat) /\ Len(b) = beyond - mid /\ \A i \in 1 .. (beyond - mid) : b[i] = mid + i - 1
      /\ c \in Seq(Nat) /\ Len(c) = beyond - 0 /\ \A i \in 1 .. (beyond - 0) : c[i] = 0 + i - 1
  BY <1>1, NumbersSeq, Zenon
<1> HIDE DEF a, b, c
<1>3. a \in Seq(Nat) /\ Len(a) = mid /\ \A i \in 1 .. mid : a[i] = i - 1
  BY <1>2
<1>4. b \in Seq(Nat) /\ Len(b) = beyond - mid /\ \A i \in 1 .. (beyond - mid) : b[i] = mid + i - 1
  BY <1>2
<1>5. c \in Seq(Nat) /\ Len(c) = beyond /\ \A i \in 1 .. beyond : c[i] = i - 1
  BY <1>2
<1>6. /\ a \o b \in Seq(Nat)
      /\ Len(a \o b) = Len(a) + Len(b)
      /\ \A i \in 1 .. (Len(a) + Len(b)) : (a \o b)[i] = IF i <= Len(a) THEN a[i] ELSE b[i - Len(a)]
  BY <1>3, <1>4, ConcatProperties
<1>7. Len(a \o b) = Len(c)
  BY <1>3, <1>4, <1>5, <1>6
<1>8. ASSUME NEW i \in 1 .. Len(a \o b) PROVE (a \o b)[i] = c[i]
  <2>1. i \in 1 .. beyond /\ c[i] = i - 1
    BY <1>5, <1>7, <1>8
  <2>2. CASE i <= mid
    BY <1>3, <1>4, <1>6, <2>1, <2>2
  <2>3. CASE i > mid
    <3>1. i - mid \in 1 .. (beyond - mid) /\ mid + (i - mid) - 1 = i - 1
      BY <2>1, <2>3
    <3> QED
      BY <1>3, <1>4, <1>6, <2>1, <2>3, <3>1
  <2> QED
    BY <2>1, <2>2, <2>3
<1>9. a \o b = c
  BY <1>5, <1>6, <1>7, <1>8, SeqEqual
<1> QED
  BY <1>9 DEF a, b, c

\* A run of issued numbers ends within the sequence space, so that the
\* saturating addition never saturates (record and push, core lib.rs).
LEMMA GapIssued ==
  ASSUME SourceInv, NEW have \in SUBSET Issued, NEW from \in SeqNo, from <= next_sequence,
         NEW gap \in from .. (MaxSeq + 1), FirstGap(have, from, gap)
  PROVE  gap \in SeqNo /\ gap \in Nat /\ gap <= next_sequence /\ Saturate(gap) = gap
<1>1. /\ next_sequence \in Nat /\ next_sequence <= MaxSeq /\ MaxSeq \in Nat /\ from \in Nat
      /\ \A t \in Issued : t < next_sequence
  BY SenderTypes, ConstantTypes DEF SeqNo, Issued
<1>2. gap \in Nat /\ gap >= from
  BY <1>1
<1>3. gap <= next_sequence
  <2>1. SUFFICES ASSUME gap > next_sequence PROVE FALSE
    BY <1>1, <1>2
  <2>2. gap - 1 \in from .. (gap - 1)
    BY <1>1, <1>2, <2>1
  <2>3. gap - 1 \in Issued
    BY <2>2 DEF FirstGap
  <2> QED
    BY <1>1, <1>2, <2>1, <2>3
<1>4. gap <= MaxSeq /\ ~ (gap > MaxSeq)
  BY <1>1, <1>2, <1>3
<1> QED
  BY <1>1, <1>2, <1>3, <1>4 DEF SeqNo, Saturate

\* A prefix of issued numbers ends with the last of them at the latest.
LEMMA PrefixIssued ==
  ASSUME SourceInv, NEW from \in SeqNo, \A t \in SeqNo : t < from => t \in Issued
  PROVE  from <= next_sequence
<1>1. from \in Nat /\ next_sequence \in Nat
  BY SenderTypes DEF SeqNo
<1>2. CASE from = 0
  BY <1>1, <1>2
<1>3. CASE from > 0
  <2>1. from - 1 \in SeqNo /\ from - 1 < from
    BY <1>1, <1>3, ConstantTypes DEF SeqNo
  <2>2. from - 1 < next_sequence
    BY <2>1 DEF Issued
  <2> QED
    BY <1>1, <2>2
<1> QED
  BY <1>1, <1>2, <1>3

\* Recording one more issued number adds it and forgets none.
LEMMA RecordPost ==
  ASSUME SourceInv, NEW have \in SUBSET SeqNo, NEW from \in SeqNo,
         \A t \in SeqNo : RecordedIn(t, have, from) => t \in Issued,
         NEW s \in Issued, NEW gap \in from .. (MaxSeq + 1),
         FirstGap(have \union {s}, from, gap)
  PROVE  /\ Saturate(gap) \in SeqNo
         /\ (have \union {s}) \ (from .. (gap - 1)) \in SUBSET SeqNo
         /\ \A t \in SeqNo :
              RecordedIn(t, (have \union {s}) \ (from .. (gap - 1)), Saturate(gap))
                <=> RecordedIn(t, have, from) \/ t = s
<1>1. s \in SeqNo /\ have \union {s} \in SUBSET Issued
  BY DEF RecordedIn, Issued
<1>2. from \in Nat /\ next_sequence \in Nat
  BY SenderTypes DEF SeqNo
<1>3. from <= next_sequence
  BY PrefixIssued DEF RecordedIn
<1>4. gap \in SeqNo /\ gap \in Nat /\ Saturate(gap) = gap
  BY <1>1, <1>3, GapIssued
<1>5. ASSUME NEW t \in SeqNo
      PROVE  RecordedIn(t, (have \union {s}) \ (from .. (gap - 1)), gap)
               <=> RecordedIn(t, have, from) \/ t = s
  <2>1. t \in Nat /\ gap >= from /\ (t \in from .. (gap - 1) => t \in have \union {s})
    BY <1>2, <1>4 DEF SeqNo, FirstGap
  <2> QED
    BY <1>2, <1>4, <2>1 DEF RecordedIn
<1> QED
  BY <1>1, <1>4, <1>5

\* try_finish records the End frame at most, and only when it completes a body
\* whose decoder consumed everything before it (incoming.rs).
LEMMA TryFinishPost ==
  ASSUME SourceInv, NEW have \in SUBSET SeqNo, NEW contiguous \in SeqNo,
         \A t \in SeqNo : RecordedIn(t, have, contiguous) => t \in Issued,
         pending_end' \in Issued \union {None},
         completed = FALSE, decoder \in {"live", "taken"},
         TryFinish(have, contiguous)
  PROVE  /\ received' \subseteq SeqNo /\ next_contiguous' \in SeqNo
         /\ decoder' \in {"live", "taken"} /\ completed' \in BOOLEAN /\ result' \in Results
         /\ decoder' = "live" => decoder = "live"
         /\ \A t \in SeqNo : RecordedIn(t, have, contiguous) => Recorded(t)'
         /\ \A t \in SeqNo : Recorded(t)' =>
              RecordedIn(t, have, contiguous) \/ (completed' /\ t = pending_end')
         /\ completed' => /\ decoder = "live" /\ decoder' = "taken"
                          /\ pending_end' # None /\ next_delivery' = pending_end'
<1> DEFINE due == pending_end' # None /\ contiguous = pending_end'
           verified == due /\ decoder = "live" /\ Verified(pending_end')
<1>1. /\ IF verified THEN RecordInto(pending_end', have, contiguous)
                      ELSE received' = have /\ next_contiguous' = contiguous
      /\ decoder' = IF due THEN "taken" ELSE decoder
      /\ completed' = verified
      /\ result' = IF ~ due \/ verified THEN "ok"
                   ELSE IF decoder = "taken" THEN "AlreadyFinished" ELSE "Integrity"
  BY DEF TryFinish
<1>2. verified => due /\ decoder = "live" /\ next_delivery' = pending_end'
  BY DEF Verified
<1>3. due => pending_end' # None
  OBVIOUS
<1>4. verified \in BOOLEAN
  BY DEF Verified
<1> HIDE DEF due, verified
<1>5. /\ decoder' \in {"live", "taken"} /\ completed' \in BOOLEAN /\ result' \in Results
      /\ decoder' = "live" => decoder = "live"
  BY <1>1, <1>4 DEF Results
<1>6. completed' => /\ decoder = "live" /\ decoder' = "taken"
                   /\ pending_end' # None /\ next_delivery' = pending_end'
  BY <1>1, <1>2, <1>3
<1>7. CASE verified
  <2>1. PICK gap \in contiguous .. (MaxSeq + 1) :
          /\ FirstGap(have \union {pending_end'}, contiguous, gap)
          /\ received' = (have \union {pending_end'}) \ (contiguous .. (gap - 1))
          /\ next_contiguous' = Saturate(gap)
    BY <1>1, <1>7 DEF RecordInto
  <2>2. pending_end' \in Issued
    BY <1>2, <1>3, <1>7
  <2>3. PICK end \in Issued : end = pending_end'
    BY <2>2
  <2>4. /\ Saturate(gap) \in SeqNo
        /\ (have \union {end}) \ (contiguous .. (gap - 1)) \in SUBSET SeqNo
        /\ \A t \in SeqNo :
             RecordedIn(t, (have \union {end}) \ (contiguous .. (gap - 1)), Saturate(gap))
               <=> RecordedIn(t, have, contiguous) \/ t = end
    BY <2>1, <2>3, RecordPost
  <2>5. received' = (have \union {end}) \ (contiguous .. (gap - 1)) /\ next_contiguous' = Saturate(gap)
    BY <2>1, <2>3
  <2>6. \A t \in SeqNo : Recorded(t)' <=> RecordedIn(t, have, contiguous) \/ t = pending_end'
    BY <2>3, <2>4, <2>5 DEF Recorded, RecordedIn
  <2>7. received' \subseteq SeqNo /\ next_contiguous' \in SeqNo
    BY <2>4, <2>5
  <2>8. completed'
    BY <1>1, <1>7
  <2>9. /\ \A t \in SeqNo : RecordedIn(t, have, contiguous) => Recorded(t)'
        /\ \A t \in SeqNo : Recorded(t)' =>
             RecordedIn(t, have, contiguous) \/ (completed' /\ t = pending_end')
    BY <2>6, <2>8, Zenon
  <2> QED
    BY <1>5, <1>6, <2>7, <2>9, Zenon
<1>8. CASE ~ verified
  <2>1. received' = have /\ next_contiguous' = contiguous
    BY <1>1, <1>8
  <2>2. \A t \in SeqNo : Recorded(t)' <=> RecordedIn(t, have, contiguous)
    BY <2>1 DEF Recorded, RecordedIn
  <2>3. received' \subseteq SeqNo /\ next_contiguous' \in SeqNo
    BY <2>1
  <2>4. /\ \A t \in SeqNo : RecordedIn(t, have, contiguous) => Recorded(t)'
        /\ \A t \in SeqNo : Recorded(t)' =>
             RecordedIn(t, have, contiguous) \/ (completed' /\ t = pending_end')
    BY <2>2, Zenon
  <2> QED
    BY <1>5, <1>6, <2>3, <2>4, Zenon
<1> QED
  BY <1>7, <1>8

\* What a receive hands to the decoder continues what it consumed before.
Extends ==
  \E upto \in Nat :
    /\ Len(delivered) <= upto /\ upto <= next_delivery'
    /\ Len(delivered') = upto
    /\ delivered' \in Seq(SeqNo)
    /\ delivered' = Numbers(0, upto)
    /\ delivered' = delivered \o Numbers(Len(delivered), upto)

\* Delivering the run that follows what was delivered keeps the order.
LEMMA DeliverRun ==
  ASSUME delivered \in Seq(SeqNo), DeliveredInOrder,
         NEW upto \in Nat, Len(delivered) <= upto, upto <= MaxSeq + 1,
         delivered' = delivered \o Numbers(Len(delivered), upto)
  PROVE  /\ Len(delivered') = upto /\ delivered' \in Seq(SeqNo)
         /\ delivered' = Numbers(0, upto)
<1>1. PICK mid \in Nat : mid = Len(delivered)
  BY LenProperties
<1>2. delivered = Numbers(0, mid) /\ mid <= upto
  BY <1>1 DEF DeliveredInOrder
<1>3. delivered' = Numbers(0, mid) \o Numbers(mid, upto)
  BY <1>1, <1>2, Zenon
<1>4. delivered' = Numbers(0, upto)
  BY <1>2, <1>3, NumbersConcat
<1>5. 0 .. (upto - 1) \subseteq SeqNo /\ 0 \in Nat /\ 0 <= upto
  BY ConstantTypes DEF SeqNo
<1>6. Numbers(0, upto) \in Seq(SeqNo) /\ Len(Numbers(0, upto)) = upto - 0
  BY <1>5, NumbersSeq, Zenon
<1> QED
  BY <1>4, <1>6

\* A receive that hands nothing to the decoder.
LEMMA SameExtends ==
  ASSUME delivered \in Seq(SeqNo), DeliveredInOrder, UNCHANGED delivered,
         Len(delivered) <= next_delivery'
  PROVE  Extends
<1>1. PICK upto \in Nat : upto = Len(delivered)
  BY LenProperties
<1>2. delivered = Numbers(0, upto)
  BY <1>1 DEF DeliveredInOrder
<1>3. Numbers(upto, upto) = << >>
  <2>1. 1 .. (upto - upto) = {}
    BY <1>1
  <2> QED
    BY <2>1 DEF Numbers
<1>4. delivered \o << >> = delivered
  BY ConcatEmptySeq
<1>5. delivered = delivered \o Numbers(upto, upto)
  BY <1>3, <1>4
<1>6. upto <= upto
  BY <1>1
<1> QED
  BY <1>1, <1>2, <1>5, <1>6 DEF Extends

\* The payloads that leave the Reassembler are the next pieces of the body.
LEMMA ReleasePost ==
  ASSUME SourceInv, ReceiverInv, NEW s, Piece(s), Release(s), UNCHANGED sourceVars
  PROVE  /\ held' \subseteq SeqNo /\ next_delivery' \in SeqNo
         /\ \A t \in SeqNo : t \in held' \/ t < next_delivery' => Piece(t)
         /\ next_delivery <= next_delivery'
         /\ decoder = "live" => Len(delivered') = next_delivery'
         /\ Extends
<1>1. /\ held \subseteq SeqNo /\ next_delivery \in SeqNo /\ next_delivery \in Nat
      /\ delivered \in Seq(SeqNo) /\ DeliveredInOrder
      /\ Len(delivered) <= next_delivery /\ Len(delivered) \in Nat
      /\ decoder = "live" => Len(delivered) = next_delivery
      /\ \A t \in SeqNo : t \in held \/ t < next_delivery => Piece(t)
  BY LenProperties DEF ReceiverInv, InboundTypeOK, SeqNo
<1>2. PICK gap \in next_delivery .. (MaxSeq + 1) :
        /\ FirstGap(held \union {s}, next_delivery, gap)
        /\ held' = (held \union {s}) \ (next_delivery .. (gap - 1))
        /\ next_delivery' = Saturate(gap)
        /\ delivered' = IF decoder = "live" THEN delivered \o Numbers(next_delivery, gap)
                                            ELSE delivered
  BY DEF Release
<1>3. s \in Issued /\ s \in SeqNo /\ held \union {s} \in SUBSET Issued
  BY <1>1 DEF Piece, Issued
<1>4. next_delivery <= next_sequence
  BY <1>1, PrefixIssued DEF Piece
<1>5. gap \in SeqNo /\ gap \in Nat /\ Saturate(gap) = gap
  BY <1>1, <1>2, <1>3, <1>4, GapIssued
<1>6. next_delivery' = gap /\ next_delivery <= gap /\ gap <= MaxSeq + 1
  BY <1>1, <1>2, <1>5, ConstantTypes
<1>7. ASSUME NEW t \in SeqNo, t \in held' \/ t < gap PROVE Piece(t)
  <2>1. t \in Nat /\ (t \in next_delivery .. (gap - 1) => t \in held \union {s})
    BY <1>2 DEF SeqNo, FirstGap
  <2>2. t \in held \/ t = s \/ t < next_delivery
    BY <1>1, <1>2, <1>5, <1>7, <2>1
  <2> QED
    BY <1>1, <2>2
<1>8. /\ held' \subseteq SeqNo /\ next_delivery' \in SeqNo /\ next_delivery <= next_delivery'
      /\ \A t \in SeqNo : t \in held' \/ t < next_delivery' => Piece(t)
  BY <1>1, <1>2, <1>3, <1>5, <1>6, <1>7
<1>9. CASE decoder = "live"
  <2>1. Len(delivered) = next_delivery /\ delivered' = delivered \o Numbers(Len(delivered), gap)
    BY <1>1, <1>2, <1>9
  <2>2. /\ Len(delivered') = gap /\ delivered' \in Seq(SeqNo) /\ delivered' = Numbers(0, gap)
    BY <1>1, <1>5, <1>6, <2>1, DeliverRun
  <2>3. gap \in Nat /\ Len(delivered) <= gap /\ gap <= next_delivery'
    BY <1>1, <1>5, <1>6, <2>1
  <2>4. delivered' = delivered \o Numbers(Len(delivered), gap)
    BY <2>1
  <2>5. Extends
    BY <2>2, <2>3, <2>4, Zenon DEF Extends
  <2> QED
    BY <1>6, <1>8, <2>2, <2>5
<1>10. CASE decoder # "live"
  <2>1. delivered' = delivered
    BY <1>2, <1>10
  <2>2. Extends
    BY <1>1, <1>6, <2>1, SameExtends DEF Extends
  <2> QED
    BY <1>8, <1>10, <2>2
<1> QED
  BY <1>9, <1>10

\* The three parts of a receive of an incomplete body: what it records, what it
\* releases and delivers, and what becomes of the End frame and the decoder.
RecordsMore ==
  /\ received' \subseteq SeqNo /\ next_contiguous' \in SeqNo
  /\ \A t \in SeqNo : Recorded(t) => Recorded(t)'
  /\ \A t \in SeqNo : Recorded(t)' =>
       Recorded(t) \/ Piece(t) \/ (completed' /\ t = pending_end')

Delivers ==
  /\ held' \subseteq SeqNo /\ next_delivery' \in SeqNo
  /\ \A t \in SeqNo : t \in held' \/ t < next_delivery' => Piece(t)
  /\ decoder = "live" => Len(delivered') = next_delivery'
  /\ Extends

Concludes ==
  /\ pending_end' # None => pending_end' \in Issued /\ IsEnd(pending_end')
  /\ decoder' \in {"live", "taken"} /\ completed' \in BOOLEAN /\ result' \in Results
  /\ decoder' = "live" => decoder = "live"
  /\ completed' => /\ decoder = "live" /\ decoder' = "taken"
                   /\ pending_end' # None /\ next_delivery' = pending_end'

\* Receiving changes nothing in the sender.
LEMMA SameSource ==
  ASSUME UNCHANGED sourceVars
  PROVE  /\ Issued' = Issued /\ Queued' = Queued
         /\ \A s : IsEnd(s)' <=> IsEnd(s)
         /\ \A s : Piece(s)' <=> Piece(s)
<1>1. UNCHANGED <<next_sequence, pending, input_finished>>
  BY DEF sourceVars, outboundVars
<1> QED
  BY <1>1 DEF Issued, Queued, IsEnd, Piece

\* A receive of an incomplete body preserves the receiver's invariant.
LEMMA ReceiverStep ==
  ASSUME ReceiverInv, completed = FALSE, UNCHANGED sourceVars,
         RecordsMore, Delivers, Concludes
  PROVE  ReceiverInv'
<1>1. PICK upto \in Nat :
        /\ Len(delivered) <= upto /\ upto <= next_delivery'
        /\ Len(delivered') = upto
        /\ delivered' \in Seq(SeqNo)
        /\ delivered' = Numbers(0, upto)
  BY DEF Delivers, Extends
<1>2. InboundTypeOK'
  <2>1. pending_end' \in SeqNo \union {None}
    BY DEF Concludes, Issued
  <2> QED
    BY <1>1, <2>1 DEF InboundTypeOK, RecordsMore, Delivers, Concludes
<1>3. ASSUME NEW s \in SeqNo, Recorded(s)' PROVE s \in Issued' /\ (IsEnd(s)' => completed')
  <2>1. (IsEnd(s)' <=> IsEnd(s)) /\ Issued' = Issued
    BY SameSource
  <2>2. Recorded(s) \/ Piece(s) \/ (completed' /\ s = pending_end')
    BY <1>3 DEF RecordsMore
  <2>3. CASE Recorded(s)
    BY <2>1, <2>3 DEF ReceiverInv
  <2>4. CASE Piece(s)
    BY <2>1, <2>4 DEF Piece
  <2>5. CASE completed' /\ s = pending_end'
    BY <2>1, <2>5 DEF Concludes
  <2> QED
    BY <2>2, <2>3, <2>4, <2>5
<1>4. \A s \in SeqNo : s \in held' \/ s < next_delivery' => Piece(s)'
  BY SameSource DEF Delivers
<1>5. pending_end' # None => pending_end' \in Issued' /\ IsEnd(pending_end)'
  <2>1. Issued' = Issued /\ (IsEnd(pending_end)' <=> IsEnd(pending_end'))
    BY DEF sourceVars, outboundVars, Issued, Queued, IsEnd
  <2> QED
    BY <2>1 DEF Concludes
<1>6. /\ Len(delivered') <= next_delivery' /\ DeliveredInOrder'
      /\ decoder' = "live" => Len(delivered') = next_delivery'
  BY <1>1 DEF DeliveredInOrder, Delivers, Concludes
<1>7. completed' => decoder' = "taken" /\ pending_end' # None /\ Len(delivered') = pending_end'
  BY DEF Delivers, Concludes
<1> QED
  BY <1>2, <1>3, <1>4, <1>5, <1>6, <1>7 DEF ReceiverInv

\* A call that returns before it changes anything.
LEMMA ReceiverIdle ==
  ASSUME SourceInv, ReceiverInv, UNCHANGED sourceVars, result' \in Results,
         UNCHANGED <<receiveVars, pending_end, decoder, completed, delivered>>
  PROVE  ReceiverInv' /\ (\A t \in SeqNo : Recorded(t) => Recorded(t)')
<1>1. UNCHANGED <<received, next_contiguous, held, next_delivery, pending_end, decoder,
                  completed, delivered>>
  BY DEF receiveVars
<1>2. InboundTypeOK'
  BY <1>1 DEF ReceiverInv, InboundTypeOK
<1>3. \A t : Recorded(t)' <=> Recorded(t)
  BY <1>1 DEF Recorded
<1>4. \A s \in SeqNo : Recorded(s)' => s \in Issued' /\ (IsEnd(s)' => completed')
  BY <1>1, <1>3, SameSource DEF ReceiverInv
<1>5. \A s \in SeqNo : s \in held' \/ s < next_delivery' => Piece(s)'
  BY <1>1, SameSource DEF ReceiverInv
<1>6. pending_end' # None => pending_end' \in Issued' /\ IsEnd(pending_end)'
  <2>1. Issued' = Issued /\ (IsEnd(pending_end)' <=> IsEnd(pending_end))
    BY <1>1 DEF sourceVars, outboundVars, Issued, Queued, IsEnd
  <2> QED
    BY <1>1, <2>1 DEF ReceiverInv
<1>7. /\ Len(delivered') <= next_delivery' /\ DeliveredInOrder'
      /\ decoder' = "live" => Len(delivered') = next_delivery'
      /\ completed' => decoder' = "taken" /\ pending_end' # None /\ Len(delivered') = pending_end'
  BY <1>1 DEF ReceiverInv, DeliveredInOrder
<1> QED
  BY <1>2, <1>3, <1>4, <1>5, <1>6, <1>7 DEF ReceiverInv

\* What every receive guarantees: the invariant, that nothing recorded is
\* forgotten, and that the decoder goes on where it was.
ReceiveKeeps ==
  /\ ReceiverInv'
  /\ \A t \in SeqNo : Recorded(t) => Recorded(t)'
  /\ completed => completed' /\ delivered' = delivered
  /\ ~ completed => Extends

\* A receive that returns early keeps it as well.
LEMMA IdleKeeps ==
  ASSUME SourceInv, ReceiverInv, UNCHANGED sourceVars, result' \in Results,
         UNCHANGED <<receiveVars, pending_end, decoder, completed, delivered>>
  PROVE  ReceiveKeeps
<1>1. delivered \in Seq(SeqNo) /\ DeliveredInOrder /\ Len(delivered) <= next_delivery'
  BY DEF ReceiverInv, InboundTypeOK, receiveVars
<1>2. Extends
  BY <1>1, SameExtends
<1> QED
  BY <1>2, ReceiverIdle DEF ReceiveKeeps

\* The invariant and the progress of one receive together.
LEMMA StepKeeps ==
  ASSUME ReceiverInv, completed = FALSE, UNCHANGED sourceVars,
         RecordsMore, Delivers, Concludes
  PROVE  ReceiveKeeps
  BY ReceiverStep DEF ReceiveKeeps, RecordsMore, Delivers

\* A receive that delivers nothing.
LEMMA SameDelivers ==
  ASSUME ReceiverInv, UNCHANGED <<held, next_delivery, delivered>>
  PROVE  Delivers
<1>1. delivered \in Seq(SeqNo) /\ DeliveredInOrder /\ Len(delivered) <= next_delivery'
  BY DEF ReceiverInv, InboundTypeOK
<1>2. Extends
  BY <1>1, SameExtends
<1> QED
  BY <1>2 DEF ReceiverInv, InboundTypeOK, Delivers

\* Receiving a piece: duplicate, over budget, repeated or released (receive).
LEMMA ReceiveDataKeeps ==
  ASSUME SourceInv, ReceiverInv, UNCHANGED sourceVars, NEW s, Piece(s), ReceiveData(s)
  PROVE  ReceiveKeeps
<1>1. CASE completed \/ s \in received
  BY <1>1, IdleKeeps DEF ReceiveData, Results
<1>2. CASE ~ (completed \/ s \in received)
  <2>1. PICK gap \in next_contiguous .. (MaxSeq + 1) :
          /\ FirstGap(received \union {s}, next_contiguous, gap)
          /\ UNCHANGED pending_end
          /\ \/ /\ OverBudget(s)
                /\ /\ received' = (received \union {s}) \ (next_contiguous .. (gap - 1))
                   /\ next_contiguous' = Saturate(gap)
                   /\ UNCHANGED <<decoder, completed>>
                /\ result' = "PendingLimit"
                /\ UNCHANGED <<held, next_delivery, delivered>>
             \/ /\ Repeated(s)
                /\ UNCHANGED <<held, next_delivery, delivered>>
                /\ TryFinish((received \union {s}) \ (next_contiguous .. (gap - 1)), Saturate(gap))
             \/ /\ ~ Repeated(s) /\ ~ OverBudget(s)
                /\ Release(s)
                /\ IF decoder = "taken" /\ next_delivery' # next_delivery
                   THEN /\ /\ received' = (received \union {s}) \ (next_contiguous .. (gap - 1))
                           /\ next_contiguous' = Saturate(gap)
                           /\ UNCHANGED <<decoder, completed>>
                        /\ result' = "AlreadyFinished"
                   ELSE TryFinish((received \union {s}) \ (next_contiguous .. (gap - 1)), Saturate(gap))
    BY <1>2 DEF ReceiveData
  <2> DEFINE have == (received \union {s}) \ (next_contiguous .. (gap - 1))
             contiguous == Saturate(gap)
             records == received' = have /\ next_contiguous' = contiguous
  <2>2. /\ completed = FALSE /\ decoder \in {"live", "taken"}
        /\ received \in SUBSET SeqNo /\ next_contiguous \in SeqNo /\ s \in Issued
        /\ pending_end' \in Issued \union {None}
        /\ pending_end' # None => pending_end' \in Issued /\ IsEnd(pending_end')
        /\ \A t \in SeqNo : RecordedIn(t, received, next_contiguous) => t \in Issued
    BY <1>2, <2>1 DEF ReceiverInv, InboundTypeOK, Piece, Recorded, RecordedIn
  <2>3. /\ contiguous \in SeqNo /\ have \in SUBSET SeqNo
        /\ \A t \in SeqNo : RecordedIn(t, have, contiguous)
             <=> RecordedIn(t, received, next_contiguous) \/ t = s
    BY <2>1, <2>2, RecordPost
  <2> HIDE DEF have, contiguous
  <2>4. /\ \A t \in SeqNo : RecordedIn(t, have, contiguous) <=> Recorded(t) \/ t = s
        /\ \A t \in SeqNo : RecordedIn(t, have, contiguous) => t \in Issued
    BY <2>2, <2>3 DEF Recorded, RecordedIn
  <2>5. ASSUME TryFinish(have, contiguous) PROVE RecordsMore /\ Concludes
    <3>1. /\ received' \subseteq SeqNo /\ next_contiguous' \in SeqNo
          /\ decoder' \in {"live", "taken"} /\ completed' \in BOOLEAN /\ result' \in Results
          /\ decoder' = "live" => decoder = "live"
          /\ \A t \in SeqNo : RecordedIn(t, have, contiguous) => Recorded(t)'
          /\ \A t \in SeqNo : Recorded(t)' =>
               RecordedIn(t, have, contiguous) \/ (completed' /\ t = pending_end')
          /\ completed' => /\ decoder = "live" /\ decoder' = "taken"
                           /\ pending_end' # None /\ next_delivery' = pending_end'
      BY <2>2, <2>3, <2>4, <2>5, TryFinishPost
    <3>2. RecordsMore
      BY <2>4, <3>1 DEF RecordsMore
    <3> QED
      BY <2>2, <3>1, <3>2 DEF Concludes
  <2>6. ASSUME records, UNCHANGED <<decoder, completed>>, result' \in Results
        PROVE  RecordsMore /\ Concludes
    <3>1. \A t \in SeqNo : Recorded(t)' <=> Recorded(t) \/ t = s
      BY <2>4, <2>6 DEF Recorded, RecordedIn
    <3>2. RecordsMore
      BY <2>3, <2>6, <3>1 DEF RecordsMore
    <3> QED
      BY <2>2, <2>6, <3>2 DEF Concludes
  <2>7. CASE /\ UNCHANGED <<held, next_delivery, delivered>>
             /\ \/ TryFinish(have, contiguous)
                \/ records /\ UNCHANGED <<decoder, completed>> /\ result' = "PendingLimit"
    <3>1. RecordsMore /\ Concludes
      BY <2>5, <2>6, <2>7 DEF Results
    <3> QED
      BY <2>2, <2>7, <3>1, SameDelivers, StepKeeps
  <2>8. CASE /\ Release(s)
             /\ \/ TryFinish(have, contiguous)
                \/ records /\ UNCHANGED <<decoder, completed>> /\ result' = "AlreadyFinished"
    <3>1. RecordsMore /\ Concludes
      BY <2>5, <2>6, <2>8 DEF Results
    <3>2. Delivers
      BY <2>8, ReleasePost DEF Delivers
    <3> QED
      BY <2>2, <3>1, <3>2, StepKeeps
  <2> QED
    BY <2>1, <2>7, <2>8 DEF have, contiguous
<1> QED
  BY <1>1, <1>2

\* Receiving the End frame: early, in conflict, or at its turn (receive).
LEMMA ReceiveEndKeeps ==
  ASSUME SourceInv, ReceiverInv, UNCHANGED sourceVars, NEW s \in Issued, IsEnd(s), ReceiveEnd(s)
  PROVE  ReceiveKeeps
<1>1. CASE completed \/ pending_end \notin {None, s}
  BY <1>1, IdleKeeps DEF ReceiveEnd, Results
<1>2. CASE ~ completed /\ pending_end \in {None, s}
  <2>1. /\ pending_end' = s
        /\ UNCHANGED <<held, next_delivery, delivered>>
        /\ TryFinish(received, next_contiguous)
    BY <1>2 DEF ReceiveEnd
  <2>2. /\ completed = FALSE /\ decoder \in {"live", "taken"}
        /\ received \in SUBSET SeqNo /\ next_contiguous \in SeqNo
        /\ pending_end' \in Issued \union {None}
        /\ \A t \in SeqNo : RecordedIn(t, received, next_contiguous) <=> Recorded(t)
        /\ \A t \in SeqNo : RecordedIn(t, received, next_contiguous) => t \in Issued
    BY <1>2, <2>1 DEF ReceiverInv, InboundTypeOK, Recorded, RecordedIn
  <2>3. /\ received' \subseteq SeqNo /\ next_contiguous' \in SeqNo
        /\ decoder' \in {"live", "taken"} /\ completed' \in BOOLEAN /\ result' \in Results
        /\ decoder' = "live" => decoder = "live"
        /\ \A t \in SeqNo : RecordedIn(t, received, next_contiguous) => Recorded(t)'
        /\ \A t \in SeqNo : Recorded(t)' =>
             RecordedIn(t, received, next_contiguous) \/ (completed' /\ t = pending_end')
        /\ completed' => /\ decoder = "live" /\ decoder' = "taken"
                         /\ pending_end' # None /\ next_delivery' = pending_end'
    BY <2>1, <2>2, TryFinishPost
  <2>4. RecordsMore
    BY <2>2, <2>3 DEF RecordsMore
  <2>5. Concludes
    BY <2>1, <2>3 DEF Concludes
  <2> QED
    BY <2>1, <2>2, <2>4, <2>5, SameDelivers, StepKeeps
<1> QED
  BY <1>1, <1>2

\* The acknowledgement of the updated window claims only what is recorded.
LEMMA AckSound ==
  ASSUME NEW have \in SUBSET SeqNo, NEW next \in SeqNo
  PROVE  /\ Ack(have, next) \in AckMessage
         /\ \A s \in SeqNo : Acknowledges(Ack(have, next), s) => s < next \/ s \in have
<1> DEFINE selective == {s \in have : next <= s /\ s < next + AckBits}
           window == IF Cardinality(selective) < Capacity THEN Capacity - Cardinality(selective) ELSE 0
<1>1. Ack(have, next) = [next |-> next, selective |-> selective, window |-> window]
  BY DEF Ack, Snapshot
<1>2. selective \subseteq have
  OBVIOUS
<1>3. window \in 0 .. AckBits
  <2>1. IsFiniteSet(SeqNo)
    BY ConstantTypes, FS_Interval DEF SeqNo
  <2>2. IsFiniteSet(selective)
    BY <1>2, <2>1, FS_Subset
  <2>3. Cardinality(selective) \in Nat
    BY <2>2, FS_CardinalityType
  <2> QED
    BY <2>3, SpaceTypes, ConstantTypes
<1> HIDE DEF selective, window
<1>4. Ack(have, next) \in AckMessage
  BY <1>1, <1>2, <1>3 DEF AckMessage
<1>5. \A s \in SeqNo : Acknowledges(Ack(have, next), s) => s < next \/ s \in have
  BY <1>1, <1>2 DEF Acknowledges
<1> QED
  BY <1>4, <1>5

------------------------------------------------------------------------------
(* Steps of the transfer                                                   *)

\* What a call keeps or the peer recorded covers every frame it released.
LEMMA ReleasedStep ==
  ASSUME SourceInv, ReleasedIsRecorded, NEW retained \in SUBSET in_flight, Refilled(retained),
         \A s \in in_flight \ retained : Recorded(s), UNCHANGED inboundVars
  PROVE  ReleasedIsRecorded'
<1>1. PICK moved \in Nat :
        /\ next_sequence' = next_sequence + moved
        /\ in_flight' = retained \union (next_sequence .. (next_sequence + moved - 1))
  BY DEF Refilled
<1>2. \A s : Recorded(s)' <=> Recorded(s)
  BY DEF inboundVars, receiveVars, Recorded
<1>3. SUFFICES ASSUME NEW s \in SeqNo, s < next_sequence + moved, s \notin in_flight'
               PROVE  Recorded(s)
  BY <1>1, <1>2 DEF ReleasedIsRecorded, Issued
<1>4. s \in Nat /\ next_sequence \in Nat
  BY SenderTypes DEF SeqNo
<1>5. s < next_sequence /\ s \notin retained
  BY <1>1, <1>3, <1>4
<1>6. s \in Issued
  BY <1>5 DEF Issued
<1> QED
  BY <1>5, <1>6 DEF ReleasedIsRecorded

\* A step of the sender, which may put frames it issued on the network.
LEMMA SenderStep ==
  ASSUME StreamInv, SourceInv', Grew, ReleasedIsRecorded', UNCHANGED <<inboundVars, ack_net>>,
         LoopInv',
         \A f \in data_net' : \/ f \in data_net
                             \/ /\ f \in Frame /\ f.sequence \in Issued
                                /\ f.end <=> IsEnd(f.sequence)
  PROVE  StreamInv'
<1>1. SourceInv /\ LengthInv /\ ReceiverInv /\ ChannelInv
  BY DEF StreamInv
<1>2. /\ LengthInv'
      /\ Issued \subseteq Issued'
      /\ \A s \in Issued : IsEnd(s)' <=> IsEnd(s)
      /\ \A s \in Issued : Piece(s) => Piece(s)'
  BY <1>1, GrewKeepsFrames
<1>3. UNCHANGED <<received, next_contiguous, held, next_delivery, pending_end, decoder,
                  completed, delivered, result>>
  BY DEF inboundVars, receiveVars
<1>4. \A s : Recorded(s)' <=> Recorded(s)
  BY <1>3 DEF Recorded
<1>5. ReceiverInv'
  <2>1. InboundTypeOK'
    BY <1>1, <1>3 DEF ReceiverInv, InboundTypeOK
  <2>2. \A s \in SeqNo : Recorded(s)' => s \in Issued' /\ (IsEnd(s)' => completed')
    BY <1>1, <1>2, <1>3, <1>4 DEF ReceiverInv
  <2>3. \A s \in SeqNo : s \in held' \/ s < next_delivery' => Piece(s)'
    BY <1>1, <1>2, <1>3 DEF ReceiverInv, Piece
  <2>4. pending_end' # None => pending_end' \in Issued' /\ IsEnd(pending_end)'
    <3>1. SUFFICES ASSUME pending_end # None
                   PROVE  pending_end \in Issued' /\ IsEnd(pending_end)'
      BY <1>3
    <3>2. PICK end \in Issued : end = pending_end /\ IsEnd(end)
      BY <1>1, <3>1 DEF ReceiverInv
    <3>3. end = pending_end' /\ end \in Issued' /\ IsEnd(end)'
      BY <1>2, <1>3, <3>2
    <3> QED
      BY <3>2, <3>3 DEF IsEnd
  <2>5. /\ Len(delivered') <= next_delivery' /\ DeliveredInOrder'
        /\ decoder' = "live" => Len(delivered') = next_delivery'
        /\ completed' => decoder' = "taken" /\ pending_end' # None /\ Len(delivered') = pending_end'
    BY <1>1, <1>3 DEF ReceiverInv, DeliveredInOrder
  <2> QED
    BY <2>1, <2>2, <2>3, <2>4, <2>5 DEF ReceiverInv
<1>6. ChannelInv'
  <2>1. data_net' \subseteq Frame /\ ack_net' \subseteq AckMessage
    BY <1>1 DEF ChannelInv
  <2>2. ASSUME NEW f \in data_net' PROVE f.sequence \in Issued' /\ (f.end <=> IsEnd(f.sequence)')
    <3>1. f.sequence \in Issued /\ (f.end <=> IsEnd(f.sequence))
      BY <1>1 DEF ChannelInv
    <3> QED
      BY <1>2, <3>1
  <2>3. \A ack \in ack_net', s \in SeqNo : Acknowledges(ack, s) => Recorded(s)'
    BY <1>1, <1>4 DEF ChannelInv
  <2> QED
    BY <2>1, <2>2, <2>3 DEF ChannelInv
<1> QED
  BY <1>2, <1>5, <1>6 DEF StreamInv

\* A step of the receiver.
LEMMA ReceiverSide ==
  ASSUME StreamInv, NEW f \in data_net, Receive(f), UNCHANGED <<sourceVars, reopened, data_net>>,
         sink' \in {"open", "failed", "left"},
         ack_net' \subseteq ack_net \union Acks(f)
  PROVE  StreamInv' /\ ReceiveKeeps
<1>1. SourceInv /\ LengthInv /\ ReceiverInv /\ ChannelInv /\ ReleasedIsRecorded /\ LoopInv
  BY DEF StreamInv
<1>2. f.sequence \in Issued /\ (f.end <=> IsEnd(f.sequence)) /\ f \in Frame
  BY <1>1 DEF ChannelInv
<1>3. ReceiveKeeps
  <2>1. CASE f.end
    BY <1>1, <1>2, <2>1, ReceiveEndKeeps DEF Receive
  <2>2. CASE ~ f.end
    BY <1>1, <1>2, <2>2, ReceiveDataKeeps DEF Receive, Piece
  <2> QED
    BY <2>1, <2>2
<1>4. ReceiverInv' /\ (\A t \in SeqNo : Recorded(t) => Recorded(t)')
  BY <1>3 DEF ReceiveKeeps
<1>5. /\ Issued' = Issued /\ Queued' = Queued
      /\ \A s : IsEnd(s)' <=> IsEnd(s)
  BY SameSource
<1>6. UNCHANGED <<outboundVars, source, input_finished, in_flight>>
  BY DEF sourceVars, outboundVars
<1>7. SourceInv' /\ LengthInv' /\ LoopInv'
  BY <1>1, <1>5, <1>6, SourceUnchangedInv DEF SourceInv, SourceTypeOK, LengthInv, LoopInv
<1>8. ReleasedIsRecorded'
  BY <1>1, <1>4, <1>5, <1>6 DEF ReleasedIsRecorded, Issued
<1>9. ChannelInv'
  <2>1. received' \in SUBSET SeqNo /\ next_contiguous' \in SeqNo
    BY <1>4 DEF ReceiverInv, InboundTypeOK
  <2>2. PICK have \in SUBSET SeqNo, next \in SeqNo : have = received' /\ next = next_contiguous'
    BY <2>1
  <2>3. /\ Ack(have, next) \in AckMessage
        /\ \A s \in SeqNo : Acknowledges(Ack(have, next), s) => s < next \/ s \in have
    BY AckSound
  <2>4. \A s \in SeqNo : Acknowledges(Ack(have, next), s) => Recorded(s)'
    BY <2>2, <2>3 DEF Recorded
  <2>5. \A ack \in ack_net' : ack \in ack_net \/ ack = Ack(have, next)
    BY <2>2 DEF Acks
  <2>6. data_net' \subseteq Frame /\ ack_net' \subseteq AckMessage
    BY <1>1, <2>3, <2>5 DEF ChannelInv
  <2>7. \A g \in data_net' : g.sequence \in Issued' /\ (g.end <=> IsEnd(g.sequence)')
    BY <1>1, <1>5 DEF ChannelInv
  <2>8. \A ack \in ack_net', s \in SeqNo : Acknowledges(ack, s) => Recorded(s)'
    BY <1>1, <1>4, <2>4, <2>5 DEF ChannelInv
  <2> QED
    BY <2>6, <2>7, <2>8 DEF ChannelInv
<1> QED
  BY <1>3, <1>4, <1>7, <1>8, <1>9 DEF StreamInv

\* The initial state: nothing sent, nothing recorded, the peer's window known.
LEMMA StreamInit ==
  ASSUME Init
  PROVE  StreamInv
<1>1. SourceInit(Capacity) /\ InboundInit /\ sink = "open" /\ reopened = FALSE
      /\ data_net = {} /\ ack_net = {}
  BY DEF Init, EndpointInit
<1>2. SourceInv
  <2>1. Capacity \in 0 .. AckBits
    BY InboundAssumption, ConstantTypes
  <2> QED
    BY <1>1, <2>1, SourceInitInv
<1>3. /\ pending = 0 /\ next_sequence = 0 /\ in_flight = {} /\ input_finished = FALSE
      /\ received = {} /\ next_contiguous = 0 /\ held = {} /\ next_delivery = 0
      /\ pending_end = None /\ decoder = "live" /\ completed = FALSE
      /\ delivered = << >> /\ result = "ok"
  BY <1>1 DEF SourceInit, OutboundInit, InboundInit
<1>4. 0 \in SeqNo /\ \A s \in SeqNo : ~ (s < 0)
  BY ConstantTypes DEF SeqNo
<1>5. LengthInv
  <2>1. Queued = 0 /\ MaxItems \in Nat
    BY <1>3, SpaceTypes DEF Queued
  <2> QED
    BY <1>3, <2>1 DEF LengthInv
<1>6. Issued = {}
  BY <1>3, <1>4 DEF Issued
<1>7. ReceiverInv
  <2>1. delivered \in Seq(SeqNo) /\ Len(delivered) = 0
    BY <1>3, EmptySeq
  <2>2. InboundTypeOK
    BY <1>3, <1>4, <2>1 DEF InboundTypeOK, Results
  <2>3. DeliveredInOrder
    <3>1. Numbers(0, 0) = << >>
      <4>1. 1 .. (0 - 0) = {}
        OBVIOUS
      <4> QED
        BY <4>1 DEF Numbers
    <3> QED
      BY <1>3, <2>1, <3>1 DEF DeliveredInOrder
  <2>4. Len(delivered) <= next_delivery /\ Len(delivered) = next_delivery
    BY <1>3, <2>1
  <2>5. \A s \in SeqNo : ~ Recorded(s) /\ ~ (s \in held \/ s < next_delivery)
    BY <1>3, <1>4 DEF Recorded
  <2> QED
    BY <1>3, <2>2, <2>3, <2>4, <2>5 DEF ReceiverInv
<1>8. ChannelInv /\ ReleasedIsRecorded /\ LoopInv
  BY <1>1, <1>6 DEF ChannelInv, ReleasedIsRecorded, LoopInv
<1> QED
  BY <1>2, <1>5, <1>7, <1>8 DEF StreamInv

\* A step of the sender, as the abstract stream sees it: new frames are retained,
\* released ones never come back, and the receiver is where it was.
Retains ==
  \E moved \in Nat, retained \in SUBSET in_flight :
    /\ next_sequence' = next_sequence + moved
    /\ in_flight' = retained \union (next_sequence .. (next_sequence + moved - 1))

SenderSide == UNCHANGED inboundVars /\ Grew /\ Retains

\* A sender whose frames stay as they are retains them.
LEMMA SameRetains ==
  ASSUME SourceInv, UNCHANGED <<next_sequence, in_flight>>
  PROVE  Retains
<1>1. next_sequence \in Nat
  BY SenderTypes
<1>2. next_sequence + 0 = next_sequence /\ next_sequence .. (next_sequence + 0 - 1) = {}
  BY <1>1
<1>3. 0 \in Nat /\ in_flight \in SUBSET in_flight
  OBVIOUS
<1>4. in_flight' = in_flight \union (next_sequence .. (next_sequence + 0 - 1))
  BY <1>2
<1> QED
  BY <1>2, <1>3, <1>4, Zenon DEF Retains

\* A step that leaves the sender's body alone.
LEMMA IdleSender ==
  ASSUME StreamInv, UNCHANGED <<outboundVars, inboundVars, data_net, ack_net>>,
         source' \in Sources, LoopInv'
  PROVE  StreamInv' /\ SenderSide
<1>1. SourceInv /\ LengthInv /\ ReleasedIsRecorded
  BY DEF StreamInv
<1>2. SourceInv'
  BY <1>1, SourceUnchangedInv
<1>3. UNCHANGED <<next_sequence, pending, input_finished, in_flight, received, next_contiguous>>
  BY DEF outboundVars, inboundVars, receiveVars
<1>4. Grew
  BY <1>1, <1>3, SameGrew
<1>5. ReleasedIsRecorded'
  BY <1>1, <1>3 DEF ReleasedIsRecorded, Recorded, Issued
<1>6. SenderSide
  BY <1>1, <1>3, <1>4, SameRetains DEF SenderSide
<1> QED
  BY <1>2, <1>4, <1>5, <1>6, SenderStep

\* A call of the sender that gives numbers to items and keeps `retained`.
LEMMA RefilledSender ==
  ASSUME StreamInv, SourceInv', Grew, NEW retained \in SUBSET in_flight, Refilled(retained),
         \A s \in in_flight \ retained : Recorded(s),
         UNCHANGED <<inboundVars, data_net, ack_net>>, LoopInv'
  PROVE  StreamInv' /\ SenderSide
<1>1. SourceInv /\ ReleasedIsRecorded
  BY DEF StreamInv
<1>2. ReleasedIsRecorded'
  BY <1>1, ReleasedStep
<1>3. SenderSide
  BY Zenon DEF SenderSide, Retains, Refilled
<1> QED
  BY <1>2, <1>3, SenderStep

\* Every step of the transfer preserves the invariant, and is a step of the sender
\* or a receive.
LEMMA StreamStep ==
  ASSUME StreamInv, [Next]_vars
  PROVE  StreamInv' /\ (SenderSide \/ (UNCHANGED sourceVars /\ ReceiveKeeps))
<1> USE DEF netVars
<1>1. SourceInv /\ LengthInv /\ ReceiverInv /\ ChannelInv /\ ReleasedIsRecorded /\ LoopInv
  BY DEF StreamInv
<1>2. CASE WaitForChunk /\ UNCHANGED netVars
  <2>1. source' \in Sources /\ UNCHANGED <<outboundVars, inboundVars, data_net, ack_net>>
        /\ UNCHANGED <<sink, reopened>>
    BY <1>2 DEF WaitForChunk, StartReading, StopReading, Sources
  <2>2. LoopInv'
    BY <1>1, <2>1 DEF LoopInv
  <2> QED
    BY <2>1, <2>2, IdleSender
<1>3. CASE ChunkPart /\ UNCHANGED netVars
  <2>1. PICK released \in 0 .. MaxReleased, last \in BOOLEAN : PushPart(released, last)
    BY <1>3 DEF ChunkPart
  <2>2. released \in Nat
    OBVIOUS
  <2>3. SourceInv' /\ Grew
    BY <1>1, <2>1, <2>2, PushPartInv, PushGrew
  <2>4. Refilled(in_flight)
    BY <1>1, <2>1, <2>2, QueuePost DEF PushPart, Push
  <2>5. LoopInv' /\ UNCHANGED <<inboundVars, data_net, ack_net>>
    BY <1>1, <1>3 DEF ChunkPart, LoopInv
  <2> QED
    BY <2>3, <2>4, <2>5, RefilledSender
<1>4. CASE EndInput /\ UNCHANGED netVars
  <2>1. PICK trailing \in 0 .. MaxReleased : CloseInput(trailing)
    BY <1>4 DEF EndInput
  <2>2. trailing \in Nat /\ trailing + 1 \in Nat
    OBVIOUS
  <2>3. SourceInv' /\ Grew
    BY <1>1, <2>1, <2>2, CloseInputInv, CloseGrew
  <2>4. Refilled(in_flight)
    BY <1>1, <2>1, <2>2, QueuePost DEF CloseInput, FinishInput
  <2>5. LoopInv' /\ UNCHANGED <<inboundVars, data_net, ack_net>>
    BY <1>1, <1>4 DEF EndInput, LoopInv
  <2> QED
    BY <2>3, <2>4, <2>5, RefilledSender
<1>5. CASE ReopenWindow /\ UNCHANGED netVars
  <2>1. Capacity \in 0 .. AckBits
    BY InboundAssumption, ConstantTypes
  <2>2. ApplyPeerWindow(Capacity)
    BY <1>5 DEF ReopenWindow
  <2>3. SourceInv' /\ Refilled(in_flight)
    BY <1>1, <2>1, <2>2, ApplyPeerWindowInv
  <2>4. Grew
    BY <1>1, <2>1, <2>2, RefillGrew DEF ApplyPeerWindow, SetPeerWindow
  <2>5. LoopInv' /\ UNCHANGED <<inboundVars, data_net, ack_net>>
    BY <1>1, <1>5 DEF ReopenWindow, LoopInv
  <2> QED
    BY <2>3, <2>4, <2>5, RefilledSender
<1>6. CASE Send
  <2>1. PICK due \in SUBSET (in_flight \ unsent) :
          /\ Dispatch(due)
          /\ data_net' = data_net \union {FrameAt(s) : s \in Sendable(due)}
          /\ UNCHANGED <<inboundVars, sink, reopened, ack_net>>
    BY <1>6 DEF Send
  <2>2. due \in SUBSET in_flight /\ Sendable(due) \subseteq Issued
    BY <1>1 DEF Sendable, SourceInv, OutboundTypeOK
  <2>3. SourceInv'
    BY <1>1, <2>1, <2>2, DispatchInv
  <2>4. UNCHANGED <<next_sequence, pending, input_finished, in_flight>>
    BY <2>1 DEF Dispatch, TakeSendable
  <2>5. Grew
    BY <1>1, <2>4, SameGrew
  <2>6. ReleasedIsRecorded'
    BY <1>1, <2>1, <2>4 DEF ReleasedIsRecorded, Recorded, Issued, inboundVars, receiveVars
  <2>7. \A s \in Issued : FrameAt(s) \in Frame /\ FrameAt(s).sequence = s
                          /\ (FrameAt(s).end <=> IsEnd(s))
    BY <1>1, SenderTypes DEF FrameAt, Frame, Issued, IsEnd
  <2>8. ASSUME NEW f \in data_net', f \notin data_net
        PROVE  /\ f \in Frame /\ f.sequence \in Issued
               /\ f.end <=> IsEnd(f.sequence)
    <3>1. PICK s \in Issued : f = FrameAt(s)
      BY <2>1, <2>2, <2>8
    <3> QED
      BY <2>7, <3>1
  <2>9. LoopInv'
    BY <1>1, <2>1 DEF LoopInv
  <2>10. SenderSide
    BY <1>1, <2>1, <2>4, <2>5, SameRetains DEF SenderSide
  <2> QED
    BY <2>1, <2>3, <2>5, <2>6, <2>8, <2>9, <2>10, SenderStep
<1>7. CASE \E f \in data_net : DeliverFrame(f) \/ DeliverUnread(f)
  <2>1. PICK f \in data_net : DeliverFrame(f) \/ DeliverUnread(f)
    BY <1>7
  <2>2. Receive(f) /\ UNCHANGED <<sourceVars, reopened, data_net>>
    BY <2>1 DEF DeliverFrame, DeliverUnread, HandleFrame, HandleFrameUnread
  <2>3. sink' \in {"open", "failed", "left"}
    BY <1>1, <2>1 DEF DeliverFrame, DeliverUnread, HandleFrame, HandleFrameUnread, LoopInv
  <2>4. ack_net' \subseteq ack_net \union Acks(f)
    BY <2>1 DEF DeliverFrame, DeliverUnread
  <2> QED
    BY <2>2, <2>3, <2>4, ReceiverSide
<1>8. CASE \E ack \in ack_net : DeliverAck(ack)
  <2>1. PICK ack \in ack_net : ApplyAck(ack) /\ UNCHANGED <<inboundVars, sink, reopened, netVars>>
    BY <1>8 DEF DeliverAck, HandleAck
  <2>2. ack.next \in Nat /\ ack.window \in 0 .. AckBits
    BY <1>1 DEF ChannelInv, AckMessage, SeqNo
  <2> DEFINE retained == {s \in in_flight : ~ Acknowledges(ack, s)}
  <2>3. SourceInv' /\ Refilled(retained)
    BY <1>1, <2>1, <2>2, ApplyAckInv
  <2>4. \A s \in in_flight \ retained : Recorded(s)
    BY <1>1 DEF ChannelInv, SourceInv, OutboundTypeOK, Issued
  <2>5. Pump(pending, retained, ack.window) /\ UNCHANGED input_finished
    BY <2>1 DEF ApplyAck, Acknowledge
  <2>6. retained \in SUBSET in_flight
    OBVIOUS
  <2> HIDE DEF retained
  <2>7. Grew
    BY <1>1, <2>2, <2>5, <2>6, RefillGrew
  <2>8. LoopInv' /\ UNCHANGED <<inboundVars, data_net, ack_net>>
    BY <1>1, <2>1 DEF LoopInv
  <2> QED
    BY <2>3, <2>4, <2>6, <2>7, <2>8, RefilledSender
<1>9. CASE Stop
  <2>1. /\ UNCHANGED <<outboundVars, inboundVars, data_net, ack_net>>
        /\ source' \in Sources /\ LoopInv'
    BY <1>1, <1>9 DEF Stop, StopSource, StopSink, LoopInv, SourceInv, SourceTypeOK, Sources,
       sourceVars
  <2> QED
    BY <2>1, IdleSender
<1>10. CASE UNCHANGED vars
  <2>1. /\ UNCHANGED <<outboundVars, inboundVars, data_net, ack_net>>
        /\ source' \in Sources /\ LoopInv'
    BY <1>1, <1>10 DEF vars, endpointVars, sourceVars, SourceInv, SourceTypeOK, LoopInv
  <2> QED
    BY <2>1, IdleSender
<1> QED
  BY <1>2, <1>3, <1>4, <1>5, <1>6, <1>7, <1>8, <1>9, <1>10 DEF Next, Produce

\* Every reachable state of the transfer satisfies the invariant.
LEMMA StreamInvariance == Spec => []StreamInv
<1>1. Init => StreamInv
  BY StreamInit
<1>2. StreamInv /\ [Next]_vars => StreamInv'
  BY StreamStep
<1> QED
  BY <1>1, <1>2, PTL DEF Spec

------------------------------------------------------------------------------
(* Theorems                                                                *)

\* The variables of both ends and of the network stay within their types.
THEOREM TypesHold == Spec => []TypeOK
<1>1. StreamInv => TypeOK
  BY DEF StreamInv, SourceInv, ReceiverInv, ChannelInv, LoopInv, TypeOK, EndpointTypeOK
<1> QED
  BY <1>1, StreamInvariance, PTL

\* Whatever the network loses, repeats or reorders, a frame leaves the sender's
\* retransmission only after the receiver recorded it (acknowledge, outgoing.rs).
THEOREM ReleasedFramesAreRecorded == Spec => []ReleasedIsRecorded
<1>1. StreamInv => ReleasedIsRecorded
  BY DEF StreamInv
<1> QED
  BY <1>1, StreamInvariance, PTL

\* The decoder consumes the payloads in order, each once (Reassembler::push).
THEOREM PayloadsInOrder == Spec => []DeliveredInOrder
<1>1. StreamInv => DeliveredInOrder
  BY DEF StreamInv, ReceiverInv
<1> QED
  BY <1>1, StreamInvariance, PTL

\* The End frame is recorded only by a verified body, so a sender that released
\* all its frames has a receiver that verified them all.
LEMMA CompleteVerified ==
  StreamInv => (is_complete => completed /\ Len(delivered) = next_sequence - 1)
<1>1. SUFFICES ASSUME StreamInv, is_complete
               PROVE  completed /\ Len(delivered) = next_sequence - 1
  OBVIOUS
<1>2. SourceInv /\ LengthInv /\ ReceiverInv /\ ReleasedIsRecorded
  BY <1>1 DEF StreamInv
<1>3. /\ next_sequence \in Nat /\ next_sequence <= MaxSeq /\ MaxSeq \in Nat
      /\ Queued = next_sequence + pending
  BY <1>2, SenderTypes, ConstantTypes
<1>4. input_finished /\ pending = 0 /\ in_flight = {} /\ Queued = next_sequence /\ Queued >= 1
  BY <1>1, <1>2, <1>3 DEF is_complete, LengthInv
<1>5. /\ next_sequence - 1 \in SeqNo /\ next_sequence - 1 < next_sequence
      /\ (next_sequence - 1) + 1 = Queued
  BY <1>3, <1>4 DEF SeqNo
<1>6. next_sequence - 1 \in Issued \ in_flight /\ IsEnd(next_sequence - 1)
  BY <1>4, <1>5 DEF Issued, IsEnd
<1>7. completed
  BY <1>2, <1>5, <1>6 DEF ReleasedIsRecorded, ReceiverInv
<1>8. pending_end \in Issued /\ IsEnd(pending_end) /\ Len(delivered) = pending_end
  BY <1>2, <1>7 DEF ReceiverInv
<1>9. pending_end \in Nat /\ pending_end + 1 = next_sequence
  BY <1>4, <1>8 DEF Issued, SeqNo, IsEnd
<1>10. pending_end = next_sequence - 1
  BY <1>3, <1>9
<1> QED
  BY <1>7, <1>8, <1>10

\* A sender that reports completion has a peer that verified the whole body:
\* nothing was lost on the way (is_complete, outgoing.rs).
THEOREM CompletionMeansDelivery == Spec => []CompletionIsDelivery
<1>1. StreamInv => CompletionIsDelivery
  BY CompleteVerified DEF CompletionIsDelivery
<1> QED
  BY <1>1, StreamInvariance, PTL

------------------------------------------------------------------------------
(* The transfer implements the abstract stream                             *)

Written == IF input_finished THEN Queued - 1 ELSE Queued

\* A sender's step writes, confirms, or is invisible.
LEMMA SenderRefines ==
  ASSUME StreamInv, SenderSide, pending' \in Nat, is_complete' => completed'
  PROVE  [Stream!Next]_(Stream!vars)
<1>1. SourceInv /\ LengthInv /\ Grew /\ Retains
  BY DEF StreamInv, SenderSide
<1>2. /\ next_sequence \in Nat /\ Queued \in Nat /\ next_sequence <= Queued
      /\ pending \in Nat /\ Queued = next_sequence + pending
      /\ input_finished \in BOOLEAN /\ (input_finished => Queued >= 1)
  BY <1>1, SenderTypes DEF LengthInv
<1>3. PICK total \in 0 .. MaxItems :
        /\ Queued' = total
        /\ next_sequence' \in Nat
        /\ next_sequence <= next_sequence'
        /\ next_sequence' <= total
        /\ Queued <= total
        /\ input_finished' \in BOOLEAN
        /\ input_finished => input_finished' /\ total = Queued
        /\ ~ input_finished /\ input_finished' => Queued < total
  BY <1>1 DEF Grew
<1>4. PICK moved \in Nat, retained \in SUBSET in_flight :
        /\ next_sequence' = next_sequence + moved
        /\ in_flight' = retained \union (next_sequence .. (next_sequence + moved - 1))
  BY <1>1 DEF Retains
<1>5. UNCHANGED <<delivered, completed>>
  BY DEF SenderSide, inboundVars
<1>6. PICK items \in Nat : items = pending'
  OBVIOUS
<1>7. total = (next_sequence + moved) + items
  BY <1>3, <1>4, <1>6 DEF Queued
<1>8. moved > 0 => next_sequence \in in_flight'
  BY <1>2, <1>4
<1>9. ASSUME is_complete PROVE is_complete'
  <2>1. input_finished /\ pending = 0 /\ in_flight = {}
    BY <1>9 DEF is_complete
  <2>2. moved = 0 /\ items = 0
    BY <1>2, <1>3, <1>7, <2>1
  <2>3. in_flight' = {}
    BY <1>2, <1>4, <2>1, <2>2
  <2> QED
    BY <1>3, <1>6, <2>1, <2>2, <2>3 DEF is_complete
<1>10. ASSUME is_complete' PROVE input_finished /\ completed
  <2>1. input_finished' /\ items = 0 /\ in_flight' = {}
    BY <1>6, <1>10 DEF is_complete
  <2>2. moved = 0
    BY <1>8, <2>1
  <2>3. total <= Queued
    BY <1>2, <1>7, <2>1, <2>2
  <2>4. ~ (Queued < total)
    BY <1>2, <2>3
  <2> QED
    BY <1>2, <1>3, <1>5, <1>10, <2>1, <2>4
<1>11. CASE input_finished
  <2>1. input_finished' = input_finished /\ Queued' = Queued
    BY <1>3, <1>11
  <2>2. CASE is_complete' = is_complete
    BY <1>5, <2>1, <2>2 DEF Stream!vars
  <2>3. CASE is_complete' # is_complete
    <3>1. is_complete' /\ completed
      BY <1>9, <1>10, <2>3 DEF is_complete
    <3>2. Stream!Confirm
      BY <1>5, <2>1, <3>1 DEF Stream!Confirm
    <3> QED
      BY <3>2 DEF Stream!Next
  <2> QED
    BY <2>2, <2>3
<1>12. CASE ~ input_finished
  <2>1. ~ is_complete /\ ~ is_complete'
    BY <1>10, <1>12 DEF is_complete
  <2>2. PICK after \in Nat : after = IF input_finished' THEN total - 1 ELSE total
    BY <1>2, <1>3, <1>12
  <2>3. Queued <= after
    BY <1>2, <1>3, <1>12, <2>2
  <2>4. after = IF input_finished' THEN Queued' - 1 ELSE Queued'
    BY <1>3, <2>2
  <2>5. is_complete' = is_complete
    BY <2>1 DEF is_complete
  <2>6. Stream!Write
    BY <1>3, <1>5, <1>12, <2>2, <2>3, <2>4, <2>5 DEF Stream!Write
  <2> QED
    BY <2>6 DEF Stream!Next
<1> QED
  BY <1>2, <1>11, <1>12

\* A receive reads the next pieces, or is invisible.
LEMMA ReceiverRefines ==
  ASSUME StreamInv, ReceiverInv', UNCHANGED sourceVars, ReceiveKeeps
  PROVE  [Stream!Next]_(Stream!vars)
<1>1. SourceInv /\ LengthInv /\ ReceiverInv
  BY DEF StreamInv
<1>2. /\ next_sequence \in Nat /\ next_sequence <= MaxSeq /\ MaxSeq \in Nat
      /\ Queued \in Nat /\ next_sequence <= Queued
      /\ input_finished \in BOOLEAN /\ (input_finished => Queued >= 1)
  BY <1>1, SenderTypes, ConstantTypes DEF LengthInv
<1>3. /\ UNCHANGED <<input_finished, is_complete>> /\ Queued' = Queued
      /\ Written' = Written
  BY SameSource DEF sourceVars, outboundVars, is_complete, Written
<1>4. CASE completed
  <2>1. completed' = completed /\ delivered' = delivered
    BY <1>1, <1>4 DEF ReceiveKeeps, ReceiverInv, InboundTypeOK
  <2> QED
    BY <1>3, <2>1 DEF Stream!vars
<1>5. CASE ~ completed
  <2>1. PICK upto \in Nat :
          /\ Len(delivered) <= upto /\ upto <= next_delivery'
          /\ Len(delivered') = upto
          /\ delivered' = delivered \o Numbers(Len(delivered), upto)
    BY <1>5 DEF ReceiveKeeps, Extends
  <2>2. \A s \in SeqNo : s < next_delivery' => s < next_sequence /\ ~ IsEnd(s)
    BY SameSource DEF ReceiverInv, Piece, Issued
  <2>3. upto <= Written
    <3>1. CASE upto = 0
      BY <1>2, <3>1 DEF Written
    <3>2. CASE upto > 0
      <4>1. PICK next \in SeqNo : next = next_delivery'
        BY DEF ReceiverInv, InboundTypeOK
      <4>2. upto - 1 \in SeqNo /\ upto - 1 < next
        BY <1>2, <2>1, <3>2, <4>1 DEF SeqNo
      <4>3. \A s \in SeqNo : s < next => s < next_sequence /\ ~ IsEnd(s)
        BY <2>2, <4>1
      <4>4. upto - 1 < next_sequence /\ ~ IsEnd(upto - 1)
        BY <4>2, <4>3
      <4> QED
        BY <1>2, <3>2, <4>4 DEF Written, IsEnd
    <3> QED
      BY <3>1, <3>2
  <2>4. Len(delivered) \in Nat /\ Written \in Nat
    BY <1>1, <1>2, LenProperties DEF ReceiverInv, InboundTypeOK, Written
  <2>5. upto \in Len(delivered) .. Written
    BY <2>1, <2>3, <2>4
  <2>6. completed' \in BOOLEAN
    BY DEF ReceiverInv, InboundTypeOK
  <2>7. ASSUME completed' PROVE input_finished /\ upto = Written
    <3>1. PICK end \in SeqNo : end = pending_end' /\ Len(delivered') = end
      BY <2>7 DEF ReceiverInv, Issued
    <3>2. IsEnd(pending_end)'
      BY <2>7 DEF ReceiverInv
    <3>3. input_finished /\ end + 1 = Queued
      BY <1>3, <3>1, <3>2 DEF IsEnd
    <3>4. end = upto /\ end \in Nat
      BY <2>1, <3>1 DEF SeqNo
    <3>5. Written = Queued - 1
      BY <3>3 DEF Written
    <3> QED
      BY <1>2, <3>3, <3>4, <3>5
  <2>8. \E more \in Len(delivered) .. Written :
          delivered' = delivered \o [i \in 1 .. (more - Len(delivered)) |-> Len(delivered) + i - 1]
    BY <2>1, <2>5 DEF Numbers
  <2>9. \/ completed' = FALSE
        \/ completed' = TRUE /\ input_finished /\ Len(delivered') = Written
    BY <2>1, <2>6, <2>7
  <2>10. Stream!Read
    BY <1>3, <1>5, <2>8, <2>9 DEF Stream!Read, Written
  <2> QED
    BY <2>10 DEF Stream!Next
<1> QED
  BY <1>4, <1>5

\* One transfer does what a reliable stream promises: the reader gets a prefix of
\* what was written, verifies the body only at its end, and the writer is told of
\* completion only after that.
THEOREM TransferImplementsStream == Spec => ImplementsStream
<1>1. Init => Stream!Init
  <2>1. SUFFICES ASSUME Init PROVE Stream!Init
    OBVIOUS
  <2>2. /\ pending = 0 /\ next_sequence = 0 /\ input_finished = FALSE
        /\ completed = FALSE /\ delivered = << >>
    BY <2>1 DEF Init, EndpointInit, SourceInit, OutboundInit, InboundInit
  <2>3. Queued = 0 /\ ~ is_complete
    BY <2>2 DEF Queued, is_complete
  <2> QED
    BY <2>2, <2>3 DEF Stream!Init, is_complete
<1>2. StreamInv /\ (StreamInv => (is_complete => completed))' /\ [Next]_vars
        => [Stream!Next]_(Stream!vars)
  <2>1. SUFFICES ASSUME StreamInv, StreamInv' => (is_complete' => completed'), [Next]_vars
                 PROVE  [Stream!Next]_(Stream!vars)
    OBVIOUS
  <2>2. StreamInv' /\ (SenderSide \/ (UNCHANGED sourceVars /\ ReceiveKeeps))
    BY <2>1, StreamStep
  <2>3. CASE SenderSide
    <3>1. pending' \in Nat
      BY <2>2 DEF StreamInv, SourceInv, OutboundTypeOK
    <3> QED
      BY <2>1, <2>2, <2>3, <3>1, SenderRefines
  <2>4. CASE UNCHANGED sourceVars /\ ReceiveKeeps
    BY <2>1, <2>2, <2>4, ReceiverRefines DEF StreamInv
  <2> QED
    BY <2>2, <2>3, <2>4
<1>3. StreamInv => (is_complete => completed)
  BY CompleteVerified
<1> QED
  BY <1>1, <1>2, <1>3, StreamInvariance, PTL DEF Spec, ImplementsStream, Stream!Spec

------------------------------------------------------------------------------
(* A receiver with room for a bitmap width and a window never fails        *)

\* The budget holds what a sender can have on the way above a missing frame.
Spacious == MaxHeld >= AckBits + LocalWindow - 1

\* The window and the Reassembler go in step until the body is complete: what is
\* recorded above the first missing number is what is held.
Aligned ==
  /\ decoder = "live"
  /\ next_delivery = next_contiguous
  /\ next_contiguous \notin received
  /\ \A t \in SeqNo : t \in held <=> t \in received /\ t >= next_contiguous

AlignedInv == result = "ok" /\ (~ completed => Aligned)

\* Sets that agree from a number on are drained to the same gap.
LEMMA GapUnique ==
  ASSUME NEW from \in Nat, NEW a \in Nat, NEW b \in Nat, NEW A, NEW B,
         FirstGap(A, from, a), FirstGap(B, from, b),
         \A t \in Nat : t >= from => (t \in A <=> t \in B)
  PROVE  a = b
<1>1. a >= from /\ a \notin A /\ from .. (a - 1) \subseteq A
  BY DEF FirstGap
<1>2. b >= from /\ b \notin B /\ from .. (b - 1) \subseteq B
  BY DEF FirstGap
<1>3. ~ (a < b)
  <2>1. SUFFICES ASSUME a < b PROVE FALSE
    OBVIOUS
  <2>2. a \in from .. (b - 1)
    BY <1>1, <2>1
  <2> QED
    BY <1>1, <1>2, <2>2
<1>4. ~ (b < a)
  <2>1. SUFFICES ASSUME b < a PROVE FALSE
    OBVIOUS
  <2>2. b \in from .. (a - 1)
    BY <1>2, <2>1
  <2> QED
    BY <1>1, <1>2, <2>2
<1> QED
  BY <1>3, <1>4

\* Whatever is held lies between the first missing frame, which the sender still
\* retains, and the last one it issued: it fits the budget with one more.
LEMMA HeldFits ==
  ASSUME Spacious, SourceInv, ReceiverInv, ReleasedIsRecorded, Aligned, NEW s \in Issued
  PROVE  ~ OverBudget(s)
<1>1. SUFFICES ASSUME OverBudget(s) PROVE FALSE
  OBVIOUS
<1>2. /\ next_sequence \in Nat /\ next_sequence <= MaxSeq /\ MaxSeq \in Nat
      /\ AckBits \in Nat /\ LocalWindow \in Nat
      /\ s \in Nat /\ s < next_sequence
  BY SenderTypes, ConstantTypes DEF Issued, SeqNo
<1>3. /\ next_delivery \in Nat /\ next_delivery \in SeqNo /\ next_delivery = next_contiguous
      /\ held \subseteq SeqNo
  BY DEF ReceiverInv, InboundTypeOK, SeqNo, Aligned
<1>4. s >= next_delivery /\ s \notin held /\ Cardinality(held) + 1 > MaxHeld
  BY <1>1, <1>2, <1>3 DEF OverBudget, Repeated
<1>5. ASSUME NEW t \in held PROVE t \in next_delivery .. (next_sequence - 1)
  <2>1. t \in SeqNo /\ t \in Nat /\ t >= next_delivery
    BY <1>3 DEF Aligned, SeqNo
  <2>2. t \in Issued
    BY <1>3 DEF ReceiverInv, Piece
  <2>3. t < next_sequence
    BY <2>2 DEF Issued
  <2> QED
    BY <1>2, <1>3, <2>1, <2>3
<1>6. s \in next_delivery .. (next_sequence - 1)
  BY <1>2, <1>3, <1>4
<1>7. held \union {s} \subseteq next_delivery .. (next_sequence - 1)
  BY <1>5, <1>6
<1>8. next_delivery < next_sequence
  BY <1>2, <1>3, <1>4
<1>9. next_delivery \in in_flight
  <2>1. next_delivery \in Issued
    BY <1>3, <1>8 DEF Issued
  <2>2. ~ Recorded(next_delivery)
    BY <1>3 DEF Recorded, Aligned
  <2> QED
    BY <2>1, <2>2 DEF ReleasedIsRecorded
<1>10. next_sequence < next_delivery + AckBits + LocalWindow
  BY <1>9, SpanIsBounded DEF SpanBounded
<1>11. /\ IsFiniteSet(next_delivery .. (next_sequence - 1))
       /\ Cardinality(next_delivery .. (next_sequence - 1)) = next_sequence - next_delivery
  <2>1. next_delivery \in Int /\ next_sequence - 1 \in Int
    BY <1>2, <1>3
  <2>2. /\ IsFiniteSet(next_delivery .. (next_sequence - 1))
        /\ Cardinality(next_delivery .. (next_sequence - 1)) =
             IF next_delivery > next_sequence - 1 THEN 0
             ELSE (next_sequence - 1) - next_delivery + 1
    BY <2>1, FS_Interval
  <2> QED
    BY <1>2, <1>3, <1>8, <2>2
<1>12. /\ IsFiniteSet(held \union {s})
       /\ Cardinality(held \union {s}) <= next_sequence - next_delivery
  BY <1>7, <1>11, FS_Subset
<1>13. IsFiniteSet(held)
  BY <1>12, FS_Subset
<1>14. Cardinality(held \union {s}) = Cardinality(held) + 1 /\ Cardinality(held) \in Nat
  BY <1>4, <1>13, FS_AddElement, FS_CardinalityType
<1>15. MaxHeld \in Nat /\ MaxHeld >= AckBits + LocalWindow - 1
  BY InboundAssumption DEF Spacious
<1> QED
  BY <1>2, <1>3, <1>4, <1>10, <1>12, <1>14, <1>15

\* While window and Reassembler go in step, try_finish succeeds or has nothing to do.
LEMMA AlignedFinish ==
  ASSUME NEW have, NEW contiguous, TryFinish(have, contiguous), completed = FALSE,
         decoder = "live", next_delivery' = contiguous,
         contiguous \notin have,
         \A t \in SeqNo : t \in held' <=> t \in have /\ t >= contiguous
  PROVE  AlignedInv'
<1> DEFINE due == pending_end' # None /\ contiguous = pending_end'
           verified == due /\ decoder = "live" /\ Verified(pending_end')
<1>1. /\ IF verified THEN RecordInto(pending_end', have, contiguous)
                      ELSE received' = have /\ next_contiguous' = contiguous
      /\ decoder' = IF due THEN "taken" ELSE decoder
      /\ completed' = (completed \/ verified)
      /\ result' = IF ~ due \/ verified THEN "ok"
                   ELSE IF decoder = "taken" THEN "AlreadyFinished" ELSE "Integrity"
  BY DEF TryFinish
<1>2. due => verified
  BY DEF Verified
<1> HIDE DEF due, verified
<1>3. result' = "ok"
  BY <1>1, <1>2
<1>4. completed' <=> verified
  BY <1>1
<1>5. ~ verified => Aligned'
  BY <1>1, <1>2 DEF Aligned
<1> QED
  BY <1>3, <1>4, <1>5 DEF AlignedInv

\* A piece that arrives in any order: repeated, or released in step.
LEMMA AlignedData ==
  ASSUME Spacious, SourceInv, ReceiverInv, ReleasedIsRecorded, AlignedInv,
         NEW s, Piece(s), ReceiveData(s)
  PROVE  AlignedInv'
<1>1. CASE completed \/ s \in received
  <2>1. result' = "ok" /\ UNCHANGED <<received, next_contiguous, held, next_delivery, decoder, completed>>
    BY <1>1 DEF ReceiveData, receiveVars
  <2> QED
    BY <2>1 DEF AlignedInv, Aligned
<1>2. CASE ~ (completed \/ s \in received)
  <2>1. PICK gap \in next_contiguous .. (MaxSeq + 1) :
          /\ FirstGap(received \union {s}, next_contiguous, gap)
          /\ \/ OverBudget(s)
             \/ /\ Repeated(s)
                /\ UNCHANGED <<held, next_delivery, delivered>>
                /\ TryFinish((received \union {s}) \ (next_contiguous .. (gap - 1)), Saturate(gap))
             \/ /\ ~ Repeated(s)
                /\ Release(s)
                /\ decoder = "taken" \/
                   TryFinish((received \union {s}) \ (next_contiguous .. (gap - 1)), Saturate(gap))
    BY <1>2 DEF ReceiveData
  <2> DEFINE have == (received \union {s}) \ (next_contiguous .. (gap - 1))
  <2>2. /\ completed = FALSE /\ Aligned
        /\ decoder = "live" /\ next_delivery = next_contiguous /\ next_contiguous \notin received
        /\ \A t \in SeqNo : t \in held <=> t \in received /\ t >= next_contiguous
    BY <1>2 DEF AlignedInv, Aligned, ReceiverInv, InboundTypeOK
  <2>3. /\ received \subseteq SeqNo /\ held \subseteq SeqNo /\ next_contiguous \in SeqNo
        /\ next_contiguous \in Nat /\ s \in Issued /\ s \in SeqNo /\ s \in Nat
        /\ \A t \in SeqNo : t \in Nat
    BY DEF ReceiverInv, InboundTypeOK, Piece, Issued, SeqNo
  <2>4. /\ received \union {s} \in SUBSET Issued
        /\ next_contiguous <= next_sequence
    <3>1. \A t \in SeqNo : Recorded(t) => t \in Issued
      BY DEF ReceiverInv
    <3>2. \A t \in SeqNo : t < next_contiguous => t \in Issued
      BY <3>1 DEF Recorded
    <3> QED
      BY <2>3, <3>1, <3>2, PrefixIssued DEF Recorded
  <2>5. gap \in SeqNo /\ gap \in Nat /\ Saturate(gap) = gap
    BY <2>1, <2>3, <2>4, GapIssued
  <2>6. gap >= next_contiguous /\ gap \notin received \union {s}
    BY <2>1 DEF FirstGap
  <2>7. gap \notin have
    BY <2>6
  <2>8. \A t \in SeqNo : t >= gap => (t \in have <=> t \in received \union {s})
    BY <2>3, <2>5
  <2> HIDE DEF have
  <2>9. ~ OverBudget(s)
    BY <2>2, <2>3, HeldFits
  <2>10. CASE /\ Repeated(s)
              /\ UNCHANGED <<held, next_delivery, delivered>>
              /\ TryFinish(have, Saturate(gap))
    <3>1. s < next_contiguous
      BY <1>2, <2>2, <2>3, <2>10 DEF Repeated
    <3>2. gap = next_contiguous
      <4>1. SUFFICES ASSUME gap # next_contiguous PROVE FALSE
        OBVIOUS
      <4>2. next_contiguous \in next_contiguous .. (gap - 1)
        BY <2>3, <2>5, <2>6, <4>1
      <4>3. next_contiguous \in received \union {s}
        BY <2>1, <4>2 DEF FirstGap
      <4> QED
        BY <2>2, <2>3, <3>1, <4>3
    <3>3. \A t \in SeqNo : t \in held' <=> t \in have /\ t >= gap
      BY <2>2, <2>3, <2>8, <2>10, <3>1, <3>2
    <3>4. next_delivery' = gap
      BY <2>2, <2>10, <3>2
    <3>5. TryFinish(have, gap)
      BY <2>5, <2>10
    <3> QED
      BY <2>2, <2>7, <3>3, <3>4, <3>5, AlignedFinish
  <2>11. CASE /\ ~ Repeated(s)
              /\ Release(s)
              /\ TryFinish(have, Saturate(gap))
    <3>1. PICK end \in next_delivery .. (MaxSeq + 1) :
            /\ FirstGap(held \union {s}, next_delivery, end)
            /\ held' = (held \union {s}) \ (next_delivery .. (end - 1))
            /\ next_delivery' = Saturate(end)
      BY <2>11 DEF Release
    <3>2. s >= next_contiguous
      BY <2>2, <2>3, <2>11 DEF Repeated
    <3>3. end \in Nat
      BY <2>2, <2>3
    <3>4. \A t \in Nat : t >= next_contiguous =>
            (t \in received \union {s} <=> t \in held \union {s})
      BY <2>2, <2>3
    <3>5. end = gap
      BY <2>1, <2>2, <2>3, <2>5, <3>1, <3>3, <3>4, GapUnique
    <3>6. next_delivery' = gap
      BY <2>5, <3>1, <3>5
    <3>7. held' = (held \union {s}) \ (next_contiguous .. (gap - 1))
      BY <2>2, <3>1, <3>5
    <3>8. \A t \in SeqNo : t \in held' <=> t \in have /\ t >= gap
      <4>1. SUFFICES ASSUME NEW t \in SeqNo
                     PROVE  t \in held' <=> t \in have /\ t >= gap
        OBVIOUS
      <4>2. CASE t >= gap
        <5>1. t \notin next_contiguous .. (gap - 1) /\ t >= next_contiguous
          BY <2>3, <2>5, <2>6, <4>2
        <5>2. t \in held' <=> t \in held \union {s}
          BY <3>7, <5>1
        <5> QED
          BY <2>2, <2>3, <2>8, <4>2, <5>1, <5>2
      <4>3. CASE ~ (t >= gap)
        <5>1. t \in held' => t \in held \union {s} /\ t \notin next_contiguous .. (gap - 1)
          BY <3>7
        <5>2. t \in held \union {s} => t >= next_contiguous
          BY <2>2, <2>3, <3>2
        <5>3. t >= next_contiguous => t \in next_contiguous .. (gap - 1)
          BY <2>3, <2>5, <4>3
        <5> QED
          BY <4>3, <5>1, <5>2, <5>3
      <4> QED
        BY <4>2, <4>3
    <3>9. TryFinish(have, gap)
      BY <2>5, <2>11
    <3> QED
      BY <2>2, <2>7, <3>6, <3>8, <3>9, AlignedFinish
  <2> QED
    BY <2>1, <2>2, <2>9, <2>10, <2>11 DEF have
<1> QED
  BY <1>1, <1>2

\* The End frame, early or at its turn: there is one of them, so that none conflicts.
LEMMA AlignedEnd ==
  ASSUME SourceInv, ReceiverInv, AlignedInv, NEW s \in Issued, IsEnd(s), ReceiveEnd(s)
  PROVE  AlignedInv'
<1>1. CASE completed
  <2>1. result' = "ok" /\ completed' = completed
    BY <1>1 DEF ReceiveEnd
  <2> QED
    BY <1>1, <2>1 DEF AlignedInv
<1>2. CASE ~ completed
  <2>1. pending_end \in {None, s}
    <3>1. SUFFICES ASSUME pending_end # None PROVE pending_end = s
      OBVIOUS
    <3>2. pending_end \in Issued /\ IsEnd(pending_end)
      BY <3>1 DEF ReceiverInv
    <3>3. pending_end \in Nat /\ s \in Nat /\ pending_end + 1 = s + 1
      BY <3>2 DEF IsEnd, Issued, SeqNo
    <3> QED
      BY <3>3
  <2>2. /\ UNCHANGED <<held, next_delivery, delivered>>
        /\ TryFinish(received, next_contiguous)
    BY <1>2, <2>1 DEF ReceiveEnd
  <2>3. /\ completed = FALSE /\ Aligned
        /\ decoder = "live" /\ next_delivery = next_contiguous /\ next_contiguous \notin received
        /\ \A t \in SeqNo : t \in held <=> t \in received /\ t >= next_contiguous
    BY <1>2 DEF AlignedInv, Aligned, ReceiverInv, InboundTypeOK
  <2> QED
    BY <2>2, <2>3, AlignedFinish
<1> QED
  BY <1>1, <1>2

LEMMA AlignedStep ==
  ASSUME Spacious, StreamInv, AlignedInv, [Next]_vars
  PROVE  AlignedInv'
<1>1. SourceInv /\ ReceiverInv /\ ChannelInv /\ ReleasedIsRecorded
  BY DEF StreamInv
<1>2. UNCHANGED inboundVars \/ \E f \in data_net : Receive(f)
  BY DEF Next, Produce, WaitForChunk, ChunkPart, EndInput, ReopenWindow, Send, DeliverFrame,
     DeliverUnread, HandleFrame, HandleFrameUnread, DeliverAck, HandleAck, Stop, StopSource,
     StopSink, vars, endpointVars
<1>3. CASE UNCHANGED inboundVars
  BY <1>3 DEF inboundVars, receiveVars, AlignedInv, Aligned
<1>4. CASE \E f \in data_net : Receive(f)
  <2>1. PICK f \in data_net : Receive(f)
    BY <1>4
  <2>2. f.sequence \in Issued /\ (f.end <=> IsEnd(f.sequence))
    BY <1>1 DEF ChannelInv
  <2>3. CASE f.end
    BY <1>1, <2>1, <2>2, <2>3, AlignedEnd DEF Receive
  <2>4. CASE ~ f.end
    BY <1>1, <2>1, <2>2, <2>4, AlignedData DEF Receive, Piece
  <2> QED
    BY <2>3, <2>4
<1> QED
  BY <1>2, <1>3, <1>4

\* A receiver whose out-of-order budget has room for one bitmap width and one
\* window never fails, however late, often or out of order frames arrive: the
\* budget, which may refuse a frame whose number it recorded, never does so.
THEOREM ReceiverIsSafe ==
  ASSUME Spacious
  PROVE  Spec => []ReceiverNeverFails
<1>1. Init => AlignedInv
  BY DEF Init, EndpointInit, InboundInit, AlignedInv, Aligned
<1>2. StreamInv /\ AlignedInv /\ [Next]_vars => AlignedInv'
  BY AlignedStep
<1>3. AlignedInv => ReceiverNeverFails
  BY DEF AlignedInv, ReceiverNeverFails
<1> QED
  BY <1>1, <1>2, <1>3, StreamInvariance, PTL DEF Spec

==============================================================================
