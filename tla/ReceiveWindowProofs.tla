-------------------------- MODULE ReceiveWindowProofs --------------------------
(***************************************************************************)
(* Proofs about a receive window on its own, for every width of the bitmap *)
(* and every size of the sequence space.                                   *)
(***************************************************************************)
EXTENDS ReceiveWindow, TLAPS

\* What is kept of the numbers that were recorded: those below the prefix by its
\* length, the others one by one.  Only the last number of the space may be lost.
Kept ==
  \A s \in SeqNo : s # MaxSeq => (s \in seen <=> s < next_contiguous \/ s \in received)

WindowInv == TypeOK /\ Kept

LEMMA InitWindow == Init => WindowInv
BY AckWindowAssumption DEF Init, WindowInv, TypeOK, Kept, SeqNo

\* The prefix grows over the numbers it drains and never beyond the space.
LEMMA PrefixGrows ==
  ASSUME TypeOK, NEW s \in SeqNo, Record(s)
  PROVE  /\ TypeOK' /\ next_contiguous' >= next_contiguous
         /\ received \subseteq received' \union (next_contiguous .. (next_contiguous' - 1))
                                 \union {MaxSeq}
         /\ \A t \in SeqNo : t # MaxSeq =>
              (t < next_contiguous' \/ t \in received' <=>
                 t < next_contiguous \/ t \in received \/ t = s)
<1> USE AckWindowAssumption DEF SeqNo
<1>1. PICK gap \in next_contiguous .. (MaxSeq + 1) :
             /\ FirstGap(received \union {s}, next_contiguous, gap)
             /\ received' = (received \union {s}) \ (next_contiguous .. (gap - 1))
             /\ next_contiguous' = Saturate(gap)
             /\ fresh' = (s \notin received)
             /\ seen' = seen \union {s}
  BY DEF Record
<1>2. next_contiguous \in SeqNo /\ received \subseteq SeqNo /\ seen \subseteq SeqNo
  BY DEF TypeOK
<1>3. /\ gap \in Int /\ next_contiguous' = (IF gap = MaxSeq + 1 THEN MaxSeq ELSE gap)
      /\ next_contiguous' \in next_contiguous .. MaxSeq
  BY <1>1, <1>2 DEF Saturate
<1>4. TypeOK'
  BY <1>1, <1>2, <1>3 DEF TypeOK
<1>5. next_contiguous .. (gap - 1) \subseteq received \union {s}
  BY <1>1 DEF FirstGap
<1>6. ASSUME NEW t \in SeqNo, t # MaxSeq
      PROVE  t < next_contiguous' \/ t \in received' <=>
               t < next_contiguous \/ t \in received \/ t = s
  <2>1. t < next_contiguous' <=> t < gap
    BY <1>3, <1>6
  <2> QED
    BY <1>1, <1>2, <1>3, <1>5, <1>6, <2>1
<1>7. ASSUME NEW t \in received
      PROVE  t \in received' \union (next_contiguous .. (next_contiguous' - 1)) \union {MaxSeq}
  <2>1. CASE t \in next_contiguous .. (gap - 1)
    BY <1>1, <1>2, <1>3, <2>1
  <2>2. CASE t \notin next_contiguous .. (gap - 1)
    BY <1>1, <2>2
  <2> QED
    BY <2>1, <2>2
<1> QED
  BY <1>2, <1>3, <1>4, <1>6, <1>7

LEMMA StepWindow == WindowInv /\ [Next]_vars => WindowInv'
<1> SUFFICES ASSUME WindowInv, [Next]_vars PROVE WindowInv'
  OBVIOUS
<1>1. TypeOK /\ Kept
  BY DEF WindowInv
<1>2. ASSUME NEW s \in SeqNo, Record(s) PROVE WindowInv'
  <2>1. seen' = seen \union {s}
    BY <1>2 DEF Record
  <2>2. Kept'
    BY <1>1, <1>2, <2>1, PrefixGrows DEF Kept
  <2> QED
    BY <1>1, <1>2, <2>2, PrefixGrows DEF WindowInv
<1>3. CASE UNCHANGED vars
  BY <1>1, <1>3 DEF vars, WindowInv, TypeOK, Kept
<1> QED
  BY <1>2, <1>3 DEF Next

LEMMA WindowInvariant == Spec => []WindowInv
BY InitWindow, StepWindow, PTL DEF Spec

\* A number the window has recorded stays acknowledged, by the prefix or by its
\* bit: the prefix and with it the reach of the bitmap only grow.
LEMMA StillAcknowledged ==
  ASSUME WindowInv, NEW r \in SeqNo, Record(r),
         NEW s \in 0 .. (MaxSeq - 1), Acknowledges(Ack, s)
  PROVE  Acknowledges(Ack', s)
<1>1. TypeOK
  BY DEF WindowInv
<1>2. AckBits \in Nat /\ s \in Int /\ s # MaxSeq
  BY AckWindowAssumption
<1>3. PICK n \in Int, m \in Int : n = next_contiguous /\ m = next_contiguous' /\ m >= n
  BY <1>1, PrefixGrows DEF TypeOK, SeqNo
<1>4. m >= n
  BY <1>3
<1>5. received \subseteq received' \union (n .. (m - 1)) \union {MaxSeq}
  BY <1>1, <1>3, PrefixGrows
<1>6. s < n \/ (s < n + AckBits /\ s \in received)
  BY <1>3 DEF Acknowledges, Ack, Snapshot
<1>7. s < m \/ (s < m + AckBits /\ s \in received')
  BY <1>2, <1>4, <1>5, <1>6
<1>8. next_contiguous' \in Int
  BY <1>3
<1>9. s < next_contiguous' \/ (s < next_contiguous' + AckBits /\ s \in received')
  BY <1>3, <1>7, Zenon
<1>10. Ack' = [next      |-> next_contiguous',
               selective |-> {t \in received' : next_contiguous' <= t
                                                 /\ t < next_contiguous' + AckBits}]
  BY DEF Ack, Snapshot
<1>11. /\ Ack'.next = next_contiguous'
       /\ s \in Ack'.selective <=> s \in received' /\ next_contiguous' <= s
                                    /\ s < next_contiguous' + AckBits
  BY <1>10
<1>12. s < Ack'.next \/ (s < Ack'.next + AckBits /\ s \in Ack'.selective)
  <2>1. CASE s < next_contiguous'
    BY <1>11, <2>1, Zenon
  <2>2. CASE ~ (s < next_contiguous')
    <3>1. next_contiguous' <= s
      BY <1>2, <1>8, <2>2
    <3> QED
      BY <1>9, <1>11, <2>2, <3>1, Zenon
  <2> QED
    BY <2>1, <2>2
<1> QED
  BY <1>12 DEF Acknowledges

------------------------------------------------------------------------------
(* The theorems                                                            *)

\* The window's numbers stay in the sequence space, its saturating end included
\* (ReceiveWindow, core lib.rs).
THEOREM TypesHold == Spec => []TypeOK
BY WindowInvariant, PTL DEF WindowInv

\* A snapshot acknowledges exactly what was recorded within its reach, for every
\* order of arrival and all duplicates (snapshot and acknowledges, core lib.rs).
THEOREM SnapshotsExact == Spec => []SnapshotIsExact
<1>1. WindowInv => SnapshotIsExact
  <2> SUFFICES ASSUME WindowInv, NEW s \in 0 .. (MaxSeq - 1), s < next_contiguous + AckBits
               PROVE  Acknowledges(Ack, s) <=> s \in seen
    BY DEF SnapshotIsExact
  <2>1. next_contiguous \in SeqNo /\ s \in SeqNo /\ s # MaxSeq
    BY AckWindowAssumption DEF WindowInv, TypeOK, SeqNo
  <2>2. s \in seen <=> s < next_contiguous \/ s \in received
    BY <2>1 DEF WindowInv, Kept
  <2>3. Acknowledges(Ack, s) <=> s < next_contiguous \/ s \in received
    BY <2>1, AckWindowAssumption DEF Acknowledges, Ack, Snapshot, SeqNo
  <2> QED
    BY <2>2, <2>3
<1> QED
  BY <1>1, WindowInvariant, PTL

\* No call of `record` withdraws an acknowledgement that an earlier snapshot gave,
\* so a frame that a sender released on one is never missing again.
THEOREM AcknowledgementsGrow == Spec => AcknowledgementsOnlyGrow
<1>1. WindowInv /\ [Next]_vars =>
        [\A s \in 0 .. (MaxSeq - 1) : Acknowledges(Ack, s) => Acknowledges(Ack', s)]_vars
  BY StillAcknowledged DEF Next
<1> QED
  BY <1>1, WindowInvariant, PTL DEF Spec, AcknowledgementsOnlyGrow

==============================================================================
