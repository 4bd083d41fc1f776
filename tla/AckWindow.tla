------------------------------ MODULE AckWindow ------------------------------
(***************************************************************************)
(* The acknowledgement arithmetic of crates/veilid-http-core: the sequence *)
(* space, what a receive window becomes when one more sequence number is   *)
(* recorded, the snapshot it reports and the frames a snapshot releases.   *)
(*                                                                         *)
(* A receive window is the pair of `received` (recorded sequence numbers   *)
(* above the contiguous prefix) and `next` (the length of that prefix,     *)
(* `next_contiguous` in the code).  A snapshot keeps `next` instead of the *)
(* Option `cumulative` = next - 1, and the selective bitmap as the set of  *)
(* the sequence numbers whose bits are set.                                *)
(***************************************************************************)
EXTENDS Integers, FiniteSets

CONSTANTS
  AckBits,   \* width of the selective bitmap, 64 in the code
  MaxSeq     \* largest sequence number, u32::MAX in the code

ASSUME AckWindowAssumption == AckBits \in Nat \ {0} /\ MaxSeq \in Nat

SeqNo == 0 .. MaxSeq

\* Mutant of Snapshot: the cumulative value names the first missing number instead
\* of the last received one.
SnapshotOneTooFar(received, next) ==
  [next |-> next + 1, selective |-> {s \in received : next <= s /\ s < next + AckBits}]

\* n.saturating_add(1) applied until the sequence number n would be passed.
Saturate(n) == IF n > MaxSeq THEN MaxSeq ELSE n

\* The `while remove(&next)` loops stop at the first number that is absent:
\* gap is that number for a loop that starts at `from` and drains `have`.
FirstGap(have, from, gap) ==
  /\ gap >= from
  /\ gap \notin have
  /\ from .. (gap - 1) \subseteq have

Snapshot(received, next) ==
  [next      |-> next,
   selective |-> {s \in received : next <= s /\ s < next + AckBits}]

\* Mutant of Acknowledges: without its range check the shift wraps around.
AcknowledgesWrapped(ack, s) ==
  \/ s < ack.next
  \/ ack.next + ((s - ack.next) % AckBits) \in ack.selective

\* A frame is released when it lies in the cumulative prefix or its bit is set.
\* The bitmap names no sequence number below or beyond its own range.
Acknowledges(ack, s) ==
  \/ s < ack.next
  \/ s < ack.next + AckBits /\ s \in ack.selective

==============================================================================
