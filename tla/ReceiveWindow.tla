---------------------------- MODULE ReceiveWindow ----------------------------
(***************************************************************************)
(* ReceiveWindow of crates/veilid-http-core on its own: `record` called    *)
(* with any sequence numbers in any order, duplicates included, up to the  *)
(* saturating end of the sequence space.                                   *)
(*                                                                         *)
(* `seen` is a history variable: every number ever passed to `record`.     *)
(* `fresh` is the Boolean that the last call returned.                     *)
(***************************************************************************)
EXTENDS AckWindow

VARIABLES
  received,         \* BTreeSet of recorded numbers above the prefix
  next_contiguous,  \* length of the contiguous prefix
  seen,
  fresh

vars == <<received, next_contiguous, seen, fresh>>

TypeOK ==
  /\ received \subseteq SeqNo
  /\ next_contiguous \in SeqNo
  /\ seen \subseteq SeqNo
  /\ fresh \in BOOLEAN

Init ==
  /\ received = {}
  /\ next_contiguous = 0
  /\ seen = {}
  /\ fresh = TRUE

\* Mutant of Record: the out-of-order set is cleared whenever the prefix moves.
RecordForgetsHeld(s) ==
  \E gap \in next_contiguous .. (MaxSeq + 1) :
    /\ FirstGap(received \union {s}, next_contiguous, gap)
    /\ received' = IF gap = next_contiguous THEN received \union {s} ELSE {}
    /\ next_contiguous' = Saturate(gap)
    /\ fresh' = (s \notin received)
    /\ seen' = seen \union {s}

\* The loop removes the run that starts at next_contiguous.  At MaxSeq the
\* saturating addition leaves next_contiguous where it is.
Record(s) ==
  LET have == received \union {s}
  IN \E gap \in next_contiguous .. (MaxSeq + 1) :
       /\ FirstGap(have, next_contiguous, gap)
       /\ received' = have \ (next_contiguous .. (gap - 1))
       /\ next_contiguous' = Saturate(gap)
       /\ fresh' = (s \notin received)
       /\ seen' = seen \union {s}

Next == \E s \in SeqNo : Record(s)

Spec == Init /\ [][Next]_vars

------------------------------------------------------------------------------
(* Properties                                                              *)

Ack == Snapshot(received, next_contiguous)

\* What the snapshot of `record`ed numbers acknowledges is exactly what was
\* recorded, within the reach of the bitmap and below the last number of the
\* space: nothing is acknowledged that was never received, and nothing
\* received is withheld (snapshot and acknowledges, core lib.rs).
SnapshotIsExact ==
  \A s \in 0 .. (MaxSeq - 1) :
    s < next_contiguous + AckBits => (Acknowledges(Ack, s) <=> s \in seen)

\* A later snapshot acknowledges everything an earlier one did: recording one
\* more frame, a duplicate included, never withdraws an acknowledgement.  The
\* last number of the space is the exception: `record` drops it when the
\* prefix saturates.  A sender never uses it, its checked_add fails first.
AcknowledgementsOnlyGrow ==
  [][\A s \in 0 .. (MaxSeq - 1) : Acknowledges(Ack, s) => Acknowledges(Ack', s)]_vars

==============================================================================
