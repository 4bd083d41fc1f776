----------------------------- MODULE ReliableStream -----------------------------
(***************************************************************************)
(* What one body transfer promises its two ends, whatever the network      *)
(* does: the reader gets a prefix of what was written, in order and each   *)
(* piece once; the body is verified only after it was closed and read to   *)
(* its end; the writer is told of completion only after that.  A transfer  *)
(* may stop at any point.                                                  *)
(*                                                                         *)
(* Pieces are numbered 0, 1, ... in the order in which they are written.   *)
(***************************************************************************)
EXTENDS Integers, Sequences

VARIABLES
  written,    \* number of pieces written
  closed,     \* no more will be written
  read,       \* the pieces that were read, in the order of reading
  verified,   \* the reader knows that it read the whole body
  confirmed   \* the writer knows that the reader does

vars == <<written, closed, read, verified, confirmed>>

Init ==
  /\ written = 0
  /\ closed = FALSE
  /\ read = <<>>
  /\ verified = FALSE
  /\ confirmed = FALSE

Write ==
  /\ ~ closed
  /\ written' \in Nat
  /\ written' >= written
  /\ closed' \in BOOLEAN
  /\ UNCHANGED <<read, verified, confirmed>>

\* Read the next pieces, and verify the body when they are its last ones.
Read ==
  /\ ~ verified
  /\ \E upto \in Len(read) .. written :
       read' = read \o [i \in 1 .. (upto - Len(read)) |-> Len(read) + i - 1]
  /\ \/ verified' = FALSE
     \/ verified' = TRUE /\ closed /\ Len(read') = written
  /\ UNCHANGED <<written, closed, confirmed>>

Confirm ==
  /\ verified
  /\ confirmed' = TRUE
  /\ UNCHANGED <<written, closed, read, verified>>

Next == Write \/ Read \/ Confirm

Spec == Init /\ [][Next]_vars

==============================================================================
