-------------------------- MODULE MCBridgeTransactions --------------------------
(***************************************************************************)
(* BridgeTransactions for model checking: calls are alike, and so are the  *)
(* identifiers whose request is well formed.                               *)
(***************************************************************************)
EXTENDS BridgeTransactions, TLC

Symmetry == Permutations(Calls) \cup Permutations(Ids \ Malformed)

\* What the steps, AtMostOnce and ClaimsExclude can tell of a state, for the run that
\* checks these two: which reply a handler gave, how a task ended and the history
\* raced make no difference to them, nor does the kind of a call that is over.
Over(c) == handler[c] \in Replies /\ task[c] \in {"none", "done", "aborted"}

Stage(c) ==
  IF Over(c) THEN <<Id(c)>>
  ELSE <<request[c],
         IF handler[c] \in Replies THEN "replied" ELSE handler[c],
         IF task[c] = "aborted" THEN "done" ELSE task[c]>>

Distinguished ==
  <<storeVars, [c \in Calls |-> Stage(c)], stored, registered, loop, doomed, restarts, aged,
    forwards, saved>>

\* Symmetry by hand, where a liveness property forbids TLC's: as calls are alike and
\* never change their request, it is enough that one of them has the least request.
Rank(r) == (IF r.kind = "open" THEN 0 ELSE 2) + (IF r.id \in Malformed THEN 0 ELSE 1)

Sorted ==
  LET least == CHOOSE c \in Calls : TRUE
  IN  \A c \in Calls : Rank(request[least]) <= Rank(request[c])

SortedInit == Init /\ Sorted

SortedSpec == SortedInit /\ [][Next]_vars /\ Fairness

==============================================================================
