------------------------------ MODULE InboundBody ------------------------------
(***************************************************************************)
(* InboundBody of crates/veilid-http-engine: the receiving half of one     *)
(* body.  ReceiveWindow records sequence numbers for acknowledgement, the  *)
(* Reassembler orders payloads, the StreamDecoder consumes them and checks *)
(* the whole body against the End frame, length and digest.                *)
(*                                                                         *)
(* The decoder's input is the history variable `delivered`: the sequence   *)
(* numbers of the payloads it consumed, in that order.  Length and digest  *)
(* hold exactly when these are 0, 1, ... up to the End frame.  A payload   *)
(* takes one unit of the out-of-order budget.                              *)
(***************************************************************************)
EXTENDS AckWindow, Sequences

CONSTANTS
  Capacity,   \* capacity given to new: the advertised receive window
  MaxHeld     \* out-of-order budget of the Reassembler, in frames

ASSUME InboundAssumption == Capacity \in 1 .. AckBits /\ MaxHeld \in Nat

VARIABLES
  received,         \* ReceiveWindow: recorded numbers above the prefix
  next_contiguous,  \* ReceiveWindow: length of the recorded prefix
  held,             \* Reassembler: sequence numbers of the pending payloads
  next_delivery,    \* Reassembler: next sequence number to release
  pending_end,      \* sequence number of the End frame seen, or None
  decoder,          \* "live", or "taken" once finish consumed it
  completed,        \* length and digest were verified
  delivered,        \* history: payloads the decoder consumed
  result            \* what the last receive returned

receiveVars == <<received, next_contiguous, held, next_delivery>>
inboundVars == <<receiveVars, pending_end, decoder, completed, delivered, result>>

None == -1

Results == {"ok", "PendingLimit", "AlreadyFinished", "Integrity", "ConflictingEnd"}

InboundTypeOK ==
  /\ received \subseteq SeqNo
  /\ next_contiguous \in SeqNo
  /\ held \subseteq SeqNo
  /\ next_delivery \in SeqNo
  /\ pending_end \in SeqNo \union {None}
  /\ decoder \in {"live", "taken"}
  /\ completed \in BOOLEAN
  /\ delivered \in Seq(SeqNo)
  /\ result \in Results

InboundInit ==
  /\ received = {}
  /\ next_contiguous = 0
  /\ held = {}
  /\ next_delivery = 0
  /\ pending_end = None
  /\ decoder = "live"
  /\ completed = FALSE
  /\ delivered = <<>>
  /\ result = "ok"

------------------------------------------------------------------------------
\* ReceiveWindow::record(s) on the set `have` and the prefix length `from`.
RecordInto(s, have, from) ==
  \E gap \in from .. (MaxSeq + 1) :
    /\ FirstGap(have \union {s}, from, gap)
    /\ received' = (have \union {s}) \ (from .. (gap - 1))
    /\ next_contiguous' = Saturate(gap)

\* Mutant of Repeated: only payloads still pending count as repeated.
RepeatedIfHeld(s) == s \in held

\* Reassembler::push drops a payload that was released or is pending, and tests
\* its budget before the payload itself can be released.
Repeated(s) == s < next_delivery \/ s \in held

OverBudget(s) == ~ Repeated(s) /\ Cardinality(held) + 1 > MaxHeld

\* The payload numbers first, first + 1, ..., beyond - 1 as a sequence.
Numbers(first, beyond) == [i \in 1 .. (beyond - first) |-> first + i - 1]

\* Mutant of Release: draining starts at the new payload instead of at the next
\* one to deliver.
ReleaseFromArrival(s) ==
  \E gap \in s .. (MaxSeq + 1) :
    /\ FirstGap(held \union {s}, s, gap)
    /\ held' = (held \union {s}) \ (s .. (gap - 1))
    /\ next_delivery' = Saturate(gap)
    /\ delivered' = IF decoder = "live" THEN delivered \o Numbers(s, gap) ELSE delivered

\* The new payload and those behind it that it connects leave the Reassembler
\* and enter the decoder, unless a failed finish already consumed the decoder.
Release(s) ==
  \E gap \in next_delivery .. (MaxSeq + 1) :
    /\ FirstGap(held \union {s}, next_delivery, gap)
    /\ held' = (held \union {s}) \ (next_delivery .. (gap - 1))
    /\ next_delivery' = Saturate(gap)
    /\ delivered' = IF decoder = "live" THEN delivered \o Numbers(next_delivery, gap)
                                       ELSE delivered

\* Mutant of Verified: the comparison is left out.
Unverified(end) == TRUE

\* decoder.finish compares length and digest with the End frame.
Verified(end) == next_delivery' = end

\* try_finish with the window <<have, contiguous>> that this receive recorded.
\* A verified body records its End frame, which makes it acknowledgeable.
TryFinish(have, contiguous) ==
  LET end == pending_end'
      due == end # None /\ contiguous = end
      verified == due /\ decoder = "live" /\ Verified(end)
  IN /\ IF verified THEN RecordInto(end, have, contiguous)
                    ELSE received' = have /\ next_contiguous' = contiguous
     /\ decoder' = IF due THEN "taken" ELSE decoder
     /\ completed' = (completed \/ verified)
     /\ result' = IF ~ due \/ verified THEN "ok"
                  ELSE IF decoder = "taken" THEN "AlreadyFinished" ELSE "Integrity"

------------------------------------------------------------------------------
\* receive of a Data frame.  The sequence number is recorded first; an error of
\* the reassembler or the decoder leaves it recorded.
ReceiveData(s) ==
  IF completed \/ s \in received
  THEN result' = "ok" /\ UNCHANGED <<receiveVars, pending_end, decoder, completed, delivered>>
  ELSE \E gap \in next_contiguous .. (MaxSeq + 1) :
    LET have == (received \union {s}) \ (next_contiguous .. (gap - 1))
        contiguous == Saturate(gap)
        failed == received' = have /\ next_contiguous' = contiguous
                  /\ UNCHANGED <<decoder, completed>>
    IN /\ FirstGap(received \union {s}, next_contiguous, gap)
       /\ UNCHANGED pending_end
       /\ \/ /\ OverBudget(s)
             /\ failed
             /\ result' = "PendingLimit"
             /\ UNCHANGED <<held, next_delivery, delivered>>
          \/ /\ Repeated(s)
             /\ UNCHANGED <<held, next_delivery, delivered>>
             /\ TryFinish(have, contiguous)
          \/ /\ ~ Repeated(s) /\ ~ OverBudget(s)
             /\ Release(s)
             /\ IF decoder = "taken" /\ next_delivery' # next_delivery
                THEN failed /\ result' = "AlreadyFinished"
                ELSE TryFinish(have, contiguous)

\* receive of an End frame: it is kept until the data before it is recorded.
ReceiveEnd(s) ==
  IF completed
  THEN result' = "ok" /\ UNCHANGED <<receiveVars, pending_end, decoder, completed, delivered>>
  ELSE IF pending_end \notin {None, s}
  THEN /\ result' = "ConflictingEnd"
       /\ UNCHANGED <<receiveVars, pending_end, decoder, completed, delivered>>
  ELSE /\ pending_end' = s
       /\ UNCHANGED <<held, next_delivery, delivered>>
       /\ TryFinish(received, next_contiguous)

\* The acknowledgement a successful receive returns.
Ack(have, contiguous) ==
  LET snapshot == Snapshot(have, contiguous)
      buffered == Cardinality(snapshot.selective)
  IN [next      |-> snapshot.next,
      selective |-> snapshot.selective,
      window    |-> IF buffered < Capacity THEN Capacity - buffered ELSE 0]

==============================================================================
