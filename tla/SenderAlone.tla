------------------------------ MODULE SenderAlone ------------------------------
(***************************************************************************)
(* The sender of one body against any peer: acknowledgements of frames it  *)
(* was given, in any order, with any advertised window.                    *)
(***************************************************************************)
EXTENDS BodySource

\* A peer acknowledges only what it was sent, and its snapshots have the shape
\* that ReceiveWindow produces: the first missing number is never selected.
PeerAcks ==
  UNION {[next : {n}, selective : SUBSET {s \in (n + 1) .. (next_sequence - 1) : s < n + AckBits},
          window : 0 .. AckBits] : n \in 0 .. next_sequence}

Init == \E peer \in 1 .. AckBits : SourceInit(peer)

Next ==
  \/ StartReading
  \/ StopReading
  \/ \E released \in 0 .. MaxReleased, last \in BOOLEAN : PushPart(released, last)
  \/ \E trailing \in 0 .. MaxReleased : CloseInput(trailing)
  \/ \E ack \in PeerAcks : ApplyAck(ack)
  \/ \E window \in 1 .. AckBits : ApplyPeerWindow(window)
  \/ \E due \in SUBSET (in_flight \ unsent) : Dispatch(due)

Spec == Init /\ [][Next]_sourceVars

\* The values of the sender's variables stay within their types.
TypeOK == OutboundTypeOK /\ SourceTypeOK

==============================================================================
