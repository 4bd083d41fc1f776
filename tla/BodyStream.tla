------------------------------- MODULE BodyStream -------------------------------
(***************************************************************************)
(* One body transfer over AppMessages.  The network may deliver messages   *)
(* in any order, deliver them more than once, and lose them: it is the set *)
(* of the messages sent so far, each of which may be delivered at any time *)
(* and any number of times.  A lost message is one that is not delivered,  *)
(* and sending a frame again adds nothing to the set.                      *)
(*                                                                         *)
(* Frames sent in one bundle are handled one after another and share its   *)
(* fate; here each frame has its own, which includes that of the bundle.   *)
(***************************************************************************)
EXTENDS BodyEndpoints

VARIABLES
  data_net,   \* frames sent
  ack_net     \* acknowledgements sent

vars == <<endpointVars, data_net, ack_net>>

netVars == <<data_net, ack_net>>

AckMessage == [next : SeqNo, selective : SUBSET SeqNo, window : 0 .. AckBits]

TypeOK ==
  /\ EndpointTypeOK
  /\ data_net \subseteq Frame
  /\ ack_net \subseteq AckMessage

Init ==
  /\ EndpointInit
  /\ data_net = {}
  /\ ack_net = {}

------------------------------------------------------------------------------
Produce == (WaitForChunk \/ ChunkPart \/ EndInput \/ ReopenWindow) /\ UNCHANGED netVars

Send ==
  \E due \in SUBSET (in_flight \ unsent) :
    /\ Dispatch(due)
    /\ data_net' = data_net \union {FrameAt(s) : s \in Sendable(due)}
    /\ UNCHANGED <<inboundVars, sink, reopened, ack_net>>

DeliverFrame(f) ==
  /\ HandleFrame(f)
  /\ ack_net' = ack_net \union Acks(f)
  /\ UNCHANGED data_net

DeliverUnread(f) ==
  /\ HandleFrameUnread(f)
  /\ UNCHANGED netVars

DeliverAck(ack) ==
  /\ HandleAck(ack)
  /\ UNCHANGED netVars

Stop == (StopSource \/ StopSink) /\ UNCHANGED netVars

Next ==
  \/ Produce
  \/ Send
  \/ \E f \in data_net : DeliverFrame(f) \/ DeliverUnread(f)
  \/ \E ack \in ack_net : DeliverAck(ack)
  \/ Stop

Spec == Init /\ [][Next]_vars

==============================================================================
