------------------------------- MODULE MCEnds -------------------------------
(***************************************************************************)
(* The parts at the ends of a transfer: the client's calls of send, the    *)
(* server's receiving socket, and the rewrapper behind an import diode.  A *)
(* behaviour is about one of them; the variables of the others stay as     *)
(* they are at the start.                                                  *)
(*                                                                         *)
(* For the rewrapper: bytes of one bit, frames of three and two of them,   *)
(* so that four frames go past the end of the mask, and three masks, the   *)
(* zero mask among them.                                                   *)
(***************************************************************************)
EXTENDS ClientRun, UdpServer, StreamingRewrapper

On == {0}
Off == {}
MCOpening == {On}
UnknownKind == <<Off, On, On>>
MCChunk == {<<On, Off, Off>>, UnknownKind, <<On, On>>}
MCKey ==
  {NoMask,
   [i \in 0..7 |-> IF i = 0 THEN On ELSE Off],
   [i \in 0..7 |-> IF i \in {1, 2, 6} THEN On ELSE Off]}

VARIABLE part  \* "client", "receiver" or "rewrapper"

vars == <<part, clientVars, receiverVars, rewrapVars>>

(* The part a behaviour is about begins in every way it can, the others in *)
(* one, the rewrapper with a file it will not take.                        *)
Init ==
  /\ part \in {"client", "receiver", "rewrapper"}
  /\ ClientInit /\ ReceiverInit /\ RewrapInit
  /\ part # "client" => timer = "free"
  /\ part # "receiver" => clientMtu = 1500 /\ serverMtu = 1500
  /\ part # "rewrapper" => ~wrapped /\ source = <<UnknownKind>>

Sending(step) ==
  part = "client" /\ step /\ UNCHANGED <<part, receiverVars, rewrapVars>>
Receiving(step) ==
  part = "receiver" /\ step /\ UNCHANGED <<part, clientVars, rewrapVars>>
Rewrapping(step) ==
  part = "rewrapper" /\ step /\ UNCHANGED <<part, clientVars, receiverVars>>

Next == Sending(ClientNext) \/ Receiving(ReceiverNext) \/ Rewrapping(RewrapNext)

(* The fairness of ReceiverSpec and of RewrapSpec.                         *)
Fairness == WF_vars(Receiving(Handle)) /\ WF_vars(Rewrapping(RewrapNext))

Spec == Init /\ [][Next]_vars /\ Fairness
=============================================================================
