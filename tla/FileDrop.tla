------------------------------ MODULE FileDrop ------------------------------
(***************************************************************************)
(* What the diode promises to the two people who use it.  A sender offers  *)
(* a file; from when the whole of it has been offered, and not before, the *)
(* file may turn up on the receiving side, complete and under its name.    *)
(* It may also never turn up, and it may replace another of its name.      *)
(***************************************************************************)
CONSTANTS
  Sender,     \* who offers a file
  Offer,      \* Offer[s]: the file
  Place,      \* Place[s]: where it is to appear
  Nothing     \* a place with no file

VARIABLES
  offered,    \* the senders that have offered their whole file
  dropped     \* dropped[d]: the file at place d, or Nothing

dropVars == <<offered, dropped>>

Init ==
  /\ offered = {}
  /\ dropped = [d \in {Place[s] : s \in Sender} |-> Nothing]

OfferFile(s) ==
  /\ s \notin offered
  /\ offered' = offered \cup {s}
  /\ UNCHANGED dropped

DropFile(s) ==
  /\ s \in offered
  /\ dropped' = [dropped EXCEPT ![Place[s]] = Offer[s]]
  /\ UNCHANGED offered

Next == \E s \in Sender : OfferFile(s) \/ DropFile(s)

Spec == Init /\ [][Next]_dropVars
=============================================================================
