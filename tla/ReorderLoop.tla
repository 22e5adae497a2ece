----------------------------- MODULE ReorderLoop -----------------------------
(***************************************************************************)
(* The loop of ReorderPackets::checkQueueAndWrite, turn by turn, beside    *)
(* the closed form the server model uses.                                  *)
(***************************************************************************)
EXTENDS SharedSession

(* The heap: an element no other is smaller than.                          *)
HeapTop(q) == CHOOSE p \in q : \A o \in q : p.frameCount <= o.frameCount

(* The loop that starts at frame n with the queue q.                       *)
LoopStart(q, n) == [rest |-> q, at |-> n, written |-> <<>>, complete |-> FALSE]

(* The while condition, or a loop that has returned.                       *)
LoopEnds(l) ==
  l.complete \/ l.rest = {} \/ HeapTop(l.rest).frameCount # l.at

(* One turn: the EOF frame is popped and ends it, another frame is written *)
(* and popped.                                                             *)
LoopTurn(l) ==
  LET p == HeapTop(l.rest)
  IN  IF LoopEnds(l) THEN l
      ELSE IF p.eOFFlag
           THEN [l EXCEPT !.rest = @ \ {p}, !.complete = TRUE]
           ELSE [l EXCEPT !.rest = @ \ {p}, !.at = @ + 1,
                          !.written = Append(@, p.payload)]

(* The loop after k turns; it takes one turn for a packet at most.         *)
LoopAfter(q, n) ==
  LET loop[k \in Nat] == IF k = 0 THEN LoopStart(q, n) ELSE LoopTurn(loop[k - 1])
  IN  loop

LoopOutcome(q, n) == LoopAfter(q, n)[Cardinality(q)]
-----------------------------------------------------------------------------
(* The frames that come to session i are copies of one file's.             *)
ClientsOf(i) == {c \in Client : id[c] = i}
OneFile(i) ==
  \A c, d \in ClientsOf(i) : Source[c] = Source[d] /\ Name[c] = Name[d]
CopiesFor(i) == UNION {PacketsFrom(c) : c \in ClientsOf(i)}

(* Where Reach says the loop can be, exactly one place is one where it     *)
(* stops.                                                                  *)
Stops(q, n) ==
  {m \in Reach(q, n) : \/ ~IsTop(Rest(q, n, m), m)
                       \/ Top(Rest(q, n, m), m).eOFFlag}

(* The closed form stops where the loop does, with the same queue, output  *)
(* and verdict.                                                            *)
ClosedFormAgrees(q, n) ==
  LET out == LoopOutcome(q, n)
      rest == Rest(q, n, out.at)
  IN  /\ LoopEnds(out)
      /\ Stops(q, n) = {out.at}
      /\ Written(q, n, out.at) = out.written
      /\ out.complete = IsTop(rest, out.at)
      /\ out.rest = IF out.complete THEN rest \ {Top(rest, out.at)} ELSE rest

(* Whatever a session whose frames are copies of one file's has queued and *)
(* whichever of them comes next, the closed form stops where the loop of   *)
(* checkQueueAndWrite does, with its queue, its output and its verdict.    *)
ReachIsLoop ==
  \A i \in Id : OneFile(i) /\ Writable(i) = {} =>
    \A p \in CopiesFor(i) \ stream[i].queue :
      ClosedFormAgrees(AddFrameToQueue(stream[i].queue, p),
                       stream[i].nextFrameCount)
=============================================================================
