--------------------------- MODULE ReorderPackets ---------------------------
(***************************************************************************)
(* ReorderPackets: the queue of one session, a heap with the smallest      *)
(* frame count on top, and the loop that empties it in frame order.        *)
(*                                                                         *)
(* Copies of one frame are equal but for their copy tag, so which of them  *)
(* the heap has on top does not matter: Top picks one.                     *)
(***************************************************************************)
EXTENDS Naturals, FiniteSets

CONSTANT MaxQueueLength   \* the --queueLength option

ASSUME QueueAssumption == MaxQueueLength \in Nat

(* A mutant: the limit is checked one packet late.                         *)
AddFrameToQueueLate(queue, p) ==
  IF Cardinality(queue) > MaxQueueLength THEN queue ELSE queue \cup {p}

(* A packet that meets a full queue is dropped, whatever its number.       *)
AddFrameToQueue(queue, p) ==
  IF Cardinality(queue) >= MaxQueueLength THEN queue ELSE queue \cup {p}

(* A mutant: the frame is looked for in the whole queue.                   *)
IsTopAnywhere(queue, f) == \E p \in queue : p.frameCount = f

(* The smallest frame count in the queue is f.                             *)
IsTop(queue, f) ==
  /\ \E p \in queue : p.frameCount = f
  /\ \A p \in queue : p.frameCount >= f

Top(queue, f) == CHOOSE p \in queue : p.frameCount = f

(* What the loop has popped, and what it has left, when it started at      *)
(* frame n and has come to frame m.                                        *)
Popped(queue, n, m) == {Top(queue, f) : f \in n..(m - 1)}

Rest(queue, n, m) == queue \ Popped(queue, n, m)

(* A mutant: the EOF flag is not looked at.                                *)
DrainsPastEOF(queue, n, m) ==
  \A f \in n..(m - 1) : IsTop(Rest(queue, n, f), f)

(* The loop that starts at frame n comes to frame m: each frame before m   *)
(* was on top in its turn and was not the EOF frame.                       *)
Drains(queue, n, m) ==
  \A f \in n..(m - 1) : /\ IsTop(Rest(queue, n, f), f)
                        /\ ~Top(queue, f).eOFFlag

(* Where the loop can be: no further than the queue is long.               *)
Reach(queue, n) == {m \in n..(n + Cardinality(queue)) : Drains(queue, n, m)}

(* A mutant: the frame that was written stays on top.                      *)
WrittenUnpopped(queue, n, m) == [i \in 1..(m - n) |-> Top(queue, n).payload]

(* The payloads written to the stream on the way from n to m.              *)
Written(queue, n, m) ==
  [i \in 1..(m - n) |-> Top(queue, n + i - 1).payload]
=============================================================================
