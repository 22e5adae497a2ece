------------------------------ MODULE EDHeader ------------------------------
(***************************************************************************)
(* The Enterprise Diode header byte by byte, and frame counts that wrap.   *)
(*                                                                         *)
(* One client increments the count in its header buffer for every frame,   *)
(* the diode writes its own header into the end of the buffer, a network   *)
(* that loses nothing delivers at most Window frames out of turn, and the  *)
(* server reads the header back and writes the frames it awaits, smallest  *)
(* count first.  A frame is known to the model by its place in the file,   *)
(* which is not transmitted.                                               *)
(***************************************************************************)
EXTENDS Integers, FiniteSets

CONSTANTS
  Base,     \* the values of a byte: 256 in the code
  Frames,   \* the data frames of the file
  Window,   \* bound: how many frames may overtake one
  Session   \* the session ids the client may draw

ASSUME BaseAssumption == Base \in Nat \ {0, 1}
ASSUME FramesAssumption == Frames \in Nat /\ Window \in Nat
ASSUME SessionAssumption == Session \subseteq Nat

VARIABLES
  headerBuffer,    \* the client's buffer
  produced,        \* the frames it has sent
  session,         \* what setSessionID drew
  wire,            \* the datagrams on their way
  queue, nextFrameCount,
  written,         \* the places of the frames written, in order
  complete

headerVars == <<headerBuffer, produced, session, wire, queue, nextFrameCount,
                written, complete>>

HeaderSizeInBytes == 112
SessionIDIndex == 0

(* A mutant: the frame count overlaps the session id.                      *)
FrameCountIndexOverlap == 3

FrameCountIndex == 4
EOFFlagIndex == 8
cloakedDaggerSize == 48

Byte == 0..(Base - 1)
Modulus == Base * Base * Base * Base

(* memcpy from and to a little-endian 32-bit integer.                      *)
Extract(buffer, pos) ==
  buffer[pos] + Base * (buffer[pos + 1]
              + Base * (buffer[pos + 2] + Base * buffer[pos + 3]))

Digit(n, i) ==
  CASE i = 0 -> n % Base
    [] i = 1 -> (n \div Base) % Base
    [] i = 2 -> (n \div (Base * Base)) % Base
    [] i = 3 -> (n \div (Base * Base * Base)) % Base

Stored(buffer, pos, n) ==
  [i \in DOMAIN buffer |->
     IF i \in pos..(pos + 3) THEN Digit(n, i - pos) ELSE buffer[i]]

IncrementFrameCount(buffer) ==
  Stored(buffer, FrameCountIndex,
         (Extract(buffer, FrameCountIndex) + 1) % Modulus)

SetEOF(buffer) == [buffer EXCEPT ![EOFFlagIndex] = 1]

(* The diode's header in the last 48 bytes.                                *)
Wrapped(buffer, b) ==
  [i \in DOMAIN buffer |->
     IF i >= HeaderSizeInBytes - cloakedDaggerSize THEN b ELSE buffer[i]]

ReadHeaderParams(buffer) ==
  [sessionId |-> Extract(buffer, SessionIDIndex),
   frameCount |-> Extract(buffer, FrameCountIndex),
   eOFFlag |-> buffer[EOFFlagIndex] = 1,
   cloakedDaggerHeader |->
     [i \in 0..(cloakedDaggerSize - 1) |->
        buffer[HeaderSizeInBytes - cloakedDaggerSize + i]]]
-----------------------------------------------------------------------------
HeaderInit(ids) ==
  /\ session \in ids
  /\ headerBuffer = Stored([i \in 0..(HeaderSizeInBytes - 1) |-> 0],
                           SessionIDIndex, session)
  /\ produced = 0
  /\ wire = {}
  /\ queue = {}
  /\ nextFrameCount = 1
  /\ written = 0
  /\ complete = FALSE

(* generateEDPacket; the frame after the last data frame is the EOF frame. *)
SendFrame ==
  /\ produced <= Frames
  /\ headerBuffer' = LET counted == IncrementFrameCount(headerBuffer)
                     IN  IF produced = Frames THEN SetEOF(counted) ELSE counted
  /\ produced' = produced + 1
  /\ wire' = wire \cup
       {[header |-> Wrapped(headerBuffer', Base - 1), place |-> produced']}
  /\ UNCHANGED <<session, queue, nextFrameCount, written, complete>>

(* The frames that may come next: those at most Window newer than the      *)
(* oldest one under way.                                                   *)
Arrivable == {d \in wire : \A o \in wire : d.place - o.place <= Window}

TopOf(q) == {d \in q : \A o \in q :
              d.params.frameCount <= o.params.frameCount}

(* addFrameToQueue, without a limit.                                       *)
Queued(d) ==
  queue \cup {[params |-> ReadHeaderParams(d.header), place |-> d.place]}

(* A mutant: the count the server awaits does not wrap.                    *)
CountUpUnbounded(n) == n + 1

CountUp(n) == (n + 1) % Modulus

ReceiveHeader ==
  /\ ~complete
  /\ \A d \in TopOf(queue) : d.params.frameCount # nextFrameCount
  /\ \E d \in Arrivable :
       /\ wire' = wire \ {d}
       /\ queue' = Queued(d)
  /\ UNCHANGED <<headerBuffer, produced, session, nextFrameCount, written, complete>>

(* A mutant: a frame ahead of the awaited one is written.                  *)
WriteTopAhead ==
  /\ ~complete
  /\ \E d \in TopOf(queue) :
       /\ d.params.frameCount >= nextFrameCount
       /\ queue' = queue \ {d}
       /\ IF d.params.eOFFlag
          THEN complete' = TRUE /\ UNCHANGED <<nextFrameCount, written>>
          ELSE /\ nextFrameCount' = CountUp(nextFrameCount)
               /\ written' = IF d.place = written + 1 THEN d.place ELSE -1
               /\ UNCHANGED complete
  /\ UNCHANGED <<headerBuffer, produced, session, wire>>

(* One turn of checkQueueAndWrite's loop.                                  *)
WriteTop ==
  /\ ~complete
  /\ \E d \in TopOf(queue) :
       /\ d.params.frameCount = nextFrameCount
       /\ queue' = queue \ {d}
       /\ IF d.params.eOFFlag
          THEN complete' = TRUE /\ UNCHANGED <<nextFrameCount, written>>
          ELSE /\ nextFrameCount' = CountUp(nextFrameCount)
               /\ written' = IF d.place = written + 1 THEN d.place ELSE -1
               /\ UNCHANGED complete
  /\ UNCHANGED <<headerBuffer, produced, session, wire>>

HeaderStep == SendFrame \/ ReceiveHeader \/ WriteTop

HeaderSpec == HeaderInit(Session) /\ [][HeaderStep]_headerVars
-----------------------------------------------------------------------------
(* Every header on its way reads as what was stored in it one field after  *)
(* the other: its count is its place modulo 2^32, only the last is flagged *)
(* and neither the count nor the diode's header has run into its           *)
(* neighbours.                                                             *)
HeadersReadBack ==
  \A d \in wire :
    LET params == ReadHeaderParams(d.header)
    IN  /\ params.sessionId = session % Modulus
        /\ params.frameCount = d.place % Modulus
        /\ params.eOFFlag <=> d.place = Frames + 1
        /\ \A i \in DOMAIN params.cloakedDaggerHeader :
             params.cloakedDaggerHeader[i] = Base - 1

(* Frames of one count, one cycle apart, are never taken for each other:   *)
(* what is written is the file from its start, in order.                   *)
WrittenInPlace == written >= 0 /\ (complete => written = Frames)

AllArrived == produced = Frames + 1 /\ wire = {}
AwaitedOnTop == \E d \in TopOf(queue) : d.params.frameCount = nextFrameCount

(* A transfer of which everything came is stuck only when it awaits a      *)
(* count just below the wrap, which a frame from just above it overtook:   *)
(* away from the wrap, and in order across it, it completes.               *)
StuckOnlyAtWrap ==
  (AllArrived /\ ~complete /\ ~AwaitedOnTop) =>
    nextFrameCount \in (Modulus - Window)..(Modulus - 1)

(* "Re-ordering of UDP packets".                                           *)
AllArrivedIsComplete == (AllArrived /\ ~AwaitedOnTop) => complete
=============================================================================
