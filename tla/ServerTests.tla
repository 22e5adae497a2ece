----------------------------- MODULE ServerTests -----------------------------
(***************************************************************************)
(* The repository's tests of ReorderPackets, OrderingStreamWriter,         *)
(* SessionManager and Server for the basic diode, played on the model of   *)
(* the server: each test is the packets it hands over and what it requires *)
(* after each of them.  The tests run one at a time on a server of their   *)
(* own; here any two of them share one, in every interleaving.             *)
(*                                                                         *)
(* A payload is the number of its frame.  StreamSpy stands for the file:   *)
(* what it was given is the temporary file's content, or the final file's  *)
(* once renameFile was called.  The tests' queue lengths of 4 to 100 are   *)
(* MaxQueueLength = 3, which none of them fills; those with a length of 2  *)
(* overflow 3 as well.                                                     *)
(***************************************************************************)
EXTENDS SessionManager, TLC

CONSTANTS good, tooLong,  \* a session with a name that is accepted, one without
          testFilename, testFilenameRepeated, wrongFilename

VARIABLES
  test,  \* test[s]: the test that session s runs
  at     \* at[s]: how many of its steps were taken

testVars == <<serverVars, test, at>>

(* The tests have no source files: their packets are made by hand.         *)
NoFiles == [s \in Session |-> <<>>]
TestNames == good :> testFilename @@ tooLong :> testFilenameRepeated
-----------------------------------------------------------------------------
(* What a test may require of a call: that it returns FALSE, or TRUE, and  *)
(* what the stream was given; that only; or that the file is deleted.      *)
Waits(output) == [renamed |-> {FALSE}, output |-> output]
Completes(output) == [renamed |-> {TRUE}, output |-> output]
Shows(output) == [renamed |-> BOOLEAN, output |-> output]
Deletes == [renamed |-> {FALSE}, output |-> NoFile]

Data(n, required) == [frame |-> n, eof |-> FALSE, spurious |-> FALSE, required |-> required]
EOF(n, required) == [frame |-> n, eof |-> TRUE, spurious |-> FALSE, required |-> required]
Spurious(n, required) == [frame |-> n, eof |-> TRUE, spurious |-> TRUE, required |-> required]
Sleep(required) == [frame |-> 0, eof |-> FALSE, spurious |-> FALSE, required |-> required]

(* createTestPacketStream and the payload beside it.                       *)
PacketAt(s, step) ==
  [sessionId |-> s, frameCount |-> step.frame, eOFFlag |-> step.eof,
   payload |-> IF step.spurious THEN wrongFilename
               ELSE IF step.eof THEN Name[s] ELSE step.frame,
   copy |-> at[s]]
-----------------------------------------------------------------------------
(* ReorderPacketsTests.cpp *)
InOrder == <<Data(1, Waits(<<1>>)), Data(2, Waits(<<1, 2>>))>>

(* The good file name and the one that is too long, by session; also the   *)
(* EOF in order that closes the stream at once.                            *)
HandlingFilename == <<EOF(1, Completes(<<>>))>>

TwoAndThreeWait == <<Data(2, Waits(<<>>)), Data(3, Waits(<<>>))>>

OneReleasesThem == TwoAndThreeWait \o <<Data(1, Waits(<<1, 2, 3>>))>>

FrameFourIsEOF == OneReleasesThem \o <<EOF(4, Completes(<<1, 2, 3>>))>>

EOFWaitsForMissing ==
  OneReleasesThem \o <<EOF(5, Waits(<<1, 2, 3>>)), Data(4, Completes(<<1, 2, 3, 4>>))>>

AboveEOFIsIgnored ==
  OneReleasesThem \o <<Data(99, Waits(<<1, 2, 3>>)), EOF(4, Completes(<<1, 2, 3>>))>>

SecondEOFIsIgnored ==
  OneReleasesThem \o <<Spurious(99, Waits(<<1, 2, 3>>)), EOF(4, Completes(<<1, 2, 3>>))>>

SpuriousEOFDoesNotReassign ==
  OneReleasesThem \o <<EOF(5, Waits(<<1, 2, 3>>)), Spurious(99, Waits(<<1, 2, 3>>)),
                       Data(4, Completes(<<1, 2, 3, 4>>))>>

HeldInTheQueue == <<Data(3, Waits(<<>>)), EOF(4, Waits(<<>>)), Data(1, Waits(<<1>>)),
                    Data(2, Completes(<<1, 2, 3>>))>>

OutOfOrderEOF == <<Data(2, Waits(<<>>)), EOF(4, Waits(<<>>)), Data(1, Waits(<<1, 2>>)),
                   Data(3, Completes(<<1, 2, 3>>))>>

(* OrderingStreamWriterTests.cpp *)
WriterWrites == <<Data(1, Shows(<<1>>))>>

WriterEOFNotQueued == <<Data(1, Waits(<<1>>)), EOF(2, Completes(<<1>>))>>

WriterEOFQueued == <<EOF(3, Waits(<<>>)), Data(2, Waits(<<>>)), Data(1, Completes(<<1, 2>>))>>

(* SessionManagerTests.cpp *)
NewStreamAfterClosed ==
  <<Data(1, Waits(<<1>>)), EOF(2, Completes(<<1>>)), Data(1, Shows(<<1>>))>>

ExpiredIsDeleted == <<Data(1, Waits(<<1>>)), Sleep(Waits(<<1>>)), Data(2, Deletes)>>

NoRenameWhenExceeded ==
  <<Data(1, Shows(<<1>>)), Data(3, Waits(<<1>>)), Data(4, Waits(<<1>>)),
    Data(5, Waits(<<1>>)), Data(2, Waits(<<1>>))>>

(* ServerTests.cpp *)
ServerWrites == <<Data(1, Shows(<<1>>)), EOF(2, Shows(<<1>>))>>

SameStreamUntilEOF ==
  <<Data(1, Shows(<<1>>)), Data(2, Shows(<<1, 2>>)), EOF(3, Shows(<<1, 2>>))>>

ServerReorders ==
  <<Data(2, Shows(<<>>)), EOF(3, Shows(<<>>)), Data(1, Shows(<<1, 2>>))>>

NotQueuedWhenFull ==
  <<Data(1, Shows(<<1>>)), Data(3, Shows(<<1>>)), Data(4, Shows(<<1>>)),
    Data(5, Shows(<<1>>)), EOF(6, Shows(<<1>>)), Data(2, Shows(<<1>>))>>

TimeoutExceeded == <<Data(1, Shows(<<1>>)), Sleep(Shows(<<1>>)), EOF(2, Deletes)>>

Tests ==
  {InOrder, HandlingFilename, TwoAndThreeWait, OneReleasesThem, FrameFourIsEOF,
   EOFWaitsForMissing, AboveEOFIsIgnored, SecondEOFIsIgnored,
   SpuriousEOFDoesNotReassign, HeldInTheQueue, OutOfOrderEOF,
   WriterWrites, WriterEOFNotQueued, WriterEOFQueued, NewStreamAfterClosed,
   ExpiredIsDeleted, NoRenameWhenExceeded, ServerWrites, SameStreamUntilEOF,
   ServerReorders, NotQueuedWhenFull, TimeoutExceeded}
-----------------------------------------------------------------------------
TestsInit ==
  /\ Init
  /\ test \in [Session -> Tests]
  /\ at = [s \in Session |-> 0]

Running(s) == at[s] < Len(test[s])

Begun(s) == at[s] > 0

NextStep(s) == test[s][at[s] + 1]

TakeStep(s) ==
  /\ Running(s)
  /\ at' = [at EXCEPT ![s] = @ + 1]
  /\ UNCHANGED test

HandOver(s) ==
  /\ TakeStep(s)
  /\ NextStep(s).frame # 0
  /\ ReceivePacket(PacketAt(s, NextStep(s)))

(* Time passes for both, so not in the middle of the other test.           *)
Advance(s) ==
  /\ TakeStep(s)
  /\ NextStep(s).frame = 0
  /\ \A o \in Session \ {s} : Begun(o) => ~Running(o)
  /\ now' = now + Timeout + 1
  /\ UNCHANGED <<streams, temp, files>>

TestsNext == \E s \in Session : HandOver(s) \/ Advance(s)

TestsSpec == TestsInit /\ [][TestsNext]_testVars
-----------------------------------------------------------------------------
Given(s) == IF IsOpen(s) THEN temp[s] ELSE files[DestinationOf(s)]

Renamed(s) == ~IsOpen(s) /\ files[DestinationOf(s)] # NoFile

(* What a test requires after a packet holds until its next one, whatever  *)
(* the session that shares the server does in between.                     *)
EveryTestPasses ==
  \A s \in Session : Begun(s) =>
    LET required == test[s][at[s]].required
    IN  Renamed(s) \in required.renamed /\ Given(s) = required.output
=============================================================================
