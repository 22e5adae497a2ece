------------------------ MODULE DiodeTransfer_proofs ------------------------
(***************************************************************************)
(* Clients, network and server together implement FileDrop, whatever the   *)
(* files, the names, the bounds and the failures.                          *)
(***************************************************************************)
EXTENDS DiodeTransfer, SessionManager_proofs

(* What the server knows of a session its client has sent: an EOF frame    *)
(* under way or in a queue means that the client is done.                  *)
EOFMeansDone(packets) == \A p \in packets : p.eOFFlag => status[p.sessionId] = "done"

(* A client that is sending has not come to the EOF frame; one that is done *)
(* has just sent it.                                                       *)
CountOK(s) ==
  /\ status[s] = "sending" => frameCount[s] < EOFFrame(s)
  /\ status[s] = "done" => frameCount[s] = EOFFrame(s)

TransferInv ==
  /\ Inv
  /\ frameCount \in [Session -> Nat]
  /\ status \in [Session -> {"sending", "done", "aborted"}]
  /\ duplicates \in 0..MaxDuplicates
  /\ net \subseteq Packet
  /\ lost \subseteq Session
  /\ restarts \in 0..MaxRestarts
  /\ \A s \in Session : CountOK(s)
  /\ EOFMeansDone(net)
  /\ \A s \in Session : IsOpen(s) => EOFMeansDone(streams[s].queue)

LEMMA FrameIsPacket ==
  ASSUME NEW s \in Session, NEW f \in FrameNo(s), NEW c \in Copy
  PROVE  /\ FramePacket(s, f, c) \in Packet
         /\ FramePacket(s, f, c).sessionId = s
         /\ FramePacket(s, f, c).eOFFlag <=> f = EOFFrame(s)
<1>1. FramePacket(s, f, c) \in PacketsOf(s)
  BY DEF PacketsOf
<1>2. FramePacket(s, f, c).frameCount = f
  BY DEF FramePacket
<1> QED
  BY <1>1, <1>2, PacketOfSession

(* The next frame of a client that is sending is a packet of its session.  *)
LEMMA NextFrame ==
  ASSUME TransferInv, NEW s \in Session, status[s] = "sending"
  PROVE  LET p == FramePacket(s, frameCount[s] + 1, 1)
         IN  /\ p \in Packet
             /\ p.sessionId = s
             /\ p.eOFFlag <=> frameCount[s] + 1 = EOFFrame(s)
<1>1. frameCount[s] + 1 \in FrameNo(s)
  BY EOFFrameType DEF TransferInv, CountOK, FrameNo
<1>2. 1 \in Copy
  BY EnoughCopies, SwitchAssumption
<1> QED
  BY <1>1, <1>2, FrameIsPacket

LEMMA ServerStutters ==
  ASSUME Inv, UNCHANGED serverVars
  PROVE  Inv'
BY DEF serverVars, Inv, TypeOK, WrittenIsPrefix, FileIntact, IsOpen,
       StreamConsistent

LEMMA SendFrameOK ==
  ASSUME TransferInv, NEW s \in Session, SendFrame(s)
  PROVE  TransferInv'
<1> DEFINE p == FramePacket(s, frameCount[s] + 1, 1)
<1>1. /\ status[s] = "sending"
      /\ frameCount' = [frameCount EXCEPT ![s] = @ + 1]
      /\ net' = net \cup {p}
      /\ status' = [status EXCEPT ![s] = IF p.eOFFlag THEN "done" ELSE @]
      /\ UNCHANGED <<serverVars, lost, duplicates, restarts>>
  BY DEF SendFrame
<1>2. /\ p \in Packet /\ p.sessionId = s
      /\ p.eOFFlag <=> frameCount[s] + 1 = EOFFrame(s)
  BY <1>1, NextFrame
<1> HIDE DEF p
<1>3. Inv'
  BY <1>1, ServerStutters DEF TransferInv
<1>4. \A t \in Session : status[t] = "done" => status'[t] = "done"
  BY <1>1 DEF TransferInv
<1>5. p.eOFFlag => status'[s] = "done"
  BY <1>1 DEF TransferInv
<1>6. EOFMeansDone(net)'
  <2> SUFFICES ASSUME NEW o \in net', o.eOFFlag
               PROVE  status'[o.sessionId] = "done"
    BY DEF EOFMeansDone
  <2>1. CASE o = p
    BY <1>2, <1>5, <2>1
  <2>2. CASE o \in net
    <3>1. o.sessionId \in Session
      BY <2>2, PacketHasSession DEF TransferInv
    <3> QED
      BY <1>4, <2>2, <3>1 DEF TransferInv, EOFMeansDone
  <2> QED
    BY <1>1, <2>1, <2>2
<1>7. \A t \in Session : IsOpen(t)' => EOFMeansDone(streams[t].queue)'
  <2> SUFFICES ASSUME NEW t \in Session, IsOpen(t),
                      NEW o \in streams[t].queue, o.eOFFlag
               PROVE  status'[o.sessionId] = "done"
    BY <1>1 DEF serverVars, IsOpen, EOFMeansDone
  <2>1. o.sessionId = t
    BY PacketOfSession DEF TransferInv, Inv, TypeOK
  <2> QED
    BY <1>4, <2>1 DEF TransferInv, EOFMeansDone
<1>8. \A t \in Session : CountOK(t)'
  <2> SUFFICES ASSUME NEW t \in Session
               PROVE  CountOK(t)'
    OBVIOUS
  <2>1. CASE t = s
    <3>1. frameCount[s] \in Nat /\ frameCount[s] < EOFFrame(s)
      BY <1>1 DEF TransferInv, CountOK
    <3>2. frameCount'[s] = frameCount[s] + 1
      BY <1>1 DEF TransferInv
    <3>3. status'[s] = IF p.eOFFlag THEN "done" ELSE "sending"
      BY <1>1 DEF TransferInv
    <3> QED
      BY <1>2, <2>1, <3>1, <3>2, <3>3, EOFFrameType DEF CountOK
  <2>2. CASE t # s
    BY <1>1, <2>2 DEF TransferInv, CountOK
  <2> QED
    BY <2>1, <2>2
<1>9. /\ frameCount' \in [Session -> Nat]
      /\ status' \in [Session -> {"sending", "done", "aborted"}]
  BY <1>1 DEF TransferInv
<1> QED
  BY <1>1, <1>2, <1>3, <1>6, <1>7, <1>8, <1>9 DEF TransferInv

LEMMA SendThrowsOK ==
  ASSUME TransferInv, NEW s \in Session, SendThrows(s)
  PROVE  TransferInv'
<1>1. /\ status[s] = "sending"
      /\ frameCount' = [frameCount EXCEPT ![s] = @ + 1]
      /\ status' = [status EXCEPT ![s] = "aborted"]
      /\ UNCHANGED <<serverVars, net, lost, duplicates, restarts>>
  BY DEF SendThrows, netVars
<1>2. Inv'
  BY <1>1, ServerStutters DEF TransferInv
<1>3. \A t \in Session : /\ status[t] = "done" => status'[t] = "done"
                         /\ status'[t] = "sending" =>
                              status[t] = "sending" /\ frameCount'[t] = frameCount[t]
  BY <1>1 DEF TransferInv
<1>4. EOFMeansDone(net)'
  BY <1>1, <1>3, PacketHasSession DEF TransferInv, EOFMeansDone
<1>5. \A t \in Session : IsOpen(t)' => EOFMeansDone(streams[t].queue)'
  <2> SUFFICES ASSUME NEW t \in Session, IsOpen(t),
                      NEW o \in streams[t].queue, o.eOFFlag
               PROVE  status'[o.sessionId] = "done"
    BY <1>1 DEF serverVars, IsOpen, EOFMeansDone
  <2>1. o.sessionId = t
    BY PacketOfSession DEF TransferInv, Inv, TypeOK
  <2> QED
    BY <1>3, <2>1 DEF TransferInv, EOFMeansDone
<1>6. \A t \in Session : CountOK(t)'
  BY <1>1, <1>3 DEF TransferInv, CountOK
<1>7. /\ frameCount' \in [Session -> Nat]
      /\ status' \in [Session -> {"sending", "done", "aborted"}]
  BY <1>1 DEF TransferInv
<1> QED
  BY <1>1, <1>2, <1>4, <1>5, <1>6, <1>7 DEF TransferInv

LEMMA NetworkOK ==
  ASSUME TransferInv, NEW p \in net, Lose(p) \/ Duplicate(p)
  PROVE  TransferInv'
<1>1. UNCHANGED <<streams, temp, files, now, frameCount, status, restarts>>
  BY DEF Lose, Duplicate, serverVars, clientVars
<1>2. Inv'
  BY <1>1, ServerStutters DEF TransferInv, serverVars
<1>3. p \in Packet /\ p.sessionId \in Session /\ p.frameCount \in FrameNo(p.sessionId)
      /\ (p.eOFFlag <=> p.frameCount = EOFFrame(p.sessionId))
  BY PacketHasSession, PacketOfSession DEF TransferInv
<1>4. /\ net' \subseteq Packet
      /\ duplicates' \in 0..MaxDuplicates
      /\ lost' \subseteq Session
      /\ \A o \in net' : o.eOFFlag => status[o.sessionId] = "done"
  <2>1. CASE Lose(p)
    BY <1>3, <2>1 DEF Lose, TransferInv, EOFMeansDone
  <2>2. CASE Duplicate(p)
    <3> DEFINE o == FramePacket(p.sessionId, p.frameCount, duplicates + 2)
    <3>1. /\ net' = net \cup {o} /\ lost' = lost
          /\ duplicates < MaxDuplicates /\ duplicates' = duplicates + 1
      BY <2>2 DEF Duplicate
    <3>2. duplicates' \in 0..MaxDuplicates /\ duplicates + 2 \in Copy
      BY <3>1, EnoughCopies, SwitchAssumption DEF TransferInv
    <3>3. /\ o \in Packet /\ o.sessionId = p.sessionId
          /\ o.eOFFlag <=> p.eOFFlag
      BY <1>3, <3>2, FrameIsPacket
    <3> HIDE DEF o
    <3> QED
      BY <3>1, <3>2, <3>3 DEF TransferInv, EOFMeansDone
  <2> QED
    BY <2>1, <2>2
<1>5. EOFMeansDone(net)'
  BY <1>1, <1>4 DEF EOFMeansDone
<1>6. \A t \in Session : IsOpen(t)' => EOFMeansDone(streams[t].queue)'
  BY <1>1 DEF TransferInv, IsOpen, EOFMeansDone
<1>7. \A t \in Session : CountOK(t)'
  BY <1>1 DEF TransferInv, CountOK
<1> QED
  BY <1>1, <1>2, <1>4, <1>5, <1>6, <1>7 DEF TransferInv

(* A packet under way, and the queue it is to join, tell that the client   *)
(* is done if an EOF frame is among them.                                  *)
LEMMA KnownToServer ==
  ASSUME TransferInv, NEW p \in net
  PROVE  /\ p \in Packet /\ p.sessionId \in Session
         /\ \A o \in WriterOf(p.sessionId).queue \cup {p} :
              o.eOFFlag => status[p.sessionId] = "done"
<1>1. p \in Packet /\ p.sessionId \in Session
  BY PacketHasSession DEF TransferInv
<1>2. p.eOFFlag => status[p.sessionId] = "done"
  BY DEF TransferInv, EOFMeansDone
<1>3. ASSUME NEW o \in WriterOf(p.sessionId).queue, o.eOFFlag
      PROVE  status[p.sessionId] = "done"
  <2>1. IsOpen(p.sessionId) /\ o \in streams[p.sessionId].queue
    BY <1>3 DEF WriterOf, NewWriter
  <2>2. o.sessionId = p.sessionId
    BY <1>1, <2>1, PacketOfSession DEF TransferInv, Inv, TypeOK
  <2> QED
    BY <1>1, <1>3, <2>1, <2>2 DEF TransferInv, EOFMeansDone
<1> QED
  BY <1>1, <1>2, <1>3

LEMMA ReceiveOK ==
  ASSUME TransferInv, NEW p \in net, Receive(p)
  PROVE  TransferInv'
<1> DEFINE s == p.sessionId
<1>1. /\ ReceivePacket(p)
      /\ net' = net \ {p}
      /\ UNCHANGED <<frameCount, status, duplicates, restarts>>
      /\ lost' \subseteq lost \cup {s}
  BY DEF Receive, clientVars
<1>2. /\ p \in Packet /\ s \in Session
      /\ \A o \in WriterOf(s).queue \cup {p} : o.eOFFlag => status[s] = "done"
  BY KnownToServer
<1>3. Inv'
  BY <1>1, <1>2, ReceivePacketOK DEF TransferInv
<1>4. EOFMeansDone(net)'
  BY <1>1 DEF TransferInv, EOFMeansDone
<1>5. \A t \in Session : IsOpen(t)' => EOFMeansDone(streams[t].queue)'
  <2> SUFFICES ASSUME NEW t \in Session, IsOpen(t)',
                      NEW o \in streams'[t].queue, o.eOFFlag
               PROVE  status[o.sessionId] = "done"
    BY <1>1 DEF EOFMeansDone
  <2>1. CASE streams'[t] = streams[t]
    BY <2>1 DEF TransferInv, EOFMeansDone, IsOpen
  <2>2. CASE streams'[t] # streams[t]
    <3>1. t = s
      BY <1>1, <1>2, <2>2, OtherSessionsStay DEF TransferInv
    <3>2. PICK w : /\ streams' = [streams EXCEPT ![s] = w]
                   /\ w # NoStream => w.queue \subseteq WriterOf(s).queue \cup {p}
      BY <1>1, <1>2, <2>2, EntryAfterCall DEF TransferInv
    <3>3. streams'[s] = w
      BY <1>2, <3>2 DEF TransferInv, Inv, TypeOK
    <3>4. o \in WriterOf(s).queue \cup {p}
      BY <3>1, <3>2, <3>3 DEF IsOpen
    <3>5. o.sessionId = s
      BY <1>2, <1>3, <3>1, PacketOfSession DEF Inv, TypeOK
    <3> QED
      BY <1>2, <3>4, <3>5
  <2> QED
    BY <2>1, <2>2
<1>6. lost' \subseteq Session /\ \A t \in Session : CountOK(t)'
  BY <1>1, <1>2 DEF TransferInv, CountOK
<1> QED
  BY <1>1, <1>3, <1>4, <1>5, <1>6 DEF TransferInv

LEMMA ServerAloneOK ==
  ASSUME TransferInv, SetServerClock \/ RestartServer
  PROVE  TransferInv' /\ files' = files /\ status' = status
<1>1. UNCHANGED <<files, frameCount, status, net, duplicates>>
  BY DEF SetServerClock, RestartServer, SetClock, Restart, clientVars, netVars
<1>2. CASE SetServerClock
  <2>1. UNCHANGED <<streams, temp, files>> /\ now' \in 0..MaxTime
    BY <1>2 DEF SetServerClock, SetClock
  <2>2. Inv'
    BY <2>1 DEF TransferInv, Inv, TypeOK, WrittenIsPrefix, FileIntact, IsOpen,
                StreamConsistent
  <2> QED
    BY <1>1, <1>2, <2>1, <2>2
    DEF TransferInv, EOFMeansDone, IsOpen, CountOK, SetServerClock, netVars
<1>3. CASE RestartServer
  <2>1. /\ streams' = [s \in Session |-> NoStream]
        /\ temp' = [s \in Session |-> NoFile]
        /\ UNCHANGED <<files, now>>
    BY <1>3 DEF RestartServer, Restart
  <2>2. \A s \in Session : ~IsOpen(s)'
    BY <2>1 DEF IsOpen
  <2>3. Inv'
    BY <2>1, <2>2 DEF TransferInv, Inv, TypeOK, WrittenIsPrefix, FileIntact
  <2>4. lost' \subseteq Session /\ restarts' \in 0..MaxRestarts
    BY <1>3, SwitchAssumption DEF RestartServer, TransferInv
  <2> QED
    BY <1>1, <2>2, <2>3, <2>4 DEF TransferInv, EOFMeansDone, CountOK
<1> QED
  BY <1>2, <1>3

(* The server knows no more than what the clients have sent.               *)
THEOREM TransferInvariant == TransferSpec => []TransferInv
<1>1. TransferInit => TransferInv
  <2> SUFFICES ASSUME TransferInit PROVE TransferInv
    OBVIOUS
  <2>1. \A s \in Session : ~IsOpen(s)
    BY DEF TransferInit, Init, IsOpen
  <2>2. Inv
    BY <2>1, TimeAssumption
    DEF TransferInit, Init, Inv, TypeOK, WrittenIsPrefix, FileIntact
  <2> QED
    BY <2>1, <2>2, EOFFrameType, SwitchAssumption
    DEF TransferInit, TransferInv, EOFMeansDone, CountOK
<1>2. TransferInv /\ [TransferNext]_vars => TransferInv'
  <2> SUFFICES ASSUME TransferInv, [TransferNext]_vars PROVE TransferInv'
    OBVIOUS
  <2>1. CASE TransferNext
    BY <2>1, SendFrameOK, SendThrowsOK, NetworkOK, ReceiveOK, ServerAloneOK
    DEF TransferNext
  <2>2. CASE UNCHANGED vars
    <3>1. UNCHANGED <<streams, temp, files, now, frameCount, status, net,
                      lost, duplicates, restarts>>
      BY <2>2 DEF vars, serverVars, clientVars, netVars
    <3>2. Inv'
      BY <3>1, ServerStutters DEF TransferInv, serverVars
    <3> QED
      BY <3>1, <3>2 DEF TransferInv, EOFMeansDone, IsOpen, CountOK
  <2> QED
    BY <2>1, <2>2
<1> QED
  BY <1>1, <1>2, PTL DEF TransferSpec

-----------------------------------------------------------------------------
(* Where the frames of a client are of which nothing was lost.             *)

FramesFrom(s, n, m) == {FramePacket(s, f, 1) : f \in n..m}

OnItsWay(s) == {p \in net : p.sessionId = s}

(* The server has written the frames before the awaited one; all others    *)
(* that were sent are either in its queue or under way, not in both.       *)
Collecting(s) ==
  LET w == WriterOf(s)
  IN  /\ w.output = "good"
      /\ w.nextFrameCount <= frameCount[s] + 1
      /\ w.queue \cup OnItsWay(s) = FramesFrom(s, w.nextFrameCount, frameCount[s])
      /\ w.queue \cap net = {}

HandedOver(s) ==
  /\ ~IsOpen(s) /\ status[s] = "done"
  /\ OnItsWay(s) = {}
  /\ Delivered(s)

(* No other client's file replaces that of s.                              *)
OwnPlace(s) == \A t \in Session : DestinationOf(t) = DestinationOf(s) => t = s

Unhurt(s) == duplicates = 0 /\ s \notin lost /\ status[s] # "aborted"

NothingMissing ==
  \A s \in Session : OwnPlace(s) /\ Unhurt(s) => Collecting(s) \/ HandedOver(s)

DeliveryInv == TransferInv /\ WaitsOnlyForMissing /\ NothingMissing

LEMMA FramesFromSession ==
  ASSUME NEW s \in Session, NEW n \in Nat \ {0}, NEW k \in Nat, k <= EOFFrame(s)
  PROVE  /\ FramesFrom(s, n, k) \subseteq PacketsOf(s)
         /\ \A p \in FramesFrom(s, n, k) :
              p.sessionId = s /\ p.frameCount \in n..k /\ p = FramePacket(s, p.frameCount, 1)
<1> SUFFICES ASSUME NEW f \in n..k
             PROVE  LET p == FramePacket(s, f, 1)
                    IN  p \in PacketsOf(s) /\ p.sessionId = s /\ p.frameCount = f
  BY DEF FramesFrom
<1>1. f \in FrameNo(s)
  BY EOFFrameType DEF FrameNo
<1>2. 1 \in Copy
  BY EnoughCopies, SwitchAssumption
<1> QED
  BY <1>1, <1>2 DEF PacketsOf, FramePacket

(* Where every queued frame is there once, the loop pops exactly the       *)
(* frames it goes past.                                                    *)
LEMMA LoopPopsFrames ==
  ASSUME NEW s \in Session, NEW n \in Nat \ {0}, NEW k \in Nat, k <= EOFFrame(s),
         NEW queue \in SUBSET FramesFrom(s, n, k),
         NEW m \in Nat, Drains(queue, n, m), n <= k + 1
  PROVE  /\ Popped(queue, n, m) = FramesFrom(s, n, m - 1)
         /\ FramesFrom(s, n, m - 1) \subseteq queue
         /\ m <= k + 1
<1>1. queue \in SUBSET PacketsOf(s)
  BY FramesFromSession
<1>2. \A f \in n..(m - 1) : Top(queue, f) \in queue /\ Top(queue, f) = FramePacket(s, f, 1)
  BY <1>1, DrainedFrame, FramesFromSession
<1>3. m > n => Top(queue, m - 1).frameCount = m - 1 /\ m - 1 \in n..k
  BY <1>1, <1>2, DrainedFrame, FramesFromSession
<1> QED
  BY <1>2, <1>3 DEF Popped, FramesFrom

LEMMA FramesApart ==
  ASSUME NEW s \in Session, NEW n \in Nat \ {0}, NEW m \in Nat, NEW k \in Nat,
         n <= m, m <= k + 1, k <= EOFFrame(s)
  PROVE  FramesFrom(s, n, k) \ FramesFrom(s, n, m - 1) = FramesFrom(s, m, k)
<1>1. \A f \in n..k, g \in n..k : FramePacket(s, f, 1) = FramePacket(s, g, 1) => f = g
  BY DEF FramePacket
<1> QED
  BY <1>1 DEF FramesFrom

(* The server does not refuse the next packet of a client that has lost    *)
(* nothing: it still holds all it was sent, or the file is there.          *)
LEMMA CollectingGoesOn ==
  ASSUME TransferInv, NEW p \in net, Receive(p),
         Collecting(p.sessionId), Unhurt(p.sessionId)'
  PROVE  (Collecting(p.sessionId) \/ HandedOver(p.sessionId))'
<1> DEFINE s == p.sessionId
           w == WriterOf(s)
           n == w.nextFrameCount
           k == frameCount[s]
           queue == AddFrameToQueue(w.queue, p)
           d(m) == Drained(w, p, m)
           c(m) == DrainedContent(w, p, m, TempOf(s))
<1>1. /\ ReceivePacket(p)
      /\ net' = net \ {p}
      /\ UNCHANGED <<frameCount, status, duplicates>>
      /\ ~Refused(p)
  BY DEF Receive, clientVars, Unhurt
<1>2. /\ p \in Packet /\ s \in Session /\ p \in PacketsOf(s)
      /\ SessionOK(s, w, TempOf(s))
      /\ streams \in [Session -> Writer \cup {NoStream}]
      /\ files \in [Destination -> Content \cup {NoFile}]
      /\ now \in 0..MaxTime
  BY KnownToServer, PacketHasSession, WriterOfOK DEF TransferInv, Inv, TypeOK
<1>3. /\ w \in Writer /\ w.queue \in Queue /\ n \in Nat \ {0} /\ w.output = "good"
      /\ k \in Nat /\ k <= EOFFrame(s) /\ n <= k + 1
      /\ w.queue \cup OnItsWay(s) = FramesFrom(s, n, k)
      /\ w.queue \cap net = {}
  <2>1. status[s] \in {"sending", "done"} /\ k \in Nat
    BY <1>1, <1>2 DEF TransferInv, Unhurt
  <2>2. k <= EOFFrame(s)
    BY <1>2, <2>1, EOFFrameType DEF TransferInv, CountOK
  <2> QED
    BY <1>2, <2>1, <2>2 DEF SessionOK, Writer, Collecting
<1>4. queue = w.queue \cup {p}
  BY <1>1 DEF Refused, AddFrameToQueue
<1>5. WriteToStream(p)
  BY <1>1 DEF ReceivePacket, DiscardExpired, DiscardThrows, CreateThrows, Refused,
              WriterOf, IsOpen
<1>6. PICK m \in Reach(queue, n) :
        /\ m > n => OutputAccepts(w)
        /\ \/ WaitForFrame(s, d(m), c(m))
           \/ WriteThrows(s, d(m), c(m))
           \/ RenameFile(s, d(m), c(m))
           \/ RenameThrows(s, d(m), c(m))
  BY <1>5 DEF WriteToStream
<1>7. m \in Nat /\ n <= m /\ Drains(queue, n, m)
  <2>1. queue \in Queue
    BY <1>2, <1>3, AddKeepsQueue
  <2>2. Cardinality(queue) \in Nat
    BY <2>1, FS_CardinalityType DEF Queue
  <2> HIDE DEF queue, n
  <2> QED
    BY <1>3, <1>6, <2>2 DEF Reach
<1>8. SessionOK(s, d(m), c(m))
  BY <1>2, <1>6, DrainedOK
<1>9. /\ d(m).queue = Rest(queue, n, m)
      /\ d(m).nextFrameCount = m
      /\ d(m).output = "good"
      /\ d(m) \in Writer /\ d(m) # NoStream
  <2>1. d(m).queue = Rest(queue, n, m) /\ d(m).nextFrameCount = m
        /\ d(m).output = "good"
    BY <1>3 DEF Drained, Writer
  <2> HIDE DEF d
  <2> QED
    BY <1>8, <2>1, StreamAssumption DEF SessionOK
<1> HIDE DEF w, n, k, queue, d, c
<1>10. /\ queue \cup OnItsWay(s)' = FramesFrom(s, n, k)
       /\ queue \cap net' = {}
  BY <1>1, <1>3, <1>4 DEF OnItsWay
<1>11. /\ Popped(queue, n, m) = FramesFrom(s, n, m - 1)
       /\ FramesFrom(s, n, m - 1) \subseteq queue
       /\ m <= k + 1
  BY <1>2, <1>3, <1>7, <1>10, LoopPopsFrames
<1>12. d(m).queue \cup OnItsWay(s)' = FramesFrom(s, m, k)
  <2>1. FramesFrom(s, n, k) \ FramesFrom(s, n, m - 1) = FramesFrom(s, m, k)
    BY <1>2, <1>3, <1>7, <1>11, FramesApart
  <2>2. OnItsWay(s)' \subseteq net'
    BY DEF OnItsWay
  <2> QED
    BY <1>9, <1>10, <1>11, <2>1, <2>2 DEF Rest
<1>13. d(m).queue \cap net' = {}
  BY <1>9, <1>10, RestInQueue
<1>14. CASE WaitForFrame(s, d(m), c(m))
  <2>1. streams'[s] = d(m)
    BY <1>2, <1>14 DEF WaitForFrame, KeepSession
  <2>2. WriterOf(s)' = d(m)
    BY <1>9, <2>1 DEF WriterOf, IsOpen
  <2>3. frameCount'[s] = k
    BY <1>1 DEF k
  <2> QED
    BY <1>9, <1>11, <1>12, <1>13, <2>2, <2>3 DEF Collecting
<1>15. CASE RenameFile(s, d(m), c(m))
  <2>1. AtEOF(d(m)) /\ AtFrame(d(m))
    BY <1>15 DEF RenameFile, AtEOF
  <2>2. m = EOFFrame(s)
    BY <1>2, <1>8, <1>9, <2>1, FrameOnTop
  <2>3. PICK top \in d(m).queue : top.frameCount = m
    BY <1>9, <2>1 DEF AtFrame, IsTop
  <2>4. k = m /\ top = FramePacket(s, m, 1)
    <3>1. top \in FramesFrom(s, m, k)
      BY <1>12, <2>3
    <3> QED
      BY <1>2, <1>3, <1>7, <2>2, <2>3, <3>1, FramesFromSession, EOFFrameType
  <2>5. OnItsWay(s)' = {}
    <3>1. FramesFrom(s, m, m) = {top}
      BY <1>7, <2>4 DEF FramesFrom
    <3> QED
      BY <1>12, <1>13, <2>3, <2>4, <3>1 DEF OnItsWay
  <2>6. /\ CloseSession(s)
        /\ files' = [files EXCEPT ![DestinationOf(s)] = File[s]]
        /\ \E o \in d(m).queue : o.eOFFlag
    BY <1>2, <1>8, <1>15, RenameDelivers
  <2>7. status'[s] = "done"
    <3>1. d(m).queue \subseteq w.queue \cup {p}
      BY <1>4, <1>9, RestInQueue
    <3> QED
      BY <1>1, <2>6, <3>1, KnownToServer DEF w
  <2>8. ~IsOpen(s)' /\ Delivered(s)'
    BY <1>2, <2>6 DEF CloseSession, IsOpen, Delivered, Destination
  <2> QED
    BY <2>5, <2>7, <2>8 DEF HandedOver
<1>16. CASE WriteThrows(s, d(m), c(m))
  <2> DEFINE v == [d(m) EXCEPT !.output = "bad"]
  <2>1. streams'[s] = v
    BY <1>2, <1>9, <1>16 DEF WriteThrows, KeepSession
  <2>2. v \in Writer /\ v.output = "bad"
    BY <1>9 DEF Writer, Output
  <2> HIDE DEF v
  <2> QED
    BY <1>1, <2>1, <2>2, StreamAssumption DEF Refused, IsOpen
<1>17. CASE RenameThrows(s, d(m), c(m))
  <2> DEFINE rest == d(m).queue \ {Top(d(m).queue, d(m).nextFrameCount)}
             v == [d(m) EXCEPT !.output = "closed", !.queue = rest]
  <2>1. streams'[s] = v
    BY <1>2, <1>17 DEF RenameThrows, KeepSession
  <2>2. rest \in Queue
    BY <1>9, SubsetKeepsQueue DEF Writer
  <2> HIDE DEF rest
  <2>3. v \in Writer /\ v.output = "closed"
    BY <1>9, <2>2 DEF Writer, Output
  <2> HIDE DEF v
  <2> QED
    BY <1>1, <2>1, <2>3, StreamAssumption DEF Refused, IsOpen
<1> QED
  BY <1>6, <1>14, <1>15, <1>16, <1>17

(* What happens to others, and the clock, leave it where it is.            *)
LEMMA StaysWhereItIs ==
  ASSUME NEW s \in Session, streams'[s] = streams[s],
         UNCHANGED <<frameCount[s], status[s], OnItsWay(s)>>,
         net' \subseteq net, files'[DestinationOf(s)] = files[DestinationOf(s)],
         Collecting(s) \/ HandedOver(s)
  PROVE  (Collecting(s) \/ HandedOver(s))'
<1>1. /\ WriterOf(s)'.queue = WriterOf(s).queue
      /\ WriterOf(s)'.nextFrameCount = WriterOf(s).nextFrameCount
      /\ WriterOf(s)'.output = WriterOf(s).output
      /\ IsOpen(s)' <=> IsOpen(s)
  BY DEF WriterOf, NewWriter, IsOpen
<1>2. CASE Collecting(s)
  BY <1>1, <1>2 DEF Collecting
<1>3. CASE HandedOver(s)
  BY <1>1, <1>3 DEF HandedOver, Delivered
<1> QED
  BY <1>2, <1>3

LEMMA SendFrameMissesNone ==
  ASSUME TransferInv, NothingMissing, NEW t \in Session, SendFrame(t)
  PROVE  NothingMissing'
<1> DEFINE p == FramePacket(t, frameCount[t] + 1, 1)
<1>1. /\ status[t] = "sending"
      /\ frameCount' = [frameCount EXCEPT ![t] = @ + 1]
      /\ net' = net \cup {p}
      /\ status' = [status EXCEPT ![t] = IF p.eOFFlag THEN "done" ELSE @]
      /\ UNCHANGED <<streams, files, now, lost, duplicates>>
  BY DEF SendFrame, serverVars
<1>2. /\ p \in Packet /\ p.sessionId = t /\ p.frameCount = frameCount[t] + 1
      /\ frameCount[t] \in Nat /\ frameCount[t] + 1 <= EOFFrame(t)
  BY <1>1, NextFrame, EOFFrameType DEF TransferInv, CountOK, FramePacket
<1> SUFFICES ASSUME NEW s \in Session, OwnPlace(s), Unhurt(s)'
             PROVE  (Collecting(s) \/ HandedOver(s))'
  BY DEF NothingMissing, OwnPlace
<1>3. Unhurt(s) /\ (Collecting(s) \/ HandedOver(s))
  BY <1>1 DEF Unhurt, NothingMissing, TransferInv
<1>4. CASE s # t
  <2>1. frameCount'[s] = frameCount[s] /\ status'[s] = status[s]
    BY <1>1, <1>4 DEF TransferInv
  <2>2. OnItsWay(s)' = OnItsWay(s)
    BY <1>1, <1>2, <1>4 DEF OnItsWay
  <2>3. CASE HandedOver(s)
    BY <1>1, <2>1, <2>2, <2>3 DEF HandedOver, IsOpen, Delivered
  <2>4. CASE Collecting(s)
    <3>1. WriterOf(s)' = WriterOf(s)
      BY <1>1 DEF WriterOf, IsOpen, NewWriter
    <3>2. p \notin WriterOf(s).queue
      BY <1>2, <1>4, WriterOfOK, PacketOfSession DEF TransferInv, SessionOK
    <3> QED
      BY <1>1, <2>1, <2>2, <2>4, <3>1, <3>2 DEF Collecting
  <2> QED
    BY <1>3, <2>3, <2>4
<1>5. CASE s = t
  <2>1. Collecting(t)
    BY <1>1, <1>3, <1>5 DEF HandedOver
  <2> DEFINE n == WriterOf(t).nextFrameCount
             k == frameCount[t]
  <2>2. /\ n \in Nat \ {0} /\ n <= k + 1
        /\ frameCount'[t] = k + 1
        /\ WriterOf(t)' = WriterOf(t)
    BY <1>1, <2>1, WriterOfOK
    DEF TransferInv, SessionOK, Writer, Collecting, WriterOf, IsOpen, NewWriter
  <2>3. OnItsWay(t)' = OnItsWay(t) \cup {p}
    BY <1>1, <1>2 DEF OnItsWay
  <2>4. FramesFrom(t, n, k + 1) = FramesFrom(t, n, k) \cup {p}
    BY <1>2, <2>2 DEF FramesFrom
  <2>5. p \notin WriterOf(t).queue
    <3>1. WriterOf(t).queue \subseteq FramesFrom(t, n, k)
      BY <2>1 DEF Collecting
    <3>2. k \in Nat /\ k <= EOFFrame(t)
      BY <1>2, EOFFrameType
    <3> QED
      BY <1>2, <2>2, <3>1, <3>2, FramesFromSession
  <2>6. /\ WriterOf(t).output = "good"
        /\ WriterOf(t).queue \cup OnItsWay(t) = FramesFrom(t, n, k)
        /\ WriterOf(t).queue \cap net = {}
    BY <2>1 DEF Collecting
  <2> HIDE DEF p
  <2>7. /\ WriterOf(t).queue \cup OnItsWay(t)' = FramesFrom(t, n, k + 1)
        /\ WriterOf(t).queue \cap net' = {}
    BY <1>1, <2>3, <2>4, <2>5, <2>6
  <2>8. n <= k + 2 /\ k \in Nat
    BY <1>2, <2>2
  <2> QED
    BY <1>5, <2>2, <2>6, <2>7, <2>8 DEF Collecting
<1> QED
  BY <1>4, <1>5

LEMMA ReceiveMissesNone ==
  ASSUME TransferInv, NothingMissing, NEW p \in net, Receive(p)
  PROVE  NothingMissing'
<1>1. /\ ReceivePacket(p)
      /\ net' = net \ {p}
      /\ UNCHANGED <<frameCount, status, duplicates>>
      /\ lost \subseteq lost'
  BY DEF Receive, clientVars
<1>2. p \in Packet /\ p.sessionId \in Session
  BY KnownToServer
<1> SUFFICES ASSUME NEW s \in Session, OwnPlace(s), Unhurt(s)'
             PROVE  (Collecting(s) \/ HandedOver(s))'
  BY DEF NothingMissing, OwnPlace
<1>3. Unhurt(s) /\ (Collecting(s) \/ HandedOver(s))
  BY <1>1 DEF Unhurt, NothingMissing
<1>4. CASE p.sessionId = s
  BY <1>3, <1>4, CollectingGoesOn DEF HandedOver, OnItsWay
<1>5. CASE p.sessionId # s
  <2>1. streams'[s] = streams[s]
    BY <1>1, <1>2, <1>5, OtherSessionsStay DEF TransferInv
  <2>2. files'[DestinationOf(s)] = files[DestinationOf(s)]
    <3>1. DestinationOf(p.sessionId) # DestinationOf(s)
      BY <1>2, <1>5 DEF OwnPlace
    <3>2. files' = files
          \/ files' = [files EXCEPT ![DestinationOf(p.sessionId)] = File[p.sessionId]]
      BY <1>1, <1>2, FilesAfterCall DEF TransferInv
    <3>3. files \in [Destination -> Content \cup {NoFile}] /\ DestinationOf(s) \in Destination
      BY DEF TransferInv, Inv, TypeOK, Destination
    <3> QED
      BY <3>1, <3>2, <3>3
  <2>3. OnItsWay(s)' = OnItsWay(s)
    BY <1>1, <1>5 DEF OnItsWay
  <2> QED
    BY <1>1, <1>3, <2>1, <2>2, <2>3, StaysWhereItIs
<1> QED
  BY <1>4, <1>5

(* For all values of the constants: the bookkeeping of a transfer has its  *)
(* types, and nothing of a client goes missing unseen.                     *)
LEMMA DeliveryInvariant == TransferSpec => []DeliveryInv
<1>1. TransferInit => WaitsOnlyForMissing /\ NothingMissing
  <2> SUFFICES ASSUME TransferInit PROVE WaitsOnlyForMissing /\ NothingMissing
    OBVIOUS
  <2>1. \A s \in Session : ~IsOpen(s)
    BY DEF TransferInit, Init, IsOpen
  <2>2. \A s \in Session : FramesFrom(s, 1, 0) = {}
    BY DEF FramesFrom
  <2> QED
    BY <2>1, <2>2
    DEF TransferInit, WaitsOnlyForMissing, NothingMissing, Collecting, WriterOf,
        NewWriter, OnItsWay
<1>2. TransferInv /\ WaitsOnlyForMissing /\ [TransferNext]_vars => WaitsOnlyForMissing'
  <2> SUFFICES ASSUME TransferInv, WaitsOnlyForMissing, [TransferNext]_vars
               PROVE  WaitsOnlyForMissing'
    OBVIOUS
  <2>1. CASE streams' = streams
    BY <2>1 DEF WaitsOnlyForMissing, IsOpen, AtFrame
  <2>2. ASSUME NEW p \in net, Receive(p), streams' # streams
        PROVE  WaitsOnlyForMissing'
    BY <2>2, KnownToServer, WaitsAfterCall DEF TransferInv, Receive
  <2>3. CASE RestartServer
    BY <2>3 DEF RestartServer, Restart, WaitsOnlyForMissing, IsOpen
  <2> QED
    BY <2>1, <2>2, <2>3
    DEF TransferNext, SendFrame, SendThrows, Lose, Duplicate, SetServerClock,
        SetClock, vars, serverVars
<1>3. TransferInv /\ NothingMissing /\ [TransferNext]_vars => NothingMissing'
  <2> SUFFICES ASSUME TransferInv, NothingMissing, [TransferNext]_vars
               PROVE  NothingMissing'
    OBVIOUS
  <2>1. ASSUME /\ UNCHANGED <<files, net, frameCount, status, duplicates>>
               /\ \A s \in Session : Unhurt(s)' =>
                    Unhurt(s) /\ streams'[s] = streams[s]
        PROVE  NothingMissing'
    <3> SUFFICES ASSUME NEW s \in Session, OwnPlace(s), Unhurt(s)'
                 PROVE  (Collecting(s) \/ HandedOver(s))'
      BY DEF NothingMissing, OwnPlace
    <3>1. Collecting(s) \/ HandedOver(s)
      BY <2>1 DEF NothingMissing
    <3>2. OnItsWay(s)' = OnItsWay(s)
      BY <2>1 DEF OnItsWay
    <3> QED
      BY <2>1, <3>1, <3>2, StaysWhereItIs
  <2>2. ASSUME NEW s \in Session, SendThrows(s)
        PROVE  NothingMissing'
    <3> SUFFICES ASSUME NEW t \in Session, OwnPlace(t), Unhurt(t)'
                 PROVE  (Collecting(t) \/ HandedOver(t))'
      BY DEF NothingMissing, OwnPlace
    <3>1. /\ frameCount' = [frameCount EXCEPT ![s] = @ + 1]
          /\ status' = [status EXCEPT ![s] = "aborted"]
          /\ UNCHANGED <<streams, files, now, net, lost, duplicates>>
      BY <2>2 DEF SendThrows, serverVars, netVars
    <3>2. t # s
      BY <3>1 DEF Unhurt, TransferInv
    <3>3. frameCount'[t] = frameCount[t] /\ status'[t] = status[t]
      BY <3>1, <3>2 DEF TransferInv
    <3>4. OnItsWay(t)' = OnItsWay(t)
      BY <3>1 DEF OnItsWay
    <3>5. Collecting(t) \/ HandedOver(t)
      BY <3>1, <3>3 DEF NothingMissing, Unhurt
    <3> QED
      BY <3>1, <3>3, <3>4, <3>5, StaysWhereItIs
  <2>3. ASSUME NEW p \in net, Lose(p)
        PROVE  NothingMissing'
    <3> SUFFICES ASSUME NEW s \in Session, OwnPlace(s), Unhurt(s)'
                 PROVE  (Collecting(s) \/ HandedOver(s))'
      BY DEF NothingMissing, OwnPlace
    <3>1. /\ net' = net \ {p} /\ lost' = lost \cup {p.sessionId}
          /\ UNCHANGED <<streams, files, now, frameCount, status, duplicates>>
      BY <2>3 DEF Lose, serverVars, clientVars
    <3>2. p.sessionId # s /\ (Collecting(s) \/ HandedOver(s))
      BY <3>1 DEF Unhurt, NothingMissing
    <3>3. OnItsWay(s)' = OnItsWay(s)
      BY <3>1, <3>2 DEF OnItsWay
    <3> QED
      BY <3>1, <3>2, <3>3, StaysWhereItIs
  <2>4. ASSUME NEW p \in net, Duplicate(p)
        PROVE  NothingMissing'
    BY <2>4, SwitchAssumption DEF Duplicate, NothingMissing, Unhurt, TransferInv
  <2>5. CASE SetServerClock
    BY <2>1, <2>5 DEF SetServerClock, SetClock, clientVars, netVars, Unhurt
  <2>6. CASE RestartServer
    <3>1. \A s \in Session : s \notin lost' => ~IsOpen(s) /\ s \notin lost
      BY <2>6 DEF RestartServer
    <3> QED
      BY <2>1, <2>6, <3>1 DEF RestartServer, Restart, clientVars, Unhurt, IsOpen
  <2>7. CASE UNCHANGED vars
    BY <2>1, <2>7 DEF vars, serverVars, clientVars, netVars, Unhurt
  <2> QED
    BY <2>2, <2>3, <2>4, <2>5, <2>6, <2>7, SendFrameMissesNone, ReceiveMissesNone
    DEF TransferNext
<1> QED
  BY <1>1, <1>2, <1>3, TransferInvariant, PTL DEF TransferSpec, DeliveryInv

(* For all values of the constants, as long as no datagram was repeated: a *)
(* client that is done, of which the network lost and the server refused   *)
(* nothing, and of which nothing is under way any more, has its file under *)
(* its name, unless another client uses the same name.                     *)
THEOREM UnhurtIsDelivered ==
  TransferSpec =>
    [](\A s \in Session :
         OwnPlace(s) /\ Unhurt(s) /\ status[s] = "done" /\ OnItsWay(s) = {} =>
           Delivered(s))
<1>1. ASSUME DeliveryInv, NEW s \in Session, OwnPlace(s), Unhurt(s),
             status[s] = "done", OnItsWay(s) = {}
      PROVE  Delivered(s)
  <2> SUFFICES ASSUME Collecting(s) PROVE FALSE
    BY <1>1 DEF DeliveryInv, NothingMissing, HandedOver
  <2> DEFINE w == WriterOf(s)
             n == w.nextFrameCount
  <2>1. SessionOK(s, w, TempOf(s))
    BY <1>1, WriterOfOK DEF DeliveryInv, TransferInv
  <2>2. /\ w.output = "good" /\ n \in Nat \ {0} /\ n <= EOFFrame(s)
        /\ EOFFrame(s) \in Nat
    BY <2>1, EOFFrameType
    DEF SessionOK, StreamConsistent, Collecting, FrameNo, Writer
  <2>3. w.queue = FramesFrom(s, n, EOFFrame(s))
    BY <1>1 DEF Collecting, DeliveryInv, TransferInv, CountOK
  <2>4. IsTop(w.queue, n)
    <3>1. FramePacket(s, n, 1) \in w.queue /\ FramePacket(s, n, 1).frameCount = n
      BY <2>2, <2>3 DEF FramesFrom, FramePacket
    <3>2. \A p \in w.queue : p.frameCount >= n
      BY <2>2, <2>3, FramesFromSession
    <3> QED
      BY <3>1, <3>2 DEF IsTop
  <2>5. w = streams[s] /\ IsOpen(s)
    BY <2>4 DEF IsTop, WriterOf, NewWriter
  <2> QED
    BY <1>1, <2>2, <2>4, <2>5 DEF DeliveryInv, WaitsOnlyForMissing, AtFrame
<1>2. DeliveryInv =>
        \A s \in Session :
          OwnPlace(s) /\ Unhurt(s) /\ status[s] = "done" /\ OnItsWay(s) = {} =>
            Delivered(s)
  BY <1>1
<1> QED
  BY <1>2, DeliveryInvariant, PTL

(* README, Application Notes, for all values of the constants but two: no  *)
(* datagram is repeated (a repeated one may lose the file, as a run shows) *)
(* and no two clients use one name (the later file replaces the earlier).  *)
THEOREM NothingLostIsDelivered ==
  ASSUME MaxDuplicates = 0, \A s \in Session : OwnPlace(s)
  PROVE  TransferSpec => []NothingLostMeansDelivered
<1> DEFINE Arrived ==
      \A s \in Session :
        OwnPlace(s) /\ Unhurt(s) /\ status[s] = "done" /\ OnItsWay(s) = {} =>
          Delivered(s)
<1>1. TransferInv /\ Arrived => NothingLostMeansDelivered
  BY DEF TransferInv, Unhurt, OnItsWay, NothingLostMeansDelivered
<1>2. TransferSpec => []Arrived
  BY UnhurtIsDelivered
<1> QED
  BY <1>1, <1>2, TransferInvariant, PTL

(* For all values of the constants: the variables of clients, network and  *)
(* server keep their types.                                                *)
THEOREM TransferTypeCorrect == TransferSpec => []TransferTypeOK
<1>1. TransferInv => TransferTypeOK
  BY DEF TransferInv, Inv, TransferTypeOK
<1> QED
  BY <1>1, TransferInvariant, PTL

(* For all values of the constants: each step of the clients, the network  *)
(* and the server is a step of FileDrop or none, so that a file turns up   *)
(* only whole, under its name and after its client has sent all of it.     *)
THEOREM TransferImplementsFileDrop == TransferSpec => ImplementsFileDrop
<1> DEFINE Done == {s \in Session : status[s] = "done"}
<1>1. TransferInit => Drop!Init
  <2> SUFFICES ASSUME TransferInit PROVE Drop!Init
    OBVIOUS
  <2>1. Done = {}
    BY DEF TransferInit
  <2>2. {[t \in Session |-> DestinationOf(t)][s] : s \in Session} = Destination
    BY DEF Destination
  <2> QED
    BY <2>1, <2>2 DEF TransferInit, Init, Drop!Init
<1>2. TransferInv /\ [TransferNext]_vars => [Drop!Next]_(Drop!dropVars)
  <2> SUFFICES ASSUME TransferInv, [TransferNext]_vars
               PROVE  Drop!Next \/ (Done' = Done /\ files' = files)
    BY DEF Drop!dropVars
  <2>1. ASSUME NEW s \in Session, SendFrame(s)
        PROVE  Drop!Next \/ (Done' = Done /\ files' = files)
    <3> DEFINE p == FramePacket(s, frameCount[s] + 1, 1)
    <3>1. /\ status[s] = "sending"
          /\ status' = [status EXCEPT ![s] = IF p.eOFFlag THEN "done" ELSE @]
          /\ files' = files
      BY <2>1 DEF SendFrame, serverVars
    <3> HIDE DEF p
    <3>2. CASE p.eOFFlag
      <4>1. s \notin Done /\ Done' = Done \cup {s}
        BY <3>1, <3>2 DEF TransferInv
      <4>2. Drop!OfferFile(s)
        BY <3>1, <4>1 DEF Drop!OfferFile
      <4> QED
        BY <4>2 DEF Drop!Next
    <3>3. CASE ~p.eOFFlag
      BY <3>1, <3>3 DEF TransferInv
    <3> QED
      BY <3>2, <3>3
  <2>2. ASSUME NEW s \in Session, SendThrows(s)
        PROVE  Done' = Done /\ files' = files
    BY <2>2 DEF SendThrows, serverVars, TransferInv
  <2>3. ASSUME NEW p \in net, Lose(p) \/ Duplicate(p)
        PROVE  Done' = Done /\ files' = files
    BY <2>3 DEF Lose, Duplicate, serverVars, clientVars
  <2>4. ASSUME NEW p \in net, Receive(p)
        PROVE  Drop!Next \/ (Done' = Done /\ files' = files)
    <3> DEFINE s == p.sessionId
    <3>1. ReceivePacket(p) /\ Done' = Done
      BY <2>4 DEF Receive, clientVars
    <3>2. CASE files' # files
      <4>1. /\ p \in Packet /\ s \in Session
            /\ \A o \in WriterOf(s).queue \cup {p} :
                 o.eOFFlag => status[s] = "done"
        BY KnownToServer
      <4>2. /\ files' = [files EXCEPT ![DestinationOf(s)] = File[s]]
            /\ status[s] = "done"
        BY <3>1, <3>2, <4>1, FilesAfterCall DEF TransferInv
      <4>3. Drop!DropFile(s)
        BY <3>1, <4>1, <4>2 DEF Drop!DropFile
      <4> QED
        BY <4>1, <4>3 DEF Drop!Next
    <3> QED
      BY <3>1, <3>2
  <2>5. CASE SetServerClock \/ RestartServer
    BY <2>5, ServerAloneOK
  <2>6. CASE UNCHANGED vars
    BY <2>6 DEF vars, serverVars, clientVars
  <2> QED
    BY <2>1, <2>2, <2>3, <2>4, <2>5, <2>6 DEF TransferNext
<1> QED
  BY <1>1, <1>2, TransferInvariant, PTL
  DEF TransferSpec, ImplementsFileDrop, Drop!Spec
=============================================================================
