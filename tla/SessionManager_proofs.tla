------------------------ MODULE SessionManager_proofs ------------------------
(***************************************************************************)
(* What is proved of the server for any number of sessions, files, names,  *)
(* copies, any queue length and any timeout.                               *)
(***************************************************************************)
EXTENDS SessionManager, FiniteSetTheorems, SequenceTheorems, TLAPS

-----------------------------------------------------------------------------
(* Facts about packets and about the queue of one session.                 *)

(* The frame count of a packet of s says all there is to know of it.       *)
LEMMA PacketOfSession ==
  ASSUME NEW s \in Session, NEW p \in PacketsOf(s)
  PROVE  /\ p \in Packet
         /\ p.sessionId = s
         /\ p.frameCount \in FrameNo(s)
         /\ p.eOFFlag <=> p.frameCount = EOFFrame(s)
         /\ p.eOFFlag => p.payload = Name[s]
         /\ ~p.eOFFlag => p.payload = File[s][p.frameCount]
<1>1. PICK f \in FrameNo(s), c \in Copy : p = FramePacket(s, f, c)
  BY DEF PacketsOf
<1>2. /\ p.sessionId = s
      /\ p.frameCount = f
      /\ p.eOFFlag = (f = EOFFrame(s))
      /\ p.payload = IF f = EOFFrame(s) THEN Name[s] ELSE File[s][f]
  BY <1>1 DEF FramePacket
<1>3. p \in Packet
  BY DEF Packet
<1> QED
  BY <1>2, <1>3

LEMMA PacketHasSession ==
  ASSUME NEW p \in Packet
  PROVE  p.sessionId \in Session /\ p \in PacketsOf(p.sessionId)
BY DEF PacketsOf, Packet, FramePacket

LEMMA EOFFrameType ==
  ASSUME NEW s \in Session
  PROVE  /\ File[s] \in Seq(Chunk)
         /\ Len(File[s]) \in Nat
         /\ EOFFrame(s) \in Nat \ {0}
         /\ EOFFrame(s) = Len(File[s]) + 1
BY FileAssumption DEF EOFFrame

(* The packet on top of a queue is one of the queue.                       *)
LEMMA TopInQueue ==
  ASSUME NEW queue, NEW f, \E p \in queue : p.frameCount = f
  PROVE  Top(queue, f) \in queue /\ Top(queue, f).frameCount = f
BY DEF Top

LEMMA RestInQueue ==
  ASSUME NEW queue, NEW n, NEW m
  PROVE  Rest(queue, n, m) \subseteq queue
BY DEF Rest

(* A queue within its limit stays within it.                               *)
LEMMA AddKeepsQueue ==
  ASSUME NEW queue \in Queue, NEW p \in Packet
  PROVE  AddFrameToQueue(queue, p) \in Queue
<1>1. IsFiniteSet(queue) /\ Cardinality(queue) \in Nat
  BY FS_CardinalityType DEF Queue
<1>2. /\ IsFiniteSet(queue \cup {p})
      /\ Cardinality(queue \cup {p}) =
           IF p \in queue THEN Cardinality(queue) ELSE Cardinality(queue) + 1
  BY <1>1, FS_AddElement, Zenon
<1> QED
  BY <1>1, <1>2, QueueAssumption DEF Queue, AddFrameToQueue

LEMMA SubsetKeepsQueue ==
  ASSUME NEW queue \in Queue, NEW rest \in SUBSET queue
  PROVE  rest \in Queue
<1>1. /\ IsFiniteSet(rest)
      /\ Cardinality(rest) <= Cardinality(queue)
      /\ Cardinality(queue) \in Nat /\ Cardinality(rest) \in Nat
  BY FS_Subset, FS_CardinalityType DEF Queue
<1> QED
  BY <1>1, QueueAssumption DEF Queue

(* Every frame the loop has gone past was in the queue and was data.       *)
LEMMA DrainedFrame ==
  ASSUME NEW s \in Session, NEW queue \in SUBSET PacketsOf(s),
         NEW n \in Nat, NEW m \in Nat, Drains(queue, n, m),
         NEW f \in n..(m - 1)
  PROVE  /\ Top(queue, f) \in queue
         /\ Top(queue, f).frameCount = f
         /\ f \in 1..Len(File[s])
         /\ Top(queue, f).payload = File[s][f]
<1>1. IsTop(Rest(queue, n, f), f) /\ ~Top(queue, f).eOFFlag
  BY DEF Drains
<1>2. \E p \in queue : p.frameCount = f
  BY <1>1, RestInQueue DEF IsTop
<1>3. Top(queue, f) \in queue /\ Top(queue, f).frameCount = f
  BY <1>2, TopInQueue
<1>4. Top(queue, f) \in PacketsOf(s)
  BY <1>3
<1>5. f \in FrameNo(s) /\ f # EOFFrame(s) /\ Top(queue, f).payload = File[s][f]
  BY <1>1, <1>3, <1>4, PacketOfSession
<1> QED
  BY <1>3, <1>5, EOFFrameType DEF FrameNo

(* What the loop writes on its way from n to m is that part of the file.   *)
LEMMA WrittenIsSource ==
  ASSUME NEW s \in Session, NEW queue \in SUBSET PacketsOf(s),
         NEW n \in Nat \ {0}, NEW m \in Nat, n < m, Drains(queue, n, m)
  PROVE  /\ m \in FrameNo(s)
         /\ ChunksBefore(s, n) \o Written(queue, n, m) = ChunksBefore(s, m)
<1> DEFINE F == File[s]
<1>1. F \in Seq(Chunk) /\ Len(F) \in Nat
  BY EOFFrameType
<1>2. \A f \in n..(m - 1) : f \in 1..Len(F) /\ Top(queue, f).payload = F[f]
  BY DrainedFrame
<1>3. m - 1 \in n..Len(F)
  BY <1>2
<1>4. Written(queue, n, m) = [i \in 1..(m - n) |-> F[n + i - 1]]
  <2>1. \A i \in 1..(m - n) : Top(queue, n + i - 1).payload = F[n + i - 1]
    BY <1>2
  <2> QED
    BY <2>1 DEF Written
<1>5. \A i \in n..(m - 1) : F[i] \in Chunk
  BY <1>1, <1>2, ElementOfSeq
<1>6. /\ SubSeq(F, n, m - 1) \in Seq(Chunk)
      /\ Len(SubSeq(F, n, m - 1)) = m - n
      /\ \A i \in 1..(m - n) : SubSeq(F, n, m - 1)[i] = F[n + i - 1]
  <2>1. /\ SubSeq(F, n, m - 1) \in Seq(Chunk)
        /\ Len(SubSeq(F, n, m - 1)) = IF n <= m - 1 THEN (m - 1) - n + 1 ELSE 0
        /\ \A i \in 1..((m - 1) - n + 1) : SubSeq(F, n, m - 1)[i] = F[n + i - 1]
    BY <1>5, SubSeqProperties
  <2> QED
    BY <2>1
<1>7. SubSeq(F, n, m - 1) = [i \in 1..(m - n) |-> F[n + i - 1]]
  BY <1>6, LenProperties
<1>8. SubSeq(F, 1, n - 1) \o SubSeq(F, n, m - 1) = SubSeq(F, 1, m - 1)
  BY <1>1, <1>3, ConcatAdjacentSubSeq, n - 1 + 1 = n,
     1 \in 1..(Len(F) + 1), n - 1 \in (1 - 1)..Len(F), m - 1 \in (n - 1)..Len(F)
<1>9. m \in FrameNo(s)
  BY <1>3, EOFFrameType DEF FrameNo
<1> QED
  BY <1>4, <1>7, <1>8, <1>9 DEF ChunksBefore
-----------------------------------------------------------------------------
(* The inductive invariant, one session at a time.                         *)
SessionOK(s, w, content) ==
  /\ w \in Writer
  /\ w.queue \subseteq PacketsOf(s)
  /\ content \in Content \cup {Torn, NoFile}
  /\ StreamConsistent(s, w, content)

Inv == TypeOK /\ WrittenIsPrefix /\ FileIntact

LEMMA WriterOfOK ==
  ASSUME Inv, NEW s \in Session
  PROVE  SessionOK(s, WriterOf(s), TempOf(s))
<1>1. CASE IsOpen(s)
  BY <1>1 DEF Inv, TypeOK, WrittenIsPrefix, SessionOK, WriterOf, TempOf, IsOpen
<1>2. CASE ~IsOpen(s)
  <2>1. NewWriter \in Writer
    BY FS_EmptySet, QueueAssumption
    DEF NewWriter, Writer, Queue, Output, Inv, TypeOK
  <2>2. 1 \in FrameNo(s) /\ ChunksBefore(s, 1) = <<>>
    BY EOFFrameType, SubSeqEmpty DEF FrameNo, ChunksBefore
  <2>3. <<>> \in Content
    BY DEF Content
  <2> QED
    BY <1>2, <2>1, <2>2, <2>3
    DEF SessionOK, StreamConsistent, WriterOf, TempOf, NewWriter
<1> QED
  BY <1>1, <1>2

(* The loop keeps a session in order.                                      *)
LEMMA DrainedOK ==
  ASSUME NEW s \in Session, NEW w, NEW content, SessionOK(s, w, content),
         now \in 0..MaxTime, NEW p \in PacketsOf(s),
         NEW m \in Reach(AddFrameToQueue(w.queue, p), w.nextFrameCount),
         m > w.nextFrameCount => OutputAccepts(w)
  PROVE  SessionOK(s, Drained(w, p, m), DrainedContent(w, p, m, content))
<1> DEFINE queue == AddFrameToQueue(w.queue, p)
           n == w.nextFrameCount
           rest == Rest(queue, n, m)
           d == Drained(w, p, m)
<1>1. /\ w \in Writer /\ w.queue \in Queue /\ n \in Nat \ {0}
      /\ w.output \in Output
  BY DEF SessionOK, Writer
<1>2. queue \in Queue /\ queue \subseteq PacketsOf(s)
  BY <1>1, AddKeepsQueue, PacketOfSession DEF SessionOK, AddFrameToQueue
<1>3. m \in Nat /\ n <= m /\ Drains(queue, n, m)
  <2>1. Cardinality(queue) \in Nat
    BY <1>2, FS_CardinalityType DEF Queue
  <2> QED
    BY <1>1, <2>1 DEF Reach
<1>4. rest \in Queue /\ rest \subseteq PacketsOf(s)
  <2>1. rest \in SUBSET queue
    BY RestInQueue
  <2>2. rest \in Queue
    BY <1>2, <2>1, SubsetKeepsQueue
  <2> QED
    BY <1>2, <2>1, <2>2
<1>5. /\ d \in Writer
      /\ d.queue = rest /\ d.nextFrameCount = m /\ d.output = w.output
  <2>1. d = [w EXCEPT !.queue = rest, !.nextFrameCount = m,
                      !.timeLastUpdated = now]
    BY DEF Drained
  <2>2. m \in Nat \ {0}
    BY <1>1, <1>3
  <2> HIDE DEF d, rest, n
  <2> QED
    BY <1>1, <1>4, <2>1, <2>2 DEF Writer
<1>6. CASE m = n
  <2>1. DrainedContent(w, p, m, content) = content
    BY <1>1, <1>6 DEF DrainedContent
  <2> HIDE DEF d, rest
  <2> QED
    BY <1>4, <1>5, <1>6, <2>1 DEF SessionOK, StreamConsistent, d
<1>7. CASE n < m
  <2>1. w.output # "bad"
    BY <1>1, <1>3, <1>7 DEF OutputAccepts
  <2>2. CASE w.output = "good"
    <3>1. content = ChunksBefore(s, n)
      BY <2>2 DEF SessionOK, StreamConsistent
    <3>2. /\ m \in FrameNo(s)
          /\ DrainedContent(w, p, m, content) = ChunksBefore(s, m)
      BY <1>1, <1>2, <1>3, <1>7, <2>2, <3>1, WrittenIsSource DEF DrainedContent
    <3>3. ChunksBefore(s, m) \in Content
      <4>1. m - 1 \in Int /\ \A i \in 1..(m - 1) : File[s][i] \in Chunk
        BY <3>2, EOFFrameType, ElementOfSeq DEF FrameNo
      <4> QED
        BY <4>1, SubSeqProperties DEF ChunksBefore, Content
    <3> QED
      BY <1>4, <1>5, <2>2, <3>2, <3>3 DEF SessionOK, StreamConsistent
  <2>3. CASE w.output = "closed"
    BY <1>4, <1>5, <2>3 DEF DrainedContent, SessionOK, StreamConsistent
  <2> QED
    BY <1>1, <2>1, <2>2, <2>3 DEF Output
<1> QED
  BY <1>1, <1>3, <1>6, <1>7

(* A call that leaves its session in order keeps the invariant.            *)
LEMMA KeepOK ==
  ASSUME Inv, NEW s \in Session, NEW w, NEW content, SessionOK(s, w, content),
         KeepSession(s, w, content), now' = now
  PROVE  Inv'
<1>1. /\ w \in Writer /\ w # NoStream
      /\ w.queue \subseteq PacketsOf(s)
      /\ content \in Content \cup {Torn, NoFile}
      /\ StreamConsistent(s, w, content)
  BY StreamAssumption DEF SessionOK
<1>2. /\ streams' = [streams EXCEPT ![s] = w]
      /\ temp' = [temp EXCEPT ![s] = content]
      /\ files' = files
  BY DEF KeepSession
<1>3. /\ streams \in [Session -> Writer \cup {NoStream}]
      /\ temp \in [Session -> Content \cup {Torn, NoFile}]
  BY DEF Inv, TypeOK
<1>4. TypeOK'
  BY <1>1, <1>2, <1>3 DEF Inv, TypeOK, IsOpen
<1>5. WrittenIsPrefix'
  <2> SUFFICES ASSUME NEW t \in Session, IsOpen(t)'
               PROVE  StreamConsistent(t, streams'[t], temp'[t])
    BY DEF WrittenIsPrefix, StreamConsistent
  <2>1. CASE t = s
    BY <1>1, <1>2, <1>3, <2>1
  <2>2. CASE t # s
    BY <1>2, <1>3, <2>2 DEF Inv, WrittenIsPrefix, IsOpen
  <2> QED
    BY <2>1, <2>2
<1>6. FileIntact'
  BY <1>2 DEF Inv, FileIntact
<1> QED
  BY <1>4, <1>5, <1>6 DEF Inv

(* So does one that erases its session, as long as the file it may leave   *)
(* is the whole source.                                                    *)
LEMMA CloseOK ==
  ASSUME Inv, NEW s \in Session, CloseSession(s), now' = now,
         \/ files' = files
         \/ files' = [files EXCEPT ![DestinationOf(s)] = File[s]]
  PROVE  Inv'
<1>1. /\ streams' = [streams EXCEPT ![s] = NoStream]
      /\ temp' = [temp EXCEPT ![s] = NoFile]
  BY DEF CloseSession
<1>2. /\ streams \in [Session -> Writer \cup {NoStream}]
      /\ temp \in [Session -> Content \cup {Torn, NoFile}]
      /\ files \in [Destination -> Content \cup {NoFile}]
  BY DEF Inv, TypeOK
<1>3. \A t \in Session : IsOpen(t)' => /\ IsOpen(t)
                                       /\ streams'[t] = streams[t]
                                       /\ temp'[t] = temp[t]
  BY <1>1, <1>2 DEF IsOpen
<1>4. files' \in [Destination -> Content \cup {NoFile}]
  BY <1>2, EOFFrameType DEF Content
<1>5. TypeOK'
  BY <1>1, <1>2, <1>3, <1>4 DEF Inv, TypeOK
<1>6. WrittenIsPrefix'
  BY <1>3 DEF Inv, WrittenIsPrefix, StreamConsistent
<1>7. FileIntact'
  BY <1>2 DEF Inv, FileIntact
<1> QED
  BY <1>5, <1>6, <1>7 DEF Inv

(* The frame on top of a session's queue, when the loop is at it.          *)
LEMMA FrameOnTop ==
  ASSUME NEW s \in Session, NEW w, NEW content, SessionOK(s, w, content),
         AtFrame(w)
  PROVE  /\ w.nextFrameCount \in FrameNo(s)
         /\ AtEOF(w) <=> w.nextFrameCount = EOFFrame(s)
         /\ AtEOF(w) => EndName(s, w) = DestinationOf(s)
<1> DEFINE top == Top(w.queue, w.nextFrameCount)
<1>1. top \in w.queue /\ top.frameCount = w.nextFrameCount
  BY TopInQueue DEF AtFrame, IsTop
<1>2. top \in PacketsOf(s)
  BY <1>1 DEF SessionOK
<1>3. /\ top.frameCount \in FrameNo(s)
      /\ top.eOFFlag <=> top.frameCount = EOFFrame(s)
      /\ top.eOFFlag => top.payload = Name[s]
  BY <1>2, PacketOfSession
<1> QED
  BY <1>1, <1>3 DEF AtEOF, EndName, DestinationOf

(* A completed session has the whole source, and got there by an EOF frame *)
(* of its own.                                                             *)
LEMMA RenameDelivers ==
  ASSUME NEW s \in Session, NEW w, NEW content, SessionOK(s, w, content),
         RenameFile(s, w, content)
  PROVE  /\ CloseSession(s)
         /\ files' = [files EXCEPT ![DestinationOf(s)] = File[s]]
         /\ \E o \in w.queue : o.eOFFlag
<1>1. /\ AtEOF(w) /\ AtFrame(w)
      /\ w.output # "closed"
      /\ files' = [files EXCEPT ![EndName(s, w)] = content]
      /\ CloseSession(s)
  BY DEF RenameFile, AtEOF
<1>2. /\ w.nextFrameCount = EOFFrame(s)
      /\ EndName(s, w) = DestinationOf(s)
  BY <1>1, FrameOnTop
<1>3. w.output = "good"
  <2>1. w.output \in Output
    BY DEF SessionOK, Writer
  <2>2. w.output # "bad"
    BY <1>2, EOFFrameType DEF SessionOK, StreamConsistent
  <2> QED
    BY <1>1, <2>1, <2>2 DEF Output
<1>4. content = ChunksBefore(s, EOFFrame(s))
  BY <1>2, <1>3 DEF SessionOK, StreamConsistent
<1>5. ChunksBefore(s, EOFFrame(s)) = File[s]
  BY EOFFrameType, SubSeqFull DEF ChunksBefore
<1>6. \E o \in w.queue : o.eOFFlag
  BY <1>1, TopInQueue DEF AtEOF, AtFrame, IsTop
<1> QED
  BY <1>1, <1>2, <1>4, <1>5, <1>6

LEMMA WriteToStreamOK ==
  ASSUME Inv, NEW p \in Packet, WriteToStream(p), now' = now
  PROVE  Inv'
<1> DEFINE s == p.sessionId
           w == WriterOf(s)
           d(m) == Drained(w, p, m)
           c(m) == DrainedContent(w, p, m, TempOf(s))
<1>1. s \in Session /\ p \in PacketsOf(s)
  BY PacketHasSession
<1>2. SessionOK(s, w, TempOf(s))
  BY <1>1, WriterOfOK
<1>3. PICK m \in Reach(AddFrameToQueue(w.queue, p), w.nextFrameCount) :
        /\ m > w.nextFrameCount => OutputAccepts(w)
        /\ \/ WaitForFrame(s, d(m), c(m))
           \/ WriteThrows(s, d(m), c(m))
           \/ RenameFile(s, d(m), c(m))
           \/ RenameThrows(s, d(m), c(m))
  BY DEF WriteToStream
<1>4. SessionOK(s, d(m), c(m))
  BY <1>1, <1>2, <1>3, DrainedOK DEF Inv, TypeOK
<1>5. /\ d(m) \in Writer /\ d(m).output \in Output
      /\ d(m).queue \in Queue /\ d(m).nextFrameCount \in Nat \ {0}
  BY <1>4 DEF SessionOK, Writer
<1> HIDE DEF s, w, d, c
<1>6. CASE WaitForFrame(s, d(m), c(m))
  BY <1>1, <1>4, <1>6, KeepOK DEF WaitForFrame
<1>7. CASE WriteThrows(s, d(m), c(m))
  <2>1. CASE d(m).output = "good"
    <3>1. KeepSession(s, [d(m) EXCEPT !.output = "bad"], Torn)
      BY <1>7, <2>1 DEF WriteThrows
    <3>2. d(m).nextFrameCount < EOFFrame(s)
      BY <1>1, <1>4, <1>7, FrameOnTop, EOFFrameType DEF WriteThrows, FrameNo
    <3>3. SessionOK(s, [d(m) EXCEPT !.output = "bad"], Torn)
      BY <1>4, <1>5, <3>2 DEF SessionOK, StreamConsistent, Writer, Output
    <3> QED
      BY <1>1, <3>1, <3>3, KeepOK
  <2>2. CASE d(m).output # "good"
    BY <1>1, <1>4, <1>7, <2>2, KeepOK DEF WriteThrows
  <2> QED
    BY <2>1, <2>2
<1>8. CASE RenameFile(s, d(m), c(m))
  BY <1>1, <1>4, <1>8, RenameDelivers, CloseOK
<1>9. CASE RenameThrows(s, d(m), c(m))
  <2> DEFINE rest == d(m).queue \ {Top(d(m).queue, d(m).nextFrameCount)}
             r == [d(m) EXCEPT !.output = "closed", !.queue = rest]
  <2>1. KeepSession(s, r, c(m))
    BY <1>9 DEF RenameThrows
  <2>2. rest \in SUBSET d(m).queue
    OBVIOUS
  <2>3. rest \in Queue
    BY <1>5, <2>2, SubsetKeepsQueue
  <2>4. rest \subseteq PacketsOf(s)
    BY <1>4 DEF SessionOK
  <2> HIDE DEF rest
  <2>5. SessionOK(s, r, c(m))
    BY <1>4, <1>5, <2>3, <2>4 DEF SessionOK, StreamConsistent, Writer, Output
  <2> QED
    BY <1>1, <2>1, <2>5, KeepOK
<1> QED
  BY <1>3, <1>6, <1>7, <1>8, <1>9

LEMMA ReceivePacketOK ==
  ASSUME Inv, NEW p \in Packet, ReceivePacket(p)
  PROVE  Inv'
<1> DEFINE s == p.sessionId
<1>1. s \in Session
  BY PacketHasSession
<1>2. now' = now
  BY DEF ReceivePacket
<1>3. CASE WriteToStream(p)
  BY <1>2, <1>3, WriteToStreamOK
<1>4. CASE DiscardExpired(p)
  BY <1>1, <1>2, <1>4, CloseOK DEF DiscardExpired
<1>5. CASE DiscardThrows(p)
  <2> DEFINE w == [streams[s] EXCEPT !.output = "closed"]
  <2>1. IsOpen(s) /\ KeepSession(s, w, temp[s])
    BY <1>5 DEF DiscardThrows
  <2>2. SessionOK(s, streams[s], temp[s])
    BY <1>1, <2>1, WriterOfOK DEF WriterOf, TempOf
  <2>3. SessionOK(s, w, temp[s])
    BY <2>2 DEF SessionOK, StreamConsistent, Writer, Output
  <2> QED
    BY <1>1, <1>2, <2>1, <2>3, KeepOK
<1>6. CASE CreateThrows(p)
  BY <1>2, <1>6
  DEF CreateThrows, Inv, TypeOK, WrittenIsPrefix, FileIntact, IsOpen,
      StreamConsistent
<1> QED
  BY <1>3, <1>4, <1>5, <1>6 DEF ReceivePacket

(* Every reachable state has its types, every healthy stream holds a       *)
(* prefix of its source, and every final file is a whole source.           *)
THEOREM InvInvariant == Spec => []Inv
<1>1. Init => Inv
  <2> SUFFICES ASSUME Init PROVE Inv
    OBVIOUS
  <2>1. \A s \in Session : ~IsOpen(s)
    BY DEF Init, IsOpen
  <2> QED
    BY <2>1, TimeAssumption
    DEF Init, Inv, TypeOK, WrittenIsPrefix, FileIntact
<1>2. Inv /\ [Next]_serverVars => Inv'
  <2> SUFFICES ASSUME Inv, [Next]_serverVars PROVE Inv'
    OBVIOUS
  <2>1. ASSUME NEW p \in Packet, Arrives(p) PROVE Inv'
    BY <2>1, ReceivePacketOK DEF Arrives
  <2>2. CASE SetClock
    BY <2>2 DEF SetClock, Inv, TypeOK, WrittenIsPrefix, FileIntact, IsOpen,
                StreamConsistent
  <2>3. CASE Restart
    <3>1. \A s \in Session : ~IsOpen(s)'
      BY <2>3 DEF Restart, IsOpen
    <3> QED
      BY <2>3, <3>1 DEF Restart, Inv, TypeOK, WrittenIsPrefix, FileIntact
  <2>4. CASE UNCHANGED serverVars
    BY <2>4 DEF serverVars, Inv, TypeOK, WrittenIsPrefix, FileIntact, IsOpen,
                StreamConsistent
  <2> QED
    BY <2>1, <2>2, <2>3, <2>4 DEF Next
<1> QED
  BY <1>1, <1>2, PTL DEF Spec

(* For all values of the constants: the variables keep their types and no  *)
(* queue outgrows its limit.                                               *)
THEOREM TypeCorrect == Spec => []TypeOK
<1>1. Inv => TypeOK
  BY DEF Inv
<1> QED
  BY <1>1, InvInvariant, PTL

(* For all values of the constants: a healthy stream holds the source up   *)
(* to the awaited frame.                                                   *)
THEOREM StreamsHoldPrefixes == Spec => []WrittenIsPrefix
<1>1. Inv => WrittenIsPrefix
  BY DEF Inv
<1> QED
  BY <1>1, InvInvariant, PTL

(* For all values of the constants: no loss, repetition, reordering,       *)
(* expiry, failed call or restart ever leaves a final file that is not the *)
(* whole source of a session that asked for its name.                      *)
THEOREM FilesAreIntact == Spec => []FileIntact
<1>1. Inv => FileIntact
  BY DEF Inv
<1> QED
  BY <1>1, InvInvariant, PTL

-----------------------------------------------------------------------------
(* A step of the handler is about the session of its packet alone.         *)
LEMMA OtherSessionsStay ==
  ASSUME Inv, NEW p \in Packet, ReceivePacket(p),
         NEW s \in Session, s # p.sessionId
  PROVE  streams'[s] = streams[s]
<1>1. streams \in [Session -> Writer \cup {NoStream}]
  BY DEF Inv, TypeOK
<1>2. PICK w : streams' = [streams EXCEPT ![p.sessionId] = w] \/ streams' = streams
  BY DEF ReceivePacket, WriteToStream, DiscardExpired, DiscardThrows, CreateThrows,
         WaitForFrame, WriteThrows, RenameFile, RenameThrows, KeepSession,
         CloseSession
<1> QED
  BY <1>1, <1>2

(* The loop does not get past a stale frame, nor past a frame that a full  *)
(* queue refuses.                                                          *)
LEMMA StuckStays ==
  ASSUME NEW w, w.queue \in Queue, w.nextFrameCount \in Nat \ {0},
         \A o \in w.queue : o.frameCount \in Nat, Stuck(w), NEW p \in Packet,
         NEW m \in Reach(AddFrameToQueue(w.queue, p), w.nextFrameCount)
  PROVE  /\ m = w.nextFrameCount
         /\ Rest(AddFrameToQueue(w.queue, p), w.nextFrameCount, m)
              = AddFrameToQueue(w.queue, p)
         /\ ~IsTop(AddFrameToQueue(w.queue, p), w.nextFrameCount)
<1> DEFINE queue == AddFrameToQueue(w.queue, p)
           n == w.nextFrameCount
<1>1. ~IsTop(queue, n)
  <2>1. CASE \E o \in w.queue : o.frameCount < n
    <3>1. PICK o \in w.queue : o.frameCount < n
      BY <2>1
    <3>2. o \in queue /\ ~(o.frameCount >= n)
      BY <3>1 DEF AddFrameToQueue
    <3> QED
      BY <3>2 DEF IsTop
  <2>2. CASE /\ Cardinality(w.queue) >= MaxQueueLength
             /\ \A o \in w.queue : o.frameCount # n
    BY <2>2 DEF AddFrameToQueue, IsTop
  <2> QED
    BY <2>1, <2>2 DEF Stuck
<1>2. Rest(queue, n, n) = queue
  <2>1. n..(n - 1) = {}
    OBVIOUS
  <2> QED
    BY <2>1 DEF Rest, Popped
<1>3. m \in Nat /\ n <= m /\ Drains(queue, n, m)
  <2>1. Cardinality(queue) \in Nat
    BY AddKeepsQueue, FS_CardinalityType DEF Queue
  <2> QED
    BY <2>1 DEF Reach
<1>4. m = n
  <2> SUFFICES ASSUME n < m PROVE FALSE
    BY <1>3
  <2>1. n \in n..(m - 1)
    BY <1>3
  <2>2. IsTop(Rest(queue, n, n), n)
    BY <1>3, <2>1 DEF Drains
  <2> QED
    BY <1>1, <1>2, <2>2
<1> QED
  BY <1>1, <1>2, <1>4

(* For all values of the constants: a stuck or failed session delivers     *)
(* nothing any more and is never put right.                                *)
THEOREM WedgedSessionsStay == Spec => WedgedNeverDelivers
<1> DEFINE Dead(s) == Wedged(s) /\ streams'[s] # streams[s] =>
                        files' = files /\ (IsOpen(s)' => Wedged(s)')
<1>1. Inv /\ [Next]_serverVars => [\A s \in Session : Dead(s)]_serverVars
  <2> SUFFICES ASSUME Inv, Next, NEW s \in Session, Wedged(s),
                      streams'[s] # streams[s]
               PROVE  files' = files /\ (IsOpen(s)' => Wedged(s)')
    OBVIOUS
  <2>1. ASSUME NEW p \in Packet, ReceivePacket(p)
        PROVE  files' = files /\ (IsOpen(s)' => Wedged(s)')
    <3> DEFINE w == streams[s]
               q == AddFrameToQueue(w.queue, p)
    <3>1. s = p.sessionId
      BY <2>1, OtherSessionsStay
    <3>2. /\ IsOpen(s) /\ SessionOK(s, w, temp[s])
          /\ w = WriterOf(s) /\ temp[s] = TempOf(s)
      BY WriterOfOK DEF Wedged, WriterOf, TempOf
    <3>3. streams \in [Session -> Writer \cup {NoStream}]
      BY DEF Inv, TypeOK
    <3>4. ASSUME NEW v, streams' = [streams EXCEPT ![s] = v], v.output # "good"
          PROVE  Wedged(s)' \/ ~IsOpen(s)'
      BY <3>3, <3>4 DEF Wedged, IsOpen
    <3>5. CASE WriteToStream(p)
      <4>1. PICK m \in Reach(q, w.nextFrameCount) :
              \E content :
                /\ content = DrainedContent(w, p, m, temp[s])
                /\ m > w.nextFrameCount => OutputAccepts(w)
                /\ \/ WaitForFrame(s, Drained(w, p, m), content)
                   \/ WriteThrows(s, Drained(w, p, m), content)
                   \/ RenameFile(s, Drained(w, p, m), content)
                   \/ RenameThrows(s, Drained(w, p, m), content)
        BY <3>1, <3>2, <3>5 DEF WriteToStream
      <4> DEFINE d == Drained(w, p, m)
                 c == DrainedContent(w, p, m, temp[s])
      <4>2. /\ SessionOK(s, d, c)
            /\ w \in Writer /\ w.queue \in Queue
            /\ w.nextFrameCount \in Nat \ {0}
        <5>1. now \in 0..MaxTime /\ p \in PacketsOf(s)
          BY <3>1, PacketHasSession DEF Inv, TypeOK
        <5>2. m > w.nextFrameCount => OutputAccepts(w)
          BY <4>1
        <5>3. SessionOK(s, d, c)
          BY <3>2, <5>1, <5>2, DrainedOK
        <5> QED
          BY <3>2, <5>3 DEF SessionOK, Writer
      <4>3. d.output = w.output /\ d.nextFrameCount = m
        BY <4>2 DEF Drained, Writer
      <4>4. CASE w.output # "good"
        <5>1. ~RenameFile(s, d, c)
          <6> SUFFICES ASSUME RenameFile(s, d, c) PROVE FALSE
            OBVIOUS
          <6>1. AtEOF(d) /\ AtFrame(d) /\ d.output # "closed"
            BY DEF RenameFile, AtEOF
          <6>2. d.nextFrameCount = EOFFrame(s)
            BY <4>2, <6>1, FrameOnTop
          <6>3. d.output = "bad"
            BY <4>2, <4>3, <4>4, <6>1 DEF Writer, Output
          <6>4. d.nextFrameCount < EOFFrame(s)
            BY <4>2, <6>3 DEF SessionOK, StreamConsistent
          <6> QED
            BY <6>2, <6>4, EOFFrameType
        <5>2. d \in Writer
          BY <4>2 DEF SessionOK
        <5> HIDE DEF d, c
        <5>3. \E v : streams' = [streams EXCEPT ![s] = v] /\ v.output # "good"
                     /\ files' = files
          <6>1. CASE WaitForFrame(s, d, c)
            BY <4>3, <4>4, <6>1 DEF WaitForFrame, KeepSession
          <6>2. CASE WriteThrows(s, d, c)
            BY <4>3, <4>4, <6>2 DEF WriteThrows, KeepSession
          <6>3. CASE RenameThrows(s, d, c)
            <7> DEFINE v == [d EXCEPT !.output = "closed",
                               !.queue = @ \ {Top(@, d.nextFrameCount)}]
            <7>1. v.output = "closed"
              BY <5>2 DEF Writer
            <7>2. streams' = [streams EXCEPT ![s] = v] /\ files' = files
              BY <6>3 DEF RenameThrows, KeepSession
            <7> QED
              BY <7>1, <7>2
          <6> QED
            BY <4>1, <5>1, <6>1, <6>2, <6>3 DEF d, c
        <5> QED
          BY <3>4, <5>3
      <4>5. CASE Stuck(w)
        <5>1. \A o \in w.queue : o.frameCount \in Nat
          BY <3>2, PacketOfSession, EOFFrameType DEF SessionOK, FrameNo
        <5>2. /\ m = w.nextFrameCount
              /\ Rest(q, w.nextFrameCount, m) = q
              /\ ~IsTop(q, w.nextFrameCount)
          BY <4>2, <4>5, <5>1, StuckStays
        <5>3. d.queue = q /\ d.nextFrameCount = w.nextFrameCount
          BY <4>2, <5>2 DEF Drained, Writer
        <5>4. ~AtFrame(d)
          BY <5>2, <5>3 DEF AtFrame
        <5>5. WaitForFrame(s, d, c)
          BY <4>1, <5>4 DEF WriteThrows, RenameFile, RenameThrows, AtEOF
        <5>6. Stuck(d)
          BY <4>5, <5>3 DEF Stuck, AddFrameToQueue
        <5> HIDE DEF d, c
        <5>7. streams' = [streams EXCEPT ![s] = d] /\ files' = files
          BY <5>5 DEF WaitForFrame, KeepSession
        <5>8. streams'[s] = d
          BY <3>3, <5>7
        <5> QED
          BY <5>6, <5>7, <5>8 DEF Wedged, Stuck
      <4> QED
        BY <4>4, <4>5 DEF Wedged
    <3>6. CASE DiscardExpired(p)
      BY <3>1, <3>3, <3>6 DEF DiscardExpired, CloseSession, IsOpen
    <3>7. CASE DiscardThrows(p)
      <4> DEFINE v == [w EXCEPT !.output = "closed"]
      <4>1. streams' = [streams EXCEPT ![s] = v] /\ files' = files
        BY <3>1, <3>7 DEF DiscardThrows, KeepSession
      <4>2. v.output # "good"
        BY <3>2 DEF SessionOK, Writer
      <4> QED
        BY <3>4, <4>1, <4>2
    <3>8. CASE CreateThrows(p)
      BY <3>1, <3>2, <3>8 DEF CreateThrows
    <3> QED
      BY <2>1, <3>5, <3>6, <3>7, <3>8 DEF ReceivePacket
  <2>2. CASE SetClock
    BY <2>2 DEF SetClock
  <2>3. CASE Restart
    BY <2>3 DEF Restart, IsOpen
  <2> QED
    BY <2>1, <2>2, <2>3 DEF Next, Arrives
<1> QED
  BY <1>1, InvInvariant, PTL DEF Spec, WedgedNeverDelivers

(* A drained queue holds nothing new but the packet of the call.           *)
LEMMA DrainedQueue ==
  ASSUME NEW w \in Writer, NEW p, NEW m
  PROVE  Drained(w, p, m).queue \subseteq w.queue \cup {p}
<1>1. Drained(w, p, m).queue
        = Rest(AddFrameToQueue(w.queue, p), w.nextFrameCount, m)
  BY DEF Drained, Writer
<1> QED
  BY <1>1, RestInQueue DEF AddFrameToQueue

(* What a call leaves in the map for its session: nothing, a stream that   *)
(* failed, or a healthy one that waits for a frame it does not have.       *)
LEMMA EntryAfterCall ==
  ASSUME Inv, NEW p \in Packet, ReceivePacket(p), streams' # streams
  PROVE  \E w : /\ streams' = [streams EXCEPT ![p.sessionId] = w]
                /\ w # NoStream /\ w.output = "good" => ~AtFrame(w)
                /\ w # NoStream =>
                     w.queue \subseteq WriterOf(p.sessionId).queue \cup {p}
<1> DEFINE s == p.sessionId
           old == WriterOf(s)
           OK(w) == /\ w # NoStream /\ w.output = "good" => ~AtFrame(w)
                    /\ w # NoStream => w.queue \subseteq old.queue \cup {p}
<1> SUFFICES \E w : streams' = [streams EXCEPT ![s] = w] /\ OK(w)
  OBVIOUS
<1>1. s \in Session /\ p \in PacketsOf(s)
  BY PacketHasSession
<1>2. SessionOK(s, old, TempOf(s)) /\ now \in 0..MaxTime
  BY <1>1, WriterOfOK DEF Inv, TypeOK
<1>3. CASE WriteToStream(p)
  <2> DEFINE d(m) == Drained(old, p, m)
             c(m) == DrainedContent(old, p, m, TempOf(s))
  <2>1. PICK m \in Reach(AddFrameToQueue(old.queue, p), old.nextFrameCount) :
          /\ m > old.nextFrameCount => OutputAccepts(old)
          /\ \/ WaitForFrame(s, d(m), c(m))
             \/ WriteThrows(s, d(m), c(m))
             \/ RenameFile(s, d(m), c(m))
             \/ RenameThrows(s, d(m), c(m))
    BY <1>3 DEF WriteToStream
  <2>2. d(m) \in Writer /\ d(m).queue \subseteq old.queue \cup {p}
    BY <1>1, <1>2, <2>1, DrainedOK, DrainedQueue DEF SessionOK
  <2> HIDE DEF s, old, d, c
  <2>3. CASE WaitForFrame(s, d(m), c(m))
    BY <2>2, <2>3 DEF WaitForFrame, KeepSession
  <2>4. CASE WriteThrows(s, d(m), c(m))
    <3> DEFINE v == [d(m) EXCEPT !.output = "bad"]
    <3>1. v.output = "bad" /\ v.queue = d(m).queue
      BY <2>2 DEF Writer
    <3>2. CASE d(m).output = "good"
      <4>1. streams' = [streams EXCEPT ![s] = v]
        BY <2>4, <3>2 DEF WriteThrows, KeepSession
      <4> HIDE DEF v
      <4> QED
        BY <2>2, <3>1, <4>1
    <3>3. CASE d(m).output # "good"
      BY <2>2, <2>4, <3>3 DEF WriteThrows, KeepSession
    <3> QED
      BY <3>2, <3>3
  <2>5. CASE RenameFile(s, d(m), c(m))
    BY <2>5 DEF RenameFile, CloseSession
  <2>6. CASE RenameThrows(s, d(m), c(m))
    <3> DEFINE rest == d(m).queue \ {Top(d(m).queue, d(m).nextFrameCount)}
               v == [d(m) EXCEPT !.output = "closed", !.queue = rest]
    <3>1. v.output = "closed" /\ v.queue = rest
      BY <2>2 DEF Writer
    <3>2. streams' = [streams EXCEPT ![s] = v]
      BY <2>6 DEF RenameThrows, KeepSession
    <3>3. v.queue \subseteq old.queue \cup {p}
      BY <2>2, <3>1
    <3> HIDE DEF v
    <3> QED
      BY <3>1, <3>2, <3>3
  <2> QED
    BY <2>1, <2>3, <2>4, <2>5, <2>6
<1>4. CASE DiscardExpired(p)
  BY <1>4 DEF DiscardExpired, CloseSession
<1>5. CASE DiscardThrows(p)
  <2> DEFINE v == [streams[s] EXCEPT !.output = "closed"]
  <2>1. streams' = [streams EXCEPT ![s] = v]
    BY <1>5 DEF DiscardThrows, KeepSession
  <2>2. old = streams[s] /\ streams[s] \in Writer
    BY <1>2, <1>5 DEF DiscardThrows, WriterOf, SessionOK
  <2>3. v.output = "closed" /\ v.queue = streams[s].queue
    BY <2>2 DEF Writer
  <2> HIDE DEF v
  <2> QED
    BY <2>1, <2>2, <2>3
<1> QED
  BY <1>3, <1>4, <1>5 DEF ReceivePacket, CreateThrows

(* A call leaves the final files alone, or an EOF frame has come and the   *)
(* whole file is put in its place.                                         *)
LEMMA FilesAfterCall ==
  ASSUME Inv, NEW p \in Packet, ReceivePacket(p), files' # files
  PROVE  /\ files' = [files EXCEPT ![DestinationOf(p.sessionId)]
                                      = File[p.sessionId]]
         /\ \E o \in WriterOf(p.sessionId).queue \cup {p} : o.eOFFlag
<1> DEFINE s == p.sessionId
           w == WriterOf(s)
           d(m) == Drained(w, p, m)
           c(m) == DrainedContent(w, p, m, TempOf(s))
<1>1. s \in Session /\ p \in PacketsOf(s)
  BY PacketHasSession
<1>2. SessionOK(s, w, TempOf(s)) /\ now \in 0..MaxTime
  BY <1>1, WriterOfOK DEF Inv, TypeOK
<1>3. WriteToStream(p)
  BY DEF ReceivePacket, DiscardExpired, DiscardThrows, CreateThrows, KeepSession
<1>4. PICK m \in Reach(AddFrameToQueue(w.queue, p), w.nextFrameCount) :
        /\ m > w.nextFrameCount => OutputAccepts(w)
        /\ \/ WaitForFrame(s, d(m), c(m))
           \/ WriteThrows(s, d(m), c(m))
           \/ RenameFile(s, d(m), c(m))
           \/ RenameThrows(s, d(m), c(m))
  BY <1>3 DEF WriteToStream
<1>5. SessionOK(s, d(m), c(m)) /\ d(m).queue \subseteq w.queue \cup {p}
  BY <1>1, <1>2, <1>4, DrainedOK, DrainedQueue DEF SessionOK
<1>6. RenameFile(s, d(m), c(m))
  BY <1>4 DEF WaitForFrame, WriteThrows, RenameThrows, KeepSession
<1> HIDE DEF s, w, d, c
<1>7. /\ files' = [files EXCEPT ![DestinationOf(s)] = File[s]]
      /\ \E o \in d(m).queue : o.eOFFlag
  BY <1>1, <1>5, <1>6, RenameDelivers
<1> QED
  BY <1>5, <1>7 DEF s, w

LEMMA WaitsAfterCall ==
  ASSUME Inv, WaitsOnlyForMissing, NEW p \in Packet, ReceivePacket(p),
         streams' # streams
  PROVE  WaitsOnlyForMissing'
<1>1. PICK w : /\ streams' = [streams EXCEPT ![p.sessionId] = w]
               /\ w # NoStream /\ w.output = "good" => ~AtFrame(w)
  BY EntryAfterCall
<1>2. streams \in [Session -> Writer \cup {NoStream}]
  BY DEF Inv, TypeOK
<1> QED
  BY <1>1, <1>2 DEF WaitsOnlyForMissing, IsOpen, AtFrame

(* For all values of the constants: between two packets no healthy session *)
(* holds the frame it waits for.                                           *)
THEOREM LoopRunsDry == Spec => []WaitsOnlyForMissing
<1>1. Init => WaitsOnlyForMissing
  BY DEF Init, WaitsOnlyForMissing, IsOpen
<1>2. Inv /\ WaitsOnlyForMissing /\ [Next]_serverVars => WaitsOnlyForMissing'
  <2> SUFFICES ASSUME Inv, WaitsOnlyForMissing, [Next]_serverVars
               PROVE  WaitsOnlyForMissing'
    OBVIOUS
  <2>1. CASE streams' = streams
    BY <2>1 DEF WaitsOnlyForMissing, IsOpen, AtFrame
  <2>2. ASSUME NEW p \in Packet, ReceivePacket(p), streams' # streams
        PROVE  WaitsOnlyForMissing'
    BY <2>2, WaitsAfterCall
  <2>3. CASE Restart
    BY <2>3 DEF Restart, WaitsOnlyForMissing, IsOpen
  <2> QED
    BY <2>1, <2>2, <2>3 DEF Next, Arrives, SetClock, serverVars
<1> QED
  BY <1>1, <1>2, InvInvariant, PTL DEF Spec

(* For all values of the constants: a session silent for longer than the   *)
(* timeout neither queues the packet that ends the silence nor completes.  *)
THEOREM TimeoutIsChecked == Spec => NothingSavedAfterTimeout
<1> DEFINE Silent(s) == IsOpen(s) /\ streams'[s] # streams[s]
                          /\ now - streams[s].timeLastUpdated > Timeout
           Kept(s) == /\ files' = files
                      /\ IsOpen(s)' => streams'[s].queue = streams[s].queue
<1>1. Inv /\ [Next]_serverVars
        => [\A s \in Session : Silent(s) => Kept(s)]_serverVars
  <2> SUFFICES ASSUME Inv, Next, NEW s \in Session, Silent(s)
               PROVE  Kept(s)
    OBVIOUS
  <2>1. streams \in [Session -> Writer \cup {NoStream}]
    BY DEF Inv, TypeOK
  <2>2. ASSUME NEW p \in Packet, ReceivePacket(p)
        PROVE  Kept(s)
    <3>1. s = p.sessionId
      BY <2>2, OtherSessionsStay
    <3>2. streams[s] \in Writer
      BY <2>1 DEF IsOpen
    <3>3. IsStreamExpired(streams[s])
      <4>1. streams[s].timeLastUpdated \in Int /\ now \in Int
        BY <3>2 DEF Writer, Inv, TypeOK
      <4> QED
        BY <4>1, TimeAssumption DEF IsStreamExpired
    <3>4. ~WriteToStream(p) /\ ~CreateThrows(p)
      BY <3>1, <3>3 DEF WriteToStream, WriterOf, CreateThrows
    <3>5. CASE DiscardExpired(p)
      BY <2>1, <3>1, <3>5 DEF DiscardExpired, CloseSession, IsOpen
    <3>6. CASE DiscardThrows(p)
      <4>1. /\ streams' = [streams EXCEPT
                            ![s] = [streams[s] EXCEPT !.output = "closed"]]
            /\ files' = files
        BY <3>1, <3>6 DEF DiscardThrows, KeepSession
      <4>2. streams'[s].queue = streams[s].queue
        BY <2>1, <3>2, <4>1 DEF Writer
      <4> QED
        BY <4>1, <4>2
    <3> QED
      BY <2>2, <3>4, <3>5, <3>6 DEF ReceivePacket
  <2>3. CASE SetClock
    BY <2>3 DEF SetClock
  <2>4. CASE Restart
    BY <2>4 DEF Restart, IsOpen
  <2> QED
    BY <2>2, <2>3, <2>4 DEF Next, Arrives
<1> QED
  BY <1>1, InvInvariant, PTL DEF Spec, NothingSavedAfterTimeout
=============================================================================
