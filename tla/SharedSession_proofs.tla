------------------------- MODULE SharedSession_proofs -------------------------
(***************************************************************************)
(* What is proved of clients that draw one session id, for any number of   *)
(* clients and ids, any files and any queue length.                        *)
(***************************************************************************)
EXTENDS ReorderLoop, SequenceTheorems, FiniteSetTheorems, WellFoundedInduction,
        TLAPS

AllPackets == UNION {PacketsFrom(c) : c \in Client}

(* One of the clients with session id i has v in place k of its file.      *)
InPlace(i, k, v) ==
  \E e \in Client : id[e] = i /\ k \in 1..Len(Source[e]) /\ v = Source[e][k]

(* A session has written as many frames as it counts, each in its place,   *)
(* and has nothing queued but packets of clients with its id.              *)
StreamOK(i) ==
  /\ stream[i].queue \subseteq {p \in AllPackets : id[p.client] = i}
  /\ stream[i].content \in Seq(Chunk)
  /\ stream[i].nextFrameCount = Len(stream[i].content) + 1
  /\ \A k \in 1..Len(stream[i].content) : InPlace(i, k, stream[i].content[k])

(* A final file is the length of the file of the client whose EOF frame    *)
(* ended it.                                                               *)
FileOK(n) ==
  files[n] # NoFile =>
    /\ files[n] \in Seq(Chunk)
    /\ \E c \in Client :
         /\ Name[c] = n
         /\ Len(files[n]) = Len(Source[c])
         /\ \A k \in 1..Len(files[n]) : InPlace(id[c], k, files[n][k])

SharedInv ==
  /\ id \in [Client -> Id]
  /\ network \subseteq AllPackets
  /\ stream \in [Id -> [queue : SUBSET AllPackets, nextFrameCount : Nat,
                        content : Seq(Chunk)]]
  /\ \A i \in Id : StreamOK(i)
  /\ \A n \in DOMAIN files : FileOK(n)
-----------------------------------------------------------------------------
LEMMA PacketFacts ==
  ASSUME NEW p \in AllPackets
  PROVE  /\ p.client \in Client
         /\ p.frameCount \in 1..(Len(Source[p.client]) + 1)
         /\ p.eOFFlag => /\ p.frameCount = Len(Source[p.client]) + 1
                         /\ p.payload = Name[p.client]
         /\ ~p.eOFFlag => /\ p.frameCount \in 1..Len(Source[p.client])
                          /\ p.payload = Source[p.client][p.frameCount]
                          /\ p.payload \in Chunk
<1>1. PICK c \in Client : p \in PacketsFrom(c)
  BY DEF AllPackets
<1>2. PICK f \in 1..EOFFrame(c) : p = PacketFrom(c, f)
  BY <1>1 DEF PacketsFrom
<1>3. Source[c] \in Seq(Chunk) /\ Len(Source[c]) \in Nat
  BY SourceAssumption, LenProperties
<1>4. /\ p.client = c /\ p.frameCount = f
      /\ p.eOFFlag = (f = EOFFrame(c))
      /\ p.payload = IF f = EOFFrame(c) THEN Name[c] ELSE Source[c][f]
  BY <1>2 DEF PacketFrom
<1>5. EOFFrame(c) = Len(Source[c]) + 1
  BY DEF EOFFrame
<1>6. f # EOFFrame(c) => f \in 1..Len(Source[c]) /\ Source[c][f] \in Chunk
  <2> SUFFICES ASSUME f # EOFFrame(c)
               PROVE  f \in 1..Len(Source[c]) /\ Source[c][f] \in Chunk
    OBVIOUS
  <2>1. f \in 1..Len(Source[c])
    BY <1>3, <1>5
  <2> QED
    BY <1>3, <2>1, ElementOfSeq
<1> QED
  BY <1>4, <1>5, <1>6

LEMMA InitShared ==
  ASSUME SharedInit
  PROVE  SharedInv
<1>1. /\ id \in [Client -> Id]
      /\ network = AllPackets
      /\ stream = [i \in Id |-> NewStream]
      /\ files = [n \in {Name[c] : c \in Client} |-> NoFile]
  BY DEF SharedInit, AllPackets
<1>2. /\ NewStream.queue = {} /\ NewStream.nextFrameCount = 1
      /\ NewStream.content = <<>> /\ Len(<<>>) = 0
      /\ NewStream \in [queue : SUBSET AllPackets, nextFrameCount : Nat,
                        content : Seq(Chunk)]
  BY DEF NewStream
<1>3. \A i \in Id : StreamOK(i)
  BY <1>1, <1>2 DEF StreamOK
<1>4. \A n \in DOMAIN files : FileOK(n)
  BY <1>1 DEF FileOK
<1> QED
  BY <1>1, <1>2, <1>3, <1>4 DEF SharedInv

(* A packet changes nothing but the queue of the session it names.         *)
LEMMA ReceiveShared ==
  ASSUME SharedInv, NEW p \in network, Receive(p)
  PROVE  SharedInv'
<1> DEFINE i == id[p.client]
           q == AddFrameToQueue(stream[i].queue, p)
<1>1. p \in AllPackets /\ p.client \in Client /\ i \in Id
  BY PacketFacts DEF SharedInv
<1>2. /\ network' = network \ {p}
      /\ stream' = [stream EXCEPT ![i].queue = q]
      /\ id' = id /\ files' = files
  BY DEF Receive
<1>3. q \subseteq stream[i].queue \cup {p}
  BY DEF AddFrameToQueue
<1> HIDE DEF q
<1>4. stream[i].queue \subseteq {o \in AllPackets : id[o.client] = i}
  BY <1>1 DEF SharedInv, StreamOK
<1>5. q \subseteq {o \in AllPackets : id[o.client] = i}
  BY <1>1, <1>3, <1>4
<1>6. stream' \in [Id -> [queue : SUBSET AllPackets, nextFrameCount : Nat,
                          content : Seq(Chunk)]]
  BY <1>1, <1>2, <1>5 DEF SharedInv
<1>7. ASSUME NEW j \in Id
      PROVE  StreamOK(j)'
  <2>1. StreamOK(j)
    BY DEF SharedInv
  <2>2. /\ stream'[j].content = stream[j].content
        /\ stream'[j].nextFrameCount = stream[j].nextFrameCount
        /\ j = i => stream'[j].queue = q
        /\ j # i => stream'[j].queue = stream[j].queue
    BY <1>1, <1>2 DEF SharedInv
  <2> QED
    BY <1>2, <1>5, <2>1, <2>2 DEF StreamOK, InPlace
<1>8. (\A n \in DOMAIN files : FileOK(n))'
  BY <1>2 DEF SharedInv, FileOK, InPlace
<1> QED
  BY <1>2, <1>6, <1>7, <1>8 DEF SharedInv

(* What the loop may write is queued and has the awaited count.            *)
LEMMA WritableFacts ==
  ASSUME SharedInv, NEW i \in Id, NEW p \in Writable(i)
  PROVE  /\ p \in AllPackets /\ p.client \in Client /\ id[p.client] = i
         /\ p.frameCount = Len(stream[i].content) + 1
         /\ stream[i].content \in Seq(Chunk) /\ Len(stream[i].content) \in Nat
<1>1. p \in stream[i].queue /\ p.frameCount = stream[i].nextFrameCount
  BY DEF Writable
<1>2. StreamOK(i)
  BY DEF SharedInv
<1> QED
  BY <1>1, <1>2, PacketFacts, LenProperties DEF StreamOK

(* A data frame is written in the place its count says.                    *)
LEMMA WriteShared ==
  ASSUME SharedInv, NEW i \in Id, WriteFrame(i)
  PROVE  SharedInv'
<1>1. PICK p \in Writable(i) :
        /\ ~p.eOFFlag
        /\ stream' = [stream EXCEPT ![i] =
                        [queue |-> @.queue \ {p},
                         nextFrameCount |-> @.nextFrameCount + 1,
                         content |-> Append(@.content, p.payload)]]
        /\ UNCHANGED <<id, network, files>>
  BY DEF WriteFrame
<1> DEFINE content == stream[i].content
           L == Len(content)
<1>2. /\ p \in AllPackets /\ p.client \in Client /\ id[p.client] = i
      /\ p.frameCount = L + 1 /\ content \in Seq(Chunk) /\ L \in Nat
  BY WritableFacts
<1>3. /\ L + 1 \in 1..Len(Source[p.client])
      /\ p.payload = Source[p.client][L + 1] /\ p.payload \in Chunk
  BY <1>1, <1>2, PacketFacts
<1>4. /\ Append(content, p.payload) \in Seq(Chunk)
      /\ Len(Append(content, p.payload)) = L + 1
      /\ Append(content, p.payload)[L + 1] = p.payload
      /\ \A k \in 1..L : Append(content, p.payload)[k] = content[k]
  BY <1>2, <1>3, AppendProperties
<1>5. StreamOK(i) /\ stream[i].nextFrameCount = L + 1
  BY DEF SharedInv, StreamOK
<1>6. /\ stream'[i].queue = stream[i].queue \ {p}
      /\ stream'[i].nextFrameCount = L + 2
      /\ stream'[i].content = Append(content, p.payload)
      /\ \A j \in Id : j # i => stream'[j] = stream[j]
  BY <1>1, <1>2, <1>5 DEF SharedInv
<1>7. id' = id /\ network' = network /\ files' = files
  BY <1>1
<1>8. InPlace(i, L + 1, p.payload)
  BY <1>2, <1>3 DEF InPlace
<1>9. StreamOK(i)'
  <2>1. /\ stream'[i].queue \subseteq {o \in AllPackets : id'[o.client] = i}
        /\ stream'[i].content \in Seq(Chunk)
    BY <1>4, <1>5, <1>6, <1>7 DEF StreamOK
  <2>2. stream'[i].nextFrameCount = Len(stream'[i].content) + 1
    BY <1>2, <1>4, <1>6
  <2>3. ASSUME NEW k \in 1..Len(stream'[i].content)
        PROVE  InPlace(i, k, stream'[i].content[k])
    <3>1. CASE k = L + 1
      BY <1>4, <1>6, <1>8, <3>1
    <3>2. CASE k # L + 1
      <4>1. k \in 1..L
        BY <1>2, <1>4, <1>6, <3>2
      <4> QED
        BY <1>4, <1>5, <1>6, <4>1 DEF StreamOK
    <3> QED
      BY <3>1, <3>2
  <2>4. \A k \in 1..Len(stream'[i].content) : InPlace(i, k, stream[i].content[k])'
    BY <1>7, <2>3 DEF InPlace
  <2> QED
    BY <2>1, <2>2, <2>4 DEF StreamOK
<1>10. \A j \in Id : StreamOK(j)'
  <2>1. ASSUME NEW j \in Id, j # i
        PROVE  StreamOK(j)'
    <3>1. stream'[j] = stream[j]
      BY <1>6, <2>1
    <3> QED
      BY <1>7, <3>1 DEF SharedInv, StreamOK, InPlace
  <2> QED
    BY <1>9, <2>1
<1>11. stream' \in [Id -> [queue : SUBSET AllPackets, nextFrameCount : Nat,
                           content : Seq(Chunk)]]
  BY <1>1, <1>4 DEF SharedInv
<1>12. (\A n \in DOMAIN files : FileOK(n))'
  <2> SUFFICES ASSUME NEW n \in DOMAIN files PROVE FileOK(n)'
    BY <1>7
  <2>1. FileOK(n)
    BY DEF SharedInv
  <2> QED
    BY <1>7, <2>1 DEF FileOK, InPlace
<1> QED
  BY <1>7, <1>10, <1>11, <1>12 DEF SharedInv

(* The EOF frame's count says how much was written before it.              *)
LEMMA CompleteShared ==
  ASSUME SharedInv, NEW i \in Id, CompleteFile(i)
  PROVE  SharedInv'
<1>1. PICK p \in Writable(i) :
        /\ p.eOFFlag
        /\ files' = [files EXCEPT ![p.payload] = stream[i].content]
        /\ stream' = [stream EXCEPT ![i] = NewStream]
        /\ UNCHANGED <<id, network>>
  BY DEF CompleteFile
<1>2. /\ p \in AllPackets /\ p.client \in Client /\ id[p.client] = i
      /\ p.frameCount = Len(stream[i].content) + 1
      /\ stream[i].content \in Seq(Chunk) /\ Len(stream[i].content) \in Nat
  BY WritableFacts
<1>3. Len(Source[p.client]) \in Nat
  BY <1>2, SourceAssumption, LenProperties
<1>4. p.payload = Name[p.client] /\ Len(stream[i].content) = Len(Source[p.client])
  BY <1>1, <1>2, <1>3, PacketFacts
<1>5. id' = id /\ network' = network
  BY <1>1
<1>6. /\ NewStream.queue = {} /\ NewStream.nextFrameCount = 1
      /\ NewStream.content = <<>> /\ Len(<<>>) = 0
      /\ NewStream \in [queue : SUBSET AllPackets, nextFrameCount : Nat,
                        content : Seq(Chunk)]
  BY DEF NewStream
<1>7. stream' \in [Id -> [queue : SUBSET AllPackets, nextFrameCount : Nat,
                          content : Seq(Chunk)]]
  BY <1>1, <1>6 DEF SharedInv
<1>8. ASSUME NEW j \in Id
      PROVE  StreamOK(j)'
  <2>1. CASE j = i
    <3>1. stream'[j] = NewStream
      BY <1>1, <2>1 DEF SharedInv
    <3> QED
      BY <1>6, <3>1 DEF StreamOK
  <2>2. CASE j # i
    <3>1. stream'[j] = stream[j]
      BY <1>1, <2>2 DEF SharedInv
    <3> QED
      BY <1>5, <3>1 DEF SharedInv, StreamOK, InPlace
  <2> QED
    BY <2>1, <2>2
<1>9. ASSUME NEW n \in DOMAIN files
      PROVE  FileOK(n)'
  <2>1. CASE n = p.payload
    <3>1. files'[n] = stream[i].content
      BY <1>1, <1>9, <2>1
    <3>2. \A k \in 1..Len(files'[n]) : InPlace(id[p.client], k, files[n][k])'
      <4>1. \A k \in 1..Len(stream[i].content) : InPlace(i, k, stream[i].content[k])
        BY DEF SharedInv, StreamOK
      <4> QED
        BY <1>2, <1>5, <3>1, <4>1 DEF InPlace
    <3> QED
      BY <1>2, <1>4, <1>5, <2>1, <3>1, <3>2 DEF FileOK
  <2>2. CASE n # p.payload
    <3>1. files'[n] = files[n]
      BY <1>1, <1>9, <2>2
    <3> QED
      BY <1>5, <1>9, <3>1 DEF SharedInv, FileOK, InPlace
  <2> QED
    BY <2>1, <2>2
<1>10. DOMAIN files' = DOMAIN files
  BY <1>1
<1> QED
  BY <1>5, <1>7, <1>8, <1>9, <1>10 DEF SharedInv

(* The strengthening of MixedInPlaceOnly: it is inductive.                 *)
THEOREM SharedInvariant == SharedSpec => []SharedInv
<1>1. SharedInv /\ [SharedNext]_sharedVars => SharedInv'
  <2> SUFFICES ASSUME SharedInv, [SharedNext]_sharedVars
               PROVE  SharedInv'
    OBVIOUS
  <2>1. ASSUME NEW p \in network, Receive(p) PROVE SharedInv'
    BY <2>1, ReceiveShared
  <2>2. ASSUME NEW i \in Id, WriteFrame(i) PROVE SharedInv'
    BY <2>2, WriteShared
  <2>3. ASSUME NEW i \in Id, CompleteFile(i) PROVE SharedInv'
    BY <2>3, CompleteShared
  <2>4. CASE UNCHANGED sharedVars
    BY <2>4 DEF sharedVars, SharedInv, StreamOK, FileOK, InPlace
  <2> QED
    BY <2>1, <2>2, <2>3, <2>4 DEF SharedNext
<1> QED
  BY <1>1, InitShared, PTL DEF SharedSpec

(* Clients that draw one id can mix their frames, but only place by place: *)
(* the frame counts the server awaits keep the places, and the EOF frame   *)
(* ends the file at its client's length.                                   *)
THEOREM MixedOnlyInPlace == SharedSpec => []MixedInPlaceOnly
<1>1. SharedInv => MixedInPlaceOnly
  <2> SUFFICES ASSUME SharedInv, NEW n \in DOMAIN files, files[n] # NoFile
               PROVE  \E c \in Client :
                        /\ Name[c] = n
                        /\ Len(files[n]) = Len(Source[c])
                        /\ \A k \in 1..Len(files[n]) :
                             \E e \in Client : /\ id[e] = id[c]
                                               /\ k <= Len(Source[e])
                                               /\ files[n][k] = Source[e][k]
    BY DEF MixedInPlaceOnly
  <2>1. PICK c \in Client :
          /\ Name[c] = n
          /\ Len(files[n]) = Len(Source[c])
          /\ \A k \in 1..Len(files[n]) : InPlace(id[c], k, files[n][k])
    BY DEF SharedInv, FileOK
  <2>2. ASSUME NEW k \in 1..Len(files[n])
        PROVE  \E e \in Client : /\ id[e] = id[c]
                                 /\ k <= Len(Source[e])
                                 /\ files[n][k] = Source[e][k]
    <3>1. PICK e \in Client :
            id[e] = id[c] /\ k \in 1..Len(Source[e]) /\ files[n][k] = Source[e][k]
      BY <2>1 DEF InPlace
    <3>2. Len(Source[e]) \in Nat
      BY SourceAssumption, LenProperties
    <3> QED
      BY <3>1, <3>2
  <2> QED
    BY <2>1, <2>2
<1> QED
  BY <1>1, SharedInvariant, PTL

(* A client alone with its session id: the other clients, however they     *)
(* share theirs, do not touch its file.                                    *)
Alone(c) == \A e \in Client : id[e] = id[c] => e = c

AloneIsWhole ==
  \A n \in DOMAIN files : files[n] # NoFile =>
    \E c \in Client : Name[c] = n /\ (Alone(c) => files[n] = Source[c])

(* What the other models assume, that ids are unique, is what they need:   *)
(* a final file ended by a client alone with its id is that client's.      *)
THEOREM AloneSessionIsWhole == SharedSpec => []AloneIsWhole
<1>1. SharedInv => AloneIsWhole
  <2> SUFFICES ASSUME SharedInv, NEW n \in DOMAIN files, files[n] # NoFile
               PROVE  \E c \in Client :
                        Name[c] = n /\ (Alone(c) => files[n] = Source[c])
    BY DEF AloneIsWhole
  <2>1. files[n] \in Seq(Chunk)
    BY DEF SharedInv, FileOK
  <2>2. PICK c \in Client :
          /\ Name[c] = n
          /\ Len(files[n]) = Len(Source[c])
          /\ \A k \in 1..Len(files[n]) : InPlace(id[c], k, files[n][k])
    BY DEF SharedInv, FileOK
  <2>3. ASSUME Alone(c)
        PROVE  files[n] = Source[c]
    <3>1. \A k \in 1..Len(files[n]) : files[n][k] = Source[c][k]
      BY <2>2, <2>3 DEF InPlace, Alone
    <3>2. Source[c] \in Seq(Chunk)
      BY SourceAssumption
    <3> QED
      BY <2>1, <2>2, <3>1, <3>2, SeqEqual
  <2> QED
    BY <2>2, <2>3
<1> QED
  BY <1>1, SharedInvariant, PTL
-----------------------------------------------------------------------------
(* Induction with a set in the place of the predicate.                     *)
LEMMA SetInduction ==
  ASSUME NEW T \in SUBSET Nat, 0 \in T, \A n \in T : n + 1 \in T
  PROVE  \A n \in Nat : n \in T
<1> DEFINE Less == OpToRel(<, Nat)
           Others == Nat \ T
<1>1. \A m, n \in Nat : m < n => <<m, n>> \in Less
  BY DEF OpToRel
<1>2. IsWellFoundedOn(Less, Nat)
  BY NatLessThanWellFounded
<1> HIDE DEF Less
<1> SUFFICES ASSUME Others # {} PROVE FALSE
  OBVIOUS
<1>3. PICK x \in Others : \A y \in Others : ~(<<y, x>> \in Less)
  BY <1>2, WFMin
<1>4. x - 1 \in Nat /\ x - 1 < x
  OBVIOUS
<1>5. x - 1 \in T
  BY <1>1, <1>3, <1>4
<1> QED
  BY <1>4, <1>5

(* A nonempty set of packets has one with the smallest count.              *)
LEMMA SmallestCount ==
  ASSUME NEW q, q # {}, \A p \in q : p.frameCount \in Nat
  PROVE  \E p \in q : \A o \in q : p.frameCount <= o.frameCount
<1> DEFINE Less == OpToRel(<, Nat)
           Counts == {p.frameCount : p \in q}
<1>1. \A m, n \in Nat : m < n => <<m, n>> \in Less
  BY DEF OpToRel
<1>2. IsWellFoundedOn(Less, Nat)
  BY NatLessThanWellFounded
<1> HIDE DEF Less
<1>3. Counts \subseteq Nat /\ Counts # {}
  OBVIOUS
<1>4. PICK x \in Counts : \A y \in Counts : ~(<<y, x>> \in Less)
  BY <1>2, <1>3, WFMin
<1>5. PICK p \in q : p.frameCount = x
  OBVIOUS
<1>6. ASSUME NEW o \in q PROVE p.frameCount <= o.frameCount
  <2>1. o.frameCount \in Counts /\ o.frameCount \in Nat /\ x \in Nat
    BY <1>3
  <2>2. ~(o.frameCount < x)
    BY <1>1, <1>4, <2>1
  <2> QED
    BY <1>5, <2>1, <2>2
<1> QED
  BY <1>6
-----------------------------------------------------------------------------
(* The loop as a function of its turns is what it is defined by.           *)
LEMMA LoopUnfolds ==
  ASSUME NEW q, NEW n
  PROVE  /\ LoopAfter(q, n)[0] = LoopStart(q, n)
         /\ \A k \in Nat : LoopAfter(q, n)[k + 1] = LoopTurn(LoopAfter(q, n)[k])
<1> DEFINE S == LoopStart(q, n)
           UpTo(g, m) ==
             g = [k \in 0..m |-> IF k = 0 THEN S ELSE LoopTurn(g[k - 1])]
           loop == [k \in Nat |-> (CHOOSE g : UpTo(g, k))[k]]
<1> HIDE DEF S
<1>1. ASSUME NEW a \in Nat, NEW b \in Nat, NEW g, NEW h, UpTo(g, a), UpTo(h, b)
      PROVE  \A k \in Nat : k <= a /\ k <= b => g[k] = h[k]
  <2> DEFINE T == {k \in Nat : k <= a /\ k <= b => g[k] = h[k]}
  <2>1. 0 \in T
    BY <1>1
  <2>2. ASSUME NEW k \in T PROVE k + 1 \in T
    <3> SUFFICES ASSUME k + 1 <= a, k + 1 <= b PROVE g[k + 1] = h[k + 1]
      OBVIOUS
    <3>1. g[k] = h[k] /\ k + 1 # 0 /\ (k + 1) - 1 = k
      OBVIOUS
    <3>2. g[k + 1] = LoopTurn(g[k])
      BY <1>1, <3>1
    <3>3. h[k + 1] = LoopTurn(h[k])
      BY <1>1, <3>1
    <3> QED
      BY <3>1, <3>2, <3>3
  <2>3. T \in SUBSET Nat
    OBVIOUS
  <2> HIDE DEF T
  <2>4. \A k \in Nat : k \in T
    BY <2>1, <2>2, <2>3, SetInduction
  <2> QED
    BY <2>4 DEF T
<1>2. \A m \in Nat : \E g : UpTo(g, m)
  <2> DEFINE T == {m \in Nat : \E g : UpTo(g, m)}
  <2>1. 0 \in T
    <3>1. UpTo([k \in 0..0 |-> S], 0)
      OBVIOUS
    <3> QED
      BY <3>1
  <2>2. ASSUME NEW m \in T PROVE m + 1 \in T
    <3>1. PICK g : UpTo(g, m)
      OBVIOUS
    <3> DEFINE h == [k \in 0..(m + 1) |-> IF k = m + 1 THEN LoopTurn(g[m]) ELSE g[k]]
    <3>2. ASSUME NEW k \in 0..(m + 1)
          PROVE  h[k] = IF k = 0 THEN S ELSE LoopTurn(h[k - 1])
      <4>1. CASE k = m + 1
        BY <4>1
      <4>2. CASE k = 0
        BY <3>1, <4>2
      <4>3. CASE k # m + 1 /\ k # 0
        <5>1. k \in 0..m /\ k - 1 \in 0..m
          BY <4>3
        <5>2. g[k] = LoopTurn(g[k - 1])
          BY <3>1, <4>3, <5>1
        <5> QED
          BY <4>3, <5>1, <5>2
      <4> QED
        BY <4>1, <4>2, <4>3
    <3>3. h = [k \in 0..(m + 1) |-> IF k = 0 THEN S ELSE LoopTurn(h[k - 1])]
      BY <3>2
    <3> HIDE DEF h
    <3>4. UpTo(h, m + 1)
      BY <3>3
    <3> QED
      BY <3>4
  <2>3. T \in SUBSET Nat
    OBVIOUS
  <2> HIDE DEF T
  <2>4. \A m \in Nat : m \in T
    BY <2>1, <2>2, <2>3, SetInduction
  <2> QED
    BY <2>4 DEF T
<1>3. ASSUME NEW k \in Nat
      PROVE  loop[k] = IF k = 0 THEN S ELSE LoopTurn(loop[k - 1])
  <2> DEFINE g == CHOOSE h : UpTo(h, k)
  <2>1. UpTo(g, k) /\ loop[k] = g[k]
    BY <1>2
  <2>2. CASE k = 0
    BY <2>1, <2>2
  <2>3. CASE k # 0
    <3> DEFINE f == CHOOSE h : UpTo(h, k - 1)
    <3>1. k - 1 \in Nat /\ k - 1 <= k
      BY <2>3
    <3>2. UpTo(f, k - 1) /\ loop[k - 1] = f[k - 1]
      BY <1>2, <3>1
    <3> HIDE DEF f, g, loop
    <3>3. f[k - 1] = g[k - 1]
      BY <1>1, <2>1, <3>1, <3>2
    <3>4. g[k] = LoopTurn(g[k - 1])
      BY <2>1, <2>3
    <3> QED
      BY <2>1, <2>3, <3>2, <3>3, <3>4
  <2> QED
    BY <2>2, <2>3
<1> DEFINE Defines(f) == f = [k \in Nat |-> IF k = 0 THEN S ELSE LoopTurn(f[k - 1])]
<1>4. Defines(loop)
  BY <1>3
<1>5. LoopAfter(q, n) = CHOOSE f : Defines(f)
  BY DEF LoopAfter, S
<1> HIDE DEF loop
<1>6. Defines(LoopAfter(q, n))
  BY <1>4, <1>5
<1> HIDE DEF Defines
<1>7. LoopAfter(q, n)[0] = S
  BY <1>6 DEF Defines
<1>8. ASSUME NEW k \in Nat
      PROVE  LoopAfter(q, n)[k + 1] = LoopTurn(LoopAfter(q, n)[k])
  <2>1. k + 1 \in Nat /\ k + 1 # 0 /\ (k + 1) - 1 = k
    OBVIOUS
  <2> QED
    BY <1>6, <2>1 DEF Defines
<1> QED
  BY <1>7, <1>8 DEF S
-----------------------------------------------------------------------------
(* Where the loop of the closed form is at frame m, what is left of the    *)
(* queue has its packets of that frame still.                              *)
LEMMA TopOfTheRest ==
  ASSUME NEW q, NEW n \in Nat, NEW m \in Nat, n <= m, Drains(q, n, m),
         \A p \in q : p.frameCount \in Nat
  PROVE  /\ \A f \in n..(m - 1) : Top(q, f) \in q /\ Top(q, f).frameCount = f
         /\ \A p \in q : p.frameCount = m => p \in Rest(q, n, m)
         /\ Top(Rest(q, n, m), m) = Top(q, m)
         /\ IsTop(Rest(q, n, m), m) =>
              /\ Top(q, m) \in Rest(q, n, m) /\ Top(q, m).frameCount = m
              /\ HeapTop(Rest(q, n, m)) = Top(q, m)
<1> DEFINE R == Rest(q, n, m)
<1>1. ASSUME NEW f \in n..(m - 1)
      PROVE  Top(q, f) \in q /\ Top(q, f).frameCount = f
  <2>1. \E p \in q : p.frameCount = f
    BY DEF Drains, IsTop, Rest
  <2> QED
    BY <2>1 DEF Top
<1>2. ASSUME NEW p \in q, p.frameCount = m PROVE p \in R
  <2>1. p \notin Popped(q, n, m)
    BY <1>1, <1>2 DEF Popped
  <2> QED
    BY <2>1 DEF Rest
<1>3. R \subseteq q
  BY DEF Rest
<1> HIDE DEF R
<1>4. Top(R, m) = Top(q, m)
  BY <1>2, <1>3 DEF Top
<1>5. ASSUME IsTop(R, m)
      PROVE  /\ Top(q, m) \in R /\ Top(q, m).frameCount = m
             /\ HeapTop(R) = Top(q, m)
  <2>1. \E p \in R : p.frameCount = m
    BY <1>5 DEF IsTop
  <2>2. Top(R, m) \in R /\ Top(R, m).frameCount = m
    BY <2>1 DEF Top
  <2>3. ASSUME NEW p
        PROVE  (p \in R /\ \A o \in R : p.frameCount <= o.frameCount)
                 <=> (p \in R /\ p.frameCount = m)
    <3>1. \A o \in R : o.frameCount \in Nat /\ o.frameCount >= m
      BY <1>3, <1>5 DEF IsTop
    <3> QED
      BY <2>1, <3>1
  <2>4. HeapTop(R) = Top(R, m)
    BY <2>3 DEF HeapTop, Top
  <2> QED
    BY <1>4, <2>2, <2>4
<1> QED
  BY <1>1, <1>2, <1>4, <1>5 DEF R

(* One frame further: its packet is popped and its payload written.        *)
LEMMA OneFrameFurther ==
  ASSUME NEW q, NEW n \in Nat, NEW m \in Nat, n <= m, Drains(q, n, m),
         \A p \in q : p.frameCount \in Nat,
         IsTop(Rest(q, n, m), m), ~Top(q, m).eOFFlag
  PROVE  /\ Drains(q, n, m + 1)
         /\ Rest(q, n, m + 1) = Rest(q, n, m) \ {Top(q, m)}
         /\ Written(q, n, m + 1) = Append(Written(q, n, m), Top(q, m).payload)
<1>1. n..((m + 1) - 1) = (n..(m - 1)) \cup {m}
  OBVIOUS
<1>2. Drains(q, n, m + 1)
  BY <1>1 DEF Drains
<1>3. Popped(q, n, m + 1) = Popped(q, n, m) \cup {Top(q, m)}
  BY <1>1 DEF Popped
<1>4. Rest(q, n, m + 1) = Rest(q, n, m) \ {Top(q, m)}
  BY <1>3 DEF Rest
<1>5. Written(q, n, m + 1) = Append(Written(q, n, m), Top(q, m).payload)
  <2> DEFINE pay(i) == Top(q, n + i - 1).payload
             some == [i \in 1..(m - n) |-> pay(i)]
             more == [i \in 1..(m + 1 - n) |-> pay(i)]
  <2>1. m - n \in Nat /\ m + 1 - n = (m - n) + 1 /\ n + ((m - n) + 1) - 1 = m
    OBVIOUS
  <2>2. Len(some) = m - n
    BY <2>1
  <2>3. Append(some, pay((m - n) + 1))
          = [i \in 1..((m - n) + 1) |-> IF i = (m - n) + 1 THEN pay((m - n) + 1) ELSE some[i]]
    BY <2>1, <2>2
  <2>4. more = [i \in 1..((m - n) + 1) |->
                  IF i = (m - n) + 1 THEN pay((m - n) + 1) ELSE some[i]]
    BY <2>1
  <2>5. pay((m - n) + 1) = Top(q, m).payload
    BY <2>1
  <2>6. more = Append(some, Top(q, m).payload)
    BY <2>3, <2>4, <2>5
  <2> QED
    BY <2>6 DEF Written
<1> QED
  BY <1>2, <1>4, <1>5

(* What the loop has done after k turns, in terms of the closed form; a    *)
(* loop that has not ended has taken a packet from the queue at each turn. *)
AfterTurns(q, n, l, k) ==
  /\ l = [rest |-> l.rest, at |-> l.at, written |-> l.written,
          complete |-> l.complete]
  /\ l.at \in Nat /\ n <= l.at /\ l.at <= n + k
  /\ l.complete \in BOOLEAN
  /\ Drains(q, n, l.at)
  /\ l.written = Written(q, n, l.at)
  /\ ~l.complete => l.rest = Rest(q, n, l.at)
  /\ l.complete => /\ IsTop(Rest(q, n, l.at), l.at) /\ Top(q, l.at).eOFFlag
                   /\ l.rest = Rest(q, n, l.at) \ {Top(q, l.at)}
  /\ \/ LoopEnds(l)
     \/ IsFiniteSet(l.rest) /\ Cardinality(l.rest) + k = Cardinality(q)

(* It stays so at every turn.                                              *)
LEMMA TurnAfterTurns ==
  ASSUME NEW q, NEW n \in Nat, \A p \in q : p.frameCount \in Nat, IsFiniteSet(q),
         NEW l, NEW k \in Nat, AfterTurns(q, n, l, k)
  PROVE  AfterTurns(q, n, LoopTurn(l), k + 1)
<1>1. CASE LoopEnds(l)
  <2>1. LoopTurn(l) = l
    BY <1>1 DEF LoopTurn
  <2>2. l.at <= n + (k + 1)
    BY DEF AfterTurns
  <2> QED
    BY <1>1, <2>1, <2>2 DEF AfterTurns
<1>2. CASE ~LoopEnds(l)
  <2> DEFINE m == l.at
             R == l.rest
             p == HeapTop(R)
  <2>1. /\ ~l.complete /\ R # {} /\ p.frameCount = m
        /\ R = Rest(q, n, m) /\ m \in Nat /\ n <= m /\ m <= n + k
        /\ Drains(q, n, m) /\ l.written = Written(q, n, m)
        /\ IsFiniteSet(R) /\ Cardinality(R) + k = Cardinality(q)
    BY <1>2 DEF LoopEnds, AfterTurns
  <2>2. R \subseteq q
    BY <2>1 DEF Rest
  <2>3. p \in R /\ \A o \in R : p.frameCount <= o.frameCount
    <3>1. \E r \in R : \A o \in R : r.frameCount <= o.frameCount
      BY <2>1, <2>2, SmallestCount
    <3> QED
      BY <3>1 DEF HeapTop
  <2>4. IsTop(R, m)
    BY <2>1, <2>2, <2>3 DEF IsTop
  <2>5. Top(q, m) = p
    BY <2>1, <2>4, TopOfTheRest
  <2>6. CASE p.eOFFlag
    <3> DEFINE t == LoopTurn(l)
    <3>1. t = [l EXCEPT !.rest = @ \ {p}, !.complete = TRUE]
      BY <1>2, <2>6 DEF LoopTurn
    <3>2. /\ t = [rest |-> R \ {p}, at |-> m, written |-> l.written,
                  complete |-> TRUE]
          /\ t.rest = R \ {p} /\ t.at = m /\ t.written = l.written /\ t.complete
      BY <3>1 DEF AfterTurns
    <3> HIDE DEF t
    <3>3. LoopEnds(t)
      BY <3>2 DEF LoopEnds
    <3>4. m <= n + (k + 1)
      BY <2>1
    <3>5. AfterTurns(q, n, t, k + 1)
      BY <2>1, <2>4, <2>5, <2>6, <3>2, <3>3, <3>4 DEF AfterTurns
    <3> QED
      BY <3>5 DEF t
  <2>7. CASE ~p.eOFFlag
    <3> DEFINE t == LoopTurn(l)
    <3>1. t = [l EXCEPT !.rest = @ \ {p}, !.at = @ + 1,
                        !.written = Append(@, p.payload)]
      BY <1>2, <2>7 DEF LoopTurn
    <3>2. /\ t = [rest |-> R \ {p}, at |-> m + 1,
                  written |-> Append(l.written, p.payload), complete |-> FALSE]
          /\ t.rest = R \ {p} /\ t.at = m + 1
          /\ t.written = Append(l.written, p.payload) /\ ~t.complete
          /\ t.complete \in BOOLEAN
      BY <2>1, <3>1 DEF AfterTurns
    <3> HIDE DEF t
    <3>3. /\ Drains(q, n, m + 1)
          /\ Rest(q, n, m + 1) = R \ {p}
          /\ Written(q, n, m + 1) = Append(l.written, p.payload)
      <4>1. /\ m \in Nat /\ n <= m /\ Drains(q, n, m)
            /\ IsTop(Rest(q, n, m), m) /\ ~Top(q, m).eOFFlag
        BY <2>1, <2>4, <2>5, <2>7
      <4>2. /\ Drains(q, n, m + 1)
            /\ Rest(q, n, m + 1) = Rest(q, n, m) \ {Top(q, m)}
            /\ Written(q, n, m + 1) = Append(Written(q, n, m), Top(q, m).payload)
        <5> HIDE DEF m
        <5> QED
          BY <4>1, OneFrameFurther
      <4> QED
        BY <2>1, <2>5, <4>2
    <3>4. /\ IsFiniteSet(R \ {p})
          /\ Cardinality(R \ {p}) = Cardinality(R) - 1
      BY <2>1, <2>3, FS_RemoveElement
    <3>5. Cardinality(q) \in Nat /\ Cardinality(R) \in Nat
      BY <2>1, FS_CardinalityType
    <3>6. Cardinality(R \ {p}) + (k + 1) = Cardinality(q)
      BY <2>1, <3>4, <3>5
    <3>7. m + 1 \in Nat /\ n <= m + 1 /\ m + 1 <= n + (k + 1)
      BY <2>1
    <3>8. AfterTurns(q, n, t, k + 1)
      BY <3>2, <3>3, <3>4, <3>6, <3>7 DEF AfterTurns
    <3> QED
      BY <3>8 DEF t
  <2> QED
    BY <2>6, <2>7
<1> QED
  BY <1>1, <1>2

(* The loop has ended when it has taken as many turns as the queue had     *)
(* packets, where the closed form says it stops.                           *)
LEMMA OutcomeIsReached ==
  ASSUME NEW q, NEW n \in Nat, \A p \in q : p.frameCount \in Nat, IsFiniteSet(q)
  PROVE  /\ LoopEnds(LoopOutcome(q, n))
         /\ AfterTurns(q, n, LoopOutcome(q, n), Cardinality(q))
<1> DEFINE loop == LoopAfter(q, n)
           T == {k \in Nat : AfterTurns(q, n, loop[k], k)}
<1>0. loop[0] = LoopStart(q, n) /\ \A k \in Nat : loop[k + 1] = LoopTurn(loop[k])
  BY LoopUnfolds
<1> HIDE DEF loop
<1>1. 0 \in T
  <2> DEFINE l == loop[0]
  <2>1. /\ l = [rest |-> q, at |-> n, written |-> <<>>, complete |-> FALSE]
        /\ l.rest = q /\ l.at = n /\ l.written = <<>> /\ ~l.complete
        /\ l.complete \in BOOLEAN
    BY <1>0 DEF LoopStart
  <2>2. n..(n - 1) = {} /\ n - n = 0 /\ 1..0 = {}
    OBVIOUS
  <2>3. Drains(q, n, n)
    BY <2>2 DEF Drains
  <2>4. Rest(q, n, n) = q
    BY <2>2 DEF Rest, Popped
  <2>5. Written(q, n, n) = <<>>
    BY <2>2 DEF Written
  <2>6. Cardinality(q) + 0 = Cardinality(q)
    BY FS_CardinalityType
  <2> HIDE DEF l
  <2>7. AfterTurns(q, n, l, 0)
    BY <2>1, <2>3, <2>4, <2>5, <2>6 DEF AfterTurns
  <2> QED
    BY <2>7 DEF l
<1>2. ASSUME NEW k \in T PROVE k + 1 \in T
  <2>1. AfterTurns(q, n, LoopTurn(loop[k]), k + 1)
    BY TurnAfterTurns
  <2> QED
    BY <1>0, <2>1
<1>3. T \in SUBSET Nat
  OBVIOUS
<1> HIDE DEF T
<1>4. \A k \in Nat : k \in T
  BY <1>1, <1>2, <1>3, SetInduction
<1>5. Cardinality(q) \in Nat
  BY FS_CardinalityType
<1> DEFINE out == LoopOutcome(q, n)
<1>6. AfterTurns(q, n, out, Cardinality(q))
  BY <1>4, <1>5 DEF T, loop, LoopOutcome
<1> HIDE DEF out
<1>7. LoopEnds(out)
  <2> SUFFICES ASSUME IsFiniteSet(out.rest),
                      Cardinality(out.rest) + Cardinality(q) = Cardinality(q)
               PROVE  LoopEnds(out)
    BY <1>6 DEF AfterTurns
  <2>1. Cardinality(out.rest) = 0
    BY <1>5, FS_CardinalityType
  <2>2. out.rest = {}
    BY <2>1, FS_EmptySet
  <2> QED
    BY <2>2 DEF LoopEnds
<1> QED
  BY <1>6, <1>7 DEF out

(* For every queue and every awaited count: of the frames the closed form  *)
(* says the loop of checkQueueAndWrite can be at, exactly one is a frame   *)
(* where it stops, and the loop taken turn by turn ends there, with the    *)
(* same packets left, the same payloads written and the same verdict.      *)
THEOREM ClosedFormIsTheLoop ==
  ASSUME NEW q, NEW n \in Nat, \A p \in q : p.frameCount \in Nat, IsFiniteSet(q)
  PROVE  ClosedFormAgrees(q, n)
<1> DEFINE out == LoopOutcome(q, n)
           a == out.at
           rest == Rest(q, n, a)
           Stop(m) == ~IsTop(Rest(q, n, m), m) \/ Top(Rest(q, n, m), m).eOFFlag
<1>1. /\ LoopEnds(out) /\ AfterTurns(q, n, out, Cardinality(q))
      /\ Cardinality(q) \in Nat
  BY OutcomeIsReached, FS_CardinalityType
<1>2. /\ a \in Nat /\ n <= a /\ a <= n + Cardinality(q) /\ Drains(q, n, a)
      /\ out.written = Written(q, n, a) /\ out.complete \in BOOLEAN
  BY <1>1 DEF AfterTurns
<1>3. /\ Top(rest, a) = Top(q, a)
      /\ IsTop(rest, a) => HeapTop(rest) = Top(q, a) /\ Top(q, a).frameCount = a
  <2> HIDE DEF a
  <2> QED
    BY <1>2, TopOfTheRest
<1>4. out.complete => /\ IsTop(rest, a) /\ Top(q, a).eOFFlag
                      /\ out.rest = rest \ {Top(rest, a)}
  BY <1>1, <1>3 DEF AfterTurns
<1>5. ~out.complete => out.rest = rest /\ ~IsTop(rest, a)
  <2> SUFFICES ASSUME ~out.complete, IsTop(rest, a) PROVE FALSE
    BY <1>1 DEF AfterTurns
  <2>1. out.rest = rest
    BY <1>1 DEF AfterTurns
  <2>2. rest # {}
    BY DEF IsTop
  <2>3. HeapTop(rest) = Top(q, a) /\ Top(q, a).frameCount = a
    BY <1>3
  <2> QED
    BY <1>1, <2>1, <2>2, <2>3 DEF LoopEnds
<1>6. a \in Reach(q, n) /\ Stop(a)
  BY <1>1, <1>2, <1>3, <1>4, <1>5 DEF Reach
<1>7. ASSUME NEW m \in Reach(q, n), Stop(m) PROVE m = a
  <2>1. m \in Nat /\ n <= m /\ Drains(q, n, m)
    BY <1>1, <1>7 DEF Reach
  <2>2. Top(Rest(q, n, m), m) = Top(q, m)
    BY <2>1, TopOfTheRest
  <2>3. CASE m < a
    <3>1. m \in n..(a - 1)
      BY <1>2, <2>1, <2>3
    <3>2. IsTop(Rest(q, n, m), m) /\ ~Top(q, m).eOFFlag
      BY <1>2, <3>1 DEF Drains
    <3> QED
      BY <1>7, <2>2, <3>2
  <2>4. CASE a < m
    <3>1. a \in n..(m - 1)
      BY <1>2, <2>1, <2>4
    <3>2. IsTop(rest, a) /\ ~Top(q, a).eOFFlag
      BY <2>1, <3>1 DEF Drains
    <3> QED
      BY <1>4, <1>5, <3>2
  <2> QED
    BY <1>2, <2>1, <2>3, <2>4
<1>8. Stops(q, n) = {a}
  BY <1>6, <1>7 DEF Stops
<1>9. out.complete = IsTop(rest, a)
  <2>1. IsTop(rest, a) \in BOOLEAN
    BY DEF IsTop
  <2> QED
    BY <1>2, <1>4, <1>5, <2>1
<1>10. out.rest = IF out.complete THEN rest \ {Top(rest, a)} ELSE rest
  BY <1>4, <1>5
<1>11. Written(q, n, a) = out.written
  BY <1>2
<1> HIDE DEF Stop
<1> QED
  BY <1>1, <1>8, <1>9, <1>10, <1>11 DEF ClosedFormAgrees
-----------------------------------------------------------------------------
(* A queue is finite: it starts empty and gets one packet at a time.       *)
FiniteQueues == \A i \in Id : IsFiniteSet(stream[i].queue)

LEMMA FiniteQueuesStep ==
  ASSUME SharedInv, FiniteQueues, [SharedNext]_sharedVars
  PROVE  FiniteQueues'
<1>1. \A i \in Id : IsFiniteSet(stream[i].queue) /\ stream \in [Id ->
        [queue : SUBSET AllPackets, nextFrameCount : Nat, content : Seq(Chunk)]]
  BY DEF FiniteQueues, SharedInv
<1>2. ASSUME NEW p \in network, Receive(p) PROVE FiniteQueues'
  <2> DEFINE q == AddFrameToQueue(stream[id[p.client]].queue, p)
  <2>1. stream' = [stream EXCEPT ![id[p.client]].queue = q]
    BY <1>2 DEF Receive
  <2>2. p \in AllPackets /\ id[p.client] \in Id
    BY PacketFacts DEF SharedInv
  <2>3. IsFiniteSet(q)
    <3>1. IsFiniteSet(stream[id[p.client]].queue)
      BY <1>1, <2>2
    <3> QED
      BY <3>1, FS_AddElement DEF AddFrameToQueue
  <2> HIDE DEF q
  <2> QED
    BY <1>1, <2>1, <2>2, <2>3 DEF FiniteQueues
<1>3. ASSUME NEW i \in Id, WriteFrame(i) PROVE FiniteQueues'
  <2>1. PICK p \in Writable(i) :
          stream' = [stream EXCEPT ![i] =
                       [queue |-> @.queue \ {p},
                        nextFrameCount |-> @.nextFrameCount + 1,
                        content |-> Append(@.content, p.payload)]]
    BY <1>3 DEF WriteFrame
  <2>2. IsFiniteSet(stream[i].queue \ {p})
    BY <1>1, FS_RemoveElement
  <2> QED
    BY <1>1, <2>1, <2>2 DEF FiniteQueues
<1>4. ASSUME NEW i \in Id, CompleteFile(i) PROVE FiniteQueues'
  <2>1. stream' = [stream EXCEPT ![i] = NewStream] /\ NewStream.queue = {}
    BY <1>4 DEF CompleteFile, NewStream
  <2>2. IsFiniteSet(NewStream.queue)
    BY <2>1, FS_EmptySet
  <2> QED
    BY <1>1, <2>1, <2>2 DEF FiniteQueues
<1>5. CASE UNCHANGED sharedVars
  BY <1>5 DEF sharedVars, FiniteQueues
<1> QED
  BY <1>2, <1>3, <1>4, <1>5 DEF SharedNext

(* In every reachable state, for whatever packet comes next to a session   *)
(* that one file's copies come to: the server model's closed form stops    *)
(* where the loop of checkQueueAndWrite does.                              *)
THEOREM ReachIsTheLoop == SharedSpec => []ReachIsLoop
<1>1. SharedInv /\ FiniteQueues => ReachIsLoop
  <2> SUFFICES ASSUME SharedInv, FiniteQueues, NEW i \in Id,
                      NEW p \in CopiesFor(i) \ stream[i].queue
               PROVE  ClosedFormAgrees(AddFrameToQueue(stream[i].queue, p),
                                       stream[i].nextFrameCount)
    BY DEF ReachIsLoop
  <2> DEFINE q == AddFrameToQueue(stream[i].queue, p)
             n == stream[i].nextFrameCount
  <2>1. p \in AllPackets
    BY DEF CopiesFor, ClientsOf, AllPackets
  <2>2. stream[i].queue \subseteq AllPackets /\ n \in Nat
    BY DEF SharedInv
  <2>3. q \subseteq AllPackets /\ IsFiniteSet(q)
    BY <2>1, <2>2, FS_AddElement DEF AddFrameToQueue, FiniteQueues
  <2>4. \A o \in AllPackets : o.frameCount \in Nat
    <3> SUFFICES ASSUME NEW o \in AllPackets PROVE o.frameCount \in Nat
      OBVIOUS
    <3>1. /\ o.client \in Client
          /\ o.frameCount \in 1..(Len(Source[o.client]) + 1)
      BY PacketFacts
    <3>2. Len(Source[o.client]) \in Nat
      BY <3>1, SourceAssumption, LenProperties
    <3> QED
      BY <3>1, <3>2
  <2>5. \A o \in q : o.frameCount \in Nat
    BY <2>3, <2>4
  <2> HIDE DEF q, n
  <2>6. ClosedFormAgrees(q, n)
    BY <2>2, <2>3, <2>5, ClosedFormIsTheLoop
  <2> QED
    BY <2>6 DEF q, n
<1>2. SharedInit => FiniteQueues
  <2>1. NewStream.queue = {}
    BY DEF NewStream
  <2>2. IsFiniteSet(NewStream.queue)
    BY <2>1, FS_EmptySet
  <2> QED
    BY <2>2 DEF SharedInit, FiniteQueues
<1>3. SharedInv /\ FiniteQueues /\ [SharedNext]_sharedVars => FiniteQueues'
  BY FiniteQueuesStep
<1> QED
  BY <1>1, <1>2, <1>3, SharedInvariant, PTL DEF SharedSpec
=============================================================================
