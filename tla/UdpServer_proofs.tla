-------------------------- MODULE UdpServer_proofs --------------------------
(***************************************************************************)
(* For all 16-bit MTUs, socket buffers and numbers of datagrams: the sizes *)
(* the two ends compute, that nothing is cut when the client's MTU is no   *)
(* larger, and that nothing is lost or repeated behind the socket.         *)
(***************************************************************************)
EXTENDS UdpServer, TLAPS

(* The MTUs a 16-bit option can hold and calculateMaxBufferSize takes.     *)
Allowed(mtu) == mtu >= 576 /\ mtu < 65536

(* The casts through short change nothing: the buffer is the MTU less the  *)
(* IP and UDP headers, for every MTU a 16-bit option can hold.             *)
LEMMA MaxBufferSize ==
  ASSUME NEW mtu \in Nat, Allowed(mtu)
  PROVE  CalculateMaxBufferSize(mtu) = mtu - 28
BY SMT DEF Allowed, CalculateMaxBufferSize, Short, UInt16

(* The client's payload and the server's buffer differ by the diode header *)
(* alone, also where the buffer size is negative as a short.               *)
THEOREM PayloadSize ==
  ASSUME NEW mtu \in Nat, Allowed(mtu)
  PROVE  /\ CalculatePayloadSize(mtu) = mtu - 140
         /\ HeaderSizeInBytes + CalculatePayloadSize(mtu) = CalculateMaxBufferSize(mtu)
<1>1. CalculateMaxBufferSize(mtu) = mtu - 28
  BY MaxBufferSize
<1>2. CalculatePayloadSize(mtu) = UInt16(Short(mtu - 28) - Short(112))
  BY <1>1 DEF CalculatePayloadSize, HeaderSizeInBytes
<1>3. UInt16(Short(mtu - 28) - Short(112)) = mtu - 140
  BY SMT DEF Allowed, Short, UInt16
<1> QED BY <1>1, <1>2, <1>3 DEF HeaderSizeInBytes
-----------------------------------------------------------------------------
Datagram == [number : Nat, length : Nat]
Handed == [number : Nat, whole : BOOLEAN]

MtusAllowed ==
  /\ clientMtu \in Nat /\ Allowed(clientMtu)
  /\ serverMtu \in Nat /\ Allowed(serverMtu)

Types ==
  /\ MtusAllowed
  /\ arrived \in Nat
  /\ kernel \in Seq(Datagram)
  /\ datagram \in Datagram
  /\ received \in Seq(Handed)

(* A receive that is armed, or whose handler is due, has the whole frame.  *)
FrameIsWhole ==
  receive # "none" => frame = udpFrameSize - HeaderSizeInBytes

(* A datagram under way is one the client can send with its MTU.  What was *)
(* handed over is older than what the buffers hold, and that is older than *)
(* what the kernel holds.                                                  *)
KernelInOrder ==
  /\ \A i \in 1..Len(kernel) :
       kernel[i].length <= clientMtu - 28 /\ kernel[i].number <= arrived
  /\ \A i, j \in 1..Len(kernel) : i < j => kernel[i].number < kernel[j].number

BufferInOrder ==
  receive = "done" =>
    /\ datagram.length <= clientMtu - 28 /\ datagram.number <= arrived
    /\ \A i \in 1..Len(kernel) : datagram.number < kernel[i].number
    /\ \A i \in 1..Len(received) : received[i].number < datagram.number

ReceivedInOrder ==
  /\ \A i \in 1..Len(received) :
       /\ received[i].number <= arrived
       /\ \A j \in 1..Len(kernel) : received[i].number < kernel[j].number
  /\ \A i, j \in 1..Len(received) : i < j => received[i].number < received[j].number

(* Nothing with a payload is lost: the inductive form of HandedOverOnce.   *)
Place(d) ==
  \/ \E i \in 1..Len(kernel) : kernel[i] = d
  \/ receive = "done" /\ datagram = d
  \/ \E i \in 1..Len(received) : received[i].number = d.number

Accounted == \A d \in taken : d.length > HeaderSizeInBytes => Place(d)

Inv ==
  /\ Types /\ FrameIsWhole
  /\ KernelInOrder /\ BufferInOrder /\ ReceivedInOrder
  /\ Accounted
  /\ WholeIfMtuFits

LEMMA InitInv == ReceiverInit => Inv
<1> SUFFICES ASSUME ReceiverInit PROVE Inv
  OBVIOUS
<1>1. MtusAllowed
  BY MtuAssumption DEF ReceiverInit, MtuAllowed, MtusAllowed, Allowed
<1>2. Types /\ FrameIsWhole
  BY <1>1 DEF ReceiverInit, Types, FrameIsWhole, Datagram
<1> QED
  BY <1>2 DEF ReceiverInit, Inv, KernelInOrder, BufferInOrder, ReceivedInOrder, Accounted,
              WholeIfMtuFits

LEMMA FrameSizeFixed ==
  ASSUME clientMtu' = clientMtu, serverMtu' = serverMtu
  PROVE  udpFrameSize' = udpFrameSize
BY DEF udpFrameSize, CalculateMaxBufferSize, UInt16, Short

(* The frame of a receive takes every payload a server's MTU allows.       *)
LEMMA FrameSize ==
  ASSUME Types
  PROVE  udpFrameSize = serverMtu - 28 /\ udpFrameSize > HeaderSizeInBytes
<1>1. serverMtu \in Nat /\ Allowed(serverMtu)
  BY DEF Types, MtusAllowed
<1> QED BY <1>1, MaxBufferSize DEF udpFrameSize, Allowed, HeaderSizeInBytes

(* The numbers compared are numbers.                                       *)
LEMMA NumbersAreNat ==
  ASSUME Types
  PROVE  /\ \A i \in 1..Len(kernel) : kernel[i].number \in Nat /\ kernel[i].length \in Nat
         /\ \A i \in 1..Len(received) : received[i].number \in Nat
         /\ datagram.number \in Nat /\ datagram.length \in Nat
         /\ Len(kernel) \in Nat /\ Len(received) \in Nat
<1>1. \A i \in 1..Len(kernel) : kernel[i] \in Datagram
  BY DEF Types
<1>2. \A i \in 1..Len(received) : received[i] \in Handed
  BY DEF Types
<1>3. datagram \in Datagram /\ Len(kernel) \in Nat /\ Len(received) \in Nat
  BY DEF Types
<1> QED BY <1>1, <1>2, <1>3 DEF Datagram, Handed
-----------------------------------------------------------------------------
LEMMA ArriveStep ==
  ASSUME Inv, DatagramArrives
  PROVE  Inv'
<1>1. /\ arrived' = arrived + 1
      /\ clientMtu' = clientMtu /\ serverMtu' = serverMtu
      /\ receive' = receive /\ frame' = frame /\ datagram' = datagram
      /\ received' = received
  BY DEF DatagramArrives, mtus, buffers
<1>2. PICK n \in DatagramLength :
        \/ /\ kernel' = Append(kernel, [number |-> arrived', length |-> n])
           /\ taken' = taken \cup {[number |-> arrived', length |-> n]}
        \/ kernel' = kernel /\ taken' = taken
  BY DEF DatagramArrives
<1> DEFINE d == [number |-> arrived', length |-> n]
<1>3. Types /\ arrived \in Nat /\ kernel \in Seq(Datagram) /\ MtusAllowed
  BY DEF Inv, Types
<1>4. n \in Nat /\ n <= clientMtu - 28
  <2>1. /\ clientMtu \in Nat /\ clientMtu >= 576
        /\ CalculatePayloadSize(clientMtu) = clientMtu - 140
    BY <1>3, PayloadSize DEF MtusAllowed, Allowed
  <2> QED BY <2>1 DEF DatagramLength, HeaderSizeInBytes
<1>5. d \in Datagram /\ d.number = arrived + 1 /\ d.length = n
  BY <1>1, <1>3, <1>4 DEF Datagram
<1>6. \/ kernel' = Append(kernel, d) /\ taken' = taken \cup {d}
      \/ kernel' = kernel /\ taken' = taken
  BY <1>2
<1> HIDE DEF d
<1>7. udpFrameSize' = udpFrameSize
  BY <1>1, FrameSizeFixed
<1>8. Types' /\ FrameIsWhole' /\ WholeIfMtuFits'
  <2>1. kernel' \in Seq(Datagram)
    BY <1>3, <1>5, <1>6
  <2>2. Types'
    BY <1>1, <1>3, <2>1 DEF Types, MtusAllowed
  <2> QED BY <1>1, <1>7, <2>2 DEF Inv, FrameIsWhole, WholeIfMtuFits
<1>9. /\ \A i \in 1..Len(kernel) : kernel[i].number < arrived'
      /\ \A i \in 1..Len(received) : received[i].number < arrived'
      /\ receive = "done" => datagram.number < arrived'
  BY <1>1, <1>3, NumbersAreNat DEF Inv, KernelInOrder, BufferInOrder, ReceivedInOrder
<1>10. CASE kernel' = kernel /\ taken' = taken
  <2>1. KernelInOrder' /\ ReceivedInOrder' /\ BufferInOrder'
    <3>1. /\ \A i \in 1..Len(kernel) : kernel[i].number <= arrived'
          /\ \A i \in 1..Len(received) : received[i].number <= arrived'
          /\ receive = "done" => datagram.number <= arrived'
      BY <1>1, <1>3, <1>9, NumbersAreNat
    <3> QED
      BY <1>1, <1>10, <3>1 DEF Inv, KernelInOrder, BufferInOrder, ReceivedInOrder
  <2>2. Accounted'
    BY <1>1, <1>10 DEF Inv, Accounted, Place
  <2> QED BY <1>8, <2>1, <2>2 DEF Inv
<1>11. CASE kernel' = Append(kernel, d) /\ taken' = taken \cup {d}
  <2>1. /\ Len(kernel') = Len(kernel) + 1 /\ Len(kernel) \in Nat
        /\ \A i \in 1..Len(kernel) : kernel'[i] = kernel[i]
        /\ kernel'[Len(kernel) + 1] = d
    BY <1>3, <1>5, <1>11
  <2>2. ASSUME NEW i \in 1..Len(kernel'), i # Len(kernel) + 1
        PROVE  i \in 1..Len(kernel) /\ kernel'[i] = kernel[i]
    BY <2>1, <2>2
  <2>3. KernelInOrder'
    <3>1. ASSUME NEW i \in 1..Len(kernel')
          PROVE  kernel'[i].length <= clientMtu' - 28 /\ kernel'[i].number <= arrived'
      <4>1. CASE i = Len(kernel) + 1
        BY <1>1, <1>3, <1>4, <1>5, <2>1, <4>1
      <4>2. CASE i # Len(kernel) + 1
        BY <1>1, <1>3, <1>9, <2>2, <4>2, NumbersAreNat DEF Inv, KernelInOrder
      <4> QED BY <4>1, <4>2
    <3>2. ASSUME NEW i \in 1..Len(kernel'), NEW j \in 1..Len(kernel'), i < j
          PROVE  kernel'[i].number < kernel'[j].number
      <4>1. i \in 1..Len(kernel) /\ kernel'[i] = kernel[i]
        BY <2>1, <3>2
      <4>2. CASE j = Len(kernel) + 1
        BY <1>1, <1>5, <1>9, <2>1, <4>1, <4>2
      <4>3. CASE j # Len(kernel) + 1
        BY <2>2, <3>2, <4>1, <4>3 DEF Inv, KernelInOrder
      <4> QED BY <4>2, <4>3
    <3> QED BY <3>1, <3>2 DEF KernelInOrder
  <2>4. BufferInOrder'
    <3> SUFFICES ASSUME receive = "done"
                 PROVE  /\ datagram.length <= clientMtu - 28 /\ datagram.number <= arrived'
                        /\ \A i \in 1..Len(kernel') : datagram.number < kernel'[i].number
                        /\ \A i \in 1..Len(received) : received[i].number < datagram.number
      BY <1>1 DEF BufferInOrder
    <3>1. ASSUME NEW i \in 1..Len(kernel')
          PROVE  datagram.number < kernel'[i].number
      <4>1. CASE i = Len(kernel) + 1
        BY <1>1, <1>5, <1>9, <2>1, <4>1
      <4>2. CASE i # Len(kernel) + 1
        BY <2>2, <4>2 DEF Inv, BufferInOrder
      <4> QED BY <4>1, <4>2
    <3>2. datagram.number <= arrived'
      BY <1>1, <1>3, <1>9, NumbersAreNat
    <3> QED BY <3>1, <3>2 DEF Inv, BufferInOrder
  <2>5. ReceivedInOrder'
    <3>1. ASSUME NEW i \in 1..Len(received), NEW j \in 1..Len(kernel')
          PROVE  received[i].number < kernel'[j].number
      <4>1. CASE j = Len(kernel) + 1
        BY <1>1, <1>5, <1>9, <2>1, <4>1
      <4>2. CASE j # Len(kernel) + 1
        BY <2>2, <4>2 DEF Inv, ReceivedInOrder
      <4> QED BY <4>1, <4>2
    <3>2. \A i \in 1..Len(received) : received[i].number <= arrived'
      BY <1>1, <1>3, <1>9, NumbersAreNat
    <3> QED BY <1>1, <3>1, <3>2 DEF Inv, ReceivedInOrder
  <2>6. Accounted'
    <3> SUFFICES ASSUME NEW e \in taken', e.length > HeaderSizeInBytes
                 PROVE  Place(e)'
      BY DEF Accounted
    <3>1. CASE e = d
      <4>1. Len(kernel) + 1 \in 1..Len(kernel')
        BY <2>1
      <4> QED BY <2>1, <3>1, <4>1 DEF Place
    <3>2. CASE e \in taken
      <4>1. Place(e)
        BY <3>2 DEF Inv, Accounted
      <4>2. \A i \in 1..Len(kernel) : i \in 1..Len(kernel') /\ kernel'[i] = kernel[i]
        BY <2>1
      <4> QED BY <1>1, <4>1, <4>2 DEF Place
    <3> QED BY <1>11, <3>1, <3>2
  <2> QED BY <1>8, <2>3, <2>4, <2>5, <2>6 DEF Inv
<1> QED BY <1>6, <1>10, <1>11

(* The oldest datagram moves from the kernel to the buffers.               *)
LEMMA ReadStep ==
  ASSUME Inv, Read
  PROVE  Inv'
<1>1. /\ receive = "armed" /\ receive' = "done"
      /\ datagram' = Head(kernel) /\ kernel' = Tail(kernel) /\ kernel # <<>>
      /\ clientMtu' = clientMtu /\ serverMtu' = serverMtu
      /\ arrived' = arrived /\ taken' = taken /\ frame' = frame /\ received' = received
  BY DEF Read, mtus
<1>2. Types /\ kernel \in Seq(Datagram)
  BY DEF Inv, Types
<1>3. /\ Len(kernel) \in Nat \ {0} /\ datagram' = kernel[1]
      /\ kernel[1] \in Datagram
      /\ kernel' \in Seq(Datagram) /\ Len(kernel') = Len(kernel) - 1
      /\ \A i \in 1..Len(kernel') : kernel'[i] = kernel[i + 1]
  BY <1>1, <1>2
<1>4. /\ 1 \in 1..Len(kernel)
      /\ \A i \in 1..Len(kernel') : i + 1 \in 1..Len(kernel) /\ 1 < i + 1
      /\ \A i, j \in 1..Len(kernel') : i < j => i + 1 < j + 1
  BY <1>3
<1>5. Types'
  BY <1>1, <1>2, <1>3 DEF Types, MtusAllowed
<1>6. FrameIsWhole' /\ WholeIfMtuFits'
  <2>1. udpFrameSize' = udpFrameSize /\ receive # "none"
    BY <1>1, FrameSizeFixed
  <2> QED BY <1>1, <2>1 DEF Inv, FrameIsWhole, WholeIfMtuFits
<1>7. KernelInOrder' /\ ReceivedInOrder'
  BY <1>1, <1>3, <1>4 DEF Inv, KernelInOrder, ReceivedInOrder
<1>8. BufferInOrder'
  BY <1>1, <1>3, <1>4 DEF Inv, KernelInOrder, ReceivedInOrder, BufferInOrder
<1>9. Accounted'
  <2> SUFFICES ASSUME NEW d \in taken, d.length > HeaderSizeInBytes
               PROVE  Place(d)'
    BY <1>1 DEF Accounted
  <2>1. Place(d) /\ receive # "done"
    BY <1>1 DEF Inv, Accounted
  <2>2. CASE \E i \in 1..Len(received) : received[i].number = d.number
    BY <1>1, <2>2 DEF Place
  <2>3. ASSUME NEW i \in 1..Len(kernel), kernel[i] = d
        PROVE  Place(d)'
    <3>1. CASE i = 1
      BY <1>1, <1>3, <2>3, <3>1 DEF Place
    <3>2. CASE i # 1
      <4>1. i - 1 \in 1..Len(kernel') /\ kernel'[i - 1] = kernel[(i - 1) + 1]
        BY <1>3, <3>2
      <4>2. kernel'[i - 1] = d
        BY <1>3, <2>3, <4>1
      <4> QED BY <4>1, <4>2 DEF Place
    <3> QED BY <3>1, <3>2
  <2> QED BY <2>1, <2>2, <2>3 DEF Place
<1> QED BY <1>5, <1>6, <1>7, <1>8, <1>9 DEF Inv

(* With the whole frame, what a handler skips has no payload.              *)
LEMMA SkippedIsShort ==
  ASSUME Inv, HandlerCalled, ~LongEnough(udpPacketLength)
  PROVE  ~(datagram.length > HeaderSizeInBytes)
<1>1. frame = udpFrameSize - HeaderSizeInBytes
  BY DEF Inv, FrameIsWhole, HandlerCalled
<1>2. datagram.length \in Nat /\ udpFrameSize \in Nat /\ udpFrameSize > HeaderSizeInBytes
  BY NumbersAreNat, FrameSize DEF Inv, Types, MtusAllowed, Allowed
<1> QED BY <1>1, <1>2 DEF LongEnough, udpPacketLength, SizeMin, HeaderSizeInBytes

LEMMA SkipStep ==
  ASSUME Inv, SkipShort
  PROVE  Inv'
<1>1. /\ HandlerCalled /\ ~LongEnough(udpPacketLength)
      /\ receive = "done" /\ receive' = "armed"
      /\ frame' = udpFrameSize - HeaderSizeInBytes /\ datagram' = datagram
      /\ clientMtu' = clientMtu /\ serverMtu' = serverMtu
      /\ arrived' = arrived /\ taken' = taken /\ kernel' = kernel /\ received' = received
  BY DEF SkipShort, Trigger, HandlerCalled, mtus, socket
<1>2. udpFrameSize' = udpFrameSize
  BY <1>1, FrameSizeFixed
<1>3. Types' /\ FrameIsWhole' /\ WholeIfMtuFits'
  BY <1>1, <1>2 DEF Inv, Types, MtusAllowed, FrameIsWhole, WholeIfMtuFits
<1>4. KernelInOrder' /\ BufferInOrder' /\ ReceivedInOrder'
  BY <1>1 DEF Inv, KernelInOrder, BufferInOrder, ReceivedInOrder
<1>5. Accounted'
  <2>1. ~(datagram.length > HeaderSizeInBytes)
    BY <1>1, SkippedIsShort
  <2> QED BY <1>1, <2>1 DEF Inv, Accounted, Place
<1> QED BY <1>3, <1>4, <1>5 DEF Inv

LEMMA HandOverStep ==
  ASSUME Inv, Callback \/ CallbackThrows
  PROVE  Inv'
<1> DEFINE p == [number |-> datagram.number,
                 whole |-> udpPacketLength = datagram.length]
<1>1. /\ receive = "done"
      /\ received' = Append(received, p)
      /\ clientMtu' = clientMtu /\ serverMtu' = serverMtu
      /\ arrived' = arrived /\ taken' = taken /\ kernel' = kernel
      /\ receive' # "done" /\ datagram' = datagram
      /\ receive' # "none" => frame' = udpFrameSize - HeaderSizeInBytes
  BY DEF Callback, CallbackThrows, Trigger, HandOver, HandlerCalled, mtus, socket
<1>2. /\ Types /\ MtusAllowed /\ received \in Seq(Handed)
      /\ datagram.number \in Nat /\ datagram.length \in Nat
      /\ datagram.length <= clientMtu - 28
      /\ frame = udpFrameSize - HeaderSizeInBytes
      /\ udpFrameSize = serverMtu - 28
  BY <1>1, NumbersAreNat, FrameSize DEF Inv, Types, BufferInOrder, FrameIsWhole
<1>3. clientMtu <= serverMtu => udpPacketLength = datagram.length
  BY <1>2 DEF udpPacketLength, SizeMin, MtusAllowed, Allowed, HeaderSizeInBytes
<1>4. p \in Handed /\ p.number = datagram.number /\ (clientMtu <= serverMtu => p.whole)
  <2>1. p.number = datagram.number /\ p.whole = (udpPacketLength = datagram.length)
    OBVIOUS
  <2>2. (udpPacketLength = datagram.length) \in BOOLEAN
    OBVIOUS
  <2>3. p \in Handed
    BY <1>2, <2>2 DEF Handed
  <2> HIDE DEF p
  <2> QED BY <1>3, <2>1, <2>3
<1> HIDE DEF p
<1>5. /\ received' \in Seq(Handed) /\ Len(received') = Len(received) + 1
      /\ Len(received) \in Nat
      /\ \A i \in 1..Len(received) : received'[i] = received[i]
      /\ received'[Len(received) + 1] = p
  BY <1>1, <1>2, <1>4
<1>6. ASSUME NEW i \in 1..Len(received')
      PROVE  i \in 1..Len(received) \/ i = Len(received) + 1
  BY <1>5
<1>7. udpFrameSize' = udpFrameSize
  BY <1>1, FrameSizeFixed
<1>8. Types'
  BY <1>1, <1>2, <1>5 DEF Types, MtusAllowed
<1>9. FrameIsWhole' /\ BufferInOrder' /\ KernelInOrder'
  BY <1>1, <1>7 DEF Inv, FrameIsWhole, BufferInOrder, KernelInOrder
<1>10. ReceivedInOrder'
  <2>1. ASSUME NEW i \in 1..Len(received')
        PROVE  /\ received'[i].number <= arrived
               /\ \A j \in 1..Len(kernel) : received'[i].number < kernel[j].number
    <3>1. CASE i \in 1..Len(received)
      BY <1>5, <3>1 DEF Inv, ReceivedInOrder
    <3>2. CASE i = Len(received) + 1
      BY <1>1, <1>4, <1>5, <3>2 DEF Inv, BufferInOrder
    <3> QED BY <1>6, <3>1, <3>2
  <2>2. ASSUME NEW i \in 1..Len(received'), NEW j \in 1..Len(received'), i < j
        PROVE  received'[i].number < received'[j].number
    <3>1. i \in 1..Len(received) /\ received'[i] = received[i]
      BY <1>5, <2>2
    <3>2. CASE j \in 1..Len(received)
      BY <1>5, <2>2, <3>1, <3>2 DEF Inv, ReceivedInOrder
    <3>3. CASE j = Len(received) + 1
      BY <1>1, <1>4, <1>5, <3>1, <3>3 DEF Inv, BufferInOrder
    <3> QED BY <1>6, <3>2, <3>3
  <2> QED BY <1>1, <2>1, <2>2 DEF ReceivedInOrder
<1>11. Accounted'
  <2> SUFFICES ASSUME NEW d \in taken, d.length > HeaderSizeInBytes
               PROVE  Place(d)'
    BY <1>1 DEF Accounted
  <2>1. Place(d)
    BY DEF Inv, Accounted
  <2>2. CASE datagram = d
    <3>1. Len(received) + 1 \in 1..Len(received')
      BY <1>5
    <3> QED BY <1>4, <1>5, <2>2, <3>1 DEF Place
  <2>3. \A i \in 1..Len(received) : i \in 1..Len(received') /\ received'[i] = received[i]
    BY <1>5
  <2> QED BY <1>1, <2>1, <2>2, <2>3 DEF Place
<1>12. WholeIfMtuFits'
  <2> SUFFICES ASSUME clientMtu <= serverMtu, NEW i \in 1..Len(received')
               PROVE  received'[i].whole
    BY <1>1 DEF WholeIfMtuFits
  <2>1. CASE i \in 1..Len(received)
    BY <1>5, <2>1 DEF Inv, WholeIfMtuFits
  <2>2. CASE i = Len(received) + 1
    BY <1>4, <1>5, <2>2
  <2> QED BY <1>6, <2>1, <2>2
<1> QED BY <1>8, <1>9, <1>10, <1>11, <1>12 DEF Inv

(* A failed receive, the end of run() and a stop touch no datagram; they   *)
(* never make a handler due.                                               *)
LEMMA OtherSteps ==
  ASSUME Inv, ReceiveFails \/ RunReturns \/ Stop \/ UNCHANGED receiverVars
  PROVE  Inv'
<1>1. /\ clientMtu' = clientMtu /\ serverMtu' = serverMtu
      /\ arrived' = arrived /\ taken' = taken /\ kernel' = kernel
      /\ received' = received /\ frame' = frame /\ datagram' = datagram
      /\ receive' = receive \/ (receive = "armed" /\ receive' = "none")
  BY DEF ReceiveFails, RunReturns, Stop, receiverVars, mtus, socket, buffers
<1>2. udpFrameSize' = udpFrameSize
  BY <1>1, FrameSizeFixed
<1>3. Types' /\ FrameIsWhole' /\ WholeIfMtuFits'
  BY <1>1, <1>2 DEF Inv, Types, MtusAllowed, FrameIsWhole, WholeIfMtuFits
<1>4. KernelInOrder' /\ BufferInOrder' /\ ReceivedInOrder'
  BY <1>1 DEF Inv, KernelInOrder, BufferInOrder, ReceivedInOrder
<1>5. Accounted'
  BY <1>1 DEF Inv, Accounted, Place
<1> QED BY <1>3, <1>4, <1>5 DEF Inv

(* Sizes, order and whereabouts of the datagrams hold in every state.      *)
THEOREM ReceiverInvariant == ReceiverSpec => []Inv
<1>1. ReceiverInit => Inv
  BY InitInv
<1>2. Inv /\ [ReceiverNext]_receiverVars => Inv'
  BY ArriveStep, ReadStep, SkipStep, HandOverStep, OtherSteps DEF ReceiverNext
<1> QED BY <1>1, <1>2, PTL DEF ReceiverSpec

(* No payload is cut when the client's MTU is at most the server's.        *)
THEOREM FittingMtuIsWhole == ReceiverSpec => []WholeIfMtuFits
BY ReceiverInvariant, PTL DEF Inv

(* Every datagram with a payload that the kernel took waits for a handler  *)
(* or was handed over, once: for all MTUs, socket buffers and numbers of   *)
(* datagrams, whichever errors and exceptions happen.                      *)
THEOREM EachHandedOverOnce == ReceiverSpec => []HandedOverOnce
<1>1. Inv => HandedOverOnce
  <2> SUFFICES ASSUME Inv, NEW d \in taken, d.length > HeaderSizeInBytes
               PROVE  IF d.number \in Waiting
                      THEN HandedOver(d.number) = {}
                      ELSE \E i \in 1..Len(received) : HandedOver(d.number) = {i}
    BY DEF HandedOverOnce
  <2>1. /\ Place(d)
        /\ \A i \in 1..Len(received) : received[i].number \in Nat
        /\ \A i \in 1..Len(kernel) : kernel[i].number \in Nat
        /\ datagram.number \in Nat /\ Len(received) \in Nat
    BY NumbersAreNat DEF Inv, Accounted
  <2>2. CASE d.number \in Waiting
    <3>1. ASSUME NEW i \in 1..Len(received)
          PROVE  received[i].number # d.number
      <4>1. CASE \E j \in 1..Len(kernel) : kernel[j].number = d.number
        BY <2>1, <4>1 DEF Inv, ReceivedInOrder
      <4>2. CASE receive = "done" /\ datagram.number = d.number
        BY <2>1, <4>2 DEF Inv, BufferInOrder
      <4> QED BY <2>2, <4>1, <4>2 DEF Waiting
    <3> QED BY <2>2, <3>1 DEF HandedOver
  <2>3. CASE d.number \notin Waiting
    <3>1. PICK i \in 1..Len(received) : received[i].number = d.number
      BY <2>1, <2>3 DEF Place, Waiting
    <3>2. ASSUME NEW j \in 1..Len(received), received[j].number = d.number
          PROVE  j = i
      <4>1. ~(i < j) /\ ~(j < i)
        BY <2>1, <3>1, <3>2 DEF Inv, ReceivedInOrder
      <4> QED BY <2>1, <4>1
    <3>3. HandedOver(d.number) = {i}
      BY <3>1, <3>2 DEF HandedOver
    <3> QED BY <2>3, <3>3
  <2> QED BY <2>2, <2>3
<1> QED BY <1>1, ReceiverInvariant, PTL
=============================================================================
