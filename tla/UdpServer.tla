------------------------------ MODULE UdpServer ------------------------------
(***************************************************************************)
(* The receiving socket: one asynchronous receive at a time, armed again   *)
(* by its handler with buffers of its own, and the sizes both ends work    *)
(* out from their MTUs.                                                    *)
(*                                                                         *)
(* A datagram is its number and its length.  The kernel queues datagrams   *)
(* up to the receive buffer's size and drops the rest; a datagram longer   *)
(* than the receive's buffers is cut to them.                              *)
(***************************************************************************)
EXTENDS Integers, Sequences

CONSTANTS
  ClientMtu, ServerMtu,  \* the MTUs the two ends may be started with
  SocketBuffer,          \* the datagrams the kernel holds
  MaxSent,               \* bound: the datagrams sent
  Faults                 \* of {"socket error", "exception"}

ASSUME MtuAssumption ==
  \A mtu \in ClientMtu \cup ServerMtu : mtu \in Nat /\ mtu < 65536
ASSUME ReceiverBound == SocketBuffer \in Nat /\ MaxSent \in Nat

VARIABLES
  clientMtu, serverMtu,
  arrived,   \* the number of datagrams sent to the port
  taken,     \* the datagrams the kernel took, a history
  kernel,    \* the datagrams in the socket's receive buffer
  receive,   \* the async_receive_from: "armed", "done" with its handler due, or "none"
  frame,     \* frame.size(), the room for a payload
  datagram,  \* what a done receive has taken out of the kernel
  io,        \* io_context::run: "running", "returned", "thrown"
  causes,    \* what may end run(): "stopped", "socket error", "exception"
  received   \* what Server::receivePacket was given, and whether all of it

mtus == <<clientMtu, serverMtu>>
socket == <<arrived, taken, kernel>>
buffers == <<receive, frame, datagram>>
receiverVars == <<mtus, socket, buffers, io, causes, received>>

HeaderSizeInBytes == 112

(* The casts of the C++ code: to 16 bits, unsigned and signed.             *)
UInt16(n) == n % 65536
Short(n) == IF UInt16(n) < 32768 THEN UInt16(n) ELSE UInt16(n) - 65536

MtuAllowed(mtu) == mtu >= 576

(* calculateMaxBufferSize throws below 576.                                *)
CalculateMaxBufferSize(mtu) == UInt16((Short(mtu) - 20) - 8)

(* A mutant: the UDP header is left out.                                   *)
CalculatePayloadSizeLong(mtu) == UInt16(Short(mtu) - 20 - HeaderSizeInBytes)

CalculatePayloadSize(mtu) ==
  UInt16(Short(CalculateMaxBufferSize(mtu)) - Short(HeaderSizeInBytes))

udpFrameSize == CalculateMaxBufferSize(serverMtu)

(* A client's full frame and the shortest one it can send, and the short   *)
(* datagrams another program may send to the port.                         *)
DatagramLength ==
  {0, HeaderSizeInBytes, HeaderSizeInBytes + 1,
   HeaderSizeInBytes + CalculatePayloadSize(clientMtu)}

SizeMin(m, n) == IF m < n THEN m ELSE n
-----------------------------------------------------------------------------
ReceiverInit ==
  /\ clientMtu \in {m \in ClientMtu : MtuAllowed(m)}
  /\ serverMtu \in {m \in ServerMtu : MtuAllowed(m)}
  /\ arrived = 0 /\ taken = {} /\ kernel = <<>>
  /\ receive = "armed"
  /\ frame = udpFrameSize - HeaderSizeInBytes
  /\ datagram = [number |-> 0, length |-> 0]
  /\ io = "running" /\ causes = {}
  /\ received = <<>>

(* The kernel takes a datagram, or has no room for it.                     *)
DatagramArrives ==
  /\ arrived < MaxSent
  /\ arrived' = arrived + 1
  /\ \E n \in DatagramLength :
       LET d == [number |-> arrived', length |-> n]
       IN  IF Len(kernel) < SocketBuffer
           THEN kernel' = Append(kernel, d) /\ taken' = taken \cup {d}
           ELSE UNCHANGED <<kernel, taken>>
  /\ UNCHANGED <<mtus, buffers, io, causes, received>>

(* The oldest datagram goes into the header and the frame of the receive.  *)
Read ==
  /\ io = "running" /\ receive = "armed"
  /\ kernel # <<>>
  /\ datagram' = Head(kernel) /\ kernel' = Tail(kernel)
  /\ receive' = "done"
  /\ UNCHANGED <<mtus, arrived, taken, frame, io, causes, received>>

udpPacketLength == SizeMin(datagram.length, HeaderSizeInBytes + frame)

LongEnough(n) == n - HeaderSizeInBytes > 0

(* A mutant: the frame is left as the last handler left it, moved out.     *)
TriggerUnallocated ==
  /\ receive' = "armed"
  /\ frame' = IF LongEnough(udpPacketLength) THEN 0 ELSE frame
  /\ UNCHANGED datagram

(* triggerWaitAndReadNextUdpPacket.                                        *)
Trigger ==
  /\ receive' = "armed"
  /\ frame' = udpFrameSize - HeaderSizeInBytes
  /\ UNCHANGED datagram

HandlerCalled == io = "running" /\ receive = "done"

(* A mutant: the next receive is armed only after a callback.              *)
SkipShortUnarmed ==
  /\ HandlerCalled
  /\ ~LongEnough(udpPacketLength)
  /\ receive' = "none"
  /\ UNCHANGED <<mtus, socket, frame, datagram, io, causes, received>>

(* "insufficient data in payload".                                         *)
SkipShort ==
  /\ HandlerCalled
  /\ ~LongEnough(udpPacketLength)
  /\ Trigger
  /\ UNCHANGED <<mtus, socket, io, causes, received>>

HandOver ==
  /\ HandlerCalled
  /\ LongEnough(udpPacketLength)
  /\ received' = Append(received,
       [number |-> datagram.number, whole |-> udpPacketLength = datagram.length])
  /\ UNCHANGED <<mtus, socket>>

(* The callback takes the header and the frame; a std::runtime_error does  *)
(* not leave it (SessionManager).                                          *)
Callback ==
  /\ HandOver
  /\ Trigger
  /\ UNCHANGED <<io, causes>>

(* Any other exception leaves run(), and nothing arms a receive again.     *)
CallbackThrows ==
  /\ "exception" \in Faults
  /\ HandOver
  /\ receive' = "none" /\ frame' = 0
  /\ io' = "thrown"
  /\ causes' = causes \cup {"exception"}
  /\ UNCHANGED datagram

(* An error code: the handler does nothing.                                *)
ReceiveFails ==
  /\ "socket error" \in Faults
  /\ io = "running" /\ receive = "armed"
  /\ receive' = "none"
  /\ causes' = causes \cup {"socket error"}
  /\ UNCHANGED <<mtus, socket, frame, datagram, io, received>>

(* With no receive pending, run() is out of work.                          *)
RunReturns ==
  /\ io = "running" /\ receive = "none"
  /\ io' = "returned"
  /\ UNCHANGED <<mtus, socket, buffers, causes, received>>

(* io_context.stop() in the signal handler.                                *)
Stop ==
  /\ io = "running"
  /\ io' = "returned"
  /\ causes' = causes \cup {"stopped"}
  /\ UNCHANGED <<mtus, socket, buffers, received>>

Handle == Read \/ SkipShort \/ Callback

ReceiverNext ==
  \/ DatagramArrives \/ Read \/ SkipShort \/ Callback
  \/ CallbackThrows \/ ReceiveFails \/ RunReturns \/ Stop

ReceiverSpec ==
  ReceiverInit /\ [][ReceiverNext]_receiverVars /\ WF_receiverVars(Handle)
-----------------------------------------------------------------------------
(* Whatever two MTUs of at least 576 the ends use, a client whose MTU is   *)
(* no larger than the server's has none of its payloads cut: the 16-bit    *)
(* arithmetic of both ends agrees, above 32767 too.                        *)
WholeIfMtuFits ==
  clientMtu <= serverMtu => \A i \in 1..Len(received) : received[i].whole

(* The datagrams taken by the kernel that no handler has seen yet.         *)
Waiting ==
  {kernel[i].number : i \in 1..Len(kernel)}
    \cup (IF receive = "done" THEN {datagram.number} ELSE {})

HandedOver(n) == {i \in 1..Len(received) : received[i].number = n}

(* A datagram with a payload that the kernel took is never lost between    *)
(* the socket and the callback: it waits, or the callback was given it     *)
(* once, whatever the handlers before it left in the buffers.              *)
HandedOverOnce ==
  \A d \in taken :
    d.length > HeaderSizeInBytes =>
      IF d.number \in Waiting
      THEN HandedOver(d.number) = {}
      ELSE \E i \in 1..Len(received) : HandedOver(d.number) = {i}

(* A datagram the kernel took gets to a handler, unless SIGINT, an error   *)
(* of the socket or an exception of the callback ends run(): no datagram,  *)
(* however short, makes the server stop listening.                         *)
EachIsHandled ==
  \A n \in 1..MaxSent : n \in Waiting ~> (n \notin Waiting \/ causes # {})
=============================================================================
