------------------------------ MODULE EDPacket ------------------------------
(***************************************************************************)
(* The datagrams of the Enterprise Diode protocol.                         *)
(*                                                                         *)
(* A client cuts one source file into frames numbered from 1, one datagram *)
(* each, and adds a last datagram, the EOF frame, whose payload carries    *)
(* the file name.  A session is one run of one client: its id is drawn at  *)
(* random (Client::setSessionID) and taken here to be unique.              *)
(***************************************************************************)
EXTENDS Naturals, Sequences

CONSTANTS
  Session,  \* the session ids in use, one for each client run
  Chunk,    \* the possible payloads of a data frame
  File,     \* File[s]: the source file of session s, cut into chunks
  Name,     \* Name[s]: the file name that the EOF frame of s carries
  Copy      \* tells the transmitted copies of one datagram apart

ASSUME FileAssumption == File \in [Session -> Seq(Chunk)]
ASSUME NameAssumption == DOMAIN Name = Session

(* The read that returns no byte makes the EOF frame: it comes right after *)
(* the last data frame.                                                    *)
EOFFrame(s) == Len(File[s]) + 1

FrameNo(s) == 1..EOFFrame(s)

(* Frame f of session s, as Client::generateEDPacket fills the header and  *)
(* the payload and as parsePacket reads them back.                         *)
FramePacket(s, f, c) ==
  [sessionId  |-> s,
   frameCount |-> f,
   eOFFlag    |-> f = EOFFrame(s),
   payload    |-> IF f = EOFFrame(s) THEN Name[s] ELSE File[s][f],
   copy       |-> c]

PacketsOf(s) == {FramePacket(s, f, c) : f \in FrameNo(s), c \in Copy}

Packet == UNION {PacketsOf(s) : s \in Session}

(* The chunks of session s that come before frame n.                       *)
ChunksBefore(s, n) == SubSeq(File[s], 1, n - 1)
=============================================================================
