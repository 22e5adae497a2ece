---------------------------- MODULE DiodeTransfer ----------------------------
(***************************************************************************)
(* Clients, the one-way network and the server together.                   *)
(*                                                                         *)
(* Each client reads its file chunk by chunk and sends one datagram at     *)
(* each tick of its timer, the EOF frame last; nothing ever comes back.    *)
(* The network loses, repeats and reorders datagrams, the socket buffer of *)
(* the server included.  What the server does with one is SessionManager.  *)
(***************************************************************************)
EXTENDS SessionManager

CONSTANTS
  SendMayFail,    \* whether reading the file or sending may throw
  NetMayLose,     \* whether datagrams get lost
  MaxDuplicates,  \* bound: the datagrams the network repeats
  MaxRestarts     \* bound: the restarts of the server

ASSUME SwitchAssumption == /\ SendMayFail \in BOOLEAN /\ NetMayLose \in BOOLEAN
                           /\ MaxDuplicates \in Nat /\ MaxRestarts \in Nat
ASSUME EnoughCopies == 1..(MaxDuplicates + 1) \subseteq Copy

VARIABLES
  frameCount,  \* frameCount[s]: the count in the header buffer of client s
  status,      \* status[s]: "sending", "done", or "aborted" by an exception
  net,         \* the datagrams on their way
  lost,        \* the sessions that lost something on the way or in the server
  duplicates,  \* how many datagrams were repeated
  restarts     \* how often the server was restarted

clientVars == <<frameCount, status>>
netVars == <<net, lost, duplicates>>
vars == <<serverVars, clientVars, netVars, restarts>>

(***************************************************************************)
(* The client.                                                             *)
(***************************************************************************)
(* A mutant: the run ends with the last byte of the file.                  *)
SendFrameNoEOF(s) ==
  /\ status[s] = "sending"
  /\ frameCount' = [frameCount EXCEPT ![s] = @ + 1]
  /\ LET p == FramePacket(s, frameCount[s] + 1, 1)
     IN  /\ net' = IF p.eOFFlag THEN net ELSE net \cup {p}
         /\ status' = [status EXCEPT ![s] = IF p.eOFFlag THEN "done" ELSE @]
  /\ UNCHANGED <<serverVars, lost, duplicates, restarts>>

(* Client::sendFrame: one more frame; the EOF frame ends the timer's run.  *)
SendFrame(s) ==
  /\ status[s] = "sending"
  /\ frameCount' = [frameCount EXCEPT ![s] = @ + 1]
  /\ LET p == FramePacket(s, frameCount[s] + 1, 1)
     IN  /\ net' = net \cup {p}
         /\ status' = [status EXCEPT ![s] = IF p.eOFFlag THEN "done" ELSE @]
  /\ UNCHANGED <<serverVars, lost, duplicates, restarts>>

(* The read or the send throws: the frame has its number, the lambda given *)
(* to runTimer returns false and the run is over.                          *)
SendThrows(s) ==
  /\ SendMayFail
  /\ status[s] = "sending"
  /\ frameCount' = [frameCount EXCEPT ![s] = @ + 1]
  /\ status' = [status EXCEPT ![s] = "aborted"]
  /\ UNCHANGED <<serverVars, netVars, restarts>>

(***************************************************************************)
(* The network.                                                            *)
(***************************************************************************)
Lose(p) ==
  /\ NetMayLose
  /\ net' = net \ {p}
  /\ lost' = lost \cup {p.sessionId}
  /\ UNCHANGED <<serverVars, clientVars, duplicates, restarts>>

Duplicate(p) ==
  /\ duplicates < MaxDuplicates
  /\ net' = net \cup {FramePacket(p.sessionId, p.frameCount, duplicates + 2)}
  /\ duplicates' = duplicates + 1
  /\ UNCHANGED <<serverVars, clientVars, lost, restarts>>

(***************************************************************************)
(* The server.                                                             *)
(***************************************************************************)
(* The server cannot keep the packet: its session is expired, the queue is *)
(* full, or a call of the file system failed.                              *)
Refused(p) ==
  LET s == p.sessionId
      w == WriterOf(s)
  IN  \/ IsStreamExpired(w)
      \/ AddFrameToQueue(w.queue, p) = w.queue
      \/ IsOpen(s)' /\ streams'[s].output # "good"
      \/ ~IsOpen(s) /\ ~IsOpen(s)' /\ files' = files

Receive(p) ==
  /\ ReceivePacket(p)
  /\ net' = net \ {p}
  /\ lost' = IF Refused(p) THEN lost \cup {p.sessionId} ELSE lost
  /\ UNCHANGED <<clientVars, duplicates, restarts>>

SetServerClock ==
  /\ SetClock
  /\ UNCHANGED <<clientVars, netVars, restarts>>

(* What the sessions had collected is lost.                                *)
RestartServer ==
  /\ restarts < MaxRestarts
  /\ Restart
  /\ lost' = lost \cup {s \in Session : IsOpen(s)}
  /\ restarts' = restarts + 1
  /\ UNCHANGED <<clientVars, net, duplicates>>

TransferInit ==
  /\ Init
  /\ frameCount = [s \in Session |-> 0]
  /\ status = [s \in Session |-> "sending"]
  /\ net = {} /\ lost = {} /\ duplicates = 0 /\ restarts = 0

TransferNext ==
  \/ \E s \in Session : SendFrame(s) \/ SendThrows(s)
  \/ \E p \in net : Lose(p) \/ Duplicate(p) \/ Receive(p)
  \/ SetServerClock
  \/ RestartServer

(* The client's timer goes on ticking until its run is over, and the       *)
(* server's one thread takes every datagram that is in its socket.         *)
Fairness ==
  /\ \A s \in Session : WF_vars(SendFrame(s))
  /\ \A p \in Packet : WF_vars(p \in net /\ (Receive(p) \/ Lose(p)))

TransferSpec == TransferInit /\ [][TransferNext]_vars /\ Fairness
-----------------------------------------------------------------------------
TransferTypeOK ==
  /\ TypeOK
  /\ frameCount \in [Session -> Nat]
  /\ status \in [Session -> {"sending", "done", "aborted"}]
  /\ net \subseteq Packet
  /\ lost \subseteq Session
  /\ duplicates \in 0..MaxDuplicates
  /\ restarts \in 0..MaxRestarts

Delivered(s) == files[DestinationOf(s)] = File[s]

(* Whatever way the datagrams took, the two ends together do what FileDrop *)
(* promises: a file turns up only when its client has sent all of it.      *)
Drop == INSTANCE FileDrop WITH
          Sender  <- Session,
          Offer   <- File,
          Place   <- [s \in Session |-> DestinationOf(s)],
          Nothing <- NoFile,
          offered <- {s \in Session : status[s] = "done"},
          dropped <- files

ImplementsFileDrop == Drop!Spec

(* README, Application Notes: packets are put back in order, and it is     *)
(* lost packets that lose a file.  When a client has sent everything, all  *)
(* of it has come and the server refused none of it, the file is there.    *)
NothingLostMeansDelivered ==
  \A s \in Session :
    /\ status[s] = "done"
    /\ s \notin lost
    /\ \A p \in net : p.sessionId # s
    => Delivered(s)

(* ServerTests.cpp: "Stream is closed if timeout is exceeded."             *)
ExpiredIsClosed ==
  \A s \in Session :
    LET expired == IsOpen(s) /\ IsStreamExpired(streams[s])
    IN  expired ~> ~expired

(* Every client's run comes to an end, and in the end its file is there,   *)
(* or something of it was lost, or the client gave up.                     *)
EventuallyDecided ==
  \A s \in Session : <>(Delivered(s) \/ s \in lost \/ status[s] = "aborted")
=============================================================================
