--------------------------- MODULE SessionManager ---------------------------
(***************************************************************************)
(* The server behind its socket: Server::receivePacket, SessionManager and *)
(* the OrderingStreamWriter, ReorderPackets and FileStream of each session.*)
(* A session opens with the first packet that carries its id and collects  *)
(* its chunks in a temporary ".received.N" file; the EOF frame renames     *)
(* that file, a packet that comes too late deletes it.                     *)
(*                                                                         *)
(* One step is one call of receivePacket: the io_context has one thread.   *)
(* A std::runtime_error that leaves writeToStream ends the call where it   *)
(* was thrown, and receivePacket swallows it.  The clock does not move     *)
(* within a call.  Sessions are of DiodeType::basic.                       *)
(***************************************************************************)
EXTENDS EDPacket, ReorderPackets

CONSTANTS
  AcceptedName,  \* the names SISLFilename::extractFilename gives back
  Timeout,       \* timeoutPeriod, in ticks of the clock
  MaxTime,       \* bound: the clock reads 0..MaxTime
  DiskMayFail,   \* whether calls of the file system may fail
  NoStream, NoFile, Torn

ASSUME TimeAssumption == Timeout \in Nat /\ MaxTime \in Nat
ASSUME DiskAssumption == DiskMayFail \in BOOLEAN
ASSUME ContentAssumption == NoFile \notin Seq(Chunk) /\ Torn \notin Seq(Chunk)
                            /\ NoFile # Torn

VARIABLES
  streams,  \* streams[s]: the session's entry in the map, or NoStream
  temp,     \* temp[s]: what its ".received." file was given, or NoFile
  files,    \* files[d]: what the final file at destination d holds, or NoFile
  now       \* the wall clock the server reads

serverVars == <<streams, temp, files, now>>

Content == Seq(Chunk)

(* A FileStream writes while it is "good".  A failed write sets badbit for *)
(* good ("bad") and the file may hold part of the frame (Torn); once       *)
(* close() was called it stays "closed".                                   *)
Output == {"good", "bad", "closed"}

Queue == {q \in SUBSET Packet : /\ IsFiniteSet(q)
                                 /\ Cardinality(q) <= MaxQueueLength}

Writer == [queue           : Queue,
           nextFrameCount  : Nat \ {0},
           timeLastUpdated : 0..MaxTime,
           output          : Output]

ASSUME StreamAssumption == NoStream \notin Writer

(* The name of the final file: the one in the EOF frame, or "rejected.N"   *)
(* with the number of the stream's own temporary file.                     *)
StoredFilename(s, name) ==
  IF name \in AcceptedName THEN <<"file", name>> ELSE <<"rejected", s>>

DestinationOf(s) == StoredFilename(s, Name[s])

Destination == {DestinationOf(s) : s \in Session}

IsOpen(s) == streams[s] # NoStream

(***************************************************************************)
(* Looking up, opening and closing a session.                              *)
(***************************************************************************)
NewWriter == [queue           |-> {},
              nextFrameCount  |-> 1,
              timeLastUpdated |-> now,
              output          |-> "good"]

(* createSessionIfNewId: the entry found, or the one just made.            *)
WriterOf(s) == IF IsOpen(s) THEN streams[s] ELSE NewWriter

TempOf(s) == IF IsOpen(s) THEN temp[s] ELSE <<>>

(* A mutant: timeLastUpdated is refreshed before it is looked at.          *)
IsStreamExpiredRefreshed(w) == now + Timeout < now

IsStreamExpired(w) == w.timeLastUpdated + Timeout < now

CloseSession(s) ==
  /\ streams' = [streams EXCEPT ![s] = NoStream]
  /\ temp' = [temp EXCEPT ![s] = NoFile]

(* The handler throws and the session stays as w, its file with content.   *)
KeepSession(s, w, content) ==
  /\ streams' = [streams EXCEPT ![s] = w]
  /\ temp' = [temp EXCEPT ![s] = content]
  /\ files' = files

(***************************************************************************)
(* writeToStream on a session in time: the packet is queued, the loop      *)
(* drains the queue to some frame, and there it stops in one of four ways. *)
(***************************************************************************)
(* A mutant: FileStream sets no exceptions() on its stream.                *)
OutputAcceptsAll(w) == w.output \in Output

OutputAccepts(w) == w.output # "bad"

(* A mutant: nextFrameCount is not counted up.                             *)
DrainedUncounted(w, p, m) ==
  LET queue == AddFrameToQueue(w.queue, p)
  IN  [w EXCEPT !.queue = Rest(queue, w.nextFrameCount, m),
                !.timeLastUpdated = now]

(* OrderingStreamWriter::write up to frame m.                              *)
Drained(w, p, m) ==
  LET queue == AddFrameToQueue(w.queue, p)
  IN  [w EXCEPT !.queue = Rest(queue, w.nextFrameCount, m),
                !.nextFrameCount = m,
                !.timeLastUpdated = now]

(* A stream whose close() failed swallows what is written to it.           *)
DrainedContent(w, p, m, content) ==
  IF w.output = "good" /\ m > w.nextFrameCount
  THEN content \o Written(AddFrameToQueue(w.queue, p), w.nextFrameCount, m)
  ELSE content

AtFrame(w) == IsTop(w.queue, w.nextFrameCount)

AtEOF(w) == AtFrame(w) /\ Top(w.queue, w.nextFrameCount).eOFFlag

EndName(s, w) == StoredFilename(s, Top(w.queue, w.nextFrameCount).payload)

(* A mutant: the loop is left with the next frame on top.                  *)
WaitForFrameEarly(s, w, content) == KeepSession(s, w, content)

(* The next frame is not there.                                            *)
WaitForFrame(s, w, content) ==
  /\ ~AtFrame(w)
  /\ KeepSession(s, w, content)

(* The write of the next frame throws: the frame is still on the queue.    *)
WriteThrows(s, w, content) ==
  /\ AtFrame(w) /\ ~AtEOF(w)
  /\ w.output # "good" \/ DiskMayFail
  /\ IF w.output = "good"
     THEN KeepSession(s, [w EXCEPT !.output = "bad"], Torn)
     ELSE KeepSession(s, w, content)

(* The EOF frame: the file is closed and renamed, replacing one that has   *)
(* the name, and the session is erased.                                    *)
RenameFile(s, w, content) ==
  /\ AtEOF(w)
  /\ w.output # "closed"
  /\ files' = [files EXCEPT ![EndName(s, w)] = content]
  /\ CloseSession(s)

(* close() or rename() throws, the latter when a directory has the name:   *)
(* the EOF frame is gone, the session stays.                               *)
RenameThrows(s, w, content) ==
  /\ AtEOF(w)
  /\ w.output = "closed" \/ DiskMayFail
  /\ KeepSession(s, [w EXCEPT !.output = "closed",
                              !.queue = @ \ {Top(@, w.nextFrameCount)}], content)

WriteToStream(p) ==
  LET s == p.sessionId
      w == WriterOf(s)
  IN  /\ ~IsStreamExpired(w)
      /\ \E m \in Reach(AddFrameToQueue(w.queue, p), w.nextFrameCount) :
           LET drained == Drained(w, p, m)
               content == DrainedContent(w, p, m, TempOf(s))
           IN  /\ m > w.nextFrameCount => OutputAccepts(w)
               /\ \/ WaitForFrame(s, drained, content)
                  \/ WriteThrows(s, drained, content)
                  \/ RenameFile(s, drained, content)
                  \/ RenameThrows(s, drained, content)

(***************************************************************************)
(* The other ends of receivePacket.                                        *)
(***************************************************************************)
(* The session is expired: its file is deleted, and the packet with it.    *)
DiscardExpired(p) ==
  LET s == p.sessionId
  IN  /\ IsOpen(s) /\ IsStreamExpired(streams[s])
      /\ streams[s].output # "closed"
      /\ CloseSession(s)
      /\ files' = files

(* close() or remove() throws: the session stays as it is, closed.         *)
DiscardThrows(p) ==
  LET s == p.sessionId
  IN  /\ IsOpen(s) /\ IsStreamExpired(streams[s])
      /\ streams[s].output = "closed" \/ DiskMayFail
      /\ KeepSession(s, [streams[s] EXCEPT !.output = "closed"], temp[s])

(* The temporary file cannot be opened: the FileStream constructor throws. *)
CreateThrows(p) ==
  /\ ~IsOpen(p.sessionId)
  /\ DiskMayFail
  /\ UNCHANGED <<streams, temp, files>>

ReceivePacket(p) ==
  /\ \/ WriteToStream(p)
     \/ DiscardExpired(p)
     \/ DiscardThrows(p)
     \/ CreateThrows(p)
  /\ now' = now

(***************************************************************************)
(* What happens around the handler.                                        *)
(***************************************************************************)
(* std::time reads the wall clock, which may be set forward or back.       *)
SetClock ==
  /\ now' \in 0..MaxTime
  /\ UNCHANGED <<streams, temp, files>>

(* SIGINT or a crash ends the process: the map is gone.  The temporary     *)
(* files stay on the disk under names that no later stream uses.           *)
Restart ==
  /\ streams' = [s \in Session |-> NoStream]
  /\ temp' = [s \in Session |-> NoFile]
  /\ UNCHANGED <<files, now>>

Init ==
  /\ streams = [s \in Session |-> NoStream]
  /\ temp = [s \in Session |-> NoFile]
  /\ files = [d \in Destination |-> NoFile]
  /\ now = 0

(* Every packet a client can send may come at any time, in any order and   *)
(* any number of times.  A copy that is in the queue does not come again.  *)
Arrives(p) ==
  /\ p \notin WriterOf(p.sessionId).queue
  /\ ReceivePacket(p)

Next ==
  \/ \E p \in Packet : Arrives(p)
  \/ SetClock
  \/ Restart

Spec == Init /\ [][Next]_serverVars
-----------------------------------------------------------------------------
(* Types; a packet is queued in the session its header names.              *)
TypeOK ==
  /\ streams \in [Session -> Writer \cup {NoStream}]
  /\ temp \in [Session -> Content \cup {Torn, NoFile}]
  /\ files \in [Destination -> Content \cup {NoFile}]
  /\ now \in 0..MaxTime
  /\ \A s \in Session : IsOpen(s) => streams[s].queue \subseteq PacketsOf(s)

(* The loop in ReorderPackets only ever appends the next frame, so the     *)
(* temporary file of a healthy stream holds the source up to the frame     *)
(* that is awaited, and a stream whose write failed has data yet to come.  *)
StreamConsistent(s, w, content) ==
  /\ w.output = "good" => /\ w.nextFrameCount \in FrameNo(s)
                          /\ content = ChunksBefore(s, w.nextFrameCount)
  /\ w.output = "bad"  => w.nextFrameCount < EOFFrame(s)

WrittenIsPrefix ==
  \A s \in Session : IsOpen(s) => StreamConsistent(s, streams[s], temp[s])

(* What a reader of the server's directory relies on: whatever is lost,    *)
(* duplicated, reordered or late, and whatever call fails, a file under    *)
(* its final name is the whole source file of a session that asked for     *)
(* that name, never a part of it and never a mixture of two sessions.      *)
FileIntact ==
  \A d \in Destination : files[d] # NoFile =>
    \E s \in Session : d = DestinationOf(s) /\ files[d] = File[s]

(* Between two packets a healthy session never holds the frame it waits    *)
(* for: the loop goes on for as long as there is something to write.       *)
WaitsOnlyForMissing ==
  \A s \in Session :
    IsOpen(s) /\ streams[s].output = "good" => ~AtFrame(streams[s])

(* A queue that cannot move: a copy of a written frame lies on top, or the *)
(* queue is full and the awaited frame, which it refuses, is not in it.    *)
Stuck(w) ==
  \/ \E p \in w.queue : p.frameCount < w.nextFrameCount
  \/ /\ Cardinality(w.queue) >= MaxQueueLength
     /\ \A p \in w.queue : p.frameCount # w.nextFrameCount

Wedged(s) == IsOpen(s) /\ (Stuck(streams[s]) \/ streams[s].output # "good")

(* A session that is stuck, or whose stream has failed, never recovers:    *)
(* whatever arrives, it delivers nothing, and stays so until it is erased. *)
WedgedNeverDelivers ==
  [][\A s \in Session : Wedged(s) /\ streams'[s] # streams[s] =>
       files' = files /\ (IsOpen(s)' => Wedged(s)')]_serverVars

(* A packet that finds its session silent for longer than the timeout is   *)
(* not queued, and completes nothing: the check comes before the refresh   *)
(* of timeLastUpdated.                                                     *)
NothingSavedAfterTimeout ==
  [][\A s \in Session :
       IsOpen(s) /\ streams'[s] # streams[s]
         /\ now - streams[s].timeLastUpdated > Timeout =>
           /\ files' = files
           /\ IsOpen(s)' => streams'[s].queue = streams[s].queue]_serverVars
=============================================================================
