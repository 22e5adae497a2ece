---------------------------- MODULE SharedSession ----------------------------
(***************************************************************************)
(* Clients that may draw the same session id.  Client::setSessionID takes  *)
(* the first number of a generator seeded with the clock, so nothing but   *)
(* chance keeps the ids of two clients apart, and the server knows a       *)
(* session by its id alone.  The other models take ids to be unique.       *)
(*                                                                         *)
(* The write loop is taken turn by turn: of two queued frames with one     *)
(* count the heap may have either on top.  Nothing fails or expires here,  *)
(* and a packet that is lost is one that never comes.                      *)
(***************************************************************************)
EXTENDS ReorderPackets, Sequences

CONSTANTS
  Client,
  Id,              \* the session ids to draw from
  Chunk,
  Source,          \* Source[c]: the file of client c, cut into chunks
  Name,            \* Name[c]: the name it is sent under
  NoFile

ASSUME SourceAssumption == Source \in [Client -> Seq(Chunk)]

VARIABLES
  id,       \* id[c]: the session id client c drew
  network,  \* the datagrams on their way
  stream,   \* stream[i]: the session of id i: its queue, count and file
  files     \* files[n]: the file of that name, or NoFile

sharedVars == <<id, network, stream, files>>

NewStream == [queue |-> {}, nextFrameCount |-> 1, content |-> <<>>]

EOFFrame(c) == Len(Source[c]) + 1

PacketFrom(c, f) ==
  [client |-> c, frameCount |-> f, eOFFlag |-> f = EOFFrame(c),
   payload |-> IF f = EOFFrame(c) THEN Name[c] ELSE Source[c][f]]

PacketsFrom(c) == {PacketFrom(c, f) : f \in 1..EOFFrame(c)}
-----------------------------------------------------------------------------
SharedInit ==
  /\ id \in [Client -> Id]
  /\ network = UNION {PacketsFrom(c) : c \in Client}
  /\ stream = [i \in Id |-> NewStream]
  /\ files = [n \in {Name[c] : c \in Client} |-> NoFile]

(* A mutant: the smallest frame is written, whatever its count.            *)
WritableAny(i) ==
  {p \in stream[i].queue :
     \A o \in stream[i].queue : p.frameCount <= o.frameCount}

(* What the loop of session i may write next: the frames on top that have  *)
(* the awaited count.                                                      *)
Writable(i) ==
  LET n == stream[i].nextFrameCount
  IN  {p \in stream[i].queue : p.frameCount = n /\ IsTop(stream[i].queue, n)}

(* A packet goes to the session its id names, once no loop is at work.     *)
Receive(p) ==
  /\ \A i \in Id : Writable(i) = {}
  /\ network' = network \ {p}
  /\ stream' = [stream EXCEPT ![id[p.client]].queue = AddFrameToQueue(@, p)]
  /\ UNCHANGED <<id, files>>

WriteFrame(i) ==
  \E p \in Writable(i) :
    /\ ~p.eOFFlag
    /\ stream' = [stream EXCEPT ![i] =
                    [queue |-> @.queue \ {p},
                     nextFrameCount |-> @.nextFrameCount + 1,
                     content |-> Append(@.content, p.payload)]]
    /\ UNCHANGED <<id, network, files>>

(* The file is renamed and the session erased, with all it has queued.     *)
CompleteFile(i) ==
  \E p \in Writable(i) :
    /\ p.eOFFlag
    /\ files' = [files EXCEPT ![p.payload] = stream[i].content]
    /\ stream' = [stream EXCEPT ![i] = NewStream]
    /\ UNCHANGED <<id, network>>

SharedNext ==
  \/ \E p \in network : Receive(p)
  \/ \E i \in Id : WriteFrame(i) \/ CompleteFile(i)

SharedSpec == SharedInit /\ [][SharedNext]_sharedVars
-----------------------------------------------------------------------------
(* How far clients with one id can mix: a final file is as long as the     *)
(* file of the client whose EOF frame ended it, and has in each place what *)
(* one of the clients with that id has in this place: the frame count      *)
(* keeps the places.  A client alone with its id has its whole file there. *)
MixedInPlaceOnly ==
  \A n \in DOMAIN files : files[n] # NoFile =>
    \E c \in Client :
      /\ Name[c] = n
      /\ Len(files[n]) = Len(Source[c])
      /\ \A k \in 1..Len(files[n]) :
           \E e \in Client : /\ id[e] = id[c]
                             /\ k <= Len(Source[e])
                             /\ files[n][k] = Source[e][k]

(* README: "The server application can receive multiple files multiplexed  *)
(* on a single receive UDP port": what it receives is what a client sent   *)
(* under that name.                                                        *)
ReceivedIsSent ==
  \A n \in DOMAIN files : files[n] # NoFile =>
    \E c \in Client : Name[c] = n /\ files[n] = Source[c]
=============================================================================
