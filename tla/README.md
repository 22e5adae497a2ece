# Enterprise Diode file transfer: models and proofs

TLA+ models of the file transfer over the Oakdoor Enterprise Data Diode, the
TLC configurations that check them on small instances, and TLAPS proofs of what
holds for every instance. Paths below are relative to the repository's `src/`
directory unless they start at its root.

## 1. The system

A **client** (`client/`) cuts one file into UDP datagrams and sends them, paced
by a timer, through a one-way diode. A **server** (`server/`) on the other side
puts the datagrams of each session back in order, writes them to a temporary
file and renames that file when the last frame is in place. Nothing flows back:
no acknowledgement, no retransmission.

| Component | State | Operations | Hard behaviour |
|---|---|---|---|
| `client/Client` | header buffer (session id, frame count, EOF flag), read position | `send`, `sendFrame`, `generateEDPacket` | an exception ends the run as the EOF frame does; a second `send` on one client |
| `client/Timer`, `FreeRunningTimer`, `ClientWrapper` | deadline, io_service | `runTimer`, `tick`, `sendData` | pacing; what is reported after an aborted run |
| network, diode | datagrams in flight | external | loss, duplication, reordering |
| `server/UdpServer` | one receive buffer, one armed receive | `triggerWaitAndRead...`, `checkPacketLength...` | re-arming; truncation when the MTUs differ |
| `diodeheader/`, `server/Packet` | none | header encoding, `parsePacket` | 32-bit frame count |
| `server/Server`, `SessionManager` | the map `streams` of open sessions | `receivePacket`, `writeToStream` and its helpers | exceptions that leave a call half done; expiry; late packets; restart |
| `server/OrderingStreamWriter` | `timeLastUpdated` | `write`, `deleteFile`, `renameFile` | the timeout and the refresh of its time stamp |
| `server/ReorderPackets` | heap of packets, `nextFrameCount` | `write`, `addFrameToQueue`, `checkQueueAndWrite` | order, repetition, a full queue, a write that throws in mid-loop |
| `server/FileStream` | the ofstream, the temporary and the final name | `write`, `renameFile`, `deleteFile` | failed calls and the stream state they leave |
| `server/SISLFilename` | none | `extractFilename` | length limits on the two ends |
| `SislTools/` | the handler's stream and depth | JSON to SISL, SISL to JSON | nesting, commas, types |
| `rewrapper/` | the mask of the first frame | `rewrap` | sentinel mask, frames that cannot be rewrapped |
| `clara/`, `parseArgs` | token stream, bound variables | `parse` | joined and bundled options, defaults, numbers |
| `server/ServerMain` | io_context | `main`, `signalHandler` | SIGINT at any moment |
| `diodetester/` | a client and a server in one process | `main`, `signalHandler` | shutdown of two threads |

The components call each other synchronously. The server has one thread: the
io_context runs the receive handler, which runs `receivePacket` to its end. So
one call of `receivePacket` is one atomic step, *but* it may end early at any of
its throw points, and `Server::receivePacket` swallows every
`std::runtime_error`. The interleavings that matter are those of packets of
several sessions, of the wall clock, of restarts, and of the network. The tester
alone has two threads, the client's and the io_context's, and a signal handler.

What makes each part correct:

- **ReorderPackets**: what is written is the frames from 1 on, without gap or
  repetition, and the loop does not stop early.
- **FileStream / SessionManager**: a file under a final name is the whole file
  of one session; a session that cannot make progress delivers nothing.
- **Timeout**: a session silent for longer than the timeout is not completed.
- **Client and server together**: a file appears only after all of it was sent;
  if nothing is lost or refused it does appear.
- **Timer and client**: the data rate is not exceeded; a call that is cut short
  never sends the frame that ends the file; one flagged frame ends a call.
- **Receiver**: a datagram that fits is handed over whole, one that was taken is
  handed over once, and a bad one does not stop the loop.
- **Header**: fields are read back where they were written.
- **Name**: a file is stored under its own name or as `rejected.N`.
- **Rewrapper**: the file unwraps with the mask of its first frame.
- **SISL**: what is written is read back.
- **Command line**: a line means what its tokens say, or is refused.
- **Programs**: they end when interrupted or when their work has failed.

## 2. Modules

| Module | Models |
|---|---|
| `EDPacket` | the datagrams of a session: `FramePacket(s, f, c)` is copy `c` of frame `f`, as `generateEDPacket`/`addEOFframe` make it and `parsePacket` reads it |
| `ReorderPackets` | the queue and the write loop as operators on a set of packets |
| `SessionManager` | the server: `streams`, the temporary and the final files, the clock; one action for each way a call of `receivePacket` can end |
| `SessionManager_proofs` | the proofs about it |
| `FileDrop` | abstract: what the two users of the diode may rely on |
| `DiodeTransfer` | clients, network and server; refines `FileDrop` |
| `DiodeTransfer_proofs` | the proofs of that refinement and of delivery |
| `SharedSession`, `SharedSession_proofs` | clients that drew one session id, on the write loop turn by turn |
| `ReorderLoop` | one call of `checkQueueAndWrite` as a function of the number of turns, beside the closed form of `ReorderPackets` |
| `ServerTests` | the repository's tests of the server, played on `SessionManager` |
| `ClientRun`, `ClientRun_proofs` | `Client::send` over several calls, `Timer`, `FreeRunningTimer`, what `sendData` reports |
| `UdpServer`, `UdpServer_proofs` | the receive loop and the sizes both ends compute |
| `EDHeader` | the header's bytes, and frame counts that wrap |
| `FileName` | a name from the client's checks to the server's disk; uses `Sisl` |
| `Sisl` | the SAX handler and the SISL grammar |
| `Formats_proofs` | the proofs about `EDHeader` and `FileName` |
| `StreamingRewrapper`, `StreamingRewrapper_proofs` | a session behind an import diode |
| `CommandLine` | clara's token stream and parse loop, the options of the three programs |
| `CommandMeaning` | what a line means when all its tokens are looked at together, beside that loop |
| `Programs`, `Programs_proofs` | the mains of the three programs from their command lines on, with SIGINT |
| `MCReorder` | three clients for `SharedSession` and `ReorderLoop` |
| `MCFormats` | `EDHeader`, `FileName`, `Sisl` and `ReorderLoop`, one of them in each behaviour |
| `MCEnds` | `ClientRun`, `UdpServer` and `StreamingRewrapper`, one of them in each behaviour |
| other `MC...` | values for TLC, and reference definitions |

How state and actions correspond to the code:

- `streams[s]` is the entry of session `s` in `SessionManager::streams`, or
  `NoStream`. Its record has the members of `OrderingStreamWriter` and
  `ReorderPackets` that steer behaviour. `queueAlreadyExceeded` and
  `lastFrameReceived` only decide what is logged and are left out.
- `output` is the state of the ofstream. `FileStream` sets `exceptions(failbit |
  badbit)`. A failed write leaves badbit set, so every later write throws
  (`"bad"`), but `close()` still works and an expiry can clean up. After
  `close()` was called (`"closed"`) every further `close()` throws; a write
  throws too, or is swallowed when the `close()` itself had failed.
- The write loop appears in closed form: `Drains(queue, n, m)` says that it gets
  from frame `n` to frame `m`. `WriteToStream(p)` takes such an `m` and ends
  there in one of four ways: the next frame is missing (`WaitForFrame`), its
  write throws with the frame still on the heap (`WriteThrows`), the EOF frame
  completes the file (`RenameFile`), or `close()`/`rename()` throws with the EOF
  frame gone and the session kept (`RenameThrows`). `ReorderLoop` has the loop as it is
  written, a turn at a time; TLC compares the two on small queues, and they are
  proved to agree on every queue (`ClosedFormIsTheLoop`).
- `DiscardExpired` and `DiscardThrows` are the expired branch of
  `writeToStream`; `CreateThrows` is a `FileStream` constructor that fails.
- `SetClock` sets `now` to any value: the server reads the wall clock, which may
  be set back. The clock does not move within one call.
- `Restart` is SIGINT or a crash followed by a start. The temporary files of the
  open sessions stay on the disk; no later code touches them, so they leave the
  model.
- A file is a sequence of chunks, a chunk and a name are model values. The name
  is accepted when it is in `AcceptedName`, otherwise the file is stored as
  `rejected.N`.

- `ClientRun`: the timer's callback is `SendFrame`; `Tick` moves the deadline,
  calls it and arms or stops, as `Timer::tick`. `expiry` is moved by a period
  per tick whether or not the deadline was met; `stopped` stays set, so a second
  call with `Timer` sends one frame. `sent[k]` is what call `k` gave to the socket,
  with the time it did. An exception is a disjunct of every send.
- `UdpServer`: a datagram is a number and a length. `receive` is where the
  `async_receive_from` is: armed, done with its handler due (`Read`), or none.
  Each of the other actions is one way the handler can end: too short (armed
  again), handed over (armed again), an exception that leaves `run()`, an error
  code. `Trigger` makes the buffers anew, as `frame` was moved out. `run()`
  returns when no receive is pending (`RunReturns`) or on `stop()`; `causes` is
  what happened that may end it.
  `Short` and `UInt16` are the casts of `calculateMaxBufferSize` and
  `calculatePayloadSize`.
- `EDHeader`: the client's buffer of 112 bytes, in which `IncrementFrameCount`,
  `SetEOF` and the diode write at the positions of `EnterpriseDiodeHeader.hpp`.
  A byte has `Base` values, so that a count of four bytes wraps within a file.
- `StreamingRewrapper`: a byte is a set of bits, XOR the symmetric difference.
  `top` is the frame on top of the queue: `RewrapThrows` leaves it there, where
  the session's next packet finds it.
- `FileName`, `Sisl`: a text is a sequence of symbols, either a character with a
  meaning, under a name of its own (`"quote"`, `"open"`), or a word with a length.
  `Grouping`, `Groupings` and `Object` are the rules of the grammar with its
  semantic actions, and `Parse` is the one recursive function, of a rule and a
  place in the text, that they make up; what a rule told the writer before it
  failed stays told.
- `CommandLine`: a word has the form `loadBuffer` tells apart (plain, option,
  joined, bundle); `tokens` is the pair of the iterator and the token buffer.
- `Programs`: `main` and `io` are the places of the two threads, `stopped` is
  `io_context.stopped()`. `ParseArgs` is a step of `CommandLine`, and the variables
  it has bound decide what main does: an MTU below 576 ends a server or tester by
  an exception and a client with 2, a file name that was not given opens nothing.
  `Interrupt` may come between any two steps. The handler is one step, and no step
  holds a lock: see 5.
- `SharedSession`: of two queued frames with one count the heap may have either
  on top, so the loop takes single turns here. `Receive` waits until no loop is
  at work, as the io_context does.
- `ServerTests`: a test is the sequence of packets it hands over, each with what
  it requires afterwards; `HandOver` is `ReceivePacket` of `SessionManager`.

Assumptions made explicit: session ids are unique, except in `SharedSession`;
the random number in a temporary name is unique; frame counts do not wrap,
except in `EDHeader`; a datagram arrives whole or not at all, except in
`UdpServer`; sessions are of `DiodeType::basic`, except in `StreamingRewrapper`;
the import diode wraps every frame of a file or none.

## 3. What TLC checks

| Run | Module, cfg | Question |
|---|---|---|
| `sessions` | `MCSessionManager` | does the server keep files whole whatever arrives and fails? |
| `transfer` | `MCDiodeTransfer`, `MCTransfer` | is every transfer decided, and is a file there when nothing was lost? |
| `transfer_drop` | `MCDiodeTransfer`, `MCTransferDrop` | do the parts together implement `FileDrop`? |
| `duplicate_wedges` | `MCDiodeTransfer`, `MCTransferDuplicate` | finding 1 |
| `expired_left_open` | `MCDiodeTransfer`, `MCTransferExpired` | finding 2 |
| `ends` | `MCEnds` | what does a client send, and when; does the receive loop go on, and hand over all that came, whole; does a rewrapped file unwrap to the source? |
| `formats` | `MCFormats` | are headers, names and SISL texts read as they were written; is the closed form of the loop the loop, and how far can clients with one id mix? |
| `programs` | `MCPrograms` | are command lines read as written, and do the programs end? |
| `complete_unsent` | `ClientRun`, `MCClientComplete` | finding 3 |
| `name_of_65` | `MCFileName`, `MCFileNameLimit` | finding 4 |
| `required_missing` | `MCCommandLine`, `MCCommandLineRequired` | finding 5 |
| `interrupt_ignored` | `MCPrograms`, `MCProgramsEarly` | finding 6 |

**sessions**: a file of three chunks and an empty file under one name, two
copies of each datagram, a queue of three. The environment is the weakest one:
any packet may arrive at any time, again after it was consumed, or never. The
queue is shorter than a file's frames with their copies, so it overflows; two
copies are enough for a stale frame to lie on top; one name makes one file
replace the other; timeout 1 and clock 0..2 have the boundary, the expired and
the set-back case; every call of the file system may fail. Checked:
`WrittenIsPrefix` (a healthy stream's file is the source up to the awaited
frame), `FileIntact` (a final file is a whole source), `WaitsOnlyForMissing`
(the loop never leaves a frame it could write), `WedgedNeverDelivers` (a session
with a stale frame on top, with a full queue that lacks the awaited frame, or
with a failed stream never delivers and never recovers),
`NothingSavedAfterTimeout`.

**transfer**: a file of two chunks with an accepted name and one of one chunk
with a rejected name; a queue of two; loss, aborted sends, disk failures, expiry
and one restart. `lost` records the sessions of which the network lost a
datagram or the server refused one. `NothingLostMeansDelivered`: done, nothing
under way, nothing lost, then the file is there. `EventuallyDecided`: in the end
the file is there, or something was lost, or the client gave up.

*Fairness*: `WF(SendFrame(s))`, because the timer calls the client until the
callback returns false, and `WF` of receiving or losing each datagram under way,
because the server's io_context takes datagrams one after another. Nothing is
assumed of the clock, of failures or of restarts.

**transfer_drop**: the same with one repeated datagram, checked against
`FileDrop` with `offered <- {clients that are done}` and `dropped <- files`.

**ends**: one behaviour is about one of three, and begins there in every way; the
other two stand still. *Client*: two calls with files of 0, 1 or 3 chunks, a
period of 2, deadlines noticed up to 3 ticks late (so a tick can be missed and
caught up), a failing socket. `NeverAheadOfRate`; `FirstSendIsWhole`: what a first call leaves behind is
the file from its start, frame by frame, and ended by the flagged frame exactly if
nothing threw; `OneFlaggedFrameEndsACall`. That `send` returns is no property here:
when the callback returns false no wait is pending, and `io.run()` returns for lack
of work, `io.stop()` or not.

*Receiver*: MTUs of 500, 576, 1500 and around 2^15 and 2^16, so that the casts
through `short` wrap; four datagrams of the lengths at the borders, a kernel
buffer of two; every fault, and a stop at any moment, also between a receive and
its handler. `WholeIfMtuFits`; `HandedOverOnce`: a datagram with a payload that
the kernel took waits for a handler, or was handed over once; `EachIsHandled`,
under *fairness* of reading and of the handler, which one thread does in turn:
nothing waits for ever unless a signal, an error or an exception ended `run()`.

*Rewrapper*: up to four frames of two or three bytes, so that the eighth byte
of the mask is passed in the middle of a frame; masks that differ in every third
and the zero mask; headers that do not decode. `GrowsByTheChunk`,
`RefusedOnlyFor`, `CompleteIsSource`, and `RewrappableCompletes` under *fairness* of the next step:
a frame on top is written or throws again.

**formats**: one behaviour is about one of four. *Headers*: `Base = 2`, so a
count wraps after 16 frames, and a file of 18 frames with a window of two
overtaking frames crosses the wrap once. `HeadersReadBack`, `WrittenInPlace`,
and `StuckOnlyAtWrap`: a transfer of which everything came is stuck only at
the counts just below the wrap. *Names*: all names of up to two of nine words, with
lengths at and around 50 and 65, and seven punctuation marks, and a name that reads
as two members. `NoThirdName`, `NameSurvives`. *SISL*: every object of up to two
members a level and three levels, with empty strings, braces and blanks inside
keys and strings, a double of more digits than are printed, and arrays, at which
the handler stops. `ReadsBack`.

*Sessions*: two clients with the same file of four chunks, a third with another
file of two, two ids to draw, a queue of four; every order, and packets that
never come. When the first two draw one id their packets are two copies of five
frames, and `ReachIsLoop` compares the closed form with the loop taken turn by
turn on every queue they can form. `MixedInPlaceOnly`: a final file has the length of
the file whose EOF frame ended it and in each place a chunk that some client
with that id has there; a client alone with its id gets its whole file or none.
Nothing but equality is asked of ids, so they are a symmetry set.

**programs**: all lines of up to three of fifteen words, for three programs; two
frames, one signal at any moment, every fault. `ParsedAsWritten` compares the
parse loop with `Meaning` of `CommandMeaning`, which looks at all tokens of the line at once;
`NumbersFit`; `ZeroMeansUsable`, which says where what the parser lets through
is caught; `ZeroMeansStoppedServing`. `InterruptEnds` and `FailureIsReported`
under *fairness* of the two threads (`MainStep`, `RunStep`): both are runnable and
scheduled; faults and signals are not fair. The tester's wait loop is excluded
from `InterruptEnds`: see finding 6. The values on the lines include 65535 and
65536, the ends of what a port takes.

Deadlock is not checked where the system stops by itself: the client returns,
the programs end, a line or a name is finished.

Beside the runs, `MCServerTests` (`ServerTests`) plays 22 of the repository's
tests of `ReorderPackets`, `OrderingStreamWriter`, `SessionManager` and `Server`
on the model of the server, every pair of them as two sessions of one server, in
every interleaving, and finds what each test requires (`EveryTestPasses`). One
session has a name the server accepts, the other one it rejects. The tests' queue
lengths (1 to 100) are all 3: no test with a longer queue fills 3, and the two with
a queue of 2 overflow 3 too.

Each property of a passing run has a mutant of the code's model (the operators
whose comment starts "A mutant") that TLC finds to violate it.

### 3.1 Findings

1. `duplicate_wedges`: `README.md:14-15` (repository root) says that packets are
   put back in order and that *lost packets* lose a file. One *repeated* packet
   loses it as well. A copy of a frame that was already written is queued, has
   the smallest count, stays on top (`server/ReorderPackets.cpp:55`), and the
   loop never moves again.
2. `expired_left_open`: `server/ServerTests.cpp:162` says "Stream is closed if
   timeout is exceeded". The timeout is looked at only when another packet of
   the session arrives (`server/SessionManager.cpp:30`): a session whose
   remaining packets are lost keeps its queue and its file until the server
   ends.
3. `complete_unsent`: `client/ClientWrapper.cpp:56` reports "Send complete" after
   an exception in `sendFrame` as well: the callback's FALSE (`client/Client.cpp:44`)
   is all that `send` sees of it. `FirstSendIsWhole` says what such a call has
   really sent.
4. `name_of_65`: `README.md:65` and `:82` (repository root) and the client allow
   names of 65 characters. The server takes 65 as the limit of the SISL text
   around the name and stores files with names from 51 on as `rejected.N`
   (`server/ReorderPackets.cpp:16`). `NameSurvives` is what holds of the names
   below.
5. `required_missing`: `README.md:62` and `.required()` (`client/ClientMain.cpp:32-34`)
   say what has to be given; `clara/clara.hpp:1215` does not check it. The port is
   then uninitialised. `ZeroMeansUsable` says what is caught later.
6. `interrupt_ignored`: a SIGINT before the tester's wait loop
   (`diodetester/EnterpriseDiodeTesterMain.cpp:125`) logs "SIGINT Received, stopping
   Tester." (`:95`) and leaves it spinning in that loop. `InterruptEnds` is what
   holds of the rest of the program.

### 3.2 Other disagreements, each with a configuration that shows it

The properties of this table say what a document, a test or a message of the
program says, and are violated. They are not among the runs; where the code's
actual behaviour is worth a property, a run checks that one (last column).

| Configuration (module) | Property | What is said, and what the code does | Checked instead |
|---|---|---|---|
| `MCClientPeriod` (`ClientRun`) | `OnePeriodApart` | `client/ClientTests.cpp:202`, "each packet is sent after 1 second": the second is sent after two, as `runTimer` sets the deadline one period ahead and the first `tick` adds another | `NeverAheadOfRate` |
| `MCClientSecond` (`ClientRun`) | `EverySessionStartsAtOne` | `client/ClientTests.cpp:261-272` sends twice on one client: the second goes on with the frame count and the EOF flag of the first, so no server can write it | `OneFlaggedFrameEndsACall` |
| `MCEDHeaderWrap` (`EDHeader`) | `AllArrivedIsComplete` | "Re-ordering of UDP packets": not across the wrap of the frame count (`server/ReorderPackets.cpp:66`) | `StuckOnlyAtWrap` |
| `MCCommandLineDrop` (`MCCommandLine`) | `DropMeansDrop` | the tester's `-d` is documented and parsed, and not used (`diodetester/EnterpriseDiodeTesterMain.cpp:56`, `:115`) | |
| `MCReorderMixed` (`MCReorder`) | `ReceivedIsSent` | `README.md:13` promises files multiplexed on one port: session ids are drawn from a generator seeded with the clock (`client/Client.cpp:111`), and two clients with one id can be delivered as one file that neither sent | `MixedInPlaceOnly` |

## 4. What is proved

TLAPS checks the following for every number of sessions and copies, all files
and names, every queue length, timeout, clock range and failure setting.
Assumed of the constants are only their types, that the model values for
"nothing" are none of the contents, and that there are enough copy tags. Where a
theorem has a hypothesis of its own it is named below.

- `InvInvariant`: `Inv == TypeOK /\ WrittenIsPrefix /\ FileIntact` is inductive.
  `FileIntact` alone is not: a rename is right only because the stream held a
  prefix up to the awaited frame and the awaited frame is the EOF frame. That in
  turn needs the second half of `WrittenIsPrefix`: a stream whose write failed
  awaits a data frame, so it never comes to the EOF frame.
  `DrainedOK` carries a session through the loop, `WrittenIsSource` says that the
  loop writes a contiguous piece of the source, `KeepOK` and `CloseOK` lift a
  session's order to the whole state.
- `TypeCorrect`, `StreamsHoldPrefixes`, `FilesAreIntact`: its conjuncts.
- `LoopRunsDry`: `WaitsOnlyForMissing`, from what a call leaves in the map
  (`EntryAfterCall`).
- `WedgedSessionsStay`: the action property `WedgedNeverDelivers`. `StuckStays`
  shows that the loop does not move past a stale or refused frame.
- `TimeoutIsChecked`: the action property `NothingSavedAfterTimeout`.
- `TransferInvariant` and `TransferImplementsFileDrop`: an EOF frame under way or
  in a queue means that its client is done; with `FilesAfterCall` (a call that
  changes a final file puts a whole source there after an EOF frame) every step
  of `DiodeTransfer` is a step of `FileDrop` or leaves its variables alone.

For the import diode (`StreamingRewrapper_proofs`), for every set of bits, every
chunk and mask and every length of a file:

- `RewrapperInvariant`: types; the frame on top is the next chunk of the source,
  wrapped or not as the file is; the mask is the one in the file's header, and
  none before the first frame; what has thrown once stays on top of the queue.
- `FileGrowsByTheChunk`: the action property `GrowsByTheChunk`. Its core is
  `RewrappedUnwraps`: byte `i` of a frame at offset `k` meets byte
  `(k + i) % 8` of the combined mask, in which the frame's own mask cancels and
  the file's remains.
- `CompleteFileIsSource` (`CompleteIsSource`): in every state the file unwraps to
  the source up to the awaited frame (`ReadSoFar`), and only the EOF frame,
  behind the last chunk, completes it. `FlattenedIs` shows that the recursive
  function by which a source is put together exists.
- `RefusalsAreListed`: `RefusedOnlyFor`.

For the receiver (`UdpServer_proofs`), for all MTUs below 2^16, buffers and
numbers of datagrams:

- `PayloadSize`: the casts through `short` cancel out for every MTU of at least
  576, so a full frame of a client is exactly a buffer of a server with its MTU.
- `FittingMtuIsWhole` (`WholeIfMtuFits`).
- `EachHandedOverOnce` (`HandedOverOnce`), from `ReceiverInvariant`: every receive
  that is armed or done has a frame of its full size (`FrameIsWhole`), so what is
  skipped as short has no payload (`SkippedIsShort`) and each other datagram taken
  is in the kernel, in the buffers or handed over (`Accounted`); their numbers rise
  in that order, backwards, so it is in one of these places, once.

For the transfer as a whole (`DiodeTransfer_proofs`), besides the refinement:

- `TransferTypeCorrect`: `TransferTypeOK`.
- `UnhurtIsDelivered`: as long as no datagram was repeated, a client that is
  done, of which nothing is under way, was lost or was refused, has its file,
  unless another client has the same destination. Whatever the other clients
  lose, abort or share does not matter. The property only speaks of the end of a
  transfer, so the invariant (`DeliveryInv`) has to follow it: a session that is
  still unhurt is either `Collecting` (every frame from the awaited one on is in
  its queue, under way or unsent, and there are no others) or `HandedOver`. A
  `Collecting` session of which nothing is under way has the awaited frame on top,
  which `WaitsOnlyForMissing` excludes.
- `NothingLostIsDelivered`: the run's `NothingLostMeansDelivered`, under two
  hypotheses that are the run's as well. `MaxDuplicates = 0`: with a repeated
  datagram it is false (finding 1). No two clients share a destination: otherwise
  the later file replaces the earlier one, as `rename` does.

For the client (`ClientRun_proofs`), for every number and length of files, both
timers, every period, lateness and failure; the inductive invariant is
`ClientInvariant`:

- `RateNeverExceeded` (`NeverAheadOfRate`): the deadline that is awaited is no
  sooner than the rate allows the frame it will send (`DeadlineOK`); the property
  alone says nothing of the next frame.
- `FirstSendComplete` (`FirstSendIsWhole`): during the first call what was sent
  and what is unread make up the file, and nothing has thrown (`FirstCallOK`); an
  exception ends the call one frame short at least.
- `FlagEndsEveryCall` (`OneFlaggedFrameEndsACall`): while a call is under way
  nothing has been flagged (`GoingOnOK`), because the frame that is flagged, or an
  exception, ends it, although neither flag nor count is ever reset.

For clients that draw one session id (`SharedSession_proofs`), for any number of
clients and ids:

- `MixedOnlyInPlace` (`MixedInPlaceOnly`), from `SharedInvariant`: a stream has
  written as many frames as it counts, each in the place it has in the file of
  some client with that id, and queues only packets of such clients.
- `AloneSessionIsWhole`: a final file ended by a client that shares its id with
  nobody is that client's file. This is what the other modules rely on when they
  take ids to be unique.
- `ClosedFormIsTheLoop`: for every finite set of packets with natural counts and
  every awaited frame, `Drains` and its companions name exactly one frame to stop
  at, and the loop of `checkQueueAndWrite` stops there with the same packets left,
  the same payloads written and the same verdict. The loop is a recursive function
  of the number of turns; `LoopUnfolds` shows that there is such a function,
  `AfterTurns` is what every turn keeps, and the induction over the turns is one
  over a set of numbers (see below). So the closed form, on which the proofs about
  `SessionManager` rest, is no assumption of theirs.
- `ReachIsTheLoop` (`ReachIsLoop`): the run's comparison, for any clients.

For the header (`Formats_proofs`), for every base of a byte and length of a file:

- `HeadersAlwaysReadBack` (`HeadersReadBack`): the bytes `StoreValue` wrote are
  the digits of the value (`FourDigits`), at places no other writer touches.
- `AlwaysWrittenInPlace` (`WrittenInPlace`) and `OnlyWrapSticks`
  (`StuckOnlyAtWrap`), from `OrderInvariant`: the counts are the places modulo the
  wrap, no place is missing, and a frame queued beyond the window of the awaited
  one means that the session is stuck. Hypothesis: `Window < Modulus`, no datagram
  overtakes another by a whole cycle of the count, 2^32 datagrams in the code and
  16 in the run, whose window is 2. Without it the first of them is false.

The theorems about a part that a run checks beside others are stated of the part's
own specification (`HeaderSpec`, `NameSpec`, `SharedSpec`, `ClientSpec`,
`ReceiverSpec`, `RewrapSpec`); the run takes the same initial states and steps. `SessionAssumption`, that session ids are
natural numbers, is the only thing assumed of the ids.

For the file name (`Formats_proofs`), for all names, words and limits:

- `StoredUnderItsName` (`NoThirdName`) and `SurvivesIfItFits` (`NameSurvives`),
  of `NameSpec`. What is stored is what the server makes of the text of a name the
  client took (`NameInv`), so both are about one text, `{name: !str "..."}`, around
  a name of any length without a special character. `NameRead`, `TypeRead` and
  `QuotedRead` say which lexeme is found where, `GroupingIs`, `GroupingsStart`,
  `GroupingsEnd` and `ObjectWhole` what each rule makes of it, and `ParseRead`
  puts them together: the text is one object with one member. That the grammar is
  well defined on such a text is not taken for granted: `ReadingReads` gives the
  function that satisfies it at every rule and place. `SizeOfText` adds the 15
  characters of the text to those of the name.

Assumed there: the second limit of the server is not below the client's 65
(`LimitAssumption`; it is 1000, and no program changes it); the characters SISL
gives a meaning to are not among those a name may have, and count one each
(`SymbolAssumption`; the client's `[a-zA-Z0-9.-_]+` has none of them); no name is
the one the server makes up with its own number (`NumberAssumption`; a client that
guessed the number would be stored under it, which is its name all the same).

For the programs (`Programs_proofs`), for every command line, any number of
datagrams and every order of the two threads, faults and signals:

- `ZeroIsUsable` (`ZeroMeansUsable`): each place of main that is only reached
  with an MTU and a file name that can work is marked as such (`UsableInv`).
- `ZeroIsStoppedServing` (`ZeroMeansStoppedServing`): `run` is left only when the
  io_context was stopped or something was thrown, and main ends with 0 only after
  it was left (`StoppedInv`).
- `LineIsParsedAsWritten` (`ParsedAsWritten`) and `ParsedNumbersFit` (`NumbersFit`),
  from `ParseInvariant`. The invariant says where in the line the token stream is:
  while the loop goes on, every token before that place could be read, the options
  used and the variables bound are those of these tokens, and the buffer is the
  rest of the word at hand (`Going`, `ReadSoFar`); when it has stopped, the token
  it stopped at cannot be read, or asks for help, and all before it could be. The
  tokens of a line are places in it, a word and a token of the word, so that the
  order of the tokens needs no recursion. Assumed of the words
  (`WordAssumption`): a bundle has two letters or more and a text gives a stream
  one number or none, as `loadBuffer` and `operator>>` have it.

Induction over data is needed in three of these proofs: over the turns of the
loop, the symbols of a name and the chunks of a source. The library's
induction theorems quantify over predicates, which is out of reach here, but its
theorem about well-founded relations (`WFMin`) quantifies over sets:
`SetInduction` is induction with a set in the place of the predicate.

Only model-checked:

- liveness and fairness (`EventuallyDecided`, `EachIsHandled`, `RewrappableCompletes`,
  `InterruptEnds`, `FailureIsReported`), out of the
  prover's reach;
- `ReadsBack`: it is about every object the handler may write, nested to any depth,
  so that the reading of the grammar would have to be given for a tree of texts;
  the proof for a name gives it for one shape of text;
- `EveryTestPasses`: it is about the listed tests, which TLC plays completely.

## 5. Not modelled, and the plan

Worth proving next: `ReadsBack` for an object of any number of string members,
from the lexemes of `Formats_proofs`, and then for nested ones.

Possible extensions: the import diode inside `SessionManager` instead of beside
it; temporary files whose random numbers collide (`server/FileStream.hpp:52`).

Not modelled, and why:

- rapidjson, boost::asio and boost::spirit are external; their behaviour is
  modelled from how the code uses it.
- The locks `io_context::stop()` and spdlog take inside the signal handler
  (`server/ServerMain.cpp:76`): a signal that interrupts a thread in one of them may
  hang the process. `InterruptEnds` holds of signals between the models' steps only.
- Which header bytes make `CloakedDagger` throw: a header decodes or it does not.
- The layout of clara's help text, logging, build files, scripts and the test
  framework: no part of the transfer.
- `calculateTimerPeriod`: floating point; its result is the constant `Period`.
- `DropStream` keeps nothing; that `-d` selects it is in `CommandLine`.
- The tests of the import diode need the bytes of real headers, and those of the
  client are what `FirstSendIsWhole` says of every file; the integration tests
  need sockets and the file system.

## 6. Running

    tlc -config MCSessionManager.cfg MCSessionManager
    tlc -config MCTransfer.cfg MCDiodeTransfer
    tlc -config MCTransferDrop.cfg MCDiodeTransfer
    tlc -config MCServerTests.cfg ServerTests
    tlc -config MCEnds.cfg MCEnds
    tlc -config MCFormats.cfg MCFormats
    tlc -config MCPrograms.cfg MCPrograms
    tlapm SessionManager_proofs.tla
    tlapm DiodeTransfer_proofs.tla
    tlapm StreamingRewrapper_proofs.tla
    tlapm UdpServer_proofs.tla
    tlapm ClientRun_proofs.tla
    tlapm SharedSession_proofs.tla
    tlapm Formats_proofs.tla
    tlapm Programs_proofs.tla

The configurations of 3.1 and 3.2 are run the same way; TLC shows the
counterexample.
