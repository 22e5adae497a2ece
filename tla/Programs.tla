------------------------------- MODULE Programs -------------------------------
(***************************************************************************)
(* The main functions of the client, the server and the tester: how they   *)
(* read their command line, start, are interrupted, fail and end.          *)
(*                                                                         *)
(* The server runs its io_context in main.  The tester runs it in a        *)
(* std::async thread while main sends a file to it, and leaving main       *)
(* waits for that thread in the destructor of the future.  The client only *)
(* sends.  SIGINT may come between any two steps.                          *)
(***************************************************************************)
EXTENDS CommandLine

CONSTANTS
  Frames,     \* bound: the datagrams a client sends
  Signals,    \* bound: how often SIGINT comes
  Faults      \* of {"port in use", "socket error", "exception",
              \*     "no such file", "send error"}

ASSUME BoundsAssumption == Frames \in Nat /\ Signals \in Nat

VARIABLES
  main,      \* where main is
  io,        \* the thread in io_context.run(): "none", "ready", "running", "done"
  stopped,   \* io_context.stopped()
  thrown,    \* an exception has left run()
  sending,   \* datagrams main has still to send
  waiting,   \* datagrams in the server's socket
  signals,   \* how often SIGINT came
  notified,  \* "SIGINT Received, stopping" was logged
  exit       \* how the process ended, or "none"

mainVars == <<main, io, stopped, thrown, sending, waiting, signals, notified, exit>>
vars == <<parseVars, mainVars>>

Exit(how) == main' = "ended" /\ exit' = how
-----------------------------------------------------------------------------
Init ==
  /\ ParseInit
  /\ main = "parsing"
  /\ io = "none"
  /\ stopped = FALSE /\ thrown = FALSE
  /\ sending = Frames /\ waiting = 0
  /\ signals = 0 /\ notified = FALSE
  /\ exit = "none"

ParseArgs ==
  /\ main = "parsing"
  /\ ParseStep
  /\ UNCHANGED mainVars

(* parseArgs returns, or exits with 1 after an error or the help text.     *)
LeaveParseArgs ==
  /\ main = "parsing" /\ outcome # "parsing"
  /\ IF outcome = "params"
     THEN main' = "started" /\ UNCHANGED exit
     ELSE Exit("1")
  /\ UNCHANGED <<io, stopped, thrown, sending, waiting, signals, notified>>

(* calculateMaxBufferSize throws below 576.                                *)
MtuAllowed == bound["mtu"].number >= 576

(* signal(SIGINT, signalHandler); the client installs none.                *)
InstallHandler ==
  /\ main = "started"
  /\ main' = IF program = "client" THEN "sending" ELSE "constructing"
  /\ UNCHANGED <<io, stopped, thrown, sending, waiting, signals, notified, exit>>

(* The Server and its UdpServer, which binds the port and arms a receive.  *)
ConstructServer ==
  /\ main = "constructing"
  /\ MtuAllowed
  /\ main' = "constructed"
  /\ UNCHANGED <<io, stopped, thrown, sending, waiting, signals, notified, exit>>

(* The MTU is too small, or the port cannot be bound: the exception leaves *)
(* main.                                                                   *)
ConstructFails ==
  /\ main = "constructing"
  /\ ~MtuAllowed \/ "port in use" \in Faults
  /\ Exit("terminate")
  /\ UNCHANGED <<program, io, stopped, thrown, sending, waiting, signals, notified>>

(* The server calls run itself; the tester has a thread call it.           *)
StartServing ==
  /\ main = "constructed"
  /\ io' = "ready"
  /\ main' = IF program = "server" THEN "joining" ELSE "waiting"
  /\ UNCHANGED <<stopped, thrown, sending, waiting, signals, notified, exit>>

(* The tester's loop ends as soon as the io_context is not stopped.        *)
WaitLoop ==
  /\ main = "waiting"
  /\ ~stopped
  /\ main' = "sending"
  /\ UNCHANGED <<io, stopped, thrown, sending, waiting, signals,
                 notified, exit>>

(* A mutant: a file that did not open is sent as an empty one.             *)
UnusableMtu == ~MtuAllowed

(* ClientWrapper cannot work with the MTU, or sendData with the file: what *)
(* was not given is the empty name, which opens nothing.                   *)
Unusable == ~MtuAllowed \/ bound["filename"] = Text("")

SendFrame ==
  /\ main = "sending" /\ sending > 0
  /\ ~Unusable
  /\ sending' = sending - 1
  /\ waiting' = IF program = "tester" THEN waiting + 1 ELSE waiting
  /\ UNCHANGED <<main, io, stopped, thrown, signals, notified, exit>>

(* sendData has returned, after the last frame or after one that could not *)
(* be sent; main ends, but for the future's destructor.                    *)
SendReturns ==
  /\ main = "sending"
  /\ ~Unusable
  /\ sending = 0 \/ "send error" \in Faults
  /\ main' = "joining"
  /\ UNCHANGED <<io, stopped, thrown, sending, waiting, signals,
                 notified, exit>>

(* A mutant: the catch block does not stop the io_context.                 *)
SendFailsUnstopped ==
  /\ main = "sending" /\ sending = Frames
  /\ Unusable \/ "no such file" \in Faults
  /\ main' = "failing"
  /\ UNCHANGED <<io, stopped, thrown, sending, waiting, signals,
                 notified, exit>>

(* The wrapper or sendData throws before it has sent anything, and the     *)
(* tester stops its io_context.                                            *)
SendFails ==
  /\ main = "sending" /\ sending = Frames
  /\ Unusable \/ "no such file" \in Faults
  /\ stopped' = (stopped \/ program = "tester")
  /\ main' = "failing"
  /\ UNCHANGED <<io, thrown, sending, waiting, signals, notified, exit>>

(* A mutant: the future does not wait for its thread.                      *)
LeaveMainDetached ==
  /\ main \in {"joining", "failing"}
  /\ IF program = "server"
     THEN io = "done" /\ Exit(IF thrown THEN "terminate" ELSE "0")
     ELSE Exit(IF main = "failing" THEN "2" ELSE "0")
  /\ UNCHANGED <<io, stopped, thrown, sending, waiting, signals, notified>>

(* Main ends when run has returned.  What the tester's run has thrown is   *)
(* kept in the future, which nobody asks.                                  *)
LeaveMain ==
  /\ main \in {"joining", "failing"}
  /\ program # "client" => io = "done"
  /\ Exit(IF program = "server" /\ thrown THEN "terminate"
          ELSE IF main = "failing" THEN "2" ELSE "0")
  /\ UNCHANGED <<io, stopped, thrown, sending, waiting, signals, notified>>

MainStep ==
  \/ ParseArgs
  \/ /\ \/ LeaveParseArgs \/ InstallHandler \/ ConstructServer
        \/ ConstructFails \/ StartServing \/ WaitLoop \/ SendFrame
        \/ SendReturns \/ SendFails \/ LeaveMain
     /\ UNCHANGED parseVars
-----------------------------------------------------------------------------
Serves == exit = "none" /\ io = "running" /\ ~stopped

RunStarts ==
  /\ exit = "none" /\ io = "ready"
  /\ io' = "running"
  /\ UNCHANGED <<main, stopped, thrown, sending, waiting, signals,
                 notified, exit>>

HandleDatagram ==
  /\ Serves /\ waiting > 0
  /\ waiting' = waiting - 1
  /\ UNCHANGED <<main, io, stopped, thrown, sending, signals, notified, exit>>

(* The callback throws, and the io_context is not stopped.                 *)
HandleThrows ==
  /\ "exception" \in Faults
  /\ Serves /\ waiting > 0
  /\ waiting' = waiting - 1
  /\ io' = "done" /\ thrown' = TRUE
  /\ UNCHANGED <<main, stopped, sending, signals, notified, exit>>

(* The receive fails and is not armed again: run is out of work, and stops.*)
RunOutOfWork ==
  /\ "socket error" \in Faults
  /\ Serves
  /\ io' = "done" /\ stopped' = TRUE
  /\ UNCHANGED <<main, thrown, sending, waiting, signals, notified, exit>>

(* run returns, at once if the io_context was stopped before it began.     *)
RunReturns ==
  /\ exit = "none" /\ io = "running" /\ stopped
  /\ io' = "done"
  /\ UNCHANGED <<main, stopped, thrown, sending, waiting, signals,
                 notified, exit>>

RunStep == (RunStarts \/ HandleDatagram \/ RunReturns) /\ UNCHANGED parseVars
RunFault == (HandleThrows \/ RunOutOfWork) /\ UNCHANGED parseVars
-----------------------------------------------------------------------------
(* A mutant: only a running io_context is stopped.                         *)
SignalHandlerLate ==
  /\ notified' = TRUE
  /\ stopped' = (stopped \/ io = "running")
  /\ UNCHANGED <<main, exit>>

(* One step: stop() and the logger take locks, which the model has nobody  *)
(* hold when the signal comes.                                             *)
SignalHandler ==
  /\ notified' = TRUE
  /\ stopped' = TRUE
  /\ UNCHANGED <<main, exit>>

(* Where no handler is installed SIGINT kills the process.                 *)
Interrupt ==
  /\ exit = "none"
  /\ signals < Signals
  /\ signals' = signals + 1
  /\ IF program = "client" \/ main \in {"parsing", "started"}
     THEN Exit("SIGINT") /\ UNCHANGED <<stopped, notified>>
     ELSE SignalHandler
  /\ UNCHANGED <<parseVars, io, thrown, sending, waiting>>

Next == MainStep \/ RunStep \/ RunFault \/ Interrupt

(* Both threads are scheduled; nothing makes a fault or a signal happen.   *)
Spec == Init /\ [][Next]_vars /\ WF_vars(MainStep) /\ WF_vars(RunStep)
-----------------------------------------------------------------------------
(* Neither program ends with 0 of its own accord while it can receive: it  *)
(* was interrupted, or it has lost its receive loop to a failed socket or, *)
(* the tester, to an exception, and its exit status does not tell.  In     *)
(* every case no thread is left in run() when the Server is destroyed.     *)
ZeroMeansStoppedServing ==
  (exit = "0" /\ program # "client") =>
    io = "done" /\ (notified \/ stopped \/ (program = "tester" /\ thrown))

(* SIGINT ends the server whenever it comes, and the tester when it comes  *)
(* after the wait loop, whether its client is sending, has failed or is    *)
(* done and whether or not its thread has entered run yet.                 *)
InterruptEnds ==
  (notified /\ (program = "server" \/ main \in {"sending", "joining"}))
    ~> exit # "none"

(* A client or tester that cannot send its file ends by itself and says    *)
(* so, unless it is killed first.                                          *)
FailureIsReported == main = "failing" ~> exit \in {"2", "SIGINT"}

(* What parseArgs lets through is caught later: no program ends with 0     *)
(* that went on with an MTU it cannot use, and no client or tester that    *)
(* was given no file, though nothing checks what is `.required()'.         *)
ZeroMeansUsable ==
  exit = "0" => MtuAllowed /\ (program # "server" => bound["filename"] # Text(""))

(* "SIGINT Received, stopping Tester.": what the handler logs comes true.  *)
StoppingMeansEnding == notified ~> exit # "none"
===============================================================================
