------------------------------ MODULE ClientRun ------------------------------
(***************************************************************************)
(* One Client over several calls of send, with the timer that paces it and *)
(* the wrapper that reports on it.                                         *)
(*                                                                         *)
(* Client::send hands runTimer a callback that sends one frame.  The       *)
(* FreeRunningTimer calls it in a loop.  Timer calls it once itself and    *)
(* then from its io_service, whenever the deadline it has set passes; the  *)
(* deadlines are a period apart whether or not they were met in time.      *)
(***************************************************************************)
EXTENDS Integers, Sequences

CONSTANTS
  Timers,       \* of {"free", "deadline"}
  Period,       \* primaryTimerPeriod, in ticks of the clock
  Late,         \* bound: how late a deadline is noticed
  Lengths,      \* bound: the chunks a file may have
  MaxSends,     \* bound: the calls of send
  MaxTime,      \* bound: the clock while no deadline is awaited
  SendMayFail   \* whether the socket's send_to may throw

ASSUME PeriodAssumption == Period \in Nat /\ Late \in Nat
ASSUME BoundsAssumption == Lengths \subseteq Nat /\ MaxSends \in Nat /\ MaxTime \in Nat
ASSUME FailAssumption == SendMayFail \in BOOLEAN

VARIABLES
  timer,       \* which timer selectTimer made
  now,
  expiry,      \* deadlineTimer's expiry
  armed,       \* an async_wait is pending
  stopped,     \* io_service::stopped()
  frameCount,  \* headerBuffer, bytes 4 to 7
  eOFFlag,     \* headerBuffer, byte 8
  file,        \* file[k]: the chunks of the file of call k
  unread,      \* the chunks the current stream still has
  inSend,      \* send has not returned
  started,     \* started[k]: when call k ran its timer, or Never
  sent,        \* sent[k]: the datagrams of call k, in order
  threw,       \* the calls in which the callback caught an exception
  report       \* report[k]: what sendData made of call k

timing == <<now, expiry, armed, stopped>>
headerBuffer == <<frameCount, eOFFlag>>
clientVars == <<timer, timing, headerBuffer, file, unread, inSend, started,
                sent, threw, report>>

Never == -1
Call == Len(file)
ThisCall == IF inSend THEN Call ELSE Call + 1
-----------------------------------------------------------------------------
(* The header and payload of the datagram after generateEDPacket: the      *)
(* count goes up, and a read that returns nothing sets the EOF flag, which *)
(* nothing clears.                                                         *)
Datagram(left) ==
  [frameCount |-> frameCount + 1, eOFFlag |-> eOFFlag \/ left = 0,
   hasData |-> left > 0, at |-> now]

(* A mutant: the last data frame is not counted.                           *)
SendFrameUncounted(left, ok) ==
  /\ frameCount' = IF left = 1 THEN frameCount ELSE frameCount + 1
  /\ eOFFlag' = (eOFFlag \/ left = 0)
  /\ unread' = IF left > 0 THEN left - 1 ELSE 0
  /\ sent' = IF ok THEN [sent EXCEPT ![ThisCall] = Append(@, Datagram(left))] ELSE sent
  /\ threw' = IF ok THEN threw ELSE threw \cup {ThisCall}

(* sendFrame with `left' chunks in the stream; when the socket throws, the *)
(* callback catches it.                                                    *)
SendFrame(left, ok) ==
  /\ frameCount' = frameCount + 1
  /\ eOFFlag' = (eOFFlag \/ left = 0)
  /\ unread' = IF left > 0 THEN left - 1 ELSE 0
  /\ sent' = IF ok THEN [sent EXCEPT ![ThisCall] = Append(@, Datagram(left))] ELSE sent
  /\ threw' = IF ok THEN threw ELSE threw \cup {ThisCall}

(* A mutant: the end of the file is taken from the stream.                 *)
GoesOnByStream(left, ok) == ok /\ left > 0

(* What the callback returns: whether the flag in the header is unset.     *)
GoesOn(left, ok) == ok /\ ~eOFFlag /\ left > 0

Return(how) == inSend' = FALSE /\ report' = Append(report, how)
StayInSend == inSend' = TRUE /\ UNCHANGED report

(* A mutant: the next deadline is counted from this tick.                  *)
TickEarly(left, ok, base) ==
  /\ SendFrame(left, ok)
  /\ expiry' = now + Period
  /\ armed' = GoesOn(left, ok)
  /\ stopped' = (stopped \/ ~GoesOn(left, ok))

(* Timer::tick: the deadline moves on, then the callback is called.        *)
Tick(left, ok, base) ==
  /\ SendFrame(left, ok)
  /\ expiry' = base + Period
  /\ armed' = GoesOn(left, ok)
  /\ stopped' = (stopped \/ ~GoesOn(left, ok))

(* io.run() returns when it is stopped, at once when it was before, and    *)
(* when no wait is pending.                                                *)
Run == IF stopped' \/ ~armed' THEN Return("Send complete") ELSE StayInSend
-----------------------------------------------------------------------------
ClientInit ==
  /\ timer \in Timers
  /\ now = 0 /\ expiry = 0
  /\ armed = FALSE /\ stopped = FALSE
  /\ frameCount = 0 /\ eOFFlag = FALSE
  /\ file = <<>> /\ unread = 0
  /\ inSend = FALSE
  /\ started = <<>>
  /\ sent = [k \in 1..MaxSends |-> <<>>]
  /\ threw = {}
  /\ report = <<>>

Outcomes == IF SendMayFail THEN BOOLEAN ELSE {TRUE}

(* A path that names no file, or a name that is refused: send throws, and  *)
(* main returns 2.                                                         *)
SendRefused ==
  /\ ~inSend
  /\ Call < MaxSends
  /\ file' = Append(file, 0)
  /\ started' = Append(started, Never)
  /\ Return("sendData failed")
  /\ UNCHANGED <<timer, timing, headerBuffer, unread, sent, threw>>

(* send with the FreeRunningTimer, up to its first frame.                  *)
SendFree(length, ok) ==
  /\ timer = "free"
  /\ SendFrame(length, ok)
  /\ IF GoesOn(length, ok) THEN StayInSend ELSE Return("Send complete")
  /\ UNCHANGED timing

(* runTimer: the first frame goes out at once.                             *)
SendTimed(length, ok) ==
  /\ timer = "deadline"
  /\ Tick(length, ok, now + Period)
  /\ Run
  /\ UNCHANGED now

Send ==
  /\ ~inSend
  /\ Call < MaxSends
  /\ \E length \in Lengths, ok \in Outcomes :
       /\ file' = Append(file, length)
       /\ started' = Append(started, now)
       /\ SendFree(length, ok) \/ SendTimed(length, ok)
  /\ UNCHANGED timer

LoopAgain ==
  /\ inSend /\ timer = "free"
  /\ \E ok \in Outcomes :
       /\ SendFrame(unread, ok)
       /\ IF GoesOn(unread, ok) THEN StayInSend ELSE Return("Send complete")
  /\ UNCHANGED <<timer, timing, file, started>>

TimerFires ==
  /\ inSend /\ armed
  /\ now >= expiry
  /\ \E ok \in Outcomes :
       /\ Tick(unread, ok, expiry)
       /\ Run
  /\ UNCHANGED <<timer, now, file, started>>

TimePasses ==
  /\ now < (IF inSend /\ armed THEN expiry + Late ELSE MaxTime)
  /\ now' = now + 1
  /\ UNCHANGED <<timer, expiry, armed, stopped, headerBuffer, file, unread,
                 inSend, started, sent, threw, report>>

ClientNext == SendRefused \/ Send \/ LoopAgain \/ TimerFires \/ TimePasses

ClientSpec == ClientInit /\ [][ClientNext]_clientVars
-----------------------------------------------------------------------------
(* However late its deadlines are noticed, and however it catches up, the  *)
(* timer never runs ahead of the rate: the k-th frame of a call goes out   *)
(* no sooner than k periods after the call.                                *)
NeverAheadOfRate ==
  timer = "deadline" =>
    \A k \in 1..Call :
      \A n \in 2..Len(sent[k]) : sent[k][n].at >= started[k] + n * Period

(* What a first call has sent when it returns is the file from its start,  *)
(* frame by frame in order; the flagged frame is the last after the whole  *)
(* file, and a call that was cut short by an exception never sends it, so  *)
(* that the server cannot take a part for the file.                        *)
FirstSendIsWhole ==
  (Len(report) >= 1 /\ started[1] # Never) =>
    /\ Len(sent[1]) = file[1] + 1 <=> 1 \notin threw
    /\ \A n \in 1..Len(sent[1]) :
         /\ sent[1][n].frameCount = n
         /\ sent[1][n].eOFFlag <=> n = file[1] + 1
         /\ sent[1][n].hasData <=> n <= file[1]

(* The client stops sending for good once a frame was flagged: a call ends *)
(* with the first flagged frame, whatever the earlier calls left behind.   *)
OneFlaggedFrameEndsACall ==
  \A k \in 1..Call : \A n \in 1..Len(sent[k]) :
    sent[k][n].eOFFlag => n = Len(sent[k]) /\ Len(report) >= k

(* "Send complete".                                                        *)
CompleteMeansSent ==
  \A k \in 1..Len(report) :
    report[k] = "Send complete" => Len(sent[k]) = file[k] + 1

(* "each packet is sent after 1 second": with deadlines noticed in time,   *)
(* each frame follows the one before it by one period.                     *)
OnePeriodApart ==
  \A k \in 1..Call : \A n \in 2..Len(sent[k]) :
    sent[k][n].at = sent[k][n - 1].at + Period

(* A client that sends twice, as in "Packets are sent with a random        *)
(* session ID", numbers the frames of each session from 1.                 *)
EverySessionStartsAtOne ==
  \A k \in 1..Call : \A n \in 1..Len(sent[k]) : sent[k][n].frameCount = n
=============================================================================
