--------------------------- MODULE ClientRun_proofs ---------------------------
(***************************************************************************)
(* What is proved of a client for every period, however late its deadlines *)
(* are noticed, for files of any length and any number of calls of send.   *)
(***************************************************************************)
EXTENDS ClientRun, SequenceTheorems, TLAPS

DatagramType ==
  [frameCount : Nat, eOFFlag : BOOLEAN, hasData : BOOLEAN, at : Nat]

Reports == {"Send complete", "sendData failed"}

ClientTypeOK ==
  /\ now \in Nat /\ expiry \in Nat
  /\ armed \in BOOLEAN /\ stopped \in BOOLEAN
  /\ frameCount \in Nat /\ eOFFlag \in BOOLEAN
  /\ file \in Seq(Nat) /\ Len(file) <= MaxSends
  /\ unread \in Nat
  /\ inSend \in BOOLEAN
  /\ started \in Seq(Int) /\ Len(started) = Len(file)
  /\ sent \in [1..MaxSends -> Seq(DatagramType)]
  /\ report \in Seq(Reports)

(* A call is under way until it has its report; the calls to come have     *)
(* sent nothing.                                                           *)
CallsOK ==
  /\ inSend => Call >= 1 /\ Len(report) = Call - 1
  /\ ~inSend => Len(report) = Call
  /\ \A k \in 1..MaxSends : k > Call => sent[k] = <<>>
  /\ threw \subseteq 1..Call

(* While a call is under way nothing has been flagged, and the timer of a  *)
(* call that goes on was not stopped; only a deadline timer is ever armed. *)
GoingOnOK ==
  /\ inSend => ~eOFFlag /\ (timer = "deadline" => ~stopped)
  /\ armed => timer = "deadline"

(* The deadline awaited is no sooner than the rate allows the frame that   *)
(* it will send.                                                           *)
DeadlineOK ==
  timer = "deadline" /\ inSend =>
    expiry >= started[Call] + (Len(sent[Call]) + 1) * Period

(* The first call, up to where it is: frame n is the n-th chunk, and what  *)
(* was sent and what is unread make up the file.                           *)
FirstCallOK ==
  /\ Call = 0 => frameCount = 0 /\ ~eOFFlag /\ ~stopped
  /\ Call >= 1 /\ started[1] # Never =>
       /\ \A n \in 1..Len(sent[1]) :
            /\ sent[1][n].frameCount = n
            /\ sent[1][n].eOFFlag <=> n = file[1] + 1
            /\ sent[1][n].hasData <=> n <= file[1]
       /\ Len(report) >= 1 => (Len(sent[1]) = file[1] + 1 <=> 1 \notin threw)
       /\ Len(report) = 0 =>
            /\ 1 \notin threw
            /\ Len(sent[1]) = frameCount
            /\ frameCount + unread = file[1]

ClientInv ==
  /\ ClientTypeOK /\ CallsOK /\ GoingOnOK
  /\ DeadlineOK /\ NeverAheadOfRate
  /\ FirstCallOK
  /\ OneFlaggedFrameEndsACall
-----------------------------------------------------------------------------
(* What the three actions that send a frame have in common: the first      *)
(* frame of a new call, or the next of the call under way; then the call   *)
(* goes on, or it returns because it was told to stop or was stopped.      *)
NewCall(left) ==
  /\ ~inSend /\ Call < MaxSends
  /\ file' = Append(file, left) /\ started' = Append(started, now)

SameCall(left) ==
  /\ inSend /\ left = unread
  /\ file' = file /\ started' = started
  /\ timer = "deadline" => now >= expiry

Paced(left, ok) ==
  /\ now' = now
  /\ timer = "free" => expiry' = expiry /\ armed' = armed /\ stopped' = stopped
  /\ timer # "free" =>
       /\ timer = "deadline"
       /\ armed' = GoesOn(left, ok)
       /\ stopped' = (stopped \/ ~GoesOn(left, ok))
       /\ expiry' = IF inSend THEN expiry + Period ELSE now + Period + Period

MayGoOn(left, ok) == GoesOn(left, ok) /\ (timer = "deadline" => ~stopped)

FrameStep(left, ok) ==
  /\ SendFrame(left, ok)
  /\ NewCall(left) \/ SameCall(left)
  /\ MayGoOn(left, ok) => StayInSend
  /\ ~MayGoOn(left, ok) => Return("Send complete")
  /\ Paced(left, ok)
  /\ timer' = timer

LEMMA SendsOneFrame ==
  ASSUME ClientInv, Send \/ LoopAgain \/ TimerFires
  PROVE  \E left \in Nat, ok \in BOOLEAN : FrameStep(left, ok)
<1>1. Outcomes \subseteq BOOLEAN /\ Lengths \subseteq Nat
  BY BoundsAssumption DEF Outcomes
<1>2. unread \in Nat /\ inSend \in BOOLEAN /\ stopped \in BOOLEAN
  BY DEF ClientInv, ClientTypeOK
<1>3. CASE Send
  <2>1. PICK left \in Lengths, ok \in Outcomes :
          /\ ~inSend /\ Call < MaxSends
          /\ file' = Append(file, left) /\ started' = Append(started, now)
          /\ SendFree(left, ok) \/ SendTimed(left, ok)
          /\ timer' = timer
    BY <1>3 DEF Send
  <2>2. left \in Nat /\ ok \in BOOLEAN
    BY <1>1
  <2>3. CASE SendFree(left, ok)
    BY <2>1, <2>2, <2>3 DEF SendFree, FrameStep, NewCall, Paced, MayGoOn, timing
  <2>4. CASE SendTimed(left, ok)
    BY <1>2, <2>1, <2>2, <2>4
    DEF SendTimed, Tick, Run, FrameStep, NewCall, Paced, MayGoOn
  <2> QED
    BY <2>1, <2>3, <2>4
<1>4. CASE LoopAgain
  <2>1. PICK ok \in Outcomes :
          /\ inSend /\ timer = "free"
          /\ SendFrame(unread, ok)
          /\ IF GoesOn(unread, ok) THEN StayInSend ELSE Return("Send complete")
          /\ UNCHANGED <<timer, timing, file, started>>
    BY <1>4 DEF LoopAgain
  <2>2. FrameStep(unread, ok)
    BY <2>1 DEF FrameStep, SameCall, Paced, MayGoOn, timing
  <2> QED
    BY <1>1, <1>2, <2>2
<1>5. CASE TimerFires
  <2>1. PICK ok \in Outcomes :
          /\ inSend /\ armed /\ now >= expiry
          /\ Tick(unread, ok, expiry) /\ Run
          /\ UNCHANGED <<timer, now, file, started>>
    BY <1>5 DEF TimerFires
  <2>2. timer = "deadline"
    BY <2>1 DEF ClientInv, GoingOnOK
  <2>3. FrameStep(unread, ok)
    BY <1>2, <2>1, <2>2
    DEF Tick, Run, FrameStep, SameCall, Paced, MayGoOn
  <2> QED
    BY <1>1, <1>2, <2>3
<1> QED
  BY <1>3, <1>4, <1>5

(* The frame of a step is the next of its call, which it leaves unflagged  *)
(* when the call goes on.                                                  *)
LEMMA WhatWasSent ==
  ASSUME ClientInv, NEW left \in Nat, NEW ok \in BOOLEAN, FrameStep(left, ok)
  PROVE  LET k == Call'
         IN  /\ k \in 1..MaxSends /\ k = ThisCall
             /\ Datagram(left) \in DatagramType
             /\ sent' = IF ok THEN [sent EXCEPT ![k] = Append(@, Datagram(left))]
                         ELSE sent
             /\ threw' = IF ok THEN threw ELSE threw \cup {k}
             /\ \A j \in 1..(k - 1) : started'[j] = started[j] /\ file'[j] = file[j]
             /\ inSend => /\ k = Call /\ left = unread
                          /\ started' = started /\ file' = file
             /\ ~inSend => /\ k = Call + 1 /\ sent[k] = <<>>
                           /\ started'[k] = now /\ file'[k] = left
             /\ file' \in Seq(Nat) /\ started' \in Seq(Int) /\ Len(started') = k
<1>1. ClientTypeOK /\ CallsOK /\ Len(file) \in Nat /\ MaxSends \in Nat
  BY LenProperties, BoundsAssumption DEF ClientInv, ClientTypeOK
<1>2. Datagram(left) \in DatagramType
  BY <1>1 DEF Datagram, DatagramType, ClientTypeOK
<1>3. /\ sent' = IF ok THEN [sent EXCEPT ![ThisCall] = Append(@, Datagram(left))]
                 ELSE sent
      /\ threw' = IF ok THEN threw ELSE threw \cup {ThisCall}
  BY DEF FrameStep, SendFrame
<1>4. CASE NewCall(left)
  <2>1. Len(file') = Len(file) + 1 /\ Len(started') = Len(started) + 1
    BY <1>1, <1>4, AppendProperties DEF NewCall, ClientTypeOK
  <2>2. now \in Int /\ file \in Seq(Nat) /\ started \in Seq(Int)
    BY <1>1 DEF ClientTypeOK
  <2>3. /\ file' \in Seq(Nat) /\ started' \in Seq(Int)
        /\ file'[Len(file) + 1] = left /\ started'[Len(file) + 1] = now
        /\ \A j \in 1..Len(file) : started'[j] = started[j] /\ file'[j] = file[j]
    BY <1>1, <1>4, <2>2, AppendProperties DEF NewCall, ClientTypeOK
  <2>4. Call' = Call + 1 /\ ThisCall = Call' /\ Call' \in 1..MaxSends /\ ~inSend
    BY <1>1, <1>4, <2>1 DEF NewCall, Call, ThisCall, ClientTypeOK
  <2>5. sent[Call + 1] = <<>>
    BY <1>1, <2>4 DEF CallsOK, Call
  <2> QED
    BY <1>1, <1>2, <1>3, <2>1, <2>3, <2>4, <2>5 DEF Call, ClientTypeOK
<1>5. CASE SameCall(left)
  <2>1. Call' = Call /\ ThisCall = Call' /\ Call' \in 1..MaxSends /\ inSend
    BY <1>1, <1>5 DEF SameCall, Call, ThisCall, ClientTypeOK, CallsOK
  <2>2. file' = file /\ started' = started /\ left = unread
    BY <1>5 DEF SameCall
  <2> QED
    BY <1>1, <1>2, <1>3, <2>1, <2>2 DEF Call, ClientTypeOK
<1> QED
  BY <1>4, <1>5 DEF FrameStep

LEMMA FramesOfCalls ==
  ASSUME ClientInv, NEW left \in Nat, NEW ok \in BOOLEAN, FrameStep(left, ok)
  PROVE  LET k == Call'
         IN  /\ \A j \in 1..MaxSends : j # k => sent'[j] = sent[j]
             /\ Len(sent[k]) \in Nat /\ sent' \in [1..MaxSends -> Seq(DatagramType)]
             /\ ~ok => sent' = sent
             /\ ok => /\ Len(sent'[k]) = Len(sent[k]) + 1
                      /\ sent'[k][Len(sent[k]) + 1] = Datagram(left)
                      /\ \A n \in 1..Len(sent[k]) : sent'[k][n] = sent[k][n]
<1> DEFINE k == Call'
<1>1. /\ k \in 1..MaxSends
      /\ Datagram(left) \in DatagramType
      /\ sent' = IF ok THEN [sent EXCEPT ![k] = Append(@, Datagram(left))] ELSE sent
  BY WhatWasSent
<1>2. sent \in [1..MaxSends -> Seq(DatagramType)]
  BY DEF ClientInv, ClientTypeOK
<1> HIDE DEF k
<1>3. sent[k] \in Seq(DatagramType) /\ Len(sent[k]) \in Nat
  BY <1>1, <1>2
<1>4. ok => sent'[k] = Append(sent[k], Datagram(left))
  BY <1>1, <1>2
<1>5. /\ Append(sent[k], Datagram(left)) \in Seq(DatagramType)
      /\ Len(Append(sent[k], Datagram(left))) = Len(sent[k]) + 1
      /\ Append(sent[k], Datagram(left))[Len(sent[k]) + 1] = Datagram(left)
      /\ \A n \in 1..Len(sent[k]) :
           Append(sent[k], Datagram(left))[n] = sent[k][n]
  BY <1>1, <1>3, AppendProperties
<1> QED
  BY <1>1, <1>2, <1>3, <1>4, <1>5 DEF k

(* What a frame step makes of the rest: the call goes on, or it ends with  *)
(* one more report.                                                        *)
LEMMA RestOfTheStep ==
  ASSUME ClientInv, NEW left \in Nat, NEW ok \in BOOLEAN, FrameStep(left, ok)
  PROVE  /\ now' = now /\ timer' = timer
         /\ frameCount' = frameCount + 1
         /\ unread' = IF left > 0 THEN left - 1 ELSE 0
         /\ eOFFlag' = (eOFFlag \/ left = 0)
         /\ expiry' = expiry \/ expiry' = expiry + Period \/ expiry' = now + Period + Period
         /\ armed' \in BOOLEAN /\ stopped' \in BOOLEAN
         /\ \/ inSend' = TRUE /\ report' = report
            \/ /\ inSend' = FALSE /\ report' \in Seq(Reports)
               /\ Len(report') = Len(report) + 1
<1>1. /\ now \in Nat /\ expiry \in Nat /\ report \in Seq(Reports)
      /\ armed \in BOOLEAN /\ stopped \in BOOLEAN
  BY DEF ClientInv, ClientTypeOK
<1>2. /\ now' = now /\ timer' = timer
      /\ frameCount' = frameCount + 1
      /\ unread' = IF left > 0 THEN left - 1 ELSE 0
      /\ eOFFlag' = (eOFFlag \/ left = 0)
  BY DEF FrameStep, SendFrame, Paced
<1>3. expiry' = expiry \/ expiry' = expiry + Period \/ expiry' = now + Period + Period
  BY DEF FrameStep, Paced
<1>4. armed' \in BOOLEAN /\ stopped' \in BOOLEAN
  <2>1. GoesOn(left, ok) \in BOOLEAN
    BY DEF GoesOn
  <2>2. Paced(left, ok)
    BY DEF FrameStep
  <2> QED
    BY <1>1, <2>1, <2>2 DEF Paced
<1>5. \/ inSend' = TRUE /\ report' = report
      \/ inSend' = FALSE /\ report' = Append(report, "Send complete")
  BY DEF FrameStep, StayInSend, Return
<1>6. /\ Append(report, "Send complete") \in Seq(Reports)
      /\ Len(Append(report, "Send complete")) = Len(report) + 1
  <2>1. "Send complete" \in Reports
    BY DEF Reports
  <2> QED
    BY <1>1, <2>1, AppendProperties
<1> QED
  BY <1>2, <1>3, <1>4, <1>5, <1>6

LEMMA FrameKeepsTypes ==
  ASSUME ClientInv, NEW left \in Nat, NEW ok \in BOOLEAN, FrameStep(left, ok)
  PROVE  ClientTypeOK' /\ CallsOK'
<1> DEFINE k == Call'
<1>1. /\ k \in 1..MaxSends /\ k = Len(file')
      /\ threw' = IF ok THEN threw ELSE threw \cup {k}
      /\ inSend => k = Len(file)
      /\ ~inSend => k = Len(file) + 1
      /\ file' \in Seq(Nat) /\ started' \in Seq(Int) /\ Len(started') = k
  BY WhatWasSent DEF Call
<1>2. /\ \A j \in 1..MaxSends : j # k => sent'[j] = sent[j]
      /\ sent' \in [1..MaxSends -> Seq(DatagramType)]
  BY FramesOfCalls
<1>3. Call' = k
  OBVIOUS
<1> HIDE DEF k
<1>4. /\ now \in Nat /\ expiry \in Nat /\ frameCount \in Nat
      /\ inSend \in BOOLEAN /\ Len(report) \in Nat /\ Len(file) \in Nat
      /\ MaxSends \in Nat
  BY LenProperties, BoundsAssumption DEF ClientInv, ClientTypeOK
<1>5. /\ frameCount' \in Nat /\ unread' \in Nat /\ now' \in Nat /\ expiry' \in Nat
  <2>1. /\ now' = now /\ frameCount' = frameCount + 1
        /\ unread' = IF left > 0 THEN left - 1 ELSE 0
    BY RestOfTheStep
  <2>2. expiry' = expiry \/ expiry' = expiry + Period \/ expiry' = now + Period + Period
    BY RestOfTheStep
  <2> QED
    BY <1>4, <2>1, <2>2, PeriodAssumption
<1>6. eOFFlag' \in BOOLEAN /\ armed' \in BOOLEAN /\ stopped' \in BOOLEAN
  <2>1. eOFFlag' = (eOFFlag \/ left = 0)
    BY RestOfTheStep
  <2> QED
    BY <2>1, RestOfTheStep
<1>7. \/ inSend' = TRUE /\ report' = report
      \/ /\ inSend' = FALSE /\ report' \in Seq(Reports)
         /\ Len(report') = Len(report) + 1
  BY RestOfTheStep
<1>8. inSend' \in BOOLEAN /\ report' \in Seq(Reports)
  BY <1>7 DEF ClientInv, ClientTypeOK
<1>9. Len(file') <= MaxSends
  BY <1>1, <1>4
<1>10. ClientTypeOK'
  BY <1>1, <1>2, <1>5, <1>6, <1>8, <1>9 DEF ClientTypeOK
<1>11. CallsOK'
  <2>1. CallsOK
    BY DEF ClientInv
  <2>2. /\ inSend => k = Call /\ Len(report) = Call - 1
        /\ ~inSend => k = Call + 1 /\ Len(report) = Call
        /\ \A j \in 1..MaxSends : j > Call => sent[j] = <<>>
        /\ threw \subseteq 1..Call
    BY <1>1, <2>1 DEF CallsOK, Call
  <2>3. k \in Nat /\ Call \in Nat /\ Call <= k /\ Len(report) = k - 1
    <3>1. Call \in Nat
      BY <1>4 DEF Call
    <3> QED
      BY <2>2, <3>1
  <2>4. ASSUME NEW j \in 1..MaxSends, j > k
        PROVE  sent'[j] = <<>>
    <3>1. j # k /\ j > Call
      BY <1>4, <2>3, <2>4
    <3> QED
      BY <1>2, <2>2, <3>1
  <2>5. threw' \subseteq 1..k
    <3>1. threw' \subseteq threw \cup {k} /\ k \in 1..k
      BY <1>1, <2>3
    <3>2. 1..Call \subseteq 1..k
      BY <2>3
    <3> QED
      BY <2>2, <3>1, <3>2
  <2>6. /\ inSend' => k >= 1 /\ Len(report') = k - 1
        /\ ~inSend' => Len(report') = k
    <3>1. CASE inSend' = TRUE /\ report' = report
      BY <1>1, <1>4, <2>3, <3>1
    <3>2. CASE inSend' = FALSE /\ Len(report') = Len(report) + 1
      BY <2>3, <3>2
    <3> QED
      BY <1>7, <3>1, <3>2
  <2> QED
    BY <1>3, <2>4, <2>5, <2>6 DEF CallsOK
<1> QED
  BY <1>10, <1>11

LEMMA FrameKeepsFlags ==
  ASSUME ClientInv, NEW left \in Nat, NEW ok \in BOOLEAN, FrameStep(left, ok)
  PROVE  GoingOnOK' /\ OneFlaggedFrameEndsACall'
<1> DEFINE k == Call'
<1>1. /\ k \in 1..MaxSends
      /\ inSend => k = Call
      /\ ~inSend => k = Call + 1 /\ sent[k] = <<>>
  BY WhatWasSent
<1>2. /\ \A j \in 1..MaxSends : j # k => sent'[j] = sent[j]
      /\ Len(sent[k]) \in Nat
      /\ ~ok => sent' = sent
      /\ ok => /\ Len(sent'[k]) = Len(sent[k]) + 1
               /\ sent'[k][Len(sent[k]) + 1] = Datagram(left)
               /\ \A n \in 1..Len(sent[k]) : sent'[k][n] = sent[k][n]
  BY FramesOfCalls
<1>3. Call' = k
  OBVIOUS
<1> HIDE DEF k
<1>4. /\ Call \in Nat /\ Len(report) \in Nat /\ inSend \in BOOLEAN
      /\ CallsOK /\ GoingOnOK /\ OneFlaggedFrameEndsACall /\ MaxSends \in Nat
  BY LenProperties, BoundsAssumption DEF ClientInv, ClientTypeOK, Call
<1>5. Datagram(left).eOFFlag = (eOFFlag \/ left = 0)
  BY DEF Datagram
<1>6. GoingOnOK'
  <2>1. /\ timer' = timer /\ eOFFlag' = (eOFFlag \/ left = 0)
        /\ timer = "free" => armed' = armed
        /\ timer # "free" => timer = "deadline" /\ stopped' = (stopped \/ ~GoesOn(left, ok))
    BY RestOfTheStep DEF FrameStep, Paced
  <2>2. inSend' => GoesOn(left, ok) /\ (timer = "deadline" => ~stopped)
    BY DEF FrameStep, MayGoOn, Return
  <2>3. inSend' => ~eOFFlag' /\ (timer' = "deadline" => ~stopped')
    <3>1. GoesOn(left, ok) => ~eOFFlag /\ left # 0
      BY DEF GoesOn
    <3> QED
      BY <2>1, <2>2, <3>1
  <2>4. armed' => timer' = "deadline"
    BY <1>4, <2>1 DEF GoingOnOK
  <2> QED
    BY <2>3, <2>4 DEF GoingOnOK
<1>7. eOFFlag \/ left = 0 => inSend' = FALSE
  <2>1. eOFFlag \/ left = 0 => ~GoesOn(left, ok)
    BY DEF GoesOn
  <2>2. ~GoesOn(left, ok) => inSend' = FALSE
    BY DEF FrameStep, MayGoOn, Return
  <2> QED
    BY <2>1, <2>2
<1>8. /\ Len(report) = k - 1 /\ Len(report') >= k - 1
      /\ inSend' = FALSE => Len(report') = k
  <2>1. Len(report) = k - 1
    BY <1>1, <1>4 DEF CallsOK
  <2>2. \/ inSend' = TRUE /\ report' = report
        \/ inSend' = FALSE /\ Len(report') = Len(report) + 1
    BY RestOfTheStep
  <2> QED
    BY <1>1, <1>4, <2>1, <2>2
<1>9. ASSUME NEW j \in 1..k, NEW n \in 1..Len(sent'[j]), sent'[j][n].eOFFlag
      PROVE  n = Len(sent'[j]) /\ Len(report') >= j
  <2>1. CASE j # k
    <3>1. j \in 1..Call /\ sent'[j] = sent[j]
      BY <1>1, <1>2, <1>4, <2>1
    <3>2. n = Len(sent[j])
      BY <1>4, <1>9, <3>1 DEF OneFlaggedFrameEndsACall
    <3> QED
      BY <1>1, <1>8, <2>1, <3>1, <3>2
  <2>2. CASE j = k
    <3>1. \A i \in 1..Len(sent[k]) : ~sent[k][i].eOFFlag
      <4>1. CASE inSend
        <5>1. k \in 1..Call /\ ~(Len(report) >= k)
          BY <1>1, <1>4, <1>8, <4>1
        <5> QED
          BY <1>4, <5>1 DEF OneFlaggedFrameEndsACall
      <4>2. CASE ~inSend
        BY <1>1, <4>2
      <4> QED
        BY <4>1, <4>2
    <3>2. ok /\ n = Len(sent[k]) + 1
      BY <1>2, <1>9, <2>2, <3>1
    <3>3. eOFFlag \/ left = 0
      BY <1>2, <1>5, <1>9, <2>2, <3>2
    <3>4. Len(report') = k /\ k \in Nat
      BY <1>1, <1>7, <1>8, <3>3
    <3> QED
      BY <1>2, <2>2, <3>2, <3>4
  <2> QED
    BY <2>1, <2>2
<1>10. \A j \in 1..Call' : \A n \in 1..Len(sent'[j]) :
         sent'[j][n].eOFFlag => n = Len(sent'[j]) /\ Len(report') >= j
  BY <1>3, <1>9
<1> QED
  BY <1>6, <1>10 DEF OneFlaggedFrameEndsACall

(* Ticks of a call: the deadline it awaits allows for the frames it has    *)
(* sent and one more.                                                      *)
LEMMA FrameKeepsRate ==
  ASSUME ClientInv, NEW left \in Nat, NEW ok \in BOOLEAN, FrameStep(left, ok)
  PROVE  DeadlineOK' /\ NeverAheadOfRate'
<1> DEFINE k == Call'
           L == Len(sent[k])
<1>1. /\ k \in 1..MaxSends
      /\ \A j \in 1..(k - 1) : started'[j] = started[j]
      /\ inSend => k = Call /\ started' = started
      /\ ~inSend => k = Call + 1 /\ sent[k] = <<>> /\ started'[k] = now
      /\ started' \in Seq(Int) /\ Len(started') = k
  BY WhatWasSent
<1>2. /\ \A j \in 1..MaxSends : j # k => sent'[j] = sent[j]
      /\ L \in Nat
      /\ ~ok => sent' = sent
      /\ ok => /\ Len(sent'[k]) = L + 1
               /\ sent'[k][L + 1] = Datagram(left)
               /\ \A n \in 1..L : sent'[k][n] = sent[k][n]
  BY FramesOfCalls
<1>3. Call' = k
  OBVIOUS
<1> HIDE DEF k
<1>4. /\ Call \in Nat /\ MaxSends \in Nat /\ inSend \in BOOLEAN
      /\ now \in Nat /\ expiry \in Nat /\ Period \in Nat
      /\ DeadlineOK /\ NeverAheadOfRate
  BY LenProperties, BoundsAssumption, PeriodAssumption
  DEF ClientInv, ClientTypeOK, Call
<1>5. k \in Nat /\ k >= 1 /\ started'[k] \in Int /\ (~inSend => L = 0)
  BY <1>1, <1>4
<1> HIDE DEF L
<1>6. Datagram(left).at = now
  BY DEF Datagram
<1>7. timer' = timer /\ (inSend' => ok)
  BY RestOfTheStep DEF FrameStep, MayGoOn, GoesOn, Return
<1>8. timer = "deadline" =>
        /\ inSend => now >= expiry /\ expiry' = expiry + Period
        /\ ~inSend => expiry' = now + Period + Period
  <2>1. timer = "deadline" => timer # "free"
    OBVIOUS
  <2> QED
    BY <2>1 DEF FrameStep, Paced, SameCall, NewCall
<1>9. timer = "deadline" /\ inSend => expiry >= started'[k] + (L + 1) * Period
  BY <1>1, <1>4 DEF DeadlineOK, L
<1>10. DeadlineOK'
  <2> SUFFICES ASSUME timer = "deadline", inSend'
               PROVE  expiry' >= started'[k] + (Len(sent'[k]) + 1) * Period
    BY <1>3, <1>7 DEF DeadlineOK
  <2>1. Len(sent'[k]) + 1 = L + 2
    BY <1>2, <1>7
  <2>2. (L + 2) * Period = (L + 1) * Period + Period /\ (L + 1) * Period \in Nat
    BY <1>2, <1>4
  <2>3. CASE inSend
    <3>1. expiry >= started'[k] + (L + 1) * Period /\ expiry' = expiry + Period
      BY <1>8, <1>9, <2>3
    <3>2. expiry' >= started'[k] + (L + 2) * Period
      BY <1>4, <1>5, <2>2, <3>1
    <3> QED
      BY <2>1, <3>2
  <2>4. CASE ~inSend
    <3>1. L = 0 /\ started'[k] = now /\ expiry' = now + Period + Period
      BY <1>1, <1>5, <1>8, <2>4
    <3> QED
      BY <1>4, <2>1, <3>1
  <2> QED
    BY <1>4, <2>3, <2>4
<1>11. ASSUME timer = "deadline", NEW j \in 1..k, NEW n \in 2..Len(sent'[j])
       PROVE  sent'[j][n].at >= started'[j] + n * Period
  <2>1. CASE j # k
    <3>1. j \in 1..(k - 1) /\ j \in 1..Call /\ j \in 1..MaxSends
      BY <1>1, <1>4, <1>5, <2>1
    <3>2. sent'[j] = sent[j] /\ started'[j] = started[j]
      BY <1>1, <1>2, <2>1, <3>1
    <3> QED
      BY <1>4, <1>11, <3>1, <3>2 DEF NeverAheadOfRate
  <2>2. CASE j = k
    <3>1. CASE ok /\ n = L + 1
      <4>1. L >= 1 /\ inSend
        BY <1>2, <1>4, <1>5, <1>11, <3>1
      <4>2. now >= expiry /\ expiry >= started'[k] + n * Period
        BY <1>8, <1>9, <1>11, <3>1, <4>1
      <4>3. n * Period \in Nat
        BY <1>2, <1>4, <3>1
      <4>4. sent'[k][n].at = now
        BY <1>2, <1>6, <3>1
      <4>5. now >= started'[k] + n * Period
        BY <1>4, <1>5, <4>2, <4>3
      <4> QED
        BY <2>2, <4>4, <4>5
    <3>2. CASE ~(ok /\ n = L + 1)
      <4>1. n \in 2..L /\ sent'[k][n] = sent[k][n]
        BY <1>2, <2>2, <3>2 DEF L
      <4>2. inSend
        BY <1>2, <1>4, <1>5, <4>1
      <4>3. k \in 1..Call /\ started'[k] = started[k]
        BY <1>1, <1>4, <1>5, <4>2
      <4> QED
        BY <1>4, <1>11, <2>2, <4>1, <4>3 DEF NeverAheadOfRate, L
    <3> QED
      BY <3>1, <3>2
  <2> QED
    BY <2>1, <2>2
<1>12. timer' = "deadline" =>
         \A j \in 1..Call' : \A n \in 2..Len(sent'[j]) :
           sent'[j][n].at >= started'[j] + n * Period
  BY <1>3, <1>7, <1>11
<1> QED
  BY <1>10, <1>12 DEF NeverAheadOfRate

(* The first call: what was sent and what is unread make up the file.      *)
LEMMA FrameKeepsFirstCall ==
  ASSUME ClientInv, NEW left \in Nat, NEW ok \in BOOLEAN, FrameStep(left, ok)
  PROVE  FirstCallOK'
<1> DEFINE k == Call'
<1>1. /\ k \in 1..MaxSends
      /\ threw' = IF ok THEN threw ELSE threw \cup {k}
      /\ \A j \in 1..(k - 1) : started'[j] = started[j] /\ file'[j] = file[j]
      /\ inSend => k = Call /\ left = unread /\ started' = started /\ file' = file
      /\ ~inSend => /\ k = Call + 1 /\ sent[k] = <<>>
                    /\ started'[k] = now /\ file'[k] = left
      /\ file' \in Seq(Nat) /\ Len(started') = k
  BY WhatWasSent
<1>2. /\ \A j \in 1..MaxSends : j # k => sent'[j] = sent[j]
      /\ Len(sent[k]) \in Nat
      /\ ok => /\ Len(sent'[k]) = Len(sent[k]) + 1
               /\ sent'[k][Len(sent[k]) + 1] = Datagram(left)
               /\ \A n \in 1..Len(sent[k]) : sent'[k][n] = sent[k][n]
  BY FramesOfCalls
<1>3. Call' = k
  OBVIOUS
<1> HIDE DEF k
<1>4. /\ Call \in Nat /\ MaxSends \in Nat /\ inSend \in BOOLEAN
      /\ now \in Nat /\ frameCount \in Nat /\ Len(report) \in Nat
      /\ CallsOK /\ GoingOnOK /\ FirstCallOK
  BY LenProperties, BoundsAssumption DEF ClientInv, ClientTypeOK, Call
<1>5. k \in Nat /\ k >= 1 /\ Len(report) = k - 1
  BY <1>1, <1>4 DEF CallsOK
<1>6. /\ frameCount' = frameCount + 1
      /\ unread' = IF left > 0 THEN left - 1 ELSE 0
      /\ \/ inSend' = TRUE /\ report' = report
         \/ inSend' = FALSE /\ Len(report') = Len(report) + 1
  BY RestOfTheStep
<1>7. MayGoOn(left, ok) <=> inSend' = TRUE
  <2>1. (MayGoOn(left, ok) => StayInSend) /\ (~MayGoOn(left, ok) => Return("Send complete"))
    BY DEF FrameStep
  <2> QED
    BY <2>1 DEF StayInSend, Return
<1>8. ASSUME started'[1] # Never
      PROVE  /\ \A n \in 1..Len(sent'[1]) :
                  /\ sent'[1][n].frameCount = n
                  /\ sent'[1][n].eOFFlag <=> n = file'[1] + 1
                  /\ sent'[1][n].hasData <=> n <= file'[1]
             /\ Len(report') >= 1 => (Len(sent'[1]) = file'[1] + 1 <=> 1 \notin threw')
             /\ Len(report') = 0 =>
                  /\ 1 \notin threw'
                  /\ Len(sent'[1]) = frameCount'
                  /\ frameCount' + unread' = file'[1]
  <2>1. k # 1 => (1 \in threw' <=> 1 \in threw)
    BY <1>1
  <2>2. CASE k # 1
    <3>1. k > 1 /\ 1 \in 1..(k - 1) /\ 1 \in 1..MaxSends /\ Call >= 1
      BY <1>1, <1>4, <1>5, <2>2
    <3>2. sent'[1] = sent[1] /\ started'[1] = started[1] /\ file'[1] = file[1]
      BY <1>1, <1>2, <2>2, <3>1
    <3>3. Len(report) >= 1 /\ Len(report') >= 1
      BY <1>4, <1>5, <1>6, <3>1
    <3> QED
      BY <1>4, <1>8, <2>1, <3>1, <3>2, <3>3 DEF FirstCallOK
  <2>3. CASE k = 1
    <3>1. /\ Len(sent[1]) = frameCount /\ frameCount + left = file'[1]
          /\ 1 \notin threw
          /\ \A n \in 1..Len(sent[1]) :
               /\ sent[1][n].frameCount = n
               /\ sent[1][n].eOFFlag <=> n = file'[1] + 1
               /\ sent[1][n].hasData <=> n <= file'[1]
          /\ ~eOFFlag /\ (timer = "deadline" => ~stopped)
      <4>1. CASE inSend
        <5>1. Call = 1 /\ started[1] # Never /\ Len(report) = 0 /\ left = unread
              /\ file'[1] = file[1]
          BY <1>1, <1>4, <1>5, <1>8, <2>3, <4>1
        <5>2. ~eOFFlag /\ (timer = "deadline" => ~stopped)
          BY <1>4, <4>1 DEF GoingOnOK
        <5> QED
          BY <1>4, <5>1, <5>2 DEF FirstCallOK
      <4>2. CASE ~inSend
        <5>1. Call = 0 /\ Len(sent[1]) = 0 /\ file'[1] = left
          BY <1>1, <1>4, <2>3, <4>2
        <5>2. frameCount = 0 /\ ~eOFFlag /\ ~stopped
          BY <1>4, <5>1 DEF FirstCallOK
        <5>3. 1 \notin threw
          <6>1. threw \subseteq 1..0
            BY <1>4, <5>1 DEF CallsOK
          <6> QED
            BY <6>1
        <5> QED
          BY <5>1, <5>2, <5>3
      <4> QED
        BY <4>1, <4>2
    <3>2. inSend' = TRUE <=> ok /\ left > 0
      <4>1. ok /\ left > 0 => MayGoOn(left, ok)
        BY <3>1 DEF MayGoOn, GoesOn
      <4>2. MayGoOn(left, ok) => ok /\ left > 0
        BY DEF MayGoOn, GoesOn
      <4> QED
        BY <1>7, <4>1, <4>2
    <3>3. (Len(report') = 0 <=> ok /\ left > 0) /\ (Len(report') >= 1 <=> ~(ok /\ left > 0))
      BY <1>5, <1>6, <2>3, <3>2
    <3>4. CASE ~ok
      <4>1. sent'[1] = sent[1] /\ 1 \in threw'
        BY <1>1, <2>3, <3>4, WhatWasSent
      <4>2. Len(sent'[1]) # file'[1] + 1
        BY <1>4, <3>1, <4>1
      <4>3. ~(Len(report') = 0)
        BY <3>3, <3>4
      <4> QED
        BY <3>1, <4>1, <4>2, <4>3
    <3>5. CASE ok
      <4>1. 1 \notin threw'
        BY <1>1, <3>1, <3>5
      <4>2. /\ Len(sent'[1]) = frameCount + 1
            /\ sent'[1][frameCount + 1] = Datagram(left)
            /\ \A n \in 1..frameCount : sent'[1][n] = sent[1][n]
        BY <1>2, <2>3, <3>1, <3>5
      <4>3. /\ Datagram(left).frameCount = frameCount + 1
            /\ Datagram(left).eOFFlag <=> left = 0
            /\ Datagram(left).hasData <=> left > 0
        BY <3>1 DEF Datagram
      <4>4. /\ left = 0 <=> frameCount + 1 = file'[1] + 1
            /\ left > 0 <=> frameCount + 1 <= file'[1]
        BY <1>4, <3>1
      <4>5. ASSUME NEW n \in 1..Len(sent'[1])
            PROVE  /\ sent'[1][n].frameCount = n
                   /\ sent'[1][n].eOFFlag <=> n = file'[1] + 1
                   /\ sent'[1][n].hasData <=> n <= file'[1]
        <5>1. CASE n = frameCount + 1
          BY <4>2, <4>3, <4>4, <5>1
        <5>2. CASE n # frameCount + 1
          <6>1. n \in 1..frameCount
            BY <1>4, <4>2, <5>2
          <6> QED
            BY <3>1, <4>2, <6>1
        <5> QED
          BY <5>1, <5>2
      <4>6. Len(report') >= 1 => left = 0
        BY <3>3, <3>5
      <4>7. Len(report') = 0 => left > 0
        BY <3>3, <3>5
      <4>8. left > 0 => frameCount' + unread' = file'[1]
        BY <1>4, <1>6, <3>1
      <4>9. left = 0 => Len(sent'[1]) = file'[1] + 1
        BY <1>4, <3>1, <4>2
      <4>10. Len(sent'[1]) = frameCount'
        BY <1>6, <4>2
      <4>11. \A n \in 1..Len(sent'[1]) :
               /\ sent'[1][n].frameCount = n
               /\ sent'[1][n].eOFFlag <=> n = file'[1] + 1
               /\ sent'[1][n].hasData <=> n <= file'[1]
        BY <4>5
      <4> QED
        BY <4>1, <4>6, <4>7, <4>8, <4>9, <4>10, <4>11
    <3> QED
      BY <3>4, <3>5
  <2> QED
    BY <2>2, <2>3
<1>9. Call' # 0
  BY <1>3, <1>5
<1> QED
  BY <1>8, <1>9 DEF FirstCallOK

LEMMA FrameKeepsInv ==
  ASSUME ClientInv, Send \/ LoopAgain \/ TimerFires
  PROVE  ClientInv'
<1>1. PICK left \in Nat, ok \in BOOLEAN : FrameStep(left, ok)
  BY SendsOneFrame
<1> QED
  BY <1>1, FrameKeepsTypes, FrameKeepsFlags, FrameKeepsRate, FrameKeepsFirstCall
  DEF ClientInv

(* A refused call sends nothing and is over at once.                       *)
LEMMA RefusalKeepsInv ==
  ASSUME ClientInv, SendRefused
  PROVE  ClientInv'
<1>1. /\ ClientTypeOK /\ CallsOK /\ GoingOnOK /\ NeverAheadOfRate
      /\ FirstCallOK /\ OneFlaggedFrameEndsACall
  BY DEF ClientInv
<1>2. /\ ~inSend /\ Len(file) < MaxSends
      /\ inSend' = FALSE
      /\ timer' = timer /\ armed' = armed /\ stopped' = stopped /\ eOFFlag' = eOFFlag
  BY DEF SendRefused, Return, timing, headerBuffer, Call
<1>3. /\ file' = Append(file, 0) /\ started' = Append(started, Never)
      /\ report' = Append(report, "sendData failed")
  BY DEF SendRefused, Return
<1>4. /\ now' = now /\ expiry' = expiry /\ frameCount' = frameCount
      /\ unread' = unread
  BY DEF SendRefused, timing, headerBuffer
<1>5. sent' = sent /\ threw' = threw
  BY DEF SendRefused
<1>6. /\ file \in Seq(Nat) /\ started \in Seq(Int) /\ report \in Seq(Reports)
      /\ Len(file) \in Nat /\ Len(started) = Len(file) /\ MaxSends \in Nat
  BY <1>1, LenProperties, BoundsAssumption DEF ClientTypeOK
<1>7. /\ Len(report) = Len(file)
      /\ \A j \in 1..MaxSends : j > Len(file) => sent[j] = <<>>
      /\ threw \subseteq 1..Len(file)
  BY <1>1, <1>2 DEF CallsOK, Call
<1>8. /\ file' \in Seq(Nat) /\ Len(file') = Len(file) + 1
      /\ \A j \in 1..Len(file) : file'[j] = file[j]
  <2>1. file \in Seq(Nat) /\ 0 \in Nat
    BY <1>6
  <2>2. /\ Append(file, 0) \in Seq(Nat) /\ Len(Append(file, 0)) = Len(file) + 1
        /\ \A j \in 1..Len(file) : Append(file, 0)[j] = file[j]
    BY <2>1, AppendProperties
  <2> QED
    BY <1>3, <2>2
<1>9. /\ started' \in Seq(Int) /\ Len(started') = Len(file) + 1
      /\ started'[Len(file) + 1] = Never
      /\ \A j \in 1..Len(file) : started'[j] = started[j]
  <2>1. started \in Seq(Int) /\ Never \in Int
    BY <1>6 DEF Never
  <2>2. /\ Append(started, Never) \in Seq(Int)
        /\ Len(Append(started, Never)) = Len(started) + 1
        /\ Append(started, Never)[Len(started) + 1] = Never
        /\ \A j \in 1..Len(started) : Append(started, Never)[j] = started[j]
    BY <2>1, AppendProperties
  <2> QED
    BY <1>3, <1>6, <2>2
<1>10. report' \in Seq(Reports) /\ Len(report') = Len(file) + 1
  <2>1. report \in Seq(Reports) /\ "sendData failed" \in Reports
    BY <1>6 DEF Reports
  <2>2. /\ Append(report, "sendData failed") \in Seq(Reports)
        /\ Len(Append(report, "sendData failed")) = Len(report) + 1
    BY <2>1, AppendProperties
  <2> QED
    BY <1>3, <1>7, <2>2
<1>11. ClientTypeOK'
  <2>1. /\ now' \in Nat /\ expiry' \in Nat /\ frameCount' \in Nat /\ unread' \in Nat
        /\ sent' \in [1..MaxSends -> Seq(DatagramType)]
    BY <1>1, <1>4, <1>5 DEF ClientTypeOK
  <2>2. /\ armed' \in BOOLEAN /\ stopped' \in BOOLEAN
        /\ eOFFlag' \in BOOLEAN /\ inSend' \in BOOLEAN
    BY <1>1, <1>2 DEF ClientTypeOK
  <2>3. Len(file') <= MaxSends
    BY <1>2, <1>6, <1>8
  <2> QED
    BY <1>8, <1>9, <1>10, <2>1, <2>2, <2>3 DEF ClientTypeOK
<1>12. CallsOK'
  <2>1. \A j \in 1..MaxSends : j > Len(file) + 1 => sent'[j] = <<>>
    BY <1>5, <1>6, <1>7
  <2>2. threw' \subseteq 1..(Len(file) + 1)
    <3>1. 1..Len(file) \subseteq 1..(Len(file) + 1)
      BY <1>6
    <3> QED
      BY <1>5, <1>7, <3>1
  <2> QED
    BY <1>2, <1>8, <1>10, <2>1, <2>2 DEF CallsOK, Call
<1>13. GoingOnOK' /\ DeadlineOK'
  BY <1>1, <1>2 DEF GoingOnOK, DeadlineOK
<1>14. sent[Len(file) + 1] = <<>>
  <2>1. Len(file) + 1 \in 1..MaxSends /\ Len(file) + 1 > Len(file)
    BY <1>2, <1>6
  <2> QED
    BY <1>7, <2>1
<1>15. NeverAheadOfRate'
  <2> SUFFICES ASSUME timer = "deadline", NEW k \in 1..(Len(file) + 1),
                      NEW n \in 2..Len(sent[k])
               PROVE  sent[k][n].at >= started'[k] + n * Period
    BY <1>2, <1>5, <1>8 DEF NeverAheadOfRate, Call
  <2>1. k \in 1..Len(file)
    BY <1>6, <1>14
  <2> QED
    BY <1>1, <1>9, <2>1 DEF NeverAheadOfRate, Call
<1>16. OneFlaggedFrameEndsACall'
  <2> SUFFICES ASSUME NEW k \in 1..(Len(file) + 1), NEW n \in 1..Len(sent[k]),
                      sent[k][n].eOFFlag
               PROVE  n = Len(sent[k]) /\ Len(report') >= k
    BY <1>5, <1>8 DEF OneFlaggedFrameEndsACall, Call
  <2>1. k \in 1..Len(file)
    BY <1>6, <1>14
  <2>2. n = Len(sent[k])
    BY <1>1, <2>1 DEF OneFlaggedFrameEndsACall, Call
  <2> QED
    BY <1>6, <1>10, <2>1, <2>2
<1>17. FirstCallOK'
  <2>1. CASE Len(file) = 0
    BY <1>8, <1>9, <2>1 DEF FirstCallOK, Call
  <2>2. CASE Len(file) # 0
    <3>1. 1 \in 1..Len(file) /\ Len(report) >= 1
      BY <1>6, <1>7, <2>2
    <3>2. /\ started'[1] = started[1] /\ file'[1] = file[1]
          /\ Len(report') >= 1 /\ Len(report') # 0 /\ Len(file') # 0
      BY <1>6, <1>8, <1>9, <1>10, <3>1
    <3>3. started[1] # Never =>
            /\ \A n \in 1..Len(sent[1]) :
                 /\ sent[1][n].frameCount = n
                 /\ sent[1][n].eOFFlag <=> n = file[1] + 1
                 /\ sent[1][n].hasData <=> n <= file[1]
            /\ Len(sent[1]) = file[1] + 1 <=> 1 \notin threw
      BY <1>1, <1>6, <3>1 DEF FirstCallOK, Call
    <3> QED
      BY <1>5, <3>2, <3>3 DEF FirstCallOK, Call
  <2> QED
    BY <2>1, <2>2
<1> QED
  BY <1>11, <1>12, <1>13, <1>15, <1>16, <1>17 DEF ClientInv

(* The strengthening of the three safety properties: it is inductive.      *)
THEOREM ClientInvariant == ClientSpec => []ClientInv
<1>1. ClientInit => ClientInv
  <2> SUFFICES ASSUME ClientInit
               PROVE  ClientInv
    OBVIOUS
  <2>1. /\ now = 0 /\ expiry = 0 /\ armed = FALSE /\ stopped = FALSE
        /\ frameCount = 0 /\ eOFFlag = FALSE /\ file = <<>> /\ unread = 0
        /\ inSend = FALSE /\ started = <<>> /\ threw = {} /\ report = <<>>
        /\ sent = [k \in 1..MaxSends |-> <<>>]
    BY DEF ClientInit
  <2>2. Len(file) = 0 /\ Len(report) = 0 /\ Len(started) = 0 /\ MaxSends \in Nat
    BY <2>1, EmptySeq, BoundsAssumption
  <2>3. ClientTypeOK
    <3>1. sent \in [1..MaxSends -> Seq(DatagramType)]
      BY <2>1
    <3>2. /\ now \in Nat /\ expiry \in Nat /\ frameCount \in Nat /\ unread \in Nat
          /\ file \in Seq(Nat) /\ started \in Seq(Int) /\ report \in Seq(Reports)
          /\ Len(file) <= MaxSends /\ Len(started) = Len(file)
      BY <2>1, <2>2
    <3>3. /\ armed \in BOOLEAN /\ stopped \in BOOLEAN
          /\ eOFFlag \in BOOLEAN /\ inSend \in BOOLEAN
      BY <2>1
    <3> QED
      BY <3>1, <3>2, <3>3 DEF ClientTypeOK
  <2>4. CallsOK
    BY <2>1, <2>2 DEF CallsOK, Call
  <2>5. GoingOnOK /\ DeadlineOK
    BY <2>1 DEF GoingOnOK, DeadlineOK
  <2>6. NeverAheadOfRate /\ OneFlaggedFrameEndsACall
    BY <2>2 DEF NeverAheadOfRate, OneFlaggedFrameEndsACall, Call
  <2>7. FirstCallOK
    BY <2>1, <2>2 DEF FirstCallOK, Call
  <2> QED
    BY <2>3, <2>4, <2>5, <2>6, <2>7 DEF ClientInv
<1>2. ClientInv /\ [ClientNext]_clientVars => ClientInv'
  <2> SUFFICES ASSUME ClientInv, [ClientNext]_clientVars
               PROVE  ClientInv'
    OBVIOUS
  <2>1. CASE SendRefused
    BY <2>1, RefusalKeepsInv
  <2>2. CASE Send \/ LoopAgain \/ TimerFires
    BY <2>2, FrameKeepsInv
  <2>3. CASE TimePasses
    <3>1. /\ now' = now + 1
          /\ timer' = timer /\ expiry' = expiry /\ armed' = armed /\ stopped' = stopped
          /\ frameCount' = frameCount /\ eOFFlag' = eOFFlag /\ file' = file
          /\ unread' = unread /\ inSend' = inSend /\ started' = started
          /\ sent' = sent /\ threw' = threw /\ report' = report
      BY <2>3 DEF TimePasses, headerBuffer
    <3>2. ClientTypeOK'
      BY <3>1 DEF ClientInv, ClientTypeOK
    <3> QED
      BY <3>1, <3>2 DEF ClientInv, CallsOK, GoingOnOK, DeadlineOK, FirstCallOK,
                        NeverAheadOfRate, OneFlaggedFrameEndsACall, Call
  <2>4. CASE UNCHANGED clientVars
    BY <2>4 DEF clientVars, timing, headerBuffer, ClientInv, ClientTypeOK, CallsOK, GoingOnOK,
                DeadlineOK, FirstCallOK, NeverAheadOfRate,
                OneFlaggedFrameEndsACall, Call
  <2> QED
    BY <2>1, <2>2, <2>3, <2>4 DEF ClientNext
<1> QED
  BY <1>1, <1>2, PTL DEF ClientSpec

(* Timer::tick adds a period to the deadline, not to the clock: however    *)
(* late it is called, frame k of a call goes out k periods after the call  *)
(* or later, for every period and file.                                    *)
THEOREM RateNeverExceeded == ClientSpec => []NeverAheadOfRate
BY ClientInvariant, PTL DEF ClientInv

(* A client's first send delivers to the socket the chunks of the file     *)
(* from the first on, numbered from 1, and the flagged frame that ends it  *)
(* only after all of them, which is when nothing threw; whatever the timer *)
(* and wherever the exception.                                             *)
THEOREM FirstSendComplete == ClientSpec => []FirstSendIsWhole
<1>1. ClientInv => FirstSendIsWhole
  <2> SUFFICES ASSUME ClientInv, Len(report) >= 1, started[1] # Never
               PROVE  /\ Len(sent[1]) = file[1] + 1 <=> 1 \notin threw
                      /\ \A n \in 1..Len(sent[1]) :
                           /\ sent[1][n].frameCount = n
                           /\ sent[1][n].eOFFlag <=> n = file[1] + 1
                           /\ sent[1][n].hasData <=> n <= file[1]
    BY DEF FirstSendIsWhole
  <2>1. Call >= 1
    <3>1. /\ inSend => Call >= 1
          /\ ~inSend => Len(report) = Call
      BY DEF ClientInv, CallsOK
    <3> QED
      BY <3>1
  <2> QED
    BY <2>1 DEF ClientInv, FirstCallOK
<1> QED
  BY <1>1, ClientInvariant, PTL

(* The flag that stops the callback is never cleared: in every call, after *)
(* whatever calls came before, the first flagged frame is the last.        *)
THEOREM FlagEndsEveryCall == ClientSpec => []OneFlaggedFrameEndsACall
BY ClientInvariant, PTL DEF ClientInv
=============================================================================
