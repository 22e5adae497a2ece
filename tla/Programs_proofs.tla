--------------------------- MODULE Programs_proofs ---------------------------
(***************************************************************************)
(* What is proved of how the three programs read their command lines, and  *)
(* of their exit status: for every vocabulary of words and every line of   *)
(* them, any number of datagrams and signals and any faults.               *)
(***************************************************************************)
EXTENDS Programs, CommandMeaning, SequenceTheorems, WellFoundedInduction, TLAPS

Names(p) == p \in {"client", "server", "tester"}

Sendable ==
  MtuAllowed /\ (program # "server" => bound["filename"] # Text(""))

(* Past the construction of the server, or after a sendData that returned, *)
(* main has met everything that cannot work.                               *)
UsableInv ==
  /\ main = "constructed" /\ program = "server" => Sendable
  /\ main = "joining" => Sendable
  /\ main # "ended" => exit = "none"
  /\ exit = "0" => Sendable

(* run is left because it was stopped or because something was thrown, and *)
(* a process that ended with 0 has left it.                                *)
StoppedInv ==
  /\ main # "ended" => exit = "none"
  /\ thrown \in BOOLEAN
  /\ io = "done" => stopped \/ thrown
  /\ exit = "0" /\ program # "client" => /\ io = "done"
                                         /\ program = "server" => ~thrown
  /\ Names(program)
-----------------------------------------------------------------------------
(* A process is one program from its start to its end.                     *)
LEMMA ProgramStays ==
  ASSUME Next
  PROVE  program' = program
<1>1. CASE ParseArgs
  BY <1>1 DEF ParseArgs, ParseStep
<1>2. CASE MainStep /\ ~ParseArgs
  BY <1>2 DEF MainStep, parseVars
<1>3. CASE RunStep \/ RunFault
  BY <1>3 DEF RunStep, RunFault, RunStarts, HandleDatagram, RunReturns, HandleThrows,
              RunOutOfWork, parseVars
<1>4. CASE Interrupt
  BY <1>4 DEF Interrupt, parseVars
<1> QED
  BY <1>1, <1>2, <1>3, <1>4 DEF Next

LEMMA InitPrograms ==
  ASSUME Init
  PROVE  UsableInv /\ StoppedInv
<1>1. /\ main = "parsing" /\ io = "none" /\ thrown = FALSE /\ exit = "none"
  BY DEF Init
<1>2. Names(program)
  BY DEF Init, ParseInit, OptsOf, Names
<1> QED
  BY <1>1, <1>2 DEF UsableInv, StoppedInv

LEMMA StepUsable ==
  ASSUME UsableInv, Next
  PROVE  UsableInv'
<1>1. CASE ParseArgs
  <2>1. main = "parsing" /\ main' = main /\ exit' = exit
    BY <1>1 DEF ParseArgs, mainVars
  <2> QED
    BY <2>1 DEF UsableInv
<1>2. CASE MainStep /\ ~ParseArgs
  <2>1. UNCHANGED parseVars
    BY <1>2 DEF MainStep
  <2>2. Sendable' <=> Sendable
    BY <2>1 DEF Sendable, MtuAllowed, parseVars
  <2>3. program' = program
    BY <2>1 DEF parseVars
  <2>4. CASE LeaveParseArgs \/ ConstructFails
    BY <2>2, <2>3, <2>4 DEF LeaveParseArgs, ConstructFails, Exit, UsableInv
  <2>5. CASE InstallHandler \/ WaitLoop \/ SendFrame \/ SendFails
    BY <2>2, <2>3, <2>5 DEF InstallHandler, WaitLoop, SendFrame, SendFails, UsableInv
  <2>6. CASE ConstructServer
    BY <2>2, <2>3, <2>6 DEF ConstructServer, UsableInv, Sendable
  <2>7. CASE StartServing
    BY <2>2, <2>3, <2>7 DEF StartServing, UsableInv
  <2>8. CASE SendReturns
    BY <2>2, <2>3, <2>8 DEF SendReturns, Unusable, UsableInv, Sendable
  <2>9. CASE LeaveMain
    BY <2>2, <2>3, <2>9 DEF LeaveMain, Exit, UsableInv
  <2> QED
    BY <1>2, <2>4, <2>5, <2>6, <2>7, <2>8, <2>9 DEF MainStep
<1>3. CASE RunStep \/ RunFault
  <2>1. main' = main /\ exit' = exit /\ program' = program /\ bound' = bound
    BY <1>3 DEF RunStep, RunFault, RunStarts, HandleDatagram, RunReturns,
                HandleThrows, RunOutOfWork, parseVars
  <2>2. Sendable' <=> Sendable
    BY <2>1 DEF Sendable, MtuAllowed
  <2> QED
    BY <2>1, <2>2 DEF UsableInv
<1>4. CASE Interrupt
  <2>1. program' = program /\ bound' = bound
    BY <1>4 DEF Interrupt, parseVars
  <2>2. \/ main' = main /\ exit' = exit
        \/ main' = "ended" /\ exit' = "SIGINT"
    BY <1>4 DEF Interrupt, SignalHandler, Exit
  <2>3. Sendable' <=> Sendable
    BY <2>1 DEF Sendable, MtuAllowed
  <2>4. CASE main' = main /\ exit' = exit
    BY <2>1, <2>3, <2>4 DEF UsableInv
  <2>5. CASE main' = "ended" /\ exit' = "SIGINT"
    BY <2>5 DEF UsableInv
  <2> QED
    BY <2>2, <2>4, <2>5
<1> QED
  BY <1>1, <1>2, <1>3, <1>4 DEF Next

LEMMA StepStopped ==
  ASSUME StoppedInv, Next
  PROVE  StoppedInv'
<1>1. program' = program
  BY ProgramStays
<1>2. CASE ParseArgs
  BY <1>1, <1>2 DEF ParseArgs, mainVars, StoppedInv
<1>3. CASE MainStep /\ ~ParseArgs
  <2>1. CASE LeaveParseArgs \/ ConstructFails
    BY <1>1, <2>1 DEF LeaveParseArgs, ConstructFails, Exit, StoppedInv
  <2>2. CASE InstallHandler \/ ConstructServer \/ WaitLoop \/ SendFrame \/ SendReturns
    BY <1>1, <2>2 DEF InstallHandler, ConstructServer, WaitLoop, SendFrame,
                      SendReturns, StoppedInv
  <2>3. CASE StartServing
    BY <1>1, <2>3 DEF StartServing, StoppedInv
  <2>4. CASE SendFails
    BY <1>1, <2>4 DEF SendFails, StoppedInv
  <2>5. CASE LeaveMain
    <3>1. /\ main' = "ended" /\ io' = io /\ stopped' = stopped /\ thrown' = thrown
          /\ program # "client" => io = "done"
          /\ exit' = IF program = "server" /\ thrown THEN "terminate"
                     ELSE IF main = "failing" THEN "2" ELSE "0"
      BY <2>5 DEF LeaveMain, Exit
    <3>2. exit' = "0" => ~(program = "server" /\ thrown)
      BY <3>1
    <3> QED
      BY <1>1, <3>1, <3>2 DEF StoppedInv
  <2> QED
    BY <1>3, <2>1, <2>2, <2>3, <2>4, <2>5 DEF MainStep
<1>4. CASE RunStep \/ RunFault
  <2>1. main' = main /\ exit' = exit /\ exit = "none"
    BY <1>4 DEF RunStep, RunFault, RunStarts, HandleDatagram, RunReturns,
                HandleThrows, RunOutOfWork, Serves
  <2>2. thrown' \in BOOLEAN /\ (io' = "done" => stopped' \/ thrown')
    BY <1>4 DEF RunStep, RunFault, RunStarts, HandleDatagram, RunReturns,
                HandleThrows, RunOutOfWork, StoppedInv
  <2> QED
    BY <1>1, <2>1, <2>2 DEF StoppedInv
<1>5. CASE Interrupt
  <2>1. io' = io /\ thrown' = thrown /\ (stopped => stopped')
    BY <1>5 DEF Interrupt, SignalHandler
  <2>2. \/ main' = main /\ exit' = exit
        \/ main' = "ended" /\ exit' = "SIGINT"
    BY <1>5 DEF Interrupt, SignalHandler, Exit
  <2>3. CASE main' = main /\ exit' = exit
    BY <1>1, <2>1, <2>3 DEF StoppedInv
  <2>4. CASE main' = "ended" /\ exit' = "SIGINT"
    BY <1>1, <2>1, <2>4 DEF StoppedInv
  <2> QED
    BY <2>2, <2>3, <2>4
<1> QED
  BY <1>2, <1>3, <1>4, <1>5 DEF Next

(* parseArgs does not look at what is required, but no program that went   *)
(* on without it, or with an MTU that cannot work, ends with 0.            *)
THEOREM ZeroIsUsable == Spec => []ZeroMeansUsable
<1>1. UsableInv /\ [Next]_vars => UsableInv'
  <2>1. UsableInv /\ UNCHANGED vars => UsableInv'
    BY DEF vars, mainVars, parseVars, UsableInv, Sendable, MtuAllowed
  <2> QED
    BY <2>1, StepUsable
<1>2. UsableInv => ZeroMeansUsable
  BY DEF UsableInv, Sendable, ZeroMeansUsable
<1> QED
  BY <1>1, <1>2, InitPrograms, PTL DEF Spec

(* Whatever the order of signals, faults and the two threads' steps: a     *)
(* server or tester that ends with 0 has left its receive loop first.      *)
THEOREM ZeroIsStoppedServing == Spec => []ZeroMeansStoppedServing
<1>1. StoppedInv /\ [Next]_vars => StoppedInv'
  <2>1. StoppedInv /\ UNCHANGED vars => StoppedInv'
    BY DEF vars, mainVars, parseVars, StoppedInv
  <2> QED
    BY <2>1, StepStopped
<1>2. StoppedInv => ZeroMeansStoppedServing
  BY DEF StoppedInv, Names, ZeroMeansStoppedServing
<1> QED
  BY <1>1, <1>2, InitPrograms, PTL DEF Spec
-----------------------------------------------------------------------------
(***************************************************************************)
(* The command line.  The invariant says where on the line the token       *)
(* stream is, and that what is read so far is read as the line says.       *)
(***************************************************************************)

(* Every option there is, with one way to ask for the server's port.       *)
AllOpts(sp) ==
  {Help, FilenameOpt, AddressOpt, ClientPortOpt, MtuOpt, RateOpt, LogOpt, QueueOpt,
   DropOpt, ImportOpt, sp}

(* The option of an id, and the id of the option of a name.                *)
ById(sp, id) ==
  CASE id = "help" -> Help [] id = "filename" -> FilenameOpt
    [] id = "address" -> AddressOpt [] id = "clientPort" -> ClientPortOpt
    [] id = "mtu" -> MtuOpt [] id = "rate" -> RateOpt [] id = "log" -> LogOpt
    [] id = "queue" -> QueueOpt [] id = "drop" -> DropOpt
    [] id = "import" -> ImportOpt [] id = "serverPort" -> sp

IdOfName(n) ==
  CASE n \in {"-?", "-h", "--help"} -> "help"
    [] n \in {"-f", "--filename"} -> "filename"
    [] n \in {"-a", "--address"} -> "address"
    [] n \in {"-c", "--clientPort"} -> "clientPort"
    [] n \in {"-m", "--mtu"} -> "mtu"
    [] n \in {"-r", "--datarate"} -> "rate"
    [] n \in {"-l", "--logLevel"} -> "log"
    [] n \in {"-q", "--queueLength"} -> "queue"
    [] n \in {"-d", "--dropPackets"} -> "drop"
    [] n \in {"-i", "--importDiode"} -> "import"
    [] n \in {"-s", "--serverPort"} -> "serverPort"

LEMMA OptionById ==
  ASSUME NEW sp, sp.id = "serverPort", NEW o \in AllOpts(sp)
  PROVE  o = ById(sp, o.id)
<1>1. /\ Help.id = "help" /\ FilenameOpt.id = "filename"
      /\ AddressOpt.id = "address" /\ ClientPortOpt.id = "clientPort"
      /\ MtuOpt.id = "mtu" /\ RateOpt.id = "rate" /\ LogOpt.id = "log"
      /\ QueueOpt.id = "queue" /\ DropOpt.id = "drop" /\ ImportOpt.id = "import"
  BY DEF Help, FilenameOpt, AddressOpt, ClientPortOpt, MtuOpt, RateOpt, LogOpt,
         QueueOpt, DropOpt, ImportOpt, Opt
<1> QED
  BY <1>1 DEF AllOpts, ById

LEMMA OptionByName ==
  ASSUME NEW sp, sp.id = "serverPort", sp.names = {"-s", "--serverPort"},
         NEW o \in AllOpts(sp), NEW n \in o.names
  PROVE  o.id = IdOfName(n)
<1>1. CASE o = Help
  BY <1>1 DEF Help, Opt, IdOfName
<1>2. CASE o = FilenameOpt
  BY <1>2 DEF FilenameOpt, Opt, IdOfName
<1>3. CASE o = AddressOpt
  BY <1>3 DEF AddressOpt, Opt, IdOfName
<1>4. CASE o = ClientPortOpt
  BY <1>4 DEF ClientPortOpt, Opt, IdOfName
<1>5. CASE o = MtuOpt
  BY <1>5 DEF MtuOpt, Opt, IdOfName
<1>6. CASE o = RateOpt
  BY <1>6 DEF RateOpt, Opt, IdOfName
<1>7. CASE o = LogOpt
  BY <1>7 DEF LogOpt, Opt, IdOfName
<1>8. CASE o = QueueOpt
  BY <1>8 DEF QueueOpt, Opt, IdOfName
<1>9. CASE o = DropOpt
  BY <1>9 DEF DropOpt, Opt, IdOfName
<1>10. CASE o = ImportOpt
  BY <1>10 DEF ImportOpt, Opt, IdOfName
<1>11. CASE o = sp
  BY <1>11 DEF IdOfName
<1> QED
  BY <1>1, <1>2, <1>3, <1>4, <1>5, <1>6, <1>7, <1>8, <1>9, <1>10, <1>11 DEF AllOpts

(* No two options of a program share a name or an id.                      *)
LEMMA OptionsApart ==
  ASSUME program \in {"client", "server", "tester"}
  PROVE  /\ Help \in Opts
         /\ \A o, r \in Opts : o.id = r.id => o = r
         /\ \A o, r \in Opts : \A n : n \in o.names /\ n \in r.names => o = r
         /\ \A o \in Opts : o.kind \in {"help", "flag", "text", "uint16", "double"}
         /\ \A o \in Opts : o.kind = "help" => o = Help
         /\ Help.kind = "help"
<1>0. /\ program = "client" => Opts = ClientOpts
      /\ program = "server" => Opts = ServerOpts
      /\ program = "tester" => Opts = TesterOpts
  BY DEF Opts, OptsOf
<1> DEFINE early == ServerPortOpt(FALSE, Number(45000))
           late == ServerPortOpt(TRUE, Uninitialised)
           sp == IF program = "tester" THEN late ELSE early
<1>1. /\ early.id = "serverPort" /\ early.names = {"-s", "--serverPort"}
      /\ early.kind = "uint16"
      /\ late.id = "serverPort" /\ late.names = {"-s", "--serverPort"}
      /\ late.kind = "uint16"
  BY DEF ServerPortOpt, Opt
<1>2. Opts \subseteq AllOpts(sp)
  <2>1. ClientOpts \subseteq AllOpts(early)
    BY DEF ClientOpts, AllOpts
  <2>2. ServerOpts \subseteq AllOpts(early)
    BY DEF ServerOpts, AllOpts
  <2>3. TesterOpts \subseteq AllOpts(late)
    BY DEF TesterOpts, AllOpts
  <2> HIDE DEF early, late, sp
  <2>4. CASE program = "client"
    BY <1>0, <2>1, <2>4 DEF sp
  <2>5. CASE program = "server"
    BY <1>0, <2>2, <2>5 DEF sp
  <2>6. CASE program = "tester"
    BY <1>0, <2>3, <2>6 DEF sp
  <2> QED
    BY <2>4, <2>5, <2>6
<1> HIDE DEF early, late
<1>3. sp.id = "serverPort" /\ sp.names = {"-s", "--serverPort"} /\ sp.kind = "uint16"
  BY <1>1
<1> HIDE DEF sp
<1>4. \A o, r \in Opts : o.id = r.id => o = r
  BY <1>2, <1>3, OptionById
<1>5. \A o, r \in Opts : \A n : n \in o.names /\ n \in r.names => o = r
  <2> SUFFICES ASSUME NEW o \in Opts, NEW r \in Opts, NEW n,
                      n \in o.names, n \in r.names
               PROVE  o = r
    OBVIOUS
  <2>1. o.id = IdOfName(n) /\ r.id = IdOfName(n)
    BY <1>2, <1>3, OptionByName
  <2> QED
    BY <1>4, <2>1
<1>6. Help \in Opts
  <2>1. Help \in ClientOpts /\ Help \in ServerOpts /\ Help \in TesterOpts
    BY DEF ClientOpts, ServerOpts, TesterOpts
  <2> QED
    BY <1>0, <2>1
<1>7. /\ Help.kind = "help" /\ FilenameOpt.kind = "text"
      /\ AddressOpt.kind = "text" /\ ClientPortOpt.kind = "uint16"
      /\ MtuOpt.kind = "uint16" /\ RateOpt.kind = "double" /\ LogOpt.kind = "text"
      /\ QueueOpt.kind = "uint16" /\ DropOpt.kind = "flag" /\ ImportOpt.kind = "flag"
  BY DEF Help, FilenameOpt, AddressOpt, ClientPortOpt, MtuOpt, RateOpt, LogOpt,
         QueueOpt, DropOpt, ImportOpt, Opt
<1>8. \A o \in AllOpts(sp) : /\ o.kind \in {"help", "flag", "text", "uint16", "double"}
                             /\ o.kind = "help" => o = Help
  BY <1>3, <1>7 DEF AllOpts
<1> QED
  BY <1>2, <1>4, <1>5, <1>6, <1>7, <1>8

(* The stream is at place p; the stream is at the end.                     *)
StreamAt(ts, p) ==
  LET w == WordTokens(line[p[1]])
  IN  ts = [it |-> SubSeq(line, p[1], Len(line)), buffer |-> SubSeq(w, p[2], Len(w))]
StreamAtEnd(ts) == ts = [it |-> <<>>, buffer |-> <<>>]

PlacesBefore(p) == {q \in Places : Before(q, p)}

(* The variable of option o holds what the option at p says.               *)
Holds(bs, o, p) ==
  IF o.kind = "flag"
  THEN bs[o.id] = Flag(TRUE)
  ELSE \E q \in Places : /\ Follows(p, q)
                         /\ bs[o.id] = Converted(o.kind, TokenAt(q).value)

(* What the loop has read, with the options it has used and what is bound. *)
ReadSoFar(seen, us, bs) ==
  /\ \A q \in seen : ~Misplaced(q) /\ Help \notin OptsAt(q)
  /\ \A q \in seen : TakesValue(q) => \A r \in Places : Follows(q, r) => r \in seen
  /\ \A o \in Opts : o.id \in us <=> Given(o) \cap seen # {}
  /\ \A o \in Opts : \A p \in Given(o) \cap seen : Holds(bs, o, p)
  /\ \A o \in Opts : Given(o) \cap seen = {} => o.initial \in {bs[o.id], Uninitialised}

(* The loop can go on from place p, or has read the whole line.            *)
Going(ts, us, bs) ==
  \/ StreamAtEnd(ts) /\ ReadSoFar(Places, us, bs)
  \/ \E p \in Places : StreamAt(ts, p) /\ ReadSoFar(PlacesBefore(p), us, bs)

(* Where the loop has failed, and where it was asked for help.             *)
FailsAt(p) == Misplaced(p) /\ \A q \in PlacesBefore(p) : Help \notin OptsAt(q)
HelpsAt(p) ==
  /\ Help \in OptsAt(p) /\ ~Misplaced(p)
  /\ \A q \in PlacesBefore(p) : ~Misplaced(q)

ParseState(ts, us, bs, how) ==
  /\ DOMAIN bs = {o.id : o \in Opts}
  /\ how \in {"parsing", "params", "error", "help"}
  /\ how = "parsing" => Going(ts, us, bs)
  /\ how = "params" => ReadSoFar(Places, us, bs)
  /\ how = "error" => \E p \in Places : FailsAt(p)
  /\ how = "help" => \E p \in Places : HelpsAt(p)

LineOK == program \in {"client", "server", "tester"} /\ line \in Seq(Word)

(* The strengthening of ParsedAsWritten and NumbersFit: it is inductive.   *)
ParseInv == LineOK /\ ParseState(tokens, used, bound, outcome)

(* A nonempty set of numbers has a smallest.                               *)
LEMMA SmallestNumber ==
  ASSUME NEW I \in SUBSET Nat, I # {}
  PROVE  Min(I) \in I /\ \A y \in I : Min(I) <= y
<1> DEFINE Less == OpToRel(<, Nat)
<1>1. \A m, n \in Nat : m < n => <<m, n>> \in Less
  BY DEF OpToRel
<1>2. IsWellFoundedOn(Less, Nat)
  BY NatLessThanWellFounded
<1> HIDE DEF Less
<1>3. PICK x \in I : \A y \in I : ~(<<y, x>> \in Less)
  BY <1>2, WFMin
<1>4. \A y \in I : x <= y
  <2> SUFFICES ASSUME NEW y \in I PROVE x <= y
    OBVIOUS
  <2>1. x \in Nat /\ y \in Nat /\ ~(y < x)
    BY <1>1, <1>3
  <2> QED
    BY <2>1
<1> QED
  BY <1>4 DEF Min

ReadableToken(t) ==
  /\ t.type \in {"Argument", "Option"}
  /\ t.type = "Argument" => /\ t.value.num \subseteq Int
                            /\ \A m, n \in t.value.num : m = n

Readable(ts) ==
  /\ \E S : ts \in Seq(S)
  /\ Len(ts) >= 1
  /\ \A j \in 1..Len(ts) : ReadableToken(ts[j])

(* A word that is not empty has one token at least.                        *)
LEMMA WordFacts ==
  ASSUME NEW w \in Word
  PROVE  /\ w = Empty => WordTokens(w) = <<>>
         /\ w # Empty => WordTokens(w) = TokensOf(w) /\ Readable(TokensOf(w))
<1>1. /\ w.form \in {"empty", "argument", "option", "joined", "bundle"}
      /\ w.form = "empty" => w = Empty
      /\ w.form = "bundle" => w.names \in Seq(STRING) /\ Len(w.names) >= 2
      /\ w.form \in {"argument", "joined"} =>
           w.value.num \subseteq Int /\ \A m, n \in w.value.num : m = n
  BY WordAssumption DEF Empty
<1>2. CASE w = Empty
  BY <1>2 DEF WordTokens
<1>3. ASSUME w # Empty PROVE WordTokens(w) = TokensOf(w)
  BY <1>3 DEF WordTokens
<1>4. CASE w.form = "argument"
  <2> DEFINE t == [type |-> "Argument", value |-> w.value]
  <2>1. TokensOf(w) = <<t>>
    BY <1>4 DEF TokensOf
  <2>2. ReadableToken(t)
    BY <1>1, <1>4 DEF ReadableToken
  <2> HIDE DEF t
  <2> DEFINE ts == <<t>>
  <2>3. ts \in Seq({t}) /\ Len(ts) = 1 /\ ts[1] = t
    OBVIOUS
  <2> HIDE DEF ts
  <2>4. Readable(ts)
    BY <2>2, <2>3 DEF Readable
  <2> QED
    BY <1>2, <1>3, <2>1, <2>4 DEF ts
<1>5. CASE w.form = "option"
  <2> DEFINE t == [type |-> "Option", name |-> w.name]
  <2>1. TokensOf(w) = <<t>>
    BY <1>5 DEF TokensOf
  <2>2. ReadableToken(t)
    BY DEF ReadableToken
  <2> HIDE DEF t
  <2> DEFINE ts == <<t>>
  <2>3. ts \in Seq({t}) /\ Len(ts) = 1 /\ ts[1] = t
    OBVIOUS
  <2> HIDE DEF ts
  <2>4. Readable(ts)
    BY <2>2, <2>3 DEF Readable
  <2> QED
    BY <1>2, <1>3, <2>1, <2>4 DEF ts
<1>6. CASE w.form = "joined"
  <2> DEFINE t == [type |-> "Option", name |-> w.name]
             u == [type |-> "Argument", value |-> w.value]
  <2>1. TokensOf(w) = <<t, u>>
    BY <1>6 DEF TokensOf
  <2>2. ReadableToken(t) /\ ReadableToken(u)
    BY <1>1, <1>6 DEF ReadableToken
  <2> HIDE DEF t, u
  <2> DEFINE ts == <<t, u>>
  <2>3. ts \in Seq({t, u}) /\ Len(ts) = 2 /\ ts[1] = t /\ ts[2] = u
    OBVIOUS
  <2> HIDE DEF ts
  <2>4. Readable(ts)
    BY <2>2, <2>3 DEF Readable
  <2> QED
    BY <1>2, <1>3, <2>1, <2>4 DEF ts
<1>7. CASE w.form = "bundle"
  <2> DEFINE t(i) == [type |-> "Option", name |-> w.names[i]]
             ts == [i \in DOMAIN w.names |-> t(i)]
             S == {t(i) : i \in DOMAIN w.names}
             L == Len(w.names)
  <2>1. TokensOf(w) = ts
    BY <1>7 DEF TokensOf
  <2>2. DOMAIN w.names = 1..L /\ L \in Nat /\ L >= 2
    BY <1>1, <1>7, LenProperties
  <2>3. \A i \in 1..L : ReadableToken(t(i)) /\ t(i) \in S
    BY <2>2 DEF ReadableToken
  <2> HIDE DEF t, S
  <2>4. ts = [i \in 1..L |-> t(i)]
    BY <2>2
  <2> HIDE DEF ts
  <2>5. ts \in Seq(S) /\ Len(ts) = L /\ \A i \in 1..L : ts[i] = t(i)
    BY <2>2, <2>3, <2>4
  <2>6. Readable(ts)
    BY <2>2, <2>3, <2>5 DEF Readable
  <2> QED
    BY <1>2, <1>3, <2>1, <2>6
<1> QED
  BY <1>1, <1>2, <1>4, <1>5, <1>6, <1>7

LEMMA PlaceFacts ==
  ASSUME line \in Seq(Word)
  PROVE  /\ \A p \in Places :
              /\ p = <<p[1], p[2]>> /\ p[1] \in 1..Len(line)
              /\ line[p[1]] \in Word /\ line[p[1]] # Empty
              /\ p[2] \in 1..Len(WordTokens(line[p[1]]))
              /\ Readable(WordTokens(line[p[1]]))
         /\ \A i \in 1..Len(line) : line[i] # Empty =>
              \A j \in 1..Len(WordTokens(line[i])) : <<i, j>> \in Places
<1>1. DOMAIN line = 1..Len(line) /\ \A i \in 1..Len(line) : line[i] \in Word
  BY LenProperties, ElementOfSeq
<1>2. ASSUME NEW i \in 1..Len(line)
      PROVE  /\ line[i] = Empty => DOMAIN WordTokens(line[i]) = {}
             /\ line[i] # Empty =>
                  /\ DOMAIN WordTokens(line[i]) = 1..Len(WordTokens(line[i]))
                  /\ Readable(WordTokens(line[i]))
  <2>1. CASE line[i] = Empty
    BY <1>1, <2>1, WordFacts
  <2>2. CASE line[i] # Empty
    <3>1. Readable(WordTokens(line[i]))
      BY <1>1, <2>2, WordFacts
    <3>2. PICK S : WordTokens(line[i]) \in Seq(S)
      BY <3>1 DEF Readable
    <3>3. DOMAIN WordTokens(line[i]) = 1..Len(WordTokens(line[i]))
      BY <3>2, LenProperties
    <3> QED
      BY <2>2, <3>1, <3>3
  <2> QED
    BY <2>1, <2>2
<1>3. ASSUME NEW p \in Places
      PROVE  /\ p = <<p[1], p[2]>> /\ p[1] \in 1..Len(line)
             /\ line[p[1]] \in Word /\ line[p[1]] # Empty
             /\ p[2] \in 1..Len(WordTokens(line[p[1]]))
             /\ Readable(WordTokens(line[p[1]]))
  <2>1. PICK i \in 1..Len(line) : \E j \in DOMAIN WordTokens(line[i]) : p = <<i, j>>
    BY <1>1 DEF Places, PlacesOf
  <2>2. PICK j \in DOMAIN WordTokens(line[i]) : p = <<i, j>>
    BY <2>1
  <2>3. line[i] # Empty
    BY <1>2, <2>2
  <2> QED
    BY <1>1, <1>2, <2>2, <2>3
<1>4. ASSUME NEW i \in 1..Len(line), line[i] # Empty,
             NEW j \in 1..Len(WordTokens(line[i]))
      PROVE  <<i, j>> \in Places
  BY <1>1, <1>2, <1>4 DEF Places, PlacesOf
<1> QED
  BY <1>3, <1>4

(* Places are in one order.                                                *)
LEMMA PlaceOrder ==
  ASSUME line \in Seq(Word)
  PROVE  /\ \A p, q \in Places : Before(p, q) \/ p = q \/ Before(q, p)
         /\ \A p, q \in Places : Before(p, q) => p # q /\ ~Before(q, p)
         /\ \A p, q, r \in Places : Before(p, q) /\ Before(q, r) => Before(p, r)
<1>1. \A p \in Places : p = <<p[1], p[2]>> /\ p[1] \in Int /\ p[2] \in Int
  <2> SUFFICES ASSUME NEW p \in Places
               PROVE  p = <<p[1], p[2]>> /\ p[1] \in Int /\ p[2] \in Int
    OBVIOUS
  <2>1. /\ p = <<p[1], p[2]>> /\ p[1] \in 1..Len(line)
        /\ p[2] \in 1..Len(WordTokens(line[p[1]]))
    BY PlaceFacts
  <2> QED
    BY <2>1
<1>2. ASSUME NEW p \in Places, NEW q \in Places
      PROVE  Before(p, q) \/ p = q \/ Before(q, p)
  <2>1. p = <<p[1], p[2]>> /\ q = <<q[1], q[2]>>
    BY <1>1
  <2>2. p[1] \in Int /\ p[2] \in Int /\ q[1] \in Int /\ q[2] \in Int
    BY <1>1
  <2>3. p[1] = q[1] /\ p[2] = q[2] => p = q
    BY <2>1
  <2>4. \/ p[1] < q[1] \/ q[1] < p[1]
        \/ p[1] = q[1] /\ (p[2] < q[2] \/ q[2] < p[2] \/ p[2] = q[2])
    BY <2>2
  <2> QED
    BY <2>3, <2>4 DEF Before
<1>3. ASSUME NEW p \in Places, NEW q \in Places, Before(p, q)
      PROVE  p # q /\ ~Before(q, p)
  BY <1>1, <1>3 DEF Before
<1>4. ASSUME NEW p \in Places, NEW q \in Places, NEW r \in Places,
             Before(p, q), Before(q, r)
      PROVE  Before(p, r)
  BY <1>1, <1>4 DEF Before
<1> QED
  BY <1>2, <1>3, <1>4

(* What comes right after a place, or right before it, is one.             *)
LEMMA FollowFacts ==
  ASSUME line \in Seq(Word), NEW p \in Places
  PROVE  /\ \A q \in Places : Follows(p, q) => PlacesBefore(q) = PlacesBefore(p) \cup {p}
         /\ \A q, r \in Places : Follows(p, q) /\ Follows(p, r) => q = r
         /\ \A q, r \in Places : Follows(q, p) /\ Follows(r, p) => q = r
         /\ (\A q \in Places : ~Before(p, q)) => Places = PlacesBefore(p) \cup {p}
<1>1. ASSUME NEW q \in Places, Follows(p, q)
      PROVE  PlacesBefore(q) = PlacesBefore(p) \cup {p}
  BY <1>1, PlaceOrder DEF Follows, PlacesBefore
<1>2. ASSUME NEW q \in Places, NEW r \in Places, Follows(p, q), Follows(p, r)
      PROVE  q = r
  BY <1>2, PlaceOrder DEF Follows
<1>3. ASSUME NEW q \in Places, NEW r \in Places, Follows(q, p), Follows(r, p)
      PROVE  q = r
  BY <1>3, PlaceOrder DEF Follows
<1>4. ASSUME \A q \in Places : ~Before(p, q)
      PROVE  Places = PlacesBefore(p) \cup {p}
  BY <1>4, PlaceOrder DEF PlacesBefore
<1> QED
  BY <1>1, <1>2, <1>3, <1>4

(* loadBuffer goes to the first token of the next word that is not empty.  *)
LEMMA LoadFacts ==
  ASSUME line \in Seq(Word), NEW k \in 1..(Len(line) + 1)
  PROVE  LET ts == LoadBuffer(SubSeq(line, k, Len(line)))
         IN  \/ /\ StreamAtEnd(ts)
                /\ \A i \in k..Len(line) : line[i] = Empty
             \/ \E i \in k..Len(line) :
                  /\ StreamAt(ts, <<i, 1>>)
                  /\ line[i] # Empty
                  /\ \A h \in k..(i - 1) : line[h] = Empty
<1> DEFINE ws == SubSeq(line, k, Len(line))
           I == {x \in 1..Len(ws) : ws[x] # Empty}
           ts == LoadBuffer(ws)
<1>1. Len(line) \in Nat /\ \A i \in 1..Len(line) : line[i] \in Word
  BY LenProperties, ElementOfSeq
<1>2. /\ ws \in Seq(Word)
      /\ Len(ws) = Len(line) - k + 1
      /\ \A x \in 1..Len(ws) : ws[x] = line[k + x - 1]
  <2>1. \A i \in k..Len(line) : line[i] \in Word
    BY <1>1
  <2>2. /\ ws \in Seq(Word)
        /\ Len(ws) = IF k <= Len(line) THEN Len(line) - k + 1 ELSE 0
        /\ \A x \in 1..(Len(line) - k + 1) : ws[x] = line[k + x - 1]
    BY <1>1, <2>1, SubSeqProperties
  <2> QED
    BY <1>1, <2>2
<1>3. SelectInSeq(ws, LAMBDA w : w # Empty) = IF I # {} THEN Min(I) ELSE 0
  BY DEF SelectInSeq
<1>4. I \in SUBSET Nat /\ 0 \notin I
  BY <1>1, <1>2
<1> HIDE DEF ws
<1>5. CASE I = {}
  <2>1. StreamAtEnd(ts)
    BY <1>3, <1>5 DEF LoadBuffer, StreamAtEnd
  <2>2. ASSUME NEW i \in k..Len(line) PROVE line[i] = Empty
    <3>1. i - k + 1 \in 1..Len(ws) /\ k + (i - k + 1) - 1 = i
      BY <1>1, <1>2
    <3>2. ws[i - k + 1] = line[i]
      BY <1>2, <3>1
    <3> QED
      BY <1>5, <3>1, <3>2
  <2> QED
    BY <2>1, <2>2 DEF ws
<1>6. CASE I # {}
  <2> DEFINE m == Min(I)
             i == k + m - 1
             w == WordTokens(line[i])
  <2>1. m \in I /\ \A y \in I : m <= y
    BY <1>4, <1>6, SmallestNumber
  <2>2. ts = [it |-> SubSeq(ws, m, Len(ws)), buffer |-> TokensOf(ws[m])]
    <3>1. m # 0
      BY <1>4, <2>1
    <3>2. SelectInSeq(ws, LAMBDA v : v # Empty) = m
      BY <1>3, <1>6
    <3> HIDE DEF m, I
    <3> QED
      BY <3>1, <3>2 DEF LoadBuffer
  <2> HIDE DEF m
  <2>3. m \in 1..Len(ws) /\ ws[m] # Empty /\ ws[m] = line[i] /\ i \in k..Len(line)
    BY <1>1, <1>2, <2>1
  <2>4. SubSeq(ws, m, Len(ws)) = SubSeq(line, i, Len(line))
    <3>1. k \in 1..Len(line) /\ Len(line) \in 1..Len(line)
      BY <1>1, <2>3
    <3>2. m \in 1..(Len(line) - k + 1) /\ Len(ws) \in 1..(Len(line) - k + 1)
      BY <1>2, <2>3
    <3>3. SubSeq(SubSeq(line, k, Len(line)), m, Len(ws))
            = SubSeq(line, k + m - 1, k + Len(ws) - 1)
      BY <1>2, <3>1, <3>2, SubSeqOfSubSeq DEF ws
    <3>4. k + Len(ws) - 1 = Len(line)
      BY <1>1, <1>2
    <3> QED
      BY <3>3, <3>4 DEF ws
  <2>5. TokensOf(ws[m]) = w /\ Readable(w)
    BY <1>1, <2>3, WordFacts
  <2>6. SubSeq(w, 1, Len(w)) = w
    <3>1. PICK S : w \in Seq(S)
      BY <2>5 DEF Readable
    <3> QED
      BY <3>1, SubSeqFull
  <2>7. StreamAt(ts, <<i, 1>>)
    BY <2>2, <2>4, <2>5, <2>6 DEF StreamAt
  <2>8. ASSUME NEW h \in k..(i - 1) PROVE line[h] = Empty
    <3>1. h - k + 1 \in 1..Len(ws) /\ k + (h - k + 1) - 1 = h /\ h - k + 1 < m
      BY <1>1, <1>2, <2>3
    <3>2. ws[h - k + 1] = line[h]
      BY <1>2, <3>1
    <3> QED
      BY <2>1, <3>1, <3>2
  <2> QED
    BY <2>3, <2>7, <2>8 DEF ws
<1> QED
  BY <1>5, <1>6

(* Before its first token the stream is at the first place there is.       *)
LEMMA FirstFacts ==
  ASSUME line \in Seq(Word)
  PROVE  \/ StreamAtEnd(LoadBuffer(line)) /\ Places = {}
         \/ \E p \in Places : StreamAt(LoadBuffer(line), p) /\ PlacesBefore(p) = {}
<1>1. Len(line) \in Nat /\ line = SubSeq(line, 1, Len(line))
  BY LenProperties, SubSeqFull
<1>2. 1 \in 1..(Len(line) + 1)
  BY <1>1
<1>3. CASE /\ StreamAtEnd(LoadBuffer(line))
           /\ \A i \in 1..Len(line) : line[i] = Empty
  BY <1>3, PlaceFacts
<1>4. ASSUME NEW i \in 1..Len(line), StreamAt(LoadBuffer(line), <<i, 1>>),
             line[i] # Empty, \A h \in 1..(i - 1) : line[h] = Empty
      PROVE  \E p \in Places : StreamAt(LoadBuffer(line), p) /\ PlacesBefore(p) = {}
  <2> DEFINE p == <<i, 1>>
  <2>1. Len(WordTokens(line[i])) >= 1 /\ Len(WordTokens(line[i])) \in Nat
    <3>1. Readable(WordTokens(line[i]))
      BY <1>4, WordFacts, ElementOfSeq
    <3> QED
      BY <3>1, LenProperties DEF Readable
  <2>2. p \in Places
    BY <1>4, <2>1, PlaceFacts
  <2>3. ASSUME NEW q \in Places, Before(q, p) PROVE FALSE
    <3>1. q[1] \in 1..Len(line) /\ line[q[1]] # Empty /\ q[2] >= 1
          /\ q[2] \in Int
      <4>1. /\ q[1] \in 1..Len(line) /\ line[q[1]] # Empty
            /\ q[2] \in 1..Len(WordTokens(line[q[1]]))
        BY PlaceFacts
      <4> QED
        BY <4>1
    <3>2. q[1] \in 1..(i - 1)
      BY <2>3, <3>1 DEF Before
    <3> QED
      BY <1>4, <3>1, <3>2
  <2> QED
    BY <1>4, <2>2, <2>3 DEF PlacesBefore
<1> QED
  BY <1>1, <1>2, <1>3, <1>4, LoadFacts

(* operator++ goes from a token to the one right after it, in its word or  *)
(* at the start of a later one, or finds that there is none.               *)
LEMMA AdvanceFacts ==
  ASSUME line \in Seq(Word), NEW p \in Places, NEW ts, StreamAt(ts, p)
  PROVE  /\ Remaining(ts) /\ Head(ts.buffer) = TokenAt(p)
         /\ \/ StreamAtEnd(Advance(ts)) /\ \A q \in Places : ~Before(p, q)
            \/ \E q \in Places : Follows(p, q) /\ StreamAt(Advance(ts), q)
<1> DEFINE i == p[1]
           j == p[2]
           w == WordTokens(line[i])
           L == Len(w)
<1>1. /\ p = <<i, j>> /\ i \in 1..Len(line) /\ line[i] # Empty
      /\ j \in 1..L /\ Readable(w)
  BY PlaceFacts
<1>2. PICK S : w \in Seq(S)
  BY <1>1 DEF Readable
<1>3. L \in Nat /\ Len(line) \in Nat /\ i \in Nat /\ j \in Nat
  BY <1>1, <1>2, LenProperties
<1>4. /\ ts = [it |-> SubSeq(line, i, Len(line)), buffer |-> SubSeq(w, j, L)]
      /\ ts.it = SubSeq(line, i, Len(line)) /\ ts.buffer = SubSeq(w, j, L)
  BY DEF StreamAt
<1>5. TokenAt(p) = w[j]
  BY DEF TokenAt
<1>6. \A q \in Places : /\ q = <<q[1], q[2]>>
                        /\ q[1] \in Int /\ q[1] <= Len(line) /\ line[q[1]] # Empty
                        /\ q[2] \in Int /\ q[2] >= 1
                        /\ q[1] = i => q[2] <= L
  <2> SUFFICES ASSUME NEW q \in Places
               PROVE  /\ q = <<q[1], q[2]>>
                      /\ q[1] \in Int /\ q[1] <= Len(line) /\ line[q[1]] # Empty
                      /\ q[2] \in Int /\ q[2] >= 1
                      /\ q[1] = i => q[2] <= L
    OBVIOUS
  <2>1. /\ q = <<q[1], q[2]>> /\ q[1] \in 1..Len(line) /\ line[q[1]] # Empty
        /\ q[2] \in 1..Len(WordTokens(line[q[1]]))
    BY PlaceFacts
  <2>2. q[1] = i => q[2] \in 1..L
    BY <2>1
  <2> HIDE DEF L
  <2> QED
    BY <1>3, <2>1, <2>2
<1> HIDE DEF i, j, w, L
<1>7. /\ Head(SubSeq(w, j, L)) = w[j] /\ Tail(SubSeq(w, j, L)) = SubSeq(w, j + 1, L)
      /\ Len(SubSeq(w, j, L)) = L - j + 1
  <2>1. L \in j..L /\ j \in 1..Len(w) /\ L \in j..Len(w)
    BY <1>1, <1>3 DEF L
  <2>2. \A x \in j..L : w[x] \in S
    BY <1>1, <1>2, <1>3, ElementOfSeq DEF L
  <2>3. Len(SubSeq(w, j, L)) = IF j <= L THEN L - j + 1 ELSE 0
    BY <1>3, <2>2, SubSeqProperties
  <2> QED
    BY <1>1, <1>2, <1>3, <2>1, <2>3, HeadTailOfSubSeq
<1>8. Remaining(ts) /\ Head(ts.buffer) = TokenAt(p)
  <2>1. SubSeq(w, j, L) # <<>>
    <3> DEFINE rest == SubSeq(w, j, L)
    <3>1. Len(rest) # 0
      <4>1. j <= L
        BY <1>1, <1>3
      <4> QED
        BY <1>3, <1>7, <4>1
    <3> HIDE DEF rest
    <3>2. Len(<<>>) = 0
      OBVIOUS
    <3>3. rest # <<>>
      BY <3>1, <3>2, Zenon
    <3> QED
      BY <3>3 DEF rest
  <2> QED
    BY <1>4, <1>5, <1>7, <2>1 DEF Remaining
<1>9. CASE j < L
  <2> DEFINE q == <<i, j + 1>>
  <2>1. Len(ts.buffer) >= 2
    BY <1>3, <1>4, <1>7, <1>9
  <2>2. Advance(ts) = [it |-> SubSeq(line, i, Len(line)), buffer |-> SubSeq(w, j + 1, L)]
    BY <1>4, <1>7, <2>1 DEF Advance
  <2>3. q[1] = i /\ q[2] = j + 1
    OBVIOUS
  <2>4. StreamAt(Advance(ts), q)
    BY <2>2, <2>3 DEF StreamAt, w, L
  <2>5. q \in Places
    <3>1. j + 1 \in 1..Len(WordTokens(line[i]))
      BY <1>3, <1>9 DEF w, L
    <3> QED
      BY <1>1, <3>1, PlaceFacts
  <2>6. Before(p, q)
    BY <1>3, <2>3 DEF Before, i, j
  <2>7. ASSUME NEW r \in Places, Before(p, r), Before(r, q) PROVE FALSE
    <3>1. i < r[1] \/ (i = r[1] /\ j < r[2])
      BY <2>7 DEF Before, i, j
    <3>2. r[1] < i \/ (r[1] = i /\ r[2] < j + 1)
      BY <2>3, <2>7 DEF Before
    <3> QED
      BY <1>3, <1>6, <3>1, <3>2
  <2> QED
    BY <1>8, <2>4, <2>5, <2>6, <2>7 DEF Follows
<1>10. CASE j = L
  <2>1. Advance(ts) = LoadBuffer(SubSeq(line, i + 1, Len(line)))
    <3>1. Tail(ts.it) = SubSeq(line, i + 1, Len(line))
      BY <1>1, <1>3, <1>4, HeadTailOfSubSeq
    <3>2. ~(Len(ts.buffer) >= 2)
      BY <1>3, <1>4, <1>7, <1>10
    <3> QED
      BY <3>1, <3>2 DEF Advance
  <2>2. i + 1 \in 1..(Len(line) + 1)
    BY <1>1, <1>3
  <2>3. ASSUME NEW r \in Places, Before(p, r) PROVE i + 1 <= r[1]
    BY <1>3, <1>6, <1>10, <2>3 DEF Before, i, j
  <2>4. CASE /\ StreamAtEnd(Advance(ts))
             /\ \A x \in (i + 1)..Len(line) : line[x] = Empty
    <3>1. ASSUME NEW r \in Places, Before(p, r) PROVE FALSE
      <4>1. r[1] \in (i + 1)..Len(line)
        BY <1>3, <1>6, <2>3, <3>1
      <4> QED
        BY <1>6, <2>4, <4>1
    <3> QED
      BY <1>8, <2>4, <3>1
  <2>5. ASSUME NEW x \in (i + 1)..Len(line), StreamAt(Advance(ts), <<x, 1>>),
               line[x] # Empty, \A h \in (i + 1)..(x - 1) : line[h] = Empty
        PROVE  \E q \in Places : Follows(p, q) /\ StreamAt(Advance(ts), q)
    <3> DEFINE q == <<x, 1>>
    <3>1. q[1] = x /\ q[2] = 1 /\ x \in 1..Len(line)
      BY <1>3
    <3>2. q \in Places
      <4>1. Readable(WordTokens(line[x]))
        BY <2>5, <3>1, WordFacts, ElementOfSeq
      <4>2. 1 \in 1..Len(WordTokens(line[x]))
        BY <4>1, LenProperties DEF Readable
      <4> QED
        BY <2>5, <3>1, <4>2, PlaceFacts
    <3>3. Before(p, q)
      BY <1>3, <3>1 DEF Before, i, j
    <3>4. ASSUME NEW r \in Places, Before(p, r), Before(r, q) PROVE FALSE
      <4>1. i + 1 <= r[1]
        BY <2>3, <3>4
      <4>2. r[1] < x
        BY <1>3, <1>6, <3>1, <3>4 DEF Before
      <4>3. r[1] \in (i + 1)..(x - 1)
        BY <1>3, <1>6, <4>1, <4>2
      <4> QED
        BY <1>6, <2>5, <4>3
    <3> QED
      BY <2>5, <3>2, <3>3, <3>4 DEF Follows
  <2> QED
    BY <1>8, <2>1, <2>2, <2>4, <2>5, LoadFacts
<1> QED
  BY <1>1, <1>3, <1>9, <1>10

(* What is read off the line does not change while it is parsed.           *)
LEMMA LineStays ==
  ASSUME line' = line, program' = program, ParseState(tokens', used', bound', outcome'),
         LineOK
  PROVE  ParseInv'
<1>1. Opts' = Opts
  BY DEF Opts
<1>2. Places' = Places
  BY DEF Places
<1>3. \A p : TokenAt(p)' = TokenAt(p)
  BY DEF TokenAt
<1>4. \A p, q : Follows(p, q)' <=> Follows(p, q)
  BY <1>2 DEF Follows
<1>5. \A p : OptsAt(p)' = OptsAt(p)
  BY <1>1, <1>3 DEF OptsAt
<1>6. \A p : TakesValue(p)' <=> TakesValue(p)
  BY <1>5 DEF TakesValue
<1>7. \A p : HasValue(p)' <=> HasValue(p)
  BY <1>2, <1>3, <1>4, <1>5 DEF HasValue
<1>8. \A p : Misplaced(p)' <=> Misplaced(p)
  BY <1>2, <1>3, <1>4, <1>5, <1>6, <1>7 DEF Misplaced
<1>9. \A o : Given(o)' = Given(o)
  BY <1>2, <1>5 DEF Given
<1>10. \A p : PlacesBefore(p)' = PlacesBefore(p)
  BY <1>2 DEF PlacesBefore
<1>11. \A p : FailsAt(p)' <=> FailsAt(p)
  BY <1>5, <1>8, <1>10 DEF FailsAt
<1>12. \A p : HelpsAt(p)' <=> HelpsAt(p)
  BY <1>5, <1>8, <1>10 DEF HelpsAt
<1>13. \A ts, p : StreamAt(ts, p)' <=> StreamAt(ts, p)
  BY DEF StreamAt
<1>14. \A seen, us, bs : ReadSoFar(seen, us, bs)' <=> ReadSoFar(seen, us, bs)
  <2> SUFFICES ASSUME NEW seen, NEW us, NEW bs
               PROVE  ReadSoFar(seen, us, bs)' <=> ReadSoFar(seen, us, bs)
    OBVIOUS
  <2>1. (\A q \in seen : ~Misplaced(q) /\ Help \notin OptsAt(q))'
          <=> \A q \in seen : ~Misplaced(q) /\ Help \notin OptsAt(q)
    BY <1>5, <1>8 DEF Help
  <2>2. (\A q \in seen : TakesValue(q) =>
           \A r \in Places : Follows(q, r) => r \in seen)'
          <=> \A q \in seen : TakesValue(q) =>
                \A r \in Places : Follows(q, r) => r \in seen
    BY <1>2, <1>4, <1>6
  <2>3. (\A o \in Opts : o.id \in us <=> Given(o) \cap seen # {})'
          <=> \A o \in Opts : o.id \in us <=> Given(o) \cap seen # {}
    BY <1>1, <1>9
  <2>4. (\A o \in Opts : \A p \in Given(o) \cap seen : Holds(bs, o, p))'
          <=> \A o \in Opts : \A p \in Given(o) \cap seen : Holds(bs, o, p)
    <3>1. \A o, p : Holds(bs, o, p)' <=> Holds(bs, o, p)
      BY <1>2, <1>3, <1>4 DEF Holds
    <3> QED
      BY <1>1, <1>9, <3>1
  <2>5. (\A o \in Opts : Given(o) \cap seen = {} =>
            o.initial \in {bs[o.id], Uninitialised})'
          <=> \A o \in Opts : Given(o) \cap seen = {} =>
                 o.initial \in {bs[o.id], Uninitialised}
    BY <1>1, <1>9
  <2> QED
    BY <2>1, <2>2, <2>3, <2>4, <2>5 DEF ReadSoFar
<1>15. \A ts, us, bs : Going(ts, us, bs)' <=> Going(ts, us, bs)
  BY <1>2, <1>10, <1>13, <1>14 DEF Going, StreamAtEnd
<1>16. \A ts, us, bs, how : ParseState(ts, us, bs, how)' <=> ParseState(ts, us, bs, how)
  BY <1>1, <1>2, <1>11, <1>12, <1>14, <1>15 DEF ParseState
<1>17. LineOK'
  BY DEF LineOK
<1> QED
  BY <1>16, <1>17 DEF ParseInv

LEMMA TokenFacts ==
  ASSUME LineOK, NEW p \in Places
  PROVE  /\ TokenAt(p).type \in {"Argument", "Option"}
         /\ TokenAt(p).type = "Argument" =>
              /\ OptsAt(p) = {}
              /\ TokenAt(p).value.num \subseteq Int
              /\ \A m, n \in TokenAt(p).value.num : m = n
         /\ OptsAt(p) \subseteq Opts
         /\ \A o, r \in OptsAt(p) : o = r
<1>1. /\ p[2] \in 1..Len(WordTokens(line[p[1]]))
      /\ Readable(WordTokens(line[p[1]]))
  BY PlaceFacts DEF LineOK
<1>2. ReadableToken(TokenAt(p))
  BY <1>1 DEF Readable, TokenAt
<1>3. TokenAt(p).type = "Argument" => OptsAt(p) = {}
  BY DEF OptsAt
<1>4. OptsAt(p) \subseteq Opts /\ \A o, r \in OptsAt(p) : o = r
  BY OptionsApart DEF OptsAt, IsMatch, LineOK
<1> QED
  BY <1>2, <1>3, <1>4 DEF ReadableToken

(* The loop is at p, and what is left to it is what the line has from p.   *)
AtPlace(p) ==
  LineOK /\ p \in Places /\ StreamAt(tokens, p) /\ ReadSoFar(PlacesBefore(p), used, bound)

LEMMA TokenHere ==
  ASSUME NEW p, AtPlace(p)
  PROVE  Remaining(tokens) /\ Token = TokenAt(p)
BY AdvanceFacts DEF AtPlace, LineOK, Token

(* The parser the loop finds for the option at p: the only one there is,   *)
(* and nothing before p has used it.                                       *)
LEMMA ParserHere ==
  ASSUME NEW p, AtPlace(p), TokenAt(p).type = "Option", Matching(TokenAt(p).name) # {}
  PROVE  /\ Parser \in Opts /\ OptsAt(p) = {Parser} /\ Parser.id \notin used
         /\ Matching(TokenAt(p).name) = {Parser}
         /\ \A q \in PlacesBefore(p) : Parser \notin OptsAt(q)
         /\ Misplaced(p) <=> TakesValue(p) /\ ~HasValue(p)
<1>1. Token = TokenAt(p)
  BY TokenHere
<1>2. Parser = CHOOSE o \in Matching(TokenAt(p).name) : TRUE
  BY <1>1 DEF Parser
<1>3. Parser \in Matching(TokenAt(p).name)
  BY <1>2
<1>4. /\ Parser \in Opts /\ Parser.id \notin used
      /\ Parser \in OptsAt(p)
  BY <1>3 DEF Matching, OptsAt
<1>5. OptsAt(p) = {Parser}
  BY <1>4, TokenFacts DEF AtPlace
<1>6. Matching(TokenAt(p).name) \subseteq OptsAt(p)
  BY DEF Matching, OptsAt
<1>7. Given(Parser) \cap PlacesBefore(p) = {}
  BY <1>4 DEF AtPlace, ReadSoFar
<1>8. \A q \in PlacesBefore(p) : Parser \notin OptsAt(q)
  BY <1>7 DEF Given, PlacesBefore
<1>9. ~\E q \in Places : Before(q, p) /\ OptsAt(q) \cap OptsAt(p) # {}
  BY <1>5, <1>8 DEF PlacesBefore
<1>10. Misplaced(p) <=> TakesValue(p) /\ ~HasValue(p)
  BY <1>5, <1>9 DEF Misplaced
<1> QED
  BY <1>3, <1>4, <1>5, <1>6, <1>8, <1>10

(* When the loop goes on behind p it is at the place after p or has come   *)
(* to the end.                                                             *)
LEMMA GoesOn ==
  ASSUME LineOK, NEW p \in Places, NEW ts, StreamAt(ts, p), NEW us, NEW bs,
         ReadSoFar(PlacesBefore(p) \cup {p}, us, bs)
  PROVE  Going(Advance(ts), us, bs)
<1>1. CASE StreamAtEnd(Advance(ts)) /\ \A q \in Places : ~Before(p, q)
  BY <1>1, FollowFacts DEF Going, LineOK
<1>2. ASSUME NEW q \in Places, Follows(p, q), StreamAt(Advance(ts), q)
      PROVE  Going(Advance(ts), us, bs)
  <2>1. PlacesBefore(q) = PlacesBefore(p) \cup {p}
    BY <1>2, FollowFacts DEF LineOK
  <2> QED
    BY <1>2, <2>1 DEF Going
<1> QED
  BY <1>1, <1>2, AdvanceFacts DEF LineOK

(* The places in more are read at one go: p with the option, and its value.*)
LEMMA ReadsOn ==
  ASSUME NEW p, AtPlace(p), TokenAt(p).type = "Option",
         Matching(TokenAt(p).name) # {}, ~Misplaced(p), Parser # Help,
         NEW more \in SUBSET Places, p \in more,
         \A q \in more \ {p} : ~Misplaced(q) /\ OptsAt(q) = {},
         TakesValue(p) => \A r \in Places : Follows(p, r) => r \in more,
         NEW bs, DOMAIN bound = {o.id : o \in Opts},
         NEW v, bs = [bound EXCEPT ![Parser.id] = v], Holds(bs, Parser, p)
  PROVE  ReadSoFar(PlacesBefore(p) \cup more, used \cup {Parser.id}, bs)
<1> DEFINE before == PlacesBefore(p)
           seen == before \cup more
           us == used \cup {Parser.id}
<1>1. /\ Parser \in Opts /\ OptsAt(p) = {Parser} /\ p \in Places
      /\ \A q \in before : Parser \notin OptsAt(q)
  BY ParserHere DEF AtPlace
<1>2. ReadSoFar(before, used, bound) /\ LineOK
  BY DEF AtPlace
<1>3. before \subseteq Places
  BY DEF PlacesBefore
<1>4. \A o \in Opts : o # Parser => Given(o) \cap more = {} /\ o.id # Parser.id
  BY <1>1, <1>2, OptionsApart DEF Given, LineOK
<1>5. Given(Parser) \cap before = {} /\ p \in Given(Parser)
      /\ Given(Parser) \cap more = {p}
  BY <1>1 DEF Given
<1>6. /\ bs[Parser.id] = v
      /\ \A o \in Opts : o # Parser => bs[o.id] = bound[o.id]
  BY <1>1, <1>4
<1> HIDE DEF before
<1>7. \A q \in seen : ~Misplaced(q) /\ Help \notin OptsAt(q)
  BY <1>1, <1>2 DEF ReadSoFar
<1>8. \A q \in seen : TakesValue(q) => \A r \in Places : Follows(q, r) => r \in seen
  <2>1. \A q \in more \ {p} : ~TakesValue(q)
    BY DEF TakesValue
  <2> QED
    BY <1>2, <2>1 DEF ReadSoFar
<1>9. \A o \in Opts : o.id \in us <=> Given(o) \cap seen # {}
  <2> SUFFICES ASSUME NEW o \in Opts PROVE o.id \in us <=> Given(o) \cap seen # {}
    OBVIOUS
  <2>1. CASE o = Parser
    BY <1>5, <2>1
  <2>2. CASE o # Parser
    <3>1. Given(o) \cap seen = Given(o) \cap before
      BY <1>4, <2>2
    <3>2. o.id \in us <=> o.id \in used
      BY <1>4, <2>2
    <3>3. o.id \in used <=> Given(o) \cap before # {}
      BY <1>2 DEF ReadSoFar
    <3> QED
      BY <3>1, <3>2, <3>3
  <2> QED
    BY <2>1, <2>2
<1>10. ASSUME NEW o \in Opts, NEW q \in Given(o) \cap seen PROVE Holds(bs, o, q)
  <2>1. CASE o = Parser
    <3>1. q = p
      BY <1>5, <2>1
    <3> QED
      BY <2>1, <3>1
  <2>2. CASE o # Parser
    <3>1. q \in Given(o) \cap before
      BY <1>4, <2>2
    <3>2. Holds(bound, o, q)
      BY <1>2, <3>1 DEF ReadSoFar
    <3>3. bs[o.id] = bound[o.id]
      BY <1>6, <2>2
    <3> QED
      BY <3>2, <3>3 DEF Holds
  <2> QED
    BY <2>1, <2>2
<1>11. ASSUME NEW o \in Opts, Given(o) \cap seen = {}
       PROVE  o.initial \in {bs[o.id], Uninitialised}
  <2>1. o # Parser
    BY <1>5, <1>11
  <2>2. Given(o) \cap before = {}
    BY <1>11
  <2>3. o.initial \in {bound[o.id], Uninitialised}
    BY <1>2, <2>2 DEF ReadSoFar
  <2> QED
    BY <1>6, <2>1, <2>3
<1> HIDE DEF us, seen
<1>12. ReadSoFar(seen, us, bs)
  BY <1>7, <1>8, <1>9, <1>10, <1>11 DEF ReadSoFar
<1> QED
  BY <1>12 DEF seen, us, before

(* While it is parsing, a loop with something left is at a place.          *)
LEMMA AtSomePlace ==
  ASSUME ParseInv, outcome = "parsing"
  PROVE  /\ Remaining(tokens) => \E p : AtPlace(p)
         /\ ~Remaining(tokens) => ReadSoFar(Places, used, bound)
         /\ DOMAIN bound = {o.id : o \in Opts}
<1>1. LineOK /\ Going(tokens, used, bound) /\ DOMAIN bound = {o.id : o \in Opts}
  BY DEF ParseInv, ParseState
<1>2. CASE StreamAtEnd(tokens) /\ ReadSoFar(Places, used, bound)
  <2>1. ~Remaining(tokens)
    BY <1>2 DEF StreamAtEnd, Remaining
  <2> QED
    BY <1>1, <1>2, <2>1
<1>3. ASSUME NEW p \in Places, StreamAt(tokens, p),
             ReadSoFar(PlacesBefore(p), used, bound)
      PROVE  AtPlace(p) /\ Remaining(tokens)
  <2>1. AtPlace(p)
    BY <1>1, <1>3 DEF AtPlace
  <2> QED
    BY <2>1, TokenHere
<1> QED
  BY <1>1, <1>2, <1>3 DEF Going

(* The option the loop looks at, when it is of a kind a parser is for.     *)
LEMMA OptionHere ==
  ASSUME ParseInv, NEW kinds, OptionIs(kinds)
  PROVE  \E p : /\ AtPlace(p) /\ TokenAt(p).type = "Option"
                /\ Matching(TokenAt(p).name) # {} /\ Parser.kind \in kinds
<1>1. outcome = "parsing" /\ Remaining(tokens) /\ Token.type = "Option"
      /\ \E o \in Matching(Token.name) : o.kind \in kinds
  BY DEF OptionIs
<1>2. PICK p : AtPlace(p)
  BY <1>1, AtSomePlace
<1>3. Token = TokenAt(p)
  BY <1>2, TokenHere
<1>4. Matching(TokenAt(p).name) = {Parser}
  BY <1>1, <1>2, <1>3, ParserHere
<1> QED
  BY <1>1, <1>2, <1>3, <1>4

LEMMA HelpStep ==
  ASSUME ParseInv, ShowHelp
  PROVE  ParseState(tokens', used', bound', outcome')
<1>1. OptionIs({"help"}) /\ outcome = "parsing" /\ outcome' = "help"
      /\ bound' = bound
  BY DEF ShowHelp, Ends, OptionIs
<1>2. PICK p : /\ AtPlace(p) /\ TokenAt(p).type = "Option"
               /\ Matching(TokenAt(p).name) # {} /\ Parser.kind \in {"help"}
  BY <1>1, OptionHere
<1>3. /\ Parser \in Opts /\ OptsAt(p) = {Parser}
      /\ Misplaced(p) <=> TakesValue(p) /\ ~HasValue(p)
  BY <1>2, ParserHere
<1>4. Parser = Help
  BY <1>2, <1>3, OptionsApart DEF AtPlace, LineOK
<1>5. ~TakesValue(p)
  BY <1>2, <1>3 DEF TakesValue
<1>6. \A q \in PlacesBefore(p) : ~Misplaced(q)
  BY <1>2 DEF AtPlace, ReadSoFar
<1>7. HelpsAt(p) /\ p \in Places
  BY <1>2, <1>3, <1>4, <1>5, <1>6 DEF HelpsAt, AtPlace
<1>8. DOMAIN bound = {o.id : o \in Opts}
  BY <1>1, AtSomePlace
<1> QED
  BY <1>1, <1>7, <1>8 DEF ParseState

LEMMA FlagStep ==
  ASSUME ParseInv, SetFlag
  PROVE  ParseState(tokens', used', bound', outcome')
<1>1. /\ OptionIs({"flag"}) /\ outcome = "parsing" /\ outcome' = outcome
      /\ bound' = [bound EXCEPT ![Parser.id] = Flag(TRUE)]
      /\ used' = used \cup {Parser.id}
      /\ tokens' = Advance(tokens)
  BY DEF SetFlag, Takes, OptionIs
<1>2. PICK p : /\ AtPlace(p) /\ TokenAt(p).type = "Option"
               /\ Matching(TokenAt(p).name) # {} /\ Parser.kind \in {"flag"}
  BY <1>1, OptionHere
<1>3. /\ Parser \in Opts /\ OptsAt(p) = {Parser}
      /\ Misplaced(p) <=> TakesValue(p) /\ ~HasValue(p)
  BY <1>2, ParserHere
<1>4. ~TakesValue(p) /\ Parser # Help
  BY <1>2, <1>3, OptionsApart DEF TakesValue, AtPlace, LineOK
<1>5. DOMAIN bound = {o.id : o \in Opts}
  BY <1>1, AtSomePlace
<1>6. bound'[Parser.id] = Flag(TRUE) /\ DOMAIN bound' = DOMAIN bound
  BY <1>1, <1>3, <1>5
<1>7. Holds(bound', Parser, p)
  BY <1>2, <1>6 DEF Holds
<1>8. ReadSoFar(PlacesBefore(p) \cup {p}, used', bound')
  <2>1. {p} \in SUBSET Places
    BY <1>2 DEF AtPlace
  <2> QED
    BY <1>1, <1>2, <1>3, <1>4, <1>5, <1>7, <2>1, ReadsOn
<1>9. Going(tokens', used', bound')
  BY <1>1, <1>2, <1>8, GoesOn DEF AtPlace
<1> QED
  BY <1>1, <1>5, <1>6, <1>9 DEF ParseState

(* What comes after an option that takes a value.                          *)
LEMMA ValueHere ==
  ASSUME NEW p, AtPlace(p)
  PROVE  /\ ValueFollows => \E q \in Places :
              /\ Follows(p, q) /\ StreamAt(Advance(tokens), q)
              /\ TokenAt(q).type = "Argument"
              /\ Head(Advance(tokens).buffer) = TokenAt(q)
         /\ ~ValueFollows => ~HasValue(p)
<1> DEFINE next == Advance(tokens)
<1>1. LineOK /\ line \in Seq(Word) /\ p \in Places
  BY DEF AtPlace, LineOK
<1>2. CASE StreamAtEnd(next) /\ \A q \in Places : ~Before(p, q)
  <2>1. ~Remaining(next)
    BY <1>2 DEF StreamAtEnd, Remaining
  <2>2. ~ValueFollows
    BY <2>1 DEF ValueFollows
  <2>3. ~HasValue(p)
    BY <1>2 DEF HasValue, Follows
  <2> QED
    BY <2>2, <2>3
<1>3. ASSUME NEW q \in Places, Follows(p, q), StreamAt(next, q)
      PROVE  /\ ValueFollows <=> TokenAt(q).type = "Argument"
             /\ Head(next.buffer) = TokenAt(q)
             /\ HasValue(p) => TokenAt(q).type = "Argument"
  <2>1. Remaining(next) /\ Head(next.buffer) = TokenAt(q)
    BY <1>1, <1>3, AdvanceFacts
  <2>2. ValueFollows <=> TokenAt(q).type = "Argument"
    BY <2>1 DEF ValueFollows
  <2>3. HasValue(p) => TokenAt(q).type = "Argument"
    BY <1>1, <1>3, FollowFacts DEF HasValue
  <2> QED
    BY <2>1, <2>2, <2>3
<1>4. \/ StreamAtEnd(next) /\ \A q \in Places : ~Before(p, q)
      \/ \E q \in Places : Follows(p, q) /\ StreamAt(next, q)
  BY <1>1, AdvanceFacts DEF AtPlace
<1> QED
  BY <1>2, <1>3, <1>4

ValueKinds == {"text", "uint16", "double"}

(* An option read at p with the value at q behind it.                      *)
LEMMA ValueRead ==
  ASSUME NEW p, AtPlace(p), TokenAt(p).type = "Option",
         Matching(TokenAt(p).name) # {}, Parser.kind \in ValueKinds,
         DOMAIN bound = {o.id : o \in Opts},
         NEW q \in Places, Follows(p, q), StreamAt(Advance(tokens), q),
         TokenAt(q).type = "Argument", Converts(Parser.kind, TokenAt(q).value),
         NEW bs,
         bs = [bound EXCEPT ![Parser.id] = Converted(Parser.kind, TokenAt(q).value)]
  PROVE  Going(Advance(Advance(tokens)), used \cup {Parser.id}, bs)
<1>1. /\ Parser \in Opts /\ OptsAt(p) = {Parser}
      /\ Misplaced(p) <=> TakesValue(p) /\ ~HasValue(p)
  BY ParserHere
<1>2. LineOK /\ line \in Seq(Word) /\ p \in Places
  BY DEF AtPlace, LineOK
<1>3. TakesValue(p) /\ HasValue(p)
  BY <1>1 DEF TakesValue, HasValue, ValueKinds
<1>4. Parser # Help /\ Parser.kind # "flag"
  BY <1>1, <1>2, OptionsApart DEF ValueKinds, LineOK
<1>5. ~Misplaced(q) /\ OptsAt(q) = {}
  <2>1. ~Misplaced(q)
    BY <1>2, <1>3 DEF Misplaced
  <2> QED
    BY <1>2, <2>1, TokenFacts
<1>6. bs[Parser.id] = Converted(Parser.kind, TokenAt(q).value)
  BY <1>1
<1>7. Holds(bs, Parser, p)
  BY <1>4, <1>6 DEF Holds
<1>8. \A r \in Places : Follows(p, r) => r \in {p, q}
  BY <1>2, FollowFacts
<1>9. ReadSoFar(PlacesBefore(p) \cup {p, q}, used \cup {Parser.id}, bs)
  <2>1. {p, q} \in SUBSET Places /\ p \in {p, q}
    BY <1>2
  <2>2. \A r \in {p, q} \ {p} : ~Misplaced(r) /\ OptsAt(r) = {}
    BY <1>5
  <2>3. ~Misplaced(p)
    BY <1>1, <1>3
  <2> QED
    BY <1>4, <1>7, <1>8, <2>1, <2>2, <2>3, ReadsOn
<1>10. PlacesBefore(p) \cup {p, q} = PlacesBefore(q) \cup {q}
  <2>1. PlacesBefore(q) = PlacesBefore(p) \cup {p}
    BY <1>2, FollowFacts
  <2> QED
    BY <2>1
<1> QED
  BY <1>2, <1>9, <1>10, GoesOn

LEMMA FailsHere ==
  ASSUME NEW p, AtPlace(p), Misplaced(p)
  PROVE  p \in Places /\ FailsAt(p)
BY DEF AtPlace, ReadSoFar, FailsAt

LEMMA ValueStep ==
  ASSUME ParseInv, SetValue
  PROVE  ParseState(tokens', used', bound', outcome')
<1> DEFINE rest == Advance(tokens)
           v == Head(rest.buffer).value
<1>1. OptionIs(ValueKinds) /\ ValueFollows /\ outcome = "parsing"
  BY DEF SetValue, OptionIs, ValueKinds
<1>2. PICK p : /\ AtPlace(p) /\ TokenAt(p).type = "Option"
               /\ Matching(TokenAt(p).name) # {} /\ Parser.kind \in ValueKinds
  BY <1>1, OptionHere
<1>3. PICK q \in Places : /\ Follows(p, q) /\ StreamAt(rest, q)
                          /\ TokenAt(q).type = "Argument"
                          /\ Head(rest.buffer) = TokenAt(q)
  BY <1>1, <1>2, ValueHere
<1>4. DOMAIN bound = {o.id : o \in Opts}
  BY <1>1, AtSomePlace
<1>5. /\ Parser \in Opts /\ OptsAt(p) = {Parser}
      /\ Misplaced(p) <=> TakesValue(p) /\ ~HasValue(p)
  BY <1>2, ParserHere
<1>6. IF Converts(Parser.kind, v)
      THEN Takes(Parser, Converted(Parser.kind, v), Advance(rest))
      ELSE Ends("error")
  BY DEF SetValue
<1>7. v = TokenAt(q).value
  BY <1>3
<1> HIDE DEF v, rest
<1>8. CASE Converts(Parser.kind, v)
  <2>1. /\ bound' = [bound EXCEPT ![Parser.id] = Converted(Parser.kind, v)]
        /\ used' = used \cup {Parser.id}
        /\ tokens' = Advance(rest)
        /\ outcome' = outcome
    BY <1>6, <1>8 DEF Takes
  <2>2. Going(tokens', used', bound')
    BY <1>2, <1>3, <1>4, <1>7, <1>8, <2>1, ValueRead DEF rest
  <2>3. DOMAIN bound' = {o.id : o \in Opts}
    BY <1>4, <2>1
  <2> QED
    BY <1>1, <2>1, <2>2, <2>3 DEF ParseState
<1>9. CASE ~Converts(Parser.kind, v)
  <2>1. outcome' = "error" /\ bound' = bound
    BY <1>6, <1>9 DEF Ends
  <2>2. ~HasValue(p)
    <3>1. \A r \in Places : Follows(p, r) => r = q
      BY <1>2, <1>3, FollowFacts DEF AtPlace, LineOK
    <3> QED
      BY <1>5, <1>7, <1>9, <3>1 DEF HasValue
  <2>3. TakesValue(p)
    BY <1>2, <1>5 DEF TakesValue, ValueKinds
  <2>4. p \in Places /\ FailsAt(p)
    BY <1>2, <1>5, <2>2, <2>3, FailsHere
  <2> QED
    BY <1>4, <2>1, <2>4 DEF ParseState
<1> QED
  BY <1>8, <1>9

LEMMA MissingStep ==
  ASSUME ParseInv, ValueMissing
  PROVE  ParseState(tokens', used', bound', outcome')
<1>1. /\ OptionIs(ValueKinds) /\ ~ValueFollows /\ outcome = "parsing"
      /\ outcome' = "error" /\ bound' = bound
  BY DEF ValueMissing, OptionIs, ValueKinds, Ends
<1>2. PICK p : /\ AtPlace(p) /\ TokenAt(p).type = "Option"
               /\ Matching(TokenAt(p).name) # {} /\ Parser.kind \in ValueKinds
  BY <1>1, OptionHere
<1>3. /\ Parser \in Opts /\ OptsAt(p) = {Parser}
      /\ Misplaced(p) <=> TakesValue(p) /\ ~HasValue(p)
  BY <1>2, ParserHere
<1>4. TakesValue(p) /\ ~HasValue(p)
  BY <1>1, <1>2, <1>3, ValueHere DEF TakesValue, ValueKinds
<1>5. p \in Places /\ FailsAt(p)
  BY <1>2, <1>3, <1>4, FailsHere
<1>6. DOMAIN bound = {o.id : o \in Opts}
  BY <1>1, AtSomePlace
<1> QED
  BY <1>1, <1>5, <1>6 DEF ParseState

LEMMA UnrecognisedStep ==
  ASSUME ParseInv, Unrecognised
  PROVE  ParseState(tokens', used', bound', outcome')
<1>1. /\ outcome = "parsing" /\ Remaining(tokens)
      /\ Token.type = "Option" => Matching(Token.name) = {}
      /\ outcome' = "error" /\ bound' = bound
  BY DEF Unrecognised, Ends
<1>2. PICK p : AtPlace(p)
  BY <1>1, AtSomePlace
<1>3. /\ Token = TokenAt(p) /\ LineOK /\ line \in Seq(Word) /\ p \in Places
      /\ ReadSoFar(PlacesBefore(p), used, bound)
  BY <1>2, TokenHere DEF AtPlace, LineOK
<1>4. Misplaced(p)
  <2>1. CASE TokenAt(p).type = "Argument"
    <3>1. ASSUME NEW q \in Places, Follows(q, p), TakesValue(q) PROVE FALSE
      <4>1. q \in PlacesBefore(p)
        BY <3>1 DEF Follows, PlacesBefore
      <4>2. p \in PlacesBefore(p)
        BY <1>3, <3>1, <4>1 DEF ReadSoFar
      <4> QED
        BY <1>3, <4>2, PlaceOrder DEF PlacesBefore
    <3> QED
      BY <2>1, <3>1 DEF Misplaced
  <2>2. CASE TokenAt(p).type = "Option" /\ OptsAt(p) # {}
    <3>1. PICK o \in OptsAt(p) : TRUE
      BY <2>2
    <3>2. o \in Opts /\ o \notin Matching(TokenAt(p).name)
      BY <1>1, <1>3, <2>2, <3>1 DEF OptsAt
    <3>3. o.id \in used
      BY <3>1, <3>2 DEF OptsAt, Matching
    <3>4. PICK q \in Given(o) \cap PlacesBefore(p) : TRUE
      BY <1>3, <3>2, <3>3 DEF ReadSoFar
    <3>5. Before(q, p) /\ q \in Places /\ o \in OptsAt(q)
      BY <3>4 DEF Given, PlacesBefore
    <3> QED
      BY <2>2, <3>1, <3>5 DEF Misplaced
  <2>3. CASE TokenAt(p).type = "Option" /\ OptsAt(p) = {}
    BY <2>3 DEF Misplaced
  <2> QED
    BY <1>3, <2>1, <2>2, <2>3, TokenFacts
<1>5. p \in Places /\ FailsAt(p)
  BY <1>2, <1>4, FailsHere
<1>6. DOMAIN bound = {o.id : o \in Opts}
  BY <1>1, AtSomePlace
<1> QED
  BY <1>1, <1>5, <1>6 DEF ParseState

LEMMA AcceptStep ==
  ASSUME ParseInv, Accept
  PROVE  ParseState(tokens', used', bound', outcome')
<1>1. /\ outcome = "parsing" /\ ~Remaining(tokens) /\ outcome' = "params"
      /\ used' = used /\ bound' = bound
  BY DEF Accept, Ends
<1>2. ReadSoFar(Places, used, bound) /\ DOMAIN bound = {o.id : o \in Opts}
  BY <1>1, AtSomePlace
<1> QED
  BY <1>1, <1>2 DEF ParseState

LEMMA ParseKeepsInv ==
  ASSUME ParseInv, ParseStep
  PROVE  ParseInv'
<1>1. line' = line /\ program' = program /\ LineOK
  BY DEF ParseStep, ParseInv
<1>2. ParseState(tokens', used', bound', outcome')
  BY HelpStep, FlagStep, ValueStep, MissingStep, UnrecognisedStep, AcceptStep
     DEF ParseStep
<1> QED
  BY <1>1, <1>2, LineStays

LEMMA InitParse ==
  ASSUME ParseInit
  PROVE  ParseInv
<1>1. LineOK
  <2>1. program \in {"client", "server", "tester"}
    BY DEF ParseInit, OptsOf
  <2>2. line \in Seq(Word)
    <3>1. line \in UNION {[1..m -> Word] : m \in 0..MaxWords}
      BY DEF ParseInit, BoundedSeq, SeqOf
    <3>2. PICK m \in 0..MaxWords : line \in [1..m -> Word]
      BY <3>1
    <3> QED
      BY <3>2, LineAssumption
  <2> QED
    BY <2>1, <2>2 DEF LineOK
<1>2. PICK g \in [{o \in Opts : o.initial = Uninitialised} -> Garbage] :
        bound = [id \in {o.id : o \in Opts} |->
                  LET o == CHOOSE o \in Opts : o.id = id
                  IN  IF o \in DOMAIN g THEN Number(g[o]) ELSE o.initial]
  BY DEF ParseInit
<1>3. DOMAIN bound = {o.id : o \in Opts}
  BY <1>2
<1>4. ASSUME NEW o \in Opts PROVE o.initial \in {bound[o.id], Uninitialised}
  <2>1. (CHOOSE r \in Opts : r.id = o.id) = o
    BY <1>1, OptionsApart DEF LineOK
  <2> DEFINE opt(id) == CHOOSE r \in Opts : r.id = id
             start(id) == IF opt(id) \in DOMAIN g THEN Number(g[opt(id)])
                          ELSE opt(id).initial
  <2>2. bound = [id \in {r.id : r \in Opts} |-> start(id)]
    BY <1>2
  <2>3. opt(o.id) = o
    BY <2>1
  <2> HIDE DEF opt
  <2>4. start(o.id) = IF o \in DOMAIN g THEN Number(g[o]) ELSE o.initial
    BY <2>3
  <2> HIDE DEF start
  <2>5. bound[o.id] = start(o.id)
    BY <2>2
  <2>6. o \in DOMAIN g => o.initial = Uninitialised
    BY <1>2
  <2> QED
    BY <2>4, <2>5, <2>6
<1>5. used = {} /\ outcome = "parsing" /\ tokens = LoadBuffer(line)
  BY DEF ParseInit
<1>6. ReadSoFar({}, used, bound)
  BY <1>4, <1>5 DEF ReadSoFar
<1>7. Going(tokens, used, bound)
  BY <1>1, <1>5, <1>6, FirstFacts DEF Going, LineOK
<1> QED
  BY <1>1, <1>3, <1>5, <1>7 DEF ParseInv, ParseState

(* What the loop has come to is what the line says.                        *)
LEMMA InvIsMeaning ==
  ASSUME ParseInv
  PROVE  ParsedAsWritten
<1> DEFINE wrong == {p \in Places : Misplaced(p)}
           asked == {p \in Places : Help \in OptsAt(p)}
<1>1. LineOK /\ line \in Seq(Word) /\ ParseState(tokens, used, bound, outcome)
  BY DEF ParseInv, LineOK
<1>2. CASE outcome = "params"
  <2>1. ReadSoFar(Places, used, bound)
    BY <1>1, <1>2 DEF ParseState
  <2>2. Meaning = "params"
    <3>1. wrong = {} /\ asked = {}
      BY <2>1 DEF ReadSoFar
    <3> QED
      BY <3>1 DEF Meaning
  <2>3. \A o : Given(o) \cap Places = Given(o)
    BY DEF Given
  <2>4. BoundAsWritten
    BY <2>1, <2>3 DEF ReadSoFar, Holds, BoundAsWritten
  <2>5. DefaultsKept
    BY <2>1, <2>3 DEF ReadSoFar, DefaultsKept
  <2> QED
    BY <1>2, <2>2, <2>4, <2>5 DEF ParsedAsWritten
<1>3. CASE outcome = "error"
  <2>1. PICK p \in Places : FailsAt(p)
    BY <1>1, <1>3 DEF ParseState
  <2>2. p \in wrong /\ \A q \in asked : ~Before(q, p)
    BY <2>1 DEF FailsAt, PlacesBefore
  <2>3. Meaning = "error"
    BY <2>2 DEF Meaning
  <2> QED
    BY <1>3, <2>3 DEF ParsedAsWritten
<1>4. CASE outcome = "help"
  <2>1. PICK p \in Places : HelpsAt(p)
    BY <1>1, <1>4 DEF ParseState
  <2>2. p \in asked
    BY <2>1 DEF HelpsAt
  <2>3. ASSUME NEW r \in wrong PROVE Before(p, r)
    <3>1. r # p /\ ~Before(r, p)
      BY <2>1, <2>3 DEF HelpsAt, PlacesBefore
    <3> QED
      BY <1>1, <3>1, PlaceOrder
  <2>4. Meaning = "help"
    BY <2>2, <2>3 DEF Meaning
  <2> QED
    BY <1>4, <2>4 DEF ParsedAsWritten
<1>5. outcome \in {"parsing", "params", "error", "help"}
  BY <1>1 DEF ParseState
<1> QED
  BY <1>2, <1>3, <1>4, <1>5 DEF ParsedAsWritten

(* A number in [-65535, 65535] is what a 16-bit variable makes of it, or   *)
(* that less 2^16.                                                         *)
LEMMA ConvertedFits ==
  ASSUME NEW v, v.num \subseteq Int, \A m, n \in v.num : m = n,
         NEW kind, kind = "uint16", Converts(kind, v)
  PROVE  \E n \in v.num : n \in {Converted(kind, v).number,
                                 Converted(kind, v).number - 65536}
<1>1. PICK n \in v.num : n >= -65535 /\ n <= 65535
  BY DEF Converts
<1>2. n \in Int
  BY <1>1
<1>3. (CHOOSE m \in v.num : TRUE) = n
  <2>1. (CHOOSE m \in v.num : TRUE) \in v.num
    BY <1>1
  <2> QED
    BY <1>1, <2>1
<1>4. Converted(kind, v) = Number(n % 65536)
  BY <1>3 DEF Converted
<1>5. Converted(kind, v).number = n % 65536
  BY <1>4 DEF Number
<1>6. n = n % 65536 \/ n = (n % 65536) - 65536
  BY <1>1, <1>2
<1> QED
  BY <1>1, <1>5, <1>6

LEMMA InvIsFit ==
  ASSUME ParseInv
  PROVE  NumbersFit
<1> SUFFICES ASSUME outcome = "params", NEW o \in Opts, NEW p \in Given(o),
                    o.kind = "uint16"
             PROVE  \E q \in Places :
                      /\ Follows(p, q)
                      /\ \E n \in TokenAt(q).value.num :
                           n \in {bound[o.id].number, bound[o.id].number - 65536}
  BY DEF NumbersFit
<1>1. LineOK /\ line \in Seq(Word) /\ ReadSoFar(Places, used, bound)
  BY DEF ParseInv, ParseState, LineOK
<1>2. p \in Places /\ o \in OptsAt(p)
  BY DEF Given
<1>3. Holds(bound, o, p) /\ ~Misplaced(p)
  BY <1>1, <1>2 DEF ReadSoFar
<1>4. PICK q \in Places : /\ Follows(p, q)
                          /\ bound[o.id] = Converted(o.kind, TokenAt(q).value)
  BY <1>3 DEF Holds
<1>5. TakesValue(p) /\ TokenAt(p).type # "Argument"
  BY <1>2 DEF TakesValue, OptsAt
<1>6. HasValue(p)
  BY <1>3, <1>5 DEF Misplaced
<1>7. TokenAt(q).type = "Argument" /\ Converts(o.kind, TokenAt(q).value)
  BY <1>1, <1>2, <1>4, <1>6, FollowFacts DEF HasValue
<1>8. /\ TokenAt(q).value.num \subseteq Int
      /\ \A m, n \in TokenAt(q).value.num : m = n
  BY <1>1, <1>7, TokenFacts
<1>9. \E n \in TokenAt(q).value.num :
        n \in {bound[o.id].number, bound[o.id].number - 65536}
  BY <1>4, <1>7, <1>8, ConvertedFits
<1> QED
  BY <1>4, <1>9

LEMMA StepParse ==
  ASSUME ParseInv, [Next]_vars
  PROVE  ParseInv'
<1>1. CASE ParseArgs
  BY <1>1, ParseKeepsInv DEF ParseArgs
<1>2. CASE UNCHANGED parseVars
  <2>1. line' = line /\ program' = program /\ tokens' = tokens /\ used' = used
        /\ bound' = bound /\ outcome' = outcome
    BY <1>2 DEF parseVars
  <2>2. LineOK /\ ParseState(tokens, used, bound, outcome)
    BY DEF ParseInv
  <2> QED
    BY <2>1, <2>2, LineStays
<1>3. ParseArgs \/ UNCHANGED parseVars
  BY DEF Next, MainStep, RunStep, RunFault, Interrupt, vars
<1> QED
  BY <1>1, <1>2, <1>3

THEOREM ParseInvariant == Spec => []ParseInv
<1>1. Init => ParseInv
  BY InitParse DEF Init
<1> QED
  BY <1>1, StepParse, PTL DEF Spec

(* For every command line over any vocabulary, of each of the programs:    *)
(* clara's loop over its buffered stream decides as the whole line read at *)
(* once, and what it accepts is in the variables.                          *)
THEOREM LineIsParsedAsWritten == Spec => []ParsedAsWritten
BY ParseInvariant, InvIsMeaning, PTL

(* A 16-bit option a program goes on with holds the number on the line, or *)
(* that number modulo 2^16 when it was negative.                           *)
THEOREM ParsedNumbersFit == Spec => []NumbersFit
BY ParseInvariant, InvIsFit, PTL
=============================================================================
