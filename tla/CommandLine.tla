---------------------------- MODULE CommandLine ----------------------------
(***************************************************************************)
(* How the client, the server and the tester read their command lines:     *)
(* clara's token stream and parse loop, the options each parseArgs         *)
(* combines, and what each main makes of them.                             *)
(*                                                                         *)
(* A word of the command line is what loadBuffer can tell apart: an empty  *)
(* string, a plain argument, one option, an option joined to a value by    *)
(* '=', ':' or ' ', or a bundle of one-letter options.  A value is a text  *)
(* and the number a stream extracts from its front, or NaN.                *)
(***************************************************************************)
EXTENDS Integers, SequencesExt

CONSTANTS
  Word,     \* the words command lines are made of
  MaxWords, \* the longest command line
  Garbage   \* what a variable nobody initialised may hold

ASSUME LineAssumption == MaxWords \in Nat

(* loadBuffer makes a bundle of a '-' and two letters at least, and a      *)
(* stream takes one number from a text, or none.                           *)
ASSUME WordAssumption ==
  \A w \in Word :
    /\ w.form \in {"empty", "argument", "option", "joined", "bundle"}
    /\ w.form = "empty" => w = [form |-> "empty"]
    /\ w.form = "bundle" => w.names \in Seq(STRING) /\ Len(w.names) >= 2
    /\ w.form \in {"argument", "joined"} =>
         /\ w.value.num \subseteq Int
         /\ \A m, n \in w.value.num : m = n

VARIABLES
  program,  \* "client", "server" or "tester"
  line,     \* the arguments it was started with
  tokens,   \* clara's TokenStream: the words from `it' on, and its buffer
  used,     \* the options with a count of 1
  bound,    \* the variables the options are bound to
  outcome   \* "parsing", "error", "help", "params"

parseVars == <<program, line, tokens, used, bound, outcome>>

Value(text, num) == [text |-> text, num |-> num]

(* What a bound variable holds.                                            *)
Text(t) == [text |-> t]
Number(n) == [number |-> n]
Flag(b) == [flag |-> b]
Uninitialised == [garbage |-> TRUE]

Empty == [form |-> "empty"]
Argument(v) == [form |-> "argument", value |-> v]
Option(n) == [form |-> "option", name |-> n]
Joined(n, v) == [form |-> "joined", name |-> n, value |-> v]
Bundle(ns) == [form |-> "bundle", names |-> ns]
-----------------------------------------------------------------------------
Opt(id, names, kind, required, initial) ==
  [id |-> id, names |-> names, kind |-> kind, required |-> required,
   initial |-> initial]

Help == Opt("help", {"-?", "-h", "--help"}, "help", FALSE, Flag(FALSE))
FilenameOpt == Opt("filename", {"-f", "--filename"}, "text", TRUE, Text(""))
AddressOpt == Opt("address", {"-a", "--address"}, "text", TRUE, Text(""))
ClientPortOpt ==
  Opt("clientPort", {"-c", "--clientPort"}, "uint16", TRUE, Uninitialised)
MtuOpt == Opt("mtu", {"-m", "--mtu"}, "uint16", FALSE, Number(1500))
RateOpt == Opt("rate", {"-r", "--datarate"}, "double", FALSE, Number(0))
LogOpt == Opt("log", {"-l", "--logLevel"}, "text", FALSE, Text("info"))
QueueOpt == Opt("queue", {"-q", "--queueLength"}, "uint16", FALSE, Number(1024))
DropOpt == Opt("drop", {"-d", "--dropPackets"}, "flag", FALSE, Flag(FALSE))
ImportOpt == Opt("import", {"-i", "--importDiode"}, "flag", FALSE, Flag(FALSE))
ServerPortOpt(required, initial) ==
  Opt("serverPort", {"-s", "--serverPort"}, "uint16", required, initial)

ClientOpts ==
  {Help, FilenameOpt, AddressOpt, ClientPortOpt, MtuOpt, RateOpt, LogOpt}
ServerOpts ==
  {Help, ServerPortOpt(FALSE, Number(45000)), MtuOpt, QueueOpt, DropOpt, ImportOpt,
   LogOpt}
TesterOpts ==
  {Help, AddressOpt, ClientPortOpt, ServerPortOpt(TRUE, Uninitialised), FilenameOpt,
   RateOpt, MtuOpt, QueueOpt, DropOpt, ImportOpt, LogOpt}

OptsOf == [client |-> ClientOpts, server |-> ServerOpts, tester |-> TesterOpts]
Opts == OptsOf[program]
-----------------------------------------------------------------------------
(* One word as loadBuffer cuts it up.                                      *)
TokensOf(w) ==
  CASE w.form = "argument" -> <<[type |-> "Argument", value |-> w.value]>>
    [] w.form = "option" -> <<[type |-> "Option", name |-> w.name]>>
    [] w.form = "joined" -> <<[type |-> "Option", name |-> w.name],
                              [type |-> "Argument", value |-> w.value]>>
    [] w.form = "bundle" ->
         [i \in DOMAIN w.names |-> [type |-> "Option", name |-> w.names[i]]]

LoadBuffer(ws) ==
  LET it == SelectInSeq(ws, LAMBDA w : w # Empty)
  IN  IF it = 0
      THEN [it |-> <<>>, buffer |-> <<>>]
      ELSE [it |-> SubSeq(ws, it, Len(ws)), buffer |-> TokensOf(ws[it])]

Remaining(ts) == ts.buffer # <<>> \/ ts.it # <<>>

(* A mutant: the rest of a joined or bundled word is skipped.              *)
AdvanceByWord(ts) == LoadBuffer(Tail(ts.it))

Advance(ts) ==
  IF Len(ts.buffer) >= 2
  THEN [ts EXCEPT !.buffer = Tail(@)]
  ELSE LoadBuffer(Tail(ts.it))

(* A mutant: no number is too wide for its variable.                       *)
ConvertsUnbounded(kind, v) == kind = "text" \/ v.num # {}

(* convertInto: `ss >> target' takes the number at the front of the text,  *)
(* fails when there is none or it is too wide, and takes a negative number *)
(* into an unsigned variable modulo its range.                             *)
Converts(kind, v) ==
  \/ kind = "text"
  \/ kind = "double" /\ v.num # {}
  \/ kind = "uint16" /\ \E n \in v.num : n >= -65535 /\ n <= 65535

Converted(kind, v) ==
  LET n == CHOOSE n \in v.num : TRUE
  IN  CASE kind = "text" -> Text(v.text)
        [] kind = "double" -> Number(n)
        [] kind = "uint16" -> Number(n % 65536)

(* The parsers tried for an option: those whose count allows one more.     *)
IsMatch(o, name) == name \in o.names
Matching(name) == {o \in Opts : o.id \notin used /\ IsMatch(o, name)}
MatchingAgain(name) == {o \in Opts : IsMatch(o, name)}

Token == Head(tokens.buffer)
OptionIs(kinds) ==
  /\ outcome = "parsing"
  /\ Remaining(tokens)
  /\ Token.type = "Option"
  /\ \E o \in Matching(Token.name) : o.kind \in kinds

Parser == CHOOSE o \in Matching(Token.name) : TRUE

ValueFollows ==
  LET next == Advance(tokens)
  IN  Remaining(next) /\ Head(next.buffer).type = "Argument"

Takes(o, v, rest) ==
  /\ bound' = [bound EXCEPT ![o.id] = v]
  /\ used' = used \cup {o.id}
  /\ tokens' = rest
  /\ UNCHANGED outcome

Ends(how) == outcome' = how /\ UNCHANGED <<tokens, used, bound>>
-----------------------------------------------------------------------------
ParseInit ==
  /\ program \in DOMAIN OptsOf
  /\ line \in BoundedSeq(Word, MaxWords)
  /\ tokens = LoadBuffer(line)
  /\ used = {}
  /\ \E g \in [{o \in Opts : o.initial = Uninitialised} -> Garbage] :
       bound = [id \in {o.id : o \in Opts} |->
                  LET o == CHOOSE o \in Opts : o.id = id
                  IN  IF o \in DOMAIN g THEN Number(g[o]) ELSE o.initial]
  /\ outcome = "parsing"

(* Help: the flag short-circuits everything, and parseArgs exits with 1.   *)
ShowHelp == OptionIs({"help"}) /\ Ends("help")

SetFlag ==
  /\ OptionIs({"flag"})
  /\ Takes(Parser, Flag(TRUE), Advance(tokens))

SetValue ==
  /\ OptionIs({"text", "uint16", "double"})
  /\ ValueFollows
  /\ LET rest == Advance(tokens)
         v == Head(rest.buffer).value
     IN  IF Converts(Parser.kind, v)
         THEN Takes(Parser, Converted(Parser.kind, v), Advance(rest))
         ELSE Ends("error")

(* "Expected argument following": nothing follows, or another option.      *)
ValueMissing ==
  /\ OptionIs({"text", "uint16", "double"})
  /\ ~ValueFollows
  /\ Ends("error")

(* "Unrecognised token": an argument nobody asked for, or an option that   *)
(* is unknown or was given before.                                         *)
Unrecognised ==
  /\ outcome = "parsing"
  /\ Remaining(tokens)
  /\ Token.type = "Option" => Matching(Token.name) = {}
  /\ Ends("error")

(* The end of the line: what is required is not looked at.                 *)
Accept ==
  /\ outcome = "parsing"
  /\ ~Remaining(tokens)
  /\ Ends("params")

ParseStep ==
  /\ UNCHANGED <<program, line>>
  /\ \/ ShowHelp
     \/ SetFlag
     \/ SetValue
     \/ ValueMissing
     \/ Unrecognised
     \/ Accept

ParseSpec == ParseInit /\ [][ParseStep]_parseVars

(* The server's main: DropStream for -d, else FileStream; the tester's     *)
(* main makes a FileStream whatever it was told.                           *)
WritesFiles == program = "tester" \/ (program = "server" /\ ~bound["drop"].flag)
=============================================================================
