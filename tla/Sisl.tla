-------------------------------- MODULE Sisl --------------------------------
(***************************************************************************)
(* SislTools: the SAX handler that turns JSON into SISL, and the grammar   *)
(* that turns SISL into JSON.                                              *)
(*                                                                         *)
(* A text is a sequence of symbols: the characters either side gives a     *)
(* meaning to, under the names "open" and "close" (the braces), "quote",   *)
(* "comma", "colon", "blank" and "mark" (the exclamation mark), and words, *)
(* each a run of other characters.  JSON is the sequence of events         *)
(* rapidjson's Reader reports and its Writer is told.                      *)
(* The grammar is a recursive function of the rule and the place.          *)
(***************************************************************************)
EXTENDS Integers, SequencesExt

CONSTANTS
  Numeral,  \* the words std::stoul and std::stod accept
  Long      \* those of them with more than six significant digits

(* The types valueAction knows.                                            *)
RType == {"str", "bool", "uint", "int", "uint64_t", "int64_t", "double", "null"}

StartObject == [on |-> "StartObject"]
EndObject(n) == [on |-> "EndObject", members |-> n]
Key(k) == [on |-> "Key", text |-> k]
Scalar(t, v) == [on |-> "Value", type |-> t, text |-> v]
StartArray == [on |-> "StartArray"]
Throws == [on |-> "Throws"]
-----------------------------------------------------------------------------
(* JSON to SISL: MyHandler.  Each value leaves a comma, which the end of   *)
(* its object writes over.                                                 *)
NewHandler == [stream |-> <<>>, nesting_depth |-> 0, failed |-> FALSE]

Put(h, text) == [h EXCEPT !.stream = @ \o text]

(* What `stream << d' writes of a double: six digits of it.                *)
Printed(type, text) ==
  IF type = "double" /\ text[1] \in Long THEN <<"rounded">> ELSE text

OnStart(h) ==
  [Put(h, IF h.nesting_depth = 0 THEN <<"open">>
                                 ELSE <<"mark", "obj", "blank", "open">>)
     EXCEPT !.nesting_depth = @ + 1]

(* A mutant: an object without members has its brace written over.         *)
OnEndAlwaysCut(h, members) ==
  LET closed == Append(Front(h.stream), "close")
  IN  [h EXCEPT !.stream = IF h.nesting_depth > 1 THEN Append(closed, "comma")
                                                  ELSE closed,
                !.nesting_depth = @ - 1]

OnEnd(h, members) ==
  LET closed == Append(IF members > 0 THEN Front(h.stream) ELSE h.stream, "close")
  IN  [h EXCEPT !.stream = IF h.nesting_depth > 1 THEN Append(closed, "comma")
                                                  ELSE closed,
                !.nesting_depth = @ - 1]

Handle(h, event) ==
  CASE event.on = "StartObject" -> OnStart(h)
    [] event.on = "Key" -> Put(h, event.text \o <<"colon", "blank">>)
    [] event.on = "Value" -> Put(h, <<"mark", event.type, "blank", "quote">>
                                    \o Printed(event.type, event.text)
                                    \o <<"quote", "comma">>)
    [] event.on = "EndObject" -> OnEnd(h, event.members)
    [] event.on = "StartArray" -> [h EXCEPT !.failed = TRUE]
-----------------------------------------------------------------------------
(* SISL to JSON.  Rules are read at a place of the text t; what a rule's   *)
(* semantic actions told the writer before it failed stays told.           *)
At(t, i) == IF i \in DOMAIN t THEN t[i] ELSE "eoi"

From(t, i, stop) ==
  LET ends == {j \in i..Len(t) : t[j] \in stop}
  IN  IF ends = {} THEN Len(t) + 1 ELSE Min(ends)

Skip(t, i) ==
  LET next == {j \in i..Len(t) : t[j] # "blank"}
  IN  IF next = {} THEN Len(t) + 1 ELSE Min(next)

(* One lexeme: opened by `open' unless that is empty, a run of symbols     *)
(* outside `stop', of at least `least', and then `close'.                  *)
Lexeme(t, i, open, stop, least, close) ==
  LET start == Skip(t, i)
      run == start + Len(open)
      end == From(t, run, stop)
      matched == /\ open = <<>> \/ At(t, start) = Head(open)
                 /\ end - run >= least
                 /\ At(t, end) = close
  IN  [ok |-> matched, text |-> SubSeq(t, run, end - 1), next |-> end + 1]

NameAt(t, i) == Lexeme(t, i, <<>>, {"colon", "comma"}, 1, "colon")
TypeAt(t, i) == Lexeme(t, i, <<"mark">>, {"blank"}, 1, "blank")
QuotedAt(t, i) == Lexeme(t, i, <<"quote">>, {"quote"}, 0, "quote")

(* valueAction: nothing is written for a type it does not know, and a      *)
(* number that is none throws std::invalid_argument.                       *)
ValueEvents(type, text) ==
  CASE type = <<"str">> -> <<Scalar("str", text)>>
    [] type = <<"bool">> ->
         <<Scalar("bool", IF text = <<"true">> THEN text ELSE <<"false">>)>>
    [] type = <<"null">> -> <<Scalar("null", <<>>)>>
    [] type \in {<<x>> : x \in RType \ {"str", "bool", "null"}} ->
         LET first == At(text, Skip(text, 1))
         IN  IF first \in Numeral THEN <<Scalar(type[1], <<first>>)>> ELSE <<Throws>>
    [] OTHER -> <<>>

(* How a rule ends: where to go on, what was told, and for a list of       *)
(* groupings how many they were.                                           *)
Matched(at, events) == [ok |-> TRUE, at |-> at, events |-> events, members |-> 0]
Failed(events) == [ok |-> FALSE, at |-> 0, events |-> events, members |-> 0]
After(events, result) == [result EXCEPT !.events = events \o @]

(* name ':' type (quoted_string | sisl)                                    *)
Grouping(parse, t, i) ==
  LET name == NameAt(t, i)
      type == TypeAt(t, name.next)
      quoted == QuotedAt(t, type.next)
      key == <<Key(name.text)>>
  IN  CASE ~name.ok -> Failed(<<>>)
        [] name.ok /\ ~type.ok -> Failed(key)
        [] OTHER ->
             After(key, IF quoted.ok
                        THEN Matched(quoted.next, ValueEvents(type.text, quoted.text))
                        ELSE parse["sisl"][type.next])

(* *(grouping % ','), at its start or with `more' of it to read: a comma   *)
(* that no grouping follows is given back, and a grouping may also follow  *)
(* without one.                                                            *)
Groupings(parse, t, i, more) ==
  LET comma == Skip(t, i)
      listed == IF more /\ At(t, comma) = "comma"
                THEN parse["grouping"][comma + 1]
                ELSE Failed(<<>>)
      next == IF listed.ok THEN listed
                           ELSE After(listed.events, parse["grouping"][i])
  IN  IF next.ok
      THEN [After(next.events, parse["more"][next.at]) EXCEPT !.members = @ + 1]
      ELSE Matched(i, next.events)

(* '{' groupings '}'                                                       *)
Object(parse, t, i) ==
  LET open == Skip(t, i)
      body == After(<<StartObject>>, parse["groupings"][open + 1])
      close == Skip(t, body.at)
  IN  IF At(t, open) # "open" THEN Failed(<<>>)
      ELSE IF At(t, close) # "close" THEN Failed(body.events)
      ELSE Matched(close + 1, Append(body.events, EndObject(body.members)))

Rules == {"sisl", "grouping", "groupings", "more"}

RuleAt(parse, t, rule, i) ==
  CASE rule = "sisl" -> Object(parse, t, i)
    [] rule = "grouping" -> Grouping(parse, t, i)
    [] rule = "groupings" -> Groupings(parse, t, i, FALSE)
    [] rule = "more" -> Groupings(parse, t, i, TRUE)

Parse(t) ==
  LET parse[rule \in Rules] ==
        [i \in 1..(Len(t) + 1) |-> RuleAt(parse, t, rule, i)]
  IN  parse

(* parseSislToJson: the whole text is one object.                          *)
ToJson(t) ==
  LET s == Parse(t)["sisl"][1]
      ok == At(t, 1) = "open" /\ s.ok /\ Skip(t, s.at) = Len(t) + 1
  IN  [ok |-> ok /\ Throws \notin ToSet(s.events), events |-> s.events]
=============================================================================
