------------------------------- MODULE MCSisl -------------------------------
(***************************************************************************)
(* The SAX handler at work on every JSON object of up to two members a     *)
(* level and three levels, and the grammar on what it has written.         *)
(***************************************************************************)
EXTENDS Sisl

VARIABLES
  events,  \* what rapidjson's Reader reports of the input
  done,    \* how many of them the handler has seen
  handler

jsonVars == <<events, done, handler>>

Values == {<<Scalar("str", <<"x", "blank", "open">>)>>,
           <<Scalar("uint", <<"7">>)>>,
           <<Scalar("str", <<>>)>>, <<Scalar("null", <<>>)>>,
           <<Scalar("bool", <<"true">>)>>, <<Scalar("double", <<"long">>)>>}
Array == <<StartArray>>

Members(values) ==
  {<<Key(k)>> \o v : k \in {<<"a">>, <<"b", "blank", "close">>}, v \in values}
Objects(members) ==
  {<<StartObject>> \o ms[1] \o <<EndObject(1)>> : ms \in [{1} -> members]}
  \cup {<<StartObject>> \o ms[1] \o ms[2] \o <<EndObject(2)>> :
          ms \in [{1, 2} -> members]}
  \cup {<<StartObject, EndObject(0)>>}

Flat == Objects(Members({<<Scalar("uint", <<"7">>)>>}))
Nested == Objects(Members(Values \cup Flat \cup {Array}))
Deep == Objects(Members({Array} \cup
          {e \in Objects(Members(Flat)) : Len(e) < 12}))

JsonInit(inputs) ==
  /\ events \in inputs
  /\ done = 0
  /\ handler = NewHandler

(* Reader::Parse stops at the first event the handler returns false for,   *)
(* and parseJsonToSisl throws.                                             *)
ParseEvent ==
  /\ done < Len(events)
  /\ ~handler.failed
  /\ handler' = Handle(handler, events[done + 1])
  /\ done' = done + 1
  /\ UNCHANGED events

-----------------------------------------------------------------------------
Rounded(event) ==
  IF event.on = "Value"
  THEN [event EXCEPT !.text = Printed(event.type, event.text)] ELSE event

(* What toSisl writes, toJson reads back: every key, type and value, and   *)
(* the nesting of the objects, whatever braces and blanks are in them, but *)
(* for the digits of a double beyond the sixth.                            *)
ReadsBack ==
  (done = Len(events) /\ ~handler.failed) =>
    ToJson(handler.stream) =
      [ok |-> TRUE,
       events |-> [i \in DOMAIN events |-> Rounded(events[i])]]
=============================================================================
