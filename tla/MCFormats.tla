------------------------------ MODULE MCFormats ------------------------------
(***************************************************************************)
(* What the frames hold and how they are put together: the header of a     *)
(* frame, the SISL text of an EOF frame, SISL at large, and the frames of  *)
(* a session that several clients may share.  A behaviour is about one of  *)
(* them; the variables of the others stay as they are at the start.        *)
(***************************************************************************)
EXTENDS EDHeader, MCFileName, MCSisl, MCReorder

VARIABLE format  \* "header", "name", "json" or "session"

vars == <<format, headerVars, nameVars, jsonVars, sharedVars>>

If(this, inputs, other) == IF format = this THEN inputs ELSE {other}

Init ==
  /\ format \in {"header", "name", "json", "session"}
  /\ HeaderInit(If("header", Session, 0))
  /\ NameInit(If("name", Names, <<>>))
  /\ JsonInit(If("json", Nested \cup Deep, <<StartObject, EndObject(0)>>))
  /\ SharedInit
  /\ format # "session" => \A c, d \in Client : id[c] = id[d]

Next ==
  /\ UNCHANGED format
  /\ \/ /\ format = "header" /\ HeaderStep
        /\ UNCHANGED <<nameVars, jsonVars, sharedVars>>
     \/ /\ format = "name" /\ NameStep
        /\ UNCHANGED <<headerVars, jsonVars, sharedVars>>
     \/ /\ format = "json" /\ ParseEvent
        /\ UNCHANGED <<headerVars, nameVars, sharedVars>>
     \/ /\ format = "session" /\ SharedNext
        /\ UNCHANGED <<headerVars, nameVars, jsonVars>>

Spec == Init /\ [][Next]_vars
=============================================================================
