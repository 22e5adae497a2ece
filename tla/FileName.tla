------------------------------ MODULE FileName ------------------------------
(***************************************************************************)
(* A file name from the client's command line to the server's disk: the    *)
(* client's checks, the SISL text of the EOF frame, the server's checks on *)
(* it, and the name the file is stored under.                              *)
(***************************************************************************)
EXTENDS Sisl

CONSTANTS
  Names,   \* the file names: sequences of symbols
  Length,  \* Length[x]: the number of characters of symbol x
  Special, \* the symbols with a character outside [a-zA-Z0-9.-_]
  MaxSislLength,     \* the limit of the server's SISLFilename
  MaxFilenameLength  \* its second limit, 1000 unless it is told otherwise

VARIABLES
  filename,  \* the last part of the path the client was given
  frame,     \* the payload of the EOF frame, <<>> before it is sent
  stored,    \* the name the server's stream was given
  stage      \* "started", "refused", "sent", "stored"

nameVars == <<filename, frame, stored, stage>>

ClientLimit == 65

(* The characters SISL gives a meaning to, each a symbol of its own.       *)
Punctuation == {"quote", "comma", "colon", "blank", "open", "close", "mark"}

ASSUME LimitAssumption ==
  /\ MaxSislLength \in Nat
  /\ MaxFilenameLength \in Nat
  /\ ClientLimit <= MaxFilenameLength

ASSUME SymbolAssumption ==
  /\ Names \subseteq Seq(DOMAIN Length)
  /\ Punctuation \subseteq Special
  /\ Punctuation \cup {"name", "str"} \subseteq DOMAIN Length
  /\ Length["name"] = 4 /\ Length["str"] = 3
  /\ \A x \in DOMAIN Length : Length[x] \in Nat \ {0}
  /\ \A x \in Punctuation : Length[x] = 1

(* The server's number is in no name the client sends.                     *)
ASSUME NumberAssumption == <<"rejected.", "N">> \notin Names

Size(text) ==
  LET upTo[i \in 0..Len(text)] ==
        IF i = 0 THEN 0 ELSE upTo[i - 1] + Length[text[i]]
  IN  upTo[Len(text)]

(* Both ends match "[a-zA-Z0-9\.\-_]+".                                    *)
Matches(text) == text # <<>> /\ ToSet(text) \cap Special = {}

(* A mutant: the client looks only at the length.                          *)
TakesFilenameUnfiltered(name) == Size(name) <= ClientLimit

TakesFilename(name) == Matches(name) /\ Size(name) <= ClientLimit

FilenameAsSisl(name) ==
  <<"open", "name", "colon", "blank", "mark", "str", "blank", "quote">>
    \o name \o <<"quote", "close">>

(* doc["name"]: the value of the first member of that name.                *)
NameIn(events) ==
  LET depth(i) == Cardinality({j \in 1..i : events[j] = StartObject})
                  - Cardinality({j \in 1..i : events[j].on = "EndObject"})
      named == {i \in DOMAIN events : depth(i) = 1 /\ events[i] = Key(<<"name">>)}
  IN  IF named = {} THEN <<>> ELSE events[Min(named) + 1].text

Rejected == <<"rejected.">>

(* A mutant: the limit itself is refused.                                  *)
ExtractFilenameBelow(eofFrame) ==
  LET json == ToJson(eofFrame)
      name == NameIn(json.events)
  IN  IF /\ Size(eofFrame) < MaxSislLength
         /\ json.ok
         /\ Matches(name)
      THEN name ELSE Rejected

(* extractFilename, with `.value_or("rejected.")' of its caller.           *)
ExtractFilename(eofFrame) ==
  LET json == ToJson(eofFrame)
      name == NameIn(json.events)
  IN  IF /\ Size(eofFrame) \in 2..MaxSislLength
         /\ Head(eofFrame) = "open"
         /\ json.ok
         /\ Size(name) <= MaxFilenameLength
         /\ Matches(name)
      THEN name ELSE Rejected

(* setStoredFilename: a rejected file gets the number of its own temporary *)
(* file.                                                                   *)
StoredFilename(name) ==
  IF name = Rejected THEN Rejected \o <<"N">> ELSE name
-----------------------------------------------------------------------------
NameInit(names) ==
  /\ filename \in names
  /\ frame = <<>>
  /\ stored = <<>>
  /\ stage = "started"

Refuse ==
  /\ stage = "started"
  /\ ~TakesFilename(filename)
  /\ stage' = "refused"
  /\ UNCHANGED <<filename, frame, stored>>

SendEOFFrame ==
  /\ stage = "started"
  /\ TakesFilename(filename)
  /\ frame' = FilenameAsSisl(filename)
  /\ stage' = "sent"
  /\ UNCHANGED <<filename, stored>>

StoreFile ==
  /\ stage = "sent"
  /\ stored' = StoredFilename(ExtractFilename(frame))
  /\ stage' = "stored"
  /\ UNCHANGED <<filename, frame>>

NameStep == Refuse \/ SendEOFFrame \/ StoreFile

NameSpec == NameInit(Names) /\ [][NameStep]_nameVars
-----------------------------------------------------------------------------
(* Whatever the client sends, its file turns up under its own name or as   *)
(* the server's own rejected.N, never under a third name: the quotes and   *)
(* commas that could change the text's meaning do not get past the client. *)
NoThirdName ==
  stage = "stored" => stored \in {filename, Rejected \o <<"N">>}

(* A name survives the diode when its SISL text, 15 characters longer than *)
(* the name, is within the server's limit: no checks of the two ends       *)
(* disagree on its characters, and no word of the grammar gets lost.  Only *)
(* the word the server uses for having no name is not stored as itself.    *)
NameSurvives ==
  (/\ stage = "stored"
   /\ Size(filename) + 15 <= MaxSislLength
   /\ filename # Rejected)
    => stored = filename

(* README: "the maximum length of the filename (not the path) is 65        *)
(* characters".                                                            *)
NameOf65Kept ==
  (stage = "stored" /\ Size(filename) <= 65 /\ filename # Rejected)
    => stored = filename
=============================================================================
