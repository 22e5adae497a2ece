--------------------------- MODULE CommandMeaning ---------------------------
(***************************************************************************)
(* What a command line means, read at once: a definition that looks at all *)
(* its tokens, beside clara's loop over a buffered stream of them.         *)
(***************************************************************************)
EXTENDS CommandLine

WordTokens(w) == IF w = Empty THEN <<>> ELSE TokensOf(w)

(* A place is the number of a word and of a token of it.                   *)
PlacesOf(ws) ==
  UNION {{<<i, j>> : j \in DOMAIN WordTokens(ws[i])} : i \in DOMAIN ws}
Places == PlacesOf(line)
TokenAt(p) == WordTokens(line[p[1]])[p[2]]

Before(p, q) == p[1] < q[1] \/ (p[1] = q[1] /\ p[2] < q[2])
Follows(p, q) ==
  Before(p, q) /\ \A r \in Places : ~(Before(p, r) /\ Before(r, q))

(* The options the token at p names: one, or none.                         *)
OptsAt(p) ==
  {o \in Opts : TokenAt(p).type = "Option" /\ IsMatch(o, TokenAt(p).name)}
TakesValue(p) == \E o \in OptsAt(p) : o.kind \in {"text", "uint16", "double"}

(* The value that comes after p can be put into the variable of each       *)
(* option p names.                                                         *)
HasValue(p) ==
  \E q \in Places : /\ Follows(p, q)
                    /\ TokenAt(q).type = "Argument"
                    /\ \A o \in OptsAt(p) : Converts(o.kind, TokenAt(q).value)

(* The token at p cannot be read, given that all before it can.            *)
Misplaced(p) ==
  IF TokenAt(p).type = "Argument"
  THEN ~\E q \in Places : Follows(q, p) /\ TakesValue(q)
  ELSE \/ OptsAt(p) = {}
       \/ \E q \in Places : Before(q, p) /\ OptsAt(q) \cap OptsAt(p) # {}
       \/ TakesValue(p) /\ ~HasValue(p)

Meaning ==
  LET wrong == {p \in Places : Misplaced(p)}
      asked == {p \in Places : Help \in OptsAt(p)}
  IN  IF wrong \cup asked = {} THEN "params"
      ELSE IF \E p \in wrong : \A q \in asked : ~Before(q, p) THEN "error"
      ELSE "help"

Given(o) == {p \in Places : o \in OptsAt(p)}

BoundAsWritten ==
  \A o \in Opts : \A p \in Given(o) :
    IF o.kind = "flag"
    THEN bound[o.id] = Flag(TRUE)
    ELSE \E q \in Places : /\ Follows(p, q)
                           /\ bound[o.id] = Converted(o.kind, TokenAt(q).value)

DefaultsKept ==
  \A o \in Opts : Given(o) = {} => o.initial \in {bound[o.id], Uninitialised}

(* The loop over a buffered stream of tokens decides as the whole line     *)
(* read at once: refused exactly at its first unreadable token, help only  *)
(* before one, and when it is accepted each option of it - joined, bundled *)
(* or followed by its value - is in its variable, and every other variable *)
(* is as parseArgs set it up.                                              *)
ParsedAsWritten ==
  outcome # "parsing" =>
    /\ outcome = Meaning
    /\ outcome = "params" => BoundAsWritten /\ DefaultsKept

(* A port, MTU or queue length a program goes on with is the one that was  *)
(* written on the line, or, for a negative one, that one modulo 2^16: never *)
(* the remains of a number too wide for its variable.                      *)
NumbersFit ==
  outcome = "params" =>
    \A o \in Opts : \A p \in Given(o) :
      o.kind = "uint16" =>
        \E q \in Places :
          /\ Follows(p, q)
          /\ \E n \in TokenAt(q).value.num :
               n \in {bound[o.id].number, bound[o.id].number - 65536}

(* What parseArgs declares `.required()' was given when a program goes on. *)
RequiredGiven ==
  outcome = "params" => \A o \in Opts : o.required => Given(o) # {}

(* What -d says of the tester: "Server will drop all received packets".    *)
DropMeansDrop ==
  (outcome = "params" /\ program # "client" /\ bound["drop"].flag)
    => ~WritesFiles
=============================================================================
