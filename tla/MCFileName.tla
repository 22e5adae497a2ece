----------------------------- MODULE MCFileName -----------------------------
(***************************************************************************)
(* Names of one or two words of every length around both limits, and names *)
(* with characters that mean something in SISL.                            *)
(***************************************************************************)
EXTENDS FileName

Clean == {"w1", "w2", "w49", "w50", "w51", "w64", "w65", "rejected.", "name"}

(* A name that, quoted, reads as two members.                              *)
TwoMembers == <<"w1", "quote", "comma", "name", "colon", "blank", "mark", "str",
                "blank", "quote", "w2">>

MCNames ==
  BoundedSeq(Clean \cup Punctuation, 2) \cup {TwoMembers}

MCLength ==
  [x \in Clean \cup Punctuation \cup {"str", "N"} |->
     CASE x = "w2" -> 2
       [] x = "str" -> 3
       [] x = "name" -> 4
       [] x = "rejected." -> 9
       [] x = "w49" -> 49
       [] x = "w50" -> 50
       [] x = "w51" -> 51
       [] x = "w64" -> 64
       [] x = "w65" -> 65
       [] OTHER -> 1]
=============================================================================
