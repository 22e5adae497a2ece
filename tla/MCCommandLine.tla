---------------------------- MODULE MCCommandLine ----------------------------
(***************************************************************************)
(* A small vocabulary for CommandMeaning: of each form of word some, and   *)
(* values that are no number, the widest that fits, the first that does    *)
(* not, too small or negative.                                             *)
(***************************************************************************)
EXTENDS CommandMeaning

Port == Value("65535", {65535})
Wide == Value("65536", {65536})
Small == Value("500", {500})
Minus == Value("-1", {-1})
Report == Value("report", {})

MCWord ==
  {Empty, Argument(Port), Argument(Report), Option("-c"), Option("--serverPort"),
   Option("-s"), Joined("-q", Minus), Joined("--mtu", Wide), Joined("-m", Small), Joined("-f", Report),
   Option("-r"), Bundle(<<"-d", "-i">>), Bundle(<<"-l", "-m">>), Option("-h"),
   Joined("-d", Port)}

MCGarbage == {0, 54321}
=============================================================================
