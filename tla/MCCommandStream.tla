-------------------------- MODULE MCCommandStream --------------------------
(***************************************************************************)
(* Instances of CommandStream for TLC.  The limits are scaled down; the    *)
(* number of fields is what a SENSOR command needs.                        *)
(***************************************************************************)
EXTENDS CommandStream

MCDigits == [d \in {"1", "2"} |-> IF d = "1" THEN 1 ELSE 2]
MCChars  == {Nul, Comma, Blank, "SENSOR", "QUERY", "HELP", "d", "nan"}
              \cup DOMAIN MCDigits

\* What else lies on a stack: no NUL at all, and a comma as the last character.
MCStack == {[k \in 1 .. MaxInput |-> IF k = MaxInput THEN Comma ELSE "d"]}

SensorText == <<"SENSOR", ",", "d", ",", "1", ",", "2", ",", "nan", ",", "1", " ">>
QueryText  == <<"QUERY", ",", "2", "1", ",", "1">>
SwapText   == <<"QUERY", ",", "2", ",", "1">>
HelpText   == <<",", " ", "HELP", " ", ",", ",">>
ShortText  == <<"HELP">>
ManyFields == <<"d", ",", " ", ",", "d", ",", "d", ",", "d", ",", "d", ",", "d">>

CONSTANTS c1, c2

\* Six fields, too many with an empty one among them, and two commands one after
\* the other, the second in odd but accepted form; and a client that comes in
\* between.
MCScripts ==
  (c1 :> {<<SensorText>>, <<ManyFields>>, <<QueryText, HelpText>>})
    @@ (c2 :> {<<ShortText>>})

\* Two clients with one command each.
MCPair == (c1 :> {<<SwapText>>}) @@ (c2 :> {<<ShortText>>})
=============================================================================
