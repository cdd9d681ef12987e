----------------------------- MODULE TcpParser -----------------------------
(***************************************************************************)
(* The command parser (protocol/tcp/tcp_parser.c) as it runs in several    *)
(* client threads at once.  tcp_parser_parse copies its input to an array  *)
(* on the thread's stack and cuts it up with strtok, which keeps its       *)
(* position in one static variable for the whole process.  A step is one   *)
(* access to what threads share that way: the position, or the characters  *)
(* a pointer leads to; one scan for a character is one step.               *)
(*                                                                         *)
(* The array is not initialised, and after the call its place on the stack *)
(* holds whatever the thread does next, while the position of strtok may   *)
(* still lead there.  A scan that finds no end in the array, and any access*)
(* to an array whose call is over, may therefore do anything: control is   *)
(* "lost", and nothing is said of what follows.                            *)
(*                                                                         *)
(* A text is a sequence of characters in which a keyword counts as one, as *)
(* does any white space.  Signs, exponents and NUL bytes in a command are  *)
(* left out.  Module CommandStream starts the parses and uses the results. *)
(***************************************************************************)
EXTENDS Integers, FiniteSets, SequencesExt

CONSTANTS
  Clients,    \* one thread per client
  Chars,      \* the characters of a text, and the terminating NUL
  Digits,     \* the digits among them, with their values
  Names,      \* what strtod reads as a number besides digits: nan, inf
  IntMax,     \* INT_MAX
  MaxInput,   \* TCP_PARSER_MAX_INPUT
  MaxFields,  \* TCP_PARSER_MAX_FIELDS
  MaxDevice,  \* sizeof(device_id)
  Stack       \* what may lie where the array is, before the call and after it

Nul   == "NUL"
Comma == ","
Blank == " "

Texts    == {s \in Seq(Chars \ {Nul}) : Len(s) < MaxInput}
Memory   == [1 .. MaxInput -> Chars]
Pointers == [owner : Clients, pos : 1 .. MaxInput + 1]

ASSUME TcpParserAssumption ==
  /\ Clients # {}
  /\ {Nul, Comma, Blank, "SENSOR", "QUERY", "HELP"} \subseteq Chars
  /\ Digits \in [DOMAIN Digits -> 0 .. 9]
  /\ (DOMAIN Digits \cup Names) \subseteq Chars \ {Nul, Comma, Blank}
  /\ IntMax \in Nat /\ MaxDevice \in Nat
  /\ MaxInput \in Nat \ {0} /\ MaxFields \in Nat \ {0}
  /\ Stack # {} /\ Stack \subseteq Memory

VARIABLES
  step,    \* where a thread is in split_fields; "idle" outside of the parser
  buffer,  \* the array buffer on its stack, or what lies there otherwise
  fields,  \* the pointers found so far
  at,      \* the position its call of strtok, or of trim, works on
  stop,    \* the position it has found behind that
  save     \* the position strtok remembers, for all threads

parser == <<step, buffer, fields, at, stop, save>>

\* Where split_fields scans a string, and where else it is.
Scanning == {"start", "token", "trim", "done"}
Steps    == Scanning \cup {"idle", "load", "none", "cut", "keep", "end", "lost"}

Pointer(c, i) == [owner |-> c, pos |-> i]
Goto(c, point) == step' = [step EXCEPT ![c] = point]

\* The first position from i on that holds one of the characters in S.
FirstFrom(m, i, S) ==
  CHOOSE k \in i .. MaxInput : m[k] \in S /\ \A j \in i .. k - 1 : m[j] \notin S

\* The C string that starts at position i.
CString(m, i) == SubSeq(m, i, FirstFrom(m, i, {Nul}) - 1)

\* The memory m with the string that ends before position i.
EndAt(m, i) == [m EXCEPT ![i] = Nul]

\* Mutant: memcpy, without the terminating NUL.
CopyUnterminated(m, text) ==
  [k \in 1 .. MaxInput |-> IF k <= Len(text) THEN text[k] ELSE m[k]]

\* strcpy: what lies behind the terminating NUL stays.
Copy(m, text) ==
  [k \in 1 .. MaxInput |-> IF k <= Len(text) THEN text[k]
                           ELSE IF k = Len(text) + 1 THEN Nul ELSE m[k]]

-----------------------------------------------------------------------------
(* Scans.                                                                   *)

\* The array a thread works on, and what the scan of its next step looks for.
Scanned(c) == buffer[at[c].owner]
Sought(c)  == CASE step[c] = "start" -> Chars \ {Comma}
                [] step[c] = "token" -> {Comma, Nul}
                [] OTHER             -> {Nul}

\* Mutant: count > max_fields.
RoomBeyond(c) == Len(fields[c]) <= MaxFields

Room(c) == Len(fields[c]) < MaxFields

\* The strings a thread may touch at its next step.
Touched(c) ==
  CASE step[c] \in {"start", "token", "cut", "end"} -> {at[c]}
    [] step[c] = "trim" /\ Room(c)                  -> {at[c]}
    [] step[c] = "done"                             -> ToSet(fields[c])
    [] OTHER                                        -> {}

\* A scan of its next step finds no end in the array.
Overruns(c) ==
  /\ step[c] \in Scanning
  /\ \E p \in Touched(c) :
       \A k \in p.pos .. MaxInput : buffer[p.owner][k] \notin Sought(c)

\* It touches an array whose call is over.
TouchesDead(c) == \E p \in Touched(c) : step[p.owner] = "idle"

\* What follows is undefined.
Stray(c) ==
  /\ TouchesDead(c) \/ Overruns(c)
  /\ step' = [d \in Clients |-> "lost"]
  /\ UNCHANGED <<buffer, fields, at, stop, save>>

\* A thread outside of the parser uses its stack for something else.
Overwrite(c) ==
  /\ step[c] = "idle"
  /\ \E m \in Stack : buffer' = [buffer EXCEPT ![c] = m]
  /\ UNCHANGED <<step, fields, at, stop, save>>

-----------------------------------------------------------------------------
(* split_fields.                                                            *)

\* tcp_parser_parse copies its input and calls strtok(input, ",").  A thread that
\* scans the array while it is being filled reads what Stack allows it to hold.
Begin(c, text) ==
  /\ step[c] = "idle"
  /\ buffer' = [buffer EXCEPT ![c] = Copy(buffer[c], text)]
  /\ fields' = [fields EXCEPT ![c] = <<>>]
  /\ at' = [at EXCEPT ![c] = Pointer(c, 1)]
  /\ Goto(c, "start")
  /\ UNCHANGED <<stop, save>>

\* strtok(NULL, ",") reads the remembered position.
LoadPosition(c) ==
  /\ step[c] = "load"
  /\ at' = [at EXCEPT ![c] = save]
  /\ Goto(c, "start")
  /\ UNCHANGED <<buffer, fields, stop, save>>

\* It passes over the commas there.
FindStart(c) ==
  /\ step[c] = "start" /\ ~Overruns(c)
  /\ LET s == FirstFrom(Scanned(c), at[c].pos, Sought(c)) IN
       /\ at' = [at EXCEPT ![c] = Pointer(at[c].owner, s)]
       /\ Goto(c, IF Scanned(c)[s] = Nul THEN "none" ELSE "token")
  /\ UNCHANGED <<buffer, fields, stop, save>>

\* No token is left: it remembers the end of the string and returns NULL.
NoToken(c) ==
  /\ step[c] = "none"
  /\ save' = at[c]
  /\ Goto(c, "done")
  /\ UNCHANGED <<buffer, fields, at, stop>>

\* It finds the comma or NUL behind the token.
FindEnd(c) ==
  /\ step[c] = "token" /\ ~Overruns(c)
  /\ LET e == FirstFrom(Scanned(c), at[c].pos, Sought(c)) IN
       /\ stop' = [stop EXCEPT ![c] = e]
       /\ Goto(c, IF Scanned(c)[e] = Nul THEN "keep" ELSE "cut")
  /\ UNCHANGED <<buffer, fields, at, save>>

\* A comma is overwritten, and the next call starts behind it.
CutToken(c) ==
  /\ step[c] = "cut"
  /\ buffer' = [buffer EXCEPT ![at[c].owner] = EndAt(Scanned(c), stop[c])]
  /\ stop' = [stop EXCEPT ![c] = stop[c] + 1]
  /\ Goto(c, "keep")
  /\ UNCHANGED <<fields, at, save>>

\* It remembers where the next call starts and returns the token.
KeepPosition(c) ==
  /\ step[c] = "keep"
  /\ save' = Pointer(at[c].owner, stop[c])
  /\ Goto(c, "trim")
  /\ UNCHANGED <<buffer, fields, at, stop>>

\* split_fields returns -1; the command is rejected as one without fields is.
TooManyFields(c) ==
  /\ step[c] = "trim" /\ ~Room(c)
  /\ fields' = [fields EXCEPT ![c] = <<>>]
  /\ Goto(c, "done")
  /\ UNCHANGED <<buffer, at, stop, save>>

\* Mutant: white space before a field is kept.
TrimStartKeeps(m, i) == i

\* Where trim lets the string at position i begin, and where it ends it.
TrimStart(m, i) == FirstFrom(m, i, Chars \ {Blank})

\* Mutant: the last character that counts is lost.
TrimEndEarly(m, i) ==
  LET nul == FirstFrom(m, i, {Nul}) IN
  CHOOSE k \in i .. nul : m[k] # Blank /\ \A j \in k + 1 .. nul - 1 : m[j] = Blank

TrimEnd(m, i) ==
  LET nul == FirstFrom(m, i, {Nul}) IN
  CHOOSE k \in i .. nul : (k = i \/ m[k - 1] # Blank) /\ \A j \in k .. nul - 1 : m[j] = Blank

\* trim looks for the first and behind the last character that is not blank.
Trim(c) ==
  /\ step[c] = "trim" /\ Room(c) /\ ~Overruns(c)
  /\ LET i == TrimStart(Scanned(c), at[c].pos) IN
       /\ at' = [at EXCEPT ![c] = Pointer(at[c].owner, i)]
       /\ stop' = [stop EXCEPT ![c] = TrimEnd(Scanned(c), i)]
  /\ Goto(c, "end")
  /\ UNCHANGED <<buffer, fields, save>>

\* An empty string needs no end.
Ended(m, i, t) == IF t = i THEN m ELSE EndAt(m, t)

\* Mutant: a token of white space alone is passed over.
EndSolidField(c) ==
  /\ step[c] = "end"
  /\ buffer' = [buffer EXCEPT ![at[c].owner] = Ended(Scanned(c), at[c].pos, stop[c])]
  /\ fields' = IF stop[c] = at[c].pos THEN fields
               ELSE [fields EXCEPT ![c] = Append(fields[c], at[c])]
  /\ Goto(c, "load")
  /\ UNCHANGED <<at, stop, save>>

\* The string is ended there and becomes the next field.
EndField(c) ==
  /\ step[c] = "end"
  /\ buffer' = [buffer EXCEPT ![at[c].owner] = Ended(Scanned(c), at[c].pos, stop[c])]
  /\ fields' = [fields EXCEPT ![c] = Append(fields[c], at[c])]
  /\ Goto(c, "load")
  /\ UNCHANGED <<at, stop, save>>

Split(c) ==
  \/ LoadPosition(c) \/ FindStart(c) \/ NoToken(c) \/ FindEnd(c) \/ CutToken(c)
  \/ KeepPosition(c) \/ TooManyFields(c) \/ Trim(c) \/ EndField(c)

ParserInit ==
  /\ step = [c \in Clients |-> "idle"]
  /\ buffer \in [Clients -> Stack]
  /\ fields = [c \in Clients |-> <<>>]
  /\ at = [c \in Clients |-> Pointer(c, 1)]
  /\ stop = [c \in Clients |-> 1]
  /\ save = Pointer(CHOOSE c \in Clients : TRUE, 1)   \* set before it is read

-----------------------------------------------------------------------------
(* From fields to a command.                                                *)

Invalid == [type |-> "INVALID", args |-> <<>>]

IsNatural(f) == f # <<>> /\ \A k \in 1 .. Len(f) : f[k] \in DOMAIN Digits
Value(f)     == FoldLeft(LAMBDA n, d : 10 * n + Digits[d], 0, f)

\* parse_int and parse_double accept the whole field or nothing.
IsInt(f)    == IsNatural(f) /\ Value(f) <= IntMax
IsDouble(f) == IsNatural(f) \/ \E name \in Names : f = <<name>>

IsSensor(f) ==
  /\ Len(f) = 6 /\ f[1] = <<"SENSOR">>
  /\ f[2] # <<>> /\ Len(f[2]) < MaxDevice
  /\ \A k \in 3 .. 6 : IsDouble(f[k])

IsQuery(f) == Len(f) = 3 /\ f[1] = <<"QUERY">> /\ IsInt(f[2]) /\ IsInt(f[3])

IsHelp(f) == f = << <<"HELP">> >>

\* A reversed range is put in order.
Ordered(from, to) == IF Value(from) <= Value(to) THEN <<from, to>> ELSE <<to, from>>

\* parse_sensor, parse_query, and the comparisons of tcp_parser_parse.
Interpret(f) ==
  CASE IsSensor(f) -> [type |-> "SENSOR", args |-> Tail(f)]
    [] IsQuery(f)  -> [type |-> "QUERY", args |-> Ordered(f[2], f[3])]
    [] IsHelp(f)   -> [type |-> "HELP", args |-> <<>>]
    [] OTHER       -> Invalid

\* What the thread makes of the strings its pointers refer to by now.
Parsed(c) ==
  Interpret([k \in 1 .. Len(fields[c]) |->
    CString(buffer[fields[c][k].owner], fields[c][k].pos)])

-----------------------------------------------------------------------------
(* What a text means, by its commas alone: fields are the non-empty pieces  *)
(* between them, without the white space around.                            *)

Piece(text, i) ==
  CHOOSE s \in {SubSeq(text, i, j) : j \in i .. Len(text)} :
    /\ \A k \in 1 .. Len(s) : s[k] # Comma
    /\ i + Len(s) > Len(text) \/ text[i + Len(s)] = Comma

Stripped(s) ==
  LET solid == {k \in 1 .. Len(s) : s[k] # Blank} IN
  IF solid = {} THEN <<>> ELSE SubSeq(s, Min(solid), Max(solid))

\* Where the non-empty pieces start.
Starts(text) ==
  {i \in 1 .. Len(text) : text[i] # Comma /\ (i = 1 \/ text[i - 1] = Comma)}

StartsTo(text, i) == {j \in Starts(text) : j <= i}

FieldsOf(text) ==
  [k \in 1 .. Cardinality(Starts(text)) |->
     Stripped(Piece(text, CHOOSE i \in Starts(text) : Cardinality(StartsTo(text, i)) = k))]

Meaning(text) ==
  IF Len(FieldsOf(text)) > MaxFields THEN Invalid ELSE Interpret(FieldsOf(text))

-----------------------------------------------------------------------------
(* Every variable has its type.  Whichever threads parse at once, what the   *)
(* parser writes it writes inside one of the arrays, fields never holds more *)
(* than its eight places, and a pointer is at most one past its array.       *)
ParserTypeOK ==
  /\ step \in [Clients -> Steps]
  /\ buffer \in [Clients -> Memory]
  /\ fields \in [Clients -> Seq(Pointers)]
  /\ at \in [Clients -> Pointers]
  /\ stop \in [Clients -> 1 .. MaxInput + 1]
  /\ save \in Pointers
  /\ \A c \in Clients :
       /\ Len(fields[c]) <= MaxFields
       /\ step[c] \in {"cut", "end"} => stop[c] <= MaxInput
       /\ step[c] = "end" => Room(c)
=============================================================================
