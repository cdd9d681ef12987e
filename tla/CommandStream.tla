--------------------------- MODULE CommandStream ---------------------------
(***************************************************************************)
(* How commands travel: a client writes them to its connection one after   *)
(* the other, TCP carries bytes, and whatever one recv of the client's     *)
(* thread returns is handed to the parser as one command (tcp_client_thread*)
(* in transport/tcp/tcp_server.c, client_handler in app/main.c).  Nothing  *)
(* in the code looks for the end of a command.  The parses themselves are  *)
(* those of module TcpParser.                                              *)
(***************************************************************************)
EXTENDS TcpParser

CONSTANTS
  Scripts,    \* the sequences of commands each client may send
  RecvMax,    \* the most bytes recv returns: TCP_SERVER_BUFFER_SIZE - 1
  CutAt       \* how many bytes may arrive, when not all that were sent do

\* What recv returns fits the buffers of client_handler and of the parser, so
\* that their checks of its length never fire.
ASSUME CommandStreamAssumption ==
  /\ RecvMax \in Nat \ {0} /\ RecvMax < MaxInput
  /\ \A c \in Clients : Scripts[c] \subseteq Seq(Seq(Chars \ {Nul}) \ {<<>>})
  /\ CutAt \subseteq Nat \ {0}

VARIABLES
  sent,    \* history: the commands each client has sent
  wire,    \* the bytes of them that recv has not returned yet
  reads,   \* history: how many commands its thread has read
  input,   \* history: what recv returned last
  last,    \* history: the command it processed last, until it reads the next
  whole,   \* history: so far each recv returned exactly one command
  alone    \* history: no other thread parsed during its last parse

vars == <<parser, sent, wire, reads, input, last, whole, alone>>

Parsing == {c \in Clients : step[c] \notin {"idle", "lost"}}

\* A client sends its next command; it need not wait for an answer.
SendCommand(c) ==
  /\ \E script \in Scripts[c] :
       /\ IsStrictPrefix(sent[c], script)
       /\ LET text == script[Len(sent[c]) + 1] IN
            /\ sent' = [sent EXCEPT ![c] = Append(sent[c], text)]
            /\ wire' = [wire EXCEPT ![c] = wire[c] \o text]
  /\ UNCHANGED <<parser, reads, input, last, whole, alone>>

\* What recv may return of the bytes under way.
Chunks(c) ==
  {SubSeq(wire[c], 1, n) : n \in {Min({Len(wire[c]), RecvMax, k}) :
                                    k \in CutAt \cup {RecvMax}}} \ {<<>>}

\* recv returns some of the bytes; the handler passes them on to the parser.
Receive(c) ==
  \E text \in Chunks(c) :
    /\ Begin(c, text)
    /\ wire' = [wire EXCEPT ![c] = SubSeq(wire[c], Len(text) + 1, Len(wire[c]))]
    /\ whole' = [whole EXCEPT ![c] = /\ whole[c] /\ reads[c] < Len(sent[c])
                                     /\ text = sent[c][reads[c] + 1]]
    /\ reads' = [reads EXCEPT ![c] = reads[c] + 1]
    /\ input' = [input EXCEPT ![c] = text]
    /\ last' = [last EXCEPT ![c] = Invalid]
    /\ alone' = [d \in Clients |->
         IF d = c THEN Parsing = {} ELSE alone[d] /\ d \notin Parsing]
    /\ UNCHANGED sent

\* The parser reads the fields and returns, and the command is processed (module
\* Gateway).
Process(c) ==
  /\ step[c] = "done" /\ ~Overruns(c)
  /\ last' = [last EXCEPT ![c] = Parsed(c)]
  /\ Goto(c, "idle")
  /\ fields' = [fields EXCEPT ![c] = <<>>]
  /\ at' = [at EXCEPT ![c] = Pointer(c, 1)]
  /\ stop' = [stop EXCEPT ![c] = 1]
  /\ UNCHANGED <<buffer, save, sent, wire, reads, input, whole, alone>>

Init ==
  /\ ParserInit
  /\ sent = [c \in Clients |-> <<>>] /\ wire = [c \in Clients |-> <<>>]
  /\ reads = [c \in Clients |-> 0] /\ input = [c \in Clients |-> <<>>]
  /\ last = [c \in Clients |-> Invalid]
  /\ whole = [c \in Clients |-> TRUE] /\ alone = [c \in Clients |-> TRUE]

Thread(c) ==
  \/ Receive(c) \/ Process(c)
  \/ /\ Split(c) \/ Stray(c) \/ Overwrite(c)
     /\ UNCHANGED <<sent, wire, reads, input, last, whole, alone>>

Next == \E c \in Clients : SendCommand(c) \/ Thread(c)

Spec == Init /\ [][Next]_vars

-----------------------------------------------------------------------------
(* Properties.                                                              *)

\* Every variable has its type, and the parser writes inside its arrays only.
TypeOK ==
  /\ ParserTypeOK
  /\ sent \in [Clients -> Seq(Seq(Chars \ {Nul}))]
  /\ wire \in [Clients -> Seq(Chars \ {Nul})]
  /\ reads \in [Clients -> Nat] /\ input \in [Clients -> Texts]
  /\ last \in [Clients -> [type : {"SENSOR", "QUERY", "HELP", "INVALID"},
                            args : Seq(Seq(Chars))]]
  /\ whole \in [Clients -> BOOLEAN] /\ alone \in [Clients -> BOOLEAN]

\* The command read last was processed for what the client sent.
AsSent(c) ==
  (step[c] = "idle" /\ reads[c] > 0) => last[c] = Meaning(sent[c][reads[c]])

\* As long as recv returns one command at a time, a command during whose parse
\* no other thread parses is processed in its turn and for what it says, whatever
\* lay on the stack before, and whatever earlier parses, of this or of other
\* threads, mixed ones included, left in the position of strtok.
AloneAsSent == \A c \in Clients : (whole[c] /\ alone[c]) => AsSent(c)

\* A thread that parses alone never leaves the array, and never reads one whose
\* call is over: what lies behind its command is not looked at, and the position
\* earlier parses left in strtok is not used.  A read that returns half a command
\* or two of them is no exception.
AloneInBounds ==
  [][\A c \in Parsing : alone[c] => step'[c] # "lost"]_vars

\* How many steps a parse takes at most: seven for each token.
StepsLeft(c) ==
  LET places == MaxFields - Len(fields[c]) IN
  CASE step[c] \in {"idle", "lost"} -> 0
    [] step[c] = "done"  -> 1
    [] step[c] = "none"  -> 2
    [] step[c] = "end"   -> 7 * places + 2
    [] step[c] = "trim"  -> 7 * places + 3
    [] step[c] = "keep"  -> 7 * places + 4
    [] step[c] = "cut"   -> 7 * places + 5
    [] step[c] = "token" -> 7 * places + 6
    [] step[c] = "start" -> 7 * places + 7
    [] step[c] = "load"  -> 7 * places + 8

\* Every parse ends, or control is lost: each step of its thread brings it closer
\* to its end and no other step takes it further away, although other threads
\* move the position of strtok back and forth, even to where this thread has been
\* before.
ParseShrinks ==
  [][\A c \in Parsing :
       \/ StepsLeft(c)' \in 0 .. StepsLeft(c) - 1
       \/ UNCHANGED <<step[c], fields[c]>>]_vars

\* "Parse a TCP application command", "@param input Input command string",
\* "@param command Parsed command output" (tcp_parser.h:37): what is processed
\* is the command of the input.
WholeAsSent == \A c \in Clients : whole[c] => AsSent(c)
-----------------------------------------------------------------------------
(* Why the properties of a thread that parses alone hold.                   *)

\* A field that has been found: a string that ends at or before position r.
Found(c, k, r) ==
  LET f == fields[c][k] IN
  /\ f.owner = c
  /\ \E z \in f.pos .. r : buffer[c][z] = Nul
  /\ CString(buffer[c], f.pos) = FieldsOf(input[c])[k]

\* There is a field for each piece that starts before position r.
Before(c, r) ==
  /\ Len(fields[c]) = Cardinality(StartsTo(input[c], r - 1))
  /\ \A k \in 1 .. Len(fields[c]) : Found(c, k, r)

\* From position r on, where a call of strtok may start, the text is untouched.
Behind(c, r) ==
  LET T == input[c] IN
  /\ r \in 1 .. Len(T) + 1
  /\ r \in {1, Len(T) + 1} \/ T[r - 1] = Comma
  /\ \A k \in r .. Len(T) : buffer[c][k] = T[k]
  /\ buffer[c][Len(T) + 1] = Nul

Cutting(c, r) == Before(c, r) /\ Behind(c, r)

\* A piece of the text starts at position s, and ends before position e.
IsPiece(T, s, e) ==
  /\ s \in Starts(T) /\ e \in s + 1 .. Len(T) + 1
  /\ \A k \in s .. e - 1 : T[k] # Comma
  /\ e = Len(T) + 1 \/ T[e] = Comma

\* The piece at s is the next field, and the call after it starts at q.
Taken(c, s, q) ==
  /\ s \in Starts(input[c]) /\ s < q
  /\ Before(c, s) /\ Behind(c, q)
  /\ StartsTo(input[c], q - 1) = StartsTo(input[c], s)

\* Writing a NUL at position z leaves what is behind q untouched.
Apart(c, z, q) == z < q \/ z = Len(input[c]) + 1

\* The piece stands in the array as a string.
Stands(c, s, q) ==
  /\ \E z \in s .. q : buffer[c][z] = Nul /\ Apart(c, z, q)
  /\ CString(buffer[c], s) = Piece(input[c], s)

\* Its string, without the blanks around, is what ending it will leave at i.
Trimmed(c, i, q) ==
  LET m == Ended(buffer[c], i, stop[c]) IN
  /\ stop[c] \in i .. q /\ Apart(c, stop[c], q)
  /\ m[stop[c]] = Nul
  /\ CString(m, i) = FieldsOf(input[c])[Len(fields[c]) + 1]

\* All fields are found, or there are too many.
Complete(c) ==
  \/ Before(c, Len(input[c]) + 1)
  \/ Cardinality(Starts(input[c])) > MaxFields /\ fields[c] = <<>>

\* What holds at each step of a parse nobody disturbs.
At(c) ==
  LET p == at[c].pos
      T == input[c]
  IN
  CASE step[c] = "load"  -> save.owner = c /\ Cutting(c, save.pos)
    [] step[c] = "start" -> Cutting(c, p)
    [] step[c] = "none"  -> p = Len(T) + 1 /\ Cutting(c, p)
    [] step[c] = "token" -> p \in Starts(T) /\ Cutting(c, p)
    [] step[c] = "cut"   -> IsPiece(T, p, stop[c]) /\ stop[c] <= Len(T) /\ Cutting(c, p)
    [] step[c] = "keep"  -> Taken(c, p, stop[c]) /\ Stands(c, p, stop[c])
    [] step[c] = "trim"  -> /\ save.owner = c
                            /\ Taken(c, p, save.pos) /\ Stands(c, p, save.pos)
    [] step[c] = "end"   -> /\ save.owner = c
                            /\ \E s \in 1 .. p : Taken(c, s, save.pos)
                            /\ Trimmed(c, p, save.pos)
    [] OTHER             -> Complete(c)

ParseInv(c) ==
  /\ step[c] \notin {"load", "done"} => at[c].owner = c
  /\ At(c)

\* A thread that parses alone is the only one that parses.
Undisturbed == \A c \in Parsing : alone[c] => Parsing = {c} /\ ParseInv(c)

\* A command that was parsed alone is processed for what was read.
AloneAsRead ==
  \A c \in Clients :
    (alone[c] /\ step[c] = "idle" /\ reads[c] > 0) => last[c] = Meaning(input[c])

\* What is parsed was read, and what was read whole is what was sent.
Counted ==
  \A c \in Clients :
    /\ c \in Parsing => reads[c] > 0
    /\ whole[c] /\ reads[c] > 0 =>
         reads[c] <= Len(sent[c]) /\ input[c] = sent[c][reads[c]]

\* The inductive invariant.
StreamInv == TypeOK /\ Undisturbed /\ AloneAsRead /\ Counted

=============================================================================
