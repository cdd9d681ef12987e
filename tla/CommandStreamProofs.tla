------------------------ MODULE CommandStreamProofs ------------------------
(***************************************************************************)
(* For every number of clients, all texts and all contents of the stack:   *)
(* what the parser writes it writes inside its arrays, whatever its threads*)
(* do to each other; a thread that parses alone stays in its array, and a  *)
(* command that is read whole and parsed alone is processed for what it    *)
(* says; and every parse ends or loses control.                            *)
(***************************************************************************)
EXTENDS CommandStream, TcpParserProofs

-----------------------------------------------------------------------------
(* Types.                                                                   *)

StreamTypeOK ==
  /\ sent \in [Clients -> Seq(Seq(Chars \ {Nul}))]
  /\ wire \in [Clients -> Seq(Chars \ {Nul})]
  /\ reads \in [Clients -> Nat] /\ input \in [Clients -> Texts]
  /\ last \in [Clients -> Commands]
  /\ whole \in [Clients -> BOOLEAN] /\ alone \in [Clients -> BOOLEAN]

LEMMA TypeParts == TypeOK <=> ParserTypeOK /\ StreamTypeOK
BY DEF TypeOK, StreamTypeOK, Commands

\* What recv returns fits the parser's buffer.
LEMMA ChunkIs ==
  ASSUME TypeOK, NEW c \in Clients, NEW text \in Chunks(c)
  PROVE  /\ text \in Texts
         /\ SubSeq(wire[c], Len(text) + 1, Len(wire[c])) \in Seq(Chars \ {Nul})
<1>1. wire[c] \in Seq(Chars \ {Nul}) /\ Len(wire[c]) \in Nat
  BY TypeParts DEF StreamTypeOK
<1>2. RecvMax \in Nat /\ RecvMax < MaxInput
  BY CommandStreamAssumption
<1>3. PICK k \in CutAt \cup {RecvMax} :
        text = SubSeq(wire[c], 1, Min({Len(wire[c]), RecvMax, k}))
  BY DEF Chunks
<1>4. k \in Nat
  BY <1>2, CommandStreamAssumption
<1> DEFINE S == {Len(wire[c]), RecvMax, k}
           n == Min(S)
<1>5. S \in SUBSET Nat /\ S # {}
  BY <1>1, <1>2, <1>4
<1>6. n \in S /\ \A y \in S : n <= y
  <2>1. PICK x \in S : \A y \in S : x <= y
    BY <1>5, Least
  <2> HIDE DEF S
  <2> QED
    BY <2>1 DEF Min
<1>7. /\ n \in Nat /\ n <= Len(wire[c]) /\ n <= RecvMax
      /\ text = SubSeq(wire[c], 1, n)
  BY <1>1, <1>2, <1>3, <1>4, <1>6
<1> HIDE DEF n
<1>8. text \in Seq(Chars \ {Nul}) /\ Len(text) = n
  BY <1>1, <1>7
<1>9. SubSeq(wire[c], n + 1, Len(wire[c])) \in Seq(Chars \ {Nul})
  <2>1. \A j \in n + 1 .. Len(wire[c]) : wire[c][j] \in Chars \ {Nul}
    BY <1>1, <1>7
  <2> QED
    BY <1>1, <1>7, <2>1, SubSeqProperties
<1> QED
  BY <1>2, <1>7, <1>8, <1>9, Limits DEF Texts

\* What a client sends next.
LEMMA NextCommand ==
  ASSUME TypeOK, NEW c \in Clients, NEW script \in Scripts[c],
         IsStrictPrefix(sent[c], script)
  PROVE  script[Len(sent[c]) + 1] \in Seq(Chars \ {Nul})
<1>1. script \in Seq(Seq(Chars \ {Nul}) \ {<<>>})
  BY CommandStreamAssumption
<1>2. sent[c] \in Seq(Seq(Chars \ {Nul}))
  BY TypeParts DEF StreamTypeOK
<1>3. Len(sent[c]) <= Len(script) /\ sent[c] # script
      /\ SubSeq(sent[c], 1, Len(sent[c])) = SubSeq(script, 1, Len(sent[c]))
  BY DEF IsStrictPrefix, IsPrefix
<1>4. Len(sent[c]) # Len(script)
  <2>1. script \in Seq(Seq(Chars \ {Nul}))
    BY <1>1
  <2> QED
    BY <1>2, <1>3, <2>1, SubSeqFull
<1>5. Len(sent[c]) + 1 \in 1 .. Len(script)
  BY <1>1, <1>2, <1>3, <1>4
<1> QED
  BY <1>1, <1>5

LEMMA SendType ==
  ASSUME TypeOK, NEW c \in Clients, SendCommand(c)
  PROVE  TypeOK'
<1>1. PICK script \in Scripts[c] :
        /\ IsStrictPrefix(sent[c], script)
        /\ sent' = [sent EXCEPT ![c] = Append(sent[c], script[Len(sent[c]) + 1])]
        /\ wire' = [wire EXCEPT ![c] = wire[c] \o script[Len(sent[c]) + 1]]
        /\ UNCHANGED <<parser, reads, input, last, whole, alone>>
  BY DEF SendCommand
<1>2. script[Len(sent[c]) + 1] \in Seq(Chars \ {Nul})
  BY <1>1, NextCommand
<1>3. ParserTypeOK' /\ StreamTypeOK
  BY <1>1, TypeParts DEF parser, ParserTypeOK, Room
<1>4. StreamTypeOK'
  BY <1>1, <1>2, <1>3 DEF StreamTypeOK
<1> QED
  BY <1>3, <1>4 DEF TypeOK, StreamTypeOK, Commands

LEMMA ReceiveType ==
  ASSUME TypeOK, NEW c \in Clients, Receive(c)
  PROVE  TypeOK'
<1>1. PICK text \in Chunks(c) :
        /\ Begin(c, text)
        /\ wire' = [wire EXCEPT ![c] = SubSeq(wire[c], Len(text) + 1, Len(wire[c]))]
        /\ whole' = [whole EXCEPT ![c] = /\ whole[c] /\ reads[c] < Len(sent[c])
                                         /\ text = sent[c][reads[c] + 1]]
        /\ reads' = [reads EXCEPT ![c] = reads[c] + 1]
        /\ input' = [input EXCEPT ![c] = text]
        /\ last' = [last EXCEPT ![c] = Invalid]
        /\ alone' = [d \in Clients |->
             IF d = c THEN Parsing = {} ELSE alone[d] /\ d \notin Parsing]
        /\ UNCHANGED sent
  BY DEF Receive
<1>2. /\ text \in Texts
      /\ SubSeq(wire[c], Len(text) + 1, Len(wire[c])) \in Seq(Chars \ {Nul})
  BY ChunkIs
<1>3. ParserTypeOK /\ StreamTypeOK
  BY TypeParts
<1>4. ParserTypeOK'
  BY <1>1, <1>2, <1>3, BeginType
<1>5. Invalid \in Commands
  BY DEF Invalid, Commands
<1>6. alone' \in [Clients -> BOOLEAN]
  BY <1>1, <1>3 DEF StreamTypeOK
<1>7. whole' \in [Clients -> BOOLEAN]
  BY <1>1, <1>3 DEF StreamTypeOK
<1>8. /\ sent' \in [Clients -> Seq(Seq(Chars \ {Nul}))]
      /\ wire' \in [Clients -> Seq(Chars \ {Nul})]
      /\ reads' \in [Clients -> Nat] /\ last' \in [Clients -> Commands]
      /\ input' \in [Clients -> Texts]
  BY <1>1, <1>2, <1>3, <1>5 DEF StreamTypeOK
<1> QED
  BY <1>4, <1>6, <1>7, <1>8 DEF TypeOK, Commands

LEMMA ProcessType ==
  ASSUME TypeOK, NEW c \in Clients, Process(c)
  PROVE  TypeOK'
<1>1. ParserTypeOK /\ StreamTypeOK
  BY TypeParts
<1>2. Parsed(c) \in Commands
  BY <1>1, ParsedType DEF Process
<1>3. Pointer(c, 1) \in Pointers /\ <<>> \in Seq(Pointers) /\ Len(<<>>) <= MaxFields
  BY PointerType, Limits
<1>4. 1 \in 1 .. MaxInput + 1 /\ "idle" \in Steps
  BY Limits DEF Steps
<1>5. /\ step' = [step EXCEPT ![c] = "idle"] /\ fields' = [fields EXCEPT ![c] = <<>>]
      /\ at' = [at EXCEPT ![c] = Pointer(c, 1)] /\ stop' = [stop EXCEPT ![c] = 1]
      /\ buffer' = buffer /\ save' = save
  BY DEF Process, Goto
<1>6. /\ step' \in [Clients -> Steps] /\ buffer' \in [Clients -> Memory]
      /\ fields' \in [Clients -> Seq(Pointers)] /\ at' \in [Clients -> Pointers]
      /\ stop' \in [Clients -> 1 .. MaxInput + 1] /\ save' \in Pointers
  BY <1>1, <1>3, <1>4, <1>5, TypeIs
<1>7. ASSUME NEW d \in Clients
      PROVE  /\ Len(fields'[d]) <= MaxFields
             /\ step'[d] \in {"cut", "end"} => stop'[d] <= MaxInput
             /\ step'[d] = "end" => Room(d)'
  <2>1. CASE d = c
    BY <1>1, <1>3, <1>5, <2>1, TypeIs
  <2>2. CASE d # c
    BY <1>1, <1>5, <2>2, TypeIs DEF Room
  <2> QED
    BY <2>1, <2>2
<1>8. ParserTypeOK'
  BY <1>6, <1>7 DEF ParserTypeOK
<1>9. StreamTypeOK'
  BY <1>1, <1>2 DEF Process, StreamTypeOK
<1> QED
  BY <1>8, <1>9 DEF TypeOK, StreamTypeOK, Commands

LEMMA InitType == Init => TypeOK
<1> SUFFICES ASSUME Init PROVE TypeOK
  OBVIOUS
<1>1. (CHOOSE c \in Clients : TRUE) \in Clients
  BY TcpParserAssumption
<1>2. /\ \A c \in Clients : Pointer(c, 1) \in Pointers
      /\ 1 \in 1 .. MaxInput + 1 /\ "idle" \in Steps
      /\ <<>> \in Seq(Pointers) /\ Len(<<>>) <= MaxFields
  BY Limits, PointerType DEF Steps
<1>3. buffer \in [Clients -> Memory]
  BY TcpParserAssumption DEF Init, ParserInit
<1>4. ParserTypeOK
  BY <1>1, <1>2, <1>3 DEF Init, ParserInit, ParserTypeOK
<1>5. Invalid \in Commands /\ <<>> \in Seq(Seq(Chars \ {Nul})) /\ <<>> \in Seq(Chars \ {Nul})
  BY DEF Invalid, Commands
<1>6. <<>> \in Texts
  BY Limits DEF Texts
<1>7. StreamTypeOK
  BY <1>5, <1>6 DEF Init, StreamTypeOK
<1> QED
  BY <1>4, <1>7, TypeParts

LEMMA NextType == TypeOK /\ [Next]_vars => TypeOK'
<1> SUFFICES ASSUME TypeOK, [Next]_vars PROVE TypeOK'
  OBVIOUS
<1>1. CASE UNCHANGED vars
  BY <1>1 DEF vars, parser, TypeOK, ParserTypeOK, Room
<1>2. ASSUME NEW c \in Clients, Split(c) \/ Stray(c) \/ Overwrite(c),
             UNCHANGED <<sent, wire, reads, input, last, whole, alone>>
      PROVE  TypeOK'
  <2>1. ParserTypeOK' /\ StreamTypeOK
    BY <1>2, TypeParts, SplitType, StrayType
  <2>2. StreamTypeOK'
    BY <1>2, <2>1 DEF StreamTypeOK
  <2> QED
    BY <2>1, <2>2 DEF TypeOK, StreamTypeOK, Commands
<1> QED
  BY <1>1, <1>2, SendType, ReceiveType, ProcessType DEF Next, Thread

-----------------------------------------------------------------------------
(* A parse nobody disturbs.                                                 *)

\* What is known of every thread.
LEMMA Has ==
  ASSUME TypeOK, NEW c \in Clients
  PROVE  /\ ParserTypeOK
         /\ input[c] \in Texts /\ buffer[c] \in Memory
         /\ fields[c] \in Seq(Pointers) /\ Len(fields[c]) \in Nat /\ Len(fields[c]) <= MaxFields
         /\ at[c] \in Pointers /\ at[c].owner \in Clients /\ at[c].pos \in 1 .. MaxInput + 1
         /\ stop[c] \in 1 .. MaxInput + 1
         /\ MaxInput \in Nat /\ MaxFields \in Nat
         /\ Len(input[c]) \in Nat /\ Len(input[c]) + 1 \in 1 .. MaxInput
         /\ \A k \in 1 .. Len(input[c]) : input[c][k] \in Chars /\ input[c][k] # Nul
<1>1. ParserTypeOK /\ input[c] \in Texts
  BY TypeParts DEF StreamTypeOK
<1>2. /\ buffer[c] \in Memory /\ fields[c] \in Seq(Pointers) /\ at[c] \in Pointers
      /\ stop[c] \in 1 .. MaxInput + 1 /\ Len(fields[c]) <= MaxFields
  BY <1>1, TypeIs
<1> QED
  BY <1>1, <1>2, TextType, PointerType, Limits

\* Fields that have been found stay as they are under NULs written behind them.
LEMMA FoundStable ==
  ASSUME TypeOK, NEW c \in Clients, NEW k \in 1 .. Len(fields[c]),
         NEW r \in 1 .. MaxInput, NEW q \in r .. MaxInput, Found(c, k, r),
         input' = input, fields'[c][k] = fields[c][k],
         \A j \in 1 .. MaxInput :
           buffer'[c][j] = buffer[c][j] \/ (j >= r /\ buffer'[c][j] = Nul)
  PROVE  Found(c, k, q)'
<1> DEFINE p == fields[c][k].pos
           nul == FirstFrom(buffer[c], p, {Nul})
<1>1. MaxInput \in Nat /\ p \in 1 .. MaxInput + 1
  BY Has, PointerType
<1>2. /\ fields[c][k].owner = c
      /\ \E z \in p .. r : buffer[c][z] = Nul
      /\ CString(buffer[c], p) = FieldsOf(input[c])[k]
  BY DEF Found
<1> HIDE DEF p
<1>3. PICK z \in p .. r : buffer[c][z] = Nul
  BY <1>2
<1>4. z \in p .. MaxInput /\ p \in 1 .. MaxInput
  BY <1>1, <1>3
<1>5. nul \in p .. z /\ buffer[c][nul] = Nul
  BY <1>1, <1>3, <1>4, NulIs
<1> HIDE DEF nul
<1>6. ASSUME NEW j \in p .. nul PROVE buffer'[c][j] = buffer[c][j]
  <2>1. j \in 1 .. MaxInput /\ (j >= r => j = nul)
    BY <1>1, <1>3, <1>4, <1>5
  <2> QED
    BY <1>5, <2>1
<1>7. CString(buffer'[c], p) = CString(buffer[c], p)
  <2>1. \A j \in p .. FirstFrom(buffer[c], p, {Nul}) : buffer'[c][j] = buffer[c][j]
    BY <1>6 DEF nul
  <2> QED
    BY <1>3, <1>4, <2>1, CStringStable
<1>8. nul \in p .. q /\ buffer'[c][nul] = Nul
  <2>1. nul \in p .. nul
    BY <1>1, <1>5
  <2> QED
    BY <1>1, <1>3, <1>4, <1>5, <1>6, <2>1
<1> QED
  BY <1>2, <1>7, <1>8 DEF Found, p

LEMMA BeforeStable ==
  ASSUME TypeOK, NEW c \in Clients, NEW r \in 1 .. MaxInput, NEW q \in r .. MaxInput,
         Before(c, r), input' = input, fields'[c] = fields[c],
         StartsTo(input[c], q - 1) = StartsTo(input[c], r - 1),
         \A j \in 1 .. MaxInput :
           buffer'[c][j] = buffer[c][j] \/ (j >= r /\ buffer'[c][j] = Nul)
  PROVE  Before(c, q)'
<1>1. /\ Len(fields[c]) = Cardinality(StartsTo(input[c], r - 1))
      /\ \A k \in 1 .. Len(fields[c]) : Found(c, k, r)
  BY DEF Before
<1>2. ASSUME NEW k \in 1 .. Len(fields[c]) PROVE Found(c, k, q)'
  BY <1>1, FoundStable
<1> QED
  BY <1>1, <1>2 DEF Before

\* What is behind a position stays when NULs are written apart from it.
LEMMA BehindStable ==
  ASSUME TypeOK, NEW c \in Clients, NEW r \in 1 .. MaxInput,
         NEW q \in r .. Len(input[c]) + 1, Behind(c, r), input' = input,
         q \in {r, Len(input[c]) + 1} \/ input[c][q - 1] = Comma,
         \A j \in 1 .. MaxInput :
           buffer'[c][j] = buffer[c][j] \/ (Apart(c, j, q) /\ buffer'[c][j] = Nul)
  PROVE  Behind(c, q)'
<1> DEFINE T == input[c]
<1>1. Len(T) \in Nat /\ MaxInput \in Nat /\ Len(T) + 1 \in 1 .. MaxInput
  BY Has
<1>2. /\ r \in 1 .. Len(T) + 1
      /\ r \in {1, Len(T) + 1} \/ T[r - 1] = Comma
      /\ \A k \in r .. Len(T) : buffer[c][k] = T[k]
      /\ buffer[c][Len(T) + 1] = Nul
  BY DEF Behind
<1>3. q \in 1 .. Len(T) + 1 /\ (q \in {1, Len(T) + 1} \/ T[q - 1] = Comma)
  BY <1>1, <1>2
<1>4. buffer'[c][Len(T) + 1] = Nul
  BY <1>1, <1>2
<1>5. ASSUME NEW k \in q .. Len(T) PROVE buffer'[c][k] = T[k]
  <2>1. k \in r .. Len(T) /\ k \in 1 .. MaxInput /\ ~ (k < q) /\ k # Len(T) + 1
    BY <1>1
  <2>2. ~ Apart(c, k, q)
    BY <2>1 DEF Apart
  <2> QED
    BY <1>2, <2>1, <2>2
<1> QED
  BY <1>3, <1>4, <1>5 DEF Behind

\* Where a call of strtok may start stays so while nothing is written.
LEMMA CuttingStable ==
  ASSUME TypeOK, NEW c \in Clients, NEW r \in 1 .. MaxInput,
         NEW q \in r .. Len(input[c]) + 1, Cutting(c, r), input' = input,
         fields'[c] = fields[c], buffer'[c] = buffer[c],
         q \in {r, Len(input[c]) + 1} \/ input[c][q - 1] = Comma,
         StartsTo(input[c], q - 1) = StartsTo(input[c], r - 1)
  PROVE  Cutting(c, q)'
<1>1. q \in r .. MaxInput
  BY Has
<1>2. Before(c, r) /\ Behind(c, r)
  BY DEF Cutting
<1>3. Before(c, q)'
  BY <1>1, <1>2, BeforeStable
<1>4. Behind(c, q)'
  BY <1>2, BehindStable
<1> QED
  BY <1>3, <1>4 DEF Cutting

\* A field by the number of pieces that start up to its own.
LEMMA FieldIs ==
  ASSUME NEW T \in Texts, NEW s \in Starts(T)
  PROVE  /\ Cardinality(StartsTo(T, s)) \in 1 .. Cardinality(Starts(T))
         /\ FieldsOf(T)[Cardinality(StartsTo(T, s))] = Stripped(Piece(T, s))
<1> DEFINE n == Cardinality(StartsTo(T, s))
<1>1. s \in Int
  BY TextType, StartsFinite
<1>2. s \in StartsTo(T, s)
  BY <1>1 DEF StartsTo
<1>3. n # 0
  BY <1>2, StartsFinite, FS_EmptySet
<1>4. n \in 1 .. Cardinality(Starts(T))
  BY <1>3, StartsFinite
<1>5. (CHOOSE i \in Starts(T) : Cardinality(StartsTo(T, i)) = n) = s
  BY KthStart
<1> HIDE DEF n
<1>6. FieldsOf(T)[n] = Stripped(Piece(T, s))
  BY <1>4, <1>5 DEF FieldsOf
<1> QED
  BY <1>4, <1>6 DEF n

\* A command has been read: nothing of it is cut up yet.
LEMMA BeginParse ==
  ASSUME TypeOK, NEW c \in Clients, NEW text \in Texts, Begin(c, text), input'[c] = text
  PROVE  ParseInv(c)'
<1>1. /\ Len(text) \in Nat /\ step \in [Clients -> Steps] /\ buffer \in [Clients -> Memory]
      /\ fields \in [Clients -> Seq(Pointers)] /\ at \in [Clients -> Pointers]
  BY TextType, TypeParts, TypeIs
<1>2. /\ \A k \in 1 .. Len(text) : Copy(buffer[c], text)[k] = text[k]
      /\ Copy(buffer[c], text)[Len(text) + 1] = Nul
  BY <1>1, CopyIs
<1>3. /\ buffer'[c] = Copy(buffer[c], text) /\ fields'[c] = <<>>
      /\ at'[c] = Pointer(c, 1) /\ step'[c] = "start"
  BY <1>1 DEF Begin, Goto
<1>4. at'[c].owner = c /\ at'[c].pos = 1
  BY <1>3 DEF Pointer
<1>5. StartsTo(text, 1 - 1) = {}
  <2>1. ASSUME NEW j \in Starts(text) PROVE ~ (j <= 1 - 1)
    <3>1. j \in 1 .. Len(text)
      BY DEF Starts
    <3> QED
      BY ONLY <1>1, <3>1
  <2> QED
    BY <2>1 DEF StartsTo
<1>6. Before(c, 1)'
  <2>1. Len(fields'[c]) = Cardinality(StartsTo(text, 1 - 1))
    BY <1>3, <1>5, FS_EmptySet
  <2>2. \A k \in 1 .. Len(fields'[c]) : Found(c, k, 1)'
    BY <1>3
  <2> QED
    BY <2>1, <2>2 DEF Before
<1>7. Behind(c, 1)'
  BY <1>1, <1>2, <1>3 DEF Behind
<1> QED
  BY <1>3, <1>4, <1>6, <1>7 DEF ParseInv, At, Cutting

\* strtok finds the position it remembered.
LEMMA LoadParse ==
  ASSUME TypeOK, NEW c \in Clients, ParseInv(c), LoadPosition(c), input' = input
  PROVE  ParseInv(c)'
<1>0. PICK q : q = save.pos
  OBVIOUS
<1>1. save.owner = c /\ Cutting(c, q)
  BY <1>0 DEF LoadPosition, ParseInv, At, Cutting, Before, Behind, Found
<1>2. at'[c] = save /\ step'[c] = "start" /\ buffer' = buffer /\ fields' = fields
  BY TypeParts, TypeIs DEF LoadPosition, Goto
<1>3. q \in 1 .. Len(input[c]) + 1
  BY <1>1 DEF Cutting, Behind
<1>4. q \in 1 .. MaxInput /\ q \in q .. Len(input[c]) + 1
  BY <1>3, Has
<1>5. Cutting(c, q)'
  BY <1>1, <1>2, <1>4, CuttingStable
<1>6. Cutting(c, at[c].pos)'
  BY <1>0, <1>2, <1>5 DEF Cutting, Before, Behind, Found
<1> QED
  BY <1>1, <1>2, <1>6 DEF ParseInv, At

\* It passes over commas, to the next piece or the end of the text.
LEMMA StartParse ==
  ASSUME TypeOK, NEW c \in Clients, ParseInv(c), FindStart(c), input' = input
  PROVE  ParseInv(c)'
<1>0. PICK T, m, p, s :
        T = input[c] /\ m = buffer[c] /\ p = at[c].pos /\ s = FirstFrom(m, p, Chars \ {Comma})
  OBVIOUS
<1>1. step[c] = "start" /\ at[c].owner = c /\ Cutting(c, p)
  BY <1>0 DEF FindStart, ParseInv, At
<1>2. /\ T \in Texts /\ m \in Memory /\ Len(T) \in Nat /\ Len(T) + 1 \in 1 .. MaxInput
      /\ MaxInput \in Nat /\ \A k \in 1 .. Len(T) : T[k] \in Chars /\ T[k] # Nul
  BY <1>0, Has
<1>3. /\ p \in 1 .. Len(T) + 1
      /\ p \in {1, Len(T) + 1} \/ T[p - 1] = Comma
      /\ \A k \in p .. Len(T) : m[k] = T[k]
      /\ m[Len(T) + 1] = Nul
  BY <1>0, <1>1 DEF Cutting, Behind
<1>4. Scanned(c) = m /\ Sought(c) = Chars \ {Comma}
  BY <1>0, <1>1 DEF Scanned, Sought
<1>5. /\ s \in p .. Len(T) + 1 /\ m[s] \in Chars \ {Comma}
      /\ \A j \in p .. s - 1 : m[j] \notin Chars \ {Comma}
  <2>1. Nul \in Chars \ {Comma}
    BY Limits DEF Nul, Comma
  <2>2. Len(T) + 1 \in p .. MaxInput /\ p \in 1 .. MaxInput + 1 /\ m[Len(T) + 1] \in Chars \ {Comma}
    BY <1>2, <1>3, <2>1
  <2> QED
    BY <1>0, <2>2, FirstFromIs
<1>6. \A j \in p .. s - 1 : T[j] = Comma
  <2>1. \A j \in p .. s - 1 : j \in 1 .. MaxInput /\ j \in p .. Len(T)
    BY <1>2, <1>3, <1>5
  <2>2. \A j \in p .. s - 1 : m[j] \in Chars /\ m[j] = T[j]
    BY <1>2, <1>3, <2>1 DEF Memory
  <2> QED
    BY <1>5, <2>2
<1>7. /\ at'[c] = Pointer(c, s) /\ buffer' = buffer /\ fields' = fields
      /\ step'[c] = IF m[s] = Nul THEN "none" ELSE "token"
  BY <1>0, <1>1, <1>4, TypeParts, TypeIs DEF FindStart, Goto
<1>8. at'[c].owner = c /\ at'[c].pos = s
  BY <1>7 DEF Pointer
<1>9. StartsTo(T, s - 1) = StartsTo(T, p - 1)
  BY <1>2, <1>3, <1>5, <1>6, OnlyCommas
<1>10. p \in 1 .. MaxInput
  BY <1>2, <1>3
<1>11. CASE m[s] = Nul
  <2>1. s = Len(T) + 1
    <3>1. s \in p .. Len(T) => m[s] = T[s] /\ T[s] # Nul
      BY <1>2, <1>3
    <3> QED
      BY <1>2, <1>3, <1>5, <1>11, <3>1
  <2>2. Cutting(c, s)'
    BY <1>0, <1>1, <1>5, <1>7, <1>9, <1>10, <2>1, CuttingStable
  <2>3. Cutting(c, at[c].pos)'
    BY <1>8, <2>2 DEF Cutting, Before, Behind, Found
  <2> QED
    BY <1>0, <1>7, <1>8, <1>11, <2>1, <2>3 DEF ParseInv, At
<1>12. CASE m[s] # Nul
  <2>1. s \in p .. Len(T) /\ T[s] # Comma
    BY <1>2, <1>3, <1>5, <1>12
  <2>2. s \in Starts(T)
    BY <1>2, <1>3, <1>6, <2>1, StartHere
  <2>3. s = 1 \/ T[s - 1] = Comma
    BY <2>2 DEF Starts
  <2>4. s \in {p, Len(T) + 1} \/ T[s - 1] = Comma
    BY <1>2, <1>3, <1>5, <2>3
  <2>5. Cutting(c, s)'
    BY <1>0, <1>1, <1>5, <1>7, <1>9, <1>10, <2>4, CuttingStable
  <2>6. Cutting(c, at[c].pos)'
    BY <1>8, <2>5 DEF Cutting, Before, Behind, Found
  <2> QED
    BY <1>0, <1>7, <1>8, <1>12, <2>2, <2>6 DEF ParseInv, At
<1> QED
  BY <1>11, <1>12

\* No piece is left: all fields are found.
LEMMA NoTokenParse ==
  ASSUME TypeOK, NEW c \in Clients, ParseInv(c), NoToken(c), input' = input
  PROVE  ParseInv(c)'
<1> DEFINE q == Len(input[c]) + 1
<1>1. Cutting(c, q)
  <2>1. step[c] = "none"
    BY DEF NoToken
  <2>2. at[c].pos = q /\ Cutting(c, at[c].pos)
    BY <2>1 DEF ParseInv, At
  <2> QED
    BY <2>2 DEF Cutting, Before, Behind, Found
<1>2. step'[c] = "done" /\ buffer' = buffer /\ fields' = fields
  BY TypeParts, TypeIs DEF NoToken, Goto
<1>3. q \in 1 .. MaxInput /\ q \in q .. q /\ q \in q .. MaxInput
  BY Has
<1>4. Before(c, q)'
  BY <1>1, <1>2, <1>3, BeforeStable DEF Cutting
<1>5. Complete(c)'
  BY <1>4 DEF Complete
<1> QED
  BY <1>2, <1>5 DEF ParseInv, At

\* It finds the end of a piece.
LEMMA EndParse ==
  ASSUME TypeOK, NEW c \in Clients, ParseInv(c), FindEnd(c), input' = input
  PROVE  ParseInv(c)'
<1>0. PICK T, m, p, e :
        T = input[c] /\ m = buffer[c] /\ p = at[c].pos /\ e = FirstFrom(m, p, {Comma, Nul})
  OBVIOUS
<1>1. step[c] = "token" /\ at[c].owner = c /\ p \in Starts(T) /\ Cutting(c, p)
  BY <1>0 DEF FindEnd, ParseInv, At
<1>2. /\ T \in Texts /\ Len(T) \in Nat /\ Len(T) + 1 \in 1 .. MaxInput
      /\ MaxInput \in Nat /\ \A k \in 1 .. Len(T) : T[k] \in Chars /\ T[k] # Nul
  BY <1>0, Has
<1>3. /\ p \in 1 .. Len(T) + 1 /\ m[Len(T) + 1] = Nul
      /\ \A k \in p .. Len(T) : m[k] = T[k]
  BY <1>0, <1>1 DEF Cutting, Behind
<1>4. p \in 1 .. Len(T) /\ T[p] # Comma /\ p \in 1 .. MaxInput
  BY <1>1, <1>2 DEF Starts
<1>5. Scanned(c) = m /\ Sought(c) = {Comma, Nul}
  BY <1>0, <1>1 DEF Scanned, Sought
<1>6. /\ e \in p .. Len(T) + 1 /\ m[e] \in {Comma, Nul}
      /\ \A j \in p .. e - 1 : m[j] \notin {Comma, Nul}
  <2>1. Len(T) + 1 \in p .. MaxInput /\ p \in 1 .. MaxInput + 1 /\ m[Len(T) + 1] \in {Comma, Nul}
    BY <1>2, <1>3, <1>4
  <2> QED
    BY <1>0, <2>1, FirstFromIs
<1>7. e \in p + 1 .. Len(T) + 1
  <2>1. m[p] = T[p] /\ T[p] # Nul
    BY <1>2, <1>3, <1>4
  <2> QED
    BY <1>2, <1>4, <1>6, <2>1
<1>8. \A k \in p .. e - 1 : m[k] = T[k] /\ T[k] # Comma
  <2>1. \A k \in p .. e - 1 : k \in p .. Len(T)
    BY <1>2, <1>7
  <2> QED
    BY <1>3, <1>6, <2>1
<1>9. m[e] = Nul <=> e = Len(T) + 1
  <2>1. e # Len(T) + 1 => e \in p .. Len(T) /\ e \in 1 .. Len(T)
    BY <1>2, <1>4, <1>7
  <2> QED
    BY <1>2, <1>3, <2>1
<1>10. e = Len(T) + 1 \/ T[e] = Comma
  <2>1. e # Len(T) + 1 => e \in p .. Len(T)
    BY <1>2, <1>4, <1>7
  <2> QED
    BY <1>3, <1>6, <1>9, <2>1
<1>11. /\ stop'[c] = e /\ buffer' = buffer /\ fields' = fields /\ at' = at
       /\ step'[c] = IF m[e] = Nul THEN "keep" ELSE "cut"
  BY <1>0, <1>1, <1>5, TypeParts, TypeIs DEF FindEnd, Goto
<1>12. CASE m[e] # Nul
  <2>1. IsPiece(T, p, e) /\ e <= Len(T)
    BY <1>1, <1>2, <1>7, <1>8, <1>9, <1>10, <1>12 DEF IsPiece
  <2>2. Cutting(c, p)'
    BY <1>0, <1>1, <1>2, <1>3, <1>4, <1>11, CuttingStable
  <2>3. Cutting(c, at[c].pos)'
    BY <1>0, <1>11, <2>2 DEF Cutting, Before, Behind, Found
  <2> QED
    BY <1>0, <1>1, <1>11, <1>12, <2>1, <2>3 DEF ParseInv, At
<1>13. CASE m[e] = Nul
  <2>1. e = Len(T) + 1
    BY <1>9, <1>13
  <2>2. Before(c, p)'
    BY <1>0, <1>1, <1>2, <1>4, <1>11, BeforeStable DEF Cutting
  <2>3. Behind(c, e)'
    <3>1. e \in p .. Len(input[c]) + 1 /\ e \in {p, Len(input[c]) + 1}
      BY <1>0, <1>6, <2>1
    <3> QED
      BY <1>0, <1>1, <1>4, <1>11, <3>1, BehindStable DEF Cutting
  <2>4. StartsTo(T, e - 1) = StartsTo(T, p)
    BY <1>2, <1>4, <1>7, <1>8, <1>10, <2>1, WithinPiece
  <2>5. p < e /\ e \in p .. e
    BY <1>2, <1>4, <1>7
  <2>6. Taken(c, p, e)'
    BY <1>0, <1>1, <2>2, <2>3, <2>4, <2>5 DEF Taken
  <2>7. CString(m, p) = Piece(T, p)
    BY <1>2, <1>4, <1>7, <1>8, <1>10, <1>13, PieceStands
  <2>8. Stands(c, p, e)'
    BY <1>0, <1>11, <1>13, <2>1, <2>5, <2>7 DEF Stands, Apart
  <2>9. Taken(c, at[c].pos, stop[c])' /\ Stands(c, at[c].pos, stop[c])'
    BY <1>0, <1>11, <2>6, <2>8 DEF Taken, Stands, Before, Behind, Found, Apart
  <2> QED
    BY <1>1, <1>11, <1>13, <2>9 DEF ParseInv, At
<1> QED
  BY <1>12, <1>13

\* It cuts the piece off.
LEMMA CutParse ==
  ASSUME TypeOK, NEW c \in Clients, ParseInv(c), CutToken(c), input' = input
  PROVE  ParseInv(c)'
<1>0. PICK T, m, p, e :
        T = input[c] /\ m = buffer[c] /\ p = at[c].pos /\ e = stop[c]
  OBVIOUS
<1>1. /\ step[c] = "cut" /\ at[c].owner = c
      /\ IsPiece(T, p, e) /\ e <= Len(T) /\ Cutting(c, p)
  BY <1>0 DEF CutToken, ParseInv, At
<1>2. /\ T \in Texts /\ m \in Memory /\ Len(T) \in Nat /\ Len(T) + 1 \in 1 .. MaxInput
      /\ MaxInput \in Nat
  BY <1>0, Has
<1>3. /\ p \in 1 .. Len(T) + 1
      /\ \A k \in p .. Len(T) : m[k] = T[k]
  BY <1>0, <1>1 DEF Cutting, Behind
<1>4. /\ p \in Starts(T) /\ e \in p + 1 .. Len(T) /\ T[e] = Comma
      /\ \A k \in p .. e - 1 : T[k] # Comma
  BY <1>1, <1>2, <1>3 DEF IsPiece
<1>5. p \in 1 .. Len(T) /\ p \in 1 .. MaxInput /\ e \in 1 .. MaxInput /\ e \in p + 1 .. Len(T) + 1
  BY <1>1, <1>2, <1>4 DEF Starts
<1>6. /\ buffer'[c] = EndAt(m, e) /\ fields' = fields /\ at' = at
      /\ stop'[c] = e + 1 /\ step'[c] = "keep"
  BY <1>0, <1>1, TypeParts, TypeIs DEF CutToken, Scanned, Goto
<1>7. EndAt(m, e)[e] = Nul /\ \A k \in 1 .. MaxInput : k # e => EndAt(m, e)[k] = m[k]
  BY <1>2, <1>5, EndAtIs
<1>8. \A j \in 1 .. MaxInput :
        buffer'[c][j] = buffer[c][j]
        \/ (j >= p /\ Apart(c, j, e + 1) /\ buffer'[c][j] = Nul)
  <2>1. e >= p /\ Apart(c, e, e + 1)
    BY <1>5 DEF Apart
  <2> QED
    BY <1>0, <1>6, <1>7, <2>1
<1>9. Before(c, p)'
  <2>1. p \in p .. MaxInput
    BY <1>2, <1>5
  <2>2. \A j \in 1 .. MaxInput :
          buffer'[c][j] = buffer[c][j] \/ (j >= p /\ buffer'[c][j] = Nul)
    BY <1>8
  <2> QED
    BY <1>1, <1>5, <1>6, <2>1, <2>2, BeforeStable DEF Cutting
<1>10. Behind(c, e + 1)'
  <2>1. e + 1 \in p .. Len(input[c]) + 1 /\ input[c][(e + 1) - 1] = Comma
    BY <1>0, <1>2, <1>4, <1>5
  <2> DEFINE q == e + 1
  <2>2. q \in p .. Len(input[c]) + 1 /\ input[c][q - 1] = Comma
    BY <2>1
  <2>3. \A j \in 1 .. MaxInput :
          buffer'[c][j] = buffer[c][j] \/ (Apart(c, j, q) /\ buffer'[c][j] = Nul)
    BY <1>8
  <2> HIDE DEF q
  <2>4. Behind(c, q)'
    BY <1>1, <1>5, <2>2, <2>3, BehindStable DEF Cutting
  <2> QED
    BY <2>4 DEF q
<1>11. StartsTo(T, (e + 1) - 1) = StartsTo(T, p)
  <2>1. StartsTo(T, p) = StartsTo(T, IF e = Len(T) + 1 THEN e - 1 ELSE e)
    BY <1>2, <1>4, <1>5, WithinPiece
  <2>2. e # Len(T) + 1 /\ (e + 1) - 1 = e
    BY <1>2, <1>4
  <2> QED
    BY <2>1, <2>2
<1>12. p < e + 1 /\ e \in p .. e + 1 /\ e < e + 1
  BY <1>5
<1>13. Taken(c, p, e + 1)'
  BY <1>0, <1>4, <1>9, <1>10, <1>11, <1>12 DEF Taken
<1>14. CString(EndAt(m, e), p) = Piece(T, p)
  <2>1. \A k \in p .. e - 1 : EndAt(m, e)[k] = T[k]
    <3>1. \A k \in p .. e - 1 : k \in p .. Len(T) /\ k \in 1 .. MaxInput /\ k # e
      BY <1>2, <1>5
    <3> QED
      BY <1>3, <1>7, <3>1
  <2> QED
    BY <1>2, <1>4, <1>5, <1>7, <2>1, PieceStands
<1>15. Stands(c, p, e + 1)'
  BY <1>0, <1>6, <1>7, <1>12, <1>14 DEF Stands, Apart
<1>16. Taken(c, at[c].pos, stop[c])' /\ Stands(c, at[c].pos, stop[c])'
  BY <1>0, <1>6, <1>13, <1>15 DEF Taken, Stands, Before, Behind, Found, Apart
<1> QED
  BY <1>1, <1>6, <1>16 DEF ParseInv, At

\* It remembers where the next call starts.
LEMMA KeepParse ==
  ASSUME TypeOK, NEW c \in Clients, ParseInv(c), KeepPosition(c), input' = input
  PROVE  ParseInv(c)'
<1>1. /\ step[c] = "keep" /\ at[c].owner = c
      /\ Taken(c, at[c].pos, stop[c]) /\ Stands(c, at[c].pos, stop[c])
  BY DEF KeepPosition, ParseInv, At
<1>2. /\ save' = Pointer(c, stop[c]) /\ step'[c] = "trim"
      /\ buffer' = buffer /\ fields' = fields /\ at' = at
  BY <1>1, TypeParts, TypeIs DEF KeepPosition, Goto
<1>3. save'.owner = c /\ save'.pos = stop[c]
  BY <1>2 DEF Pointer
<1>4. Taken(c, at[c].pos, save.pos)' /\ Stands(c, at[c].pos, save.pos)'
  BY <1>1, <1>2, <1>3 DEF Taken, Stands, Before, Behind, Found, Apart
<1> QED
  BY <1>1, <1>2, <1>3, <1>4 DEF ParseInv, At

\* There are too many fields.
LEMMA TooManyParse ==
  ASSUME TypeOK, NEW c \in Clients, ParseInv(c), TooManyFields(c), input' = input
  PROVE  ParseInv(c)'
<1> DEFINE T == input[c]
           p == at[c].pos
<1>1. step[c] = "trim" /\ ~ Room(c) /\ Taken(c, p, save.pos)
  BY DEF TooManyFields, ParseInv, At
<1>2. p \in Starts(T) /\ Len(fields[c]) = Cardinality(StartsTo(T, p - 1))
  BY <1>1 DEF Taken, Before
<1>3. T \in Texts /\ Len(fields[c]) \in Nat /\ MaxFields \in Nat
  BY Has
<1>4. Cardinality(StartsTo(T, p)) = Len(fields[c]) + 1
  BY <1>2, <1>3, CountStarts
<1>5. /\ Cardinality(StartsTo(T, p)) <= Cardinality(Starts(T))
      /\ Cardinality(Starts(T)) \in Nat
  BY <1>3, StartsFinite
<1>6. Cardinality(Starts(T)) > MaxFields
  BY <1>1, <1>3, <1>4, <1>5 DEF Room
<1>7. fields'[c] = <<>> /\ step'[c] = "done"
  BY TypeParts, TypeIs DEF TooManyFields, Goto
<1>8. Complete(c)'
  BY <1>6, <1>7 DEF Complete
<1> QED
  BY <1>7, <1>8 DEF ParseInv, At

\* trim finds the field in the piece.
LEMMA TrimParse ==
  ASSUME TypeOK, NEW c \in Clients, ParseInv(c), Trim(c), input' = input
  PROVE  ParseInv(c)'
<1>0. PICK T, m, p, q, i, t :
        /\ T = input[c] /\ m = buffer[c] /\ p = at[c].pos /\ q = save.pos
        /\ i = TrimStart(m, p) /\ t = TrimEnd(m, i)
  OBVIOUS
<1>1. /\ step[c] = "trim" /\ at[c].owner = c /\ save.owner = c
      /\ Taken(c, p, q) /\ Stands(c, p, q)
  BY <1>0 DEF Trim, ParseInv, At, Taken, Stands, Before, Behind, Found, Apart
<1>2. /\ T \in Texts /\ m \in Memory /\ Len(T) \in Nat /\ Len(T) + 1 \in 1 .. MaxInput
      /\ MaxInput \in Nat
  BY <1>0, Has
<1>3. /\ p \in Starts(T) /\ q \in 1 .. Len(T) + 1
      /\ Len(fields[c]) = Cardinality(StartsTo(T, p - 1))
  BY <1>0, <1>1 DEF Taken, Before, Behind
<1>4. p \in 1 .. MaxInput
  BY <1>2, <1>3 DEF Starts
<1>5. PICK z \in p .. q : m[z] = Nul /\ (z < q \/ z = Len(T) + 1)
  BY <1>0, <1>1 DEF Stands, Apart
<1>6. z \in p .. MaxInput
  BY <1>2, <1>3, <1>4
<1>7. /\ i \in p .. z /\ t \in i .. z /\ Ended(m, i, t)[t] = Nul
      /\ CString(Ended(m, i, t), i) = Stripped(CString(m, p))
  BY <1>0, <1>2, <1>4, <1>5, <1>6, TrimIs
<1>8. CString(m, p) = Piece(T, p)
  BY <1>0, <1>1 DEF Stands
<1>9. FieldsOf(T)[Len(fields[c]) + 1] = Stripped(Piece(T, p))
  <2>1. Cardinality(StartsTo(T, p)) = Len(fields[c]) + 1
    BY <1>2, <1>3, CountStarts
  <2> QED
    BY <1>2, <1>3, <2>1, FieldIs
<1>10. /\ at'[c] = Pointer(c, i) /\ stop'[c] = t /\ step'[c] = "end"
       /\ buffer' = buffer /\ fields' = fields /\ save' = save
  BY <1>0, <1>1, TypeParts, TypeIs DEF Trim, Scanned, Goto
<1>11. at'[c].owner = c /\ at'[c].pos = i
  BY <1>10 DEF Pointer
<1>12. t \in i .. q /\ p \in 1 .. i /\ (t < q \/ t = Len(T) + 1)
  BY <1>2, <1>3, <1>4, <1>5, <1>7
<1>13. Taken(c, p, q)'
  BY <1>1, <1>10 DEF Taken, Before, Behind, Found
<1>14. Trimmed(c, i, q)'
  BY <1>0, <1>7, <1>8, <1>9, <1>10, <1>12 DEF Trimmed, Apart
<1>15. (\E s \in 1 .. at[c].pos : Taken(c, s, save.pos))' /\ Trimmed(c, at[c].pos, save.pos)'
  BY <1>0, <1>10, <1>11, <1>12, <1>13, <1>14
     DEF Trimmed, Apart, Taken, Before, Behind, Found
<1> QED
  BY <1>1, <1>10, <1>11, <1>15 DEF ParseInv, At

\* The field is ended and kept.
LEMMA FieldParse ==
  ASSUME TypeOK, NEW c \in Clients, ParseInv(c), EndField(c), input' = input
  PROVE  ParseInv(c)'
<1>0. PICK T, m, i, q, t, n :
        /\ T = input[c] /\ m = buffer[c] /\ i = at[c].pos /\ q = save.pos /\ t = stop[c]
        /\ n = Len(fields[c])
  OBVIOUS
<1>1. /\ step[c] = "end" /\ at[c].owner = c /\ save.owner = c
      /\ \E s \in 1 .. i : Taken(c, s, q)
      /\ Trimmed(c, i, q)
  BY <1>0 DEF EndField, ParseInv, At, Taken, Trimmed, Before, Behind, Found, Apart
<1>2. PICK s \in 1 .. i : Taken(c, s, q)
  BY <1>1
<1> DEFINE m2 == Ended(m, i, t)
<1>3. /\ T \in Texts /\ m \in Memory /\ Len(T) \in Nat /\ Len(T) + 1 \in 1 .. MaxInput
      /\ MaxInput \in Nat /\ i \in 1 .. MaxInput + 1 /\ fields[c] \in Seq(Pointers) /\ n \in Nat
      /\ at[c] \in Pointers /\ t \in 1 .. MaxInput + 1
  BY <1>0, Has
<1>4. /\ s \in Starts(T) /\ Before(c, s) /\ Behind(c, q) /\ q \in 1 .. Len(T) + 1
      /\ StartsTo(T, q - 1) = StartsTo(T, s)
  BY <1>0, <1>2 DEF Taken, Behind
<1>5. /\ t \in i .. q /\ (t < q \/ t = Len(T) + 1) /\ m2[t] = Nul
      /\ CString(m2, i) = FieldsOf(T)[n + 1]
  BY <1>0, <1>1 DEF Trimmed, Apart
<1>6. s \in 1 .. MaxInput /\ q \in s .. MaxInput /\ t >= s /\ t \in 1 .. MaxInput /\ q \in 1 .. MaxInput
  BY <1>3, <1>4, <1>5
<1>7. \A k \in 1 .. MaxInput : m2[k] = m[k] \/ (k = t /\ m2[k] = Nul)
  BY <1>3, <1>5, <1>6, EndAtIs DEF Ended
<1>8. /\ buffer'[c] = m2 /\ fields'[c] = Append(fields[c], at[c])
      /\ step'[c] = "load" /\ save' = save
  BY <1>0, <1>1, TypeParts, TypeIs DEF EndField, Scanned, Goto
<1> HIDE DEF m2
<1>9. /\ Len(fields'[c]) = n + 1 /\ fields'[c][n + 1] = at[c]
      /\ \A k \in 1 .. n : fields'[c][k] = fields[c][k]
  BY <1>0, <1>3, <1>8, AppendProperties
<1>10. /\ n = Cardinality(StartsTo(T, s - 1))
       /\ \A k \in 1 .. n : Found(c, k, s)
  BY <1>0, <1>4 DEF Before
<1>11. \A j \in 1 .. MaxInput :
         buffer'[c][j] = buffer[c][j] \/ (j >= s /\ Apart(c, j, q) /\ buffer'[c][j] = Nul)
  BY <1>0, <1>5, <1>6, <1>7, <1>8 DEF Apart
<1>12. ASSUME NEW k \in 1 .. n PROVE Found(c, k, q)'
  <2>1. k \in 1 .. Len(fields[c]) /\ Found(c, k, s) /\ fields'[c][k] = fields[c][k]
    BY <1>0, <1>9, <1>10
  <2>2. \A j \in 1 .. MaxInput :
          buffer'[c][j] = buffer[c][j] \/ (j >= s /\ buffer'[c][j] = Nul)
    BY <1>11
  <2> QED
    BY <1>6, <2>1, <2>2, FoundStable
<1>13. Found(c, n + 1, q)'
  BY <1>0, <1>1, <1>5, <1>8, <1>9 DEF Found
<1>14. \A k \in 1 .. Len(fields'[c]) : Found(c, k, q)'
  <2>1. \A k \in 1 .. Len(fields'[c]) : k \in 1 .. n \/ k = n + 1
    BY <1>3, <1>9
  <2> QED
    BY <1>12, <1>13, <2>1
<1>15. Len(fields'[c]) = Cardinality(StartsTo(T, q - 1))
  <2>1. Cardinality(StartsTo(T, s)) = Cardinality(StartsTo(T, s - 1)) + 1
    BY <1>3, <1>4, CountStarts
  <2> QED
    BY <1>4, <1>9, <1>10, <2>1
<1>16. Before(c, q)'
  BY <1>0, <1>14, <1>15 DEF Before
<1>17. Behind(c, q)'
  <2>1. q \in q .. Len(input[c]) + 1 /\ q \in {q, Len(input[c]) + 1}
    BY <1>0, <1>3, <1>4
  <2>2. \A j \in 1 .. MaxInput :
          buffer'[c][j] = buffer[c][j] \/ (Apart(c, j, q) /\ buffer'[c][j] = Nul)
    BY <1>11
  <2> QED
    BY <1>4, <1>6, <2>1, <2>2, BehindStable
<1>18. Cutting(c, save.pos)'
  BY <1>0, <1>8, <1>16, <1>17 DEF Cutting, Before, Behind, Found
<1> QED
  BY <1>1, <1>8, <1>18 DEF ParseInv, At

\* What a thread that parses alone touches next is in its own array and ends there.
LEMMA InBounds ==
  ASSUME TypeOK, NEW c \in Clients, c \in Parsing, ParseInv(c)
  PROVE  ~ Overruns(c) /\ ~ TouchesDead(c)
<1> DEFINE T == input[c]
           Safe(p) == /\ p.owner = c
                      /\ step[c] \in Scanning =>
                           \E k \in p.pos .. MaxInput : buffer[c][k] \in Sought(c)
<1>1. /\ Len(T) \in Nat /\ Len(T) + 1 \in 1 .. MaxInput /\ MaxInput \in Nat
      /\ at[c].pos \in 1 .. MaxInput + 1
  BY Has
<1>2. step[c] \in Steps /\ step[c] # "idle"
  BY TypeParts, TypeIs DEF Parsing
<1>3. ASSUME step[c] \in {"start", "token", "cut"} PROVE Safe(at[c])
  <2>1. at[c].owner = c /\ Cutting(c, at[c].pos)
    BY <1>3 DEF ParseInv, At
  <2>2. Len(T) + 1 \in at[c].pos .. MaxInput /\ buffer[c][Len(T) + 1] = Nul
    BY <1>1, <2>1 DEF Cutting, Behind
  <2>3. step[c] \in Scanning => Nul \in Sought(c)
    BY <1>3, Limits DEF Sought, Scanning, Nul, Comma
  <2> QED
    BY <2>1, <2>2, <2>3
<1>4. ASSUME step[c] = "trim" PROVE Safe(at[c])
  <2>1. at[c].owner = c /\ Taken(c, at[c].pos, save.pos) /\ Stands(c, at[c].pos, save.pos)
    BY <1>4 DEF ParseInv, At
  <2>2. PICK z \in at[c].pos .. save.pos : buffer[c][z] = Nul
    BY <2>1 DEF Stands
  <2>3. save.pos \in 1 .. Len(T) + 1
    BY <2>1 DEF Taken, Behind
  <2>4. z \in at[c].pos .. MaxInput
    BY <1>1, <2>3
  <2> QED
    BY <1>4, <2>1, <2>2, <2>4 DEF Sought
<1>5. ASSUME step[c] = "end" PROVE Safe(at[c])
  BY <1>5 DEF ParseInv, Scanning
<1>6. ASSUME step[c] = "done", NEW p \in ToSet(fields[c]) PROVE Safe(p)
  <2>1. PICK k \in 1 .. Len(fields[c]) : fields[c][k] = p
    BY Has DEF ToSet
  <2>2. Complete(c) /\ fields[c] # <<>>
    BY <1>6, <2>1 DEF ParseInv, At
  <2>3. Found(c, k, Len(T) + 1)
    BY <2>2 DEF Complete, Before
  <2>4. PICK z \in p.pos .. Len(T) + 1 : buffer[c][z] = Nul
    BY <2>1, <2>3 DEF Found
  <2>5. p.owner = c /\ p.pos \in 1 .. MaxInput + 1
    BY <2>1, <2>3, Has, PointerType DEF Found
  <2>6. z \in p.pos .. MaxInput
    BY <1>1, <2>5
  <2> QED
    BY <1>6, <2>4, <2>5, <2>6 DEF Sought
<1> HIDE DEF Safe
<1>7. \A p \in Touched(c) : Safe(p)
  BY <1>2, <1>3, <1>4, <1>5, <1>6 DEF Touched
<1> USE DEF Safe
<1> QED
  BY <1>2, <1>7 DEF Overruns, TouchesDead

\* The command is processed for what it says.
LEMMA ProcessParse ==
  ASSUME TypeOK, NEW c \in Clients, ParseInv(c), step[c] = "done"
  PROVE  Parsed(c) = Meaning(input[c])
<1> DEFINE T == input[c]
           n == Cardinality(Starts(T))
           f == [k \in 1 .. Len(fields[c]) |->
                   CString(buffer[fields[c][k].owner], fields[c][k].pos)]
<1>1. T \in Texts /\ Complete(c)
  BY Has DEF ParseInv, At
<1>2. Len(fields[c]) <= MaxFields /\ MaxFields \in Nat /\ Len(T) \in Nat
  BY Has
<1>3. n \in Nat
  BY <1>1, StartsFinite
<1>4. Len(FieldsOf(T)) = n /\ DOMAIN FieldsOf(T) = 1 .. n
  BY <1>3 DEF FieldsOf
<1>5. Parsed(c) = Interpret(f)
  BY DEF Parsed
<1>6. CASE Before(c, Len(T) + 1)
  <2>1. Len(fields[c]) = n
    <3>1. (Len(T) + 1) - 1 = Len(T)
      BY <1>2
    <3> QED
      BY <1>1, <1>6, <3>1, CountStarts DEF Before
  <2>2. ASSUME NEW k \in 1 .. n PROVE f[k] = FieldsOf(T)[k]
    BY <1>6, <2>1 DEF Before, Found
  <2>3. f = FieldsOf(T)
    <3>1. f = [k \in 1 .. n |-> f[k]]
      BY <2>1
    <3>2. FieldsOf(T) = [k \in 1 .. n |-> FieldsOf(T)[k]]
      BY DEF FieldsOf
    <3> HIDE DEF f
    <3> QED
      BY <2>2, <3>1, <3>2
  <2>4. ~ (Len(FieldsOf(T)) > MaxFields)
    BY <1>2, <1>3, <1>4, <2>1
  <2> QED
    BY <1>5, <2>3, <2>4 DEF Meaning
<1>7. CASE n > MaxFields /\ fields[c] = <<>>
  <2>1. Len(f) = 0
    BY <1>7
  <2>2. Interpret(f) = Invalid
    BY <2>1, InterpretNothing
  <2> QED
    BY <1>4, <1>5, <1>7, <2>2 DEF Meaning
<1> QED
  BY <1>1, <1>6, <1>7 DEF Complete

-----------------------------------------------------------------------------
(* The steps of the invariant.                                              *)

LEMMA ParseFrame ==
  ASSUME NEW c \in Clients, ParseInv(c), input'[c] = input[c],
         step'[c] = step[c], buffer'[c] = buffer[c], fields'[c] = fields[c],
         at'[c] = at[c], stop'[c] = stop[c], save' = save
  PROVE  ParseInv(c)'
<1>1. \A k, r : Found(c, k, r)' <=> Found(c, k, r)
  BY DEF Found
<1>2. \A r : Before(c, r)' <=> Before(c, r)
  BY <1>1 DEF Before
<1>3. \A r : Behind(c, r)' <=> Behind(c, r)
  BY DEF Behind
<1>4. \A z, q : Apart(c, z, q)' <=> Apart(c, z, q)
  BY DEF Apart
<1>5. \A s, q : Taken(c, s, q)' <=> Taken(c, s, q)
  BY <1>2, <1>3 DEF Taken
<1>6. \A s, q : Stands(c, s, q)' <=> Stands(c, s, q)
  BY <1>4 DEF Stands
<1>7. \A i, q : Trimmed(c, i, q)' <=> Trimmed(c, i, q)
  BY <1>4 DEF Trimmed
<1>8. Complete(c)' <=> Complete(c)
  BY <1>2 DEF Complete
<1> QED
  BY <1>2, <1>3, <1>5, <1>6, <1>7, <1>8 DEF ParseInv, At, Cutting

LEMMA SplitParse ==
  ASSUME TypeOK, NEW c \in Clients, ParseInv(c), Split(c), input' = input
  PROVE  ParseInv(c)'
BY LoadParse, StartParse, NoTokenParse, EndParse, CutParse, KeepParse, TooManyParse,
   TrimParse, FieldParse DEF Split

\* Where the steps of split_fields lead.
LEMMA SplitSteps ==
  ASSUME TypeOK, NEW c \in Clients, Split(c)
  PROVE  /\ c \in Parsing /\ step'[c] \in Steps \ {"idle", "lost"}
         /\ \A d \in Clients : d # c => step'[d] = step[d]
<1>1. step \in [Clients -> Steps]
  BY TypeParts, TypeIs
<1> QED
  BY <1>1 DEF Split, LoadPosition, FindStart, NoToken, FindEnd, CutToken, KeepPosition,
              TooManyFields, Trim, EndField, Goto, Parsing, Steps, Scanning

\* While a thread parses alone, no other one does.
LEMMA OthersIdle ==
  ASSUME StreamInv, NEW c \in Parsing, NEW d \in Parsing, alone[d]
  PROVE  d = c
BY DEF StreamInv, Undisturbed

LEMMA SendInv ==
  ASSUME StreamInv, NEW c \in Clients, SendCommand(c)
  PROVE  StreamInv'
<1>1. PICK script \in Scripts[c] :
        /\ IsStrictPrefix(sent[c], script)
        /\ sent' = [sent EXCEPT ![c] = Append(sent[c], script[Len(sent[c]) + 1])]
        /\ UNCHANGED <<parser, reads, input, last, whole, alone>>
  BY DEF SendCommand
<1>2. TypeOK /\ Undisturbed /\ AloneAsRead /\ Counted
  BY DEF StreamInv
<1>3. /\ sent \in [Clients -> Seq(Seq(Chars \ {Nul}))] /\ reads \in [Clients -> Nat]
      /\ script[Len(sent[c]) + 1] \in Seq(Chars \ {Nul})
  BY <1>1, <1>2, NextCommand DEF TypeOK
<1>4. ASSUME NEW d \in Clients
      PROVE  /\ Len(sent'[d]) >= Len(sent[d])
             /\ \A k \in 1 .. Len(sent[d]) : sent'[d][k] = sent[d][k]
  <2>1. /\ Len(Append(sent[c], script[Len(sent[c]) + 1])) = Len(sent[c]) + 1
        /\ \A k \in 1 .. Len(sent[c]) :
             Append(sent[c], script[Len(sent[c]) + 1])[k] = sent[c][k]
    BY <1>3, AppendProperties
  <2>2. sent[d] \in Seq(Seq(Chars \ {Nul})) /\ Len(sent[d]) \in Nat
    BY <1>3
  <2>3. CASE d = c
    BY <1>1, <1>3, <2>1, <2>2, <2>3
  <2>4. CASE d # c
    BY <1>1, <1>3, <2>2, <2>4
  <2> QED
    BY <2>3, <2>4
<1>5. /\ step' = step /\ buffer' = buffer /\ fields' = fields /\ at' = at /\ save' = save
      /\ stop' = stop
      /\ reads' = reads /\ input' = input /\ last' = last /\ whole' = whole /\ alone' = alone
  BY <1>1 DEF parser
<1>6. Undisturbed'
  <2>1. \A d \in Clients : ParseInv(d) => ParseInv(d)'
    BY <1>5, ParseFrame
  <2> QED
    BY <1>2, <1>5, <2>1 DEF Undisturbed, Parsing
<1>7. AloneAsRead'
  BY <1>2, <1>5 DEF AloneAsRead
<1>8. Counted'
  <2> SUFFICES ASSUME NEW d \in Clients
               PROVE  /\ d \in Parsing' => reads'[d] > 0
                      /\ whole'[d] /\ reads'[d] > 0 =>
                           reads'[d] <= Len(sent'[d]) /\ input'[d] = sent'[d][reads'[d]]
    BY DEF Counted
  <2>1. d \in Parsing' => reads'[d] > 0
    BY <1>2, <1>5 DEF Counted, Parsing
  <2>2. ASSUME whole[d], reads[d] > 0
        PROVE  reads[d] <= Len(sent'[d]) /\ input[d] = sent'[d][reads[d]]
    <3>1. /\ reads[d] \in Nat /\ reads[d] <= Len(sent[d]) /\ input[d] = sent[d][reads[d]]
          /\ Len(sent[d]) \in Nat /\ Len(sent'[d]) \in Nat
      BY <1>1, <1>2, <1>3, <2>2 DEF Counted
    <3>2. reads[d] \in 1 .. Len(sent[d])
      BY <2>2, <3>1
    <3> QED
      BY <1>4, <3>1, <3>2
  <2> QED
    BY <1>5, <2>1, <2>2
<1>9. TypeOK'
  BY <1>2, SendType
<1> QED
  BY <1>6, <1>7, <1>8, <1>9 DEF StreamInv

LEMMA ReceiveInv ==
  ASSUME StreamInv, NEW c \in Clients, Receive(c)
  PROVE  StreamInv'
<1>1. PICK text \in Chunks(c) :
        /\ Begin(c, text)
        /\ whole' = [whole EXCEPT ![c] = /\ whole[c] /\ reads[c] < Len(sent[c])
                                         /\ text = sent[c][reads[c] + 1]]
        /\ reads' = [reads EXCEPT ![c] = reads[c] + 1]
        /\ input' = [input EXCEPT ![c] = text]
        /\ last' = [last EXCEPT ![c] = Invalid]
        /\ alone' = [d \in Clients |->
             IF d = c THEN Parsing = {} ELSE alone[d] /\ d \notin Parsing]
        /\ UNCHANGED sent
  BY DEF Receive
<1>2. TypeOK /\ Undisturbed /\ AloneAsRead /\ Counted
  BY DEF StreamInv
<1>3. /\ sent \in [Clients -> Seq(Seq(Chars \ {Nul}))] /\ reads \in [Clients -> Nat]
      /\ last \in [Clients -> Commands] /\ whole \in [Clients -> BOOLEAN]
      /\ input \in [Clients -> Texts] /\ step \in [Clients -> Steps]
  BY <1>2, TypeParts, TypeIs DEF StreamTypeOK
<1>4. /\ step[c] = "idle" /\ step' = [step EXCEPT ![c] = "start"] /\ text \in Texts
  BY <1>1, <1>2, ChunkIs DEF Begin, Goto
<1>5. /\ step'[c] = "start" /\ reads'[c] = reads[c] + 1 /\ input'[c] = text
      /\ whole'[c] <=> /\ whole[c] /\ reads[c] < Len(sent[c])
                       /\ text = sent[c][reads[c] + 1]
      /\ alone'[c] <=> Parsing = {}
  BY <1>1, <1>3, <1>4
<1>6. ASSUME NEW d \in Clients, d # c
      PROVE  /\ step'[d] = step[d] /\ reads'[d] = reads[d] /\ last'[d] = last[d]
             /\ input'[d] = input[d] /\ whole'[d] = whole[d]
             /\ alone'[d] <=> (alone[d] /\ d \notin Parsing)
  BY <1>1, <1>3, <1>4, <1>6
<1>7. ParseInv(c)'
  BY <1>1, <1>2, <1>4, <1>5, BeginParse
<1>8. Undisturbed'
  <2> SUFFICES ASSUME NEW d \in Clients, d \in Parsing', alone'[d]
               PROVE  Parsing' = {d} /\ ParseInv(d)'
    BY DEF Undisturbed, Parsing
  <2>1. d = c
    BY <1>6 DEF Parsing
  <2>2. Parsing = {}
    BY <1>5, <2>1
  <2> QED
    BY <1>5, <1>6, <1>7, <2>1, <2>2 DEF Parsing
<1>9. AloneAsRead'
  <2> SUFFICES ASSUME NEW d \in Clients, alone'[d], step'[d] = "idle", reads'[d] > 0
               PROVE  last'[d] = Meaning(input'[d])
    BY DEF AloneAsRead
  <2>1. d # c
    BY <1>5
  <2> QED
    BY <1>2, <1>6, <2>1 DEF AloneAsRead
<1>10. Counted'
  <2> SUFFICES ASSUME NEW d \in Clients
               PROVE  /\ d \in Parsing' => reads'[d] > 0
                      /\ whole'[d] /\ reads'[d] > 0 =>
                           reads'[d] <= Len(sent'[d]) /\ input'[d] = sent'[d][reads'[d]]
    BY DEF Counted
  <2>1. /\ reads[d] \in Nat /\ Len(sent[d]) \in Nat /\ sent' = sent
    BY <1>1, <1>3
  <2>2. CASE d = c
    BY <1>5, <2>1, <2>2
  <2>3. CASE d # c
    BY <1>2, <1>6, <2>1, <2>3 DEF Counted, Parsing
  <2> QED
    BY <2>2, <2>3
<1>11. TypeOK'
  BY <1>2, ReceiveType
<1> QED
  BY <1>8, <1>9, <1>10, <1>11 DEF StreamInv

LEMMA ProcessInv ==
  ASSUME StreamInv, NEW c \in Clients, Process(c)
  PROVE  StreamInv'
<1>1. TypeOK /\ Undisturbed /\ AloneAsRead /\ Counted
  BY DEF StreamInv
<1>2. /\ reads \in [Clients -> Nat] /\ last \in [Clients -> Commands]
      /\ step \in [Clients -> Steps]
  BY <1>1, TypeParts, TypeIs DEF StreamTypeOK
<1>3. /\ step[c] = "done" /\ step'[c] = "idle" /\ last'[c] = Parsed(c) /\ c \in Parsing
      /\ sent' = sent /\ reads' = reads /\ input' = input /\ whole' = whole /\ alone' = alone
      /\ \A d \in Clients : d # c => step'[d] = step[d] /\ last'[d] = last[d]
  BY <1>2 DEF Process, Goto, Parsing
<1>4. ASSUME NEW d \in Clients, d \in Parsing' PROVE ~ alone'[d]
  <2>1. d # c /\ d \in Parsing
    BY <1>3, <1>4 DEF Parsing
  <2> QED
    BY <1>3, <2>1, OthersIdle
<1>5. Undisturbed'
  BY <1>4 DEF Undisturbed, Parsing
<1>6. Counted'
  BY <1>1, <1>3 DEF Counted, Parsing
<1>7. AloneAsRead'
  <2> SUFFICES ASSUME NEW d \in Clients, alone'[d], step'[d] = "idle", reads'[d] > 0
               PROVE  last'[d] = Meaning(input'[d])
    BY DEF AloneAsRead
  <2>1. CASE d = c
    <3>1. ParseInv(c)
      BY <1>1, <1>3, <2>1 DEF Undisturbed
    <3> QED
      BY <1>1, <1>3, <2>1, <3>1, ProcessParse
  <2>2. CASE d # c
    BY <1>1, <1>3, <2>2 DEF AloneAsRead
  <2> QED
    BY <2>1, <2>2
<1>8. TypeOK'
  BY <1>1, ProcessType
<1> QED
  BY <1>5, <1>6, <1>7, <1>8 DEF StreamInv

LEMMA SplitInv ==
  ASSUME StreamInv, NEW c \in Clients, Split(c),
         UNCHANGED <<sent, wire, reads, input, last, whole, alone>>
  PROVE  StreamInv'
<1>1. TypeOK /\ Undisturbed /\ AloneAsRead /\ Counted
  BY DEF StreamInv
<1>2. /\ c \in Parsing /\ step'[c] \in Steps \ {"idle", "lost"}
      /\ \A d \in Clients : d # c => step'[d] = step[d]
  BY <1>1, SplitSteps
<1>3. Parsing' = Parsing
  BY <1>2 DEF Parsing
<1>4. Undisturbed'
  <2> SUFFICES ASSUME NEW d \in Parsing, alone[d]
               PROVE  Parsing = {d} /\ ParseInv(d)'
    BY <1>3 DEF Undisturbed
  <2>1. d = c /\ Parsing = {d} /\ ParseInv(c)
    BY <1>1, <1>2, OthersIdle DEF Undisturbed
  <2> QED
    BY <1>1, <1>2, <2>1, SplitParse
<1>5. AloneAsRead' /\ Counted'
  BY <1>1, <1>2, <1>3 DEF AloneAsRead, Counted
<1>6. TypeOK'
  BY <1>1, NextType DEF Next, Thread
<1> QED
  BY <1>4, <1>5, <1>6 DEF StreamInv

\* A stray access ends what is known of every thread; what a thread outside of the
\* parser does with its stack nobody in the parser notices.
LEMMA StrayInv ==
  ASSUME StreamInv, NEW c \in Clients, Stray(c) \/ Overwrite(c),
         UNCHANGED <<sent, wire, reads, input, last, whole, alone>>
  PROVE  StreamInv'
<1>1. TypeOK /\ Undisturbed /\ AloneAsRead /\ Counted
  BY DEF StreamInv
<1>2. TypeOK'
  BY <1>1, NextType DEF Next, Thread
<1>3. CASE Stray(c)
  <2>1. \A d \in Clients : step'[d] = "lost"
    BY <1>3 DEF Stray
  <2>2. Parsing' = {}
    BY <2>1 DEF Parsing
  <2>3. Undisturbed' /\ AloneAsRead' /\ Counted'
    BY <1>1, <2>1, <2>2 DEF Undisturbed, AloneAsRead, Counted
  <2> QED
    BY <1>2, <2>3 DEF StreamInv
<1>4. CASE Overwrite(c)
  <2>1. /\ step[c] = "idle" /\ step' = step /\ fields' = fields /\ at' = at /\ stop' = stop
        /\ save' = save /\ \A d \in Clients : d # c => buffer'[d] = buffer[d]
    BY <1>1, <1>4, TypeParts, TypeIs DEF Overwrite
  <2>2. Parsing' = Parsing /\ c \notin Parsing
    BY <2>1 DEF Parsing
  <2>3. \A d \in Parsing : ParseInv(d) => ParseInv(d)'
    BY <2>1, <2>2, ParseFrame DEF Parsing
  <2>4. Undisturbed' /\ AloneAsRead' /\ Counted'
    BY <1>1, <2>1, <2>2, <2>3 DEF Undisturbed, AloneAsRead, Counted
  <2> QED
    BY <1>2, <2>4 DEF StreamInv
<1> QED
  BY <1>3, <1>4

LEMMA InitStream == Init => StreamInv
<1> SUFFICES ASSUME Init PROVE StreamInv
  OBVIOUS
<1>1. TypeOK
  BY InitType
<1>2. Parsing = {}
  BY DEF Init, ParserInit, Parsing
<1>3. Undisturbed /\ AloneAsRead /\ Counted
  BY <1>2 DEF Undisturbed, AloneAsRead, Counted, Init, Parsing
<1> QED
  BY <1>1, <1>3 DEF StreamInv

LEMMA NextStream == StreamInv /\ [Next]_vars => StreamInv'
<1> SUFFICES ASSUME StreamInv, [Next]_vars PROVE StreamInv'
  OBVIOUS
<1>1. CASE UNCHANGED vars
  <2>1. TypeOK'
    BY <1>1, NextType DEF StreamInv
  <2>2. \A c \in Clients : ParseInv(c) => ParseInv(c)'
    BY <1>1, ParseFrame DEF vars, parser
  <2>3. Undisturbed' /\ AloneAsRead' /\ Counted'
    BY <1>1, <2>2 DEF vars, parser, StreamInv, Undisturbed, Parsing, Counted, AloneAsRead
  <2> QED
    BY <2>1, <2>3 DEF StreamInv
<1>2. CASE Next
  BY <1>2, SendInv, ReceiveInv, ProcessInv, SplitInv, StrayInv DEF Next, Thread
<1> QED
  BY <1>1, <1>2

-----------------------------------------------------------------------------
(* Theorems.                                                                *)

\* Whichever threads parse at once, and whatever lies on their stacks, what the
\* parser writes it writes inside the arrays, until control is lost.
THEOREM TypeCorrect == Spec => []TypeOK
BY InitType, NextType, PTL DEF Spec

\* Every reachable state satisfies the inductive invariant: what a thread that
\* parses alone has in its array at each step is what its text says.
THEOREM Invariant == Spec => []StreamInv
BY InitStream, NextStream, PTL DEF Spec

\* For all texts and any number of clients: what was read whole and parsed alone
\* is processed for what it says, whatever lay on the stack and whatever earlier
\* parses left in the position of strtok.
THEOREM ProcessedAsSent == Spec => []AloneAsSent
<1>1. StreamInv => AloneAsSent
  BY DEF StreamInv, AloneAsRead, Counted, AloneAsSent, AsSent
<1> QED
  BY <1>1, Invariant, PTL

\* A thread that parses alone never touches anything but its own array, however
\* much or little of a command its text is: no step loses control under it.
THEOREM AloneStaysInBounds == Spec => AloneInBounds
<1>1. ASSUME StreamInv, [Next]_vars, NEW c \in Parsing, alone[c]
      PROVE  step'[c] # "lost"
  <2>1. /\ TypeOK /\ Parsing = {c} /\ ParseInv(c)
        /\ c \in Clients /\ step[c] # "lost" /\ step \in [Clients -> Steps]
    BY <1>1, TypeParts, TypeIs DEF StreamInv, Undisturbed, Parsing
  <2>2. ASSUME NEW d \in Clients PROVE ~ Stray(d)
    <3>1. CASE d = c
      BY <2>1, <3>1, InBounds DEF Stray
    <3>2. CASE d # c
      <4>1. step[d] \in {"idle", "lost"}
        BY <2>1, <3>2 DEF Parsing
      <4>2. Touched(d) = {} /\ step[d] \notin Scanning
        BY <4>1 DEF Touched, Scanning
      <4> QED
        BY <4>2 DEF Stray, TouchesDead, Overruns
    <3> QED
      BY <3>1, <3>2
  <2>3. CASE UNCHANGED vars
    BY <2>1, <2>3 DEF vars, parser
  <2>4. ASSUME NEW d \in Clients, SendCommand(d) \/ Thread(d)
        PROVE  step'[c] # "lost"
    <3>1. CASE SendCommand(d)
      BY <2>1, <3>1 DEF SendCommand, parser
    <3>2. CASE Receive(d) \/ Process(d)
      BY <2>1, <3>2 DEF Receive, Begin, Process, Goto
    <3>3. CASE Split(d)
      BY <2>1, <3>3, SplitSteps
    <3>4. CASE Overwrite(d)
      BY <2>1, <3>4 DEF Overwrite
    <3> QED
      BY <2>2, <2>4, <3>1, <3>2, <3>3, <3>4 DEF Thread
  <2> QED
    BY <1>1, <2>3, <2>4 DEF Next
<1>2. StreamInv /\ [Next]_vars =>
        [\A c \in Parsing : alone[c] => step'[c] # "lost"]_vars
  BY <1>1
<1> QED
  BY <1>2, Invariant, PTL DEF Spec, AloneInBounds

-----------------------------------------------------------------------------
(* Every parse ends.                                                        *)

\* Threads leave each other's fields alone, though not the position of strtok,
\* unless control is lost.
LEMMA OthersLeave ==
  ASSUME TypeOK, NEW c \in Clients, NEW d \in Clients, d # c,
         SendCommand(d) \/ Thread(d), ~ Stray(d)
  PROVE  step'[c] = step[c] /\ fields'[c] = fields[c]
<1>0. step \in [Clients -> Steps] /\ fields \in [Clients -> Seq(Pointers)]
  BY TypeParts, TypeIs
<1>1. CASE SendCommand(d)
  BY <1>1 DEF SendCommand, parser
<1>2. CASE Receive(d) \/ Process(d) \/ Overwrite(d)
  BY <1>0, <1>2 DEF Receive, Begin, Process, Overwrite, Goto
<1>3. CASE Split(d)
  BY <1>0, <1>3 DEF Split, LoadPosition, FindStart, NoToken, FindEnd, CutToken, KeepPosition,
                    TooManyFields, Trim, EndField, Goto
<1> QED
  BY <1>1, <1>2, <1>3 DEF Thread

LEMMA ShrinkStep ==
  ASSUME TypeOK, NEW c \in Parsing, SendCommand(c) \/ Thread(c), ~ Stray(c)
  PROVE  \/ StepsLeft(c)' \in 0 .. StepsLeft(c) - 1
         \/ UNCHANGED <<step[c], fields[c]>>
<1>0. /\ step \in [Clients -> Steps] /\ fields \in [Clients -> Seq(Pointers)]
      /\ c \in Clients /\ step[c] # "idle" /\ at[c] \in Pointers
      /\ Len(fields[c]) \in Nat /\ Len(fields[c]) <= MaxFields /\ MaxFields \in Nat
  BY TypeParts, TypeIs, Has DEF Parsing
<1> USE DEF StepsLeft
<1>1. CASE SendCommand(c)
  BY <1>1 DEF SendCommand, parser
<1>2. ~ Receive(c) /\ ~ Overwrite(c)
  BY <1>0 DEF Receive, Begin, Overwrite
<1>3. CASE Process(c)
  <2>1. step[c] = "done" /\ step'[c] = "idle"
    BY <1>0, <1>3 DEF Process, Goto
  <2> QED
    BY <2>1
<1>4. CASE NoToken(c) \/ TooManyFields(c)
  <2>1. step[c] \in {"none", "trim"} /\ step'[c] = "done"
    BY <1>0, <1>4 DEF NoToken, TooManyFields, Goto
  <2> QED
    BY <1>0, <2>1
<1>5. CASE EndField(c)
  <2>1. /\ step[c] = "end" /\ step'[c] = "load" /\ Len(fields[c]) < MaxFields
        /\ fields'[c] = Append(fields[c], at[c])
    BY <1>0, <1>5, TypeParts, TypeIs DEF EndField, Room, Goto
  <2>2. Len(fields'[c]) = Len(fields[c]) + 1
    BY <1>0, <2>1, AppendProperties
  <2> DEFINE places == MaxFields - Len(fields[c])
  <2>3. places \in Nat /\ MaxFields - Len(fields'[c]) = places - 1
    BY <1>0, <2>1, <2>2
  <2>4. StepsLeft(c)' = 7 * (places - 1) + 8 /\ StepsLeft(c) = 7 * places + 2
    BY <2>1, <2>3
  <2> HIDE DEF places, StepsLeft
  <2>5. 7 * (places - 1) + 8 \in 0 .. (7 * places + 2) - 1
    BY <2>3
  <2> QED
    BY <2>4, <2>5
<1>6. CASE LoadPosition(c) \/ FindStart(c) \/ FindEnd(c) \/ CutToken(c) \/ KeepPosition(c)
           \/ Trim(c)
  <2>1. /\ fields' = fields
        /\ \/ step[c] = "load" /\ step'[c] = "start"
           \/ step[c] = "start" /\ step'[c] \in {"none", "token"}
           \/ step[c] = "token" /\ step'[c] \in {"keep", "cut"}
           \/ step[c] = "cut" /\ step'[c] = "keep"
           \/ step[c] = "keep" /\ step'[c] = "trim"
           \/ step[c] = "trim" /\ step'[c] = "end"
    BY <1>0, <1>6 DEF LoadPosition, FindStart, FindEnd, CutToken, KeepPosition, Trim, Goto
  <2> DEFINE places == MaxFields - Len(fields[c])
  <2>2. places \in Nat /\ places = MaxFields - Len(fields'[c])
    BY <1>0, <2>1
  <2>3. CASE step[c] = "load" /\ step'[c] = "start"
    <3>1. StepsLeft(c) = 7 * places + 8 /\ StepsLeft(c)' = 7 * places + 7
      BY <2>2, <2>3
    <3> HIDE DEF places, StepsLeft
    <3> QED
      BY <2>2, <3>1
  <2>4. CASE step[c] = "start" /\ step'[c] = "none"
    <3>1. StepsLeft(c) = 7 * places + 7 /\ StepsLeft(c)' = 2
      BY <2>2, <2>4
    <3> HIDE DEF places, StepsLeft
    <3> QED
      BY <2>2, <3>1
  <2>5. CASE step[c] = "start" /\ step'[c] = "token"
    <3>1. StepsLeft(c) = 7 * places + 7 /\ StepsLeft(c)' = 7 * places + 6
      BY <2>2, <2>5
    <3> HIDE DEF places, StepsLeft
    <3> QED
      BY <2>2, <3>1
  <2>6. CASE step[c] = "token" /\ step'[c] = "keep"
    <3>1. StepsLeft(c) = 7 * places + 6 /\ StepsLeft(c)' = 7 * places + 4
      BY <2>2, <2>6
    <3> HIDE DEF places, StepsLeft
    <3> QED
      BY <2>2, <3>1
  <2>7. CASE step[c] = "token" /\ step'[c] = "cut"
    <3>1. StepsLeft(c) = 7 * places + 6 /\ StepsLeft(c)' = 7 * places + 5
      BY <2>2, <2>7
    <3> HIDE DEF places, StepsLeft
    <3> QED
      BY <2>2, <3>1
  <2>8. CASE step[c] = "cut" /\ step'[c] = "keep"
    <3>1. StepsLeft(c) = 7 * places + 5 /\ StepsLeft(c)' = 7 * places + 4
      BY <2>2, <2>8
    <3> HIDE DEF places, StepsLeft
    <3> QED
      BY <2>2, <3>1
  <2>9. CASE step[c] = "keep" /\ step'[c] = "trim"
    <3>1. StepsLeft(c) = 7 * places + 4 /\ StepsLeft(c)' = 7 * places + 3
      BY <2>2, <2>9
    <3> HIDE DEF places, StepsLeft
    <3> QED
      BY <2>2, <3>1
  <2>10. CASE step[c] = "trim" /\ step'[c] = "end"
    <3>1. StepsLeft(c) = 7 * places + 3 /\ StepsLeft(c)' = 7 * places + 2
      BY <2>2, <2>10
    <3> HIDE DEF places, StepsLeft
    <3> QED
      BY <2>2, <3>1
  <2> QED
    BY <2>1, <2>3, <2>4, <2>5, <2>6, <2>7, <2>8, <2>9, <2>10
<1> QED
  BY <1>1, <1>2, <1>3, <1>4, <1>5, <1>6 DEF Thread, Split

\* However many threads parse at once, each parse ends after at most
\* 7 * MaxFields + 7 steps of its own, unless control is lost before.
THEOREM ParsesEnd == Spec => ParseShrinks
<1>1. ASSUME TypeOK, [Next]_vars, NEW c \in Parsing
      PROVE  \/ StepsLeft(c)' \in 0 .. StepsLeft(c) - 1
             \/ UNCHANGED <<step[c], fields[c]>>
  <2>1. CASE UNCHANGED vars
    BY <2>1 DEF vars, parser
  <2>2. ASSUME NEW d \in Clients, Stray(d) PROVE StepsLeft(c)' \in 0 .. StepsLeft(c) - 1
    <3>1. c \in Clients /\ step[c] \in Steps \ {"idle", "lost"} /\ step'[c] = "lost"
      BY <1>1, <2>2, TypeParts, TypeIs DEF Stray, Parsing
    <3>2. Len(fields[c]) \in Nat /\ Len(fields[c]) <= MaxFields /\ MaxFields \in Nat
      BY <1>1, <3>1, Has
    <3> DEFINE places == MaxFields - Len(fields[c])
    <3>3. places \in Nat
      BY <3>2
    <3>4. StepsLeft(c)' = 0
      BY <3>1 DEF StepsLeft
    <3>5. StepsLeft(c) \in {1, 2} \cup {7 * places + k : k \in 2 .. 8}
      <4> HIDE DEF places
      <4>1. StepsLeft(c) = CASE step[c] \in {"idle", "lost"} -> 0
                             [] step[c] = "done" -> 1
                             [] step[c] = "none" -> 2
                             [] step[c] = "end" -> 7 * places + 2
                             [] step[c] = "trim" -> 7 * places + 3
                             [] step[c] = "keep" -> 7 * places + 4
                             [] step[c] = "cut" -> 7 * places + 5
                             [] step[c] = "token" -> 7 * places + 6
                             [] step[c] = "start" -> 7 * places + 7
                             [] step[c] = "load" -> 7 * places + 8
        BY Zenon DEF StepsLeft, places
      <4>2. CASE step[c] \in {"done", "none"}
        BY <4>1, <4>2
      <4>3. CASE step[c] \in {"end", "trim", "keep", "cut"}
        BY <3>3, <4>1, <4>3
      <4>4. CASE step[c] \in {"token", "start", "load"}
        BY <3>3, <4>1, <4>4
      <4> QED
        BY <3>1, <4>2, <4>3, <4>4 DEF Steps, Scanning
    <3>6. StepsLeft(c) \in Nat \ {0}
      <4> HIDE DEF places, StepsLeft
      <4> QED
        BY <3>3, <3>5
    <3> QED
      <4> HIDE DEF StepsLeft
      <4> QED
        BY <3>4, <3>6
  <2>3. ASSUME NEW d \in Clients, SendCommand(d) \/ Thread(d), d # c, ~ Stray(d)
        PROVE  UNCHANGED <<step[c], fields[c]>>
    BY <1>1, <2>3, OthersLeave DEF Parsing
  <2>4. CASE Next
    BY <1>1, <2>2, <2>3, <2>4, ShrinkStep DEF Next
  <2> QED
    BY <1>1, <2>1, <2>4
<1>2. TypeOK /\ [Next]_vars =>
        [\A c \in Parsing :
           \/ StepsLeft(c)' \in 0 .. StepsLeft(c) - 1
           \/ UNCHANGED <<step[c], fields[c]>>]_vars
  BY <1>1
<1> QED
  BY <1>2, TypeCorrect, PTL DEF Spec, ParseShrinks

=============================================================================
