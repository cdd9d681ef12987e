------------------------- MODULE GatewayRefinement -------------------------
(***************************************************************************)
(* Gateway implements SensorLog: the threads, batches, buffers, statements *)
(* and connections of the gateway only ever do what the abstract log of    *)
(* readings may do, for every value of the constants.  The refinement      *)
(* mapping is request, in Gateway; the step simulation rests on the        *)
(* inductive invariant proved in GatewayProofs.                            *)
(***************************************************************************)
EXTENDS GatewayProofs

\* Between two commands, or in one that the log knows nothing of.
Other(point) ==
  point \notin {"insert", "commit", "ok", "error", "batch", "step", "output"}

\* The rows a query has handed out.
Sent(c) == Elements(query[c].out)

LEMMA RequestNow ==
  ASSUME NEW c \in Clients
  PROVE  /\ pc[c] \in {"insert", "commit"} =>
              request[c] = Log!ToStore(cmd[c].reading)
         /\ pc[c] = "ok" => request[c] = Log!StoredAs(mine[c])
         /\ pc[c] = "error" => request[c] = Log!Failed
         /\ InQuery(c) => request[c] =
              Log!ToList(cmd[c].start_id, cmd[c].end_id, Owed(c), Sent(c))
         /\ Other(pc[c]) => request[c] = Log!Nothing
BY DEF request, InQuery, Other, Sent, Log!ToStore, Log!StoredAs, Log!Failed,
       Log!ToList, Log!Nothing

LEMMA RequestThen ==
  ASSUME NEW c \in Clients
  PROVE  /\ pc'[c] \in {"insert", "commit"} =>
              request'[c] = Log!ToStore(cmd'[c].reading)
         /\ pc'[c] = "ok" => request'[c] = Log!StoredAs(mine'[c])
         /\ pc'[c] = "error" => request'[c] = Log!Failed
         /\ InQuery(c)' => request'[c] =
              Log!ToList(cmd'[c].start_id, cmd'[c].end_id, Owed(c)', Sent(c)')
         /\ Other(pc'[c]) => request'[c] = Log!Nothing
BY DEF request, InQuery, Other, Sent, Log!ToStore, Log!StoredAs, Log!Failed,
       Log!ToList, Log!Nothing

\* What happens to the table leaves what a query owes: rows are only added, and
\* above every identifier that existed when the command was read.
LEMMA SameOwed ==
  ASSUME IInv, DbGrows, NEW c \in Clients, floor'[c] = floor[c], cmd'[c] = cmd[c]
  PROVE  Owed(c)' = Owed(c)
<1>1. /\ floor[c] <= seq /\ floor[c] \in Int /\ seq \in Int
  BY Own, Values DEF ThreadInv
<1>2. \A i \in Stored' : i \in Int
  BY DEF Stored, RowIds
<1>3. \A i : (i \in Stored' /\ i <= floor[c]) <=> (i \in Stored /\ i <= floor[c])
  BY <1>1, <1>2 DEF DbGrows
<1> QED
  BY <1>3 DEF Owed

LEMMA SameRequest ==
  ASSUME IInv, DbGrows, NEW c \in Clients, Untouched(c)
  PROVE  request'[c] = request[c]
<1>1. Owed(c)' = Owed(c) /\ Sent(c)' = Sent(c)
  BY SameOwed DEF Untouched, Sent
<1>2. /\ pc'[c] = pc[c] /\ cmd'[c] = cmd[c] /\ query'[c] = query[c] /\ mine'[c] = mine[c]
      /\ InQuery(c)' <=> InQuery(c)
  BY DEF Untouched, InQuery
<1> QED
  BY <1>1, <1>2, RequestNow, RequestThen DEF InQuery, Other

\* A step of one thread touches the locals of no other.
LEMMA OthersUntouched ==
  ASSUME IInv, NEW c \in Clients, NEW d \in Clients, d # c, StepOf(c)
  PROVE  Untouched(d)
<1> USE DEF Goto, Untouched, locals
<1>1. CASE Connect(c) \/ PeerCloses(c) \/ PeerResets(c) \/ HangUp(c) \/ SendWelcome(c)
  BY <1>1, Functions DEF Connect, PeerCloses, PeerResets, HangUp, SendWelcome
<1>2. CASE SendOk(c) \/ SendHelp(c) \/ SendError(c) \/ QueryEnds(c)
  BY <1>2, Functions DEF SendOk, SendHelp, SendError, QueryEnds, Forget
<1>3. CASE Receive(c) \/ InsertRow(c) \/ InsertFails(c) \/ GetIdRange(c)
  BY <1>3, Functions DEF Receive, InsertRow, InsertFails, GetIdRange, Fail
<1>4. CASE \/ Prepare(c) \/ PrepareFails(c) \/ ReadFails(c) \/ RowTooLong(c)
           \/ BatchReady(c)
  BY <1>4, Functions DEF Prepare, PrepareFails, ReadFails, RowTooLong, BatchReady, Fail
<1>5. CASE OpenBatch(c) \/ FetchRow(c) \/ SendBatch(c)
  BY <1>5, Functions DEF OpenBatch, FetchRow, SendBatch
<1> QED
  BY <1>1, <1>2, <1>3, <1>4, <1>5 DEF StepOf, Work

\* So the log sees one client's request change.
LEMMA OneAnswer ==
  ASSUME IInv, DbGrows, NEW c \in Clients, StepOf(c)
  PROVE  request' = [request EXCEPT ![c] = request'[c]]
<1>1. \A d \in Clients : d # c => request'[d] = request[d]
  BY OthersUntouched, SameRequest
<1>2. /\ request = [d \in Clients |-> request[d]]
      /\ request' = [d \in Clients |-> request'[d]]
  BY DEF request
<1> QED
  BY <1>1, <1>2

-----------------------------------------------------------------------------
(* Each step of the gateway is a step of the log, or none.                  *)

\* A step that the log does not see.
LEMMA Unseen ==
  ASSUME IInv, DbGrows, NEW c \in Clients, StepOf(c), request'[c] = request[c],
         UNCHANGED <<up, table, acked>>
  PROVE  UNCHANGED Log!vars
<1>1. request = [d \in Clients |-> request[d]]
  BY DEF request
<1>2. request' = request
  BY <1>1, OneAnswer
<1> QED
  BY <1>2 DEF Log!vars

LEMMA Kinds ==
  /\ Log!Nothing.kind = "none" /\ Log!Failed.kind = "failed"
  /\ \A r : Log!ToStore(r).kind = "store" /\ Log!ToStore(r).reading = r
  /\ \A i : Log!StoredAs(i).kind = "stored" /\ Log!StoredAs(i).id = i
  /\ \A from, upto, owed, got :
       LET list == Log!ToList(from, upto, owed, got) IN
       /\ list.kind = "list" /\ list.from = from /\ list.upto = upto
       /\ list.owed = owed /\ list.got = got
BY DEF Log!Nothing, Log!Failed, Log!ToStore, Log!StoredAs, Log!ToList

\* A failure that the client is told of.
LEMMA Failing ==
  ASSUME IInv, DbGrows, NEW c \in Clients, StepOf(c), pc'[c] = "error",
         pc[c] \in {"recv", "output"} \cup Working,
         UNCHANGED <<up, table, acked>>
  PROVE  Log!Fail(c)
<1>1. request[c].kind \in {"none", "store", "list"}
  <2>1. CASE pc[c] \in {"insert", "commit"}
    BY <2>1, RequestNow, Kinds
  <2>2. CASE pc[c] \in {"recv", "range", "minmax"}
    BY <2>2, RequestNow, Kinds DEF Other
  <2>3. CASE pc[c] \in {"batch", "step", "output"}
    <3>1. request[c] = Log!ToList(cmd[c].start_id, cmd[c].end_id, Owed(c), Sent(c))
      BY <2>3, RequestNow DEF InQuery
    <3> QED
      BY <3>1, Kinds
  <2> QED
    BY <2>1, <2>2, <2>3 DEF Working, Holding
<1>2. request'[c] = Log!Failed
  BY RequestThen
<1>3. request' = [request EXCEPT ![c] = Log!Failed]
  BY <1>2, OneAnswer
<1> QED
  BY <1>1, <1>3 DEF Log!Fail, Log!Answer

\* The thread forgets a command whose row is stored, or which failed.
LEMMA Forgoing ==
  ASSUME IInv, DbGrows, NEW c \in Clients, StepOf(c), pc'[c] = "recv",
         pc[c] \in {"ok", "error"}, UNCHANGED <<up, table, acked>>
  PROVE  Log!Forgo(c)
<1>1. request[c].kind \in {"stored", "failed"}
  <2>1. CASE pc[c] = "ok"
    BY <2>1, RequestNow, Kinds
  <2>2. CASE pc[c] = "error"
    BY <2>2, RequestNow, Kinds
  <2> QED
    BY <2>1, <2>2
<1>2. request'[c] = Log!Nothing
  BY RequestThen DEF Other
<1>3. request' = [request EXCEPT ![c] = Log!Nothing]
  BY <1>2, OneAnswer
<1> QED
  BY <1>1, <1>3 DEF Log!Forgo, Log!Answer

\* A command asks for a row to be stored, for rows, or for nothing of the log.
LEMMA ReceiveMaps ==
  ASSUME IInv, DbGrows, NEW c \in Clients, Receive(c)
  PROVE  Log!Next \/ UNCHANGED Log!vars
<1> USE DEF db
<1>1. PICK r \in Requests :
        /\ cmd' = [cmd EXCEPT ![c] = Parse(r)]
        /\ query' = [query EXCEPT ![c] =
             [last |-> Parse(r).start_id - 1, first |-> TRUE, out |-> <<>>]]
        /\ pc' = [pc EXCEPT ![c] = Dispatch(Parse(r).type)]
  BY DEF Receive, Goto
<1>2. /\ cmd'[c] = Parse(r) /\ query'[c].last = Parse(r).start_id - 1
      /\ pc'[c] = Dispatch(Parse(r).type) /\ floor'[c] = seq /\ pc[c] = "recv"
      /\ UNCHANGED <<up, table, acked>> /\ StepOf(c)
  BY <1>1, Functions DEF Receive, StepOf
<1>3. Parse(r).type \in {"SENSOR", "QUERY", "HELP", "INVALID"}
  BY ParseType DEF Command
<1>4. request[c] = Log!Nothing
  BY <1>2, RequestNow DEF Other
<1>5. CASE Parse(r).type = "SENSOR"
  <2>1. pc'[c] = "insert"
    BY <1>2, <1>5 DEF Dispatch
  <2>2. request' = [request EXCEPT ![c] = Log!ToStore(Parse(r).reading)]
    BY <1>2, <2>1, RequestThen, OneAnswer
  <2>3. Parse(r).reading \in Readings
    BY <1>5, ParseType
  <2>4. Log!AskStore(c)
    BY <1>2, <1>4, <2>2, <2>3 DEF Log!AskStore, Log!Answer
  <2> QED
    BY <2>4 DEF Log!Next
<1>6. CASE Parse(r).type = "QUERY"
  <2> DEFINE from == Parse(r).start_id
             upto == Parse(r).end_id
  <2>1. pc'[c] = "batch"
    BY <1>2, <1>6 DEF Dispatch
  <2>2. Owed(c)' = {i \in Log!Stored : from <= i /\ i <= upto}
    <3>1. cmd'[c].start_id = from /\ cmd'[c].end_id = upto
      BY <1>2
    <3>2. Stored' = Stored /\ Log!Stored = Stored
      BY <1>2 DEF Stored, Log!Stored, Log!RowIds, RowIds
    <3>3. \A i \in Stored : i <= seq
      BY Values
    <3> QED
      BY <1>2, <3>1, <3>2, <3>3 DEF Owed
  <2>6. Sent(c)' = {}
    <3>1. query'[c].out = <<>>
      BY <1>1, Functions
    <3> QED
      BY <3>1, EmptySequence DEF Sent
  <2>3. request'[c] = Log!ToList(from, upto, {i \in Log!Stored : from <= i /\ i <= upto}, {})
    BY <1>2, <2>1, <2>2, <2>6, RequestThen DEF InQuery
  <2>4. from \in 0 .. IntMax /\ upto \in 0 .. IntMax
    BY ParseType DEF IdArgs
  <2>5. Log!AskList(c)
    BY <1>2, <1>4, <2>3, <2>4, OneAnswer DEF Log!AskList, Log!Answer
  <2> QED
    BY <2>5 DEF Log!Next
<1>7. CASE Parse(r).type = "HELP"
  <2>1. pc'[c] = "range"
    BY <1>2, <1>7 DEF Dispatch
  <2> QED
    BY <1>2, <1>4, <2>1, RequestThen, Unseen DEF Other
<1>8. CASE Parse(r).type = "INVALID"
  <2>1. pc'[c] = "error"
    BY <1>2, <1>8 DEF Dispatch
  <2> QED
    BY <1>2, <2>1, Failing DEF Log!Next
<1> QED
  BY <1>3, <1>5, <1>6, <1>7, <1>8

\* The row goes above every row of the log.
LEMMA InsertMaps ==
  ASSUME IInv, DbGrows, NEW c \in Clients, InsertRow(c)
  PROVE  Log!Store(c)
<1> USE DEF db
<1>1. /\ pc[c] = "commit" /\ pc'[c] = "ok" /\ mine'[c] = seq + 1
      /\ table' = [table EXCEPT ![seq + 1] = cmd[c].reading]
      /\ UNCHANGED <<up, acked>> /\ StepOf(c)
  BY Functions DEF InsertRow, Goto, StepOf, Work
<1>2. seq + 1 \in RowIds
  <2>1. seq \in 0 .. MaxRowId
    BY DEF IInv, TypeOK
  <2> QED
    BY <2>1, GatewayAssumption DEF InsertRow, RowIds
<1>3. request[c] = Log!ToStore(cmd[c].reading)
  BY <1>1, RequestNow
<1>4. request' = [request EXCEPT ![c] = Log!StoredAs(seq + 1)]
  BY <1>1, RequestThen, OneAnswer
<1>5. \A j \in Log!Stored : j < seq + 1
  <2>1. Log!Stored = Stored
    BY DEF Stored, Log!Stored, Log!RowIds, RowIds
  <2>2. seq \in Int /\ \A j \in Stored : j \in Int /\ j <= seq
    BY Values
  <2> QED
    BY <2>1, <2>2
<1>6. /\ request[c].kind = "store" /\ request[c].reading = cmd[c].reading
      /\ seq + 1 \in Log!RowIds
  BY <1>2, <1>3 DEF Log!ToStore, Log!RowIds, RowIds
<1> QED
  BY <1>1, <1>4, <1>5, <1>6 DEF Log!Store, Log!Answer

\* OK acknowledges the row, unless the client has gone.
LEMMA SendOkMaps ==
  ASSUME IInv, DbGrows, NEW c \in Clients, SendOk(c)
  PROVE  Log!Acknowledge(c) \/ Log!Forgo(c)
<1> USE DEF db
<1>1. /\ pc[c] = "ok" /\ pc'[c] = "recv" /\ UNCHANGED <<up, table>> /\ StepOf(c)
      /\ \/ acked' = acked \cup {<<mine[c], cmd[c].reading>>}
         \/ acked' = acked
  BY Functions DEF SendOk, Goto, StepOf
<1>2. CASE acked' = acked
  BY <1>1, <1>2, Forgoing
<1>3. CASE acked' = acked \cup {<<mine[c], cmd[c].reading>>}
  <2>1. request[c] = Log!StoredAs(mine[c])
    BY <1>1, RequestNow
  <2>2. cmd[c].reading = table[mine[c]]
    BY <1>1, Own DEF ThreadInv
  <2>3. request' = [request EXCEPT ![c] = Log!Nothing]
    BY <1>1, RequestThen, OneAnswer DEF Other
  <2>4. request[c].kind = "stored" /\ request[c].id = mine[c]
    BY <2>1 DEF Log!StoredAs
  <2> QED
    BY <1>1, <1>3, <2>2, <2>3, <2>4 DEF Log!Acknowledge, Log!Answer
<1> QED
  BY <1>1, <1>2, <1>3

\* A batch that is sent hands out every row of its snapshot between the two
\* cursors, so none that is owed.
LEMMA SendBatchMaps ==
  ASSUME IInv, DbGrows, NEW c \in Clients, SendBatch(c)
  PROVE  Log!HandOut(c) \/ Log!Fail(c)
<1> USE DEF db
<1> DEFINE got == Elements(batch[c].rows)
           top == batch[c].cur
<1>1. pc[c] = "output" /\ UNCHANGED <<up, table, acked>> /\ StepOf(c)
  BY DEF SendBatch, StepOf
<1>2. CASE pc'[c] = "error"
  BY <1>1, <1>2, Failing
<1>3. CASE pc'[c] # "error"
  <2>1. /\ pc'[c] = "batch" /\ query'[c].out = query[c].out \o batch[c].rows
        /\ cmd' = cmd /\ floor' = floor
    <3>1. pc' # [pc EXCEPT ![c] = "error"]
      BY <1>3, Functions
    <3>2. /\ query' = [query EXCEPT ![c] =
               [last |-> top, first |-> FALSE, out |-> query[c].out \o batch[c].rows]]
          /\ pc' = [pc EXCEPT ![c] = "batch"]
          /\ cmd' = cmd /\ floor' = floor
      BY <3>1 DEF SendBatch, Goto
    <3> QED
      BY <3>2, Functions
  <2>2. Handed(c) /\ Fetched(c) /\ batch[c].rows # <<>>
    BY <1>1, Own DEF ThreadInv, InQuery
  <2>3. /\ \A i \in got : /\ i \in Stored /\ query[c].last < i
                         /\ i <= top /\ i <= cmd[c].end_id
        /\ top \in got
        /\ \A i \in Stored :
             (i <= batch[c].snap /\ query[c].last < i /\ i <= top) => i \in got
        /\ floor[c] <= batch[c].snap
    BY <2>2 DEF Fetched
  <2>4. /\ cmd[c].start_id - 1 <= query[c].last
        /\ \A j \in Sent(c) : j \in Stored /\ j <= query[c].last
        /\ \A i \in Stored :
             (i <= floor[c] /\ cmd[c].start_id <= i /\ i <= query[c].last) => i \in Sent(c)
    BY <2>2 DEF Handed, Sent
  <2>5. ASSUME NEW i \in got
        PROVE  /\ i \in Log!Stored /\ cmd[c].start_id <= i /\ i <= cmd[c].end_id /\ i <= top
               /\ \A j \in Sent(c) : j < i
    <3>1. i \in Stored /\ i \in Int /\ query[c].last < i /\ Log!Stored = Stored
      BY <2>3, Values DEF Stored, Log!Stored, Log!RowIds, RowIds
    <3>2. cmd[c].start_id <= i
      BY <2>4, <3>1, Values
    <3>3. ASSUME NEW j \in Sent(c) PROVE j < i
      <4>1. j \in Int /\ j <= query[c].last
        BY <2>4, Values
      <4> QED
        BY <3>1, <4>1, Values
    <3> QED
      BY <2>3, <3>1, <3>2, <3>3
  <2>6. ASSUME NEW i \in Owed(c), i <= top
        PROVE  i \in Sent(c) \cup got
    <3>1. i \in Stored /\ i <= floor[c] /\ cmd[c].start_id <= i
      BY DEF Owed
    <3>2. i \in Int /\ i <= batch[c].snap
      BY <2>3, <3>1, Values
    <3>3. CASE i <= query[c].last
      BY <2>4, <3>1, <3>3
    <3>4. CASE query[c].last < i
      BY <2>3, <2>6, <3>1, <3>2, <3>4
    <3> QED
      BY <3>2, <3>3, <3>4, Values
  <2>7. Owed(c)' = Owed(c) /\ Sent(c)' = Sent(c) \cup got
    <3>1. Owed(c)' = Owed(c)
      BY <2>1, SameOwed
    <3>2. Elements(query[c].out \o batch[c].rows) = Sent(c) \cup got
      BY Batches, ElementsConcat DEF Sent
    <3> QED
      BY <2>1, <3>1, <3>2 DEF Sent
  <2>8. request[c] = Log!ToList(cmd[c].start_id, cmd[c].end_id, Owed(c), Sent(c))
    BY <1>1, RequestNow DEF InQuery
  <2>9. request' = [request EXCEPT ![c] =
          Log!ToList(cmd[c].start_id, cmd[c].end_id, Owed(c), Sent(c) \cup got)]
    <3>1. request'[c] = Log!ToList(cmd'[c].start_id, cmd'[c].end_id, Owed(c)', Sent(c)')
      BY <2>1, RequestThen DEF InQuery
    <3> QED
      BY <1>1, <2>1, <2>7, <3>1, OneAnswer
  <2>10. /\ request[c].kind = "list" /\ request[c].from = cmd[c].start_id
         /\ request[c].upto = cmd[c].end_id /\ request[c].owed = Owed(c)
         /\ request[c].got = Sent(c)
    BY <2>8, Kinds
  <2>11. got \in SUBSET {i \in Log!Stored : request[c].from <= i /\ i <= request[c].upto}
    BY <2>5, <2>10
  <2>12. /\ \A i \in got : i <= top
         /\ \A i \in got, j \in request[c].got : j < i
         /\ \A i \in request[c].owed : i <= top => i \in request[c].got \cup got
         /\ Log!Answer(c, Log!ToList(request[c].from, request[c].upto, request[c].owed,
                                     request[c].got \cup got))
    BY <2>5, <2>6, <2>9, <2>10 DEF Log!Answer
  <2> HIDE DEF got, top
  <2> QED
    BY <1>1, <2>3, <2>10, <2>11, <2>12 DEF Log!HandOut
<1> QED
  BY <1>2, <1>3

\* The empty batch leaves nothing owed.
LEMMA QueryEndsMaps ==
  ASSUME IInv, DbGrows, NEW c \in Clients, QueryEnds(c)
  PROVE  Log!Finish(c)
<1> USE DEF db
<1>1. /\ pc[c] = "step" /\ pc'[c] = "recv" /\ batch[c].rows = <<>>
      /\ UNCHANGED <<up, table, acked>> /\ StepOf(c)
  BY Functions DEF QueryEnds, NoMoreRows, Goto, StepOf, Work
<1>2. request[c] = Log!ToList(cmd[c].start_id, cmd[c].end_id, Owed(c), Sent(c))
  BY <1>1, RequestNow DEF InQuery
<1>3. request' = [request EXCEPT ![c] = Log!Nothing]
  BY <1>1, RequestThen, OneAnswer DEF Other
<1>4. ASSUME NEW i \in Owed(c) PROVE i \in Sent(c)
  <2>1. /\ batch[c].cur = query[c].last /\ floor[c] <= batch[c].snap
        /\ \A j \in Selected(c) : j > batch[c].snap
    <3>1. Fetched(c)
      BY <1>1, Own DEF ThreadInv
    <3>2. Len(<<>>) # BatchSize
      BY GatewayAssumption
    <3> QED
      BY <1>1, <3>1, <3>2 DEF QueryEnds, NoMoreRows, Fetched
  <2>2. /\ i \in Stored /\ i <= floor[c] /\ i \in Int
        /\ cmd[c].start_id <= i /\ i <= cmd[c].end_id
    BY Values DEF Owed
  <2>3. ~(query[c].last < i)
    <3>1. SUFFICES ASSUME query[c].last < i PROVE FALSE
      OBVIOUS
    <3>2. i \in Selected(c)
      BY <2>1, <2>2, <3>1 DEF Selected
    <3> QED
      BY <2>1, <2>2, <3>2, Values
  <2>4. Handed(c)
    BY <1>1, Own DEF ThreadInv, InQuery
  <2> QED
    BY <2>2, <2>3, <2>4, Values DEF Handed, Sent
<1>5. request[c].kind = "list" /\ request[c].owed \subseteq request[c].got
  BY <1>2, <1>4, Kinds
<1> QED
  BY <1>1, <1>3, <1>5 DEF Log!Finish, Log!Answer

\* The steps that only move a thread, its connection or its statement.
LEMMA QuietMaps ==
  ASSUME IInv, DbGrows, NEW c \in Clients,
         \/ Connect(c) \/ PeerCloses(c) \/ PeerResets(c) \/ HangUp(c) \/ SendWelcome(c)
         \/ Prepare(c) \/ GetIdRange(c) \/ SendHelp(c)
         \/ OpenBatch(c) \/ FetchRow(c) \/ BatchReady(c)
  PROVE  UNCHANGED Log!vars
<1> USE DEF db, locals, Goto
<1>1. UNCHANGED <<up, table, acked>> /\ StepOf(c)
  BY DEF Connect, PeerCloses, PeerResets, HangUp, SendWelcome, Prepare, GetIdRange,
     SendHelp, OpenBatch, FetchRow, BatchReady, StepOf, Work
<1>2. CASE \/ Connect(c) \/ HangUp(c) \/ SendWelcome(c) \/ GetIdRange(c) \/ SendHelp(c)
           \/ Prepare(c) /\ pc[c] # "insert"
  <2>1. Other(pc[c]) /\ Other(pc'[c])
    BY <1>2, Functions DEF Other, Connect, HangUp, SendWelcome, Prepare, GetIdRange, SendHelp
  <2> QED
    BY <1>1, <2>1, RequestNow, RequestThen, Unseen
<1>3. CASE PeerCloses(c) \/ PeerResets(c)
  <2>1. Untouched(c)
    BY <1>3 DEF PeerCloses, PeerResets, Untouched
  <2> QED
    BY <1>1, <2>1, SameRequest, Unseen
<1>4. CASE OpenBatch(c) \/ FetchRow(c) \/ BatchReady(c)
  <2>1. UNCHANGED <<cmd, query, floor>>
    BY <1>4 DEF OpenBatch, FetchRow, BatchReady
  <2>2. InQuery(c) /\ InQuery(c)'
    BY <1>4, Functions DEF InQuery, OpenBatch, FetchRow, IsNextRow, BatchReady, NoMoreRows
  <2>3. Owed(c)' = Owed(c) /\ Sent(c)' = Sent(c)
    BY <2>1, SameOwed DEF Sent
  <2> QED
    BY <1>1, <2>1, <2>2, <2>3, RequestNow, RequestThen, Unseen
<1>5. CASE Prepare(c) /\ pc[c] = "insert"
  <2>1. pc'[c] = "commit" /\ cmd' = cmd
    BY <1>5, Functions DEF Prepare
  <2> QED
    BY <1>1, <1>5, <2>1, RequestNow, RequestThen, Unseen
<1> QED
  BY <1>2, <1>3, <1>4, <1>5

-----------------------------------------------------------------------------
(* The process.                                                             *)

\* No thread outlives the process.
NoThreadWhenDown == ~up => \A c \in Clients : pc[c] = "gone"

LEMMA DownStep ==
  ASSUME IInv, NoThreadWhenDown, Next
  PROVE  NoThreadWhenDown'
<1> USE DEF NoThreadWhenDown
<1>1. CASE Die
  BY <1>1 DEF Die
<1>2. CASE Restart
  BY <1>2 DEF Restart
<1>3. ASSUME NEW c \in Clients, StepOf(c) PROVE NoThreadWhenDown'
  <2>1. up' = up
    BY <1>3 DEF StepOf, Connect, PeerCloses, PeerResets, Receive, HangUp, SendWelcome,
       SendOk, SendHelp, SendBatch, SendError, Work, Prepare, PrepareFails, InsertRow,
       InsertFails, GetIdRange, ReadFails, OpenBatch, FetchRow, RowTooLong, BatchReady, QueryEnds
  <2>2. CASE up
    BY <2>1, <2>2
  <2>3. CASE ~up
    <3>1. pc[c] = "gone"
      BY <2>3
    <3>2. pc' = pc
      BY <1>3, <2>3, <3>1 DEF StepOf, Connect, PeerCloses, PeerResets, Receive, HangUp,
         SendWelcome, SendOk, SendHelp, SendBatch, SendError, Work, Prepare,
         PrepareFails, InsertRow, InsertFails, GetIdRange, ReadFails, OpenBatch, FetchRow, RowTooLong, IsNextRow,
         BatchReady, QueryEnds, NoMoreRows
    <3> QED
      BY <2>1, <2>3, <3>2
  <2> QED
    BY <2>2, <2>3
<1> QED
  BY <1>1, <1>2, <1>3 DEF Next, Send, StepOf, BrokenPipe, Killed

LEMMA DieMaps ==
  ASSUME IInv, up, Die
  PROVE  Log!Crash
<1> USE DEF db
<1>1. \A c \in Clients : request'[c] = Log!Nothing
  BY RequestThen DEF Die, Other
<1>2. request' = [c \in Clients |-> request'[c]]
  BY DEF request
<1>3. request' = [c \in Clients |-> Log!Nothing]
  BY <1>1, <1>2
<1> QED
  BY <1>3 DEF Die, Log!Crash

LEMMA RestartMaps ==
  ASSUME IInv, DbGrows, Restart
  PROVE  Log!Restart
<1> USE DEF db, locals
<1>1. \A c \in Clients : request'[c] = request[c]
  BY SameRequest DEF Restart, Untouched
<1>2. /\ request = [c \in Clients |-> request[c]]
      /\ request' = [c \in Clients |-> request'[c]]
  BY DEF request
<1>3. request' = request
  BY <1>1, <1>2
<1> QED
  BY <1>3 DEF Restart, Log!Restart

-----------------------------------------------------------------------------
(* The refinement.                                                          *)

LEMMA InitMaps ==
  Init => Log!Init /\ NoThreadWhenDown
<1> SUFFICES ASSUME Init PROVE Log!Init /\ NoThreadWhenDown
  OBVIOUS
<1>1. \A c \in Clients : request[c] = Log!Nothing
  BY RequestNow DEF Init, Other
<1>2. request = [c \in Clients |-> request[c]]
  BY DEF request
<1>3. request = [c \in Clients |-> Log!Nothing]
  BY <1>1, <1>2
<1> QED
  BY <1>3 DEF Init, Log!Init, Log!RowIds, RowIds, NoThreadWhenDown

LEMMA StepMaps ==
  IInv /\ NoThreadWhenDown /\ [Next]_vars => [Log!Next]_Log!vars
<1> SUFFICES ASSUME IInv, NoThreadWhenDown, [Next]_vars
             PROVE  Log!Next \/ UNCHANGED Log!vars
  OBVIOUS
<1>1. CASE UNCHANGED vars
  BY <1>1 DEF vars, db, locals, Log!vars, request, InQuery, Owed, Stored
<1>2. CASE Next
  <2>0. DbGrows
    BY <1>2, DbStep
  <2>1. ASSUME NEW c \in Clients,
               \/ Connect(c) \/ PeerCloses(c) \/ PeerResets(c) \/ HangUp(c)
               \/ SendWelcome(c) \/ Prepare(c) \/ GetIdRange(c) \/ SendHelp(c)
               \/ OpenBatch(c) \/ FetchRow(c) \/ BatchReady(c)
        PROVE  UNCHANGED Log!vars
    BY <2>0, <2>1, QuietMaps
  <2>2. ASSUME NEW c \in Clients, Receive(c)
        PROVE  Log!Next \/ UNCHANGED Log!vars
    BY <2>0, <2>2, ReceiveMaps
  <2>3. ASSUME NEW c \in Clients,
               InsertRow(c) \/ SendOk(c) \/ SendBatch(c) \/ QueryEnds(c)
        PROVE  Log!Next
    BY <2>0, <2>3, InsertMaps, SendOkMaps, SendBatchMaps, QueryEndsMaps DEF Log!Next
  <2>4. ASSUME NEW c \in Clients,
               PrepareFails(c) \/ InsertFails(c) \/ ReadFails(c) \/ RowTooLong(c)
        PROVE  Log!Next
    <3>1. /\ pc[c] \in Working /\ pc'[c] = "error"
          /\ UNCHANGED <<up, table, acked>> /\ StepOf(c)
      BY <2>4, Functions DEF Working, Holding, PrepareFails, InsertFails, ReadFails, RowTooLong, IsNextRow, Fail, Goto,
         db, StepOf, Work
    <3> QED
      BY <2>0, <3>1, Failing DEF Log!Next
  <2>5. ASSUME NEW c \in Clients, SendError(c) PROVE Log!Next
    <3>1. /\ pc[c] = "error" /\ pc'[c] = "recv"
          /\ UNCHANGED <<up, table, acked>> /\ StepOf(c)
      BY <2>5, Functions DEF SendError, Goto, db, StepOf
    <3> QED
      BY <2>0, <3>1, Forgoing DEF Log!Next
  <2>6. ASSUME NEW c \in Clients, BrokenPipe(c) PROVE Log!Next
    <3>1. pc[c] # "gone" /\ Die
      BY <2>6 DEF BrokenPipe, Sending
    <3> QED
      BY <3>1, DieMaps DEF NoThreadWhenDown, Log!Next
  <2>7. CASE Killed
    BY <2>7, DieMaps DEF Killed, Log!Next
  <2>8. CASE Restart
    BY <2>0, <2>8, RestartMaps DEF Log!Next
  <2> QED
    BY <1>2, <2>1, <2>2, <2>3, <2>4, <2>5, <2>6, <2>7, <2>8 DEF Next, Send, Work
<1> QED
  BY <1>1, <1>2

\* The gateway implements the abstract sensor log: whatever its threads, its
\* batches and its failures do, its clients see the behaviour of SensorLog.
THEOREM Refinement == Spec => ImplementsLog
<1>1. IInv /\ NoThreadWhenDown /\ [Next]_vars => NoThreadWhenDown'
  <2>1. CASE UNCHANGED vars
    BY <2>1 DEF vars, NoThreadWhenDown
  <2> QED
    BY <2>1, DownStep
<1>2. Spec => []NoThreadWhenDown
  BY <1>1, InitMaps, Invariant, PTL DEF Spec
<1> QED
  BY <1>2, InitMaps, StepMaps, Invariant, PTL DEF Spec, ImplementsLog, Log!Spec
=============================================================================
