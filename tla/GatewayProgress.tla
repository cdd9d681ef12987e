-------------------------- MODULE GatewayProgress --------------------------
(***************************************************************************)
(* Two more theorems about Gateway, on top of its inductive invariant: how *)
(* far a command is from its end, whatever other threads do, and how long  *)
(* lines may be for every batch of a query to fit its buffer.              *)
(***************************************************************************)
EXTENDS GatewayProofs

\* What a query goes by is as it was.
Same(c) ==
  /\ pc'[c] = pc[c] /\ cmd'[c] = cmd[c]
  /\ query'[c] = query[c] /\ batch'[c] = batch[c]

\* No thread changes what another one's command goes by.
LEMMA OthersLeave ==
  ASSUME IInv, NEW c \in Clients, NEW d \in Clients, d # c, StepOf(d)
  PROVE  Same(c)
<1> USE DEF db, locals
<1>1. CASE \/ Connect(d) \/ PeerCloses(d) \/ PeerResets(d) \/ HangUp(d)
           \/ SendWelcome(d) \/ Receive(d)
  BY <1>1, Functions DEF Same, Goto, Connect, PeerCloses, PeerResets, HangUp,
     SendWelcome, Receive
<1>2. CASE SendOk(d) \/ SendHelp(d) \/ SendError(d) \/ QueryEnds(d)
  BY <1>2, Functions DEF Same, Goto, Forget, SendOk, SendHelp, SendError, QueryEnds
<1>3. CASE SendBatch(d) \/ OpenBatch(d) \/ FetchRow(d)
  BY <1>3, Functions DEF Same, Goto, SendBatch, OpenBatch, FetchRow
<1>4. CASE \/ Prepare(d) \/ PrepareFails(d) \/ InsertRow(d) \/ InsertFails(d)
           \/ GetIdRange(d) \/ ReadFails(d) \/ RowTooLong(d) \/ BatchReady(d)
  BY <1>4, Functions DEF Same, Goto, Fail, Prepare, PrepareFails, InsertRow, InsertFails,
     GetIdRange, ReadFails, RowTooLong, BatchReady
<1> QED
  BY <1>1, <1>2, <1>3, <1>4 DEF StepOf, Work

\* A step is the end of the process, or its start, or one of a thread's own.
LEMMA Whose ==
  ASSUME IInv, Next, NEW c \in Clients
  PROVE  Die \/ Same(c) \/ StepOf(c)
<1>1. Restart => Same(c)
  BY DEF Restart, Same, locals
<1>2. ASSUME NEW d \in Clients, StepOf(d) PROVE Same(c) \/ StepOf(c)
  BY <1>2, OthersLeave
<1> QED
  BY <1>1, <1>2 DEF Next, Send, StepOf, BrokenPipe, Killed

\* What a step of a thread does to the place where it is: the commands that are
\* over, those that are about to be, and the loop of a query.
LEMMA Places ==
  ASSUME IInv, NEW c \in Clients, StepOf(c)
  PROVE  \/ Same(c)
         \/ pc[c] \in {"gone", "recv"}
         \/ pc[c] \in Working \cup Sending /\ pc'[c] = "recv"
         \/ /\ pc[c] \in Working \cup {"output"}
            /\ pc'[c] \in {"ok", "help", "error"}
         \/ /\ pc[c] \in {"insert", "range"} /\ pc'[c] \in {"commit", "minmax"}
         \/ OpenBatch(c) \/ FetchRow(c) \/ BatchReady(c)
         \/ SendBatch(c) /\ pc'[c] = "batch"
<1> USE DEF Goto, Working, Holding, Sending
<1>1. CASE Connect(c) \/ Receive(c) \/ HangUp(c)
  BY <1>1 DEF Connect, Receive, HangUp
<1>2. CASE PeerCloses(c) \/ PeerResets(c)
  BY <1>2 DEF PeerCloses, PeerResets, Same, locals
<1>3. CASE SendWelcome(c) \/ SendOk(c) \/ SendHelp(c) \/ SendError(c) \/ QueryEnds(c)
  BY <1>3, Functions DEF SendWelcome, SendOk, SendHelp, SendError, QueryEnds, NoMoreRows
<1>4. CASE \/ PrepareFails(c) \/ InsertRow(c) \/ InsertFails(c) \/ GetIdRange(c)
           \/ ReadFails(c) \/ RowTooLong(c)
  BY <1>4, Functions DEF PrepareFails, InsertRow, InsertFails, GetIdRange, ReadFails, Fail,
     RowTooLong, IsNextRow
<1>6. CASE Prepare(c)
  BY <1>6, Functions DEF Prepare
<1>5. CASE SendBatch(c)
  BY <1>5, Functions DEF SendBatch
<1> QED
  BY <1>1, <1>2, <1>3, <1>4, <1>5, <1>6 DEF StepOf, Work

\* What the steps of a query's loop do to it.
LEMMA OpenEffect ==
  ASSUME IInv, NEW c \in Clients, OpenBatch(c)
  PROVE  /\ pc[c] = "batch" /\ pc'[c] = "step" /\ cmd'[c] = cmd[c] /\ query'[c] = query[c]
         /\ batch'[c].cur = query[c].last /\ batch'[c].rows = <<>>
         /\ batch'[c].used \in {0, HeaderLen}
BY Functions DEF OpenBatch, Goto

LEMMA FetchEffect ==
  ASSUME IInv, NEW c \in Clients, FetchRow(c)
  PROVE  \E id \in Stored :
           /\ pc[c] = "step" /\ pc'[c] = "step"
           /\ cmd'[c] = cmd[c] /\ query'[c] = query[c]
           /\ batch[c].cur < id /\ id <= cmd[c].end_id /\ IsNextRow(c, id)
           /\ batch'[c].cur = id /\ batch'[c].used = LenWith(c, id)
           /\ batch'[c].rows = Append(batch[c].rows, id)
<1>1. PICK id \in RowIds :
        /\ IsNextRow(c, id)
        /\ batch' = [batch EXCEPT ![c] =
             [snap |-> batch[c].snap, cur |-> ToInt(id), used |-> LenWith(c, id),
              rows |-> Append(batch[c].rows, ToInt(id))]]
  BY DEF FetchRow
<1>2. /\ pc[c] = "step" /\ id \in Stored
      /\ batch[c].cur < id /\ id <= cmd[c].end_id
  BY <1>1 DEF IsNextRow, Selected
<1>3. ToInt(id) = id
  <2>1. id <= IntMax
    BY <1>2, Values
  <2> QED
    BY <2>1, ToIntType
<1>4. pc' = pc /\ cmd' = cmd /\ query' = query
  BY DEF FetchRow
<1>5. /\ batch'[c].cur = id /\ batch'[c].used = LenWith(c, id)
      /\ batch'[c].rows = Append(batch[c].rows, id)
  BY <1>1, <1>3, Functions
<1> QED
  BY <1>1, <1>2, <1>4, <1>5

LEMMA ReadyEffect ==
  ASSUME IInv, NEW c \in Clients, BatchReady(c)
  PROVE  /\ pc[c] = "step" /\ pc'[c] = "output" /\ batch[c].rows # <<>>
         /\ cmd'[c] = cmd[c] /\ query'[c] = query[c] /\ batch'[c] = batch[c]
BY Functions DEF BatchReady, NoMoreRows, Goto, locals

LEMMA SendEffect ==
  ASSUME IInv, NEW c \in Clients, SendBatch(c), pc'[c] = "batch"
  PROVE  /\ pc[c] = "output" /\ cmd'[c] = cmd[c]
         /\ query'[c].last = batch[c].cur
         /\ query[c].last < batch[c].cur /\ batch[c].cur <= cmd[c].end_id
<1>1. pc[c] = "output" /\ cmd' = cmd
  BY DEF SendBatch
<1>2. pc' # [pc EXCEPT ![c] = "error"]
  BY Functions
<1>3. query' = [query EXCEPT ![c] = [last |-> batch[c].cur, first |-> FALSE,
                                     out |-> query[c].out \o batch[c].rows]]
  BY <1>2 DEF SendBatch, Goto
<1>4. Fetched(c) /\ batch[c].rows # <<>>
  BY <1>1, Own DEF ThreadInv
<1>5. query[c].last < batch[c].cur /\ batch[c].cur <= cmd[c].end_id
  BY <1>4 DEF Fetched
<1> QED
  BY <1>1, <1>3, <1>5, Functions

-----------------------------------------------------------------------------
(* The cursor of a query stays in its range.                                *)

LEMMA RangeStep ==
  ASSUME IInv, InRange, Next, NEW c \in Clients, InQuery(c)'
  PROVE  query'[c].last <= cmd'[c].end_id
<1>0. pc'[c] \in {"batch", "step", "output"}
  BY DEF InQuery
<1>1. ~Die
  BY <1>0 DEF Die
<1>2. CASE Same(c)
  BY <1>0, <1>2 DEF Same, InRange, InQuery
<1>3. CASE pc[c] \in {"gone", "recv"} /\ StepOf(c)
  <2>1. Receive(c)
    <3>1. ~(Connect(c) \/ HangUp(c))
      BY <1>0, Functions DEF Connect, HangUp, Goto
    <3>2. ~(PeerCloses(c) \/ PeerResets(c))
      BY <1>0, <1>3 DEF PeerCloses, PeerResets
    <3>3. ~(SendWelcome(c) \/ SendOk(c) \/ SendHelp(c) \/ SendBatch(c) \/ SendError(c))
      BY <1>3 DEF SendWelcome, SendOk, SendHelp, SendBatch, SendError
    <3>4. ~Work(c)
      BY <1>3 DEF Work, Prepare, PrepareFails, InsertRow, InsertFails, GetIdRange, ReadFails, OpenBatch,
         FetchRow, RowTooLong, IsNextRow, BatchReady, QueryEnds, NoMoreRows
    <3> QED
      BY <1>3, <3>1, <3>2, <3>3, <3>4 DEF StepOf
  <2>2. PICK r \in Requests : /\ cmd'[c] = Parse(r)
                              /\ query'[c].last = Parse(r).start_id - 1
    BY <2>1, Functions DEF Receive
  <2> QED
    BY <2>2, ParseType DEF IdArgs
<1>4. CASE OpenBatch(c)
  BY <1>4, OpenEffect DEF InRange, InQuery
<1>5. CASE FetchRow(c)
  BY <1>5, FetchEffect DEF InRange, InQuery
<1>6. CASE BatchReady(c)
  BY <1>6, ReadyEffect DEF InRange, InQuery
<1>7. CASE SendBatch(c) /\ pc'[c] = "batch"
  BY <1>7, SendEffect
<1> QED
  BY <1>0, <1>1, <1>2, <1>3, <1>4, <1>5, <1>6, <1>7, Whose, Places

-----------------------------------------------------------------------------
(* A command comes to its end.                                              *)

\* The measure at each place.
LEMMA StepsAtPlace ==
  ASSUME NEW p, NEW a \in Int, NEW r
  PROVE  /\ p \in {"gone", "recv"} => StepsAt(p, a, r) = 0
         /\ p \in {"welcome", "ok", "help", "error"} => StepsAt(p, a, r) = 1
         /\ p \in {"commit", "minmax"} => StepsAt(p, a, r) = 2
         /\ p \in {"insert", "range"} => StepsAt(p, a, r) = 3
         /\ p = "batch" => StepsAt(p, a, r) = 4 * a + 3
         /\ p = "step" /\ r = <<>> => StepsAt(p, a, r) = 4 * a + 2
         /\ p = "step" /\ r # <<>> => StepsAt(p, a, r) = 4 * a + 5
         /\ p = "output" => StepsAt(p, a, r) = 4 * a + 4
BY DEF StepsAt

\* ... where a query steps, whether it has rows or not.
LEMMA StepsAtStep ==
  ASSUME NEW a \in Int, NEW r
  PROVE  /\ StepsAt("step", a, r) \in Int
         /\ 4 * a + 2 <= StepsAt("step", a, r) /\ StepsAt("step", a, r) <= 4 * a + 5
<1>1. CASE r = <<>>
  <2>1. StepsAt("step", a, r) = 4 * a + 2
    BY <1>1, StepsAtPlace
  <2> QED
    BY <2>1
<1>2. CASE r # <<>>
  <2>1. StepsAt("step", a, r) = 4 * a + 5
    BY <1>2, StepsAtPlace
  <2> QED
    BY <2>1
<1> QED
  BY <1>1, <1>2

\* How far a query has to go.
LEMMA AheadType ==
  ASSUME IInv, InRange, NEW c \in Clients
  PROVE  /\ Ahead(c) \in Int
         /\ InQuery(c) => Ahead(c) >= 0
<1>1. Ahead(c) \in Int
  BY Values DEF Ahead, Cursor
<1>2. CASE pc[c] = "batch"
  <2>1. query[c].last <= cmd[c].end_id
    BY <1>2 DEF InRange, InQuery
  <2> QED
    BY <1>1, <1>2, <2>1, Values DEF Ahead, Cursor
<1>3. CASE pc[c] \in {"step", "output"}
  <2>1. query[c].last <= cmd[c].end_id
    BY <1>3 DEF InRange, InQuery
  <2>2. Fetched(c)
    BY <1>3, Own DEF ThreadInv
  <2>3. batch[c].cur <= cmd[c].end_id
    BY <2>1, <2>2 DEF Fetched
  <2> QED
    BY <1>1, <1>3, <2>3, Values DEF Ahead, Cursor
<1> QED
  BY <1>1, <1>2, <1>3 DEF InQuery

\* A command that is not over has a step left.
LEMMA StepsLeftType ==
  ASSUME IInv, InRange, NEW c \in Clients, pc[c] \in Working \cup Sending
  PROVE  /\ StepsLeft(c) \in Nat \ {0}
         /\ pc[c] \in Working \cup {"output"} => StepsLeft(c) >= 2
<1>1. /\ Ahead(c) \in Int
      /\ pc[c] \in {"batch", "step", "output"} => Ahead(c) >= 0
  BY AheadType DEF InQuery
<1>2. /\ pc[c] \in {"welcome", "ok", "help", "error", "insert", "range", "commit", "minmax",
                     "batch", "step", "output"}
      /\ Working = {"insert", "range", "commit", "minmax", "batch", "step"}
  BY DEF Working, Holding, Sending
<1>3. CASE pc[c] \in {"welcome", "ok", "help", "error"}
  BY <1>1, <1>2, <1>3, StepsAtPlace DEF StepsLeft
<1>4. CASE pc[c] \in {"insert", "range", "commit", "minmax"}
  BY <1>1, <1>2, <1>4, StepsAtPlace DEF StepsLeft
<1>5. CASE pc[c] = "batch"
  <2>1. StepsLeft(c) = 4 * Ahead(c) + 3
    BY <1>1, <1>5, StepsAtPlace DEF StepsLeft
  <2> QED
    BY <1>1, <1>5, <2>1
<1>6. CASE pc[c] = "output"
  <2>1. StepsLeft(c) = 4 * Ahead(c) + 4
    BY <1>1, <1>6, StepsAtPlace DEF StepsLeft
  <2> QED
    BY <1>1, <1>6, <2>1
<1>7. CASE pc[c] = "step"
  <2>1. StepsLeft(c) \in Int /\ 4 * Ahead(c) + 2 <= StepsLeft(c)
    BY <1>1, <1>7, StepsAtStep DEF StepsLeft
  <2> QED
    BY <1>1, <1>7, <2>1
<1> QED
  BY <1>2, <1>3, <1>4, <1>5, <1>6, <1>7

LEMMA ShrinkStep ==
  ASSUME IInv, InRange, IInv', InRange', Next,
         NEW c \in Clients, pc[c] \in Working \cup Sending
  PROVE  Same(c) \/ StepsLeft(c)' \in 0 .. StepsLeft(c) - 1
<1> DEFINE next == StepsAt(pc'[c], Ahead(c)', batch'[c].rows)
<1>0. StepsLeft(c)' = next /\ StepsLeft(c) = StepsAt(pc[c], Ahead(c), batch[c].rows)
  BY DEF StepsLeft
<1>1. /\ StepsLeft(c) \in Nat \ {0}
      /\ pc[c] \in Working \cup {"output"} => StepsLeft(c) >= 2
      /\ Ahead(c) \in Int
      /\ pc[c] \in {"batch", "step", "output"} => Ahead(c) >= 0
  BY StepsLeftType, AheadType DEF InQuery
<1>2. /\ Ahead(c)' \in Int
      /\ pc'[c] \in {"batch", "step", "output"} => Ahead(c)' >= 0
  <2>1. cmd'[c].end_id \in Int /\ query'[c].last \in Int /\ batch'[c].cur \in Int
    <3>1. /\ cmd' \in [Clients -> Command]
          /\ query' \in [Clients -> [last : -1 .. IntMax, first : BOOLEAN, out : Seq(RowIds)]]
          /\ batch' \in [Clients -> [snap : 0 .. MaxRowId, cur : -1 .. IntMax,
                                    used : 0 .. BufferSize - 1, rows : Seq(RowIds)]]
      BY DEF IInv, TypeOK
    <3>2. cmd'[c] \in Command /\ query'[c].last \in Int /\ batch'[c].cur \in Int
      BY <3>1, GatewayAssumption
    <3> QED
      BY <3>2, GatewayAssumption DEF Command, IdArgs
  <2>2. Ahead(c)' \in Int
    BY <2>1 DEF Ahead, Cursor
  <2>3. CASE pc'[c] = "batch"
    BY <2>1, <2>3 DEF Ahead, Cursor, InRange, InQuery
  <2>4. CASE pc'[c] \in {"step", "output"}
    <3>1. query'[c].last <= cmd'[c].end_id
      BY <2>4 DEF InRange, InQuery
    <3>2. Fetched(c)'
      BY <2>4 DEF IInv, ThreadInv
    <3>3. batch'[c].cur <= cmd'[c].end_id
      BY <3>1, <3>2 DEF Fetched
    <3> QED
      BY <2>1, <2>4, <3>3 DEF Ahead, Cursor
  <2> QED
    BY <2>2, <2>3, <2>4
<1>3. ASSUME next = 0 PROVE StepsLeft(c)' \in 0 .. StepsLeft(c) - 1
  <2> HIDE DEF next
  <2> QED
    BY <1>0, <1>1, <1>3
<1>4. CASE Die \/ pc'[c] = "recv"
  <2>1. pc'[c] \in {"gone", "recv"}
    BY <1>4 DEF Die
  <2>2. next = 0
    BY <1>2, <2>1, StepsAtPlace
  <2> QED
    BY <1>3, <2>2
<1>5. CASE /\ pc[c] \in Working \cup {"output"}
           /\ pc'[c] \in {"ok", "help", "error"}
  <2>1. next = 1
    BY <1>2, <1>5, StepsAtPlace
  <2> HIDE DEF next
  <2> QED
    BY <1>0, <1>1, <1>5, <2>1
<1>6. CASE OpenBatch(c)
  <2>1. /\ pc[c] = "batch" /\ pc'[c] = "step" /\ batch'[c].rows = <<>>
        /\ Ahead(c)' = Ahead(c)
    BY <1>6, OpenEffect DEF Ahead, Cursor
  <2>2. next = 4 * Ahead(c) + 2 /\ StepsLeft(c) = 4 * Ahead(c) + 3
    BY <1>0, <1>1, <2>1, StepsAtPlace
  <2> HIDE DEF next
  <2> QED
    BY <1>0, <1>1, <2>1, <2>2
<1>7. CASE FetchRow(c)
  <2>1. PICK id \in Stored :
          /\ pc[c] = "step" /\ pc'[c] = "step" /\ cmd'[c] = cmd[c]
          /\ batch[c].cur < id /\ batch'[c].cur = id
          /\ batch'[c].rows = Append(batch[c].rows, id)
    BY <1>7, FetchEffect
  <2>2. Ahead(c)' < Ahead(c)
    BY <2>1, Values DEF Ahead, Cursor
  <2>3. next \in Int /\ 4 * Ahead(c)' + 2 <= next /\ next <= 4 * Ahead(c)' + 5
    BY <1>2, <2>1, StepsAtStep
  <2>4. StepsLeft(c) >= 4 * Ahead(c) + 2
    BY <1>0, <1>1, <2>1, StepsAtStep
  <2>5. Ahead(c)' >= 0
    BY <1>2, <2>1
  <2> HIDE DEF next
  <2> QED
    BY <1>0, <1>1, <1>2, <2>2, <2>3, <2>4, <2>5
<1>8. CASE BatchReady(c)
  <2>1. /\ pc[c] = "step" /\ pc'[c] = "output" /\ batch[c].rows # <<>>
        /\ Ahead(c)' = Ahead(c)
    BY <1>8, ReadyEffect DEF Ahead, Cursor
  <2>2. next = 4 * Ahead(c) + 4 /\ StepsLeft(c) = 4 * Ahead(c) + 5
    BY <1>0, <1>1, <2>1, StepsAtPlace
  <2> HIDE DEF next
  <2> QED
    BY <1>0, <1>1, <2>1, <2>2
<1>9. CASE SendBatch(c) /\ pc'[c] = "batch"
  <2>1. pc[c] = "output" /\ Ahead(c)' = Ahead(c)
    BY <1>9, SendEffect DEF Ahead, Cursor
  <2>2. next = 4 * Ahead(c) + 3 /\ StepsLeft(c) = 4 * Ahead(c) + 4
    BY <1>0, <1>1, <1>9, <2>1, StepsAtPlace
  <2> HIDE DEF next
  <2> QED
    BY <1>0, <1>1, <2>1, <2>2
<1>10. pc[c] \notin {"gone", "recv"}
  BY DEF Working, Holding, Sending
<1>11. CASE pc[c] \in {"insert", "range"} /\ pc'[c] \in {"commit", "minmax"}
  <2>1. next = 2 /\ StepsLeft(c) = 3
    BY <1>0, <1>1, <1>2, <1>11, StepsAtPlace
  <2> HIDE DEF next
  <2> QED
    BY <1>0, <2>1
<1> QED
  BY <1>4, <1>5, <1>6, <1>7, <1>8, <1>9, <1>10, <1>11, Whose, Places

\* The cursor of a query is never behind the end of its range.
LEMMA RangeInvariant == Spec => []InRange
<1>1. Init => InRange
  BY DEF Init, InRange, InQuery
<1>2. IInv /\ InRange /\ [Next]_vars => InRange'
  <2>1. ASSUME IInv, InRange, Next PROVE InRange'
    BY <2>1, RangeStep DEF InRange
  <2>2. ASSUME InRange, UNCHANGED vars PROVE InRange'
    BY <2>2 DEF vars, InRange, InQuery
  <2> QED
    BY <2>1, <2>2
<1> QED
  BY <1>1, <1>2, Invariant, PTL DEF Spec

\* No step of any thread takes a command further from its end, and each step of
\* its own thread brings it closer: a query over n identifiers ends after at most
\* 4 * n + 3 of them, however many rows are inserted meanwhile.
THEOREM Shrinks == Spec => CommandShrinks
<1>1. ASSUME IInv, InRange, IInv', InRange', [Next]_vars,
             NEW c \in Clients, pc[c] \in Working \cup Sending
      PROVE  \/ StepsLeft(c)' \in 0 .. StepsLeft(c) - 1
             \/ UNCHANGED <<pc[c], cmd[c], query[c], batch[c]>>
  <2>1. CASE Next
    BY <1>1, <2>1, ShrinkStep DEF Same
  <2>2. CASE UNCHANGED vars
    BY <2>2 DEF vars, locals
  <2> QED
    BY <1>1, <2>1, <2>2
<1>2. (IInv /\ InRange) /\ (IInv /\ InRange)' /\ [Next]_vars =>
        [\A c \in Clients : pc[c] \in Working \cup Sending =>
           \/ StepsLeft(c)' \in 0 .. StepsLeft(c) - 1
           \/ UNCHANGED <<pc[c], cmd[c], query[c], batch[c]>>]_vars
  BY <1>1
<1> QED
  BY <1>2, Invariant, RangeInvariant, PTL DEF Spec, CommandShrinks

-----------------------------------------------------------------------------
(* The room a batch needs.                                                  *)

\* With n shares used at most, one more row uses at most one share more.
LEMMA OneShareMore ==
  ASSUME NEW b \in Nat, NEW u \in Int, NEW l \in Int, NEW n \in Nat, NEW s \in Int,
         b * u <= n * s, b * l <= s
  PROVE  b * (u + l) <= (n + 1) * s
<1>1. b * (u + l) = b * u + b * l /\ (n + 1) * s = n * s + s
  OBVIOUS
<1>2. b * u \in Int /\ b * l \in Int /\ n * s \in Int
  OBVIOUS
<1> DEFINE bu == b * u  bl == b * l  ns == n * s
<1>3. bu \in Int /\ bl \in Int /\ ns \in Int /\ bu <= ns /\ bl <= s
  BY <1>2
<1> HIDE DEF bu, bl, ns
<1>4. bu + bl <= ns + s
  BY <1>3
<1> QED
  BY <1>1, <1>4 DEF bu, bl, ns

\* No more shares than there are is no more than everything.
LEMMA SharesFit ==
  ASSUME NEW b \in Nat \ {0}, NEW n \in Nat, n <= b, NEW s \in Nat, NEW u \in Int,
         b * u <= n * s
  PROVE  u <= s
<1>1. n * s <= b * s
  <2>1. b * s = n * s + (b - n) * s
    OBVIOUS
  <2>2. (b - n) * s \in Nat
    <3>1. b - n \in Nat
      OBVIOUS
    <3> QED
      BY <3>1
  <2>3. n * s \in Int
    OBVIOUS
  <2> QED
    BY <2>1, <2>2, <2>3
<1>2. SUFFICES ASSUME u > s PROVE FALSE
  OBVIOUS
<1>3. b * u = b * s + b * (u - s)
  OBVIOUS
<1>4. b * (u - s) >= 1
  <2>1. u - s \in Nat \ {0}
    BY <1>2
  <2> QED
    BY <2>1
<1> DEFINE bu == b * u  bs == b * s  ns == n * s  rest == b * (u - s)
<1>5. /\ bu \in Int /\ bs \in Int /\ ns \in Int /\ rest \in Int
      /\ bu <= ns /\ ns <= bs /\ bu = bs + rest /\ rest >= 1
  BY <1>1, <1>3, <1>4
<1> HIDE DEF bu, bs, ns, rest
<1> QED
  BY <1>5

\* Lines that are stored stay as long as they are, so what fits now did so before.
LEMMA RoomyBefore ==
  ASSUME IInv, DbGrows, Roomy'
  PROVE  Roomy
BY DEF DbGrows, Roomy

LEMMA Sizes ==
  ASSUME IInv, NEW c \in Clients
  PROVE  /\ BatchSize \in Nat \ {0} /\ HeaderLen \in Nat
         /\ BufferSize - 1 - HeaderLen \in Nat
         /\ batch[c].used \in Nat /\ Len(batch[c].rows) \in Nat
         /\ \A i \in Stored : RowLen[table[i]] \in Nat
<1>1. batch[c].rows \in Seq(RowIds) /\ batch[c].used \in 0 .. BufferSize - 1
  BY DEF IInv, TypeOK
<1>2. \A i \in Stored : table[i] \in Readings
  BY DEF IInv, TypeOK, Stored
<1> QED
  BY <1>1, <1>2, GatewayAssumption

\* A row takes no more than its share.
LEMMA RowShare ==
  ASSUME IInv, Roomy, Filled, NEW c \in Clients, NEW id \in Stored, pc[c] = "step"
  PROVE  BatchSize * (LenWith(c, id) - HeaderLen)
           <= (Len(batch[c].rows) + 1) * (BufferSize - 1 - HeaderLen)
<1> DEFINE l == RowLen[table[id]]
           u == batch[c].used - HeaderLen
           s == BufferSize - 1 - HeaderLen
           n == Len(batch[c].rows)
<1>1. /\ BatchSize \in Nat /\ l \in Int /\ u \in Int /\ s \in Int /\ n \in Nat
      /\ batch[c].used \in Int /\ HeaderLen \in Int /\ BufferSize \in Int
  BY Sizes, GatewayAssumption
<1>2. BatchSize * u <= n * s
  BY DEF Filled
<1>3. BatchSize * l <= s
  <2>1. HeaderLen + BatchSize * l < BufferSize
    BY DEF Roomy
  <2>2. BatchSize * l \in Int
    BY <1>1
  <2> QED
    BY <1>1, <2>1, <2>2
<1>4. LenWith(c, id) - HeaderLen = u + l
  BY <1>1 DEF LenWith
<1>5. BatchSize * (u + l) <= (n + 1) * s
  BY <1>1, <1>2, <1>3, OneShareMore
<1> QED
  BY <1>4, <1>5

LEMMA FilledStep ==
  ASSUME IInv, Filled, Next, Roomy', NEW c \in Clients, pc'[c] = "step"
  PROVE  BatchSize * (batch'[c].used - HeaderLen)
           <= Len(batch'[c].rows) * (BufferSize - 1 - HeaderLen)
<1>1. Roomy
  BY DbStep, RoomyBefore
<1>2. ~Die
  BY DEF Die
<1>3. CASE Same(c)
  BY <1>1, <1>3 DEF Same, Filled
<1>4. CASE OpenBatch(c)
  <2>1. batch'[c].used \in {0, HeaderLen} /\ Len(batch'[c].rows) = 0
    BY <1>4, OpenEffect
  <2>2. BatchSize \in Nat /\ HeaderLen \in Nat /\ BufferSize - 1 - HeaderLen \in Nat
    BY Sizes
  <2>3. BatchSize * (0 - HeaderLen) <= 0 /\ BatchSize * (HeaderLen - HeaderLen) = 0
    <3>1. BatchSize * HeaderLen \in Nat /\ BatchSize * (0 - HeaderLen) = 0 - BatchSize * HeaderLen
      BY <2>2
    <3> QED
      BY <2>2, <3>1
  <2> QED
    BY <2>1, <2>2, <2>3
<1>5. CASE FetchRow(c)
  <2>1. PICK id \in Stored :
          /\ pc[c] = "step" /\ batch'[c].used = LenWith(c, id)
          /\ batch'[c].rows = Append(batch[c].rows, id)
    BY <1>5, FetchEffect
  <2>2. Len(batch'[c].rows) = Len(batch[c].rows) + 1
    BY <2>1, Batches
  <2> QED
    BY <1>1, <2>1, <2>2, RowShare
<1>6. CASE pc[c] \in {"gone", "recv"} /\ StepOf(c) /\ ~Same(c)
  <2>1. ~(Connect(c) \/ HangUp(c))
    BY Functions DEF Connect, HangUp, Goto
  <2>2. ~Receive(c)
    <3>1. ASSUME NEW r \in Requests PROVE Dispatch(Parse(r).type) # "step"
      <4>1. Parse(r).type \in {"SENSOR", "QUERY", "HELP", "INVALID"}
        BY ParseType DEF Command
      <4> QED
        BY <4>1 DEF Dispatch
    <3> QED
      BY <3>1, Functions DEF Receive, Goto
  <2>3. ~(PeerCloses(c) \/ PeerResets(c))
    BY <1>6 DEF PeerCloses, PeerResets
  <2>4. ~(SendWelcome(c) \/ SendOk(c) \/ SendHelp(c) \/ SendBatch(c) \/ SendError(c))
    BY <1>6 DEF SendWelcome, SendOk, SendHelp, SendBatch, SendError
  <2>5. ~Work(c)
    BY <1>6 DEF Work, Prepare, PrepareFails, InsertRow, InsertFails, GetIdRange, ReadFails, OpenBatch,
       FetchRow, RowTooLong, IsNextRow, BatchReady, QueryEnds, NoMoreRows
  <2> QED
    BY <1>6, <2>1, <2>2, <2>3, <2>4, <2>5 DEF StepOf
<1>7. ~BatchReady(c)
  BY ReadyEffect
<1> QED
  BY <1>2, <1>3, <1>4, <1>5, <1>6, <1>7, Whose, Places

\* Each row takes at most its share of the buffer, as long as lines are short.
LEMMA FilledInvariant == Spec => []Filled
<1>1. Init => Filled
  BY DEF Init, Filled
<1>2. IInv /\ Filled /\ [Next]_vars => Filled'
  <2>1. ASSUME IInv, Filled, Next PROVE Filled'
    BY <2>1, FilledStep DEF Filled
  <2>2. ASSUME Filled, UNCHANGED vars PROVE Filled'
    BY <2>2 DEF vars, db, locals, Filled, Roomy, Stored
  <2> QED
    BY <2>1, <2>2
<1> QED
  BY <1>1, <1>2, Invariant, PTL DEF Spec

\* As long as HeaderLen + BatchSize * length < BufferSize for every line stored, no
\* query fails for want of room.
THEOREM Roomily == Spec => []RoomyRowsFit
<1>1. ASSUME IInv, Filled, Roomy, NEW c \in Clients, NEW id \in RowIds, IsNextRow(c, id)
      PROVE  Fits(c, id)
  <2>1. pc[c] = "step" /\ id \in Stored /\ Len(batch[c].rows) < BatchSize
    BY <1>1 DEF IsNextRow, Selected
  <2> DEFINE u == LenWith(c, id) - HeaderLen
             s == BufferSize - 1 - HeaderLen
             n == Len(batch[c].rows) + 1
  <2>2. BatchSize * u <= n * s
    BY <1>1, <2>1, RowShare
  <2>3. /\ BatchSize \in Nat \ {0} /\ s \in Nat /\ n \in Nat /\ n <= BatchSize
        /\ LenWith(c, id) \in Int /\ HeaderLen \in Int /\ BufferSize \in Int /\ u \in Int
    BY <1>1, <2>1, Sizes, GatewayAssumption DEF LenWith
  <2>4. u <= s
    <3> HIDE DEF u, s, n
    <3> QED
      BY <2>2, <2>3, SharesFit
  <2> QED
    BY <2>3, <2>4 DEF Fits
<1>2. IInv /\ Filled => RoomyRowsFit
  BY <1>1 DEF RoomyRowsFit
<1> QED
  BY <1>2, Invariant, FilledInvariant, PTL
=============================================================================
