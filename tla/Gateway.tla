------------------------------ MODULE Gateway ------------------------------
(***************************************************************************)
(* The request path of the gateway: one detached thread per client reads a *)
(* command from its socket, runs it against the one SQLite connection that *)
(* all threads share, and writes the answer back.  The module covers       *)
(* client_handler (app/main.c), gateway_process and its two helpers        *)
(* (core/gateway.c), the two services, the operations of sqlite_db.c and   *)
(* the use of recv and tcp_server_send made by a client thread.            *)
(*                                                                         *)
(* A step is what one thread does between two points where another thread, *)
(* a peer or the operating system can act: one sqlite3_step (the library's *)
(* connection mutex makes each call atomic), one call of tcp_server_send,  *)
(* one recv.  A command is what tcp_parser_parse made of the bytes read.   *)
(***************************************************************************)
EXTENDS Integers, Sequences

CONSTANTS
  Clients,     \* the clients, each served by a thread of its own
  Readings,    \* the device id and four values of a SENSOR command
  NoRow,       \* no reading: an identifier without a row, an unused field
  Requests,    \* the commands the clients send, before normalisation
  MaxRowId,    \* the largest rowid SQLite assigns
  IntMax,      \* INT_MAX
  BatchSize,   \* SQLITE_DB_QUERY_BATCH_SIZE
  BufferSize,  \* sizeof(batch_buffer)
  HeaderLen,   \* length of the header line of a query
  RowLen,      \* length of the line printed for each reading
  Stalled,     \* the clients that may stop reading their socket
  Faults       \* what may fail: "db" calls, "peer" sockets, the process ("kill")

RowIds  == 1 .. MaxRowId
IdArgs  == 0 .. IntMax
Command == [type     : {"SENSOR", "QUERY", "HELP", "INVALID"},
            reading  : Readings \cup {NoRow},
            start_id : IdArgs,
            end_id   : IdArgs]

ASSUME GatewayAssumption ==
  /\ NoRow \notin Readings
  /\ Requests \subseteq {k \in Command : k.type = "SENSOR" => k.reading # NoRow}
  /\ MaxRowId \in Nat /\ IntMax \in Nat
  /\ BatchSize \in Nat \ {0}
  /\ BufferSize \in Nat /\ HeaderLen \in Nat /\ HeaderLen < BufferSize
  /\ RowLen \in [Readings -> Nat]
  /\ Stalled \subseteq Clients
  /\ Faults \subseteq {"db", "peer", "kill"}

VARIABLES
  up,      \* the server process is running
  table,   \* sensor_data: the reading stored under each identifier
  seq,     \* sqlite_sequence: the largest identifier ever assigned
  link,    \* the TCP connection of each client, as the server's kernel sees it
  pc,      \* where each client's thread is
  cmd,     \* tcp_command_t of the command being processed
  query,   \* locals of gateway_handle_query, and the identifiers sent so far
  batch,   \* locals of sqlite_db_query_next_batch
  stmts,   \* the threads that hold a prepared statement between two calls
  range,   \* the two numbers printed by HELP
  floor,   \* history: seq when the command was read
  mine,    \* history: the identifier given to the reading of the command
  acked    \* history: what was stored and answered with OK

db      == <<table, seq>>
locals  == <<cmd, query, batch, range, floor, mine>>
vars    == <<up, table, seq, link, pc, cmd, query, batch, stmts, range,
             floor, mine, acked>>

Stored == {i \in RowIds : table[i] # NoRow}

\* Where a thread waits for its peer to take bytes, and where it works, without
\* a prepared statement in hand or with one.
Sending == {"welcome", "ok", "help", "output", "error"}
Holding == {"commit", "minmax", "step"}
Working == {"insert", "range", "batch"} \cup Holding
Points  == Sending \cup Working \cup {"gone", "recv"}

\* "shut": the peer has closed.  "reset": an RST arrived on an open connection
\* and the next call reports ECONNRESET.  "broken": the error has been reported,
\* or the RST followed a FIN, and a further send raises SIGPIPE.
Links == {"none", "open", "shut", "reset", "broken"}

NoCommand == [type |-> "INVALID", reading |-> NoRow, start_id |-> 0, end_id |-> 0]
NoQuery   == [last |-> -1, first |-> TRUE, out |-> <<>>]
NoBatch   == [snap |-> 0, cur |-> -1, used |-> 0, rows |-> <<>>]

Goto(c, point) == pc' = [pc EXCEPT ![c] = point]

\* The threads in S leave the handler: their stack frames are gone.
Forget(S) ==
  /\ cmd'   = [c \in Clients |-> IF c \in S THEN NoCommand ELSE cmd[c]]
  /\ query' = [c \in Clients |-> IF c \in S THEN NoQuery ELSE query[c]]
  /\ batch' = [c \in Clients |-> IF c \in S THEN NoBatch ELSE batch[c]]
  /\ range' = [c \in Clients |-> IF c \in S THEN <<0, 0>> ELSE range[c]]
  /\ floor' = [c \in Clients |-> IF c \in S THEN 0 ELSE floor[c]]
  /\ mine'  = [c \in Clients |-> IF c \in S THEN 0 ELSE mine[c]]

\* sqlite3_column_int keeps the low 32 bits of a 64-bit rowid.
ToInt(id) ==
  IF id <= IntMax THEN id
  ELSE ((id + IntMax + 1) % (2 * (IntMax + 1))) - (IntMax + 1)

-----------------------------------------------------------------------------
(* The connection.                                                          *)

\* tcp_server_send returns 0: the kernel has taken every byte.  A partial send
\* only advances total_sent and leaves the thread where it is.
Accepted(c) == link[c] \in {"open", "shut"} /\ UNCHANGED link

\* tcp_server_send returns -1.
Refused(c) == link[c] = "reset" /\ link' = [link EXCEPT ![c] = "broken"]

\* A client is accepted and its thread reports TCP_CLIENT_CONNECTED.
Connect(c) ==
  /\ up /\ pc[c] = "gone"
  /\ link' = [link EXCEPT ![c] = "open"]
  /\ Goto(c, "welcome")
  /\ UNCHANGED <<up, db, locals, stmts, acked>>

\* The peer closes its end, or resets the connection.
PeerCloses(c) ==
  /\ "peer" \in Faults /\ link[c] = "open"
  /\ link' = [link EXCEPT ![c] = "shut"]
  /\ UNCHANGED <<up, db, pc, locals, stmts, acked>>

PeerResets(c) ==
  /\ "peer" \in Faults
  /\ \/ link[c] = "open" /\ link' = [link EXCEPT ![c] = "reset"]
     \/ link[c] = "shut" /\ link' = [link EXCEPT ![c] = "broken"]
  /\ UNCHANGED <<up, db, pc, locals, stmts, acked>>

\* The welcome line; a failure is only logged and the thread reads on.
SendWelcome(c) ==
  /\ pc[c] = "welcome"
  /\ Accepted(c) \/ Refused(c)
  /\ Goto(c, "recv")
  /\ UNCHANGED <<up, db, locals, stmts, acked>>

\* parse_query swaps the bounds of a reversed range.
Parse(r) ==
  IF r.start_id <= r.end_id THEN r
  ELSE [r EXCEPT !.start_id = r.end_id, !.end_id = r.start_id]

\* gateway_process dispatches on the command type.
Dispatch(type) ==
  CASE type = "SENSOR"  -> "insert"
    [] type = "QUERY"   -> "batch"
    [] type = "HELP"    -> "range"
    [] type = "INVALID" -> "error"

\* recv returns a command; it is parsed and dispatched.  Bytes that arrived
\* before a FIN or an RST are still delivered.
Receive(c) ==
  /\ pc[c] = "recv"
  /\ \E r \in Requests :
       LET k == Parse(r) IN
       /\ cmd' = [cmd EXCEPT ![c] = k]
       /\ query' = [query EXCEPT ![c] =
            [last |-> k.start_id - 1, first |-> TRUE, out |-> <<>>]]
       /\ Goto(c, Dispatch(k.type))
  /\ floor' = [floor EXCEPT ![c] = seq]
  /\ UNCHANGED <<up, db, link, batch, stmts, range, mine, acked>>

\* recv returns 0 or an error: the thread leaves its loop and closes the socket.
HangUp(c) ==
  /\ pc[c] = "recv" /\ link[c] \in {"shut", "reset", "broken"}
  /\ link' = [link EXCEPT ![c] = "none"]
  /\ Goto(c, "gone")
  /\ UNCHANGED <<up, db, locals, stmts, acked>>

-----------------------------------------------------------------------------
(* SENSOR.                                                                  *)

\* The INSERT of a reading, or the SELECT of HELP, is prepared.
Prepare(c) ==
  /\ \/ pc[c] = "insert" /\ Goto(c, "commit")
     \/ pc[c] = "range" /\ Goto(c, "minmax")
  /\ stmts' = stmts \cup {c}
  /\ UNCHANGED <<up, db, link, locals, acked>>

\* A statement cannot be prepared: there is none to finalize.
PrepareFails(c) ==
  /\ "db" \in Faults /\ pc[c] \in {"insert", "range", "batch"}
  /\ Goto(c, "error")
  /\ UNCHANGED <<up, db, link, locals, stmts, acked>>

\* Mutant: the statement is not finalized on the error path.
FailLeaking(c) == UNCHANGED stmts /\ Goto(c, "error")

\* The statement is finalized and the call returns -1.
Fail(c) == stmts' = stmts \ {c} /\ Goto(c, "error")

\* sqlite3_step commits the row under the next AUTOINCREMENT identifier.
InsertRow(c) ==
  /\ pc[c] = "commit" /\ seq < MaxRowId
  /\ seq' = seq + 1
  /\ table' = [table EXCEPT ![seq + 1] = cmd[c].reading]
  /\ mine' = [mine EXCEPT ![c] = seq + 1]
  /\ stmts' = stmts \ {c}
  /\ Goto(c, "ok")
  /\ UNCHANGED <<up, link, cmd, query, batch, range, floor, acked>>

\* Mutant: the result of the insert is not checked.
InsertUnchecked(c) ==
  /\ pc[c] = "commit"
  /\ "db" \in Faults \/ seq = MaxRowId
  /\ seq' \in {seq, seq + 1} /\ seq' <= MaxRowId
  /\ stmts' = stmts \ {c}
  /\ Goto(c, "ok")
  /\ UNCHANGED <<up, table, link, locals, acked>>

\* A value cannot be bound, or the insert fails, always so when no identifier is
\* left (SQLITE_FULL).  SQLite leaves open whether a failed insert uses up an
\* identifier.
InsertFails(c) ==
  /\ pc[c] = "commit"
  /\ "db" \in Faults \/ seq = MaxRowId
  /\ seq' \in {seq, seq + 1} /\ seq' <= MaxRowId
  /\ Fail(c)
  /\ UNCHANGED <<up, table, link, locals, acked>>

\* Mutant: a failed send of OK takes the error path of client_handler.
SendOkOrError(c) ==
  /\ pc[c] = "ok"
  /\ \/ /\ Accepted(c) /\ acked' = acked \cup {<<mine[c], cmd[c].reading>>}
        /\ Goto(c, "recv") /\ Forget({c})
     \/ Refused(c) /\ Goto(c, "error") /\ UNCHANGED <<locals, acked>>
  /\ UNCHANGED <<up, db, stmts>>

\* The answer to SENSOR.  When it cannot be sent the handler returns without
\* an ERROR line.
SendOk(c) ==
  /\ pc[c] = "ok"
  /\ \/ Accepted(c) /\ acked' = acked \cup {<<mine[c], cmd[c].reading>>}
     \/ Refused(c) /\ UNCHANGED acked
  /\ Goto(c, "recv") /\ Forget({c})
  /\ UNCHANGED <<up, db, stmts>>

-----------------------------------------------------------------------------
(* HELP.                                                                    *)

\* Mutant: the two columns read in the wrong order.
IsMaxMin(lo, hi) == \A i \in Stored : hi <= i /\ i <= lo

\* SELECT MIN(id), MAX(id).
IsMinMax(lo, hi) == \A i \in Stored : lo <= i /\ i <= hi

\* Zeroes for an empty table, else the two identifiers, each truncated to int.
GetIdRange(c) ==
  /\ pc[c] = "minmax"
  /\ \/ Stored = {} /\ range' = [range EXCEPT ![c] = <<0, 0>>]
     \/ \E lo, hi \in Stored :
          IsMinMax(lo, hi) /\ range' = [range EXCEPT ![c] = <<ToInt(lo), ToInt(hi)>>]
  /\ stmts' = stmts \ {c}
  /\ Goto(c, "help")
  /\ UNCHANGED <<up, db, link, cmd, query, batch, floor, mine, acked>>

\* A call on the prepared SELECT fails: in the row loop a bind or any step, for
\* HELP its only step.
ReadFails(c) ==
  /\ "db" \in Faults /\ pc[c] \in {"minmax", "step"}
  /\ Fail(c)
  /\ UNCHANGED <<up, db, link, locals, acked>>

SendHelp(c) ==
  /\ pc[c] = "help"
  /\ Accepted(c) \/ Refused(c)
  /\ Goto(c, "recv") /\ Forget({c})
  /\ UNCHANGED <<up, db, stmts, acked>>

-----------------------------------------------------------------------------
(* QUERY.                                                                   *)

\* Prepares the SELECT for the next batch, prints the header of the first one,
\* and takes the snapshot the statement reads.
OpenBatch(c) ==
  /\ pc[c] = "batch"
  /\ batch' = [batch EXCEPT ![c] =
       [snap |-> seq, cur |-> query[c].last, rows |-> <<>>,
        used |-> IF query[c].first THEN HeaderLen ELSE 0]]
  /\ stmts' = stmts \cup {c}
  /\ Goto(c, "step")
  /\ UNCHANGED <<up, db, link, cmd, query, range, floor, mine, acked>>

\* Mutants: id >= ?, which hands out the row at the cursor again; id < ?, which
\* leaves out the row at the end of the range.
SelectedFrom(c)  == {i \in Stored : batch[c].cur <= i /\ i <= cmd[c].end_id}
SelectedBelow(c) == {i \in Stored : batch[c].cur < i /\ i < cmd[c].end_id}

\* The rows after the cursor that satisfy the WHERE clause.
Selected(c) == {i \in Stored : batch[c].cur < i /\ i <= cmd[c].end_id}

\* Mutant: no ORDER BY.
IsAnyRow(c, id) ==
  pc[c] = "step" /\ Len(batch[c].rows) < BatchSize /\ id \in Selected(c)

\* Mutant: one row more than the buffer is sized for.
IsOneRowMore(c, id) ==
  /\ pc[c] = "step" /\ Len(batch[c].rows) <= BatchSize
  /\ id \in Selected(c)
  /\ \A j \in Selected(c) : j < id => j > batch[c].snap

\* The row sqlite3_step returns.  A row another thread inserted on the same
\* connection while the statement is active may be seen or not.
IsNextRow(c, id) ==
  /\ pc[c] = "step" /\ Len(batch[c].rows) < BatchSize
  /\ id \in Selected(c)
  /\ \A j \in Selected(c) : j < id => j > batch[c].snap

LenWith(c, id) == batch[c].used + RowLen[table[id]]

\* Mutant: the terminating NUL is forgotten.
FitsWithoutNul(c, id) == LenWith(c, id) <= BufferSize

\* The row's line fits, with its terminating NUL.
Fits(c, id) == LenWith(c, id) < BufferSize

FetchRow(c) ==
  /\ \E id \in RowIds :
       /\ IsNextRow(c, id)
       /\ Fits(c, id)
       /\ batch' = [batch EXCEPT ![c] =
            [snap |-> batch[c].snap, cur |-> ToInt(id), used |-> LenWith(c, id),
             rows |-> Append(batch[c].rows, ToInt(id))]]
  /\ UNCHANGED <<up, db, link, pc, cmd, query, stmts, range, floor, mine, acked>>

\* The line does not fit: the statement is finalized and the query fails.
RowTooLong(c) ==
  /\ \E id \in RowIds : IsNextRow(c, id) /\ ~Fits(c, id)
  /\ Fail(c)
  /\ UNCHANGED <<up, db, link, locals, acked>>

\* sqlite3_step returns SQLITE_DONE.
NoMoreRows(c) ==
  /\ pc[c] = "step"
  /\ \/ Len(batch[c].rows) = BatchSize
     \/ \A j \in Selected(c) : j > batch[c].snap

\* A batch with rows goes to the output handler.
BatchReady(c) ==
  /\ NoMoreRows(c) /\ batch[c].rows # <<>>
  /\ stmts' = stmts \ {c}
  /\ Goto(c, "output")
  /\ UNCHANGED <<up, db, link, locals, acked>>

\* Mutant: an empty first batch is fetched again instead of ending the query.
QueryPolls(c) ==
  /\ NoMoreRows(c) /\ batch[c].rows = <<>>
  /\ stmts' = stmts \ {c}
  /\ IF query[c].first
     THEN /\ batch' = [batch EXCEPT ![c] = NoBatch]
          /\ Goto(c, "batch")
          /\ UNCHANGED <<cmd, query, range, floor, mine>>
     ELSE Goto(c, "recv") /\ Forget({c})
  /\ UNCHANGED <<up, db, link, acked>>

\* An empty batch ends the query: nothing is sent for it, header or other.
QueryEnds(c) ==
  /\ NoMoreRows(c) /\ batch[c].rows = <<>>
  /\ stmts' = stmts \ {c}
  /\ Goto(c, "recv") /\ Forget({c})
  /\ UNCHANGED <<up, db, link, acked>>

\* gateway_output_handler sends the batch; the cursor moves to its last row.
SendBatch(c) ==
  /\ pc[c] = "output"
  /\ \/ /\ Accepted(c)
        /\ query' = [query EXCEPT ![c] =
             [last |-> batch[c].cur, first |-> FALSE,
              out |-> query[c].out \o batch[c].rows]]
        /\ batch' = [batch EXCEPT ![c] = NoBatch]
        /\ Goto(c, "batch")
     \/ /\ Refused(c)
        /\ Goto(c, "error")
        /\ UNCHANGED <<query, batch>>
  /\ UNCHANGED <<up, db, cmd, stmts, range, floor, mine, acked>>

\* client_handler answers ERROR when gateway_process failed.
SendError(c) ==
  /\ pc[c] = "error"
  /\ Accepted(c) \/ Refused(c)
  /\ Goto(c, "recv") /\ Forget({c})
  /\ UNCHANGED <<up, db, stmts, acked>>

-----------------------------------------------------------------------------
(* The process.                                                             *)

Die ==
  /\ up' = FALSE
  /\ link' = [c \in Clients |-> "none"]
  /\ pc' = [c \in Clients |-> "gone"]
  /\ stmts' = {}
  /\ Forget(Clients)
  /\ UNCHANGED <<db, acked>>

\* send on a broken connection raises SIGPIPE, which nothing handles.
BrokenPipe(c) == pc[c] \in Sending /\ link[c] = "broken" /\ Die

\* The process is killed from outside.
Killed == up /\ "kill" \in Faults /\ Die

\* The server is started again on the same database file.
Restart ==
  /\ ~up /\ up' = TRUE
  /\ UNCHANGED <<db, link, pc, locals, stmts, acked>>

Init ==
  /\ up = TRUE
  /\ table = [i \in RowIds |-> NoRow] /\ seq = 0
  /\ link = [c \in Clients |-> "none"] /\ pc = [c \in Clients |-> "gone"]
  /\ cmd = [c \in Clients |-> NoCommand]
  /\ query = [c \in Clients |-> NoQuery]
  /\ batch = [c \in Clients |-> NoBatch]
  /\ range = [c \in Clients |-> <<0, 0>>]
  /\ floor = [c \in Clients |-> 0] /\ mine = [c \in Clients |-> 0]
  /\ stmts = {} /\ acked = {}

Send(c) ==
  \/ SendWelcome(c) \/ SendOk(c) \/ SendHelp(c) \/ SendBatch(c) \/ SendError(c)
  \/ BrokenPipe(c)

Work(c) ==
  \/ Prepare(c) \/ PrepareFails(c)
  \/ InsertRow(c) \/ InsertFails(c) \/ GetIdRange(c) \/ ReadFails(c)
  \/ OpenBatch(c) \/ FetchRow(c) \/ RowTooLong(c) \/ BatchReady(c) \/ QueryEnds(c)

Next ==
  \/ \E c \in Clients :
       \/ Connect(c) \/ PeerCloses(c) \/ PeerResets(c) \/ Receive(c) \/ HangUp(c)
       \/ Send(c) \/ Work(c)
  \/ Killed
  \/ Restart

\* A runnable thread is scheduled.  A send to a peer that reads its socket
\* completes; a send to a stalled peer need not.
Fairness ==
  /\ \A c \in Clients : WF_vars(Work(c))
  /\ \A c \in Clients \ Stalled : WF_vars(Send(c))

Spec == Init /\ [][Next]_vars /\ Fairness

-----------------------------------------------------------------------------
(* Properties.                                                              *)

\* Every variable has its type; the batch buffer always has room for its NUL
\* (the size_t difference buffer_size - used never wraps) and holds at most
\* SQLITE_DB_QUERY_BATCH_SIZE rows.
TypeOK ==
  /\ up \in BOOLEAN
  /\ table \in [RowIds -> Readings \cup {NoRow}]
  /\ seq \in 0 .. MaxRowId
  /\ link \in [Clients -> Links]
  /\ pc \in [Clients -> Points]
  /\ cmd \in [Clients -> Command]
  /\ query \in [Clients -> [last : -1 .. IntMax, first : BOOLEAN, out : Seq(RowIds)]]
  /\ batch \in [Clients -> [snap : 0 .. MaxRowId, cur : -1 .. IntMax,
                            used : 0 .. BufferSize - 1, rows : Seq(RowIds)]]
  /\ \A c \in Clients : Len(batch[c].rows) <= BatchSize
  /\ stmts \subseteq Clients
  /\ range \in [Clients -> Int \X Int]
  /\ floor \in [Clients -> 0 .. MaxRowId]
  /\ mine \in [Clients -> 0 .. MaxRowId]
  /\ acked \subseteq RowIds \X Readings

InQuery(c) == pc[c] \in {"batch", "step", "output"}

Ascending(s) == \A i, j \in 1 .. Len(s) : i < j => s[i] < s[j]
Elements(s)  == {s[i] : i \in 1 .. Len(s)}

\* Over all its batches a query hands out rows of the table, inside the range
\* asked for, in strictly ascending identifier order: none twice, none out of
\* order, whatever other threads insert between and during the batches.
RowsInOrder ==
  \A c \in Clients : InQuery(c) =>
    LET sent == query[c].out \o batch[c].rows IN
    /\ Ascending(sent)
    /\ Elements(sent) \subseteq Stored \cap (cmd[c].start_id .. cmd[c].end_id)

\* The cursor of a running query never passes a row that was in the table when
\* the command was read and has not been handed out.
NoRowSkipped ==
  \A c \in Clients : InQuery(c) =>
    \A i \in Stored :
      (i <= floor[c] /\ cmd[c].start_id <= i /\ i <= query[c].last)
        => i \in Elements(query[c].out)

\* A query that ends without ERROR has handed out every row of its range that
\* was in the table when the command was read.
QueryCompletes ==
  [][\A c \in Clients : (pc[c] = "step" /\ pc'[c] = "recv") =>
       \A i \in Stored :
         (i <= floor[c] /\ cmd[c].start_id <= i /\ i <= cmd[c].end_id)
           => i \in Elements(query[c].out)]_vars

\* Each batch that is sent moves the cursor up, and never past the end of the
\* range: the loop of gateway_handle_query cannot run for ever.
CursorAdvances ==
  [][\A c \in Clients : (pc[c] = "output" /\ pc'[c] = "batch") =>
       /\ query'[c].last > query[c].last
       /\ query'[c].last <= cmd[c].end_id]_vars

\* How many steps of its own a thread needs at most until it reads the next
\* command.  Of a query, each row it has yet to look at may cost it a batch.
Cursor(c) == IF pc[c] \in {"step", "output"} THEN batch[c].cur ELSE query[c].last
Ahead(c)  == cmd[c].end_id - Cursor(c)

StepsAt(point, ahead, rows) ==
  CASE point \in {"gone", "recv"}                   -> 0
    [] point \in {"welcome", "ok", "help", "error"} -> 1
    [] point \in {"commit", "minmax"}               -> 2
    [] point \in {"insert", "range"}                -> 3
    [] point = "batch"                              -> 4 * ahead + 3
    [] point = "step"                -> 4 * ahead + IF rows = <<>> THEN 2 ELSE 5
    [] point = "output"                             -> 4 * ahead + 4

StepsLeft(c) == StepsAt(pc[c], Ahead(c), batch[c].rows)

\* Nothing prolongs a command: every step of its own thread brings it closer to
\* its end, and no step of another thread, an insert into the range of a running
\* query included, takes it further away.
CommandShrinks ==
  [][\A c \in Clients : pc[c] \in Working \cup Sending =>
       \/ StepsLeft(c)' \in 0 .. StepsLeft(c) - 1
       \/ UNCHANGED <<pc[c], cmd[c], query[c], batch[c]>>]_vars

\* A full batch of the longest line stored fits the buffer, behind the header.
Roomy == \A i \in Stored : HeaderLen + BatchSize * RowLen[table[i]] < BufferSize

\* As long as the lines stored are that short, no query fails for want of room
\* in batch_buffer, in whichever batch it is and wherever its rows are divided.
RoomyRowsFit ==
  Roomy => \A c \in Clients : \A id \in RowIds : IsNextRow(c, id) => Fits(c, id)

\* Whatever was answered with OK is in the table, under one identifier and with
\* the reading of that command, also after the process died and was restarted.
AckedStored == acked \subseteq {<<i, table[i]>> : i \in Stored}

\* A SENSOR command answered with ERROR left no row behind, so that its client
\* may send it again without storing it twice.
ErrorMeansUnstored ==
  \A c \in Clients : (pc[c] = "error" /\ cmd[c].type = "SENSOR") => mine[c] = 0

\* A statement lives from its preparation to the end of the function that prepared
\* it: it is finalized on every way out, and none is held while a thread waits for
\* a peer to read, which would pin the WAL and stop its checkpoints for as long as
\* that peer likes.
StatementsReleased == stmts = {c \in Clients : pc[c] \in Holding}

\* The range HELP prints covers every row that was there when HELP was read,
\* as long as identifiers fit an int.
HelpCoversRows ==
  \A c \in Clients : (pc[c] = "help" /\ seq <= IntMax) =>
    \A i \in Stored : i <= floor[c] => range[c][1] <= i /\ i <= range[c][2]

\* What the sources say and the code does not do; each is refuted by a run.

\* A peer that goes away makes tcp_server_send fail and nothing else: "@return 0
\* on success, -1 on failure" (tcp_server.h:104).
SendOnlyFails == up

\* Rows that were accepted can be read back: "Retrieve data records in a range"
\* (README.md:161); as long as no call of the library fails.
StoredRowsListed ==
  \A c \in Clients : cmd[c].type = "QUERY" => pc[c] # "error"

\* HELP prints the first and the last identifier: "Get the minimum and maximum
\* record IDs" (sqlite_db.h:22).
HelpRangeExact ==
  \A c \in Clients : pc[c] = "help" =>
    \A i \in Stored : i <= floor[c] => range[c][1] <= i /\ i <= range[c][2]

\* A command of a client that reads its answers is finished, although other
\* clients keep inserting and stalled clients never finish theirs.
CommandFinishes ==
  \A c \in Clients \ Stalled :
    pc[c] \in Working \cup Sending ~> pc[c] \in {"recv", "gone"}

-----------------------------------------------------------------------------
(* The inductive invariant.                                                 *)

\* What the batches sent so far have done for the query of c: the cursor stands
\* after them, and below it nothing that was there at the start is missing.
Handed(c) ==
  LET sent == Elements(query[c].out) IN
  /\ cmd[c].start_id - 1 <= query[c].last
  /\ Ascending(query[c].out)
  /\ sent \subseteq Stored \cap (cmd[c].start_id .. cmd[c].end_id)
  /\ \A i \in sent : i <= query[c].last
  /\ \A i \in Stored :
       (i <= floor[c] /\ cmd[c].start_id <= i /\ i <= query[c].last) => i \in sent

\* What the row loop has done for the batch being built: it holds every row of
\* its snapshot between the query's cursor and its own.
Fetched(c) ==
  LET got == Elements(batch[c].rows) IN
  /\ floor[c] <= batch[c].snap /\ batch[c].snap <= seq
  /\ query[c].last <= batch[c].cur
  /\ Ascending(batch[c].rows)
  /\ got \subseteq Stored
  /\ \A i \in got : query[c].last < i /\ i <= batch[c].cur /\ i <= cmd[c].end_id
  /\ IF batch[c].rows = <<>> THEN batch[c].cur = query[c].last ELSE batch[c].cur \in got
  /\ \A i \in Stored :
       (i <= batch[c].snap /\ query[c].last < i /\ i <= batch[c].cur) => i \in got

\* The batch being built has used no more than its share of the buffer for each
\* of its rows, and a query never stands behind the end of its range.
Filled ==
  Roomy => \A c \in Clients : pc[c] = "step" =>
    BatchSize * (batch[c].used - HeaderLen)
      <= Len(batch[c].rows) * (BufferSize - 1 - HeaderLen)

InRange == \A c \in Clients : InQuery(c) => query[c].last <= cmd[c].end_id

\* What holds of one thread and the database.
ThreadInv(c) ==
  /\ floor[c] <= seq
  /\ pc[c] # "ok" => mine[c] = 0
  /\ pc[c] \in {"insert", "commit"} => cmd[c].reading \in Readings
  /\ pc[c] = "ok" => mine[c] \in Stored /\ cmd[c].reading = table[mine[c]]
  /\ pc[c] \notin {"step", "output", "error"} => batch[c] = NoBatch
  /\ pc[c] = "output" => batch[c].rows # <<>>
  /\ InQuery(c) => Handed(c)
  /\ pc[c] \in {"step", "output"} => Fetched(c)
  /\ (pc[c] = "help" /\ seq <= IntMax) =>
       \A i \in Stored : i <= floor[c] => range[c][1] <= i /\ i <= range[c][2]

\* Type correctness, the rows lie below the last identifier assigned, and the
\* parts above: together they are preserved by every step.
IInv ==
  /\ TypeOK
  /\ \A i \in Stored : i <= seq
  /\ AckedStored
  /\ StatementsReleased
  /\ \A c \in Clients : ThreadInv(c)

-----------------------------------------------------------------------------
(* The abstract log this module implements.                                 *)

\* The rows of its range that were there when the command was read.
Owed(c) == {i \in Stored : /\ cmd[c].start_id <= i /\ i <= cmd[c].end_id
                           /\ i <= floor[c]}

request == [c \in Clients |->
  CASE pc[c] \in {"insert", "commit"} -> [kind |-> "store", reading |-> cmd[c].reading]
    [] pc[c] = "ok"    -> [kind |-> "stored", id |-> mine[c]]
    [] InQuery(c)      -> [kind |-> "list", from |-> cmd[c].start_id,
                           upto |-> cmd[c].end_id, owed |-> Owed(c),
                           got |-> Elements(query[c].out)]
    [] pc[c] = "error" -> [kind |-> "failed"]
    [] OTHER           -> [kind |-> "none"]]

Log == INSTANCE SensorLog WITH req <- request

\* The gateway implements the abstract sensor log.
ImplementsLog == Log!Spec
=============================================================================
