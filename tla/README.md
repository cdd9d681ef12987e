# TCP_Sqlite: models and proofs

TCP_Sqlite is a TCP gateway in C: clients connect, send one-line commands
(`SENSOR`, `QUERY`, `HELP`), and the gateway stores readings in SQLite and
lists them back. One detached thread serves each client; all threads share one
SQLite connection. This directory holds TLA+ models of the program, the TLC
configurations that check them on small instances, and proofs of the central
theorems for every instance.

## Files

| file | content |
| --- | --- |
| `SensorLog.tla` | abstract specification: what the gateway promises its clients |
| `Gateway.tla` | the request path, from `recv` to the answer, with all client threads |
| `MCGateway.tla` | constants for TLC |
| `Interleave.cfg`, `Faults.cfg`, `Fair.cfg` | passing runs |
| `BrokenPipe.cfg`, `LongRows.cfg`, `WideIds.cfg` | runs that refute something a source says |
| `GatewayProofs.tla` | the invariant of `Gateway` and what follows from it |
| `GatewayProgress.tla` | how far a command is from its end, and how long lines may be for a batch to fit |
| `GatewayRefinement.tla` | the proof that `Gateway` implements `SensorLog` |
| `ConnectionService.tla` | abstract specification: what the server promises those who connect |
| `TcpServer.tla` | accept loop, client threads, stop, and the descriptor table they share |
| `MCTcpServer.tla`, `ServerSafe.cfg`, `ServerLive.cfg` | its instances and passing runs |
| `LostStop.cfg` | a run that refutes something the header of the server says |
| `TcpServerProofs.tla` | the invariant of `TcpServer` and what follows from it |
| `TcpServerRefinement.tla` | the proof that `TcpServer` implements `ConnectionService` |
| `TcpParser.tla` | the parser step by step, in several threads that share the position of `strtok` |
| `CommandStream.tla` | commands on their way through TCP and `recv` to the parser |
| `MCCommandStream.tla`, `Stream.cfg` | its instance and passing run |
| `SharedStrtok.cfg` | a run that refutes something the header of the parser says |
| `TcpParserProofs.tla` | what the parser's scans find, and what becomes of an undisturbed text |
| `CommandStreamProofs.tla` | the invariant of `CommandStream` and what follows from it |
| `Startup.tla` | `main`: what it creates, how each step fails, what is released, several processes on one file |
| `MCStartup.tla`, `Startup.cfg` | its instance and passing run |
| `StartupProofs.tla` | the invariant of `Startup` and what follows from it |
| `PROJECT.json` | components, runs, mutants, map to the source lines, findings, hazards, theorems |

## Inventory

**Transport** (`transport/tcp/tcp_server.c`). State: the listening descriptor,
`running`, the handler, one descriptor and one thread per client. Operations:
create, set_handler, start (the accept loop), stop, destroy, send, and the
thread body. It calls the handler with CONNECTED, DATA and DISCONNECTED. Hard:
threads are detached and nobody waits for them; `running` is read and written
without synchronisation; stop and start both close the listening descriptor;
sends block and may raise SIGPIPE. Correct when: every accepted descriptor is
closed once, stop ends the accept loop, no thread touches freed memory, a slow
client delays only itself.

**Parser** (`protocol/tcp/tcp_parser.c`). State: none of its own, but `strtok`
keeps one position for the process. Hard: parsing in several threads at once;
empty fields vanish; `strtod` takes `nan`. Correct when: a command is accepted
exactly if it has the documented form, and two threads do not disturb each other.

**Gateway core** (`core/gateway.c`). State: two services; per query the cursor
`last_id`, the first-batch flag and a 4096-byte buffer. Dispatches a command;
for QUERY repeats "fetch a batch, send it, move the cursor" until a batch is
empty. Hard: the table grows between and during batches. Correct when: a query
is ordered, complete and ends.

**Services** (`service/`). Pass-through layers over the database.

**Storage** (`storage/sqlite/sqlite_db.c`). State: the connection; per batch a
prepared statement, the bytes used, the row count, the current identifier.
Operations: open, insert, get_id_range, query_next_batch, close. Hard: error
paths must finalize the statement; rows must fit the buffer; identifiers are 64
bits wide in the file and 32 in the program; other threads step statements on
the same connection. Correct when: what is acknowledged is stored, and a batch
holds the next rows after the cursor.

**Application** (`app/main.c`). `client_handler` turns events into calls of the
gateway and answers; `main` creates everything and releases it in reverse order.
Hard: sending ERROR on a connection that has just failed; releasing what
threads still use.

**Logging, configuration, build files, vendored SQLite.** Not modelled (see
below).

Interaction: accept loop -> thread -> `client_handler` -> `gateway_process` ->
parser, services -> storage -> SQLite; answers go back through `tcp_server_send`,
for QUERY from inside `gateway_process` through `gateway_output_handler`.

## What `Gateway` models

One action is what one thread does between two points at which another thread,
a peer or the operating system can act: one `sqlite3_step` (SQLite's default
threading mode serializes calls on a connection), one call of `tcp_server_send`,
one `recv`.

| code | model |
| --- | --- |
| `sensor_data`, `sqlite_sequence` | `table`, `seq` |
| where a client's thread is | `pc[c]` |
| `tcp_command_t` | `cmd[c]` (after `Parse`, which swaps a reversed range) |
| `last_id`, `is_first_batch` of `gateway_handle_query` | `query[c].last`, `query[c].first`; `query[c].out` records the identifiers sent, and is what `request[c].got` shows of them |
| `current_id`, `used`, the rows printed in `sqlite_db_query_next_batch` | `batch[c].cur`, `.used`, `.rows`; `.snap` is `seq` when the statement was prepared |
| prepared statements, of an insert, of HELP or of a batch | `stmts` |
| the two numbers HELP prints | `range[c]` |
| the connection, as the server's kernel sees it | `link[c]`: none, open, shut (FIN received), reset (RST pending), broken (the next send raises SIGPIPE) |
| the process | `up` |
| history, not in the code | `floor[c]` (`seq` when the command was read), `mine[c]` (the identifier of the row just inserted), `acked` (what was answered with OK) |

The actions follow the code's order: `Connect`, `SendWelcome`, then `Receive`
and one of
`Prepare` -> `InsertRow`/`InsertFails` -> `SendOk`/`SendError`;
`Prepare` -> `GetIdRange` -> `SendHelp`;
`OpenBatch` -> `FetchRow`* -> `BatchReady` -> `SendBatch` -> `OpenBatch` ... -> `QueryEnds`;
an invalid command -> `SendError`. Each of the three database functions holds its
statement from its preparation to whichever exit it takes: `PrepareFails` leaves without
one, `InsertFails` (a bind or the step), `ReadFails` (a bind or a step) and `RowTooLong`
have to finalize it. `HangUp` is the end of a thread. `PeerCloses`, `PeerResets`,
`BrokenPipe`, `Killed` and `Restart` are the environment.

What is assumed of the libraries and the kernel:

- an insert is atomic and durable against the end of the process (not against
  the loss of power, which WAL mode with default settings also survives only
  up to the last checkpointed sync);
- AUTOINCREMENT assigns identifiers above every identifier assigned before, may
  leave gaps after a failed insert, and fails with SQLITE_FULL at the maximum;
- a row that another thread inserts through the same connection while a SELECT
  is being stepped may be returned by it or not;
- bytes that arrived before a FIN or RST are still returned by `recv`.

Abstracted: what a command and an answer look like as text (a reading is a model
value with the length of its line; that the identifier adds one to ten digits to a
line is left out, which a longer reading makes up for), partial sends (they only advance
`total_sent`), EINTR (retried), logging.

`SensorLog` is the abstract specification: a log of readings that only grows, an
acknowledgement after the row, and range requests that hand out rows in order and
finish only when nothing that existed at the start is owed. A request that does
not come to that end is seen to have failed (`Fail`), except when its client has
gone or the process has ended (`Crash`), so a query cannot stop early and pass
for finished. What a request has been given (`got`) is mapped to the
identifiers the query handed out, not to its cursor, so a row that is skipped or handed
out twice shows here too. `request` in `Gateway` is the refinement mapping; `ImplementsLog`
is checked by two runs and proved.

## What `TcpServer` models

The thread that calls `tcp_server_start` (`pc`), callers of `tcp_server_stop` in
other threads (`stop[s]`), one detached thread per client (`thread[c]`), and what
they share without a lock: `struct tcp_server` (`alive`, `running`, `server_fd`)
and the descriptor table of the process (`file`). A step is a system call or one
access to a shared field. `Gateway` takes the server's threads as given and says
what they do with the bytes they read; `TcpServer` says how they come and go, and
takes the handler as something that returns.

| code | model |
| --- | --- |
| `server_fd`, `client_fd` of `tcp_server_start` | `lfd`, `cfd` |
| allocated `tcp_client_context_t` | `context` |
| `client_fd` of `tcp_client_thread` | `tfd[c]` |
| a connection in the kernel | `peer[c]`: away, queued, open, closed, reset |
| the listening socket | the number that `file` maps to "listener", and `listening` |

The steps of start are `OpenSocket`, `SetReuse`, `ReadAddress`, `Bind` and `Listen`, each with
its own failing exit (`SetReuseFails`, `BadAddress`, `BindFails`, `ListenFails`), `Publish` (the two
stores other threads may see in either order), then `TestRunning`, `CallAccept`,
`AcceptClient` or a failure, `MakeContext`, `CreateThread`, and at the end
`CloseListener`, `ForgetListener`. Those of stop are `CallStop`, `ClearRunning`,
`Shutdown`, `CloseStopped`, `ForgetStopped`; `server_fd` is read again for each,
as compiled code has to around a call. Both start and stop close the listening
number, and the model lets `Close` hit whatever the number refers to by then.

Assumed of the kernel: descriptors are allocated lowest first; `accept` reserves
its number before it waits, and a waiting `accept` keeps its socket when the
number is closed, so that only `shutdown` wakes it (Linux); what arrived before a FIN or
RST can still be read (`ReceiveData`). "closed" is a peer that has closed its socket: one
that only ends its own direction and goes on reading is still "open". `main` never calls
stop, so the stopping threads are those of an application that uses the header as
it is documented: destroy follows start's return and no call of stop is under way
("The server should be stopped before destruction"). After destroy a client
thread reads `running` from freed memory, which the model takes for any value; a
call through the freed `handler` is not modelled. The branches that this use
cannot reach are left out: a second start, and destroy of a running server.

`ConnectionService` is the abstract specification: connections come in while the
server is open, which it is once; they are taken one at a time, and each is dropped
or served; one that is served lasts until its peer has left or the server has been
told to end; only then does the server shut. The mapping is in `TcpServer`: `phase`
is open from listen until the listening socket is shut down or closed, `ended` says
that `running` has been cleared (and not: not yet set), `conn[c]` is "taken" while the
loop holds the connection and "served" while its thread runs, and `left` holds the
peers that have gone. Descriptors, contexts, threads, and who reads which field when,
have no counterpart. `ImplementsService` is checked by `server_safe` and proved.

## What `TcpParser` and `CommandStream` model

`CommandStream` is the way of a command from the client to its parse: a client
sends the commands of one of its `Scripts` without waiting for answers
(`SendCommand`), `recv` returns some of the bytes under way (`Receive`, with
`Chunks` for what that may be), and the thread processes what the parser made of
them (`Process`). Nothing in the code looks for the end of a command, so a chunk
is taken for one. `TcpParser` is the parse. `tcp_parser_parse` works on a copy on
its thread's stack, but `strtok` keeps its position in one variable of the
process, reads it at the beginning of a call and writes it at the end; these, the scans, and
the two NULs that are written are separate steps, and other threads come between them.

| code | model |
| --- | --- |
| `buffer` of `tcp_parser_parse`, or what lies there on the stack before and after the call | `buffer[c]` |
| `fields`, `count` of `split_fields` | `fields[c]` |
| the position inside `strtok` | `save` |
| the pointer a call of `strtok`, or `trim`, works on, and the end it has found | `at[c]`, `stop[c]` |
| where the thread is in `split_fields` | `step[c]`, "idle" outside, "lost" when what follows is undefined |
| a string | the positions from a pointer to the next NUL (`CString`) |
| history, not in the code | `sent`, `reads`, `input` (what `recv` returned last), `last` (the command processed last), `whole` (each `recv` returned one command so far), `alone` (no other thread parsed during the last parse) |

`Begin` is the copy. Of a token, `strtok` then passes the commas (`FindStart`), finds the end
(`FindEnd`), overwrites the comma there (`CutToken`) and remembers where the next call starts
(`KeepPosition`); `trim` finds what is left without white space (`Trim`) and ends it, and the
pointer is stored (`EndField`); `LoadPosition` begins the next call, until `NoToken` or
`TooManyFields`. `Process` reads the strings the pointers refer to by then, which another
thread may have changed (`Parsed`), and `Interpret` is `parse_sensor`, `parse_query` and the
comparisons around them.

The array is not initialised and `strcpy` leaves what lies behind the string; when the call
is over the thread goes on into SQLite and `printf` on the same stack, while `save` may still
point there. So `buffer[c]` starts as anything in the constant `Stack`, and outside of the
parser `Overwrite` puts anything of it there, at any time. A scan that finds no end in its
array (`Overruns`) and any access to an array whose call is over (`TouchesDead`) are
undefined: `Stray` gives control up for good. The copy of `Begin` is one step, since nobody
can tell: whoever looks at that array meanwhile was led there by an old position, at a time
when it was dead, and has strayed already or may stray before.

`FieldsOf` and `Meaning` are the reference definition: the pieces between the
commas of a text, without the empty ones and without the white space around,
and the command they make. They know nothing of buffers, NULs and positions.

A text is a sequence of characters in which a keyword counts as one, as does any
white space. Numbers are digits, and `nan` or `inf` where `strtod` takes them; signs,
fractions, exponents and NUL bytes are left out.

## What `Startup` models

`main` from its first allocation to its return: `sqlite_db_open` with the PRAGMA
and the two statements of the schema, `gateway_create` with its services,
`tcp_server_create`, and `tcp_server_start` up to its loop. Every call may fail,
and each failure has the releases of its own branch (`Fail`). A release takes its
resource out of what is held whether or not it is that resource's turn, so that a
wrong list shows. Several processes run on one file and one port: with
SO_REUSEADDR more than one may bind, one gets to listen. A process may be killed
at any step; what was committed stays.

| code | model |
| --- | --- |
| the next call of `main` or of what it calls | `at[p]` |
| allocations, handles and sockets, in the order of creation | `held[p]` |
| the calls of destroy, close and free that lie before a failed branch | `todo[p]` |
| table and index of the database file | `file` |

`TcpServer` and `Gateway` take over where `Startup` says "serve". That `CREATE TABLE IF NOT
EXISTS` leaves existing rows alone is taken from SQLite, so rows are not modelled here.
Left out: the check of the arguments, which precedes everything, and
the failure of `tcp_server_set_handler`, which occurs only without a server.

## Runs

| run | bounds | what it shows |
| --- | --- | --- |
| `interleave` | 2 clients, 3 identifiers, batches of 2, buffer of 8, failing database calls | the query loop under concurrent inserts, gaps, long rows, HELP, invalid commands, reversed ranges; nothing prolongs a command, short rows always fit; `SensorLog` is implemented |
| `faults` | 2 clients, 2 identifiers, INT_MAX = 1, batches of 1; peers, database and process fail | OK means stored, ERROR means not stored, statements are finalized, also after a crash and with identifiers above INT_MAX |
| `fair` | 2 clients, one of which may stop reading; peers close and reset | every command of the reading client is finished |
| `server_safe` | 2 clients, 2 stopping threads, 3 descriptors | every connection and context has one holder, whatever fails and however numbers are used again; the listening socket is released; no stop is slept through; nothing ends but for a peer that left or a stop; `ConnectionService` is implemented |
| `server_live` | 1 client, 2 stopping threads, 3 descriptors | stop ends the accept loop; the connection of a peer that has gone is closed |
| `stream` | 2 clients, texts of up to 12 characters, buffers of 14, 6 fields; `recv` returns everything or 5 characters | a thread that parses alone stays in its array and, if its command was read whole, processes it for what it says, whatever lies on the stacks; every parse ends or loses control, whatever threads parse at once |
| `startup` | 3 processes, 6 launches | every branch releases what was created, in reverse order; a server that serves has its schema |
| `lost_stop` | refutes `StopTerminates` | a stop between `listen` and the visible store of `running` is lost |
| `broken_pipe` | refutes `SendOnlyFails` | SIGPIPE ends the server |
| `long_rows` | refutes `StoredRowsListed` | stored rows that cannot be listed |
| `wide_ids` | refutes `HelpRangeExact` | the range of HELP wraps above INT_MAX |
| `shared_strtok` | refutes `WholeAsSent` | two commands parsed at once mix their fields |

Why the bounds are enough. Threads interact only through the table and the
connection to SQLite, and a property about one query involves that query and
somebody who inserts: two clients show every pairwise interference, and symmetry
makes the two interchangeable in the safety runs. Three identifiers with batches
of two give a full batch, a partial one and an empty one in one query, with a
row arriving in each gap; with failing inserts they also leave gaps. A buffer of
eight, a header of two and lines of two and four let a batch fit and not fit, in
the first batch and in later ones. The proofs remove the bounds for all safety
properties. TLC reports a deadlock if one exists; there is none: a thread that
waits can always be woken by its peer.

For the server, three descriptors are as many as the listening socket and two
clients, or less once the rest of the process has opened a file: the table fills
up, and a number that is closed is used again at once. Two stopping threads race
each other as well as the loop. Liveness is about one stop and one connection.

For the parser, the scripts of the first client hold a long command and a short one
after it, in odd but accepted form, one with too many fields, numbers above
the limit, a reversed range and an empty field; those of the second are a short
and a middling one that come in between at any step. A chunk of five characters
splits a command, several commands under way are joined. What memory may hold (`MCStack`)
includes an array without any NUL. For the startup, three
processes are one that listens, one that is bound and one that is launched
meanwhile; six launches let each come back once. `CommandStream` and `Startup`
may stop (all scripts are sent, all launches used), so their runs do not
check for deadlock, and they assume no fairness: all they claim is safety.

Fairness of `Gateway`. `WF(Work(c))`: a runnable thread is scheduled, and no call into SQLite
blocks for ever (the busy timeout is one second). `WF(Send(c))` for clients that
are not in `Stalled`: a peer that reads its socket lets a send complete. Nothing
is assumed about peers sending commands, about stalled peers, or about failures.

Fairness of `TcpServer`. Every thread is scheduled. A handler may block in send as
long as its peer stays, and returns when the peer has gone. A waiting `accept` is
woken when the socket has been shut down (`AcceptWoken`), but nothing says that a
signal or a connection ever interrupts it. `SF(ReceiveEnds(c))`: recv may be
interrupted any number of times, not every time, and of a peer that has gone there is
only so much left to read.

## Findings

1. `send` is called with flags 0 and SIGPIPE has its default action, so a client
   that closes before its answer is complete can end the server; the header of
   `tcp_server_send` promises -1.
2. Twenty rows need not fit the 4096 bytes of `batch_buffer`: a value such as
   `1e308` prints with 309 digits. The query then fails although every row was
   accepted, and no later query over that range can succeed.
3. `sqlite3_column_int` truncates identifiers above INT_MAX, so HELP prints a
   wrong range.
4. A stop is lost when it comes before `running` is visible: `tcp_server_stop` tests
   `running` and returns, and `tcp_server_start`, which already listens, then sets it
   and serves on. The header promises that a stop ends the accept loop. (In this
   program only `tcp_server_destroy` calls `tcp_server_stop`; the interface allows any
   thread to.)
5. `split_fields` uses `strtok` in one thread per client. When two threads parse at
   once, the second `strtok(NULL)` of one continues in the buffer of the other: valid
   commands are answered with ERROR, or fields of another client's command are
   taken for one's own. A mixture may also go on in an array whose call is over, or run
   past the end of one: from there on nothing is known (`Stray`). `strtok_r` would do.

## Proofs

`GatewayProofs` proves, for all values of the constants that satisfy
`GatewayAssumption`:

| theorem | property |
| --- | --- |
| `Invariant` | `IInv`, the inductive invariant |
| `TypeCorrect` | `TypeOK` |
| `Ordered` | `RowsInOrder` |
| `NothingSkipped` | `NoRowSkipped` |
| `Complete` | `QueryCompletes` |
| `Advances` | `CursorAdvances` |
| `Durability` | `AckedStored` |
| `ErrorLeavesNoRow` | `ErrorMeansUnstored` |
| `Finalized` | `StatementsReleased` |
| `HelpCovers` | `HelpCoversRows` |
| `Refinement` (in `GatewayRefinement`) | `ImplementsLog` |
| `Shrinks` (in `GatewayProgress`) | `CommandShrinks` |
| `Roomily` (in `GatewayProgress`) | `RoomyRowsFit` |

The properties are not inductive by themselves: that a query skips nothing
depends on what the batch being built holds, and that depends on the snapshot its
statement reads. `IInv` therefore says, per thread, what the batches sent so far
have done (`Handed`: the cursor stands after them and nothing older than the
command is missing below it) and what the row loop has done (`Fetched`: the batch
holds every row of its snapshot between the two cursors), and of the table that
rows lie below `seq`. The argument has three parts: the table only grows, above
`seq` (`DbStep`); what other threads do to it leaves a thread's invariant
standing (`Frame`); and each step keeps the invariant of the thread that takes it
(one lemma per action). `ThreadStep` puts them together.

The refinement rests on the same invariant. `RequestNow` and `RequestThen` read
the mapping off a thread's position, `SameOwed` says that what a query owes does
not change when others insert, `OneAnswer` that a step changes one client's
request; then each action of `Gateway` is shown to be an action of `SensorLog` or
none. It needs one more invariant, `NoThreadWhenDown`, because only a running
process can crash.

`GatewayProgress` adds two results that need an invariant each.

- `CommandShrinks` is the part of `CommandFinishes` that needs no fairness. `StepsLeft`
  bounds the steps a thread still takes until it reads its next command; each of its own
  steps lowers it, and no step of another thread, an insert into the range of a running
  query included, raises it. So a query over n identifiers ends after at most 4n + 3
  steps. The bound is about the identifiers in the range, not the rows: rows that
  others insert behind the cursor are met once each. It rests on `InRange` (the
  cursor never passes the end of the range), and on the loop being left with an empty batch.
- `RoomyRowsFit` is the other side of finding 2: while every line stored satisfies
  HeaderLen + BatchSize * length < BufferSize, no query fails for want of room. With the
  code's header of 63 bytes, 20 rows and 4096 bytes that is lines of up to 201 bytes.
  The invariant behind it, `Filled`, says that each row of a batch has taken no more than
  its share of the buffer, and is stated without a division.

`TcpServerProofs` proves, for any number of clients, stopping threads and
descriptors, `Invariant` (`ServerInv`), `TypeCorrect` (`TypeOK`), `Owned`
(`ConnectionsOwned`), `Released` (`ListenerReleased`), `ListenerFound` (`Findable`) and
`NoStopMissed` (`StopNotMissed`). That no connection is
closed by anybody else rests on what `Numbers` says: `server_fd` is unset or equal
to the loop's own number, and that number never refers to a client, because
`accept` reserves a number only while the listening number still refers to the
listener, and the loop accepts nothing any more once it has closed it. The only
constant assumption is that clients are not among the other things a descriptor
can refer to.

`StopNotMissed` is what `StopEndsLoop` needs besides fairness: the loop waits in `accept`
only while the server runs, or a stop is about to shut the socket down. Its
difficulty is the order of the stores in start: a stop that sees `running` but not yet
`server_fd` shuts nothing down, and the loop is saved only because it tests `running`
after both stores. `Findable` carries that: from listen on, the socket's number is in
`server_fd` or about to be, and nobody is past the shutdown while it still listens.

`TcpServerRefinement` proves `Refinement` (`ImplementsService`) and `EndsJustified`
(`EndsForAReason`). Beside the invariants above it needs that a connection has a number as
long as it lasts (`Connected`), and that threads, the loop and the socket end for a
reason only (`EndsForAReason`): a `running` that reads FALSE counts only when start has
published it, and once cleared is never set again. `PhaseSame`, `EndedSame`, `ConnSame`
and `OneConn` say what leaves each part of the mapping as it is; then each group of
actions is shown to be an action of `ConnectionService` or none (`StartMaps`, `TakeMaps`,
`HoldMaps`, ...).

`CommandStreamProofs` proves, for any number of clients and all texts, `TypeCorrect`
(`TypeOK`), `Invariant` (`StreamInv`), `ProcessedAsSent` (`AloneAsSent`), `AloneStaysInBounds`
(`AloneInBounds`) and `ParsesEnd` (`ParseShrinks`), on the lemmas of `TcpParserProofs`. Assumed of the constants (`TcpParserAssumption`,
`CommandStreamAssumption`): there is a client, digits and numbers are neither NUL, comma
nor blank, and what `recv` returns is shorter than the parser's buffer.

- `TypeOK` is about every mixture of parses: what the parser writes lies inside an array,
  since each scan that finds something finds it there (`Scans` that do not are
  `Overruns`), and `fields` never takes more than its places.
- `ParseShrinks` bounds a parse by 7 * MaxFields + 7 steps of its thread. It cannot rest on the
  position of `strtok`, which other threads move back and forth, and rests on the
  number of fields: every token that is found takes a place, or ends the parse.
- `AloneAsSent` is not inductive: what is processed depends on pointers, and on what
  lies behind them. `StreamInv` says of a thread that parses alone (`Undisturbed`) what holds
  at each step (`At`): from the position of `strtok` on the text is untouched (`Behind`); there
  is one field for each piece that starts before it, and each of them is a string that ends
  before it and reads what `FieldsOf` says (`Before`, `Found`); in between, that the piece at hand
  stands as a string (`Stands`) and will be trimmed to what `FieldsOf` says (`Trimmed`).
  It speaks only of the array up to the text's own NUL, and so needs nothing of what lies
  behind. A command read in part or joined to another is included: what is parsed is `input`.
  `AloneAsRead` says that of the result, and `Counted` that a read that was whole is what was sent.
- `AloneInBounds` follows from the same invariant: every scan of a thread that parses alone
  starts at or before the NUL of its own text and stops there at the latest, and its
  pointers stay in its own array, also when `strtok` still remembers an older one.

`StartupProofs` proves, for any number of processes and launches, `Invariant`
(`StartupInv`), `InReverse` (`ReleasedInReverse`), `AllReleased` (`NothingLeft`)
and `SchemaComplete` (`ServingHasSchema`). `StartupInv` says what is
held at each step, and that the releases of a branch mirror what is held; then
each release takes the newest (`MirrorTail`), and the branches are compared with
what their steps hold (`Branches`).

Only model-checked, because they need fairness and are out of the prover's reach:
`CommandFinishes`, `StopEndsLoop`, `GonePeersClosed`. Of the first two the safety half is
proved, as `CommandShrinks` and `StopNotMissed`. Every other property of a passing run
is a theorem.

## Not modelled

- Logging (`utils/log/log.c`): output only. Nothing reads it and no source promises
  anything of a line; its shared `localtime` buffer is in the hazard list.
- Configuration (`config/config.h`) and build files: constants and no behaviour. The
  sizes are constants of the models.
- SQLite: `sqlite3.h` and `sqlite3ext.h` are the headers of a vendored binary, and with
  12,800 lines more than four fifths of the C in this repository. They declare, they
  do not do; what the gateway relies on is in the list of assumptions above. All
  C files of the program itself but the log are modelled.
- Text: the layout of answers (a line is its length), and signs, fractions and
  exponents of numbers.
- What follows an access out of bounds or to a dead stack frame (control is "lost"), and a
  call through a freed handler: they are undefined.
- A PRAGMA that cannot switch to WAL and says so in a row nobody reads. The repository's
  README claims WAL (lines 3, 13 and 240) and the code does not check; but whether SQLite
  switches is SQLite's matter, and nothing else in the code depends on it, so a property
  would only repeat what is assumed.
- The exit status of `main`, which is EXIT_SUCCESS in any case: a hazard without a
  property, since no source says what should happen.
- The `TCP_CLIENT_DISCONNECTED` event. A connection that ends by an error of `recv` or by
  a stop is closed without it, although the header announces it. Both ways out are in
  `TcpServer`, but `client_handler` only prints the event, so no property speaks of it.

## Plan

In order of importance:

1. done: `SensorLog`, `Gateway`, their runs, the inductive invariant, the refinement, the
   bound on a command and on its buffer.
2. done: `ConnectionService`, `TcpServer`, its runs, its invariants, the refinement.
3. done: `TcpParser` and `CommandStream`, their runs, bounds and meaning of a parse proved.
4. done: `Startup`, its run, its invariant.
5. left: an abstract specification of the way from a client's command to its processing,
   with `CommandStream` shown to implement it for commands that arrive whole and alone.
6. left: numbers with signs and exponents, as far as `parse_int` and `parse_double` tell
   them apart; the format of a line, should anything come to depend on it.
