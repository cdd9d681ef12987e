------------------------------ MODULE Startup ------------------------------
(***************************************************************************)
(* How the program comes up and goes down: main in app/main.c, and what it *)
(* calls to create and destroy its parts (sqlite_db_open and _close,       *)
(* gateway_create and _destroy, the create and destroy functions of the    *)
(* services, tcp_server_create, _start and _destroy).  Each part is created *)
(* in several steps, every one of which may fail; each place where one may *)
(* fail has its own list of what to release.                               *)
(*                                                                         *)
(* Several processes run the program on the same database file and port.   *)
(* Nothing in the program stops a server that serves: a process ends by a  *)
(* failure of its startup or by being killed, and may be launched again.   *)
(* Left out: the check of the arguments, which precedes everything, and    *)
(* the failure of tcp_server_set_handler, which only occurs without server. *)
(***************************************************************************)
EXTENDS Integers, SequencesExt

CONSTANTS
  Processes,    \* what runs the program
  MaxLaunches   \* bound: how often they are launched, altogether

ASSUME StartupAssumption == MaxLaunches \in Nat

\* What a process acquires and has to release.
Resources == {"db", "handle", "message", "gateway", "sensor_service",
              "data_service", "server", "socket"}

VARIABLES
  at,        \* the call each process makes next; "serve" once it listens
  held,      \* what it holds, in the order of creation
  todo,      \* the releases that lie before it
  file,      \* the database file: whether its table and its index exist
  launches   \* how many launches there were

vars == <<at, held, todo, file, launches>>

Steps == {"calloc", "open", "busy_timeout", "wal", "table", "index",
          "gateway", "sensor_service", "data_service", "server", "socket",
          "bind", "listen"}

-----------------------------------------------------------------------------
(* What the destroy functions release, in their order.                      *)

CloseDb == <<"handle", "db">>

\* Mutant: the services in the order of their creation.
DestroyForwards == <<"sensor_service", "data_service", "gateway">>

DestroyGateway == <<"data_service", "sensor_service", "gateway">>

\* The server is not running, so that destroying it does not stop it.
DestroyServer == <<"server">>

\* What main does once tcp_server_start has returned.
ShutDown == DestroyServer \o DestroyGateway \o CloseDb

Advance(p, step, next) ==
  /\ at[p] = step
  /\ at' = [at EXCEPT ![p] = next]
  /\ UNCHANGED <<todo, launches>>

\* The call at a step creates something.
Create(p, step, resource, next) ==
  /\ Advance(p, step, next)
  /\ held' = [held EXCEPT ![p] = Append(held[p], resource)]
  /\ UNCHANGED file

\* The call at a step fails, having left something behind; the releases of
\* that branch follow, up to the end of main.
Fail(p, step, left, releases) ==
  /\ at[p] = step
  /\ at' = [at EXCEPT ![p] = "release"]
  /\ held' = [held EXCEPT ![p] = held[p] \o left]
  /\ todo' = [todo EXCEPT ![p] = releases]
  /\ UNCHANGED <<file, launches>>

\* sqlite3_exec returns an error, and allocates a message.
ExecFails(p, step) == Fail(p, step, <<"message">>, <<"message">> \o CloseDb)

-----------------------------------------------------------------------------
(* sqlite_db_open.                                                          *)

Launch(p) ==
  /\ at[p] = "down" /\ launches < MaxLaunches
  /\ at' = [at EXCEPT ![p] = "calloc"]
  /\ launches' = launches + 1
  /\ UNCHANGED <<held, todo, file>>

AllocateDb(p) ==
  \/ Create(p, "calloc", "db", "open")
  \/ Fail(p, "calloc", <<>>, <<>>)

\* sqlite3_open yields a handle also when it fails, except for lack of memory.
OpenHandle(p) ==
  \/ Create(p, "open", "handle", "busy_timeout")
  \/ Fail(p, "open", <<"handle">>, CloseDb)
  \/ Fail(p, "open", <<>>, <<"db">>)

SetBusyTimeout(p) ==
  \/ Advance(p, "busy_timeout", "wal") /\ UNCHANGED <<held, file>>
  \/ Fail(p, "busy_timeout", <<>>, CloseDb)

\* The row the PRAGMA returns is ignored, whatever journal mode it names.
EnableWal(p) ==
  \/ Advance(p, "wal", "table") /\ UNCHANGED <<held, file>>
  \/ ExecFails(p, "wal")

\* Mutant: the schema is taken for complete if its table exists.
CreateTableOrSkip(p) ==
  \/ /\ Advance(p, "table", IF file.table THEN "gateway" ELSE "index")
     /\ file' = [file EXCEPT !.table = TRUE]
     /\ UNCHANGED held
  \/ ExecFails(p, "table")

\* The statements of the schema are committed one by one.
CreateTable(p) ==
  \/ /\ Advance(p, "table", "index")
     /\ file' = [file EXCEPT !.table = TRUE]
     /\ UNCHANGED held
  \/ ExecFails(p, "table")

CreateIndex(p) ==
  \/ /\ Advance(p, "index", "gateway")
     /\ file' = [file EXCEPT !.index = TRUE]
     /\ UNCHANGED held
  \/ ExecFails(p, "index")

-----------------------------------------------------------------------------
(* gateway_create and tcp_server_create.                                    *)

AllocateGateway(p) ==
  \/ Create(p, "gateway", "gateway", "sensor_service")
  \/ Fail(p, "gateway", <<>>, CloseDb)

CreateSensorService(p) ==
  \/ Create(p, "sensor_service", "sensor_service", "data_service")
  \/ Fail(p, "sensor_service", <<>>, <<"gateway">> \o CloseDb)

\* Mutant: the sensor service is forgotten.
CreateDataServiceLeaking(p) ==
  \/ Create(p, "data_service", "data_service", "server")
  \/ Fail(p, "data_service", <<>>, <<"gateway">> \o CloseDb)

CreateDataService(p) ==
  \/ Create(p, "data_service", "data_service", "server")
  \/ Fail(p, "data_service", <<>>, <<"sensor_service", "gateway">> \o CloseDb)

CreateServer(p) ==
  \/ Create(p, "server", "server", "socket")
  \/ Fail(p, "server", <<>>, DestroyGateway \o CloseDb)

-----------------------------------------------------------------------------
(* tcp_server_start up to its loop, which is module TcpServer.              *)

Listening(p) == at[p] = "serve"

OpenSocket(p) ==
  \/ Create(p, "socket", "socket", "bind")
  \/ Fail(p, "socket", <<>>, ShutDown)

\* With SO_REUSEADDR, bind succeeds as long as no other process listens.
\* setsockopt and inet_pton, before it, may fail as well.
Bind(p) ==
  \/ /\ \A q \in Processes : ~Listening(q)
     /\ Advance(p, "bind", "listen") /\ UNCHANGED <<held, file>>
  \/ Fail(p, "bind", <<>>, <<"socket">> \o ShutDown)

\* Mutant: start returns without closing its socket.
ListenLeaking(p) ==
  \/ /\ \A q \in Processes : ~Listening(q)
     /\ Advance(p, "listen", "serve") /\ UNCHANGED <<held, file>>
  \/ Fail(p, "listen", <<>>, ShutDown)

\* Of several processes that are bound, one gets to listen.
Listen(p) ==
  \/ /\ \A q \in Processes : ~Listening(q)
     /\ Advance(p, "listen", "serve") /\ UNCHANGED <<held, file>>
  \/ Fail(p, "listen", <<>>, <<"socket">> \o ShutDown)

-----------------------------------------------------------------------------
(* The end.                                                                 *)

\* The next release of the branch, whether or not it is the turn of that
\* resource, or the process still holds it.
Release(p) ==
  /\ at[p] = "release" /\ todo[p] # <<>>
  /\ held' = [held EXCEPT ![p] =
       IF held[p] # <<>> /\ Last(held[p]) = Head(todo[p]) THEN Front(held[p])
       ELSE Remove(held[p], Head(todo[p]))]
  /\ todo' = [todo EXCEPT ![p] = Tail(todo[p])]
  /\ UNCHANGED <<at, file, launches>>

\* main returns.
Exit(p) ==
  /\ at[p] = "release" /\ todo[p] = <<>>
  /\ at' = [at EXCEPT ![p] = "down"]
  /\ UNCHANGED <<held, todo, file, launches>>

\* The process is killed; what was committed stays in the file.
Kill(p) ==
  /\ at[p] # "down"
  /\ at' = [at EXCEPT ![p] = "down"]
  /\ held' = [held EXCEPT ![p] = <<>>]
  /\ todo' = [todo EXCEPT ![p] = <<>>]
  /\ UNCHANGED <<file, launches>>

Init ==
  /\ at = [p \in Processes |-> "down"]
  /\ held = [p \in Processes |-> <<>>]
  /\ todo = [p \in Processes |-> <<>>]
  /\ file = [table |-> FALSE, index |-> FALSE]
  /\ launches = 0

OpenDb(p) ==
  \/ AllocateDb(p) \/ OpenHandle(p) \/ SetBusyTimeout(p) \/ EnableWal(p)
  \/ CreateTable(p) \/ CreateIndex(p)

CreateGateway(p) ==
  AllocateGateway(p) \/ CreateSensorService(p) \/ CreateDataService(p)

Serve(p) == CreateServer(p) \/ OpenSocket(p) \/ Bind(p) \/ Listen(p)

Next ==
  \E p \in Processes :
    \/ Launch(p) \/ OpenDb(p) \/ CreateGateway(p) \/ Serve(p)
    \/ Release(p) \/ Exit(p) \/ Kill(p)

Spec == Init /\ [][Next]_vars

-----------------------------------------------------------------------------
(* Properties.                                                              *)

\* Every variable has its type.
TypeOK ==
  /\ at \in [Processes -> Steps \cup {"serve", "release", "down"}]
  /\ held \in [Processes -> Seq(Resources)]
  /\ todo \in [Processes -> Seq(Resources)]
  /\ file \in [table : BOOLEAN, index : BOOLEAN]
  /\ launches \in 0 .. MaxLaunches

\* "Release resources in reverse creation order" (main.c:225): in every branch,
\* what is released next is what was created last of all that is still held.
\* So nothing is released twice, or while a newer part could refer to it.
ReleasedInReverse ==
  \A p \in Processes :
    todo[p] # <<>> => held[p] # <<>> /\ Head(todo[p]) = Last(held[p])

\* A process that returns from main holds nothing, wherever its startup failed.
NothingLeft ==
  \A p \in Processes : at[p] = "release" /\ todo[p] = <<>> => held[p] = <<>>

\* A server accepts clients only with its whole schema in the file, whichever
\* of the earlier launches were killed, or failed, between the statements.
ServingHasSchema == \A p \in Processes : Listening(p) => file.table /\ file.index

\* The parts in the order of their creation, and how many of them there are at
\* each step.
Parts == <<"db", "handle", "gateway", "sensor_service", "data_service",
           "server", "socket">>

Created ==
  [down |-> 0, calloc |-> 0, open |-> 1, busy_timeout |-> 2, wal |-> 2,
   table |-> 2, index |-> 2, gateway |-> 2, sensor_service |-> 3,
   data_service |-> 4, server |-> 5, socket |-> 6, bind |-> 7, listen |-> 7,
   serve |-> 7]

HeldAt(step) == SubSeq(Parts, 1, Created[step])

\* s is t, read backwards.
Mirrors(s, t) ==
  Len(s) = Len(t) /\ \A i \in 1 .. Len(s) : s[i] = t[Len(t) + 1 - i]

AfterIndex == {"gateway", "sensor_service", "data_service", "server", "socket",
               "bind", "listen", "serve"}
AfterTable == {"index"} \cup AfterIndex

\* The inductive invariant: what is held is determined by the step, the
\* releases of a branch mirror what is held, and the schema is complete from
\* the step that completes it on.
StartupInv ==
  /\ TypeOK
  /\ \A p \in Processes :
       /\ at[p] # "release" => held[p] = HeldAt(at[p]) /\ todo[p] = <<>>
       /\ at[p] = "release" => Mirrors(todo[p], held[p])
       /\ at[p] \in AfterTable => file.table
       /\ at[p] \in AfterIndex => file.index
=============================================================================
