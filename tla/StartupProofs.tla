--------------------------- MODULE StartupProofs ---------------------------
(***************************************************************************)
(* Theorems about Startup, for any number of processes and launches: each  *)
(* failure of the startup releases exactly what was created, in reverse    *)
(* order, and a server that serves has its schema.                         *)
(***************************************************************************)
EXTENDS Startup, SequenceTheorems, TLAPS

-----------------------------------------------------------------------------
(* Lemmas about the releases.                                               *)

\* To release what comes first in s is to drop what is last in its mirror.
LEMMA MirrorTail ==
  ASSUME NEW S, NEW s \in Seq(S), NEW t \in Seq(S), Mirrors(s, t), s # <<>>
  PROVE  /\ t # <<>> /\ Head(s) = Last(t)
         /\ Front(t) \in Seq(S) /\ Tail(s) \in Seq(S)
         /\ Mirrors(Tail(s), Front(t))
<1>1. /\ Len(s) \in Nat \ {0} /\ Len(t) = Len(s)
      /\ \A i \in 1 .. Len(s) : s[i] = t[Len(t) + 1 - i]
  BY DEF Mirrors
<1>2. t # <<>> /\ Head(s) = Last(t)
  BY <1>1 DEF Last
<1>3. /\ Tail(s) \in Seq(S) /\ Len(Tail(s)) = Len(s) - 1
      /\ \A i \in 1 .. Len(s) - 1 : Tail(s)[i] = s[i + 1]
  BY <1>1
<1>4. /\ Front(t) \in Seq(S) /\ Len(Front(t)) = Len(t) - 1
      /\ \A i \in 1 .. Len(t) - 1 : Front(t)[i] = t[i]
  <2>1. \A i \in 1 .. Len(t) - 1 : t[i] \in S
    BY <1>1
  <2> QED
    BY <1>1, <2>1 DEF Front
<1>5. ASSUME NEW i \in 1 .. Len(Tail(s))
      PROVE  Tail(s)[i] = Front(t)[Len(Front(t)) + 1 - i]
  BY <1>1, <1>3, <1>4, <1>5
<1> QED
  BY <1>1, <1>2, <1>3, <1>4, <1>5 DEF Mirrors

\* What each step holds: a sequence of resources, of known length.
LEMMA HeldAtType ==
  ASSUME NEW step \in Steps \cup {"serve"}
  PROVE  /\ HeldAt(step) \in Seq(Resources)
         /\ Len(HeldAt(step)) = Created[step]
         /\ \A i \in 1 .. Created[step] : HeldAt(step)[i] = Parts[i]
<1>1. Created[step] \in 0 .. 7
  BY DEF Created, Steps
<1>2. \A i \in 1 .. 7 : Parts[i] \in Resources
  BY DEF Parts, Resources
<1>3. \A i \in 1 .. Created[step] : Parts[i] \in Resources
  BY <1>1, <1>2
<1> QED
  BY <1>1, <1>3 DEF HeldAt

\* The invariant survives a call that succeeds, if the next step expects what
\* has been created, and the schema only where it is complete.
LEMMA AdvanceInv ==
  ASSUME StartupInv, NEW p \in Processes, NEW step \in Steps,
         NEW next \in Steps \cup {"serve"}, Advance(p, step, next),
         held' = [held EXCEPT ![p] = HeldAt(next)],
         file' \in [table : BOOLEAN, index : BOOLEAN],
         file.table => file'.table, file.index => file'.index,
         next \in AfterTable => file'.table, next \in AfterIndex => file'.index
  PROVE  StartupInv'
<1>1. TypeOK /\ at[p] = step
  BY DEF StartupInv, Advance
<1>2. /\ at' = [at EXCEPT ![p] = next] /\ next # "release" /\ step # "release"
      /\ UNCHANGED <<todo, launches>>
  BY DEF Advance, Steps
<1>3. TypeOK'
  BY <1>1, <1>2, HeldAtType DEF TypeOK
<1>4. ASSUME NEW q \in Processes
      PROVE  /\ at'[q] # "release" => held'[q] = HeldAt(at'[q]) /\ todo'[q] = <<>>
             /\ at'[q] = "release" => Mirrors(todo'[q], held'[q])
             /\ at'[q] \in AfterTable => file'.table
             /\ at'[q] \in AfterIndex => file'.index
  BY <1>1, <1>2 DEF StartupInv, TypeOK
<1> QED
  BY <1>3, <1>4 DEF StartupInv

\* Likewise for a call that creates the next part.
LEMMA CreateInv ==
  ASSUME StartupInv, NEW p \in Processes, NEW step \in Steps, NEW next \in Steps,
         NEW resource \in Resources, Create(p, step, resource, next),
         Created[next] = Created[step] + 1, Parts[Created[next]] = resource,
         next \in AfterTable => step \in AfterTable,
         next \in AfterIndex => step \in AfterIndex
  PROVE  StartupInv'
<1>1. TypeOK /\ at[p] = step /\ step # "release" /\ held[p] = HeldAt(step)
  BY DEF StartupInv, Create, Advance, Steps
<1>2. Append(HeldAt(step), resource) = HeldAt(next)
  <2> DEFINE s == Append(HeldAt(step), resource)
  <2>1. Created[step] \in Nat
    BY DEF Created, Steps
  <2>2. /\ s \in Seq(Resources) /\ Len(s) = Created[step] + 1
        /\ \A i \in 1 .. Created[step] : s[i] = HeldAt(step)[i]
        /\ s[Created[step] + 1] = resource
    BY <2>1, HeldAtType
  <2>3. HeldAt(next) \in Seq(Resources) /\ Len(HeldAt(next)) = Len(s)
    BY <2>2, HeldAtType
  <2>4. \A i \in 1 .. Len(s) : s[i] = HeldAt(next)[i]
    BY <2>1, <2>2, HeldAtType
  <2> HIDE DEF s
  <2>5. s = HeldAt(next)
    BY <2>2, <2>3, <2>4, SeqEqual
  <2> QED
    BY <2>5 DEF s
<1>3. file' = file /\ file \in [table : BOOLEAN, index : BOOLEAN]
  BY <1>1 DEF Create, TypeOK
<1>4. /\ Advance(p, step, next) /\ held' = [held EXCEPT ![p] = HeldAt(next)]
      /\ (next \in AfterTable => file'.table) /\ (next \in AfterIndex => file'.index)
  BY <1>1, <1>2, <1>3 DEF Create, StartupInv
<1>5. /\ file' \in [table : BOOLEAN, index : BOOLEAN]
      /\ (file.table => file'.table) /\ (file.index => file'.index)
      /\ next \in Steps \cup {"serve"}
  BY <1>3
<1> QED
  BY <1>4, <1>5, AdvanceInv

\* Likewise for one that changes the file only, or nothing.
LEMMA SchemaInv ==
  ASSUME StartupInv, NEW p \in Processes, NEW step \in Steps,
         NEW next \in Steps \cup {"serve"}, Advance(p, step, next), UNCHANGED held,
         Created[next] = Created[step],
         file' \in {file, [file EXCEPT !.table = TRUE], [file EXCEPT !.index = TRUE]},
         next \in AfterTable => file'.table, next \in AfterIndex => file'.index
  PROVE  StartupInv'
<1>1. TypeOK /\ at[p] = step /\ step # "release" /\ held[p] = HeldAt(step)
  BY DEF StartupInv, Advance, Steps
<1>2. held' = [held EXCEPT ![p] = HeldAt(next)]
  BY <1>1 DEF HeldAt, TypeOK
<1>3. /\ file' \in [table : BOOLEAN, index : BOOLEAN]
      /\ (file.table => file'.table) /\ (file.index => file'.index)
  BY <1>1 DEF TypeOK
<1> QED
  BY <1>2, <1>3, AdvanceInv

LEMMA SameInv ==
  ASSUME StartupInv, NEW p \in Processes, NEW step \in Steps,
         NEW next \in Steps \cup {"serve"}, Advance(p, step, next),
         UNCHANGED <<held, file>>, Created[next] = Created[step],
         next \in AfterTable => step \in AfterTable,
         next \in AfterIndex => step \in AfterIndex
  PROVE  StartupInv'
<1>1. (next \in AfterTable => file'.table) /\ (next \in AfterIndex => file'.index)
  BY DEF StartupInv, Advance
<1> QED
  BY <1>1, SchemaInv

\* It survives one that fails, if the releases mirror what is held then.
LEMMA FailInv ==
  ASSUME StartupInv, NEW p \in Processes, NEW step \in Steps,
         NEW left \in Seq(Resources), NEW releases \in Seq(Resources),
         Fail(p, step, left, releases), Mirrors(releases, HeldAt(step) \o left)
  PROVE  StartupInv'
<1>1. TypeOK /\ at[p] = step /\ step # "release" /\ held[p] = HeldAt(step)
  BY DEF StartupInv, Fail, Steps
<1>2. /\ at' = [at EXCEPT ![p] = "release"]
      /\ held' = [held EXCEPT ![p] = HeldAt(step) \o left]
      /\ todo' = [todo EXCEPT ![p] = releases]
      /\ UNCHANGED <<file, launches>>
  BY <1>1 DEF Fail
<1>3. HeldAt(step) \o left \in Seq(Resources)
  BY HeldAtType
<1>4. TypeOK'
  BY <1>1, <1>2, <1>3 DEF TypeOK
<1>5. ASSUME NEW q \in Processes
      PROVE  /\ at'[q] # "release" => held'[q] = HeldAt(at'[q]) /\ todo'[q] = <<>>
             /\ at'[q] = "release" => Mirrors(todo'[q], held'[q])
             /\ at'[q] \in AfterTable => file'.table
             /\ at'[q] \in AfterIndex => file'.index
  <2>1. CASE q = p
    BY <1>1, <1>2, <2>1 DEF TypeOK, AfterTable, AfterIndex
  <2>2. CASE q # p
    BY <1>1, <1>2, <2>2 DEF StartupInv, TypeOK
  <2> QED
    BY <2>1, <2>2
<1> QED
  BY <1>4, <1>5 DEF StartupInv

\* Nothing is left behind by most calls that fail; the releases of their
\* branch mirror what they find.
LEMMA FailCleanInv ==
  ASSUME StartupInv, NEW p \in Processes, NEW step \in Steps,
         NEW releases \in Seq(Resources),
         Fail(p, step, <<>>, releases), Mirrors(releases, HeldAt(step))
  PROVE  StartupInv'
<1>1. HeldAt(step) \o <<>> = HeldAt(step)
  BY HeldAtType
<1>2. <<>> \in Seq(Resources) /\ Mirrors(releases, HeldAt(step) \o <<>>)
  BY <1>1
<1> QED
  BY <1>2, FailInv

\* Every list of releases mirrors what its branch holds.
LEMMA Branches ==
  /\ Mirrors(<<>>, HeldAt("calloc"))
  /\ Mirrors(<<"db">>, HeldAt("open"))
  /\ \A step \in {"busy_timeout", "gateway"} : Mirrors(CloseDb, HeldAt(step))
  /\ Mirrors(<<"gateway">> \o CloseDb, HeldAt("sensor_service"))
  /\ Mirrors(<<"sensor_service", "gateway">> \o CloseDb, HeldAt("data_service"))
  /\ Mirrors(DestroyGateway \o CloseDb, HeldAt("server"))
  /\ Mirrors(ShutDown, HeldAt("socket"))
  /\ \A step \in {"bind", "listen"} : Mirrors(<<"socket">> \o ShutDown, HeldAt(step))
BY DEF Mirrors, HeldAt, Created, Parts, CloseDb, DestroyGateway, DestroyServer, ShutDown

\* They are sequences of resources.
LEMMA ReleasesType ==
  /\ CloseDb \in Seq(Resources) /\ DestroyGateway \o CloseDb \in Seq(Resources)
  /\ <<"gateway">> \o CloseDb \in Seq(Resources)
  /\ <<"sensor_service", "gateway">> \o CloseDb \in Seq(Resources)
  /\ <<"message">> \o CloseDb \in Seq(Resources)
  /\ ShutDown \in Seq(Resources) /\ <<"socket">> \o ShutDown \in Seq(Resources)
BY DEF Resources, CloseDb, DestroyGateway, DestroyServer, ShutDown

-----------------------------------------------------------------------------
(* The steps.                                                               *)

LEMMA ExecFailsInv ==
  ASSUME StartupInv, NEW p \in Processes, NEW step \in {"wal", "table", "index"},
         ExecFails(p, step)
  PROVE  StartupInv'
<1>1. Mirrors(<<"message">> \o CloseDb, HeldAt(step) \o <<"message">>)
  <2>1. Created[step] = 2
    BY DEF Created
  <2>2. Mirrors(<<"message">> \o CloseDb, SubSeq(Parts, 1, 2) \o <<"message">>)
    BY DEF Mirrors, Parts, CloseDb
  <2> QED
    BY <2>1, <2>2 DEF HeldAt
<1>2. <<"message">> \in Seq(Resources) /\ step \in Steps
  BY DEF Resources, Steps
<1>3. /\ Fail(p, step, <<"message">>, <<"message">> \o CloseDb)
      /\ <<"message">> \o CloseDb \in Seq(Resources)
  BY ReleasesType DEF ExecFails
<1> QED
  BY <1>1, <1>2, <1>3, FailInv, Zenon

LEMMA OpenDbInv ==
  ASSUME StartupInv, NEW p \in Processes, OpenDb(p)
  PROVE  StartupInv'
<1> USE DEF AfterTable, AfterIndex
<1>1. CASE AllocateDb(p)
  <2>1. CASE Create(p, "calloc", "db", "open")
    BY <2>1, CreateInv DEF Steps, Resources, Created, Parts
  <2>2. CASE Fail(p, "calloc", <<>>, <<>>)
    <3>1. <<>> \in Seq(Resources)
      OBVIOUS
    <3> QED
      BY <2>2, <3>1, Branches, FailCleanInv DEF Steps
  <2> QED
    BY <1>1, <2>1, <2>2 DEF AllocateDb
<1>2. CASE OpenHandle(p)
  <2>1. CASE Create(p, "open", "handle", "busy_timeout")
    BY <2>1, CreateInv DEF Steps, Resources, Created, Parts
  <2>2. CASE Fail(p, "open", <<"handle">>, CloseDb)
    <3>1. Mirrors(CloseDb, HeldAt("open") \o <<"handle">>)
      BY DEF Mirrors, HeldAt, Created, Parts, CloseDb
    <3>2. <<"handle">> \in Seq(Resources)
      BY DEF Resources
    <3> QED
      BY <2>2, <3>1, <3>2, ReleasesType, FailInv DEF Steps
  <2>3. CASE Fail(p, "open", <<>>, <<"db">>)
    <3>1. <<"db">> \in Seq(Resources)
      BY DEF Resources
    <3> QED
      BY <2>3, <3>1, Branches, FailCleanInv DEF Steps
  <2> QED
    BY <1>2, <2>1, <2>2, <2>3 DEF OpenHandle
<1>3. CASE SetBusyTimeout(p)
  <2>1. CASE Advance(p, "busy_timeout", "wal") /\ UNCHANGED <<held, file>>
    BY <2>1, SameInv DEF Steps, Created
  <2>2. CASE Fail(p, "busy_timeout", <<>>, CloseDb)
    BY <2>2, Branches, ReleasesType, FailCleanInv DEF Steps
  <2> QED
    BY <1>3, <2>1, <2>2 DEF SetBusyTimeout
<1>4. CASE EnableWal(p)
  <2>1. CASE Advance(p, "wal", "table") /\ UNCHANGED <<held, file>>
    BY <2>1, SameInv DEF Steps, Created
  <2>2. CASE ExecFails(p, "wal")
    BY <2>2, ExecFailsInv
  <2> QED
    BY <1>4, <2>1, <2>2 DEF EnableWal
<1>5. CASE CreateTable(p)
  <2>1. CASE /\ Advance(p, "table", "index") /\ UNCHANGED held
             /\ file' = [file EXCEPT !.table = TRUE]
    BY <2>1, SchemaInv DEF Steps, Created
  <2>2. CASE ExecFails(p, "table")
    BY <2>2, ExecFailsInv
  <2> QED
    BY <1>5, <2>1, <2>2 DEF CreateTable
<1>6. CASE CreateIndex(p)
  <2>1. CASE /\ Advance(p, "index", "gateway") /\ UNCHANGED held
             /\ file' = [file EXCEPT !.index = TRUE]
    <3>1. file.table /\ file'.table /\ file'.index
      BY <2>1 DEF StartupInv, TypeOK, Advance
    <3> QED
      BY <2>1, <3>1, SchemaInv DEF Steps, Created
  <2>2. CASE ExecFails(p, "index")
    BY <2>2, ExecFailsInv
  <2> QED
    BY <1>6, <2>1, <2>2 DEF CreateIndex
<1> QED
  BY <1>1, <1>2, <1>3, <1>4, <1>5, <1>6 DEF OpenDb

LEMMA CreateGatewayInv ==
  ASSUME StartupInv, NEW p \in Processes, CreateGateway(p)
  PROVE  StartupInv'
<1> USE DEF AfterTable, AfterIndex
<1>1. CASE AllocateGateway(p)
  <2>1. CASE Create(p, "gateway", "gateway", "sensor_service")
    BY <2>1, CreateInv DEF Steps, Resources, Created, Parts
  <2>2. CASE Fail(p, "gateway", <<>>, CloseDb)
    BY <2>2, Branches, ReleasesType, FailCleanInv DEF Steps
  <2> QED
    BY <1>1, <2>1, <2>2 DEF AllocateGateway
<1>2. CASE CreateSensorService(p)
  <2>1. CASE Create(p, "sensor_service", "sensor_service", "data_service")
    BY <2>1, CreateInv DEF Steps, Resources, Created, Parts
  <2>2. CASE Fail(p, "sensor_service", <<>>, <<"gateway">> \o CloseDb)
    BY <2>2, Branches, ReleasesType, FailCleanInv DEF Steps
  <2> QED
    BY <1>2, <2>1, <2>2 DEF CreateSensorService
<1>3. CASE CreateDataService(p)
  <2>1. CASE Create(p, "data_service", "data_service", "server")
    BY <2>1, CreateInv DEF Steps, Resources, Created, Parts
  <2>2. CASE Fail(p, "data_service", <<>>, <<"sensor_service", "gateway">> \o CloseDb)
    BY <2>2, Branches, ReleasesType, FailCleanInv DEF Steps
  <2> QED
    BY <1>3, <2>1, <2>2 DEF CreateDataService
<1> QED
  BY <1>1, <1>2, <1>3 DEF CreateGateway

LEMMA ServeInv ==
  ASSUME StartupInv, NEW p \in Processes, Serve(p)
  PROVE  StartupInv'
<1> USE DEF AfterTable, AfterIndex
<1>1. CASE CreateServer(p)
  <2>1. CASE Create(p, "server", "server", "socket")
    BY <2>1, CreateInv DEF Steps, Resources, Created, Parts
  <2>2. CASE Fail(p, "server", <<>>, DestroyGateway \o CloseDb)
    BY <2>2, Branches, ReleasesType, FailCleanInv DEF Steps
  <2> QED
    BY <1>1, <2>1, <2>2 DEF CreateServer
<1>2. CASE OpenSocket(p)
  <2>1. CASE Create(p, "socket", "socket", "bind")
    BY <2>1, CreateInv DEF Steps, Resources, Created, Parts
  <2>2. CASE Fail(p, "socket", <<>>, ShutDown)
    BY <2>2, Branches, ReleasesType, FailCleanInv DEF Steps
  <2> QED
    BY <1>2, <2>1, <2>2 DEF OpenSocket
<1>3. CASE Bind(p)
  <2>1. CASE Advance(p, "bind", "listen") /\ UNCHANGED <<held, file>>
    BY <2>1, SameInv DEF Steps, Created
  <2>2. CASE Fail(p, "bind", <<>>, <<"socket">> \o ShutDown)
    BY <2>2, Branches, ReleasesType, FailCleanInv DEF Steps
  <2> QED
    BY <1>3, <2>1, <2>2 DEF Bind
<1>4. CASE Listen(p)
  <2>1. CASE Advance(p, "listen", "serve") /\ UNCHANGED <<held, file>>
    BY <2>1, SameInv DEF Steps, Created
  <2>2. CASE Fail(p, "listen", <<>>, <<"socket">> \o ShutDown)
    BY <2>2, Branches, ReleasesType, FailCleanInv DEF Steps
  <2> QED
    BY <1>4, <2>1, <2>2 DEF Listen
<1> QED
  BY <1>1, <1>2, <1>3, <1>4 DEF Serve

\* A release takes what was created last.
LEMMA ReleaseInv ==
  ASSUME StartupInv, NEW p \in Processes, Release(p)
  PROVE  StartupInv'
<1>1. TypeOK /\ at[p] = "release" /\ todo[p] # <<>> /\ Mirrors(todo[p], held[p])
  BY DEF StartupInv, Release
<1>2. todo[p] \in Seq(Resources) /\ held[p] \in Seq(Resources)
  BY <1>1 DEF TypeOK
<1>3. /\ held[p] # <<>> /\ Last(held[p]) = Head(todo[p])
      /\ Front(held[p]) \in Seq(Resources) /\ Tail(todo[p]) \in Seq(Resources)
      /\ Mirrors(Tail(todo[p]), Front(held[p]))
  BY <1>1, <1>2, MirrorTail
<1>4. /\ held' = [held EXCEPT ![p] = Front(held[p])]
      /\ todo' = [todo EXCEPT ![p] = Tail(todo[p])]
      /\ UNCHANGED <<at, file, launches>>
  BY <1>3 DEF Release
<1>5. TypeOK'
  BY <1>1, <1>3, <1>4 DEF TypeOK
<1>6. ASSUME NEW q \in Processes
      PROVE  /\ at'[q] # "release" => held'[q] = HeldAt(at'[q]) /\ todo'[q] = <<>>
             /\ at'[q] = "release" => Mirrors(todo'[q], held'[q])
  <2>1. CASE q = p
    BY <1>1, <1>3, <1>4, <2>1 DEF TypeOK
  <2>2. CASE q # p
    BY <1>1, <1>4, <2>2 DEF StartupInv, TypeOK
  <2> QED
    BY <2>1, <2>2
<1> QED
  BY <1>4, <1>5, <1>6 DEF StartupInv

\* Launches, exits and kills leave a process with nothing.
LEMMA EndInv ==
  ASSUME StartupInv, NEW p \in Processes, Launch(p) \/ Exit(p) \/ Kill(p)
  PROVE  StartupInv'
<1>1. /\ HeldAt("down") = <<>> /\ HeldAt("calloc") = <<>>
      /\ {"down", "calloc"} \cap AfterTable = {} /\ {"down", "calloc"} \cap AfterIndex = {}
  BY DEF HeldAt, Created, Parts, AfterTable, AfterIndex
<1>2. TypeOK
  BY DEF StartupInv
<1>3. Exit(p) => held[p] = <<>>
  BY <1>2 DEF StartupInv, Exit, TypeOK, Mirrors
<1>4. PICK s \in {"down", "calloc"} :
        /\ at' = [at EXCEPT ![p] = s]
        /\ held' = [held EXCEPT ![p] = <<>>] /\ todo' = [todo EXCEPT ![p] = <<>>]
        /\ UNCHANGED file /\ launches' \in 0 .. MaxLaunches
  <2>1. CASE Launch(p)
    <3>1. held[p] = <<>> /\ todo[p] = <<>>
      BY <1>1, <2>1 DEF StartupInv, Launch
    <3> QED
      BY <1>2, <2>1, <3>1, StartupAssumption DEF Launch, TypeOK
  <2>2. CASE Exit(p)
    BY <1>2, <1>3, <2>2 DEF Exit, TypeOK
  <2>3. CASE Kill(p)
    BY <1>2, <2>3 DEF Kill, TypeOK
  <2> QED
    BY <2>1, <2>2, <2>3
<1>5. TypeOK'
  BY <1>2, <1>4 DEF TypeOK, Steps
<1>6. ASSUME NEW q \in Processes
      PROVE  /\ at'[q] # "release" => held'[q] = HeldAt(at'[q]) /\ todo'[q] = <<>>
             /\ at'[q] = "release" => Mirrors(todo'[q], held'[q])
             /\ at'[q] \in AfterTable => file'.table
             /\ at'[q] \in AfterIndex => file'.index
  <2>1. CASE q = p
    BY <1>1, <1>2, <1>4, <2>1 DEF TypeOK
  <2>2. CASE q # p
    BY <1>2, <1>4, <2>2 DEF StartupInv, TypeOK
  <2> QED
    BY <2>1, <2>2
<1> QED
  BY <1>5, <1>6 DEF StartupInv

LEMMA InitInvariant ==
  Init => StartupInv
<1> SUFFICES ASSUME Init PROVE StartupInv
  OBVIOUS
<1>1. TypeOK
  BY StartupAssumption DEF Init, TypeOK
<1>2. HeldAt("down") = <<>> /\ "down" \notin AfterTable /\ "down" \notin AfterIndex
  BY DEF HeldAt, Created, Parts, AfterTable, AfterIndex
<1> QED
  BY <1>1, <1>2 DEF Init, StartupInv

LEMMA NextInvariant ==
  StartupInv /\ [Next]_vars => StartupInv'
<1> SUFFICES ASSUME StartupInv, [Next]_vars PROVE StartupInv'
  OBVIOUS
<1>1. CASE Next
  <2> PICK p \in Processes :
        \/ Launch(p) \/ OpenDb(p) \/ CreateGateway(p) \/ Serve(p)
        \/ Release(p) \/ Exit(p) \/ Kill(p)
    BY <1>1 DEF Next
  <2> QED
    BY OpenDbInv, CreateGatewayInv, ServeInv, ReleaseInv, EndInv
<1>2. CASE UNCHANGED vars
  BY <1>2 DEF vars, StartupInv, TypeOK, HeldAt
<1> QED
  BY <1>1, <1>2

-----------------------------------------------------------------------------
(* Theorems.                                                                *)

\* Every reachable state satisfies the inductive invariant.
THEOREM Invariant == Spec => []StartupInv
BY InitInvariant, NextInvariant, PTL DEF Spec

\* Wherever a startup fails, what is released next is what was created last.
THEOREM InReverse == Spec => []ReleasedInReverse
<1>1. StartupInv => ReleasedInReverse
  <2> SUFFICES ASSUME StartupInv, NEW p \in Processes, todo[p] # <<>>
               PROVE  held[p] # <<>> /\ Head(todo[p]) = Last(held[p])
    BY DEF ReleasedInReverse
  <2>1. /\ Mirrors(todo[p], held[p])
        /\ todo[p] \in Seq(Resources) /\ held[p] \in Seq(Resources)
    BY DEF StartupInv, TypeOK
  <2> QED
    BY <2>1, MirrorTail
<1> QED
  BY <1>1, Invariant, PTL

\* Whatever failed, main returns with everything released.
THEOREM AllReleased == Spec => []NothingLeft
<1>1. StartupInv => NothingLeft
  <2> SUFFICES ASSUME StartupInv, NEW p \in Processes,
                      at[p] = "release", todo[p] = <<>>
               PROVE  held[p] = <<>>
    BY DEF NothingLeft
  <2>1. Mirrors(todo[p], held[p]) /\ held[p] \in Seq(Resources)
    BY DEF StartupInv, TypeOK
  <2> QED
    BY <2>1 DEF Mirrors
<1> QED
  BY <1>1, Invariant, PTL

\* A server that serves has its table and its index, after any history of
\* failures and kills.
THEOREM SchemaComplete == Spec => []ServingHasSchema
<1>1. StartupInv => ServingHasSchema
  BY DEF StartupInv, ServingHasSchema, Listening, AfterTable, AfterIndex
<1> QED
  BY <1>1, Invariant, PTL
=============================================================================
