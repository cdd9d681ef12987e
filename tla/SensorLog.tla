----------------------------- MODULE SensorLog -----------------------------
(***************************************************************************)
(* What the gateway promises its clients, without threads, batches,        *)
(* buffers, sockets or statements: a log of readings that only grows, an   *)
(* acknowledgement that follows the row it stands for, and a range query   *)
(* that hands out rows in ascending identifier order and finishes only     *)
(* when every row that was in the log when it began has been handed out.   *)
(* Whatever does not come to that end has failed, and is seen to have.     *)
(*                                                                         *)
(* Module Gateway implements this specification (see Log in Gateway).      *)
(***************************************************************************)
EXTENDS Integers

CONSTANTS
  Clients,   \* the clients of the gateway
  Readings,  \* what one SENSOR command carries
  NoRow,     \* the content of an identifier that holds no row
  MaxRowId,  \* the largest identifier the database can assign
  IntMax     \* the largest bound a query can name

VARIABLES
  up,        \* the gateway runs
  table,     \* the log: what each identifier holds
  acked,     \* the <<identifier, reading>> pairs that were acknowledged
  req        \* what each client is waiting for

vars == <<up, table, acked, req>>

RowIds == 1 .. MaxRowId
Stored == {i \in RowIds : table[i] # NoRow}

\* A request is one of these.  A query for the rows from..upto owes those that
\* were there when it began, and got holds what it has handed out so far.
Nothing             == [kind |-> "none"]
Failed              == [kind |-> "failed"]
ToStore(r)          == [kind |-> "store", reading |-> r]
StoredAs(i)         == [kind |-> "stored", id |-> i]
ToList(from, upto, owed, got) ==
  [kind |-> "list", from |-> from, upto |-> upto, owed |-> owed, got |-> got]

Answer(c, r) == req' = [req EXCEPT ![c] = r]

Init ==
  /\ up = TRUE
  /\ table = [i \in RowIds |-> NoRow]
  /\ acked = {}
  /\ req = [c \in Clients |-> Nothing]

\* A client asks for a reading to be stored.
AskStore(c) ==
  /\ req[c] = Nothing
  /\ \E r \in Readings : Answer(c, ToStore(r))
  /\ UNCHANGED <<up, table, acked>>

\* A client asks for the rows from..upto: it is owed those that exist now.
AskList(c) ==
  /\ req[c] = Nothing
  /\ \E from, upto \in 0 .. IntMax :
       Answer(c, ToList(from, upto, {i \in Stored : from <= i /\ i <= upto}, {}))
  /\ UNCHANGED <<up, table, acked>>

\* The reading gets an identifier above every identifier in the log.
Store(c) ==
  /\ req[c].kind = "store"
  /\ \E i \in RowIds :
       /\ \A j \in Stored : j < i
       /\ table' = [table EXCEPT ![i] = req[c].reading]
       /\ Answer(c, StoredAs(i))
  /\ UNCHANGED <<up, acked>>

\* Only a stored reading is acknowledged.
Acknowledge(c) ==
  /\ req[c].kind = "stored"
  /\ acked' = acked \cup {<<req[c].id, table[req[c].id]>>}
  /\ Answer(c, Nothing)
  /\ UNCHANGED <<up, table>>

\* Hands out rows of the range above all that were handed out, leaving out none
\* of the owed rows that lie below the greatest of them.
HandOut(c) ==
  /\ req[c].kind = "list"
  /\ LET q == req[c] IN
     \E S \in SUBSET {i \in Stored : q.from <= i /\ i <= q.upto} :
       \E top \in S :
         /\ \A i \in S : i <= top
         /\ \A i \in S, j \in q.got : j < i
         /\ \A i \in q.owed : i <= top => i \in q.got \cup S
         /\ Answer(c, ToList(q.from, q.upto, q.owed, q.got \cup S))
  /\ UNCHANGED <<up, table, acked>>

\* A query is over when all that is owed has been handed out.
Finish(c) ==
  /\ req[c].kind = "list"
  /\ req[c].owed \subseteq req[c].got
  /\ Answer(c, Nothing)
  /\ UNCHANGED <<up, table, acked>>

\* A row that is not stored, a query cut short and a command that is not
\* understood are told apart from success.
Fail(c) ==
  /\ req[c].kind \in {"none", "store", "list"}
  /\ Answer(c, Failed)
  /\ UNCHANGED <<up, table, acked>>

\* The client has gone, or has read ERROR.
Forgo(c) ==
  /\ req[c].kind \in {"stored", "failed"}
  /\ Answer(c, Nothing)
  /\ UNCHANGED <<up, table, acked>>

\* The end of the process drops every request; the log keeps what it has.
Crash ==
  /\ up /\ up' = FALSE
  /\ req' = [c \in Clients |-> Nothing]
  /\ UNCHANGED <<table, acked>>

Restart ==
  /\ ~up /\ up' = TRUE
  /\ UNCHANGED <<table, acked, req>>

Next ==
  \/ \E c \in Clients :
       \/ AskStore(c) \/ AskList(c)
       \/ Store(c) \/ Acknowledge(c)
       \/ HandOut(c) \/ Finish(c)
       \/ Fail(c) \/ Forgo(c)
  \/ Crash \/ Restart

Spec == Init /\ [][Next]_vars
=============================================================================
