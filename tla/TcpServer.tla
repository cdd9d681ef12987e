----------------------------- MODULE TcpServer -----------------------------
(***************************************************************************)
(* The TCP server (transport/tcp/tcp_server.c): the accept loop of the     *)
(* thread that calls tcp_server_start, the detached threads of the         *)
(* clients, callers of tcp_server_stop in other threads, and the           *)
(* descriptor table of the process that they share.                        *)
(*                                                                         *)
(* A step is a system call, or an access to a field of struct tcp_server,  *)
(* which is shared without a lock.  What a client sends and what the       *)
(* handler answers is module Gateway's subject; here the handler is called *)
(* and returns.                                                            *)
(***************************************************************************)
EXTENDS Integers

CONSTANTS
  Clients,    \* the peers that connect
  Stoppers,   \* threads that call tcp_server_stop, once each
  MaxFd       \* the largest descriptor the process can open

FDs     == 0 .. MaxFd
NotAnFd == -1

\* What a descriptor refers to, when it is not a client's connection.
\* "reserved": accept takes the number before it has a connection for it.
Plain == {"free", "reserved", "listener", "other"}

ASSUME TcpServerAssumption ==
  MaxFd \in Nat /\ Clients \cap Plain = {}

VARIABLES
  alive,      \* struct tcp_server is allocated
  running,    \* server->running
  server_fd,  \* server->server_fd
  file,       \* the descriptor table of the process
  listening,  \* connections can be accepted: listen was called, shutdown was not
  pc,         \* where the thread in tcp_server_start is
  stores,     \* its stores into the struct that other threads do not see yet
  lfd,        \* its local server_fd
  cfd,        \* its local client_fd
  peer,       \* the connection of each client, as the kernel sees it
  context,    \* the clients whose tcp_client_context_t is allocated
  thread,     \* where the thread of each client is
  tfd,        \* the local client_fd of that thread
  stop        \* where each caller of tcp_server_stop is

fields  == <<alive, running, server_fd>>
kernel  == <<file, listening, peer>>
loop    == <<pc, stores, lfd, cfd>>
threads == <<context, thread, tfd>>
vars    == <<fields, kernel, loop, threads, stop>>

Goto(point) == pc' = point
\* Where tcp_server_start has opened its socket but not called listen yet, and
\* where it is before listen at all.
Opened == {"reuse", "address", "bind", "listen"}
Before == {"socket"} \cup Opened

Move(c, point) == thread' = [thread EXCEPT ![c] = point]

\* The client whose connection a descriptor number refers to loses it; closing
\* a number that is not open changes nothing.
Close(fd) ==
  /\ file' = [n \in FDs |-> IF n = fd THEN "free" ELSE file[n]]
  /\ peer' = [c \in Clients |-> IF fd \in FDs /\ file[fd] = c THEN "away" ELSE peer[c]]
  /\ UNCHANGED listening

\* The kernel hands out the lowest number that is free.
IsLowestFree(fd) ==
  /\ fd \in FDs /\ file[fd] = "free"
  /\ \A n \in FDs : n < fd => file[n] # "free"

TableFull == \A fd \in FDs : file[fd] # "free"

-----------------------------------------------------------------------------
(* tcp_server_start, up to the accept loop.                                 *)

OpenSocket ==
  /\ pc = "socket" /\ ~running
  /\ \E fd \in FDs :
       /\ IsLowestFree(fd)
       /\ file' = [file EXCEPT ![fd] = "listener"]
       /\ lfd' = fd
  /\ Goto("reuse")
  /\ UNCHANGED <<fields, listening, peer, stores, cfd, threads, stop>>

SocketFails ==
  /\ pc = "socket" /\ ~running
  /\ Goto("returned")
  /\ UNCHANGED <<fields, kernel, stores, lfd, cfd, threads, stop>>

\* A call that sets the socket up succeeds, or the socket is closed.
Advance(point, next) ==
  /\ pc = point
  /\ Goto(next)
  /\ UNCHANGED <<fields, kernel, stores, lfd, cfd, threads, stop>>

GiveUp(point) ==
  /\ pc = point
  /\ Close(lfd)
  /\ Goto("returned")
  /\ UNCHANGED <<fields, stores, lfd, cfd, threads, stop>>

SetReuse      == Advance("reuse", "address")
SetReuseFails == GiveUp("reuse")
ReadAddress   == Advance("address", "bind")
BadAddress    == GiveUp("address")
Bind          == Advance("bind", "listen")
BindFails     == GiveUp("bind")

\* Mutant: one of the four exits leaves the socket open.
ListenFailsOpen == Advance("listen", "returned")

ListenFails   == GiveUp("listen")

Listen ==
  /\ pc = "listen"
  /\ listening' = TRUE
  /\ stores' = {"server_fd", "running"}
  /\ Goto("publish")
  /\ UNCHANGED <<fields, file, peer, lfd, cfd, threads, stop>>

\* Mutant: the loop starts with the number still in the local variable only.
PublishRunning ==
  /\ pc = "publish"
  /\ running' = TRUE /\ stores' = {}
  /\ Goto("loop")
  /\ UNCHANGED <<alive, server_fd, kernel, lfd, cfd, threads, stop>>

\* server_fd and running are plain stores: other threads may see them in either
\* order, but both before the loop, which calls into other objects, reads running.
Publish ==
  /\ pc = "publish"
  /\ \/ /\ "server_fd" \in stores /\ server_fd' = lfd
        /\ stores' = stores \ {"server_fd"} /\ UNCHANGED running
     \/ /\ "running" \in stores /\ running' = TRUE
        /\ stores' = stores \ {"running"} /\ UNCHANGED server_fd
  /\ Goto(IF stores' = {} THEN "loop" ELSE "publish")
  /\ UNCHANGED <<alive, kernel, lfd, cfd, threads, stop>>

-----------------------------------------------------------------------------
(* The accept loop.                                                         *)

TestRunning ==
  /\ pc = "loop"
  /\ Goto(IF running THEN "accept" ELSE "exit")
  /\ UNCHANGED <<fields, kernel, stores, lfd, cfd, threads, stop>>

\* accept looks up the listening socket and reserves a number; it then waits.
CallAccept ==
  /\ pc = "accept" /\ file[lfd] = "listener"
  /\ \E fd \in FDs :
       /\ IsLowestFree(fd)
       /\ file' = [file EXCEPT ![fd] = "reserved"]
       /\ cfd' = fd
  /\ Goto("waiting")
  /\ UNCHANGED <<fields, listening, peer, stores, lfd, threads, stop>>

\* Mutant: accept's result is not checked.
CannotAcceptUnchecked ==
  /\ pc = "accept"
  /\ TableFull \/ file[lfd] # "listener"
  /\ cfd' = NotAnFd
  /\ Goto("client")
  /\ UNCHANGED <<fields, kernel, stores, lfd, threads, stop>>

\* Mutant: the loop is left when accept fails.
CannotAcceptLeaves ==
  /\ pc = "accept"
  /\ TableFull \/ file[lfd] # "listener"
  /\ Goto("exit")
  /\ UNCHANGED <<fields, kernel, stores, lfd, cfd, threads, stop>>

\* accept fails at once: no number is left, or the number it is given is closed
\* or something else's by now.  While the server runs it is tried again.
CannotAccept ==
  /\ pc = "accept"
  /\ TableFull \/ file[lfd] # "listener"
  /\ Goto(IF running THEN "loop" ELSE "exit")
  /\ UNCHANGED <<fields, kernel, stores, lfd, cfd, threads, stop>>

\* A waiting accept keeps the socket, also when its number has been closed.
AcceptClient ==
  /\ pc = "waiting" /\ listening
  /\ \E c \in Clients :
       /\ peer[c] = "queued"
       /\ peer' = [peer EXCEPT ![c] = "open"]
       /\ file' = [file EXCEPT ![cfd] = c]
  /\ Goto("client")
  /\ UNCHANGED <<fields, listening, stores, lfd, cfd, threads, stop>>

\* A waiting accept gives up its number and returns -1.
AcceptFails ==
  /\ pc = "waiting"
  /\ file' = [file EXCEPT ![cfd] = "free"]
  /\ Goto(IF running THEN "loop" ELSE "exit")
  /\ UNCHANGED <<fields, listening, peer, stores, lfd, cfd, threads, stop>>

\* shutdown wakes it with EINVAL; a signal or an aborted connection may too.
AcceptWoken       == ~listening /\ AcceptFails
AcceptInterrupted == listening /\ AcceptFails

Accepted == file[cfd]

\* malloc fails: the connection is closed.
NoContext ==
  /\ pc = "client"
  /\ Close(cfd)
  /\ Goto("loop")
  /\ UNCHANGED <<fields, stores, lfd, cfd, threads, stop>>

MakeContext ==
  /\ pc = "client"
  /\ context' = context \cup {Accepted}
  /\ Goto("context")
  /\ UNCHANGED <<fields, kernel, stores, lfd, cfd, thread, tfd, stop>>

\* pthread_create: from here the context and the descriptor are the thread's.
CreateThread ==
  /\ pc = "context"
  /\ Move(Accepted, "start")
  /\ tfd' = [tfd EXCEPT ![Accepted] = cfd]
  /\ Goto("loop")
  /\ UNCHANGED <<fields, kernel, stores, lfd, cfd, context, stop>>

\* Mutant: only the context is released when there is no thread.
NoThreadOpen ==
  /\ pc = "context"
  /\ context' = context \ {Accepted}
  /\ Goto("loop")
  /\ UNCHANGED <<fields, kernel, stores, lfd, cfd, thread, tfd, stop>>

\* pthread_create fails: both are released here.
NoThread ==
  /\ pc = "context"
  /\ context' = context \ {Accepted}
  /\ Close(cfd)
  /\ Goto("loop")
  /\ UNCHANGED <<fields, stores, lfd, cfd, thread, tfd, stop>>

\* The loop is left: its listening number is closed, whatever it refers to now.
CloseListener ==
  /\ pc = "exit"
  /\ Close(lfd)
  /\ Goto("forget")
  /\ UNCHANGED <<fields, stores, lfd, cfd, threads, stop>>

ForgetListener ==
  /\ pc = "forget"
  /\ server_fd' = NotAnFd
  /\ Goto("returned")
  /\ UNCHANGED <<alive, running, kernel, stores, lfd, cfd, threads, stop>>

\* tcp_server_destroy, as main calls it after start has returned; running is
\* FALSE by then.  "The server should be stopped before destruction": no call of
\* stop is under way, and none follows.
Destroy ==
  /\ pc = "returned" /\ ~running
  /\ \A s \in Stoppers : stop[s] \in {"idle", "done"}
  /\ alive' = FALSE
  /\ Goto("end")
  /\ UNCHANGED <<running, server_fd, kernel, stores, lfd, cfd, threads, stop>>

-----------------------------------------------------------------------------
(* tcp_server_stop.                                                         *)

Continue(s, point) == stop' = [stop EXCEPT ![s] = point]

\* A server that is not running is left alone.
CallStop(s) ==
  /\ alive /\ stop[s] = "idle"
  /\ Continue(s, IF running THEN "running" ELSE "done")
  /\ UNCHANGED <<fields, kernel, loop, threads>>

ClearRunning(s) ==
  /\ stop[s] = "running"
  /\ running' = FALSE
  /\ Continue(s, "shutdown")
  /\ UNCHANGED <<alive, server_fd, kernel, loop, threads>>

\* Mutant: the socket is only closed, which wakes nobody.
OnlyClose(s) ==
  /\ stop[s] = "shutdown"
  /\ Continue(s, IF server_fd = NotAnFd THEN "done" ELSE "close")
  /\ UNCHANGED <<fields, kernel, loop, threads>>

\* shutdown acts on whatever the number refers to by now.
Shutdown(s) ==
  /\ stop[s] = "shutdown"
  /\ IF server_fd = NotAnFd
     THEN Continue(s, "done") /\ UNCHANGED <<listening, peer>>
     ELSE /\ Continue(s, "close")
          /\ listening' = (listening /\ file[server_fd] # "listener")
          /\ peer' = [c \in Clients |->
               IF file[server_fd] = c /\ peer[c] = "open" THEN "closed" ELSE peer[c]]
  /\ UNCHANGED <<fields, file, loop, threads>>

\* server_fd is read again: the accept loop may have reset it meanwhile.
CloseStopped(s) ==
  /\ stop[s] = "close"
  /\ Close(server_fd)
  /\ Continue(s, "forget")
  /\ UNCHANGED <<fields, loop, threads>>

ForgetStopped(s) ==
  /\ stop[s] = "forget"
  /\ server_fd' = NotAnFd
  /\ Continue(s, "done")
  /\ UNCHANGED <<alive, running, kernel, loop, threads>>

-----------------------------------------------------------------------------
(* The threads of the clients.                                              *)

StartThread(c) ==
  /\ thread[c] = "start"
  /\ context' = context \ {c}
  /\ Move(c, "connected")
  /\ UNCHANGED <<fields, kernel, loop, tfd, stop>>

\* The handler returns from an event; what follows does not depend on its result.
Handled(c) ==
  /\ \/ thread[c] \in {"connected", "data"} /\ Move(c, "test")
     \/ thread[c] = "disconnected" /\ Move(c, "close")
  /\ UNCHANGED <<fields, kernel, loop, context, tfd, stop>>

\* A struct that has been freed reads as anything.
TestThread(c) ==
  /\ thread[c] = "test"
  /\ \/ (running \/ ~alive) /\ Move(c, "recv")
     \/ (~running \/ ~alive) /\ Move(c, "close")
  /\ UNCHANGED <<fields, kernel, loop, context, tfd, stop>>

\* Bytes that arrived before the peer left are still read.
ReceiveData(c) ==
  /\ thread[c] = "recv"
  /\ Move(c, "data")
  /\ UNCHANGED <<fields, kernel, loop, context, tfd, stop>>

\* Mutant: EINTR is taken for an error.
ReceiveGivesUp(c) ==
  /\ thread[c] = "recv"
  /\ Move(c, "close")
  /\ UNCHANGED <<fields, kernel, loop, context, tfd, stop>>

\* EINTR.
ReceiveInterrupted(c) ==
  /\ thread[c] = "recv"
  /\ Move(c, "test")
  /\ UNCHANGED <<fields, kernel, loop, context, tfd, stop>>

\* Mutant: an error of recv is taken for EINTR.
ReceiveRetries(c) ==
  /\ thread[c] = "recv"
  /\ \/ peer[c] = "closed" /\ Move(c, "disconnected")
     \/ peer[c] = "reset" /\ Move(c, "test")
  /\ UNCHANGED <<fields, kernel, loop, context, tfd, stop>>

\* recv returns 0 and the handler is told, or it returns an error and is not.
ReceiveEnds(c) ==
  /\ thread[c] = "recv"
  /\ \/ peer[c] = "closed" /\ Move(c, "disconnected")
     \/ peer[c] = "reset" /\ Move(c, "close")
  /\ UNCHANGED <<fields, kernel, loop, context, tfd, stop>>

CloseThread(c) ==
  /\ thread[c] = "close"
  /\ Close(tfd[c])
  /\ Move(c, "none")
  /\ UNCHANGED <<fields, loop, context, tfd, stop>>

-----------------------------------------------------------------------------
(* The peers, and the rest of the process.                                  *)

\* A connection is queued as long as the listening socket is open.
Arrive(c) ==
  /\ peer[c] = "away" /\ listening
  /\ \E fd \in FDs : file[fd] = "listener"
  /\ peer' = [peer EXCEPT ![c] = "queued"]
  /\ UNCHANGED <<fields, file, listening, loop, threads, stop>>

PeerLeaves(c) ==
  /\ peer[c] = "open"
  /\ \E how \in {"closed", "reset"} : peer' = [peer EXCEPT ![c] = how]
  /\ UNCHANGED <<fields, file, listening, loop, threads, stop>>

\* Files of the database, the C library, the stopping threads.
OtherOpens ==
  /\ \E fd \in FDs : IsLowestFree(fd) /\ file' = [file EXCEPT ![fd] = "other"]
  /\ UNCHANGED <<fields, listening, peer, loop, threads, stop>>

OtherCloses ==
  /\ \E fd \in FDs : file[fd] = "other" /\ file' = [file EXCEPT ![fd] = "free"]
  /\ UNCHANGED <<fields, listening, peer, loop, threads, stop>>

\* After tcp_server_create and tcp_server_set_handler.
Init ==
  /\ alive = TRUE /\ running = FALSE /\ server_fd = NotAnFd
  /\ file = [fd \in FDs |-> "free"] /\ listening = FALSE
  /\ peer = [c \in Clients |-> "away"]
  /\ pc = "socket" /\ stores = {} /\ lfd = NotAnFd /\ cfd = NotAnFd
  /\ context = {} /\ thread = [c \in Clients |-> "none"]
  /\ tfd = [c \in Clients |-> NotAnFd]
  /\ stop = [s \in Stoppers |-> "idle"]

SetUp      == SetReuse \/ ReadAddress \/ Bind
SetupFails == SetReuseFails \/ BadAddress \/ BindFails \/ ListenFails

Start ==
  \/ OpenSocket \/ SocketFails \/ SetUp \/ SetupFails \/ Listen \/ Publish
  \/ TestRunning \/ CallAccept \/ CannotAccept \/ AcceptClient \/ AcceptWoken
  \/ NoContext \/ MakeContext \/ CreateThread \/ NoThread
  \/ CloseListener \/ ForgetListener

Stop(s) == ClearRunning(s) \/ Shutdown(s) \/ CloseStopped(s) \/ ForgetStopped(s)

Run(c) == StartThread(c) \/ TestThread(c) \/ ReceiveEnds(c) \/ CloseThread(c)

Next ==
  \/ Start \/ AcceptInterrupted \/ Destroy
  \/ \E s \in Stoppers : CallStop(s) \/ Stop(s)
  \/ \E c \in Clients :
       \/ Run(c) \/ Handled(c) \/ ReceiveData(c) \/ ReceiveInterrupted(c)
       \/ Arrive(c) \/ PeerLeaves(c)
  \/ OtherOpens \/ OtherCloses

\* Every thread is scheduled.  A handler whose peer stays may block in send; one
\* whose peer has gone returns.  A recv is not interrupted every time, and what
\* a peer sent before it left is read at some time.
Fairness ==
  /\ WF_vars(Start)
  /\ \A s \in Stoppers : WF_vars(Stop(s))
  /\ \A c \in Clients :
       /\ WF_vars(StartThread(c) \/ TestThread(c) \/ CloseThread(c))
       /\ WF_vars(Handled(c) /\ peer[c] # "open")
       /\ SF_vars(ReceiveEnds(c))

Spec == Init /\ [][Next]_vars /\ Fairness

-----------------------------------------------------------------------------
(* Properties.                                                              *)

\* Every variable has its type, and client_fd is a descriptor whenever the loop
\* uses it.
TypeOK ==
  /\ alive \in BOOLEAN /\ running \in BOOLEAN /\ listening \in BOOLEAN
  /\ server_fd \in FDs \cup {NotAnFd}
  /\ lfd \in FDs \cup {NotAnFd} /\ cfd \in FDs \cup {NotAnFd}
  /\ file \in [FDs -> Plain \cup Clients]
  /\ peer \in [Clients -> {"away", "queued", "open", "closed", "reset"}]
  /\ pc \in {"socket", "reuse", "address", "bind", "listen", "publish", "loop", "accept",
             "waiting", "client", "context", "exit", "forget", "returned", "end"}
  /\ stores \subseteq {"server_fd", "running"}
  /\ context \subseteq Clients
  /\ thread \in [Clients -> {"none", "start", "connected", "test", "recv", "data",
                             "disconnected", "close"}]
  /\ tfd \in [Clients -> FDs \cup {NotAnFd}]
  /\ stop \in [Stoppers -> {"idle", "running", "shutdown", "close", "forget", "done"}]
  /\ pc \in {"waiting", "client", "context"} => cfd \in FDs

\* The loop holds the connection of c.
Holds(c) == pc \in {"client", "context"} /\ file[cfd] = c

\* Every connection has exactly one holder, the accept loop or its own thread,
\* and so is closed exactly once; its context has the same holder, until the
\* thread has read it.  Neither the double close of the listening number by stop
\* and start, nor numbers that are used again, ever hit a client's descriptor.
ConnectionsOwned ==
  \A c \in Clients :
    /\ thread[c] # "none" => tfd[c] \in FDs /\ file[tfd[c]] = c /\ ~Holds(c)
    /\ \A fd \in FDs : file[fd] = c =>
         \/ thread[c] # "none" /\ fd = tfd[c]
         \/ Holds(c) /\ fd = cfd
    /\ c \in context <=> thread[c] = "start" \/ (Holds(c) /\ pc = "context")

\* tcp_server_start returns with its listening socket closed, whether it failed
\* half-way or was stopped at any moment.
ListenerReleased ==
  pc \in {"returned", "end"} => \A fd \in FDs : file[fd] # "listener"

\* No stop is slept through: when running has been cleared, an accept that has
\* been or is about to be called finds the socket shut down, or a caller of stop
\* is on its way to shut it down, however stop, its reads of server_fd, and the
\* stores of start interleave.
StopNotMissed ==
  (pc \in {"accept", "waiting"} /\ ~running) =>
    ~listening \/ \E s \in Stoppers : stop[s] = "shutdown"

\* Until it listens, nobody stops it.  From then to the end of the accept loop the
\* socket that listens can be found by those who stop the server: only after
\* shutdown is its number closed or reset.
Findable ==
  /\ pc \in Before =>
       /\ ~listening /\ ~running /\ server_fd = NotAnFd
       /\ \A s \in Stoppers : stop[s] \in {"idle", "done"}
  /\ pc \in Opened => file[lfd] = "listener"
  /\ pc # "publish" => stores = {}
  /\ (listening /\ pc \in {"publish", "loop", "accept", "waiting", "client", "context"}) =>
       /\ file[lfd] = "listener"
       /\ server_fd = lfd \/ "server_fd" \in stores
       /\ \A s \in Stoppers : stop[s] \notin {"close", "forget"}

\* What else holds of the table: the listening number and server_fd are the
\* same and never refer to a client, and what accept returned does.
Numbers ==
  /\ pc = "socket" => lfd = NotAnFd /\ server_fd = NotAnFd
  /\ pc \notin {"socket", "returned", "end"} => lfd \in FDs
  /\ server_fd \in {NotAnFd, lfd}
  /\ pc \in {"client", "context"} => file[cfd] \in Clients
  /\ \A fd \in FDs :
       /\ file[fd] = "listener" =>
            fd = lfd /\ pc \notin {"socket", "forget", "returned", "end"}
       /\ file[fd] = "reserved" <=> pc = "waiting" /\ fd = cfd
       /\ fd = lfd => file[fd] \in {"free", "listener", "other"}
       /\ \A c \in Clients : file[fd] = c => peer[c] \in {"open", "closed", "reset"}

\* Every step preserves these together.
ServerInv == TypeOK /\ Numbers /\ ConnectionsOwned

-----------------------------------------------------------------------------
(* What the server promises, seen through its state.                        *)

\* The socket that listens has a number.
Listens == listening /\ \E fd \in FDs : file[fd] = "listener"

phase == IF pc \in Before THEN "new" ELSE IF Listens THEN "open" ELSE "shut"

\* running has been published and is FALSE, now and for ever.
ended == pc \notin Before /\ "running" \notin stores /\ ~running

conn ==
  [c \in Clients |-> IF thread[c] # "none" THEN "served"
                     ELSE IF Holds(c) THEN "taken"
                     ELSE IF peer[c] = "queued" THEN "queued" ELSE "away"]

left == {c \in Clients : peer[c] \in {"closed", "reset"}}

Service == INSTANCE ConnectionService

\* The server implements the abstract connection service: what its threads do to
\* descriptors and shared fields never cuts off a client, takes two connections
\* at once, shuts the server unasked or opens it again.
ImplementsService == Service!Spec

\* A connection has a number as long as it lasts.
Connected ==
  \A c \in Clients :
    peer[c] \in {"open", "closed", "reset"} => \E fd \in FDs : file[fd] = c

\* What ends a thread, the loop or the socket lies behind a peer that has left,
\* or behind a running that has been cleared for good: not behind an accept or a
\* recv that failed, nor behind a value of running from before it was published.
EndsForAReason ==
  /\ running => pc \notin Before /\ "running" \notin stores
  /\ ~alive => ~running /\ pc = "end"
  /\ pc \in {"exit", "forget", "returned", "end"} => ended
  /\ \A s \in Stoppers :
       /\ stop[s] = "running" => pc \notin Before /\ "running" \notin stores
       /\ stop[s] \in {"shutdown", "close", "forget"} => ended
  /\ \A c \in Clients :
       /\ pc \in Before \cup {"publish"} => thread[c] = "none"
       /\ thread[c] = "disconnected" => peer[c] \in {"closed", "reset"}
       /\ thread[c] = "close" => peer[c] \in {"closed", "reset"} \/ ended

-----------------------------------------------------------------------------
(* Liveness, and what the header says.                                      *)

\* A stop that found the server running ends the accept loop, also while it is
\* blocked in accept, has no descriptors left, or is about to accept.
StopEndsLoop ==
  (\E s \in Stoppers : stop[s] \in {"running", "shutdown", "close", "forget"})
    ~> pc \in {"returned", "end"}

\* The connection of a peer that has gone is closed, whoever holds it, and
\* whatever becomes of the server.
GonePeersClosed ==
  \A c \in Clients : peer[c] \in {"closed", "reset"} ~> peer[c] = "away"

\* "Stop the listening socket and terminate the server accept loop"
\* (tcp_server.h:86): a stop that is called once the socket listens, and has
\* returned, has ended the loop or will.
StopTerminates ==
  \A s \in Stoppers :
    [](listening /\ stop[s] = "idle" =>
         (stop[s] = "done" ~> pc \in {"returned", "end"}))
=============================================================================
