------------------------ MODULE TcpServerRefinement ------------------------
(***************************************************************************)
(* TcpServer implements ConnectionService, for any number of clients,      *)
(* callers of stop and descriptors.  The refinement mapping is phase,      *)
(* ended, conn and left, in TcpServer.                                     *)
(***************************************************************************)
EXTENDS TcpServerProofs

USE DEF Opened, Before

\* All that the steps are proved from.
AllInv == ServerInv /\ Findable /\ Connected /\ EndsForAReason

LEMMA Parts ==
  ASSUME AllInv
  PROVE  TypeOK /\ Numbers /\ ConnectionsOwned /\ Findable /\ Connected /\ EndsForAReason
BY DEF AllInv, ServerInv

\* A number that is not a client's: closing it leaves the peers alone.
LEMMA ClosePlain ==
  ASSUME AllInv, NEW fd \in FDs \cup {NotAnFd}, Close(fd), fd \in FDs => file[fd] \notin Clients
  PROVE  /\ peer' = peer /\ listening' = listening
         /\ \A n \in FDs : file'[n] = "listener" => file[n] = "listener"
         /\ \A n \in FDs : file[n] \in Clients => file'[n] = file[n]
<1>1. TypeOK
  BY Parts
<1>2. peer' = [c \in Clients |-> peer[c]]
  BY DEF Close
<1> QED
  BY <1>1, <1>2, Constants DEF Close, TypeOK

\* The listening number, and server_fd, are never a client's.
LEMMA ListenerPlain ==
  ASSUME AllInv
  PROVE  /\ lfd \in FDs \cup {NotAnFd} /\ server_fd \in FDs \cup {NotAnFd}
         /\ lfd \in FDs => file[lfd] \notin Clients
         /\ server_fd \in FDs => file[server_fd] \notin Clients
<1>1. TypeOK /\ Numbers
  BY Parts
<1>2. lfd \in FDs => file[lfd] \notin Clients
  BY <1>1, Constants DEF Numbers
<1> QED
  BY <1>1, <1>2, Constants DEF TypeOK, Numbers

-----------------------------------------------------------------------------
(* A connection has a number.                                               *)

LEMMA StaysConnected ==
  ASSUME Connected,
         \A n \in FDs : file[n] \in Clients => file'[n] = file[n],
         \A c \in Clients : peer'[c] \in {"open", "closed", "reset"}
                              => peer[c] \in {"open", "closed", "reset"}
  PROVE  Connected'
BY DEF Connected

LEMMA CloseConnected ==
  ASSUME Connected, NEW fd, Close(fd)
  PROVE  Connected'
<1> SUFFICES ASSUME NEW c \in Clients, peer'[c] \in {"open", "closed", "reset"}
             PROVE  \E n \in FDs : file'[n] = c
  BY DEF Connected
<1>1. peer'[c] = peer[c] /\ ~(fd \in FDs /\ file[fd] = c)
  BY DEF Close
<1>2. PICK n \in FDs : file[n] = c
  BY <1>1 DEF Connected
<1> QED
  BY <1>1, <1>2 DEF Close

LEMMA ConnectedStep ==
  ASSUME AllInv, Next
  PROVE  Connected'
<1> USE DEF fields, kernel, loop, threads, Goto, Move, Continue
<1>0. TypeOK /\ Numbers /\ Connected
  BY Parts
<1>00. "free" \notin Clients /\ "reserved" \notin Clients /\ "other" \notin Clients
  BY Constants
<1>1. ASSUME UNCHANGED <<file, peer>> PROVE Connected'
  BY <1>0, <1>1, StaysConnected
<1>2. ASSUME NEW fd, Close(fd) PROVE Connected'
  BY <1>0, <1>2, CloseConnected
<1>3. CASE OpenSocket \/ CallAccept \/ OtherOpens
  BY <1>0, <1>00, <1>3, StaysConnected DEF TypeOK, OpenSocket, CallAccept, OtherOpens,
     IsLowestFree
<1>4. CASE AcceptClient
  <2>1. PICK c \in Clients : /\ peer' = [peer EXCEPT ![c] = "open"]
                             /\ file' = [file EXCEPT ![cfd] = c]
    BY <1>4 DEF AcceptClient
  <2>2. cfd \in FDs /\ file[cfd] = "reserved"
    BY <1>0, <1>4 DEF AcceptClient, TypeOK, Numbers
  <2> QED
    BY <1>0, <1>00, <2>1, <2>2 DEF Connected, TypeOK
<1>5. CASE AcceptFails
  <2>1. cfd \in FDs /\ file[cfd] = "reserved"
    BY <1>0, <1>5 DEF AcceptFails, TypeOK, Numbers
  <2> QED
    BY <1>0, <1>00, <1>5, <2>1, StaysConnected DEF AcceptFails, TypeOK
<1>6. CASE OtherCloses
  BY <1>0, <1>00, <1>6, StaysConnected DEF TypeOK, OtherCloses
<1>7. ASSUME NEW c \in Clients, Arrive(c) PROVE Connected'
  BY <1>0, <1>7, StaysConnected DEF TypeOK, Arrive
<1>8. ASSUME NEW c \in Clients, PeerLeaves(c) PROVE Connected'
  BY <1>0, <1>8, StaysConnected DEF TypeOK, PeerLeaves
<1>9. ASSUME NEW s \in Stoppers, Shutdown(s) PROVE Connected'
  <2>1. file' = file
    BY <1>9 DEF Shutdown
  <2>2. \A c \in Clients : peer'[c] = peer[c] \/ peer[c] = "open"
    BY <1>9 DEF Shutdown
  <2> QED
    BY <1>0, <2>1, <2>2, StaysConnected
<1>10. CASE \/ SocketFails \/ SetUp \/ Listen \/ Publish \/ TestRunning \/ CannotAccept
            \/ MakeContext \/ CreateThread \/ ForgetListener \/ Destroy
  BY <1>1, <1>10 DEF SocketFails, SetUp, SetReuse, ReadAddress, Bind, Advance, Listen, Publish, TestRunning, CannotAccept, MakeContext,
     CreateThread, ForgetListener, Destroy
<1>11. CASE SetupFails \/ NoContext \/ NoThread \/ CloseListener
  BY <1>2, <1>11, SetupGivesUp DEF GiveUp, NoContext, NoThread, CloseListener
<1>12. ASSUME NEW s \in Stoppers,
              CallStop(s) \/ ClearRunning(s) \/ CloseStopped(s) \/ ForgetStopped(s)
       PROVE  Connected'
  BY <1>1, <1>2, <1>12 DEF CallStop, ClearRunning, CloseStopped, ForgetStopped
<1>13. ASSUME NEW c \in Clients,
              \/ StartThread(c) \/ TestThread(c) \/ ReceiveEnds(c) \/ CloseThread(c)
              \/ Handled(c) \/ ReceiveData(c) \/ ReceiveInterrupted(c)
       PROVE  Connected'
  BY <1>1, <1>2, <1>13 DEF StartThread, TestThread, ReceiveEnds, CloseThread, Handled,
     ReceiveData, ReceiveInterrupted
<1> QED
  BY <1>3, <1>4, <1>5, <1>6, <1>7, <1>8, <1>9, <1>10, <1>11, <1>12, <1>13
     DEF Next, Start, Stop, Run, AcceptWoken, AcceptInterrupted

-----------------------------------------------------------------------------
(* What ends, ends for a reason.                                            *)

\* What running once cleared was cleared for, stays.
LEMMA EndedStays ==
  ASSUME AllInv, ended, pc' \notin Before, stores' \subseteq stores,
         running' => running
  PROVE  ended'
BY DEF ended

\* Of a thread: where it is, and what its peer did.
Reasons(c) ==
  /\ thread[c] = "disconnected" => peer[c] \in {"closed", "reset"}
  /\ thread[c] = "close" => peer[c] \in {"closed", "reset"} \/ ended

\* A step of the accept loop, or of other parts, that leaves the threads alone.
LEMMA LoopEnds ==
  ASSUME AllInv,
         UNCHANGED <<alive, running, stores, stop>>,
         pc \notin Before \cup {"returned", "end"},
         pc' \notin Before \cup {"publish", "end"},
         pc' \in {"exit", "forget", "returned"} =>
           ~running \/ pc \in {"exit", "forget", "returned"},
         pc # "publish",
         \A c \in Clients : Reasons(c)'
  PROVE  EndsForAReason'
<1>1. EndsForAReason /\ Findable
  BY Parts
<1>2. "running" \notin stores
  BY <1>1 DEF Findable
<1>3. ended' <=> ended
  BY DEF ended
<1>4. ~running => ended
  BY <1>2 DEF ended
<1> QED
  BY <1>1, <1>2, <1>3, <1>4 DEF EndsForAReason, Reasons

LEMMA SameReasons ==
  ASSUME AllInv, NEW c \in Clients, thread'[c] = thread[c],
         peer[c] \in {"closed", "reset"} => peer'[c] \in {"closed", "reset"},
         ended => ended'
  PROVE  Reasons(c)'
BY Parts DEF EndsForAReason, Reasons

LEMMA StartEnds ==
  ASSUME AllInv, OpenSocket \/ SocketFails \/ SetUp \/ SetupFails \/ Listen \/ Publish
  PROVE  EndsForAReason'
<1> USE DEF fields, kernel, threads, Goto
<1>0. EndsForAReason /\ Findable /\ TypeOK
  BY Parts
<1>1. CASE OpenSocket \/ SetUp \/ Listen
  BY <1>0, <1>1 DEF EndsForAReason, Findable, OpenSocket, SetUp, SetReuse, ReadAddress, Bind,
     Advance, Listen, ended
<1>2. CASE SocketFails \/ SetupFails
  <2>1. /\ pc \in Before /\ pc' = "returned"
        /\ UNCHANGED <<alive, running, stores, thread, stop>>
    BY <1>2, SetupGivesUp DEF SocketFails, GiveUp
  <2>2. ended'
    BY <1>0, <2>1 DEF Findable, ended
  <2> QED
    BY <1>0, <2>1, <2>2 DEF EndsForAReason, Findable
<1>3. CASE Publish
  <2>1. /\ pc = "publish" /\ pc' \in {"publish", "loop"}
        /\ UNCHANGED <<alive, thread, stop>>
    BY <1>3 DEF Publish
  <2>2. \A c \in Clients : thread'[c] = "none"
    BY <1>0, <2>1 DEF EndsForAReason
  <2>3. CASE running' = running /\ ("running" \in stores' <=> "running" \in stores)
    <3>1. ended' <=> ended
      BY <2>1, <2>3 DEF ended
    <3> QED
      BY <1>0, <2>1, <2>2, <2>3, <3>1 DEF EndsForAReason
  <2>4. CASE "running" \in stores /\ running' = TRUE /\ "running" \notin stores'
    <3>1. \A s \in Stoppers : stop[s] \notin {"running", "shutdown", "close", "forget"}
      BY <1>0, <2>4 DEF EndsForAReason, ended
    <3> QED
      BY <1>0, <2>1, <2>2, <2>4, <3>1 DEF EndsForAReason
  <2> QED
    BY <1>3, <2>3, <2>4 DEF Publish
<1> QED
  BY <1>1, <1>2, <1>3

LEMMA LoopStepEnds ==
  ASSUME AllInv,
         \/ TestRunning \/ CallAccept \/ CannotAccept \/ AcceptClient \/ AcceptFails
         \/ NoContext \/ MakeContext \/ CreateThread \/ NoThread
         \/ CloseListener \/ ForgetListener
  PROVE  EndsForAReason'
<1> USE DEF fields, kernel, threads, Goto
<1>0. TypeOK /\ Numbers /\ ConnectionsOwned
  BY Parts
<1>1. /\ UNCHANGED <<alive, running, stores, stop>>
      /\ pc \in {"loop", "accept", "waiting", "client", "context", "exit", "forget"}
      /\ pc' \in {"loop", "accept", "waiting", "client", "context", "exit", "forget",
                  "returned"}
      /\ pc' \in {"exit", "forget", "returned"} => ~running \/ pc \in {"exit", "forget"}
  BY DEF TestRunning, CallAccept, CannotAccept, AcceptClient, AcceptFails, NoContext,
     MakeContext, CreateThread, NoThread, CloseListener, ForgetListener, Close
<1>2. ended => ended'
  BY <1>1 DEF ended
<1>3. ASSUME NEW c \in Clients PROVE Reasons(c)'
  <2>1. CASE thread' = thread /\ peer' = peer
    BY <1>2, <2>1, SameReasons
  <2>2. CASE AcceptClient
    <3>1. thread' = thread /\ (peer[c] \in {"closed", "reset"} => peer'[c] = peer[c])
      BY <1>0, <2>2 DEF AcceptClient, TypeOK
    <3> QED
      BY <1>2, <3>1, SameReasons
  <2>3. CASE NoContext \/ NoThread
    <3>1. /\ thread' = thread /\ Close(cfd) /\ pc \in {"client", "context"}
      BY <2>3 DEF NoContext, NoThread
    <3>2. CASE file[cfd] = c
      <4>1. thread[c] = "none"
        BY <1>0, <3>1, <3>2 DEF ConnectionsOwned, Holds
      <4> QED
        BY <3>1, <4>1 DEF Reasons
    <3>3. CASE file[cfd] # c
      <4>1. peer'[c] = peer[c]
        BY <3>1, <3>3 DEF Close
      <4> QED
        BY <1>2, <3>1, <4>1, SameReasons
    <3> QED
      BY <3>2, <3>3
  <2>4. CASE CreateThread
    <3>1. /\ thread' = [thread EXCEPT ![Accepted] = "start"] /\ peer' = peer
      BY <2>4 DEF CreateThread, Move
    <3>2. thread'[c] = thread[c] \/ thread'[c] = "start"
      BY <1>0, <3>1 DEF TypeOK
    <3>3. CASE thread'[c] = thread[c]
      BY <1>2, <3>1, <3>3, SameReasons
    <3>4. CASE thread'[c] = "start"
      BY <3>4 DEF Reasons
    <3> QED
      BY <3>2, <3>3, <3>4
  <2>5. CASE CloseListener
    <3>1. thread' = thread /\ Close(lfd)
      BY <2>5 DEF CloseListener
    <3>2. peer' = peer
      BY <3>1, ClosePlain, ListenerPlain
    <3> QED
      BY <1>2, <3>1, <3>2, SameReasons
  <2>6. CASE \/ TestRunning \/ CallAccept \/ CannotAccept \/ AcceptFails
             \/ MakeContext \/ ForgetListener
    BY <2>1, <2>6 DEF TestRunning, CallAccept, CannotAccept, AcceptFails, MakeContext,
       ForgetListener
  <2> QED
    BY <2>2, <2>3, <2>4, <2>5, <2>6
<1> QED
  BY <1>1, <1>3, LoopEnds

LEMMA DestroyEnds ==
  ASSUME AllInv, Destroy
  PROVE  EndsForAReason'
<1> USE DEF fields, kernel, threads, Goto
<1>1. EndsForAReason
  BY Parts
<1>2. /\ pc = "returned" /\ pc' = "end" /\ ~running /\ alive' = FALSE
      /\ UNCHANGED <<running, stores, peer, thread, stop>>
  BY DEF Destroy
<1>3. ended /\ ended'
  BY <1>1, <1>2 DEF EndsForAReason, ended
<1> QED
  BY <1>1, <1>2, <1>3 DEF EndsForAReason

LEMMA StopEnds ==
  ASSUME AllInv, NEW s \in Stoppers, CallStop(s) \/ Stop(s)
  PROVE  EndsForAReason'
<1> USE DEF fields, kernel, loop, threads, Continue
<1>0. EndsForAReason /\ TypeOK
  BY Parts
<1>00. stop \in [Stoppers -> {"idle", "running", "shutdown", "close", "forget", "done"}]
  BY <1>0 DEF TypeOK
<1>1. CASE CallStop(s)
  <2>1. /\ stop' = [stop EXCEPT ![s] = IF running THEN "running" ELSE "done"]
        /\ UNCHANGED <<alive, running, pc, stores, peer, thread>>
    BY <1>1 DEF CallStop
  <2>2. ended' <=> ended
    BY <2>1 DEF ended
  <2> QED
    BY <1>0, <1>00, <2>1, <2>2 DEF EndsForAReason
<1>2. CASE ClearRunning(s)
  <2>1. /\ stop[s] = "running" /\ stop' = [stop EXCEPT ![s] = "shutdown"] /\ ~running'
        /\ UNCHANGED <<alive, pc, stores, peer, thread>>
    BY <1>2 DEF ClearRunning
  <2>2. ended'
    BY <1>0, <2>1 DEF EndsForAReason, ended
  <2> QED
    BY <1>0, <1>00, <2>1, <2>2 DEF EndsForAReason
<1>3. CASE Shutdown(s) \/ CloseStopped(s) \/ ForgetStopped(s)
  <2>1. /\ stop[s] \in {"shutdown", "close", "forget"}
        /\ \E p \in {"close", "forget", "done"} : stop' = [stop EXCEPT ![s] = p]
        /\ UNCHANGED <<alive, running, pc, stores, thread>>
    BY <1>3 DEF Shutdown, CloseStopped, ForgetStopped
  <2>2. ended /\ ended'
    BY <1>0, <2>1 DEF EndsForAReason, ended
  <2>3. \A c \in Clients : peer[c] \in {"closed", "reset"} => peer'[c] = peer[c]
    <3>1. CASE Shutdown(s)
      BY <3>1 DEF Shutdown
    <3>2. CASE CloseStopped(s)
      BY <3>2, ClosePlain, ListenerPlain DEF CloseStopped
    <3>3. CASE ForgetStopped(s)
      BY <3>3 DEF ForgetStopped
    <3> QED
      BY <1>3, <3>1, <3>2, <3>3
  <2> QED
    BY <1>0, <1>00, <2>1, <2>2, <2>3 DEF EndsForAReason
<1> QED
  BY <1>1, <1>2, <1>3 DEF Stop

\* A step in which neither the loop nor the callers of stop take part.
LEMMA OutsideEnds ==
  ASSUME AllInv, UNCHANGED <<alive, running, pc, stores, stop>>,
         \A c \in Clients : Reasons(c)' /\ (thread'[c] # "none" => thread[c] # "none")
  PROVE  EndsForAReason'
<1>1. EndsForAReason
  BY Parts
<1>2. ended' <=> ended
  BY DEF ended
<1> QED
  BY <1>1, <1>2 DEF EndsForAReason, Reasons

LEMMA ThreadEnds ==
  ASSUME AllInv, NEW c \in Clients, Run(c) \/ Handled(c) \/ ReceiveData(c) \/ ReceiveInterrupted(c)
  PROVE  EndsForAReason'
<1> USE DEF fields, kernel, loop, threads, Move
<1>0. EndsForAReason /\ TypeOK /\ ConnectionsOwned
  BY Parts
<1>1. UNCHANGED <<alive, running, pc, stores, stop>>
  BY DEF Run, StartThread, TestThread, ReceiveEnds, CloseThread, Handled, ReceiveData,
     ReceiveInterrupted
<1>2. ended' <=> ended
  BY <1>1 DEF ended
<1>3. thread[c] # "none" /\ \E point : thread' = [thread EXCEPT ![c] = point]
  BY <1>0 DEF Run, StartThread, TestThread, ReceiveEnds, CloseThread, Handled, ReceiveData,
     ReceiveInterrupted
<1>4. thread \in [Clients -> {"none", "start", "connected", "test", "recv", "data",
                              "disconnected", "close"}]
  BY <1>0 DEF TypeOK
<1>5. \A d \in Clients : d # c => thread'[d] = thread[d] /\ peer'[d] = peer[d]
  <2>1. \A d \in Clients : d # c => thread'[d] = thread[d]
    BY <1>3, <1>4
  <2>2. CASE CloseThread(c)
    <3>1. file[tfd[c]] = c /\ Close(tfd[c])
      BY <1>0, <2>2 DEF CloseThread, ConnectionsOwned
    <3>2. \A d \in Clients : d # c => peer'[d] = peer[d]
      BY <3>1 DEF Close
    <3> QED
      BY <2>1, <3>2
  <2>3. CASE ~CloseThread(c)
    BY <2>1, <2>3 DEF Run, StartThread, TestThread, ReceiveEnds, Handled, ReceiveData,
       ReceiveInterrupted
  <2> QED
    BY <2>2, <2>3
<1>6. Reasons(c)'
  <2>1. CASE StartThread(c) \/ ReceiveData(c) \/ ReceiveInterrupted(c) \/ CloseThread(c)
    <3>1. thread'[c] \in {"connected", "data", "test", "none"}
      BY <1>4, <2>1 DEF StartThread, ReceiveData, ReceiveInterrupted, CloseThread
    <3> QED
      BY <3>1 DEF Reasons
  <2>2. CASE Handled(c)
    <3>1. peer' = peer /\ (thread'[c] = "test" \/ (thread'[c] = "close" /\ thread[c] = "disconnected"))
      BY <1>4, <2>2 DEF Handled
    <3> QED
      BY <1>0, <3>1 DEF Reasons, EndsForAReason
  <2>3. CASE TestThread(c)
    <3>1. thread'[c] = "recv" \/ (thread'[c] = "close" /\ (~running \/ ~alive))
      BY <1>4, <2>3 DEF TestThread
    <3>2. ~running => ended
      <4>1. pc \notin Before \cup {"publish"}
        BY <1>0, <1>3 DEF EndsForAReason
      <4>2. stores = {}
        BY <4>1, Parts DEF Findable
      <4> QED
        BY <4>1, <4>2 DEF ended
    <3>3. ~alive => ~running
      BY <1>0 DEF EndsForAReason
    <3> QED
      BY <1>2, <3>1, <3>2, <3>3 DEF Reasons
  <2>4. CASE ReceiveEnds(c)
    <3>1. peer' = peer /\ peer[c] \in {"closed", "reset"}
      BY <2>4 DEF ReceiveEnds
    <3> QED
      BY <3>1 DEF Reasons
  <2> QED
    BY <2>1, <2>2, <2>3, <2>4 DEF Run
<1>7. \A d \in Clients : d # c => Reasons(d)'
  BY <1>2, <1>5, SameReasons
<1>8. \A d \in Clients : thread'[d] # "none" => thread[d] # "none"
  BY <1>3, <1>5
<1> QED
  BY <1>1, <1>6, <1>7, <1>8, OutsideEnds

LEMMA EndsStep ==
  ASSUME AllInv, Next
  PROVE  EndsForAReason'
<1> USE DEF fields, kernel, loop, threads
<1>1. ASSUME NEW c \in Clients, Arrive(c) \/ PeerLeaves(c) PROVE EndsForAReason'
  <2>1. UNCHANGED <<alive, running, pc, stores, stop, thread>>
    BY <1>1 DEF Arrive, PeerLeaves
  <2>2. \A d \in Clients : peer[d] \in {"closed", "reset"} => peer'[d] \in {"closed", "reset"}
    BY <1>1, Parts DEF Arrive, PeerLeaves, TypeOK
  <2>3. ended' <=> ended
    BY <2>1 DEF ended
  <2> QED
    BY <2>1, <2>2, <2>3, SameReasons, OutsideEnds
<1>2. CASE OtherOpens \/ OtherCloses
  <2>1. UNCHANGED <<alive, running, pc, stores, stop, thread, peer>>
    BY <1>2 DEF OtherOpens, OtherCloses
  <2>2. ended' <=> ended
    BY <2>1 DEF ended
  <2> QED
    BY <2>1, <2>2, SameReasons, OutsideEnds
<1> QED
  BY <1>1, <1>2, StartEnds, LoopStepEnds, DestroyEnds, StopEnds, ThreadEnds
     DEF Next, Start, AcceptWoken, AcceptInterrupted

-----------------------------------------------------------------------------
(* The invariant.                                                           *)

LEMMA InitAll == Init => AllInv
<1> SUFFICES ASSUME Init PROVE AllInv
  OBVIOUS
<1>1. Findable /\ Connected /\ EndsForAReason
  BY DEF Init, Findable, Connected, EndsForAReason
<1> QED
  BY <1>1, InitInvariant DEF AllInv

LEMMA NextAll == AllInv /\ StopNotMissed /\ [Next]_vars => AllInv' /\ StopNotMissed'
<1> SUFFICES ASSUME AllInv, StopNotMissed, [Next]_vars PROVE AllInv' /\ StopNotMissed'
  OBVIOUS
<1>1. ServerInv' /\ Findable' /\ StopNotMissed'
  BY NextInvariant, NextFindable DEF AllInv
<1>2. CASE Next
  BY <1>1, <1>2, ConnectedStep, EndsStep DEF AllInv
<1>3. CASE UNCHANGED vars
  <2>1. ended' <=> ended
    BY <1>3 DEF ended, vars, fields, kernel, loop
  <2>2. Connected' /\ EndsForAReason'
    BY <1>3, <2>1, Parts DEF vars, fields, kernel, loop, threads, Connected, EndsForAReason
  <2> QED
    BY <1>1, <2>2 DEF AllInv
<1> QED
  BY <1>2, <1>3

LEMMA AllInvariant == Spec => []AllInv
<1>1. Init => StopNotMissed
  BY DEF Init, StopNotMissed
<1> QED
  BY <1>1, InitAll, NextAll, PTL DEF Spec

\* A thread, the accept loop and the listening socket end only for a peer that has
\* left or a running that has been cleared, never for a call that failed.
THEOREM EndsJustified == Spec => []EndsForAReason
<1>1. AllInv => EndsForAReason
  BY DEF AllInv
<1> QED
  BY <1>1, AllInvariant, PTL

-----------------------------------------------------------------------------
(* The mapping, and what leaves it as it is.                                *)

LEMMA PhaseSame ==
  ASSUME AllInv, listening' = listening, pc \in Before <=> pc' \in Before,
         \A fd \in FDs : file'[fd] = "listener" <=> file[fd] = "listener"
  PROVE  phase' = phase
<1>1. Listens' <=> Listens
  BY DEF Listens
<1> QED
  BY <1>1 DEF phase

LEMMA EndedSame ==
  ASSUME running' = running, stores' = stores,
         pc \in Before <=> pc' \in Before
  PROVE  ended' = ended
BY DEF ended

LEMMA ConnOf ==
  ASSUME NEW c \in Clients
  PROVE  /\ thread[c] # "none" => conn[c] = "served"
         /\ thread[c] = "none" /\ Holds(c) => conn[c] = "taken"
         /\ thread[c] = "none" /\ ~Holds(c) /\ peer[c] = "queued" => conn[c] = "queued"
         /\ thread[c] = "none" /\ ~Holds(c) /\ peer[c] # "queued" => conn[c] = "away"
BY DEF conn

LEMMA ConnNext ==
  ASSUME NEW c \in Clients
  PROVE  /\ thread'[c] # "none" => conn'[c] = "served"
         /\ thread'[c] = "none" /\ Holds(c)' => conn'[c] = "taken"
         /\ thread'[c] = "none" /\ ~Holds(c)' /\ peer'[c] = "queued" => conn'[c] = "queued"
         /\ thread'[c] = "none" /\ ~Holds(c)' /\ peer'[c] # "queued" => conn'[c] = "away"
BY DEF conn

LEMMA ConnSame ==
  ASSUME NEW c \in Clients, thread'[c] = "none" <=> thread[c] = "none",
         Holds(c)' <=> Holds(c), peer'[c] = "queued" <=> peer[c] = "queued"
  PROVE  conn'[c] = conn[c]
BY ConnOf, ConnNext

\* Only the connection of c changes.
LEMMA OneConn ==
  ASSUME NEW c \in Clients, \A d \in Clients : d # c => conn'[d] = conn[d]
  PROVE  conn' = [conn EXCEPT ![c] = conn'[c]]
<1>1. conn' = [d \in Clients |-> conn'[d]] /\ DOMAIN conn = Clients
  BY DEF conn
<1> DEFINE k == conn'
<1>2. \A d \in Clients : d # c => k[d] = conn[d]
  OBVIOUS
<1>3. k = [d \in Clients |-> k[d]]
  BY <1>1
<1> HIDE DEF k
<1>4. k = [conn EXCEPT ![c] = k[c]]
  BY <1>1, <1>2, <1>3
<1> QED
  BY <1>4 DEF k

LEMMA NoConn ==
  ASSUME \A d \in Clients : conn'[d] = conn[d]
  PROVE  conn' = conn
<1>1. conn' = [d \in Clients |-> conn'[d]] /\ conn = [d \in Clients |-> conn[d]]
  BY DEF conn
<1> QED
  BY <1>1

\* What the loop does outside of its hold on a connection.
LEMMA LoopFrame ==
  ASSUME AllInv, UNCHANGED <<thread, peer>>,
         pc \notin {"client", "context"}, pc' \notin {"client", "context"}
  PROVE  conn' = conn /\ left' = left
<1>1. \A c \in Clients : ~Holds(c) /\ ~Holds(c)'
  BY DEF Holds
<1>2. \A c \in Clients : conn'[c] = conn[c]
  BY <1>1, ConnSame
<1> QED
  BY <1>2, NoConn DEF left

\* What happens in other places, while the loop stays where it is.
LEMMA OtherFrame ==
  ASSUME AllInv, UNCHANGED <<pc, cfd, peer>>,
         \A c \in Clients : thread'[c] = "none" <=> thread[c] = "none",
         \A fd \in FDs : file[fd] \in Clients => file'[fd] = file[fd]
  PROVE  conn' = conn /\ left' = left
<1>1. TypeOK /\ Numbers
  BY Parts
<1>2. \A c \in Clients : Holds(c)' <=> Holds(c)
  BY <1>1 DEF Holds, TypeOK, Numbers
<1>3. \A c \in Clients : conn'[c] = conn[c]
  BY <1>2, ConnSame
<1> QED
  BY <1>3, NoConn DEF left

-----------------------------------------------------------------------------
(* Each step is one of the service's, or none.                              *)

Stutters == UNCHANGED Service!vars

LEMMA StutterParts ==
  ASSUME phase' = phase, ended' = ended, conn' = conn, left' = left
  PROVE  Stutters
BY DEF Stutters, Service!vars

LEMMA StartMaps ==
  ASSUME AllInv, OpenSocket \/ SocketFails \/ SetUp \/ SetupFails \/ Listen \/ Publish
  PROVE  Service!Next \/ Stutters
<1> USE DEF fields, kernel, threads, Goto
<1>0. TypeOK /\ Numbers /\ Findable /\ EndsForAReason
  BY Parts
<1>1. UNCHANGED <<thread, peer>>
  <2>1. CASE SetupFails
    BY <2>1, SetupGivesUp, ClosePlain, ListenerPlain DEF GiveUp
  <2> QED
    BY <2>1 DEF OpenSocket, SocketFails, SetUp, SetReuse, ReadAddress, Bind, Advance,
       Listen, Publish
<1>2. pc \notin {"client", "context"} /\ pc' \notin {"client", "context"}
  <2>1. CASE SetupFails
    BY <2>1, SetupGivesUp DEF GiveUp
  <2> QED
    BY <2>1 DEF OpenSocket, SocketFails, SetUp, SetReuse, ReadAddress, Bind, Advance,
       Listen, Publish
<1>3. conn' = conn /\ left' = left
  BY <1>1, <1>2, LoopFrame
<1>4. CASE OpenSocket \/ SetUp
  <2>1. /\ pc \in Before /\ pc' \in Before
    BY <1>4 DEF OpenSocket, SetUp, SetReuse, ReadAddress, Bind, Advance
  <2> QED
    BY <1>3, <2>1, StutterParts DEF phase, ended
<1>5. CASE SocketFails \/ SetupFails
  <2>1. /\ pc \in Before /\ pc' = "returned" /\ ~listening'
        /\ running' = running /\ stores' = stores
    BY <1>0, <1>5, SetupGivesUp DEF SocketFails, GiveUp, Findable, Close
  <2>2. ~Listens' /\ ended' = TRUE
    BY <1>0, <2>1 DEF Listens, ended, Findable
  <2>3. phase = "new" /\ phase' = "shut"
    BY <2>1, <2>2 DEF phase
  <2> QED
    BY <1>3, <2>2, <2>3 DEF Service!Next, Service!GiveUp
<1>6. CASE Listen
  <2>1. /\ pc = "listen" /\ pc' = "publish" /\ listening' /\ file' = file /\ lfd' = lfd
        /\ "running" \in stores'
    BY <1>6 DEF Listen
  <2>2. lfd \in FDs /\ file[lfd] = "listener"
    BY <1>0, <2>1 DEF Numbers, Findable
  <2>3. phase = "new" /\ phase' = "open"
    BY <2>1, <2>2 DEF phase, Listens
  <2>4. ended' = ended
    BY <2>1 DEF ended
  <2> QED
    BY <1>3, <2>3, <2>4 DEF Service!Next, Service!Open
<1>7. CASE Publish
  <2>1. /\ pc = "publish" /\ pc' \in {"publish", "loop"} /\ UNCHANGED <<file, listening>>
    BY <1>7 DEF Publish
  <2>2. phase' = phase
    BY <2>1, PhaseSame
  <2>3. ended' = ended
    <3>1. CASE running' = running /\ ("running" \in stores' <=> "running" \in stores)
      BY <2>1, <3>1 DEF ended
    <3>2. CASE "running" \in stores /\ running' = TRUE
      BY <3>2 DEF ended
    <3> QED
      BY <1>7, <3>1, <3>2 DEF Publish
  <2> QED
    BY <1>3, <2>2, <2>3, StutterParts
<1> QED
  BY <1>4, <1>5, <1>6, <1>7

LEMMA WaitMaps ==
  ASSUME AllInv, TestRunning \/ CallAccept \/ CannotAccept \/ AcceptFails
  PROVE  Stutters
<1> USE DEF fields, kernel, threads, Goto
<1>0. TypeOK /\ Numbers
  BY Parts
<1>1. /\ UNCHANGED <<running, stores, thread, peer, listening>>
      /\ pc \in {"loop", "accept", "waiting"} /\ pc' \in {"loop", "accept", "waiting", "exit"}
  BY DEF TestRunning, CallAccept, CannotAccept, AcceptFails
<1>2. conn' = conn /\ left' = left /\ ended' = ended
  BY <1>1, LoopFrame, EndedSame
<1>3. \A fd \in FDs : file'[fd] = "listener" <=> file[fd] = "listener"
  <2>1. CASE CallAccept
    BY <1>0, <2>1 DEF CallAccept, IsLowestFree, TypeOK
  <2>2. CASE AcceptFails
    BY <1>0, <2>2 DEF AcceptFails, TypeOK, Numbers
  <2>3. CASE TestRunning \/ CannotAccept
    BY <2>3 DEF TestRunning, CannotAccept
  <2> QED
    BY <2>1, <2>2, <2>3
<1>4. phase' = phase
  BY <1>1, <1>3, PhaseSame
<1> QED
  BY <1>2, <1>4, StutterParts

LEMMA TakeMaps ==
  ASSUME AllInv, AcceptClient
  PROVE  Service!Next
<1> USE DEF fields, kernel, threads, Goto
<1>0. TypeOK /\ Numbers /\ ConnectionsOwned /\ Findable
  BY Parts
<1>1. PICK c \in Clients :
        /\ peer[c] = "queued" /\ peer' = [peer EXCEPT ![c] = "open"]
        /\ file' = [file EXCEPT ![cfd] = c]
  BY DEF AcceptClient
<1>2. /\ pc = "waiting" /\ pc' = "client" /\ listening
      /\ UNCHANGED <<running, stores, listening, thread, cfd, lfd>>
  BY DEF AcceptClient
<1>3. /\ cfd \in FDs /\ file[cfd] = "reserved" /\ file'[cfd] = c
      /\ \A fd \in FDs : fd # cfd => file'[fd] = file[fd]
  BY <1>0, <1>1, <1>2 DEF TypeOK, Numbers
<1>4. \A fd \in FDs : file'[fd] = "listener" <=> file[fd] = "listener"
  BY <1>3, Constants
<1>5. phase' = phase /\ ended' = ended
  BY <1>2, <1>4, PhaseSame, EndedSame
<1>6. phase = "open"
  BY <1>0, <1>2 DEF phase, Listens, Findable, Numbers
<1>7. thread[c] = "none"
  BY <1>0, <1>1 DEF ConnectionsOwned, Numbers
<1>8. \A d \in Clients : ~Holds(d) /\ (Holds(d)' <=> d = c)
  BY <1>2, <1>3 DEF Holds
<1>9. conn[c] = "queued" /\ conn'[c] = "taken"
  BY <1>1, <1>2, <1>7, <1>8, ConnOf, ConnNext
<1>10. \A d \in Clients : conn[d] # "taken"
  BY <1>8 DEF conn
<1>11. \A d \in Clients : d # c => conn'[d] = conn[d]
  BY <1>0, <1>1, <1>2, <1>8, ConnSame DEF TypeOK
<1>12. conn' = [conn EXCEPT ![c] = "taken"]
  BY <1>9, <1>11, OneConn
<1>13. left' = left
  BY <1>0, <1>1 DEF left, TypeOK
<1> QED
  BY <1>5, <1>6, <1>9, <1>10, <1>12, <1>13 DEF Service!Next, Service!Take, Service!Becomes

LEMMA HoldMaps ==
  ASSUME AllInv, NoContext \/ MakeContext \/ CreateThread \/ NoThread
  PROVE  Service!Next \/ Stutters
<1> USE DEF fields, kernel, threads, Goto
<1>0. TypeOK /\ Numbers /\ ConnectionsOwned
  BY Parts
<1> DEFINE c == file[cfd]
<1>1. /\ pc \in {"client", "context"} /\ c \in Clients /\ cfd \in FDs
      /\ UNCHANGED <<running, stores, listening, cfd>>
      /\ pc' \in {"loop", "context"}
  BY <1>0 DEF NoContext, MakeContext, CreateThread, NoThread, Close, Numbers, TypeOK
<1>2. ended' = ended
  BY <1>1, EndedSame
<1>3. \A d \in Clients : Holds(d) <=> d = c
  BY <1>1 DEF Holds
<1>4. thread[c] = "none" /\ conn[c] = "taken"
  BY <1>0, <1>1, <1>3, ConnOf DEF ConnectionsOwned
<1>5. CASE NoContext \/ NoThread
  <2>1. Close(cfd) /\ thread' = thread /\ pc' = "loop"
    BY <1>5 DEF NoContext, NoThread
  <2>2. /\ \A fd \in FDs : file'[fd] = "listener" <=> file[fd] = "listener"
        /\ \A d \in Clients : peer'[d] = IF d = c THEN "away" ELSE peer[d]
    BY <1>1, <2>1, Constants DEF Close
  <2>3. phase' = phase
    BY <1>1, <2>1, <2>2, PhaseSame
  <2>4. \A d \in Clients : ~Holds(d)'
    BY <2>1 DEF Holds
  <2>5. conn'[c] = "away"
    BY <1>1, <1>4, <2>1, <2>2, <2>4, ConnNext
  <2>6. \A d \in Clients : d # c => conn'[d] = conn[d]
    BY <1>3, <2>1, <2>2, <2>4, ConnSame
  <2>7. conn' = [conn EXCEPT ![c] = "away"]
    BY <1>1, <2>5, <2>6, OneConn
  <2>8. left' = left \ {c}
    BY <2>2 DEF left
  <2> QED
    BY <1>1, <1>2, <1>4, <2>3, <2>7, <2>8 DEF Service!Next, Service!Drop, Service!Becomes
<1>6. CASE MakeContext
  <2>1. UNCHANGED <<file, peer, thread>> /\ pc' = "context"
    BY <1>6 DEF MakeContext
  <2>2. \A d \in Clients : Holds(d)' <=> Holds(d)
    BY <1>1, <2>1 DEF Holds
  <2>3. \A d \in Clients : conn'[d] = conn[d]
    BY <2>1, <2>2, ConnSame
  <2>4. phase' = phase
    BY <1>1, <2>1, PhaseSame
  <2>5. left' = left
    BY <2>1 DEF left
  <2> QED
    BY <1>2, <2>3, <2>4, <2>5, NoConn, StutterParts
<1>7. CASE CreateThread
  <2>1. /\ UNCHANGED <<file, peer>> /\ pc' = "loop"
        /\ thread' = [thread EXCEPT ![c] = "start"]
    BY <1>7 DEF CreateThread, Move, Accepted
  <2>2. /\ thread'[c] = "start"
        /\ \A d \in Clients : d # c => thread'[d] = thread[d]
    BY <1>0, <1>1, <2>1 DEF TypeOK
  <2>3. \A d \in Clients : ~Holds(d)'
    BY <2>1 DEF Holds
  <2>4. conn'[c] = "served"
    BY <1>1, <2>2, ConnNext
  <2>5. \A d \in Clients : d # c => conn'[d] = conn[d]
    BY <1>3, <2>1, <2>2, <2>3, ConnSame
  <2>6. conn' = [conn EXCEPT ![c] = "served"]
    BY <1>1, <2>4, <2>5, OneConn
  <2>7. phase' = phase /\ left' = left
    BY <1>1, <2>1, PhaseSame DEF left
  <2> QED
    BY <1>1, <1>2, <1>4, <2>6, <2>7 DEF Service!Next, Service!Serve, Service!Becomes
<1> QED
  BY <1>5, <1>6, <1>7

\* Once the server has been told to end, its socket may go.
LEMMA ShutMaps ==
  ASSUME AllInv, ended, ended' = ended, conn' = conn, left' = left,
         pc \notin Before, pc' \notin Before, Listens' => Listens
  PROVE  Service!Next \/ Stutters
<1>1. CASE Listens /\ ~Listens'
  <2>1. phase = "open" /\ phase' = "shut"
    BY <1>1 DEF phase
  <2> QED
    BY <2>1 DEF Service!Next, Service!Shut
<1>2. CASE Listens' <=> Listens
  <2>1. phase' = phase
    BY <1>2 DEF phase
  <2> QED
    BY <2>1, StutterParts
<1> QED
  BY <1>1, <1>2

LEMMA LeaveMaps ==
  ASSUME AllInv, CloseListener \/ ForgetListener \/ Destroy
  PROVE  Service!Next \/ Stutters
<1> USE DEF fields, kernel, threads, Goto
<1>0. EndsForAReason
  BY Parts
<1>1. /\ UNCHANGED <<running, stores, thread, listening>>
      /\ pc \in {"exit", "forget", "returned"} /\ pc' \in {"forget", "returned", "end"}
  BY DEF CloseListener, ForgetListener, Destroy, Close
<1>2. /\ peer' = peer
      /\ \A n \in FDs : file'[n] = "listener" => file[n] = "listener"
  <2>1. CASE CloseListener
    BY <2>1, ClosePlain, ListenerPlain DEF CloseListener
  <2>2. CASE ForgetListener \/ Destroy
    BY <2>2 DEF ForgetListener, Destroy
  <2> QED
    BY <2>1, <2>2
<1>3. conn' = conn /\ left' = left
  BY <1>1, <1>2, LoopFrame
<1>4. ended /\ ended' = ended
  BY <1>0, <1>1, EndedSame DEF EndsForAReason
<1>5. Listens' => Listens
  BY <1>1, <1>2 DEF Listens
<1> QED
  BY <1>1, <1>3, <1>4, <1>5, ShutMaps

LEMMA StopMaps ==
  ASSUME AllInv, NEW s \in Stoppers, CallStop(s) \/ Stop(s)
  PROVE  Service!Next \/ Stutters
<1> USE DEF fields, kernel, loop, threads
<1>0. EndsForAReason
  BY Parts
<1>1. UNCHANGED <<pc, stores, cfd, thread>>
  BY DEF CallStop, Stop, ClearRunning, Shutdown, CloseStopped, ForgetStopped
<1>2. /\ peer' = peer
      /\ \A n \in FDs : file[n] \in Clients => file'[n] = file[n]
      /\ \A n \in FDs : file'[n] = "listener" => file[n] = "listener"
      /\ listening' => listening
  <2>1. CASE CallStop(s) \/ ClearRunning(s) \/ ForgetStopped(s)
    BY <2>1 DEF CallStop, ClearRunning, ForgetStopped
  <2>2. CASE CloseStopped(s)
    BY <2>2, ClosePlain, ListenerPlain DEF CloseStopped
  <2>3. CASE Shutdown(s)
    <3>1. file' = file /\ (listening' => listening)
      BY <2>3 DEF Shutdown
    <3>2. CASE server_fd = NotAnFd
      BY <2>3, <3>1, <3>2 DEF Shutdown
    <3>3. CASE server_fd # NotAnFd
      <4>1. server_fd \in FDs /\ file[server_fd] \notin Clients
        BY <3>3, ListenerPlain
      <4>2. peer' = [c \in Clients |-> peer[c]]
        BY <2>3, <3>3, <4>1 DEF Shutdown
      <4>3. peer = [c \in Clients |-> peer[c]]
        BY Parts DEF TypeOK
      <4> QED
        BY <3>1, <4>2, <4>3
    <3> QED
      BY <3>2, <3>3
  <2> QED
    BY <2>1, <2>2, <2>3 DEF Stop
<1>3. conn' = conn /\ left' = left
  BY <1>1, <1>2, OtherFrame
<1>4. CASE CallStop(s)
  <2>1. UNCHANGED <<running, listening, file>>
    BY <1>4 DEF CallStop
  <2> QED
    BY <1>1, <1>3, <2>1, PhaseSame, EndedSame, StutterParts
<1>5. CASE ClearRunning(s)
  <2>1. stop[s] = "running" /\ running' = FALSE /\ UNCHANGED <<listening, file>>
    BY <1>5 DEF ClearRunning
  <2>2. pc \notin Before /\ "running" \notin stores
    BY <1>0, <2>1 DEF EndsForAReason
  <2>3. ended' = TRUE /\ phase # "new"
    BY <1>1, <2>1, <2>2 DEF ended, phase
  <2>4. phase' = phase
    BY <1>1, <2>1, PhaseSame
  <2> QED
    BY <1>3, <2>3, <2>4 DEF Service!Next, Service!End
<1>6. CASE Shutdown(s) \/ CloseStopped(s) \/ ForgetStopped(s)
  <2>1. stop[s] \in {"shutdown", "close", "forget"} /\ running' = running
    BY <1>6 DEF Shutdown, CloseStopped, ForgetStopped
  <2>2. ended /\ ended' = ended
    BY <1>0, <1>1, <2>1, EndedSame DEF EndsForAReason
  <2>3. pc \notin Before
    BY <2>2 DEF ended
  <2>4. Listens' => Listens
    BY <1>2 DEF Listens
  <2> QED
    BY <1>1, <1>3, <2>2, <2>3, <2>4, ShutMaps
<1> QED
  BY <1>4, <1>5, <1>6 DEF Stop

LEMMA ThreadMaps ==
  ASSUME AllInv, NEW c \in Clients, Run(c) \/ Handled(c) \/ ReceiveData(c) \/ ReceiveInterrupted(c)
  PROVE  Service!Next \/ Stutters
<1> USE DEF fields, kernel, loop, threads, Move
<1>0. TypeOK /\ Numbers /\ ConnectionsOwned /\ EndsForAReason
  BY Parts
<1>1. UNCHANGED <<running, pc, stores, cfd, listening>>
  BY DEF Run, StartThread, TestThread, ReceiveEnds, CloseThread, Close, Handled,
     ReceiveData, ReceiveInterrupted
<1>2. ended' = ended
  BY <1>1, EndedSame
<1>3. CASE CloseThread(c)
  <2>1. /\ thread[c] = "close" /\ thread' = [thread EXCEPT ![c] = "none"] /\ Close(tfd[c])
    BY <1>3 DEF CloseThread
  <2>2. tfd[c] \in FDs /\ file[tfd[c]] = c /\ ~Holds(c)
    BY <1>0, <2>1 DEF ConnectionsOwned
  <2>3. /\ \A n \in FDs : n # tfd[c] => file'[n] = file[n]
        /\ file'[tfd[c]] = "free"
        /\ \A d \in Clients : peer'[d] = IF d = c THEN "away" ELSE peer[d]
    BY <2>1, <2>2 DEF Close
  <2>4. \A n \in FDs : file'[n] = "listener" <=> file[n] = "listener"
    BY <2>2, <2>3, Constants
  <2>5. \A d \in Clients : Holds(d)' <=> Holds(d)
    <3>1. pc \in {"client", "context"} => cfd \in FDs /\ cfd # tfd[c]
      BY <1>0, <2>2 DEF TypeOK, Holds
    <3> QED
      BY <1>1, <2>3, <3>1 DEF Holds
  <2>6. /\ thread'[c] = "none"
        /\ \A d \in Clients : d # c => thread'[d] = thread[d]
    BY <1>0, <2>1 DEF TypeOK
  <2>7. conn[c] = "served" /\ conn'[c] = "away"
    BY <2>1, <2>2, <2>3, <2>5, <2>6, ConnOf, ConnNext
  <2>8. \A d \in Clients : d # c => conn'[d] = conn[d]
    BY <2>3, <2>5, <2>6, ConnSame
  <2>9. conn' = [conn EXCEPT ![c] = "away"]
    BY <2>7, <2>8, OneConn
  <2>10. left' = left \ {c} /\ phase' = phase
    BY <1>1, <2>3, <2>4, PhaseSame DEF left
  <2>11. c \in left \/ ended
    BY <1>0, <2>1 DEF EndsForAReason, left
  <2> QED
    BY <1>2, <2>7, <2>9, <2>10, <2>11 DEF Service!Next, Service!Release, Service!Becomes
<1>4. CASE ~CloseThread(c)
  <2>1. /\ UNCHANGED <<file, peer>> /\ thread[c] # "none"
        /\ \E point : point # "none" /\ thread' = [thread EXCEPT ![c] = point]
    BY <1>4 DEF Run, StartThread, TestThread, ReceiveEnds, Handled, ReceiveData,
       ReceiveInterrupted
  <2>2. \A d \in Clients : thread'[d] = "none" <=> thread[d] = "none"
    BY <1>0, <2>1 DEF TypeOK
  <2>3. conn' = conn /\ left' = left
    BY <1>1, <2>1, <2>2, OtherFrame
  <2> QED
    BY <1>1, <1>2, <2>1, <2>3, PhaseSame, StutterParts
<1> QED
  BY <1>3, <1>4

LEMMA PeerMaps ==
  ASSUME AllInv, NEW c \in Clients, Arrive(c) \/ PeerLeaves(c)
  PROVE  Service!Next
<1> USE DEF fields, loop, threads
<1>0. TypeOK /\ Numbers /\ ConnectionsOwned /\ Findable /\ Connected
  BY Parts
<1>1. UNCHANGED <<running, pc, stores, cfd, listening, file, thread>>
  BY DEF Arrive, PeerLeaves
<1>2. phase' = phase /\ ended' = ended
  BY <1>1, PhaseSame, EndedSame
<1>3. \A d \in Clients : Holds(d)' <=> Holds(d)
  BY <1>1 DEF Holds
<1>4. \A d \in Clients : d # c => peer'[d] = peer[d]
  BY <1>0 DEF Arrive, PeerLeaves, TypeOK
<1>5. \A d \in Clients : d # c => conn'[d] = conn[d]
  BY <1>1, <1>3, <1>4, ConnSame
<1>6. CASE Arrive(c)
  <2>1. /\ peer[c] = "away" /\ peer'[c] = "queued" /\ Listens
    BY <1>0, <1>6 DEF Arrive, TypeOK, Listens
  <2>2. phase = "open"
    BY <1>0, <2>1 DEF phase, Listens, Findable
  <2>3. thread[c] = "none" /\ ~Holds(c)
    BY <1>0, <2>1 DEF ConnectionsOwned, Numbers, Holds, TypeOK
  <2>4. conn[c] = "away" /\ conn'[c] = "queued"
    BY <1>1, <1>3, <2>1, <2>3, ConnOf, ConnNext
  <2>5. conn' = [conn EXCEPT ![c] = "queued"]
    BY <1>5, <2>4, OneConn
  <2>6. left' = left
    BY <1>4, <2>1 DEF left
  <2> QED
    BY <1>2, <2>2, <2>4, <2>5, <2>6 DEF Service!Next, Service!Arrive, Service!Becomes
<1>7. CASE PeerLeaves(c)
  <2>1. peer[c] = "open" /\ peer'[c] \in {"closed", "reset"}
    BY <1>0, <1>7 DEF PeerLeaves, TypeOK
  <2>2. conn'[c] = conn[c]
    BY <1>1, <1>3, <2>1, ConnSame
  <2>3. thread[c] # "none" \/ Holds(c)
    BY <1>0, <2>1 DEF Connected, ConnectionsOwned
  <2>4. conn[c] \in {"taken", "served"}
    BY <2>3, ConnOf
  <2>5. conn' = conn
    BY <1>5, <2>2, NoConn
  <2>6. c \notin left /\ left' = left \cup {c}
    BY <1>4, <2>1 DEF left
  <2> QED
    BY <1>2, <2>4, <2>5, <2>6 DEF Service!Next, Service!Leave
<1> QED
  BY <1>6, <1>7

LEMMA OtherMaps ==
  ASSUME AllInv, OtherOpens \/ OtherCloses
  PROVE  Stutters
<1> USE DEF fields, loop, threads
<1>1. UNCHANGED <<running, pc, stores, cfd, listening, peer, thread>>
  BY DEF OtherOpens, OtherCloses
<1>2. \A fd \in FDs : /\ file[fd] \in Clients => file'[fd] = file[fd]
                      /\ file'[fd] = "listener" <=> file[fd] = "listener"
  BY Parts, Constants DEF OtherOpens, OtherCloses, IsLowestFree, TypeOK
<1>3. conn' = conn /\ left' = left
  BY <1>1, <1>2, OtherFrame
<1> QED
  BY <1>1, <1>2, <1>3, PhaseSame, EndedSame, StutterParts

-----------------------------------------------------------------------------
(* The refinement.                                                          *)

LEMMA InitMaps == Init => Service!Init
<1> SUFFICES ASSUME Init PROVE Service!Init
  OBVIOUS
<1>1. phase = "new" /\ ended = FALSE /\ left = {}
  BY DEF Init, phase, ended, left
<1>2. conn = [c \in Clients |-> "away"]
  BY DEF Init, conn, Holds
<1> QED
  BY <1>1, <1>2 DEF Service!Init

LEMMA StepMaps == AllInv /\ [Next]_vars => [Service!Next]_(Service!vars)
<1> SUFFICES ASSUME AllInv, [Next]_vars PROVE Service!Next \/ Stutters
  BY DEF Stutters
<1>1. CASE Next
  BY <1>1, StartMaps, WaitMaps, TakeMaps, HoldMaps, LeaveMaps, StopMaps, ThreadMaps,
     PeerMaps, OtherMaps DEF Next, Start, AcceptWoken, AcceptInterrupted
<1>2. CASE UNCHANGED vars
  <2>1. UNCHANGED <<running, pc, stores, cfd, listening, peer, thread, file>>
    BY <1>2 DEF vars, fields, kernel, loop, threads
  <2>2. conn' = conn /\ left' = left
    BY <2>1, OtherFrame
  <2> QED
    BY <2>1, <2>2, PhaseSame, EndedSame, StutterParts
<1> QED
  BY <1>1, <1>2

\* The server implements the abstract connection service: its descriptors, its
\* threads and the fields they share without a lock only ever do what the service
\* may do.
THEOREM Refinement == Spec => ImplementsService
BY InitMaps, StepMaps, AllInvariant, PTL DEF Spec, ImplementsService, Service!Spec
=============================================================================
