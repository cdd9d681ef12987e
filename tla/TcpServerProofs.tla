-------------------------- MODULE TcpServerProofs --------------------------
(***************************************************************************)
(* Theorems about TcpServer, for any number of clients, stopping threads   *)
(* and descriptors: every connection has one holder and is closed once,    *)
(* and the listening socket is closed when tcp_server_start returns.       *)
(***************************************************************************)
EXTENDS TcpServer, TLAPS

\* Sets of control points are expanded wherever they appear.
USE DEF Opened, Before

\* No client is a descriptor's other content.
LEMMA Constants ==
  /\ NotAnFd \notin FDs
  /\ \A c \in Clients : c \notin {"free", "reserved", "listener", "other"}
BY TcpServerAssumption DEF FDs, NotAnFd, Plain

\* The four exits of tcp_server_start behind socket do the same.
LEMMA SetupGivesUp ==
  ASSUME SetupFails
  PROVE  \E point \in Opened : GiveUp(point)
BY DEF SetupFails, SetReuseFails, BadAddress, BindFails, ListenFails

-----------------------------------------------------------------------------
(* Type correctness.                                                        *)

LEMMA TypeStep ==
  ASSUME ServerInv, Next
  PROVE  TypeOK'
<1> USE DEF fields, kernel, loop, threads, Goto, Move, Continue
<1>0. TypeOK
  BY DEF ServerInv
<1>00. pc \in {"client", "context"} => file[cfd] \in Clients
  BY DEF ServerInv, Numbers
<1>1. ASSUME OpenSocket PROVE TypeOK'
  BY <1>0, <1>1 DEF TypeOK, Plain, OpenSocket, IsLowestFree
<1>2. ASSUME SocketFails PROVE TypeOK'
  BY <1>0, <1>2 DEF TypeOK, SocketFails
<1>3. ASSUME SetUp PROVE TypeOK'
  BY <1>0, <1>3 DEF TypeOK, SetUp, SetReuse, ReadAddress, Bind, Advance
<1>34. ASSUME SetupFails PROVE TypeOK'
  <2>1. PICK point \in Opened : GiveUp(point)
    BY <1>34, SetupGivesUp
  <2> QED
    BY <1>0, <2>1 DEF TypeOK, Plain, GiveUp, Close
<1>4. ASSUME Listen PROVE TypeOK'
  BY <1>0, <1>4 DEF TypeOK, Listen
<1>5. ASSUME Publish PROVE TypeOK'
  BY <1>0, <1>5 DEF TypeOK, Publish
<1>6. ASSUME TestRunning PROVE TypeOK'
  BY <1>0, <1>6 DEF TypeOK, TestRunning
<1>7. ASSUME CallAccept PROVE TypeOK'
  BY <1>0, <1>7 DEF TypeOK, Plain, CallAccept, IsLowestFree
<1>8. ASSUME CannotAccept PROVE TypeOK'
  BY <1>0, <1>8 DEF TypeOK, CannotAccept
<1>9. ASSUME AcceptClient PROVE TypeOK'
  BY <1>0, <1>9 DEF TypeOK, AcceptClient
<1>10. ASSUME AcceptFails PROVE TypeOK'
  BY <1>0, <1>10 DEF TypeOK, Plain, AcceptFails
<1>11. ASSUME NoContext PROVE TypeOK'
  BY <1>0, <1>11 DEF TypeOK, Plain, NoContext, Close
<1>12. ASSUME MakeContext PROVE TypeOK'
  BY <1>0, <1>00, <1>12 DEF TypeOK, MakeContext, Accepted
<1>13. ASSUME CreateThread PROVE TypeOK'
  BY <1>0, <1>00, <1>13 DEF TypeOK, CreateThread, Accepted
<1>14. ASSUME NoThread PROVE TypeOK'
  BY <1>0, <1>14 DEF TypeOK, Plain, NoThread, Close
<1>15. ASSUME CloseListener PROVE TypeOK'
  BY <1>0, <1>15 DEF TypeOK, Plain, CloseListener, Close
<1>16. ASSUME ForgetListener PROVE TypeOK'
  BY <1>0, <1>16 DEF TypeOK, ForgetListener
<1>17. ASSUME Destroy PROVE TypeOK'
  BY <1>0, <1>17 DEF TypeOK, Destroy
<1>18. ASSUME NEW s \in Stoppers, CallStop(s) PROVE TypeOK'
  BY <1>0, <1>18 DEF TypeOK, CallStop
<1>19. ASSUME NEW s \in Stoppers, ClearRunning(s) PROVE TypeOK'
  BY <1>0, <1>19 DEF TypeOK, ClearRunning
<1>20. ASSUME NEW s \in Stoppers, Shutdown(s) PROVE TypeOK'
  BY <1>0, <1>20 DEF TypeOK, Shutdown
<1>21. ASSUME NEW s \in Stoppers, CloseStopped(s) PROVE TypeOK'
  BY <1>0, <1>21 DEF TypeOK, Plain, CloseStopped, Close
<1>22. ASSUME NEW s \in Stoppers, ForgetStopped(s) PROVE TypeOK'
  BY <1>0, <1>22 DEF TypeOK, ForgetStopped
<1>23. ASSUME NEW c \in Clients, StartThread(c) PROVE TypeOK'
  BY <1>0, <1>23 DEF TypeOK, StartThread
<1>24. ASSUME NEW c \in Clients, Handled(c) PROVE TypeOK'
  BY <1>0, <1>24 DEF TypeOK, Handled
<1>25. ASSUME NEW c \in Clients, TestThread(c) PROVE TypeOK'
  BY <1>0, <1>25 DEF TypeOK, TestThread
<1>26. ASSUME NEW c \in Clients, ReceiveData(c) PROVE TypeOK'
  BY <1>0, <1>26 DEF TypeOK, ReceiveData
<1>27. ASSUME NEW c \in Clients, ReceiveInterrupted(c) PROVE TypeOK'
  BY <1>0, <1>27 DEF TypeOK, ReceiveInterrupted
<1>28. ASSUME NEW c \in Clients, ReceiveEnds(c) PROVE TypeOK'
  BY <1>0, <1>28 DEF TypeOK, ReceiveEnds
<1>29. ASSUME NEW c \in Clients, CloseThread(c) PROVE TypeOK'
  BY <1>0, <1>29 DEF TypeOK, Plain, CloseThread, Close
<1>30. ASSUME NEW c \in Clients, Arrive(c) PROVE TypeOK'
  BY <1>0, <1>30 DEF TypeOK, Arrive
<1>31. ASSUME NEW c \in Clients, PeerLeaves(c) PROVE TypeOK'
  BY <1>0, <1>31 DEF TypeOK, PeerLeaves
<1>32. ASSUME OtherOpens PROVE TypeOK'
  BY <1>0, <1>32 DEF TypeOK, Plain, OtherOpens, IsLowestFree
<1>33. ASSUME OtherCloses PROVE TypeOK'
  BY <1>0, <1>33 DEF TypeOK, Plain, OtherCloses
<1> QED
  BY <1>1, <1>2, <1>3, <1>4, <1>5, <1>6, <1>7, <1>8, <1>9, <1>10, <1>11,
     <1>12, <1>13, <1>14, <1>15, <1>16, <1>17, <1>18, <1>19, <1>20,
     <1>21, <1>22, <1>23, <1>24, <1>25, <1>26, <1>27, <1>28, <1>29,
     <1>30, <1>31, <1>32, <1>33, <1>34
     DEF Next, Start, Stop, Run, AcceptWoken, AcceptInterrupted

-----------------------------------------------------------------------------
(* The descriptor table.                                                    *)

\* No connection has two numbers.
LEMMA OneNumber ==
  ASSUME ServerInv, NEW c \in Clients, NEW m \in FDs, NEW n \in FDs,
         file[m] = c, file[n] = c
  PROVE  m = n
BY DEF ServerInv, ConnectionsOwned

\* What is left of the table when a connection is closed.
LEMMA CloseClient ==
  ASSUME ServerInv, NEW c \in Clients, NEW fd \in FDs, file[fd] = c, Close(fd)
  PROVE  /\ file'[fd] = "free" /\ fd # lfd
         /\ \A n \in FDs : n # fd => file'[n] = file[n] /\ file'[n] # c
         /\ \A d \in Clients : d # c => peer'[d] = peer[d]
<1>1. file'[fd] = "free" /\ \A n \in FDs : n # fd => file'[n] = file[n]
  BY DEF Close
<1>2. \A d \in Clients : d # c => peer'[d] = peer[d]
  BY DEF Close
<1>3. \A n \in FDs : n # fd => file[n] # c
  BY OneNumber
<1>4. fd # lfd
  BY Constants DEF ServerInv, Numbers
<1> QED
  BY <1>1, <1>2, <1>3, <1>4

LEMMA NumbersStep ==
  ASSUME ServerInv, Next
  PROVE  Numbers'
<1> USE DEF fields, kernel, loop, threads, Goto, Move, Continue
<1>0. TypeOK /\ Numbers
  BY DEF ServerInv
<1>1. ASSUME OpenSocket PROVE Numbers'
  BY <1>0, Constants, <1>1 DEF TypeOK, Numbers, OpenSocket, IsLowestFree
<1>2. ASSUME SocketFails PROVE Numbers'
  BY <1>0, Constants, <1>2 DEF TypeOK, Numbers, SocketFails
<1>3. ASSUME SetUp PROVE Numbers'
  BY <1>0, Constants, <1>3 DEF TypeOK, Numbers, SetUp, SetReuse, ReadAddress, Bind, Advance
<1>34. ASSUME SetupFails PROVE Numbers'
  <2>1. PICK point \in Opened : GiveUp(point)
    BY <1>34, SetupGivesUp
  <2> QED
    BY <1>0, Constants, <2>1 DEF TypeOK, Numbers, GiveUp, Close
<1>4. ASSUME Listen PROVE Numbers'
  BY <1>0, Constants, <1>4 DEF TypeOK, Numbers, Listen
<1>5. ASSUME Publish PROVE Numbers'
  BY <1>0, Constants, <1>5 DEF TypeOK, Numbers, Publish
<1>6. ASSUME TestRunning PROVE Numbers'
  BY <1>0, Constants, <1>6 DEF TypeOK, Numbers, TestRunning
<1>7. ASSUME CallAccept PROVE Numbers'
  BY <1>0, Constants, <1>7 DEF TypeOK, Numbers, CallAccept, IsLowestFree
<1>8. ASSUME CannotAccept PROVE Numbers'
  BY <1>0, Constants, <1>8 DEF TypeOK, Numbers, CannotAccept
<1>9. ASSUME AcceptClient PROVE Numbers'
  BY <1>0, Constants, <1>9 DEF TypeOK, Numbers, AcceptClient
<1>10. ASSUME AcceptFails PROVE Numbers'
  BY <1>0, Constants, <1>10 DEF TypeOK, Numbers, AcceptFails
<1>11. ASSUME NoContext PROVE Numbers'
  <2>1. PICK c \in Clients : cfd \in FDs /\ file[cfd] = c /\ Close(cfd)
    BY <1>0, <1>11 DEF TypeOK, Numbers, NoContext
  <2>2. /\ file'[cfd] = "free" /\ cfd # lfd
        /\ \A n \in FDs : n # cfd => file'[n] = file[n] /\ file'[n] # c
        /\ \A d \in Clients : d # c => peer'[d] = peer[d]
    BY <2>1, CloseClient
  <2>3. /\ pc \in {"client", "context"} /\ pc' = "loop"
        /\ UNCHANGED <<lfd, cfd, server_fd>>
    BY <1>11 DEF NoContext
  <2>4. ASSUME NEW n \in FDs, NEW d \in Clients, file'[n] = d
        PROVE  peer'[d] \in {"open", "closed", "reset"}
    BY <1>0, <2>2, <2>4, Constants DEF Numbers
  <2> QED
    BY <1>0, <2>2, <2>3, <2>4 DEF Numbers
<1>12. ASSUME MakeContext PROVE Numbers'
  BY <1>0, Constants, <1>12 DEF TypeOK, Numbers, MakeContext, Accepted
<1>13. ASSUME CreateThread PROVE Numbers'
  BY <1>0, Constants, <1>13 DEF TypeOK, Numbers, CreateThread, Accepted
<1>14. ASSUME NoThread PROVE Numbers'
  <2>1. PICK c \in Clients : cfd \in FDs /\ file[cfd] = c /\ Close(cfd)
    BY <1>0, <1>14 DEF TypeOK, Numbers, NoThread
  <2>2. /\ file'[cfd] = "free" /\ cfd # lfd
        /\ \A n \in FDs : n # cfd => file'[n] = file[n] /\ file'[n] # c
        /\ \A d \in Clients : d # c => peer'[d] = peer[d]
    BY <2>1, CloseClient
  <2>3. /\ pc \in {"client", "context"} /\ pc' = "loop"
        /\ UNCHANGED <<lfd, cfd, server_fd>>
    BY <1>14 DEF NoThread
  <2>4. ASSUME NEW n \in FDs, NEW d \in Clients, file'[n] = d
        PROVE  peer'[d] \in {"open", "closed", "reset"}
    BY <1>0, <2>2, <2>4, Constants DEF Numbers
  <2> QED
    BY <1>0, <2>2, <2>3, <2>4 DEF Numbers
<1>15. ASSUME CloseListener PROVE Numbers'
  BY <1>0, Constants, <1>15 DEF TypeOK, Numbers, CloseListener, Close
<1>16. ASSUME ForgetListener PROVE Numbers'
  BY <1>0, Constants, <1>16 DEF TypeOK, Numbers, ForgetListener
<1>17. ASSUME Destroy PROVE Numbers'
  BY <1>0, Constants, <1>17 DEF TypeOK, Numbers, Destroy
<1>18. ASSUME NEW s \in Stoppers, CallStop(s) PROVE Numbers'
  BY <1>0, Constants, <1>18 DEF TypeOK, Numbers, CallStop
<1>19. ASSUME NEW s \in Stoppers, ClearRunning(s) PROVE Numbers'
  BY <1>0, Constants, <1>19 DEF TypeOK, Numbers, ClearRunning
<1>20. ASSUME NEW s \in Stoppers, Shutdown(s) PROVE Numbers'
  BY <1>0, Constants, <1>20 DEF TypeOK, Numbers, Shutdown
<1>21. ASSUME NEW s \in Stoppers, CloseStopped(s) PROVE Numbers'
  BY <1>0, Constants, <1>21 DEF TypeOK, Numbers, CloseStopped, Close
<1>22. ASSUME NEW s \in Stoppers, ForgetStopped(s) PROVE Numbers'
  BY <1>0, Constants, <1>22 DEF TypeOK, Numbers, ForgetStopped
<1>23. ASSUME NEW c \in Clients, StartThread(c) PROVE Numbers'
  BY <1>0, Constants, <1>23 DEF TypeOK, Numbers, StartThread
<1>24. ASSUME NEW c \in Clients, Handled(c) PROVE Numbers'
  BY <1>0, Constants, <1>24 DEF TypeOK, Numbers, Handled
<1>25. ASSUME NEW c \in Clients, TestThread(c) PROVE Numbers'
  BY <1>0, Constants, <1>25 DEF TypeOK, Numbers, TestThread
<1>26. ASSUME NEW c \in Clients, ReceiveData(c) PROVE Numbers'
  BY <1>0, Constants, <1>26 DEF TypeOK, Numbers, ReceiveData
<1>27. ASSUME NEW c \in Clients, ReceiveInterrupted(c) PROVE Numbers'
  BY <1>0, Constants, <1>27 DEF TypeOK, Numbers, ReceiveInterrupted
<1>28. ASSUME NEW c \in Clients, ReceiveEnds(c) PROVE Numbers'
  BY <1>0, Constants, <1>28 DEF TypeOK, Numbers, ReceiveEnds
<1>29. ASSUME NEW c \in Clients, CloseThread(c) PROVE Numbers'
  <2>1. tfd[c] \in FDs /\ file[tfd[c]] = c /\ Close(tfd[c])
    BY <1>29 DEF CloseThread, ServerInv, ConnectionsOwned
  <2>2. /\ file'[tfd[c]] = "free" /\ tfd[c] # lfd
        /\ \A n \in FDs : n # tfd[c] => file'[n] = file[n] /\ file'[n] # c
        /\ \A d \in Clients : d # c => peer'[d] = peer[d]
    BY <2>1, CloseClient
  <2>3. UNCHANGED <<pc, lfd, cfd, server_fd>>
    BY <1>29 DEF CloseThread
  <2>4. ASSUME NEW n \in FDs, NEW d \in Clients, file'[n] = d
        PROVE  peer'[d] \in {"open", "closed", "reset"}
    BY <1>0, <2>2, <2>4, Constants DEF Numbers
  <2>5. pc \in {"client", "context"} => cfd # tfd[c]
    <3>1. pc \in {"client", "context"} => file[cfd] # c
      BY <1>29 DEF CloseThread, ServerInv, ConnectionsOwned, Holds
    <3> QED
      BY <2>1, <3>1
  <2>6. file[tfd[c]] # "reserved"
    BY <2>1, Constants
  <2> QED
    BY <1>0, <2>1, <2>2, <2>3, <2>4, <2>5, <2>6 DEF TypeOK, Numbers
<1>30. ASSUME NEW c \in Clients, Arrive(c) PROVE Numbers'
  BY <1>0, Constants, <1>30 DEF TypeOK, Numbers, Arrive
<1>31. ASSUME NEW c \in Clients, PeerLeaves(c) PROVE Numbers'
  BY <1>0, Constants, <1>31 DEF TypeOK, Numbers, PeerLeaves
<1>32. ASSUME OtherOpens PROVE Numbers'
  BY <1>0, Constants, <1>32 DEF TypeOK, Numbers, OtherOpens, IsLowestFree
<1>33. ASSUME OtherCloses PROVE Numbers'
  BY <1>0, Constants, <1>33 DEF TypeOK, Numbers, OtherCloses
<1> QED
  BY <1>1, <1>2, <1>3, <1>4, <1>5, <1>6, <1>7, <1>8, <1>9, <1>10, <1>11,
     <1>12, <1>13, <1>14, <1>15, <1>16, <1>17, <1>18, <1>19, <1>20,
     <1>21, <1>22, <1>23, <1>24, <1>25, <1>26, <1>27, <1>28, <1>29,
     <1>30, <1>31, <1>32, <1>33, <1>34
     DEF Next, Start, Stop, Run, AcceptWoken, AcceptInterrupted

-----------------------------------------------------------------------------
(* Every connection has one holder.                                         *)

LEMMA OwnedStep ==
  ASSUME ServerInv, Next
  PROVE  ConnectionsOwned'
<1> USE DEF fields, kernel, loop, threads, Goto, Move, Continue
<1>0. TypeOK /\ Numbers /\ ConnectionsOwned
  BY DEF ServerInv
<1>1. ASSUME OpenSocket PROVE ConnectionsOwned'
  BY <1>0, Constants, <1>1 DEF TypeOK, Numbers, ConnectionsOwned, Holds, OpenSocket, IsLowestFree
<1>2. ASSUME SocketFails PROVE ConnectionsOwned'
  BY <1>0, Constants, <1>2 DEF TypeOK, Numbers, ConnectionsOwned, Holds, SocketFails
<1>3. ASSUME SetUp PROVE ConnectionsOwned'
  BY <1>0, Constants, <1>3 DEF TypeOK, Numbers, ConnectionsOwned, Holds, SetUp, SetReuse, ReadAddress, Bind, Advance
<1>34. ASSUME SetupFails PROVE ConnectionsOwned'
  <2>1. PICK point \in Opened : GiveUp(point)
    BY <1>34, SetupGivesUp
  <2> QED
    BY <1>0, Constants, <2>1 DEF TypeOK, Numbers, ConnectionsOwned, Holds, GiveUp, Close
<1>4. ASSUME Listen PROVE ConnectionsOwned'
  BY <1>0, Constants, <1>4 DEF TypeOK, Numbers, ConnectionsOwned, Holds, Listen
<1>5. ASSUME Publish PROVE ConnectionsOwned'
  BY <1>0, Constants, <1>5 DEF TypeOK, Numbers, ConnectionsOwned, Holds, Publish
<1>6. ASSUME TestRunning PROVE ConnectionsOwned'
  BY <1>0, Constants, <1>6 DEF TypeOK, Numbers, ConnectionsOwned, Holds, TestRunning
<1>7. ASSUME CallAccept PROVE ConnectionsOwned'
  BY <1>0, Constants, <1>7 DEF TypeOK, Numbers, ConnectionsOwned, Holds, CallAccept, IsLowestFree
<1>8. ASSUME CannotAccept PROVE ConnectionsOwned'
  BY <1>0, Constants, <1>8 DEF TypeOK, Numbers, ConnectionsOwned, Holds, CannotAccept
<1>9. ASSUME AcceptClient PROVE ConnectionsOwned'
  BY <1>0, Constants, <1>9 DEF TypeOK, Numbers, ConnectionsOwned, Holds, AcceptClient
<1>10. ASSUME AcceptFails PROVE ConnectionsOwned'
  BY <1>0, Constants, <1>10 DEF TypeOK, Numbers, ConnectionsOwned, Holds, AcceptFails
<1>11. ASSUME NoContext PROVE ConnectionsOwned'
  BY <1>0, Constants, <1>11 DEF TypeOK, Numbers, ConnectionsOwned, Holds, NoContext, Close
<1>12. ASSUME MakeContext PROVE ConnectionsOwned'
  BY <1>0, Constants, <1>12 DEF TypeOK, Numbers, ConnectionsOwned, Holds, MakeContext, Accepted
<1>13. ASSUME CreateThread PROVE ConnectionsOwned'
  BY <1>0, Constants, <1>13 DEF TypeOK, Numbers, ConnectionsOwned, Holds, CreateThread, Accepted
<1>14. ASSUME NoThread PROVE ConnectionsOwned'
  <2>1. PICK c \in Clients : cfd \in FDs /\ file[cfd] = c /\ Close(cfd)
    BY <1>0, <1>14 DEF TypeOK, Numbers, NoThread
  <2>2. /\ file'[cfd] = "free"
        /\ \A n \in FDs : n # cfd => file'[n] = file[n] /\ file'[n] # c
    BY <2>1, CloseClient
  <2>3. /\ pc = "context" /\ pc' = "loop" /\ context' = context \ {c}
        /\ UNCHANGED <<thread, tfd>>
    BY <1>14, <2>1 DEF NoThread, Accepted
  <2>4. Holds(c) /\ thread[c] = "none"
    BY <1>0, <2>1, <2>3 DEF ConnectionsOwned, Holds, TypeOK
  <2>5. \A d \in Clients : ~Holds(d)' /\ (d # c => ~Holds(d))
    BY <2>1, <2>3 DEF Holds
  <2>6. ASSUME NEW d \in Clients, thread'[d] # "none"
        PROVE  tfd'[d] \in FDs /\ file'[tfd'[d]] = d
    <3>1. d # c /\ tfd[d] \in FDs /\ file[tfd[d]] = d
      BY <1>0, <2>3, <2>4, <2>6 DEF ConnectionsOwned
    <3> QED
      BY <2>1, <2>2, <2>3, <3>1
  <2>7. ASSUME NEW d \in Clients, NEW n \in FDs, file'[n] = d
        PROVE  thread'[d] # "none" /\ n = tfd'[d]
    <3>1. n # cfd /\ file[n] = d /\ d # c
      BY <2>2, <2>7, Constants
    <3> QED
      BY <1>0, <2>3, <2>5, <3>1 DEF ConnectionsOwned
  <2>8. \A d \in Clients : d \in context' <=> thread'[d] = "start"
    BY <1>0, <2>3, <2>4, <2>5 DEF ConnectionsOwned
  <2> QED
    BY <2>3, <2>5, <2>6, <2>7, <2>8 DEF ConnectionsOwned
<1>15. ASSUME CloseListener PROVE ConnectionsOwned'
  BY <1>0, Constants, <1>15 DEF TypeOK, Numbers, ConnectionsOwned, Holds, CloseListener, Close
<1>16. ASSUME ForgetListener PROVE ConnectionsOwned'
  BY <1>0, Constants, <1>16 DEF TypeOK, Numbers, ConnectionsOwned, Holds, ForgetListener
<1>17. ASSUME Destroy PROVE ConnectionsOwned'
  BY <1>0, Constants, <1>17 DEF TypeOK, Numbers, ConnectionsOwned, Holds, Destroy
<1>18. ASSUME NEW s \in Stoppers, CallStop(s) PROVE ConnectionsOwned'
  BY <1>0, Constants, <1>18 DEF TypeOK, Numbers, ConnectionsOwned, Holds, CallStop
<1>19. ASSUME NEW s \in Stoppers, ClearRunning(s) PROVE ConnectionsOwned'
  BY <1>0, Constants, <1>19 DEF TypeOK, Numbers, ConnectionsOwned, Holds, ClearRunning
<1>20. ASSUME NEW s \in Stoppers, Shutdown(s) PROVE ConnectionsOwned'
  BY <1>0, Constants, <1>20 DEF TypeOK, Numbers, ConnectionsOwned, Holds, Shutdown
<1>21. ASSUME NEW s \in Stoppers, CloseStopped(s) PROVE ConnectionsOwned'
  BY <1>0, Constants, <1>21 DEF TypeOK, Numbers, ConnectionsOwned, Holds, CloseStopped, Close
<1>22. ASSUME NEW s \in Stoppers, ForgetStopped(s) PROVE ConnectionsOwned'
  BY <1>0, Constants, <1>22 DEF TypeOK, Numbers, ConnectionsOwned, Holds, ForgetStopped
<1>23. ASSUME NEW c \in Clients, StartThread(c) PROVE ConnectionsOwned'
  BY <1>0, Constants, <1>23 DEF TypeOK, Numbers, ConnectionsOwned, Holds, StartThread
<1>24. ASSUME NEW c \in Clients, Handled(c) PROVE ConnectionsOwned'
  BY <1>0, Constants, <1>24 DEF TypeOK, Numbers, ConnectionsOwned, Holds, Handled
<1>25. ASSUME NEW c \in Clients, TestThread(c) PROVE ConnectionsOwned'
  BY <1>0, Constants, <1>25 DEF TypeOK, Numbers, ConnectionsOwned, Holds, TestThread
<1>26. ASSUME NEW c \in Clients, ReceiveData(c) PROVE ConnectionsOwned'
  BY <1>0, Constants, <1>26 DEF TypeOK, Numbers, ConnectionsOwned, Holds, ReceiveData
<1>27. ASSUME NEW c \in Clients, ReceiveInterrupted(c) PROVE ConnectionsOwned'
  BY <1>0, Constants, <1>27 DEF TypeOK, Numbers, ConnectionsOwned, Holds, ReceiveInterrupted
<1>28. ASSUME NEW c \in Clients, ReceiveEnds(c) PROVE ConnectionsOwned'
  BY <1>0, Constants, <1>28 DEF TypeOK, Numbers, ConnectionsOwned, Holds, ReceiveEnds
<1>29. ASSUME NEW c \in Clients, CloseThread(c) PROVE ConnectionsOwned'
  BY <1>0, Constants, <1>29 DEF TypeOK, Numbers, ConnectionsOwned, Holds, CloseThread, Close
<1>30. ASSUME NEW c \in Clients, Arrive(c) PROVE ConnectionsOwned'
  BY <1>0, Constants, <1>30 DEF TypeOK, Numbers, ConnectionsOwned, Holds, Arrive
<1>31. ASSUME NEW c \in Clients, PeerLeaves(c) PROVE ConnectionsOwned'
  BY <1>0, Constants, <1>31 DEF TypeOK, Numbers, ConnectionsOwned, Holds, PeerLeaves
<1>32. ASSUME OtherOpens PROVE ConnectionsOwned'
  BY <1>0, Constants, <1>32 DEF TypeOK, Numbers, ConnectionsOwned, Holds, OtherOpens, IsLowestFree
<1>33. ASSUME OtherCloses PROVE ConnectionsOwned'
  BY <1>0, Constants, <1>33 DEF TypeOK, Numbers, ConnectionsOwned, Holds, OtherCloses
<1> QED
  BY <1>1, <1>2, <1>3, <1>4, <1>5, <1>6, <1>7, <1>8, <1>9, <1>10, <1>11,
     <1>12, <1>13, <1>14, <1>15, <1>16, <1>17, <1>18, <1>19, <1>20,
     <1>21, <1>22, <1>23, <1>24, <1>25, <1>26, <1>27, <1>28, <1>29,
     <1>30, <1>31, <1>32, <1>33, <1>34
     DEF Next, Start, Stop, Run, AcceptWoken, AcceptInterrupted

-----------------------------------------------------------------------------
(* The invariant, and what follows from it.                                 *)

LEMMA InitInvariant ==
  Init => ServerInv
<1> SUFFICES ASSUME Init PROVE ServerInv
  OBVIOUS
<1>1. TypeOK
  BY DEF Init, TypeOK, Plain
<1>2. Numbers
  BY Constants DEF Init, Numbers
<1>3. ConnectionsOwned
  BY Constants DEF Init, ConnectionsOwned, Holds
<1> QED
  BY <1>1, <1>2, <1>3 DEF ServerInv

LEMMA NextInvariant ==
  ServerInv /\ [Next]_vars => ServerInv'
<1> SUFFICES ASSUME ServerInv, [Next]_vars PROVE ServerInv'
  OBVIOUS
<1>1. CASE Next
  BY <1>1, TypeStep, NumbersStep, OwnedStep DEF ServerInv
<1>2. CASE UNCHANGED vars
  <2>1. /\ TypeOK /\ Numbers /\ ConnectionsOwned
        /\ UNCHANGED <<fields, kernel, loop, threads, stop>>
    BY <1>2 DEF ServerInv, vars
  <2>2. TypeOK'
    BY <2>1 DEF TypeOK, fields, kernel, loop, threads
  <2>3. Numbers'
    BY <2>1 DEF Numbers, fields, kernel, loop, threads
  <2>4. ConnectionsOwned'
    BY <2>1 DEF ConnectionsOwned, Holds, fields, kernel, loop, threads
  <2> QED
    BY <2>2, <2>3, <2>4 DEF ServerInv
<1> QED
  BY <1>1, <1>2

\* Every reachable state satisfies the inductive invariant.
THEOREM Invariant == Spec => []ServerInv
BY InitInvariant, NextInvariant, PTL DEF Spec

\* Every variable keeps its type, and the loop has a descriptor where it uses one.
THEOREM TypeCorrect == Spec => []TypeOK
<1>1. ServerInv => TypeOK
  BY DEF ServerInv
<1> QED
  BY <1>1, Invariant, PTL

\* Every connection and every context has one holder, whatever stop, start and
\* the rest of the process do to the descriptor table.
THEOREM Owned == Spec => []ConnectionsOwned
<1>1. ServerInv => ConnectionsOwned
  BY DEF ServerInv
<1> QED
  BY <1>1, Invariant, PTL

\* The listening socket is closed when tcp_server_start has returned.
THEOREM Released == Spec => []ListenerReleased
<1>1. ServerInv => ListenerReleased
  BY DEF ServerInv, Numbers, ListenerReleased
<1> QED
  BY <1>1, Invariant, PTL

-----------------------------------------------------------------------------
(* No stop is missed.                                                       *)

\* What Findable and StopNotMissed go by.
flags == <<running, server_fd, listening, pc, stores, lfd, stop>>

\* Closing a number that is not the listening one leaves both as they are.
LEMMA KeepsListener ==
  ASSUME ServerInv, Findable, StopNotMissed, UNCHANGED flags,
         pc \notin {"socket", "returned", "end"} /\ file[lfd] = "listener"
           => file'[lfd] = "listener"
  PROVE  Findable' /\ StopNotMissed'
BY DEF flags, Findable, StopNotMissed

\* ... and so does a step of the accept loop inside the loop.
LEMMA LoopStep ==
  ASSUME ServerInv, Findable, StopNotMissed,
         UNCHANGED <<running, server_fd, listening, stores, lfd, stop>>,
         file[lfd] = "listener" => file'[lfd] = "listener",
         pc \in {"loop", "accept", "waiting", "client", "context"},
         pc' \in {"loop", "accept", "waiting", "client", "context", "exit"},
         pc' = "accept" => running,
         pc' = "waiting" => pc = "accept"
  PROVE  Findable' /\ StopNotMissed'
BY DEF Findable, StopNotMissed

\* start, up to the loop.
LEMMA StartStep ==
  ASSUME ServerInv, Findable, StopNotMissed,
         OpenSocket \/ SocketFails \/ SetUp \/ SetupFails \/ Listen \/ Publish
  PROVE  Findable' /\ StopNotMissed'
<1> USE DEF fields, kernel, threads, Goto, Findable, StopNotMissed
<1>0. TypeOK /\ Numbers
  BY DEF ServerInv
<1>1. CASE OpenSocket
  BY <1>0, <1>1 DEF OpenSocket, IsLowestFree, TypeOK
<1>2. CASE SocketFails
  BY <1>2 DEF SocketFails
<1>3. CASE SetupFails
  <2>1. PICK point \in Opened : GiveUp(point)
    BY <1>3, SetupGivesUp
  <2> QED
    BY <2>1 DEF GiveUp, Close
<1>6. CASE SetUp
  BY <1>6 DEF SetUp, SetReuse, ReadAddress, Bind, Advance
<1>4. CASE Listen
  BY <1>4 DEF Listen
<1>5. CASE Publish
  <2>1. /\ pc = "publish" /\ pc' = (IF stores' = {} THEN "loop" ELSE "publish")
        /\ server_fd' = lfd \/ (server_fd' = server_fd /\ ("server_fd" \in stores
                                                            => "server_fd" \in stores'))
        /\ UNCHANGED <<listening, file, lfd, stop>>
    BY <1>5 DEF Publish
  <2> QED
    BY <2>1
<1> QED
  BY <1>1, <1>2, <1>3, <1>4, <1>5, <1>6

\* The accept loop.
LEMMA AcceptStep ==
  ASSUME ServerInv, Findable, StopNotMissed,
         \/ TestRunning \/ CallAccept \/ CannotAccept \/ AcceptClient \/ AcceptFails
         \/ NoContext \/ MakeContext \/ CreateThread \/ NoThread
  PROVE  Findable' /\ StopNotMissed'
<1> USE DEF fields, kernel, threads, Goto
<1>0. TypeOK /\ Numbers
  BY DEF ServerInv
<1>00. pc \in {"waiting", "client", "context"} => cfd \in FDs /\ file[cfd] # "listener"
  BY <1>0, Constants DEF TypeOK, Numbers
<1>1. CASE TestRunning
  BY <1>1, LoopStep DEF TestRunning
<1>2. CASE CallAccept
  <2>1. file[lfd] = "listener" => file'[lfd] = "listener"
    BY <1>0, <1>2 DEF CallAccept, IsLowestFree, TypeOK
  <2> QED
    BY <1>2, <2>1, LoopStep DEF CallAccept
<1>3. CASE CannotAccept
  BY <1>3, LoopStep DEF CannotAccept
<1>4. CASE AcceptClient
  <2>1. file[lfd] = "listener" => file'[lfd] = "listener"
    BY <1>0, <1>00, <1>4 DEF AcceptClient, TypeOK
  <2> QED
    BY <1>4, <2>1, LoopStep DEF AcceptClient
<1>5. CASE AcceptFails
  <2>1. file[lfd] = "listener" => file'[lfd] = "listener"
    BY <1>0, <1>00, <1>5 DEF AcceptFails, TypeOK
  <2> QED
    BY <1>5, <2>1, LoopStep DEF AcceptFails
<1>6. CASE NoContext \/ NoThread
  <2>1. pc \in {"client", "context"} /\ Close(cfd) /\ lfd \in FDs
    BY <1>0, <1>6 DEF NoContext, NoThread, Numbers
  <2>2. file[lfd] = "listener" => file'[lfd] = "listener"
    BY <1>00, <2>1 DEF Close
  <2> QED
    BY <1>6, <2>1, <2>2, LoopStep DEF NoContext, NoThread, Close
<1>7. CASE MakeContext \/ CreateThread
  BY <1>7, LoopStep DEF MakeContext, CreateThread
<1> QED
  BY <1>1, <1>2, <1>3, <1>4, <1>5, <1>6, <1>7

\* The end of start.
LEMMA LeaveStep ==
  ASSUME ServerInv, Findable, StopNotMissed, CloseListener \/ ForgetListener \/ Destroy
  PROVE  Findable' /\ StopNotMissed'
BY DEF CloseListener, ForgetListener, Destroy, Close, fields, kernel, threads, Goto,
       Findable, StopNotMissed

\* The callers of stop.
LEMMA StopStep ==
  ASSUME ServerInv, Findable, StopNotMissed, NEW s \in Stoppers, CallStop(s) \/ Stop(s)
  PROVE  Findable' /\ StopNotMissed'
<1> USE DEF fields, kernel, loop, threads, Continue, Findable, StopNotMissed
<1>0. TypeOK /\ Numbers
  BY DEF ServerInv
<1>00. /\ stop \in [Stoppers -> {"idle", "running", "shutdown", "close", "forget", "done"}]
       /\ NotAnFd \notin FDs
  BY <1>0, Constants DEF TypeOK
<1>1. CASE CallStop(s)
  <2>1. /\ stop' = [stop EXCEPT ![s] = IF running THEN "running" ELSE "done"]
        /\ stop[s] = "idle"
        /\ UNCHANGED <<running, server_fd, listening, file, pc, stores, lfd>>
    BY <1>1 DEF CallStop
  <2>2. Findable'
    BY <1>00, <2>1
  <2>3. StopNotMissed'
    BY <1>00, <2>1
  <2> QED
    BY <2>2, <2>3
<1>2. CASE ClearRunning(s)
  <2>1. /\ stop[s] = "running" /\ stop' = [stop EXCEPT ![s] = "shutdown"] /\ ~running'
        /\ UNCHANGED <<server_fd, listening, file, pc, stores, lfd>>
    BY <1>2 DEF ClearRunning
  <2>2. Findable'
    BY <1>00, <2>1
  <2>3. stop'[s] = "shutdown"
    BY <1>00, <2>1
  <2>4. StopNotMissed'
    BY <2>3
  <2> QED
    BY <2>2, <2>4
<1>3. CASE Shutdown(s)
  <2>1. /\ stop[s] = "shutdown"
        /\ UNCHANGED <<running, server_fd, file, pc, stores, lfd>>
    BY <1>3 DEF Shutdown
  <2>2. CASE server_fd = NotAnFd
    <3>1. stop' = [stop EXCEPT ![s] = "done"] /\ listening' = listening
      BY <1>3, <2>2 DEF Shutdown
    <3>2. Findable'
      BY <1>00, <2>1, <3>1
    <3>3. pc \in {"accept", "waiting"} => ~listening
      BY <1>0, <1>00, <2>2 DEF Numbers
    <3> QED
      BY <2>1, <3>1, <3>2, <3>3
  <2>3. CASE server_fd # NotAnFd
    <3>1. /\ stop' = [stop EXCEPT ![s] = "close"]
          /\ listening' = (listening /\ file[server_fd] # "listener")
      BY <1>3, <2>3 DEF Shutdown
    <3>2. server_fd = lfd
      BY <1>0, <2>3 DEF Numbers
    <3>3. pc \in {"publish", "loop", "accept", "waiting", "client", "context"} => ~listening'
      BY <3>1, <3>2
    <3>4. Findable'
      BY <2>1, <2>3, <3>1, <3>3
    <3> QED
      BY <2>1, <3>3, <3>4
  <2> QED
    BY <2>2, <2>3
<1>4. CASE CloseStopped(s) \/ ForgetStopped(s)
  <2>1. /\ stop[s] \in {"close", "forget"}
        /\ \E p \in {"forget", "done"} : stop' = [stop EXCEPT ![s] = p]
        /\ UNCHANGED <<running, listening, pc, stores, lfd>>
    BY <1>4 DEF CloseStopped, ForgetStopped, Close
  <2>2. pc \notin Before
    BY <2>1
  <2>3. pc \in {"publish", "loop", "accept", "waiting", "client", "context"} => ~listening
    BY <2>1
  <2> QED
    BY <2>1, <2>2, <2>3
<1> QED
  BY <1>1, <1>2, <1>3, <1>4 DEF Stop

\* The threads of the clients, their peers, and the rest of the process.
LEMMA OutsideStep ==
  ASSUME ServerInv, Findable, StopNotMissed,
         \/ OtherOpens \/ OtherCloses
         \/ \E c \in Clients :
              \/ Run(c) \/ Handled(c) \/ ReceiveData(c) \/ ReceiveInterrupted(c)
              \/ Arrive(c) \/ PeerLeaves(c)
  PROVE  Findable' /\ StopNotMissed'
<1> USE DEF fields, kernel, loop, threads, flags
<1>0. TypeOK /\ Numbers /\ ConnectionsOwned
  BY DEF ServerInv
<1>1. CASE OtherOpens \/ OtherCloses
  <2>1. UNCHANGED flags
    BY <1>1 DEF OtherOpens, OtherCloses
  <2>2. \A fd \in FDs : file[fd] = "listener" => file'[fd] = "listener"
    BY <1>0, <1>1 DEF OtherOpens, OtherCloses, IsLowestFree, TypeOK
  <2> QED
    BY <1>0, <2>1, <2>2, KeepsListener DEF Numbers
<1>2. ASSUME NEW c \in Clients, CloseThread(c) PROVE Findable' /\ StopNotMissed'
  <2>1. tfd[c] \in FDs /\ file[tfd[c]] = c /\ Close(tfd[c]) /\ UNCHANGED flags
    BY <1>0, <1>2 DEF CloseThread, Close, ConnectionsOwned
  <2>2. \A fd \in FDs : file[fd] = "listener" => file'[fd] = "listener"
    BY <2>1, Constants DEF Close
  <2> QED
    BY <1>0, <2>1, <2>2, KeepsListener DEF Numbers
<1>3. ASSUME NEW c \in Clients,
             \/ StartThread(c) \/ TestThread(c) \/ ReceiveEnds(c)
             \/ Handled(c) \/ ReceiveData(c) \/ ReceiveInterrupted(c)
             \/ Arrive(c) \/ PeerLeaves(c)
      PROVE  Findable' /\ StopNotMissed'
  <2>1. UNCHANGED <<flags, file>>
    BY <1>3 DEF StartThread, TestThread, ReceiveEnds, Handled, ReceiveData,
       ReceiveInterrupted, Arrive, PeerLeaves
  <2> QED
    BY <2>1, KeepsListener
<1> QED
  BY <1>1, <1>2, <1>3 DEF Run

LEMMA NextFindable ==
  ServerInv /\ Findable /\ StopNotMissed /\ [Next]_vars => Findable' /\ StopNotMissed'
<1>1. ASSUME ServerInv, Findable, StopNotMissed, Next
      PROVE  Findable' /\ StopNotMissed'
  BY <1>1, StartStep, AcceptStep, LeaveStep, StopStep, OutsideStep
     DEF Next, Start, AcceptWoken, AcceptInterrupted
<1>2. ASSUME ServerInv, Findable, StopNotMissed, UNCHANGED vars
      PROVE  Findable' /\ StopNotMissed'
  BY <1>2, KeepsListener DEF vars, fields, kernel, loop, threads, flags
<1> QED
  BY <1>1, <1>2

\* The socket that listens can be found by those who stop the server.
THEOREM ListenerFound == Spec => []Findable
<1>1. Init => Findable /\ StopNotMissed
  BY DEF Init, Findable, StopNotMissed
<1> QED
  BY <1>1, NextFindable, Invariant, PTL DEF Spec

\* Whatever the order of stop, its reads of server_fd, and the stores of start: an
\* accept is never slept in after running has been cleared, unless a caller of
\* stop is about to shut the socket down.
THEOREM NoStopMissed == Spec => []StopNotMissed
<1>1. Init => Findable /\ StopNotMissed
  BY DEF Init, Findable, StopNotMissed
<1> QED
  BY <1>1, NextFindable, Invariant, PTL DEF Spec
=============================================================================
