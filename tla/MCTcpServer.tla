---------------------------- MODULE MCTcpServer ----------------------------
(***************************************************************************)
(* Instances of TcpServer for TLC.  With three descriptors the listening   *)
(* socket, two clients and the other files of the process compete for      *)
(* numbers: the table fills up and numbers are used again at once.         *)
(***************************************************************************)
EXTENDS TcpServer, TLC

ServerSymmetry == Permutations(Clients) \cup Permutations(Stoppers)
=============================================================================
