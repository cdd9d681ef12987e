------------------------- MODULE ConnectionService -------------------------
(***************************************************************************)
(* What the TCP server promises its clients, without descriptors, threads, *)
(* contexts, or the fields of struct tcp_server: connections come in while *)
(* it is open, which it is once; they are taken one at a time and each is  *)
(* served or dropped; one that is served lasts until its peer has left or  *)
(* the server has been told to end; and only then does the server shut.    *)
(*                                                                         *)
(* Module TcpServer implements this specification (see Service there).     *)
(***************************************************************************)

CONSTANT Clients

VARIABLES
  phase,  \* "new", then "open", then "shut"
  ended,  \* the server has been told to end, or could not begin
  conn,   \* the connection of each client
  left    \* the clients that have left a connection still taken or served

vars == <<phase, ended, conn, left>>

Becomes(c, state) == conn' = [conn EXCEPT ![c] = state]

Init ==
  /\ phase = "new" /\ ended = FALSE
  /\ conn = [c \in Clients |-> "away"] /\ left = {}

Open ==
  /\ phase = "new" /\ phase' = "open"
  /\ UNCHANGED <<ended, conn, left>>

GiveUp ==
  /\ phase = "new" /\ phase' = "shut"
  /\ ended' = TRUE
  /\ UNCHANGED <<conn, left>>

Arrive(c) ==
  /\ phase = "open" /\ conn[c] = "away"
  /\ Becomes(c, "queued")
  /\ UNCHANGED <<phase, ended, left>>

\* Connections are taken one at a time.
Take(c) ==
  /\ phase = "open" /\ conn[c] = "queued"
  /\ \A d \in Clients : conn[d] # "taken"
  /\ Becomes(c, "taken")
  /\ UNCHANGED <<phase, ended, left>>

Serve(c) ==
  /\ conn[c] = "taken"
  /\ Becomes(c, "served")
  /\ UNCHANGED <<phase, ended, left>>

\* There is no memory or no thread for it.
Drop(c) ==
  /\ conn[c] = "taken"
  /\ Becomes(c, "away") /\ left' = left \ {c}
  /\ UNCHANGED <<phase, ended>>

Leave(c) ==
  /\ conn[c] \in {"taken", "served"} /\ c \notin left
  /\ left' = left \cup {c}
  /\ UNCHANGED <<phase, ended, conn>>

\* No client is cut off while it stays and the server goes on.
Release(c) ==
  /\ conn[c] = "served"
  /\ c \in left \/ ended
  /\ Becomes(c, "away") /\ left' = left \ {c}
  /\ UNCHANGED <<phase, ended>>

End ==
  /\ phase # "new" /\ ended' = TRUE
  /\ UNCHANGED <<phase, conn, left>>

\* The server does not shut of its own accord, and never opens again.
Shut ==
  /\ phase = "open" /\ ended
  /\ phase' = "shut"
  /\ UNCHANGED <<ended, conn, left>>

Next ==
  \/ Open \/ GiveUp \/ End \/ Shut
  \/ \E c \in Clients :
       \/ Arrive(c) \/ Take(c) \/ Serve(c) \/ Drop(c) \/ Leave(c) \/ Release(c)

Spec == Init /\ [][Next]_vars
=============================================================================
