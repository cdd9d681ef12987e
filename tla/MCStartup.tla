----------------------------- MODULE MCStartup -----------------------------
(***************************************************************************)
(* An instance of Startup for TLC.                                         *)
(***************************************************************************)
EXTENDS Startup, TLC

\* The processes are alike.
MCSymmetry == Permutations(Processes)
=============================================================================
