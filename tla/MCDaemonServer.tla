---------------------------- MODULE MCDaemonServer ----------------------------
(***************************************************************************)
(* Instance of DaemonServer: one connection, as connections share nothing  *)
(* here, with enough lines for an invalid one between two requests and a   *)
(* segment after them.                                                     *)
(***************************************************************************)
EXTENDS DaemonServer

CONSTANT c1

MCClients == {c1}
=============================================================================
