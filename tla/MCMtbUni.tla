------------------------------- MODULE MCMtbUni -------------------------------
(***************************************************************************)
(* Instance of MtbUni: two clients, one output, and room for two commands  *)
(* at MTB-USB.                                                             *)
(***************************************************************************)
EXTENDS MtbUni

CONSTANTS c1, c2

MCSockets == {c1, c2}
MCPorts   == {0}
MCValues  == {0, 1}
=============================================================================
