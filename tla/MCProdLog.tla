------------------------------ MODULE MCProdLog ------------------------------
(***************************************************************************)
(* Instance of ProdLog: two messages of history, two of future, and enough *)
(* of them for three files, two of which may be opened in one second.      *)
(***************************************************************************)
EXTENDS ProdLog

MCSeconds == 1..2
=============================================================================
