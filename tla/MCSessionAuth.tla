---------------------------- MODULE MCSessionAuth ----------------------------
(***************************************************************************)
(* SessionAuth with a small session table, for TLC.  MaxCoops and IntMax   *)
(* are declared by Config and play no part.                                *)
(***************************************************************************)
EXTENDS SessionAuth
=============================================================================
