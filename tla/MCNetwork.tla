------------------------------ MODULE MCNetwork ------------------------------
(***************************************************************************)
(* Network for TLC.  MaxCoops and IntMax are declared by Config and play   *)
(* no part.                                                                *)
(***************************************************************************)
EXTENDS Network
=============================================================================
