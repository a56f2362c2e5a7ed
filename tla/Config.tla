------------------------------- MODULE Config -------------------------------
(***************************************************************************)
(* The sizes fixed at build time by shared/config.h, and the width of the  *)
(* C int that numbers the coops.  Every other module is parameterised by   *)
(* these three constants.                                                  *)
(***************************************************************************)
EXTENDS Integers

CONSTANTS
  MaxDevices,   \* MAX_DEVICES: device table, session table and connections
  MaxCoops,     \* MAX_COOPS: coop table
  IntMax        \* INT_MAX: largest coop id

ASSUME ConfigAssumption ==
  /\ MaxDevices \in Nat \ {0}
  /\ MaxCoops \in Nat \ {0}
  /\ IntMax \in Nat
  /\ IntMax > MaxCoops

\* The value that INT_MAX + 1 wraps to.
IntMin == -IntMax - 1
=============================================================================
