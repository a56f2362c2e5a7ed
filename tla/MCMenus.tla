------------------------------- MODULE MCMenus -------------------------------
(***************************************************************************)
(* Constants for the model-checking run of Menus.                          *)
(***************************************************************************)
EXTENDS Menus

NoShadow == [d \in DeviceIds |-> {}]

\* No payload, the drink a drinker starts with, and one beyond the limit.
Drinks == {EmptyTable, [nuoc_l |-> 400], [nuoc_l |-> 20001]}

\* A device whose type no menu registers in this run.
HandSensor ==
  {[id |-> "b", entry |-> [type |-> "sensor", password |-> "123456", coop |-> 1,
                           power |-> "-", cfg |-> EmptyTable]]}

SymmetricUsers == Permutations(Users)
=============================================================================
