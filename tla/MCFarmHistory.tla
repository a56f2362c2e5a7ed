---------------------------- MODULE MCFarmHistory ----------------------------
(***************************************************************************)
(* Constants for the model-checking run of FarmHistory.                    *)
(***************************************************************************)
EXTENDS FarmHistory

NoShadow == [d \in DeviceIds |-> {}]
Speed == {[toc_do |-> 3000]}
OneHandDevice ==
  {[id |-> "b", entry |-> [type |-> "fan", password |-> "123456", coop |-> 1,
                           power |-> "ON", cfg |-> [toc_do |-> 1000]]]}
=============================================================================
