------------------------------- MODULE MCAccess -------------------------------
(***************************************************************************)
(* Constants for the model-checking run of Access.                         *)
(***************************************************************************)
EXTENDS Access

NoShadow == [d \in DeviceIds |-> {}]
Speed == {[toc_do |-> 3000]}

\* A person writes the coop, and a fan under an id that a client may also have added,
\* with other settings.
OneHandCoop == {[id |-> 1, name |-> "North"]}
HandFan ==
  {[id |-> "b", entry |-> [type |-> "fan", password |-> "pw", coop |-> 1,
                           power |-> "ON", cfg |-> [toc_do |-> 1000]]]}

\* What the next step depends on: no step reads the last answer or who got it.
WithoutAnswer == <<up, g_coops, g_devices, sessions, disk, clock, logins>>

SymmetricClients == Permutations(Clients)
=============================================================================
