-------------------------------- MODULE Farm --------------------------------
(***************************************************************************)
(* What the server promises of the farm it keeps, whatever happens to its  *)
(* process: coops and devices change only while it is up, by one command   *)
(* at a time; stopping it changes nothing but the settings, to numbers of  *)
(* four significant digits, and starting it changes nothing.               *)
(*   - a coop is added under an id above every id in use, and no coop is   *)
(*     ever renumbered, renamed or removed;                                *)
(*   - a device is added to a coop that exists, moved to one that exists,  *)
(*     or altered without being moved or changing type; never removed.     *)
(* The next state is described by what it keeps, not by where the new      *)
(* values come from.                                                       *)
(***************************************************************************)
EXTENDS Tables

\* Table u is table t as a file keeps it: every setting is off by at most half of
\* its fourth significant digit.
Distance(v, w) == IF v <= w THEN w - v ELSE v - w

Stored(t, u) ==
  /\ DOMAIN u = DOMAIN t
  /\ \A d \in DOMAIN t :
       /\ u[d] = [t[d] EXCEPT !.cfg = u[d].cfg]
       /\ DOMAIN u[d].cfg = DOMAIN t[d].cfg
       /\ \A k \in DOMAIN t[d].cfg :
            2000 * Distance(t[d].cfg[k], u[d].cfg[k]) <= Distance(0, t[d].cfg[k])

VARIABLES up, coops, devices

Init == up = FALSE /\ coops = EmptyTable /\ devices = EmptyTable

AddCoop ==
  /\ UNCHANGED devices
  /\ \E i \in DOMAIN coops' \ DOMAIN coops :
       /\ \A j \in DOMAIN coops : j < i
       /\ coops' = With(coops, i, coops'[i])

AddDevice ==
  /\ UNCHANGED coops
  /\ \E d \in DOMAIN devices' \ DOMAIN devices :
       /\ devices'[d].coop \in DOMAIN coops
       /\ devices' = With(devices, d, devices'[d])

Move(d) ==
  /\ devices'[d].coop \in DOMAIN coops
  /\ devices' = With(devices, d, [devices[d] EXCEPT !.coop = devices'[d].coop])

Alter(d) ==
  /\ devices'[d].type = devices[d].type
  /\ devices'[d].coop = devices[d].coop
  /\ devices' = With(devices, d, devices'[d])

Command ==
  /\ up /\ up'
  /\ \/ AddCoop
     \/ AddDevice
     \/ /\ UNCHANGED coops
        /\ DOMAIN devices' = DOMAIN devices
        /\ \E d \in DOMAIN devices : Move(d) \/ Alter(d)

Stop == up /\ ~up' /\ UNCHANGED coops /\ Stored(devices, devices')
Start == ~up /\ up' /\ UNCHANGED <<coops, devices>>

Next == Command \/ Stop \/ Start

Spec == Init /\ [][Next]_<<up, coops, devices>>
=============================================================================
