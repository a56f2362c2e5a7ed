----------------------------- MODULE MCCoopLogic -----------------------------
(***************************************************************************)
(* Constants for the model-checking runs of CoopLogic.                     *)
(***************************************************************************)
EXTENDS CoopLogic

\* No id contains an action word; or "FEED_NOW_2" contains FEED_NOW.
NoShadow == [d \in DeviceIds |-> {}]
FeedShadow == [d \in DeviceIds |-> IF d = "FEED_NOW_2" THEN {"FEED_NOW"} ELSE {}]

\* What the next step depends on: no step reads the last answer.
WithoutAnswer == <<up, g_coops, g_devices, sessions, disk, clock>>

(***************************************************************************)
(* Payloads.  One that a fan takes; and for each type the bounds of each   *)
(* setting, a value beyond each and one that is saved as the bound, one    *)
(* half way between two that can be saved, fractions of a speed,           *)
(* thresholds in the wrong order, and a missing setting.                   *)
(***************************************************************************)
Speed == {[toc_do |-> 3000]}

EdgePayloads ==
  {EmptyTable} \cup
  {[toc_do |-> v] : v \in {999, 1500, 3999, 4000}} \cup
  {[nhiet_do_bat_c |-> p[1], nhiet_do_tat_c |-> p[2]] :
     p \in {<<-1, 0>>, <<0, 0>>, <<0, 60001>>, <<12345, 0>>, <<12345, 59998>>, <<59996, 59998>>}}
  \cup
  {[do_am_bat_pct |-> p[1], do_am_muc_tieu_pct |-> p[2], luu_luong_lph |-> p[3]] :
     p \in {<<0, 0, 10001>>, <<0, 100001, 10000>>, <<100000, 99996, 10000>>,
            <<0, 99996, 10000>>, <<99995, 99996, 10000>>}} \cup
  {[thuc_an_kg |-> v, nuoc_l |-> 20000] : v \in {0, 10001}} \cup
  {[nuoc_l |-> v] : v \in {-1, 0, 20001}}

(***************************************************************************)
(* Files written by hand.                                                  *)
(***************************************************************************)
Handmade(t, pw, coop, power, cfg) ==
  [type |-> t, password |-> pw, coop |-> coop, power |-> power, cfg |-> cfg]

\* More coops than MaxCoops = 2, one without a name, one with the reserved name,
\* one whose id is refused.
ManyHandCoops ==
  {[id |-> 1, name |-> "0"], [id |-> 2, name |-> Missing],
   [id |-> 5, name |-> "North"], [id |-> 0, name |-> "North"]}

\* More devices than MaxDevices = 1, one under a coop that is refused: a fan with an
\* absurd speed, a heater without one of its thresholds, one of no known type.
ManyHandDevices ==
  {[id |-> "c", entry |-> Handmade("sensor", "123456", 0, "-", EmptyTable)],
   [id |-> "c", entry |-> Handmade("fan", Missing, 1, Missing, [toc_do |-> 5000])],
   [id |-> "c", entry |-> Handmade("unknown", "123456", 5, "ON", EmptyTable)],
   [id |-> "b", entry |-> Handmade("heater", Missing, 2, "ON", [nhiet_do_tat_c |-> 30000])]}
=============================================================================
