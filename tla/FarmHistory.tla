----------------------------- MODULE FarmHistory -----------------------------
(***************************************************************************)
(* CoopLogic with one history variable: the devices that a person has      *)
(* added to farm_state.json by hand since the server was last started.     *)
(***************************************************************************)
EXTENDS CoopLogic

VARIABLE hand

HInit == Init /\ hand = {}

HNext ==
  \/ Server /\ hand' = (IF up' THEN hand ELSE {})
  \/ Tick /\ UNCHANGED hand
  \/ HandWritesCoop /\ UNCHANGED hand
  \/ HandAddsDevice /\ hand' = hand \cup (DOMAIN disk'.devices \ DOMAIN disk.devices)

HSpec == HInit /\ [][HNext]_<<vars, hand>>

\* After a SCAN the devices a person added to the file are in memory, as long as
\* the table has room (coop_logic.c:106).
ScanLoadsHandEdits ==
  [][reply' \in {"DEVICE", "NO_DEVICE_SCAN"} /\ Cardinality(DOMAIN g_devices') < MaxDevices =>
       hand \subseteq DOMAIN g_devices']_<<vars, hand>>
=============================================================================
