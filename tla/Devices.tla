------------------------------- MODULE Devices -------------------------------
(***************************************************************************)
(* server/devices.c: one device and the operations on it.  A device is a   *)
(* record                                                                  *)
(*   type      device type; "unknown" comes only from a hand-written file  *)
(*   password  what CONNECT and CHPASS compare                             *)
(*   coop      identity.coop_id                                            *)
(*   power     "ON", "OFF", or "-" for the types without a power state     *)
(*   cfg       the settings of the type, keyed as on the wire and on disk, *)
(*             in thousandths of their unit; what is finer is left out     *)
(* Sensor readings, egg counts, units, heater mode and schedules are       *)
(* abstracted: no command changes them (SETCFG hands a feeder or a drinker *)
(* its own schedule, and a heater its own mode).                           *)
(* A definition named X_y is X with a mistake y, for the mutation runs.    *)
(***************************************************************************)
EXTENDS Config, Tables

CONSTANTS
  DeviceIds,        \* device identifiers
  Passwords,        \* passwords
  DefaultPassword,  \* "123456"
  Shadowed          \* d -> the NOW actions whose word occurs inside the id d

PoweredTypes == {"fan", "heater", "sprayer", "feeder", "drinker"}
KnownTypes == PoweredTypes \cup {"sensor", "egg_counter"}
DeviceTypes == KnownTypes \cup {"unknown"}

Actions == {"ON", "OFF", "FEED_NOW", "DRINK_NOW", "SPRAY_NOW"}
NowActions == Actions \ {"ON", "OFF"}
Powers == {"ON", "OFF", "-"}

ASSUME DevicesAssumption ==
  /\ DefaultPassword \in Passwords
  /\ Shadowed \in [DeviceIds -> SUBSET NowActions]

\* The settings of each type.
Settings ==
  [t \in DeviceTypes |->
     CASE t = "fan"     -> {"toc_do"}
       [] t = "heater"  -> {"nhiet_do_bat_c", "nhiet_do_tat_c"}
       [] t = "sprayer" -> {"do_am_bat_pct", "do_am_muc_tieu_pct", "luu_luong_lph"}
       [] t = "feeder"  -> {"thuc_an_kg", "nuoc_l"}
       [] t = "drinker" -> {"nuoc_l"}
       [] OTHER         -> {}]

\* The values each setting accepts (the LIMIT_ enum; speed 1..3 for a fan).
FanSpeeds == 1000 .. 3000
LIMIT_TEMP_MAX_C == 60000
LIMIT_HUM_MAX_PCT == 100000
LIMIT_SPRAY_MAX_LPH == 10000
LIMIT_FEED_MAX_KG == 10000
LIMIT_WATER_MAX_L == 20000

Limit ==
  [toc_do |-> FanSpeeds,
   nhiet_do_bat_c |-> 0 .. LIMIT_TEMP_MAX_C, nhiet_do_tat_c |-> 0 .. LIMIT_TEMP_MAX_C,
   do_am_bat_pct |-> 0 .. LIMIT_HUM_MAX_PCT, do_am_muc_tieu_pct |-> 0 .. LIMIT_HUM_MAX_PCT,
   luu_luong_lph |-> 0 .. LIMIT_SPRAY_MAX_LPH, thuc_an_kg |-> 0 .. LIMIT_FEED_MAX_KG,
   nuoc_l |-> 0 .. LIMIT_WATER_MAX_L]

\* Thresholds are ordered: switch-on below switch-off or target.
Ordered(t, cfg) ==
  /\ t = "heater" => cfg["nhiet_do_bat_c"] <= cfg["nhiet_do_tat_c"]
  /\ t = "sprayer" => cfg["do_am_bat_pct"] <= cfg["do_am_muc_tieu_pct"]

IsDevice(dev) ==
  dev \in [type : DeviceTypes, password : Passwords, coop : 1 .. IntMax,
           power : IF dev.type \in PoweredTypes THEN {"ON", "OFF"} ELSE {"-"},
           cfg : [Settings[dev.type] -> Int]]

\* t is a table of devices by id.
IsDevices(t) ==
  /\ DOMAIN t \subseteq DeviceIds
  /\ \A d \in DOMAIN t : IsDevice(t[d])

\* The settings of a device are ones its commands would accept.
InRange(dev) ==
  /\ \A k \in DOMAIN dev.cfg : dev.cfg[k] \in Limit[k]
  /\ Ordered(dev.type, dev.cfg)

(***************************************************************************)
(* init_sensor ... init_drinker and devices_init_default_device.           *)
(***************************************************************************)
DefaultSetting(t, k) ==
  CASE k = "toc_do" -> 2000
    [] k = "nhiet_do_bat_c" -> 20000
    [] k = "nhiet_do_tat_c" -> 24000
    [] k = "do_am_bat_pct" -> 45000
    [] k = "do_am_muc_tieu_pct" -> 60000
    [] k = "luu_luong_lph" -> 500
    [] k = "thuc_an_kg" -> 300
    [] k = "nuoc_l" -> IF t = "feeder" THEN 500 ELSE 400

DefaultPower(t) ==
  CASE t \in {"fan", "feeder", "drinker"} -> "ON"
    [] t \in {"heater", "sprayer"} -> "OFF"
    [] OTHER -> "-"

NewDevice(t, pw, coop) ==
  [type |-> t, password |-> pw, coop |-> coop, power |-> DefaultPower(t),
   cfg |-> [k \in Settings[t] |-> DefaultSetting(t, k)]]

(***************************************************************************)
(* CONTROL.  A payload is the table of the numbers in the JSON object that *)
(* follows the action word: empty when there is none or it does not parse. *)
(* The handler looks for the word with strstr, from the start of the       *)
(* arguments: an id that contains the word hides the payload.              *)
(***************************************************************************)
PayloadOf(id, action, payload) ==
  IF action \in Shadowed[id] THEN EmptyTable ELSE payload

NowSettings ==
  [FEED_NOW |-> {"thuc_an_kg", "nuoc_l"}, DRINK_NOW |-> {"nuoc_l"},
   SPRAY_NOW |-> {"luu_luong_lph"}]
NowType ==
  [FEED_NOW |-> "feeder", DRINK_NOW |-> "drinker", SPRAY_NOW |-> "sprayer"]

\* devices_feed_now, devices_drink_now, devices_spray_now accept p.
NowAccepted(dev, action, p) ==
  /\ dev.type = NowType[action]
  /\ NowSettings[action] \subseteq DOMAIN p
  /\ \A k \in NowSettings[action] : p[k] \in Limit[k]

ControlAccepted_anyType(dev, action, p) ==
  action \in NowActions => NowAccepted(dev, action, p)
ControlAccepted(dev, action, p) ==
  IF action \in NowActions THEN NowAccepted(dev, action, p)
                           ELSE dev.type \in PoweredTypes

Controlled(dev, action, p) ==
  IF action \in NowActions
  THEN [dev EXCEPT
          !.cfg = [k \in DOMAIN dev.cfg |->
                     IF k \in NowSettings[action] THEN p[k] ELSE dev.cfg[k]],
          !.power = IF action = "SPRAY_NOW" THEN "ON" ELSE dev.power]
  ELSE [dev EXCEPT !.power = action]

(***************************************************************************)
(* SETCFG: every setting of the type must be given.  The fan speed is read *)
(* as an int: its fraction is dropped, toward zero, before the range check.*)
(***************************************************************************)
IntPart(v) == IF v >= 0 THEN (v \div 1000) * 1000 ELSE -(((-v) \div 1000) * 1000)

Given(t, p) ==
  [k \in Settings[t] |-> IF k = "toc_do" THEN IntPart(p[k]) ELSE p[k]]

SetCfgAccepted_unordered(dev, p) ==
  /\ Settings[dev.type] # {}
  /\ Settings[dev.type] \subseteq DOMAIN p
  /\ \A k \in Settings[dev.type] : Given(dev.type, p)[k] \in Limit[k]

SetCfgAccepted(dev, p) ==
  /\ Settings[dev.type] # {}
  /\ Settings[dev.type] \subseteq DOMAIN p
  /\ \A k \in Settings[dev.type] : Given(dev.type, p)[k] \in Limit[k]
  /\ Ordered(dev.type, Given(dev.type, p))

Configured(dev, p) == [dev EXCEPT !.cfg = Given(dev.type, p)]

(***************************************************************************)
(* CHPASS, ADD.                                                            *)
(***************************************************************************)
devices_change_password(dev, new_pw) == [dev EXCEPT !.password = new_pw]

\* Whether devices_add succeeds: there is a slot, and the id is new.
CanAddDevice(devices, id) ==
  /\ Cardinality(DOMAIN devices) < MaxDevices
  /\ id \notin DOMAIN devices
=============================================================================
