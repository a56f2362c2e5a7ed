------------------------------- MODULE Storage -------------------------------
(***************************************************************************)
(* server/storage.c: the farm on disk, farm_state.json.  A file is a       *)
(* record                                                                  *)
(*   status   "absent", "ok", or "corrupt" (not a JSON object with a       *)
(*            "coops" array: what a truncated write leaves)                *)
(*   coops    the coops it lists, from id to name                          *)
(*   devices  the devices listed under them, from id to entry; an entry is *)
(*            a device whose coop is the one it is listed under, whose     *)
(*            password, power and settings may be missing                  *)
(* json_string() refuses text that is not UTF-8, and the save leaves out   *)
(* what it could not build: a name, a password, or a whole device when it  *)
(* is its id.  Which of the coops or devices of a file get the last slots  *)
(* of a table depends on their order in the file, which is abstracted.     *)
(* A definition named X_y is X with a mistake y, for the mutation runs.    *)
(***************************************************************************)
EXTENDS Coops, Devices

CONSTANTS
  Missing,   \* a member the JSON object does not have
  NonJson,   \* names, passwords and ids that are not UTF-8
  TiesUp     \* settings half way between two numbers of four digits, saved as the upper

ASSUME StorageAssumption == Missing \notin Names /\ Missing \notin Passwords

\* A device in the file: anything may be missing but its id, type and coop.
IsEntry(entry) ==
  entry \in [type : DeviceTypes, password : Passwords \cup {Missing}, coop : Int,
             power : Powers \cup {Missing}, cfg : [DOMAIN entry.cfg -> Int]]

\* f is a file as storage.c and the people who edit it write it.
IsFile(f) ==
  /\ f \in [status : {"absent", "ok", "corrupt"}, coops : {f.coops}, devices : {f.devices}]
  /\ \A i \in DOMAIN f.coops :
       i \in Int /\ i <= IntMax /\ f.coops[i] \in CoopNames \cup {Missing}
  /\ \A d \in DOMAIN f.devices :
       d \in DeviceIds /\ IsEntry(f.devices[d]) /\ f.devices[d].coop <= IntMax

NoFile == [status |-> "absent", coops |-> EmptyTable, devices |-> EmptyTable]
Truncated == [status |-> "corrupt", coops |-> EmptyTable, devices |-> EmptyTable]

Written(s) == IF s \in NonJson THEN Missing ELSE s

(***************************************************************************)
(* JSON_REAL_PRECISION(4): a setting is written with four significant      *)
(* digits.  Grain(v) is what the fourth of them counts, in thousandths.    *)
(* Which way a number half way between two goes depends on the double      *)
(* nearest to it (12.345 goes up): TiesUp says.  A fan's speed is written  *)
(* as an integer, but 1000, 2000 and 3000 have no fifth digit to lose.     *)
(***************************************************************************)
Size(v) == IF v < 0 THEN -v ELSE v

Numbers == {v \in Int : Size(v) < 1000000}   \* bound: the numbers of a payload or a file

Grain(v) ==
  CASE Size(v) < 10000 -> 1
    [] Size(v) >= 10000 /\ Size(v) < 100000 -> 10
    [] OTHER -> 100

Rounded(v) ==
  LET rest == v % Grain(v) IN
    IF 2 * rest > Grain(v) \/ (2 * rest = Grain(v) /\ v \in TiesUp)
    THEN v - rest + Grain(v)
    ELSE v - rest

(***************************************************************************)
(* storage_save_farm builds this and truncates the file to write it.       *)
(* Devices are listed under their coop: one whose coop is not in the table *)
(* is not written at all.                                                  *)
(***************************************************************************)
SavedDevice_noPower(dev) ==
  [type |-> dev.type, password |-> Written(dev.password), coop |-> dev.coop,
   power |-> Missing, cfg |-> [k \in DOMAIN dev.cfg |-> Rounded(dev.cfg[k])]]
SavedDevice(dev) ==
  [type |-> dev.type, password |-> Written(dev.password), coop |-> dev.coop,
   power |-> dev.power, cfg |-> [k \in DOMAIN dev.cfg |-> Rounded(dev.cfg[k])]]

Saveable(coops, devices) ==
  {d \in DOMAIN devices : devices[d].coop \in DOMAIN coops.name /\ d \notin NonJson}

storage_save_farm(coops, devices) ==
  [status |-> "ok",
   coops |-> [i \in DOMAIN coops.name |-> Written(coops.name[i])],
   devices |-> [d \in Saveable(coops, devices) |-> SavedDevice(devices[d])]]

(***************************************************************************)
(* parse_device_info_object: a missing number is 0, except that the speed  *)
(* of a fan becomes 2 when it is missing or not in 1..3; nothing else is   *)
(* checked.  Any power state but "ON" is "OFF".                            *)
(***************************************************************************)
LoadedSetting_anySpeed(entry, k) ==
  CASE k = "toc_do" -> IF k \in DOMAIN entry.cfg THEN IntPart(entry.cfg[k]) ELSE 2000
    [] OTHER -> IF k \in DOMAIN entry.cfg THEN entry.cfg[k] ELSE 0
LoadedSetting(entry, k) ==
  CASE k = "toc_do" ->
         IF k \in DOMAIN entry.cfg /\ IntPart(entry.cfg[k]) \in Limit[k]
         THEN IntPart(entry.cfg[k]) ELSE 2000
    [] OTHER -> IF k \in DOMAIN entry.cfg THEN entry.cfg[k] ELSE 0

LoadedDevice_noPassword(entry) ==
  [type |-> entry.type, password |-> DefaultPassword, coop |-> entry.coop,
   power |-> CASE entry.type \notin PoweredTypes -> "-"
               [] OTHER -> IF entry.power = "ON" THEN "ON" ELSE "OFF",
   cfg |-> [k \in Settings[entry.type] |-> LoadedSetting(entry, k)]]
LoadedDevice(entry) ==
  [type |-> entry.type,
   password |-> IF entry.password = Missing THEN DefaultPassword ELSE entry.password,
   coop |-> entry.coop,
   power |-> CASE entry.type \notin PoweredTypes -> "-"
               [] OTHER -> IF entry.power = "ON" THEN "ON" ELSE "OFF",
   cfg |-> [k \in Settings[entry.type] |-> LoadedSetting(entry, k)]]

\* A coop without a name, or named "" or "0", gets the default one.
LoadedName(file, id) ==
  IF file.coops[id] \in {Missing, "", "0"} THEN DefaultName(id) ELSE file.coops[id]

\* Coops without a positive id are skipped, with the devices under them.
ListedCoops(file) == {i \in DOMAIN file.coops : i > 0}
ListedDevices(file) == {d \in DOMAIN file.devices : file.devices[d].coop > 0}

(***************************************************************************)
(* storage_load_farm: -1 unless the file is readable; else one of these    *)
(* farms.  A coop that finds no room is dropped, but the devices under it  *)
(* are loaded all the same.                                                *)
(***************************************************************************)
Readable(file) == file.status = "ok"

storage_load_farm(file) ==
  {[coops |-> c, devices |-> [d \in D |-> LoadedDevice(file.devices[d])]] :
     c \in Upserted(coops_init, [i \in ListedCoops(file) |-> LoadedName(file, i)]),
     D \in Admitted({}, ListedDevices(file), MaxDevices)}
=============================================================================
