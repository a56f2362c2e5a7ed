------------------------- MODULE CoopLogicFarmProofs -------------------------
(***************************************************************************)
(* The farm that CoopLogic keeps, for every value of its constants: what   *)
(* COOP_ADD and SCAN promise, the settings of the devices, what a save and *)
(* a load make of the farm, and the refinement of module Farm.             *)
(***************************************************************************)
EXTENDS CoopLogicProofs

(***************************************************************************)
(* Adding a coop, and scanning.                                            *)
(***************************************************************************)

\* Only a COOP_ADD that added a coop answers COOPADD_OK, and only a SCAN lists devices
\* (coop_logic.c:125, 139).
LEMMA ReplyShape ==
  ASSUME Next
  PROVE  /\ reply' = "COOPADD_OK" => CoopAdded
         /\ reply' \in {"DEVICE", "NO_DEVICE_SCAN"} => Scan
<1> DEFINE Elsewhere == reply' \notin {"COOPADD_OK", "DEVICE", "NO_DEVICE_SCAN"}
<1> DEFINE Others == {"BAD_REQUEST", "NO_DEVICE", "WRONG_PASSWORD", "NOT_CONNECTED",
                      "CONNECT_OK", "INFO_OK", "BYE_OK", "CONTROL_OK", "SETCFG_OK",
                      "PASS_OK", "ADD_OK", "ASSIGN_OK", "COOP", "NO_COOP", "-"}
<1>a. ASSUME NEW c, NEW t, NEW code, SaveThenAnswer(c, t, code)
      PROVE  \/ reply' = "-"
             \/ reply' = code /\ g_coops' = c /\ g_devices' = t /\ UNCHANGED <<up, sessions>>
  BY <1>a DEF SaveThenAnswer, Dies
<1>b. \A code \in Others : Answer(code) => Elsewhere
  BY DEF Answer
<1>c. \A d : \A code \in Others : Rejected(d, code) => Elsewhere
  BY DEF Rejected, Answer
<1>d. \A d, token : Refused(token, d) => Elsewhere
  BY DEF Refused, Answer
<1>e. ASSUME NEW c, NEW t, NEW code \in Others, SaveThenAnswer(c, t, code)
      PROVE  Elsewhere
  BY <1>a, <1>e
<1>f. \A d, coop : AssignRefusal(d, coop) \in Others
  BY DEF AssignRefusal
<1>1. CASE Malformed \/ CoopList
  BY <1>1, <1>b DEF Malformed, CoopList
<1>2. ASSUME NEW name \in Names \cup {""}, CoopAdd(name)
      PROVE  Elsewhere \/ (reply' = "COOPADD_OK" /\ CoopAdded)
  <2>1. CASE Answer("BAD_REQUEST")
    BY <2>1, <1>b
  <2>2. ASSUME CanAddCoop(g_coops, name), NEW coops \in coops_add(g_coops, name),
               SaveThenAnswer(coops, g_devices, "COOPADD_OK")
        PROVE  Elsewhere \/ (reply' = "COOPADD_OK" /\ CoopAdded)
    <3>1. name \in Names
      BY <2>2 DEF CanAddCoop
    <3> QED
      BY <1>a, <2>2, <3>1 DEF CoopAdded
  <2> QED
    BY <1>2, <2>1, <2>2 DEF CoopAdd
<1>3. ASSUME NEW d \in DeviceIds, DeviceCommand(d) PROVE Elsewhere
  <2> HIDE DEF Elsewhere
  <2>1. ASSUME NEW pw, Connect(d, pw) PROVE Elsewhere
    BY <2>1, <1>b, <1>c DEF Connect, Elsewhere
  <2>2. ASSUME NEW token, Info(d, token) \/ Bye(d, token) PROVE Elsewhere
    BY <2>2, <1>b, <1>c, <1>d DEF Info, Bye, Elsewhere
  <2>3. ASSUME NEW token, NEW action, NEW p, Control(d, token, action, p) PROVE Elsewhere
    BY <2>3, <1>e, <1>c, <1>d DEF Control
  <2>4. ASSUME NEW token, NEW p, SetCfg(d, token, p) PROVE Elsewhere
    BY <2>4, <1>e, <1>c, <1>d DEF SetCfg
  <2>5. ASSUME NEW token, NEW old_pw, NEW new_pw, ChPass(d, token, old_pw, new_pw)
        PROVE  Elsewhere
    BY <2>5, <1>e, <1>c, <1>d DEF ChPass
  <2>6. ASSUME NEW type, NEW pw, NEW coop, AddDevice(d, type, pw, coop) PROVE Elsewhere
    BY <2>6, <1>e, <1>b DEF AddDevice
  <2>7. ASSUME NEW coop, Assign(d, coop) PROVE Elsewhere
    BY <2>7, <1>e, <1>b, <1>f DEF Assign
  <2> QED
    BY <1>3, <2>1, <2>2, <2>3, <2>4, <2>5, <2>6, <2>7 DEF DeviceCommand
<1>4. CASE Start \/ Crash \/ Tick \/ HandWritesCoop \/ HandAddsDevice
  BY <1>4 DEF Start, Crash, Dies, Tick, HandWritesCoop, HandAddsDevice, HandEdit
<1>5. CASE Scan
  BY <1>5 DEF Scan
<1> QED
  BY <1>1, <1>2, <1>3, <1>4, <1>5 DEF Next, Server, DeviceCommand

\* As long as no coop is numbered INT_MAX, a COOP_ADD that is answered with COOPADD_OK
\* takes an id that no coop has, through any merges and restarts before it
\* (coops.h:40, coops.c:39).
THEOREM AddsAreFresh == Spec => CoopAddFreshBelowMax
<1> DEFINE Fresh ==
      reply' = "COOPADD_OK" /\ IntMax \notin DOMAIN g_coops.name =>
        \E i \in DOMAIN g_coops'.name \ DOMAIN g_coops.name :
          DOMAIN g_coops'.name = DOMAIN g_coops.name \cup {i}
<1>1. TypeOK /\ NextIdFresh /\ [Next]_vars => [Fresh]_vars
  <2> SUFFICES ASSUME TypeOK, NextIdFresh, Next,
                      reply' = "COOPADD_OK", IntMax \notin DOMAIN g_coops.name
               PROVE  \E i \in DOMAIN g_coops'.name \ DOMAIN g_coops.name :
                        DOMAIN g_coops'.name = DOMAIN g_coops.name \cup {i}
    OBVIOUS
  <2>1. PICK name \in Names : g_coops' \in coops_add(g_coops, name)
    BY ReplyShape DEF CoopAdded
  <2>2. IsCoops(g_coops) /\ \A i \in DOMAIN g_coops.name : i < g_coops.next
    BY DEF TypeOK, NextIdFresh
  <2>3. DOMAIN g_coops'.name = DOMAIN g_coops.name \cup {new_coop_id(g_coops)}
    BY <2>1, <2>2, CoopsAddType
  <2>4. new_coop_id(g_coops) \notin DOMAIN g_coops.name
    BY <2>2 DEF new_coop_id, IsCoops, CoopIds, IntMin
  <2> QED
    BY <2>3, <2>4
<1> QED
  BY <1>1, TypeCorrect, NextIdAlwaysFresh, PTL DEF Spec, CoopAddFreshBelowMax

\* An upsert takes every coop of the table, or fills up; what it takes has the name
\* the table gives it (coops.c:23).
LEMMA UpsertTakes ==
  ASSUME NEW c, NEW t, NEW r \in Upserted(c, t)
  PROVE  /\ DOMAIN c.name \subseteq DOMAIN r.name
         /\ DOMAIN r.name \subseteq DOMAIN c.name \cup DOMAIN t
         /\ DOMAIN t \subseteq DOMAIN r.name \/ Cardinality(DOMAIN r.name) = MaxCoops
         /\ Cardinality(DOMAIN r.name) <= MaxCoops
         /\ \A i \in DOMAIN r.name : i \in DOMAIN t => r.name[i] = t[i]
         /\ \A i \in DOMAIN r.name : i \notin DOMAIN t => r.name[i] = c.name[i]
<1>1. PICK S \in Admitted(DOMAIN c.name, DOMAIN t, MaxCoops) :
        \E n \in Bump(c.next, (DOMAIN c.name \cap DOMAIN t) \cup S) :
          r = [name |-> [i \in DOMAIN c.name \cup S |->
                           IF i \in DOMAIN t THEN t[i] ELSE c.name[i]],
               next |-> n]
  BY DEF Upserted
<1>2. r.name = [i \in DOMAIN c.name \cup S |-> IF i \in DOMAIN t THEN t[i] ELSE c.name[i]]
  BY <1>1
<1>3. /\ S \in SUBSET (DOMAIN t \ DOMAIN c.name)
      /\ Cardinality(DOMAIN c.name \cup S) <= MaxCoops
      /\ S # DOMAIN t \ DOMAIN c.name => Cardinality(DOMAIN c.name \cup S) = MaxCoops
  BY DEF Admitted
<1>4. DOMAIN r.name = DOMAIN c.name \cup S
  BY <1>2
<1> QED
  BY <1>2, <1>3, <1>4

\* So does a load (storage.c:337).
LEMMA LoadTakes ==
  ASSUME NEW f, NEW farm \in storage_load_farm(f)
  PROVE  /\ DOMAIN farm.coops.name \subseteq ListedCoops(f)
         /\ \/ ListedCoops(f) \subseteq DOMAIN farm.coops.name
            \/ Cardinality(DOMAIN farm.coops.name) = MaxCoops
         /\ \A i \in DOMAIN farm.coops.name : farm.coops.name[i] = LoadedName(f, i)
         /\ DOMAIN farm.devices \subseteq ListedDevices(f)
         /\ \/ ListedDevices(f) \subseteq DOMAIN farm.devices
            \/ Cardinality(DOMAIN farm.devices) = MaxDevices
         /\ \A d \in DOMAIN farm.devices : farm.devices[d] = LoadedDevice(f.devices[d])
<1> DEFINE named == [i \in ListedCoops(f) |-> LoadedName(f, i)]
<1>1. PICK c \in Upserted(coops_init, named), D \in Admitted({}, ListedDevices(f), MaxDevices) :
        farm = [coops |-> c, devices |-> [d \in D |-> LoadedDevice(f.devices[d])]]
  BY DEF storage_load_farm
<1>2. DOMAIN named = ListedCoops(f) /\ \A i \in ListedCoops(f) : named[i] = LoadedName(f, i)
  OBVIOUS
<1>3. DOMAIN coops_init.name = {}
  BY DEF coops_init, EmptyTable
<1>4. farm.coops = c /\ farm.devices = [d \in D |-> LoadedDevice(f.devices[d])]
  BY <1>1
<1> HIDE DEF named
<1>5. /\ DOMAIN c.name \subseteq DOMAIN named
      /\ DOMAIN named \subseteq DOMAIN c.name \/ Cardinality(DOMAIN c.name) = MaxCoops
      /\ \A i \in DOMAIN c.name : i \in DOMAIN named => c.name[i] = named[i]
  BY <1>3, UpsertTakes
<1>6. /\ D \in SUBSET ListedDevices(f)
      /\ ListedDevices(f) \subseteq D \/ Cardinality(D) = MaxDevices
  <2>1. {} \cup D = D /\ ListedDevices(f) \ {} = ListedDevices(f)
    OBVIOUS
  <2> QED
    BY <2>1 DEF Admitted
<1> QED
  BY <1>2, <1>4, <1>5, <1>6

\* Nothing is left outside a part as large as the whole.
LEMMA WholePart ==
  ASSUME NEW T, NEW S \in SUBSET T, IsFiniteSet(T), NEW n \in Nat,
         Cardinality(S) = n, Cardinality(T) <= n
  PROVE  S = T
<1>1. /\ Cardinality(S) \in Nat /\ Cardinality(T) \in Nat
      /\ Cardinality(S) <= Cardinality(T)
      /\ Cardinality(S) = Cardinality(T) => S = T
  BY FS_Subset, FS_CardinalityType
<1>2. Cardinality(S) = Cardinality(T)
  BY <1>1
<1> QED
  BY <1>1, <1>2

\* After a SCAN everything the file lists is in memory, unless the table is full, and
\* every coop it names has the name it gives (coop_logic.c:21).
THEOREM ScansAreComplete == Spec => []ScanComplete
<1>1. Init => ScanComplete
  BY DEF Init, ScanComplete
<1>2. TypeOK /\ Capacity' /\ FiniteTables /\ FiniteTables' /\ ScanComplete /\ [Next]_vars
        => ScanComplete'
  <2> SUFFICES ASSUME TypeOK, Capacity', FiniteTables, FiniteTables', Next,
                      reply' \in {"DEVICE", "NO_DEVICE_SCAN"}, disk'.status = "ok"
               PROVE  ScanComplete'
    BY DEF ScanComplete, vars
  <2>1. Scan /\ disk' = disk
    BY ReplyShape DEF Scan
  <2>2. PICK farm \in storage_load_farm(disk) :
          /\ g_coops' \in Upserted(g_coops, farm.coops.name)
          /\ g_devices' \in MergedDevices(g_devices, farm.devices)
    BY <2>1 DEF Scan, merge_farm_from_disk, Readable
  <2>3. /\ IsFile(disk) /\ MaxCoops \in Nat /\ MaxDevices \in Nat
        /\ IsFiniteSet(ListedCoops(disk))
    <3>1. IsFiniteSet(CoopIds)
      BY ConfigAssumption, FS_Interval DEF CoopIds
    <3>2. ListedCoops(disk) \in SUBSET CoopIds
      BY ListedNames DEF TypeOK
    <3> QED
      BY <3>1, <3>2, FS_Subset, ConfigAssumption DEF TypeOK
  <2>4. /\ DOMAIN farm.coops.name \subseteq DOMAIN g_coops'.name
           \/ Cardinality(DOMAIN g_coops'.name) = MaxCoops
        /\ Cardinality(DOMAIN g_coops'.name) <= MaxCoops
        /\ \A i \in DOMAIN g_coops'.name :
             i \in DOMAIN farm.coops.name => g_coops'.name[i] = farm.coops.name[i]
    BY <2>2, UpsertTakes
  <2>5. /\ DOMAIN farm.coops.name \subseteq ListedCoops(disk)
        /\ \/ ListedCoops(disk) \subseteq DOMAIN farm.coops.name
           \/ Cardinality(DOMAIN farm.coops.name) = MaxCoops
        /\ \A i \in DOMAIN farm.coops.name : farm.coops.name[i] = LoadedName(disk, i)
        /\ \/ ListedDevices(disk) \subseteq DOMAIN farm.devices
           \/ Cardinality(DOMAIN farm.devices) = MaxDevices
    BY LoadTakes
  <2>6. \/ ListedCoops(disk) \subseteq DOMAIN g_coops'.name
        \/ Cardinality(DOMAIN g_coops'.name) = MaxCoops
    <3> SUFFICES ASSUME DOMAIN farm.coops.name \subseteq DOMAIN g_coops'.name,
                        Cardinality(DOMAIN farm.coops.name) = MaxCoops
                 PROVE  Cardinality(DOMAIN g_coops'.name) = MaxCoops
      BY <2>4, <2>5
    <3>1. IsFiniteSet(DOMAIN g_coops'.name)
      <4>1. IsCoops(farm.coops) /\ IsCoops(g_coops)
        BY <2>3, LoadType DEF TypeOK
      <4>2. IsCoops(g_coops')
        BY <2>2, <4>1, UpsertedType DEF IsCoops
      <4> QED
        BY <4>2, CoopsFinite
    <3>2. DOMAIN farm.coops.name = DOMAIN g_coops'.name
      BY <2>3, <2>4, <3>1, WholePart
    <3> QED
      BY <3>2
  <2>7. \/ ListedDevices(disk) \subseteq DOMAIN g_devices'
        \/ Cardinality(DOMAIN g_devices') = MaxDevices
    <3>1. PICK S \in Admitted(DOMAIN g_devices, DOMAIN farm.devices, MaxDevices) :
            g_devices' = Appended(g_devices, farm.devices, S)
      BY <2>2 DEF MergedDevices
    <3>2. DOMAIN g_devices' = DOMAIN g_devices \cup S
      BY <3>1 DEF Appended
    <3>3. \/ DOMAIN farm.devices \subseteq DOMAIN g_devices'
          \/ Cardinality(DOMAIN g_devices') = MaxDevices
      BY <3>2 DEF Admitted
    <3> SUFFICES ASSUME DOMAIN farm.devices \subseteq DOMAIN g_devices',
                        Cardinality(DOMAIN farm.devices) = MaxDevices
                 PROVE  Cardinality(DOMAIN g_devices') = MaxDevices
      BY <2>5, <3>3
    <3>4. DOMAIN farm.devices = DOMAIN g_devices'
      BY <2>3, WholePart DEF Capacity, FiniteTables
    <3> QED
      BY <3>4
  <2>8. ASSUME Cardinality(ListedCoops(disk)) <= MaxCoops,
               NEW i \in ListedCoops(disk) \cap DOMAIN g_coops'.name
        PROVE  g_coops'.name[i] = LoadedName(disk, i)
    <3>1. ListedCoops(disk) = DOMAIN farm.coops.name
      <4>1. CASE Cardinality(DOMAIN farm.coops.name) = MaxCoops
        BY <2>3, <2>5, <2>8, <4>1, WholePart
      <4> QED
        BY <2>5, <4>1
    <3> QED
      BY <2>4, <2>5, <3>1
  <2> QED
    BY <2>1, <2>6, <2>7, <2>8 DEF ScanComplete
<1> QED
  BY <1>1, <1>2, TypeCorrect, FiniteAndFit, PTL DEF Spec

(***************************************************************************)
(* Settings.  The file has to be in range as well: a SCAN or a start takes *)
(* what it says (storage.c:126).                                           *)
(***************************************************************************)
FileInRange == \A d \in ListedDevices(disk) : InRange(LoadedDevice(disk.devices[d]))

\* A default is a value that SETCFG accepts (devices.c:367).
LEMMA DefaultInLimit ==
  ASSUME NEW t \in DeviceTypes, NEW k \in Settings[t]
  PROVE  DefaultSetting(t, k) \in Limit[k]
<1>1. k \in {"toc_do", "nhiet_do_bat_c", "nhiet_do_tat_c", "do_am_bat_pct",
             "do_am_muc_tieu_pct", "luu_luong_lph", "thuc_an_kg", "nuoc_l"}
  BY SMT DEF Settings, DeviceTypes, KnownTypes, PoweredTypes
<1>2. CASE k = "toc_do"
  BY <1>2, SMT DEF DefaultSetting, Limit, FanSpeeds
<1>3. CASE k = "nhiet_do_bat_c"
  BY <1>3, SMT DEF DefaultSetting, Limit, LIMIT_TEMP_MAX_C
<1>4. CASE k = "nhiet_do_tat_c"
  BY <1>4, SMT DEF DefaultSetting, Limit, LIMIT_TEMP_MAX_C
<1>5. CASE k = "do_am_bat_pct"
  BY <1>5, SMT DEF DefaultSetting, Limit, LIMIT_HUM_MAX_PCT
<1>6. CASE k = "do_am_muc_tieu_pct"
  BY <1>6, SMT DEF DefaultSetting, Limit, LIMIT_HUM_MAX_PCT
<1>7. CASE k = "luu_luong_lph"
  BY <1>7, SMT DEF DefaultSetting, Limit, LIMIT_SPRAY_MAX_LPH
<1>8. CASE k = "thuc_an_kg"
  BY <1>8, SMT DEF DefaultSetting, Limit, LIMIT_FEED_MAX_KG
<1>9. CASE k = "nuoc_l"
  BY <1>9, SMT DEF DefaultSetting, Limit, LIMIT_WATER_MAX_L
<1> QED
  BY <1>1, <1>2, <1>3, <1>4, <1>5, <1>6, <1>7, <1>8, <1>9

\* The defaults are in range (devices.c:367).
LEMMA NewInRange ==
  ASSUME NEW t \in DeviceTypes, NEW pw, NEW coop
  PROVE  InRange(NewDevice(t, pw, coop))
<1>1. /\ NewDevice(t, pw, coop).type = t
      /\ NewDevice(t, pw, coop).cfg = [k \in Settings[t] |-> DefaultSetting(t, k)]
  BY DEF NewDevice
<1>2. \A k \in Settings[t] : DefaultSetting(t, k) \in Limit[k]
  BY DefaultInLimit
<1>3. /\ t = "heater" => {"nhiet_do_bat_c", "nhiet_do_tat_c"} \subseteq Settings[t]
      /\ t = "sprayer" => {"do_am_bat_pct", "do_am_muc_tieu_pct"} \subseteq Settings[t]
  BY DEF Settings
<1>4. Ordered(t, [k \in Settings[t] |-> DefaultSetting(t, k)])
  BY <1>3 DEF Ordered, DefaultSetting
<1> QED
  BY <1>1, <1>2, <1>4 DEF InRange

\* Such a number is saved as it is (storage.c:316).
LEMMA LimitsAreRound ==
  \A top \in LimitTops : top \in Nat /\ top <= 100000 /\ Rounded(top) = top
<1>1. Grain(10000) = 10 /\ Grain(20000) = 10 /\ Grain(60000) = 10 /\ Grain(100000) = 100
  BY SMT DEF Grain, Size
<1>2. 10000 % 10 = 0 /\ 20000 % 10 = 0 /\ 60000 % 10 = 0 /\ 100000 % 100 = 0
  BY SMT
<1>3. /\ Rounded(10000) = 10000 /\ Rounded(20000) = 20000 /\ Rounded(60000) = 60000
      /\ Rounded(100000) = 100000
  BY <1>1, <1>2, SMT DEF Rounded
<1> QED
  BY <1>3, SMT DEF LimitTops, LIMIT_TEMP_MAX_C, LIMIT_HUM_MAX_PCT, LIMIT_SPRAY_MAX_LPH,
                   LIMIT_FEED_MAX_KG, LIMIT_WATER_MAX_L

\* So rounding stays in the limits.
LEMMA RoundedInLimit ==
  ASSUME NEW k \in DOMAIN Limit, k # "toc_do", NEW v \in Limit[k]
  PROVE  v \in Nat /\ v <= 100000 /\ Rounded(v) \in Limit[k]
<1>1. PICK top \in LimitTops : Limit[k] = 0 .. top
  BY LimitShape
<1>2. top \in Nat /\ top <= 100000 /\ Rounded(top) = top
  BY LimitsAreRound
<1>3. v \in Nat /\ v <= top /\ v <= 100000
  BY <1>1, <1>2, SMT
<1>4. Rounded(v) \in Int /\ Rounded(0) = 0 /\ Rounded(0) <= Rounded(v)
  BY <1>3, RoundedInt, RoundedFour, RoundedOrdered, SMT DEF Size
<1>5. Rounded(v) <= Rounded(top)
  BY <1>2, <1>3, RoundedOrdered, SMT
<1> QED
  BY <1>1, <1>2, <1>3, <1>4, <1>5, SMT

\* A device as the file keeps it: with rounded settings.
AsStored(dev) == [dev EXCEPT !.cfg = [k \in DOMAIN dev.cfg |-> Rounded(dev.cfg[k])]]

StoredTable(t) == [d \in DOMAIN t |-> AsStored(t[d])]

\* It is a device with the same words and coop, ...
LEMMA StoredType ==
  ASSUME NEW dev, IsDevice(dev)
  PROVE  /\ IsDevice(AsStored(dev))
         /\ AsStored(dev) = [dev EXCEPT !.cfg = AsStored(dev).cfg]
         /\ AsStored(dev).type = dev.type /\ AsStored(dev).coop = dev.coop
         /\ DOMAIN AsStored(dev).cfg = DOMAIN dev.cfg
         /\ \A k \in DOMAIN dev.cfg :
              dev.cfg[k] \in Int /\ AsStored(dev).cfg[k] = Rounded(dev.cfg[k])
<1>1. PICK cfg : cfg = [k \in DOMAIN dev.cfg |-> Rounded(dev.cfg[k])]
  OBVIOUS
<1>2. \A k \in DOMAIN dev.cfg : dev.cfg[k] \in Int
  BY DEF IsDevice
<1>3. cfg \in [Settings[dev.type] -> Int]
  BY <1>1, <1>2, RoundedInt DEF IsDevice
<1>4. AsStored(dev) = [dev EXCEPT !.cfg = cfg]
  BY <1>1 DEF AsStored
<1>5. AsStored(dev).cfg = cfg
  BY <1>4 DEF IsDevice
<1> QED
  BY <1>1, <1>2, <1>3, <1>4, <1>5 DEF IsDevice

\* ... whose fan, if it is one, keeps its speed, ...
LEMMA StoredSpeedWhole ==
  ASSUME NEW dev, IsDevice(dev), WholeSpeed(dev)
  PROVE  WholeSpeed(AsStored(dev))
<1>1. \A v \in {1000, 2000, 3000} : Rounded(v) = v
  BY RoundedFour, SMT DEF Size
<1>2. "toc_do" \in Settings["fan"]
  BY DEF Settings, DeviceTypes, KnownTypes, PoweredTypes
<1> QED
  BY <1>1, <1>2, StoredType DEF WholeSpeed, IsDevice

\* ... in range if it was, ...
LEMMA StoredInRange ==
  ASSUME NEW dev, IsDevice(dev), InRange(dev)
  PROVE  InRange(AsStored(dev))
<1>1. PICK cfg : cfg = AsStored(dev).cfg
  OBVIOUS
<1>2. /\ DOMAIN cfg = DOMAIN dev.cfg
      /\ \A k \in DOMAIN dev.cfg : cfg[k] = Rounded(dev.cfg[k])
      /\ AsStored(dev).type = dev.type
  BY <1>1, StoredType
<1>3. DOMAIN dev.cfg = Settings[dev.type] /\ dev.type \in DeviceTypes
  BY DEF IsDevice
<1>4. \A k \in DOMAIN dev.cfg : dev.cfg[k] \in Limit[k]
  BY DEF InRange
<1>5. \A k \in DOMAIN dev.cfg : k \in DOMAIN Limit
  BY <1>3 DEF Settings, Limit, DeviceTypes, KnownTypes, PoweredTypes
<1>6. ASSUME NEW k \in DOMAIN cfg PROVE cfg[k] \in Limit[k]
  <2>1. CASE k # "toc_do"
    BY <1>2, <1>4, <1>5, <1>6, <2>1, RoundedInLimit
  <2>2. CASE k = "toc_do"
    <3>1. PICK v : v = dev.cfg[k]
      OBVIOUS
    <3>2. v \in FanSpeeds
      BY <1>2, <1>4, <1>6, <2>2, <3>1, LimitShape
    <3>3. v \in Int /\ Size(v) < 10000
      BY <3>2, SMT DEF Size, FanSpeeds
    <3>4. Rounded(dev.cfg[k]) = dev.cfg[k]
      BY <3>1, <3>2, <3>3, RoundedFour
    <3> QED
      BY <1>2, <1>4, <1>6, <3>4
  <2> QED
    BY <2>1, <2>2
<1>7. Ordered(dev.type, cfg)
  <2>1. ASSUME NEW k \in DOMAIN cfg, NEW l \in DOMAIN cfg, k # "toc_do", l # "toc_do",
               dev.cfg[k] <= dev.cfg[l]
        PROVE  cfg[k] <= cfg[l]
    <3>1. /\ dev.cfg[k] \in Nat /\ dev.cfg[l] \in Nat
          /\ dev.cfg[l] <= 100000
      BY <1>2, <1>4, <1>5, <2>1, RoundedInLimit
    <3>2. Rounded(dev.cfg[k]) <= Rounded(dev.cfg[l])
      BY <2>1, <3>1, RoundedOrdered
    <3> QED
      BY <1>2, <3>2
  <2>2. /\ dev.type = "heater" => {"nhiet_do_bat_c", "nhiet_do_tat_c"} \subseteq DOMAIN cfg
        /\ dev.type = "sprayer" => {"do_am_bat_pct", "do_am_muc_tieu_pct"} \subseteq DOMAIN cfg
    BY <1>2, <1>3 DEF Settings, DeviceTypes, KnownTypes, PoweredTypes
  <2>3. Ordered(dev.type, dev.cfg)
    BY DEF InRange
  <2> QED
    BY <2>1, <2>2, <2>3 DEF Ordered
<1> QED
  BY <1>1, <1>2, <1>6, <1>7 DEF InRange

\* ... and stored again it stays the same.
LEMMA StoredTwice ==
  ASSUME NEW dev, IsDevice(dev)
  PROVE  AsStored(AsStored(dev)) = AsStored(dev)
<1>1. PICK a, b : a = AsStored(dev) /\ b = AsStored(a)
  OBVIOUS
<1>2. IsDevice(a) /\ IsDevice(b)
  BY <1>1, StoredType
<1>3. DOMAIN b.cfg = DOMAIN a.cfg /\ \A k \in DOMAIN a.cfg : b.cfg[k] = a.cfg[k]
  BY <1>1, <1>2, StoredType, RoundedTwice
<1>4. b.cfg = a.cfg
  BY <1>2, <1>3 DEF IsDevice
<1>5. b = [a EXCEPT !.cfg = b.cfg]
  BY <1>1, <1>2, StoredType
<1>6. b = a
  BY <1>2, <1>4, <1>5 DEF IsDevice
<1> QED
  BY <1>1, <1>6

\* What is saved is read back in range (storage.c:143).
LEMMA SavedInRange ==
  ASSUME NEW dev, IsDevice(dev), InRange(dev)
  PROVE  InRange(LoadedDevice(SavedDevice(dev)))
<1>1. PICK cfg : cfg = [k \in Settings[dev.type] |-> LoadedSetting(SavedDevice(dev), k)]
  OBVIOUS
<1>2. /\ LoadedDevice(SavedDevice(dev)).type = dev.type
      /\ LoadedDevice(SavedDevice(dev)).cfg = cfg
  BY <1>1 DEF LoadedDevice, SavedDevice
<1>3. PICK stored : stored = AsStored(dev)
  OBVIOUS
<1>4. /\ IsDevice(stored) /\ InRange(stored)
      /\ stored.type = dev.type /\ stored.cfg = SavedDevice(dev).cfg
  BY <1>3, StoredType, StoredInRange DEF AsStored, SavedDevice, IsDevice
<1>5. DOMAIN stored.cfg = Settings[dev.type] /\ dev.type \in DeviceTypes
  BY <1>4 DEF IsDevice
<1>6. /\ \A k \in Settings[dev.type] : k # "toc_do" => cfg[k] = stored.cfg[k]
      /\ \A k \in Settings[dev.type] : k = "toc_do" => cfg[k] \in Limit[k]
  <2>1. ASSUME NEW k \in Settings[dev.type]
        PROVE  /\ cfg[k] = LoadedSetting(SavedDevice(dev), k)
               /\ DOMAIN SavedDevice(dev).cfg = Settings[dev.type]
               /\ SavedDevice(dev).cfg[k] = stored.cfg[k]
    BY <1>1, <1>4, <1>5, <2>1
  <2>2. 2000 \in FanSpeeds /\ Limit["toc_do"] = FanSpeeds
    BY LimitShape, SMT DEF FanSpeeds
  <2> QED
    BY <2>1, <2>2 DEF LoadedSetting
<1>7. \A k \in DOMAIN cfg : cfg[k] \in Limit[k]
  BY <1>1, <1>4, <1>5, <1>6 DEF InRange
<1>8. Ordered(dev.type, cfg)
  <2>1. /\ dev.type = "heater" => {"nhiet_do_bat_c", "nhiet_do_tat_c"} \subseteq Settings[dev.type]
        /\ dev.type = "sprayer" => {"do_am_bat_pct", "do_am_muc_tieu_pct"} \subseteq Settings[dev.type]
    BY <1>5 DEF Settings, DeviceTypes, KnownTypes, PoweredTypes
  <2>2. Ordered(dev.type, stored.cfg)
    BY <1>4 DEF InRange
  <2> QED
    BY <1>6, <2>1, <2>2 DEF Ordered
<1> QED
  BY <1>2, <1>7, <1>8 DEF InRange

\* No command, merge or start brings a setting out of range into the memory.
LEMMA MemoryInRange ==
  ASSUME TypeOK, SettingsInRange, FileInRange, [Next]_vars
  PROVE  SettingsInRange'
<1> USE DEF SettingsInRange
<1>a. IsFile(disk) /\ \A d \in DOMAIN g_devices : IsDevice(g_devices[d])
  BY DEF TypeOK, IsDevices
<1>1. CASE g_devices' = g_devices
  BY <1>1
<1>2. CASE g_devices' = EmptyTable
  BY <1>2 DEF EmptyTable
<1>3. CASE DeviceAdded
  <2>1. PICK d \in DeviceIds, type \in NewTypes, pw \in Passwords, coop \in CoopArgs :
          g_devices' = With(g_devices, d, NewDevice(type, pw, coop))
    BY <1>3 DEF DeviceAdded
  <2>2. InRange(NewDevice(type, pw, coop))
    BY NewInRange, CoopLogicAssumption
  <2> QED
    BY <2>1, <2>2 DEF With
<1>4. CASE DeviceMoved
  <2>1. PICK d \in DOMAIN g_devices, coop \in CoopArgs :
          g_devices' = With(g_devices, d, [g_devices[d] EXCEPT !.coop = coop])
    BY <1>4 DEF DeviceMoved, CanAssign
  <2>2. PICK dev : dev = [g_devices[d] EXCEPT !.coop = coop]
    OBVIOUS
  <2>3. dev.type = g_devices[d].type /\ dev.cfg = g_devices[d].cfg
    BY <1>a, <2>2 DEF IsDevice
  <2>4. InRange(dev)
    BY <2>3 DEF InRange
  <2> QED
    BY <2>1, <2>2, <2>4 DEF With
<1>5. CASE DeviceAltered
  <2>1. PICK d \in DOMAIN g_devices :
          \E dev : /\ InRange(g_devices[d]) => InRange(dev)
                   /\ g_devices' = With(g_devices, d, dev)
    BY <1>5 DEF DeviceAltered
  <2> QED
    BY <2>1 DEF With
<1>6. ASSUME NEW farm \in storage_load_farm(disk)
      PROVE  \A d \in DOMAIN farm.devices : InRange(farm.devices[d])
  BY LoadTakes DEF FileInRange
<1>7. CASE Scan
  <2>1. ASSUME NEW farm \in storage_load_farm(disk),
               g_devices' \in MergedDevices(g_devices, farm.devices)
        PROVE  SettingsInRange'
    <3>1. PICK S \in Admitted(DOMAIN g_devices, DOMAIN farm.devices, MaxDevices) :
            g_devices' = Appended(g_devices, farm.devices, S)
      BY <2>1 DEF MergedDevices
    <3>2. S \subseteq DOMAIN farm.devices
      BY DEF Admitted
    <3> QED
      BY <1>6, <3>1, <3>2 DEF Appended
  <2> QED
    BY <1>1, <1>7, <2>1 DEF Scan, merge_farm_from_disk
<1>8. CASE Start
  BY <1>2, <1>6, <1>8 DEF Start, coop_logic_init
<1> QED
  BY <1>1, <1>2, <1>3, <1>4, <1>5, <1>7, <1>8, StepShape
  DEF Quiet, Dies, LoggedIn, LoggedOut, CoopAdded

\* Every device has settings that SETCFG or CONTROL would accept, whatever mix of
\* commands, saves that fail, crashes and restarts set them, if the devices that
\* people write in the file have (storage.c:126, 143).
THEOREM SettingsStayInRange ==
  ASSUME \A h \in HandDevices : h.entry.coop > 0 => InRange(LoadedDevice(h.entry))
  PROVE  Spec => []SettingsInRange
<1>1. Init => SettingsInRange /\ FileInRange
  BY DEF Init, SettingsInRange, FileInRange, ListedDevices, EmptyTable, NoFile
<1>2. TypeOK /\ TypeOK' /\ SettingsInRange /\ FileInRange /\ [Next]_vars
        => (SettingsInRange /\ FileInRange)'
  <2> SUFFICES ASSUME TypeOK, TypeOK', SettingsInRange, FileInRange, [Next]_vars
               PROVE  (SettingsInRange /\ FileInRange)'
    OBVIOUS
  <2>1. SettingsInRange'
    BY MemoryInRange
  <2>2. CASE disk' = disk
    BY <2>1, <2>2 DEF FileInRange
  <2>3. CASE disk' = Truncated
    BY <2>1, <2>3 DEF FileInRange, Truncated, EmptyTable, ListedDevices
  <2>4. CASE disk' = storage_save_farm(g_coops', g_devices')
    <3>1. \A d \in DOMAIN disk'.devices :
            /\ d \in DOMAIN g_devices'
            /\ disk'.devices[d] = SavedDevice(g_devices'[d])
      BY <2>4 DEF storage_save_farm, Saveable
    <3>2. \A d \in DOMAIN g_devices' : IsDevice(g_devices'[d]) /\ InRange(g_devices'[d])
      BY <2>1 DEF TypeOK, IsDevices, SettingsInRange
    <3> QED
      BY <2>1, <3>1, <3>2, SavedInRange DEF FileInRange, ListedDevices
  <2>5. CASE HandWritesCoop
    <3>1. disk'.devices = disk.devices
      BY <2>5 DEF HandWritesCoop, HandEdit, TypeOK, IsFile
    <3> QED
      BY <2>1, <3>1 DEF FileInRange, ListedDevices
  <2>6. CASE HandAddsDevice
    <3>1. PICK h \in HandDevices : disk'.devices = With(disk.devices, h.id, h.entry)
      BY <2>6 DEF HandAddsDevice, HandEdit, TypeOK, IsFile
    <3> QED
      BY <2>1, <3>1 DEF FileInRange, ListedDevices, With
  <2> QED
    BY <2>2, <2>3, <2>4, <2>5, <2>6, FileShape
<1> QED
  BY <1>1, <1>2, TypeCorrect, PTL DEF Spec

(***************************************************************************)
(* What a save and a load make of the farm.                                *)
(***************************************************************************)

\* Names, passwords and ids that JSON can hold, and no name that the load refuses.
PlainWords ==
  /\ "0" \notin Names
  /\ NonJson \cap (Names \cup Passwords \cup DeviceIds) = {}

\* Every coop has a name that somebody gave it, or its own default one.
NamedIn(names) ==
  \A i \in DOMAIN names : names[i] \in (Names \ {""}) \cup {DefaultName(i)}

FileNamed(f) ==
  \A i \in DOMAIN f.coops : f.coops[i] \in Names \cup {Missing, DefaultName(i)}

\* t is a table (a function) of devices whose fans have whole speeds.
WholeTable(t) ==
  /\ t = [x \in DOMAIN t |-> t[x]]
  /\ \A d \in DOMAIN t : WholeSpeed(t[d])

\* What the round trip asks of the tables, beside their types.
Tidy(c, t) == NamedIn(c.name) /\ WholeTable(t)

\* A load leaves names like these (storage.c:350).
LEMMA LoadNamed ==
  ASSUME NEW f, FileNamed(f), NEW farm \in storage_load_farm(f)
  PROVE  NamedIn(farm.coops.name)
<1> SUFFICES ASSUME NEW i \in DOMAIN farm.coops.name
             PROVE  farm.coops.name[i] \in (Names \ {""}) \cup {DefaultName(i)}
  BY DEF NamedIn
<1>1. i \in ListedCoops(f) /\ farm.coops.name[i] = LoadedName(f, i)
  BY LoadTakes
<1>2. f.coops[i] \in Names \cup {Missing, DefaultName(i)}
  BY <1>1 DEF ListedCoops, FileNamed
<1> QED
  BY <1>1, <1>2 DEF LoadedName

\* And speeds like these (storage.c:126).
LEMMA LoadedSpeedWhole ==
  ASSUME NEW e, IsEntry(e)
  PROVE  WholeSpeed(LoadedDevice(e))
<1> SUFFICES ASSUME e.type = "fan"
             PROVE  LoadedDevice(e).cfg["toc_do"] \in {1000, 2000, 3000}
  BY DEF WholeSpeed, LoadedDevice
<1>1. "toc_do" \in Settings["fan"]
  BY DEF Settings, DeviceTypes, KnownTypes, PoweredTypes
<1>2. LoadedDevice(e).cfg["toc_do"] = LoadedSetting(e, "toc_do")
  BY <1>1 DEF LoadedDevice
<1>3. CASE "toc_do" \in DOMAIN e.cfg /\ IntPart(e.cfg["toc_do"]) \in Limit["toc_do"]
  <2>1. PICK v \in Int : v = e.cfg["toc_do"]
    BY <1>3 DEF IsEntry
  <2>2. LoadedSetting(e, "toc_do") = IntPart(v)
    BY <1>3, <2>1 DEF LoadedSetting
  <2>3. IntPart(v) \in FanSpeeds
    BY <1>3, <2>1, LimitShape
  <2> QED
    BY <1>2, <2>2, <2>3, IntPartWhole
<1>4. CASE ~("toc_do" \in DOMAIN e.cfg /\ IntPart(e.cfg["toc_do"]) \in Limit["toc_do"])
  BY <1>2, <1>4 DEF LoadedSetting
<1> QED
  BY <1>3, <1>4

\* The names in the memory stay such names.
LEMMA MemoryNamed ==
  ASSUME TypeOK, NamedIn(g_coops.name), FileNamed(disk), [Next]_vars
  PROVE  NamedIn(g_coops'.name)
<1>1. CASE g_coops' = g_coops
  BY <1>1
<1>2. CASE g_coops' = coops_init
  BY <1>2 DEF coops_init, EmptyTable, NamedIn
<1>3. CASE CoopAdded
  <2>1. PICK name \in Names :
          CanAddCoop(g_coops, name) /\ g_coops' \in coops_add(g_coops, name)
    BY <1>3 DEF CoopAdded
  <2>2. g_coops'.name = With(g_coops.name, new_coop_id(g_coops), name)
    BY <2>1 DEF coops_add
  <2> QED
    BY <2>1, <2>2 DEF With, NamedIn, CanAddCoop
<1>4. CASE Scan
  <2>1. ASSUME NEW farm \in storage_load_farm(disk),
               g_coops' \in Upserted(g_coops, farm.coops.name)
        PROVE  NamedIn(g_coops'.name)
    <3>1. NamedIn(farm.coops.name)
      BY LoadNamed
    <3>2. /\ DOMAIN g_coops'.name \subseteq DOMAIN g_coops.name \cup DOMAIN farm.coops.name
          /\ \A i \in DOMAIN g_coops'.name :
               /\ i \in DOMAIN farm.coops.name => g_coops'.name[i] = farm.coops.name[i]
               /\ i \notin DOMAIN farm.coops.name => g_coops'.name[i] = g_coops.name[i]
      BY <2>1, UpsertTakes
    <3> QED
      BY <3>1, <3>2 DEF NamedIn
  <2> QED
    BY <1>1, <1>4, <2>1 DEF Scan, merge_farm_from_disk
<1>5. CASE Start
  <2>1. ASSUME NEW farm \in storage_load_farm(disk),
               g_coops' = sanitize_coop_names(farm.coops)
        PROVE  NamedIn(g_coops'.name)
    <3>1. NamedIn(farm.coops.name) /\ IsCoops(farm.coops)
      BY LoadNamed, LoadType DEF TypeOK
    <3>2. g_coops'.name = [i \in DOMAIN farm.coops.name |->
                             IF farm.coops.name[i] \in {"", "0"} THEN DefaultName(i)
                                                                 ELSE farm.coops.name[i]]
      BY <2>1, <3>1 DEF sanitize_coop_names, IsCoops
    <3> QED
      BY <3>1, <3>2 DEF NamedIn
  <2> QED
    BY <1>2, <1>5, <2>1 DEF Start, coop_logic_init
<1> QED
  BY <1>1, <1>2, <1>3, <1>4, <1>5, StepShape
  DEF Quiet, Dies, LoggedIn, LoggedOut, DeviceAdded, DeviceMoved, DeviceAltered

\* The devices in the memory stay a table of devices with such speeds.
LEMMA MemoryWhole ==
  ASSUME TypeOK, WholeTable(g_devices), [Next]_vars
  PROVE  WholeTable(g_devices')
<1>a. IsFile(disk) /\ \A d \in DOMAIN g_devices : IsDevice(g_devices[d])
  BY DEF TypeOK, IsDevices
<1>b. \A d \in DOMAIN g_devices : WholeSpeed(g_devices[d])
  BY DEF WholeTable
<1>c. ASSUME NEW d, NEW dev, WholeSpeed(dev), g_devices' = With(g_devices, d, dev)
      PROVE  WholeTable(g_devices')
  BY <1>c DEF With, WholeTable
<1>1. CASE g_devices' = g_devices
  BY <1>1
<1>2. CASE g_devices' = EmptyTable
  BY <1>2 DEF EmptyTable, WholeTable
<1>3. CASE DeviceAdded
  <2>1. PICK d \in DeviceIds, type \in NewTypes, pw \in Passwords, coop \in CoopArgs :
          g_devices' = With(g_devices, d, NewDevice(type, pw, coop))
    BY <1>3 DEF DeviceAdded
  <2>2. WholeSpeed(NewDevice(type, pw, coop))
    <3>1. "toc_do" \in Settings["fan"]
      BY DEF Settings, DeviceTypes, KnownTypes, PoweredTypes
    <3> QED
      BY <3>1 DEF WholeSpeed, NewDevice, DefaultSetting
  <2> QED
    BY <1>c, <2>1, <2>2
<1>4. CASE DeviceMoved
  <2>1. PICK d \in DOMAIN g_devices, coop \in CoopArgs :
          g_devices' = With(g_devices, d, [g_devices[d] EXCEPT !.coop = coop])
    BY <1>4 DEF DeviceMoved, CanAssign
  <2>2. PICK dev : dev = [g_devices[d] EXCEPT !.coop = coop]
    OBVIOUS
  <2>3. dev.type = g_devices[d].type /\ dev.cfg = g_devices[d].cfg
    BY <1>a, <2>2 DEF IsDevice
  <2>4. WholeSpeed(g_devices[d])
    BY <1>b
  <2>5. WholeSpeed(dev)
    BY <2>3, <2>4 DEF WholeSpeed
  <2> QED
    BY <1>c, <2>1, <2>2, <2>5
<1>5. CASE DeviceAltered
  <2>1. PICK d \in DOMAIN g_devices :
          \E dev : /\ WholeSpeed(g_devices[d]) => WholeSpeed(dev)
                   /\ g_devices' = With(g_devices, d, dev)
    BY <1>5 DEF DeviceAltered
  <2> QED
    BY <1>c, <1>b, <2>1
<1>6. ASSUME NEW farm \in storage_load_farm(disk)
      PROVE  WholeTable(farm.devices)
  <2>1. \A d \in DOMAIN farm.devices : WholeSpeed(farm.devices[d])
    <3> SUFFICES ASSUME NEW d \in DOMAIN farm.devices PROVE WholeSpeed(farm.devices[d])
      OBVIOUS
    <3>1. d \in DOMAIN disk.devices /\ farm.devices[d] = LoadedDevice(disk.devices[d])
      BY LoadTakes DEF ListedDevices
    <3> QED
      BY <1>a, <3>1, LoadedSpeedWhole DEF IsFile
  <2>2. PICK c \in Upserted(coops_init, [i \in ListedCoops(disk) |-> LoadedName(disk, i)]),
             D \in Admitted({}, ListedDevices(disk), MaxDevices) :
          farm = [coops |-> c, devices |-> [d \in D |-> LoadedDevice(disk.devices[d])]]
    BY DEF storage_load_farm
  <2>3. farm.devices = [d \in D |-> LoadedDevice(disk.devices[d])]
    BY <2>2
  <2> QED
    BY <2>1, <2>3 DEF WholeTable
<1>7. CASE Scan
  <2>1. ASSUME NEW farm \in storage_load_farm(disk),
               g_devices' \in MergedDevices(g_devices, farm.devices)
        PROVE  WholeTable(g_devices')
    <3>1. PICK S \in Admitted(DOMAIN g_devices, DOMAIN farm.devices, MaxDevices) :
            g_devices' = Appended(g_devices, farm.devices, S)
      BY <2>1 DEF MergedDevices
    <3>2. S \subseteq DOMAIN farm.devices
      BY DEF Admitted
    <3> QED
      BY <1>6, <3>1, <3>2 DEF Appended, WholeTable
  <2>2. CASE g_devices' = g_devices
    BY <2>2
  <2> QED
    BY <1>7, <2>1, <2>2 DEF Scan, merge_farm_from_disk
<1>8. CASE Start
  BY <1>2, <1>6, <1>8 DEF Start, coop_logic_init
<1> QED
  BY <1>1, <1>2, <1>3, <1>4, <1>5, <1>7, <1>8, StepShape
  DEF Quiet, Dies, LoggedIn, LoggedOut, CoopAdded

\* What the round trip asks holds all the time.
LEMMA AlwaysTidy == Spec => [](Tidy(g_coops, g_devices) /\ FileNamed(disk))
<1>1. Init => Tidy(g_coops, g_devices) /\ FileNamed(disk)
  BY DEF Init, Tidy, FileNamed, NamedIn, WholeTable, coops_init, EmptyTable, NoFile
<1>2. TypeOK /\ Tidy(g_coops, g_devices) /\ FileNamed(disk) /\ [Next]_vars
        => (Tidy(g_coops, g_devices) /\ FileNamed(disk))'
  <2> SUFFICES ASSUME TypeOK, Tidy(g_coops, g_devices), FileNamed(disk), [Next]_vars
               PROVE  Tidy(g_coops', g_devices') /\ FileNamed(disk')
    OBVIOUS
  <2>1. Tidy(g_coops', g_devices')
    BY MemoryNamed, MemoryWhole DEF Tidy
  <2>2. CASE disk' = disk
    BY <2>1, <2>2
  <2>3. CASE disk' = Truncated
    BY <2>1, <2>3 DEF FileNamed, Truncated, EmptyTable
  <2>4. CASE disk' = storage_save_farm(g_coops', g_devices')
    BY <2>1, <2>4 DEF storage_save_farm, Tidy, NamedIn, FileNamed, Written
  <2>5. CASE HandWritesCoop
    <3>1. PICK h \in HandCoops : disk'.coops = With(disk.coops, h.id, h.name)
      BY <2>5 DEF HandWritesCoop, HandEdit, TypeOK, IsFile
    <3>2. h.name \in Names \cup {Missing}
      BY CoopLogicAssumption
    <3> QED
      BY <2>1, <3>1, <3>2 DEF FileNamed, With
  <2>6. CASE HandAddsDevice
    <3>1. disk'.coops = disk.coops
      BY <2>6 DEF HandAddsDevice, HandEdit, TypeOK, IsFile
    <3> QED
      BY <2>1, <3>1 DEF FileNamed
  <2> QED
    BY <2>1, <2>2, <2>3, <2>4, <2>5, <2>6, FileShape
<1> QED
  BY <1>1, <1>2, TypeCorrect, PTL DEF Spec

\* A device comes back from the file as it was saved, with rounded settings
\* (storage.c:74, 160, 316).
LEMMA SavedIsLoaded ==
  ASSUME PlainWords, NEW dev, IsDevice(dev), WholeSpeed(dev)
  PROVE  LoadedDevice(SavedDevice(dev)) = AsStored(dev)
<1>1. PICK e, stored : e = SavedDevice(dev) /\ stored = AsStored(dev)
  OBVIOUS
<1>2. /\ e.type = dev.type /\ e.coop = dev.coop
      /\ e.power = dev.power /\ e.cfg = stored.cfg
      /\ e.password = dev.password
  BY <1>1 DEF SavedDevice, AsStored, Written, PlainWords, IsDevice
<1>3. /\ IsDevice(stored) /\ WholeSpeed(stored)
      /\ stored = [dev EXCEPT !.cfg = stored.cfg] /\ stored.type = dev.type
  BY <1>1, StoredType, StoredSpeedWhole
<1>4. dev.password # Missing
  BY StorageAssumption DEF IsDevice
<1>5. stored.cfg \in [Settings[dev.type] -> Int]
  BY <1>3 DEF IsDevice
<1>6. ASSUME NEW k \in Settings[dev.type]
      PROVE  LoadedSetting(e, k) = stored.cfg[k]
  <2>1. CASE k # "toc_do"
    BY <1>2, <1>5, <2>1 DEF LoadedSetting
  <2>2. CASE k = "toc_do"
    <3>1. stored.type = "fan"
      BY <1>3, <2>2 DEF Settings, DeviceTypes, KnownTypes, PoweredTypes, IsDevice
    <3>2. stored.cfg["toc_do"] \in {1000, 2000, 3000}
      BY <1>3, <3>1 DEF WholeSpeed
    <3>3. \A v \in {1000, 2000, 3000} : IntPart(v) = v /\ v \in FanSpeeds
      BY SMT DEF IntPart, FanSpeeds
    <3>4. /\ IntPart(stored.cfg["toc_do"]) = stored.cfg["toc_do"]
          /\ stored.cfg["toc_do"] \in Limit["toc_do"]
      BY <3>2, <3>3, LimitShape
    <3> QED
      BY <1>2, <1>5, <2>2, <3>4 DEF LoadedSetting
  <2> QED
    BY <2>1, <2>2
<1>7. [k \in Settings[dev.type] |-> LoadedSetting(e, k)] = stored.cfg
  BY <1>5, <1>6
<1>8. dev.power = CASE dev.type \notin PoweredTypes -> "-"
                    [] OTHER -> IF dev.power = "ON" THEN "ON" ELSE "OFF"
  BY DEF IsDevice
<1>9. LoadedDevice(e) = [type |-> dev.type, password |-> dev.password, coop |-> dev.coop,
                         power |-> dev.power, cfg |-> stored.cfg]
  BY <1>2, <1>4, <1>7, <1>8 DEF LoadedDevice
<1>10. stored = [type |-> dev.type, password |-> dev.password, coop |-> dev.coop,
                 power |-> dev.power, cfg |-> stored.cfg]
  BY <1>3 DEF IsDevice
<1> QED
  BY <1>1, <1>9, <1>10

\* A table of devices as the file keeps it is what module Farm allows, and stored
\* again it stays the same.
LEMMA StoredTables ==
  ASSUME NEW t, IsDevices(t)
  PROVE  Kept!Stored(t, StoredTable(t)) /\ StoredTable(StoredTable(t)) = StoredTable(t)
<1>1. PICK u : u = StoredTable(t)
  OBVIOUS
<1>2. DOMAIN u = DOMAIN t /\ \A d \in DOMAIN t : u[d] = AsStored(t[d]) /\ IsDevice(t[d])
  BY <1>1 DEF StoredTable, IsDevices
<1>3. Kept!Stored(t, u)
  <2>1. ASSUME NEW d \in DOMAIN t
        PROVE  /\ u[d] = [t[d] EXCEPT !.cfg = u[d].cfg]
               /\ DOMAIN u[d].cfg = DOMAIN t[d].cfg
               /\ \A k \in DOMAIN t[d].cfg :
                    t[d].cfg[k] \in Int /\ u[d].cfg[k] = Rounded(t[d].cfg[k])
    BY <1>2, <2>1, StoredType
  <2>2. ASSUME NEW d \in DOMAIN t, NEW k \in DOMAIN t[d].cfg
        PROVE  2000 * Kept!Distance(t[d].cfg[k], u[d].cfg[k]) <= Kept!Distance(0, t[d].cfg[k])
    <3>1. PICK v \in Int : v = t[d].cfg[k]
      BY <2>1
    <3>2. u[d].cfg[k] = Rounded(v) /\ Rounded(v) \in Int
      BY <2>1, <3>1, RoundedInt
    <3> QED
      BY <3>1, <3>2, RoundedNear
  <2> QED
    BY <1>2, <2>1, <2>2 DEF Kept!Stored
<1>4. StoredTable(u) = u
  <2>1. \A d \in DOMAIN u : AsStored(u[d]) = u[d]
    BY <1>2, StoredTwice
  <2>2. u = [d \in DOMAIN u |-> u[d]]
    BY <1>1 DEF StoredTable
  <2> QED
    BY <2>1, <2>2 DEF StoredTable
<1> QED
  BY <1>1, <1>3, <1>4

\* So does the name of a coop: what the file cannot hold is the default name, which
\* the load gives back (storage.c:281, 350).
LEMMA SavedNameIsLoaded ==
  ASSUME PlainWords, NEW c, NamedIn(c.name), NEW t, NEW i \in DOMAIN c.name
  PROVE  LoadedName(storage_save_farm(c, t), i) = c.name[i]
<1>1. storage_save_farm(c, t).coops[i] = Written(c.name[i])
  BY DEF storage_save_farm
<1>2. CASE c.name[i] \in Names \ {""}
  BY <1>1, <1>2, StorageAssumption DEF LoadedName, Written, PlainWords
<1>3. CASE c.name[i] = DefaultName(i)
  BY <1>1, <1>3 DEF LoadedName, Written
<1> QED
  BY <1>2, <1>3 DEF NamedIn

\* The tables are ones that a file can hold.
Keepable(c, t) ==
  /\ IsCoops(c) /\ IsDevices(t) /\ Tidy(c, t)
  /\ Cardinality(DOMAIN c.name) <= MaxCoops
  /\ IsFiniteSet(DOMAIN t) /\ Cardinality(DOMAIN t) <= MaxDevices
  /\ \A d \in DOMAIN t : t[d].coop \in DOMAIN c.name

\* The file lists all of them.
LEMMA SavedIsListed ==
  ASSUME PlainWords, NEW c, NEW t, Keepable(c, t), NEW f, f = storage_save_farm(c, t)
  PROVE  /\ ListedCoops(f) = DOMAIN c.name
         /\ ListedDevices(f) = DOMAIN t
         /\ \A d \in DOMAIN t : f.devices[d] = SavedDevice(t[d])
<1>1. DOMAIN f.coops = DOMAIN c.name /\ DOMAIN c.name \subseteq CoopIds
  BY DEF storage_save_farm, Keepable, IsCoops
<1>2. ListedCoops(f) = DOMAIN c.name
  BY <1>1, ConfigAssumption DEF ListedCoops, CoopIds
<1>3. \A d \in DOMAIN t : d \in DeviceIds /\ t[d].coop \in CoopIds
  BY <1>1 DEF Keepable, IsDevices
<1>4. Saveable(c, t) = DOMAIN t
  BY <1>3 DEF Saveable, PlainWords, Keepable
<1>5. f.devices = [d \in DOMAIN t |-> SavedDevice(t[d])]
  BY <1>4 DEF storage_save_farm
<1>6. \A d \in DOMAIN t : SavedDevice(t[d]).coop > 0
  BY <1>3, ConfigAssumption DEF SavedDevice, CoopIds
<1> QED
  BY <1>2, <1>5, <1>6 DEF ListedDevices

\* A load of what was saved gives it back, with rounded settings (storage.h:8).
LEMMA RoundTrip ==
  ASSUME PlainWords, NEW c, NEW t, Keepable(c, t),
         NEW farm \in storage_load_farm(storage_save_farm(c, t))
  PROVE  farm.coops.name = c.name /\ farm.devices = StoredTable(t)
<1>1. PICK f : f = storage_save_farm(c, t)
  OBVIOUS
<1>2. /\ ListedCoops(f) = DOMAIN c.name
      /\ ListedDevices(f) = DOMAIN t
      /\ \A d \in DOMAIN t : f.devices[d] = SavedDevice(t[d])
  BY <1>1, SavedIsListed
<1>3. /\ DOMAIN farm.coops.name \subseteq DOMAIN c.name
      /\ \/ DOMAIN c.name \subseteq DOMAIN farm.coops.name
         \/ Cardinality(DOMAIN farm.coops.name) = MaxCoops
      /\ \A i \in DOMAIN farm.coops.name : farm.coops.name[i] = LoadedName(f, i)
      /\ DOMAIN farm.devices \subseteq DOMAIN t
      /\ \/ DOMAIN t \subseteq DOMAIN farm.devices
         \/ Cardinality(DOMAIN farm.devices) = MaxDevices
      /\ \A d \in DOMAIN farm.devices : farm.devices[d] = LoadedDevice(f.devices[d])
  BY <1>1, <1>2, LoadTakes
<1>4. DOMAIN farm.coops.name = DOMAIN c.name
  <2>1. IsFiniteSet(DOMAIN c.name) /\ Cardinality(DOMAIN c.name) <= MaxCoops
    BY CoopsFinite DEF Keepable
  <2> QED
    BY <1>3, <2>1, WholePart, ConfigAssumption
<1>5. DOMAIN farm.devices = DOMAIN t
  <2>1. IsFiniteSet(DOMAIN t) /\ Cardinality(DOMAIN t) <= MaxDevices
    BY DEF Keepable
  <2> QED
    BY <1>3, <2>1, WholePart, ConfigAssumption
<1>6. farm.coops.name = c.name
  <2>1. IsFile(f)
    BY <1>1, SaveType DEF Keepable
  <2>2. farm.coops.name \in [DOMAIN farm.coops.name -> CoopNames]
    BY <1>1, <2>1, LoadType DEF IsCoops
  <2>3. c.name \in [DOMAIN c.name -> CoopNames]
    BY DEF Keepable, IsCoops
  <2>4. \A i \in DOMAIN c.name : LoadedName(f, i) = c.name[i]
    BY <1>1, SavedNameIsLoaded DEF Keepable, Tidy
  <2> QED
    BY <1>3, <1>4, <2>2, <2>3, <2>4
<1>7. farm.devices = StoredTable(t)
  <2>1. PICK C \in Upserted(coops_init, [i \in ListedCoops(f) |-> LoadedName(f, i)]),
             D \in Admitted({}, ListedDevices(f), MaxDevices) :
          farm = [coops |-> C, devices |-> [d \in D |-> LoadedDevice(f.devices[d])]]
    BY <1>1 DEF storage_load_farm
  <2>2. farm.devices = [d \in DOMAIN t |-> LoadedDevice(f.devices[d])]
    BY <1>5, <2>1
  <2>3. \A d \in DOMAIN t : LoadedDevice(f.devices[d]) = AsStored(t[d])
    <3> SUFFICES ASSUME NEW d \in DOMAIN t
                 PROVE  LoadedDevice(SavedDevice(t[d])) = AsStored(t[d])
      BY <1>2
    <3>1. IsDevice(t[d]) /\ WholeSpeed(t[d])
      BY DEF Keepable, IsDevices, Tidy, WholeTable
    <3> QED
      BY <3>1, SavedIsLoaded
  <2> QED
    BY <2>2, <2>3 DEF StoredTable
<1> QED
  BY <1>6, <1>7

\* What is in memory can be kept in a file all the time.
LEMMA AlwaysKeepable == ASSUME HandCoops = {} PROVE Spec => []Keepable(g_coops, g_devices)
<1>1. TypeOK /\ Capacity /\ FiniteTables /\ DevicesHoused
      /\ Tidy(g_coops, g_devices) /\ FileNamed(disk)
        => Keepable(g_coops, g_devices)
  <2> SUFFICES ASSUME TypeOK, Capacity, FiniteTables, DevicesHoused, Tidy(g_coops, g_devices)
               PROVE  Keepable(g_coops, g_devices)
    OBVIOUS
  <2>1. IsCoops(g_coops) /\ IsDevices(g_devices)
    BY DEF TypeOK
  <2>2. /\ Cardinality(DOMAIN g_coops.name) <= MaxCoops
        /\ Cardinality(DOMAIN g_devices) <= MaxDevices
    BY DEF Capacity
  <2>3. IsFiniteSet(DOMAIN g_devices)
    BY DEF FiniteTables
  <2>4. \A d \in DOMAIN g_devices : g_devices[d].coop \in DOMAIN g_coops.name
    BY DEF DevicesHoused
  <2> QED
    BY <2>1, <2>2, <2>3, <2>4 DEF Keepable
<1> QED
  BY <1>1, TypeCorrect, FiniteAndFit, DevicesAlwaysHoused, AlwaysTidy, PTL

\* After a command whose save succeeded, loading the file gives back the coops and
\* the devices in memory, with at most half of the fourth digit of a setting lost,
\* whatever crashes, failed saves, merges and hand-written devices came before
\* (storage.h:8, storage.c:316).
THEOREM SavesAreWhole ==
  ASSUME HandCoops = {}, PlainWords
  PROVE  Spec => SaveWholeFarm
<1>1. ASSUME NEW c, NEW t, Keepable(c, t), NEW f, f = storage_save_farm(c, t),
             NEW farm \in storage_load_farm(f)
      PROVE  farm.coops.name = c.name /\ Kept!Stored(t, farm.devices)
  BY <1>1, RoundTrip, StoredTables DEF Keepable
<1>2. Keepable(g_coops, g_devices)' =>
        [reply' \in Changes /\ disk' = storage_save_farm(g_coops', g_devices') =>
           \A farm \in storage_load_farm(disk)' :
             /\ farm.coops.name = g_coops'.name
             /\ Kept!Stored(g_devices', farm.devices)]_vars
  BY <1>1
<1> QED
  BY <1>2, AlwaysKeepable, PTL DEF SaveWholeFarm

(***************************************************************************)
(* The farm that is kept.  The refinement rests on the file: when no save  *)
(* fails and nobody edits it, it always holds exactly one farm, while the  *)
(* server runs the one in memory with its settings rounded; and coops are  *)
(* numbered 1, 2, ... with next_id behind the last, so that next_id never  *)
(* wraps.                                                                  *)
(***************************************************************************)

\* The farms that a start may find in the file, and the one FarmInFile takes.
FileFarms(f) ==
  IF ~Readable(f) THEN {[coops |-> coops_init, devices |-> EmptyTable]}
  ELSE storage_load_farm(f)

FarmOf(f) ==
  IF ~Readable(f) THEN [coops |-> coops_init, devices |-> EmptyTable]
  ELSE CHOOSE farm \in storage_load_farm(f) : TRUE

Dense(c) == c.next \in Nat \ {0} /\ DOMAIN c.name = 1 .. (c.next - 1)

\* The file holds this farm, and no other.
Holds(f, names, t) ==
  /\ FarmOf(f) \in FileFarms(f)
  /\ \A farm \in FileFarms(f) :
       farm.coops.name = names /\ farm.devices = t /\ Dense(farm.coops)

FileHolds ==
  /\ Holds(disk, FarmOf(disk).coops.name, FarmOf(disk).devices)
  /\ StoredTable(FarmOf(disk).devices) = FarmOf(disk).devices
MemoryHolds ==
  up => Holds(disk, g_coops.name, StoredTable(g_devices)) /\ Dense(g_coops)

\* Bumping next_id past 1 .. n, from 1 or from n + 1, leaves it at n + 1 (coops.c:29).
LEMMA BumpDense ==
  ASSUME NEW n \in Nat, n < IntMax, NEW next \in {1, n + 1}
  PROVE  Bump(next, 1 .. n) = {n + 1}
<1>1. IntMax \notin 1 .. n
  BY ConfigAssumption
<1>2. ASSUME NEW m \in Bump(next, 1 .. n) PROVE m = n + 1
  <2>1. /\ m \in {next} \cup {i + 1 : i \in 1 .. n}
        /\ m >= next /\ \A i \in 1 .. n : m > i
    BY <1>1, <1>2 DEF Bump
  <2>2. m \in Int /\ m <= n + 1
    BY <2>1
  <2>3. CASE n = 0
    BY <2>1, <2>2, <2>3
  <2>4. CASE n # 0
    <3>1. n \in 1 .. n
      BY <2>4
    <3> QED
      BY <2>1, <2>2, <3>1
  <2> QED
    BY <2>3, <2>4
<1>3. n + 1 \in Bump(next, 1 .. n)
  <2>1. n + 1 \in {next} \cup {i + 1 : i \in 1 .. n}
    <3>1. CASE n = 0
      BY <3>1
    <3>2. CASE n # 0
      <4>1. n \in 1 .. n
        BY <3>2
      <4> QED
        BY <4>1
    <3> QED
      BY <3>1, <3>2
  <2>2. n + 1 >= next /\ \A i \in 1 .. n : n + 1 > i
    OBVIOUS
  <2> QED
    BY <1>1, <2>1, <2>2 DEF Bump
<1> QED
  BY <1>2, <1>3

\* The ids of a table that fits are far from INT_MAX.
LEMMA DenseFits ==
  ASSUME NEW c, Dense(c), Cardinality(DOMAIN c.name) <= MaxCoops
  PROVE  /\ c.next - 1 \in Nat
         /\ Cardinality(DOMAIN c.name) = c.next - 1
         /\ c.next - 1 < IntMax
<1>1. c.next - 1 \in Nat /\ DOMAIN c.name = 1 .. (c.next - 1)
  BY DEF Dense
<1>a. ASSUME NEW n \in Nat PROVE Cardinality(1 .. n) = n
  BY FS_Interval
<1>2. Cardinality(1 .. (c.next - 1)) = c.next - 1
  BY <1>1, <1>a
<1> QED
  BY <1>1, <1>2, ConfigAssumption

\* What an upsert may give: whatever part of the table is admitted.
LEMMA UpsertedHas ==
  ASSUME NEW c, NEW t, NEW S \in Admitted(DOMAIN c.name, DOMAIN t, MaxCoops),
         NEW n \in Bump(c.next, (DOMAIN c.name \cap DOMAIN t) \cup S)
  PROVE  [name |-> [i \in DOMAIN c.name \cup S |->
                      IF i \in DOMAIN t THEN t[i] ELSE c.name[i]],
          next |-> n] \in Upserted(c, t)
<1> DEFINE Result(T) == {[name |-> [i \in DOMAIN c.name \cup T |->
                                     IF i \in DOMAIN t THEN t[i] ELSE c.name[i]],
                         next |-> m] : m \in Bump(c.next, (DOMAIN c.name \cap DOMAIN t) \cup T)}
<1>1. [name |-> [i \in DOMAIN c.name \cup S |->
                   IF i \in DOMAIN t THEN t[i] ELSE c.name[i]],
       next |-> n] \in Result(S)
  OBVIOUS
<1>2. Upserted(c, t) = UNION {Result(T) : T \in Admitted(DOMAIN c.name, DOMAIN t, MaxCoops)}
  BY DEF Upserted
<1> HIDE DEF Result
<1> QED
  BY <1>1, <1>2

\* Loading what was saved finds the farm that was saved, and only it.
LEMMA SavedIsHeld ==
  ASSUME PlainWords, NEW c, NEW t, Keepable(c, t), Dense(c)
  PROVE  Holds(storage_save_farm(c, t), c.name, StoredTable(t))
<1>1. PICK f : f = storage_save_farm(c, t)
  OBVIOUS
<1>2. FileFarms(f) = storage_load_farm(f) /\ Readable(f)
  BY <1>1 DEF FileFarms, Readable, storage_save_farm
<1>3. PICK n \in Nat : n = c.next - 1 /\ n < IntMax /\ DOMAIN c.name = 1 .. n
  BY DenseFits DEF Keepable, Dense
<1>4. ListedCoops(f) = DOMAIN c.name /\ ListedDevices(f) = DOMAIN t
  BY <1>1, SavedIsListed
<1>5. PICK named : named = [i \in ListedCoops(f) |-> LoadedName(f, i)]
  OBVIOUS
<1>6. DOMAIN named = 1 .. n
  BY <1>3, <1>4, <1>5
<1>7. coops_init.name = EmptyTable /\ coops_init.next = 1 /\ DOMAIN coops_init.name = {}
  BY DEF coops_init, EmptyTable
<1>8. Bump(1, 1 .. n) = {n + 1}
  BY <1>3, BumpDense
<1>9. ASSUME NEW farm \in storage_load_farm(f) PROVE Dense(farm.coops)
  <2>1. farm.coops.name = c.name
    BY <1>1, <1>9, RoundTrip
  <2>2. farm.coops \in Upserted(coops_init, named)
    BY <1>5 DEF storage_load_farm
  <2>3. PICK S \in Admitted(DOMAIN coops_init.name, DOMAIN named, MaxCoops) :
          \E m \in Bump(coops_init.next, (DOMAIN coops_init.name \cap DOMAIN named) \cup S) :
            farm.coops = [name |-> [i \in DOMAIN coops_init.name \cup S |->
                             IF i \in DOMAIN named THEN named[i] ELSE coops_init.name[i]],
                          next |-> m]
    BY <2>2 DEF Upserted
  <2>4. DOMAIN farm.coops.name = DOMAIN coops_init.name \cup S
    BY <2>3
  <2>5. S = 1 .. n
    BY <1>3, <1>7, <2>1, <2>4
  <2>6. (DOMAIN coops_init.name \cap DOMAIN named) \cup S = 1 .. n
    BY <1>7, <2>5
  <2>7. farm.coops.next = n + 1
    BY <1>7, <1>8, <2>3, <2>6
  <2> QED
    BY <1>3, <2>1, <2>7 DEF Dense
<1>10. storage_load_farm(f) # {}
  <2>1. 1 .. n \in Admitted(DOMAIN coops_init.name, DOMAIN named, MaxCoops)
    <3>1. Cardinality({} \cup (1 .. n)) <= MaxCoops
      <4>1. {} \cup (1 .. n) = DOMAIN c.name
        BY <1>3
      <4> QED
        BY <4>1 DEF Keepable
    <3>2. (1 .. n) \ {} = 1 .. n
      OBVIOUS
    <3> QED
      BY <1>6, <1>7, <3>1, <3>2 DEF Admitted
  <2>2. n + 1 \in Bump(coops_init.next, (DOMAIN coops_init.name \cap DOMAIN named) \cup (1 .. n))
    <3>1. (DOMAIN coops_init.name \cap DOMAIN named) \cup (1 .. n) = 1 .. n
      BY <1>7
    <3> QED
      BY <1>7, <1>8, <3>1
  <2>3. PICK C : C = [name |-> [i \in DOMAIN coops_init.name \cup (1 .. n) |->
                          IF i \in DOMAIN named THEN named[i] ELSE coops_init.name[i]],
                      next |-> n + 1]
    OBVIOUS
  <2>4. C \in Upserted(coops_init, named)
    BY <2>1, <2>2, <2>3, UpsertedHas
  <2>5. DOMAIN t \in Admitted({}, ListedDevices(f), MaxDevices)
    <3>1. {} \cup DOMAIN t = DOMAIN t /\ DOMAIN t \ {} = DOMAIN t
      OBVIOUS
    <3> QED
      BY <1>4, <3>1 DEF Admitted, Keepable
  <2>6. [coops |-> C, devices |-> [d \in DOMAIN t |-> LoadedDevice(f.devices[d])]]
          \in storage_load_farm(f)
    BY <1>5, <2>4, <2>5 DEF storage_load_farm
  <2> QED
    BY <2>6
<1>11. FarmOf(f) \in FileFarms(f)
  BY <1>2, <1>10 DEF FarmOf
<1>12. \A farm \in storage_load_farm(f) :
         farm.coops.name = c.name /\ farm.devices = StoredTable(t)
  BY <1>1, RoundTrip
<1> QED
  BY <1>1, <1>2, <1>9, <1>11, <1>12 DEF Holds

\* A step writes the tables it leaves in memory, or leaves the file and changes the
\* tables only by a crash, a start or a SCAN.
LEMMA SavedOrKept ==
  ASSUME Faults = {}, HandCoops = {}, HandDevices = {}, [Next]_vars
  PROVE  \/ up /\ up' /\ disk' = storage_save_farm(g_coops', g_devices')
         \/ /\ disk' = disk
            /\ UNCHANGED <<up, g_coops, g_devices>> \/ Crash \/ Scan \/ Start
<1> DEFINE Saved == up /\ up' /\ disk' = storage_save_farm(g_coops', g_devices')
           Same == disk' = disk /\ UNCHANGED <<up, g_coops, g_devices>>
           Shape == Saved \/ Same
<1>a. ASSUME NEW c, NEW t, NEW code, SaveThenAnswer(c, t, code), up
      PROVE  Shape
  <2>1. PICK outcome \in {"saved"} \cup Faults :
          /\ disk' = CASE outcome = "saved" -> storage_save_farm(c, t)
                       [] outcome = "open_fails" -> disk
                       [] OTHER -> Truncated
          /\ IF outcome = "killed_in_save" THEN Dies
             ELSE /\ up' = up
                  /\ g_coops' = c
                  /\ g_devices' = t
                  /\ sessions' = sessions
                  /\ reply' = code
    BY <1>a DEF SaveThenAnswer
  <2>2. outcome = "saved"
    OBVIOUS
  <2> QED
    BY <1>a, <2>1, <2>2
<1>b. \A code : Answer(code) => Shape
  BY DEF Answer
<1>c. \A d, code : Rejected(d, code) => Shape
  BY DEF Rejected, Answer
<1>d. \A d, token : Refused(token, d) => Shape
  BY DEF Refused, Answer
<1>1. CASE Malformed \/ CoopList
  BY <1>1, <1>b DEF Malformed, CoopList
<1>2. CASE \E name \in Names \cup {""} : CoopAdd(name)
  <2> HIDE DEF Shape
  <2>1. Shape
    BY <1>2, <1>a, <1>b DEF CoopAdd
  <2> QED
    BY <2>1 DEF Shape
<1>3. CASE \E d \in DeviceIds : DeviceCommand(d)
  <2> PICK d \in DeviceIds : DeviceCommand(d)
    BY <1>3
  <2>1. ASSUME NEW pw, Connect(d, pw) PROVE Shape
    BY <2>1, <1>b, <1>c DEF Connect
  <2>2. ASSUME NEW token, Info(d, token) \/ Bye(d, token) PROVE Shape
    BY <2>2, <1>b, <1>c, <1>d DEF Info, Bye
  <2> HIDE DEF Shape
  <2>3. ASSUME NEW token, NEW action, NEW p, Control(d, token, action, p) PROVE Shape
    BY <2>3, <1>a, <1>c, <1>d DEF Control
  <2>4. ASSUME NEW token, NEW p, SetCfg(d, token, p) PROVE Shape
    BY <2>4, <1>a, <1>c, <1>d DEF SetCfg
  <2>5. ASSUME NEW token, NEW old_pw, NEW new_pw, ChPass(d, token, old_pw, new_pw)
        PROVE  Shape
    BY <2>5, <1>a, <1>c, <1>d DEF ChPass
  <2>6. ASSUME NEW type, NEW pw, NEW coop, AddDevice(d, type, pw, coop) PROVE Shape
    BY <2>6, <1>a, <1>b DEF AddDevice
  <2>7. ASSUME NEW coop, Assign(d, coop) PROVE Shape
    BY <2>7, <1>a, <1>b DEF Assign
  <2>8. Shape
    BY <2>1, <2>2, <2>3, <2>4, <2>5, <2>6, <2>7 DEF DeviceCommand
  <2> QED
    BY <2>8 DEF Shape
<1>4. CASE Scan \/ Start \/ Crash
  BY <1>4 DEF Scan, Start, Crash
<1>5. CASE Tick \/ UNCHANGED vars
  BY <1>5 DEF Tick, vars
<1>6. ~HandWritesCoop /\ ~HandAddsDevice
  BY DEF HandWritesCoop, HandAddsDevice
<1> QED
  BY <1>1, <1>2, <1>3, <1>4, <1>5, <1>6 DEF Next, Server, DeviceCommand

\* A SCAN of the farm that is in memory changes nothing.
LEMMA ScanChangesNothing ==
  ASSUME Keepable(g_coops, g_devices), MemoryHolds, Scan
  PROVE  g_coops'.name = g_coops.name /\ g_devices' = g_devices /\ Dense(g_coops')
<1>1. Holds(disk, g_coops.name, StoredTable(g_devices)) /\ Dense(g_coops)
  BY DEF MemoryHolds, Scan
<1>2. CASE g_coops' = g_coops /\ g_devices' = g_devices
  BY <1>1, <1>2
<1>3. ASSUME Readable(disk), NEW farm \in storage_load_farm(disk),
             g_coops' \in Upserted(g_coops, farm.coops.name),
             g_devices' \in MergedDevices(g_devices, farm.devices)
      PROVE  g_coops'.name = g_coops.name /\ g_devices' = g_devices /\ Dense(g_coops')
  <2>1. farm.coops.name = g_coops.name /\ DOMAIN farm.devices = DOMAIN g_devices
    BY <1>1, <1>3 DEF Holds, FileFarms, StoredTable
  <2>2. g_devices' = g_devices
    <3>1. PICK S \in Admitted(DOMAIN g_devices, DOMAIN g_devices, MaxDevices) :
            g_devices' = Appended(g_devices, farm.devices, S)
      BY <1>3, <2>1 DEF MergedDevices
    <3>2. S = {}
      BY DEF Admitted
    <3>3. g_devices = [x \in DOMAIN g_devices |-> g_devices[x]]
      BY DEF Keepable, Tidy, WholeTable
    <3> QED
      BY <3>1, <3>2, <3>3 DEF Appended
  <2>3. PICK n \in Nat : n = g_coops.next - 1 /\ n < IntMax /\ DOMAIN g_coops.name = 1 .. n
    BY <1>1, DenseFits DEF Keepable, Dense
  <2>4. PICK S \in Admitted(DOMAIN g_coops.name, DOMAIN g_coops.name, MaxCoops) :
          \E m \in Bump(g_coops.next, (DOMAIN g_coops.name \cap DOMAIN g_coops.name) \cup S) :
            g_coops' = [name |-> [i \in DOMAIN g_coops.name \cup S |->
                           IF i \in DOMAIN g_coops.name THEN g_coops.name[i]
                                                        ELSE g_coops.name[i]],
                        next |-> m]
    BY <1>3, <2>1 DEF Upserted
  <2>5. S = {}
    BY DEF Admitted
  <2>6. (DOMAIN g_coops.name \cap DOMAIN g_coops.name) \cup S = 1 .. n
        /\ DOMAIN g_coops.name \cup S = DOMAIN g_coops.name
    BY <2>3, <2>5
  <2>7. Bump(g_coops.next, 1 .. n) = {n + 1} /\ g_coops.next = n + 1
    <3>1. g_coops.next = n + 1
      BY <1>1, <2>3 DEF Dense
    <3> QED
      BY <2>3, <3>1, BumpDense
  <2>8. g_coops'.next = n + 1
    <3>1. PICK m \in Bump(g_coops.next, (DOMAIN g_coops.name \cap DOMAIN g_coops.name) \cup S) :
            g_coops' = [name |-> [i \in DOMAIN g_coops.name \cup S |->
                           IF i \in DOMAIN g_coops.name THEN g_coops.name[i]
                                                        ELSE g_coops.name[i]],
                        next |-> m]
      BY <2>4
    <3>2. g_coops'.next = m
      BY <3>1
    <3>3. m \in Bump(g_coops.next, 1 .. n)
      BY <2>6, <3>1
    <3> QED
      BY <2>7, <3>2, <3>3
  <2>9. g_coops'.name = g_coops.name
    <3>1. g_coops'.name = [i \in DOMAIN g_coops.name |-> g_coops.name[i]]
      BY <2>4, <2>6
    <3>2. g_coops.name \in [DOMAIN g_coops.name -> CoopNames]
      BY DEF Keepable, IsCoops
    <3> QED
      BY <3>1, <3>2
  <2> QED
    BY <2>2, <2>3, <2>8, <2>9 DEF Dense
<1> QED
  BY <1>2, <1>3 DEF Scan, merge_farm_from_disk

\* Starting finds the farm of the file.
LEMMA StartFindsFarm ==
  ASSUME PlainWords, IsFile(disk), FileNamed(disk), FileHolds, Start
  PROVE  /\ g_coops'.name = FarmOf(disk).coops.name
         /\ g_devices' = FarmOf(disk).devices
         /\ Dense(g_coops')
<1>1. CASE ~Readable(disk)
  BY <1>1 DEF Start, coop_logic_init, FarmOf, FileHolds, Holds, FileFarms
<1>2. ASSUME Readable(disk), NEW farm \in storage_load_farm(disk),
             g_coops' = sanitize_coop_names(farm.coops), g_devices' = farm.devices
      PROVE  /\ g_coops'.name = FarmOf(disk).coops.name
             /\ g_devices' = FarmOf(disk).devices
             /\ Dense(g_coops')
  <2>1. /\ farm.coops.name = FarmOf(disk).coops.name
        /\ farm.devices = FarmOf(disk).devices
        /\ Dense(farm.coops)
    BY <1>2 DEF FileHolds, Holds, FileFarms
  <2>2. NamedIn(farm.coops.name) /\ IsCoops(farm.coops)
    BY LoadNamed, LoadType
  <2>3. \A i \in DOMAIN farm.coops.name :
          farm.coops.name[i] \in {"", "0"} => farm.coops.name[i] = DefaultName(i)
    BY <2>2 DEF NamedIn, PlainWords
  <2>4. /\ g_coops'.name = [i \in DOMAIN farm.coops.name |-> farm.coops.name[i]]
        /\ g_coops'.next = farm.coops.next
    BY <1>2, <2>2, <2>3 DEF sanitize_coop_names, IsCoops
  <2>5. g_coops'.name = farm.coops.name
    BY <2>2, <2>4 DEF IsCoops
  <2> QED
    BY <1>2, <2>1, <2>4, <2>5 DEF Dense
<1> QED
  BY <1>1, <1>2 DEF Start, coop_logic_init

\* No command breaks the numbering.
LEMMA CommandDense ==
  ASSUME Cardinality(DOMAIN g_coops.name) <= MaxCoops, Dense(g_coops), CoopAdded
  PROVE  Dense(g_coops')
<1>1. PICK name \in Names :
        CanAddCoop(g_coops, name) /\ g_coops' \in coops_add(g_coops, name)
  BY DEF CoopAdded
<1>2. PICK n \in Nat : n = g_coops.next - 1 /\ DOMAIN g_coops.name = 1 .. n
                       /\ Cardinality(DOMAIN g_coops.name) = n
  BY DenseFits DEF Dense
<1>3. g_coops.next = n + 1 /\ new_coop_id(g_coops) = n + 1
  BY <1>2 DEF Dense, new_coop_id
<1>4. n + 1 < IntMax
  <2>1. n < MaxCoops
    BY <1>1, <1>2 DEF CanAddCoop
  <2> QED
    BY <2>1, ConfigAssumption
<1>5. PICK m \in Bump(n + 1, {n + 1}) :
        g_coops' = [name |-> With(g_coops.name, n + 1, name), next |-> m]
  BY <1>1, <1>3 DEF coops_add
<1>6. m = n + 2
  BY <1>4, <1>5 DEF Bump
<1>7. DOMAIN g_coops'.name = (1 .. n) \cup {n + 1} /\ g_coops'.next = n + 2
  BY <1>2, <1>5, <1>6 DEF With
<1>8. (1 .. n) \cup {n + 1} = 1 .. (n + 2 - 1)
  OBVIOUS
<1> QED
  BY <1>7, <1>8 DEF Dense

\* So the file holds one farm, and it is the one in memory, after every step.
LEMMA FarmIsHeld ==
  ASSUME Faults = {}, HandCoops = {}, HandDevices = {}, PlainWords,
         TypeOK, FileNamed(disk), Keepable(g_coops, g_devices), Keepable(g_coops', g_devices'),
         FileHolds, MemoryHolds, [Next]_vars
  PROVE  FileHolds' /\ MemoryHolds'
<1>a. \A f, names, t : Holds(f, names, t)
         => Holds(f, FarmOf(f).coops.name, FarmOf(f).devices)
  BY DEF Holds
<1>1. CASE up /\ up' /\ disk' = storage_save_farm(g_coops', g_devices')
  <2>1. Dense(g_coops')
    BY <1>1, StepShape, ScanChangesNothing, CommandDense
    DEF Keepable, MemoryHolds, Quiet, Dies, Start, LoggedIn, LoggedOut, DeviceAdded,
        DeviceMoved, DeviceAltered
  <2>2. Holds(disk', g_coops'.name, StoredTable(g_devices'))
    BY <1>1, <2>1, SavedIsHeld
  <2>3. FarmOf(disk').devices = StoredTable(g_devices')
    BY <2>2 DEF Holds
  <2>4. StoredTable(FarmOf(disk').devices) = FarmOf(disk').devices
    BY <2>3, StoredTables DEF Keepable
  <2> QED
    BY <1>a, <2>1, <2>2, <2>4 DEF FileHolds, MemoryHolds
<1>2. CASE disk' = disk /\ UNCHANGED <<up, g_coops, g_devices>>
  BY <1>2 DEF FileHolds, MemoryHolds
<1>3. CASE disk' = disk /\ Crash
  BY <1>3 DEF Crash, Dies, FileHolds, MemoryHolds
<1>4. CASE disk' = disk /\ Scan
  BY <1>4, ScanChangesNothing DEF FileHolds, MemoryHolds, Scan
<1>5. CASE disk' = disk /\ Start
  <2>1. IsFile(disk)
    BY DEF TypeOK
  <2> QED
    BY <1>5, <2>1, StartFindsFarm DEF FileHolds, MemoryHolds
<1> QED
  BY <1>1, <1>2, <1>3, <1>4, <1>5, SavedOrKept

\* Module Farm speaks of the same tables.
LEMMA FarmTables ==
  /\ \A t, k, v : Kept!With(t, k, v) = With(t, k, v)
  /\ Kept!EmptyTable = EmptyTable
<1>1. \A t, k, v : Kept!With(t, k, v) = With(t, k, v)
  BY DEF Kept!With, With
<1>2. Kept!EmptyTable = EmptyTable
  BY DEF Kept!EmptyTable, EmptyTable
<1> QED
  BY <1>1, <1>2

\* The farm that is kept, as module Farm sees it.
KeptCoops == IF up THEN g_coops.name ELSE FarmInFile.coops.name
KeptDevices == IF up THEN g_devices ELSE FarmInFile.devices

\* A step of the running server is one of Farm's commands, or changes nothing that
\* Farm sees.
LEMMA CommandOfFarm ==
  ASSUME TypeOK, Keepable(g_coops, g_devices), MemoryHolds, [Next]_vars, up, up'
  PROVE  [Kept!Next]_<<up, KeptCoops, KeptDevices>>
<1> USE DEF KeptCoops, KeptDevices
<1>a. /\ \A t, k, v : Kept!With(t, k, v) = With(t, k, v)
      /\ \A d \in DOMAIN g_devices : IsDevice(g_devices[d])
  BY FarmTables DEF TypeOK, IsDevices
<1>1. CASE UNCHANGED <<up, g_coops, g_devices>>
  BY <1>1
<1>2. CASE Scan
  BY <1>2, ScanChangesNothing DEF Scan
<1>3. CASE CoopAdded
  <2>1. PICK name \in Names :
          CanAddCoop(g_coops, name) /\ g_coops' \in coops_add(g_coops, name)
    BY <1>3 DEF CoopAdded
  <2>2. Dense(g_coops)
    BY DEF MemoryHolds
  <2>3. new_coop_id(g_coops) = g_coops.next
    BY <2>2 DEF Dense, new_coop_id
  <2>4. PICK i : i = g_coops.next
    OBVIOUS
  <2>5. g_coops'.name = With(g_coops.name, i, name)
    BY <2>1, <2>3, <2>4 DEF coops_add
  <2>6. /\ i \in DOMAIN g_coops'.name \ DOMAIN g_coops.name
        /\ \A j \in DOMAIN g_coops.name : j < i
        /\ g_coops'.name[i] = name
    BY <2>2, <2>4, <2>5 DEF Dense, With
  <2>7. g_coops'.name = With(g_coops.name, i, g_coops'.name[i])
    BY <2>5, <2>6
  <2>8. g_devices' = g_devices
    BY <1>3 DEF CoopAdded
  <2>9. Kept!AddCoop
    BY <1>a, <2>6, <2>7, <2>8 DEF Kept!AddCoop
  <2> QED
    BY <2>9 DEF Kept!Next, Kept!Command
<1>4. CASE DeviceAdded
  <2>1. PICK d \in DeviceIds, type \in NewTypes, pw \in Passwords, coop \in CoopArgs :
          /\ CanAdd(d, type, coop)
          /\ g_devices' = With(g_devices, d, NewDevice(type, pw, coop))
    BY <1>4 DEF DeviceAdded
  <2>2. /\ d \in DOMAIN g_devices' \ DOMAIN g_devices
        /\ g_devices'[d] = NewDevice(type, pw, coop)
    BY <2>1 DEF CanAdd, CanAddDevice, With
  <2>3. g_devices'[d].coop \in DOMAIN g_coops.name
    BY <2>1, <2>2 DEF CanAdd, NewDevice
  <2>4. g_devices' = With(g_devices, d, g_devices'[d]) /\ g_coops' = g_coops
    BY <1>4, <2>1, <2>2 DEF DeviceAdded
  <2>5. Kept!AddDevice
    BY <1>a, <2>2, <2>3, <2>4 DEF Kept!AddDevice
  <2> QED
    BY <2>5 DEF Kept!Next, Kept!Command
<1>5. CASE DeviceMoved
  <2>1. PICK d \in DOMAIN g_devices, coop \in DOMAIN g_coops.name :
          g_devices' = With(g_devices, d, [g_devices[d] EXCEPT !.coop = coop])
    BY <1>5 DEF DeviceMoved, CanAssign
  <2>2. /\ DOMAIN g_devices' = DOMAIN g_devices
        /\ g_devices'[d] = [g_devices[d] EXCEPT !.coop = coop]
    BY <2>1 DEF With
  <2>3. g_devices'[d].coop = coop
    BY <1>a, <2>2 DEF IsDevice
  <2>4. g_devices' = With(g_devices, d, [g_devices[d] EXCEPT !.coop = g_devices'[d].coop])
        /\ g_coops' = g_coops
    BY <1>5, <2>1, <2>3 DEF DeviceMoved
  <2>5. Kept!Move(d)
    BY <1>a, <2>1, <2>3, <2>4 DEF Kept!Move
  <2> QED
    BY <2>1, <2>2, <2>4, <2>5 DEF Kept!Next, Kept!Command
<1>6. CASE DeviceAltered
  <2>1. PICK d \in DOMAIN g_devices :
          /\ g_devices'[d].type = g_devices[d].type
          /\ g_devices'[d].coop = g_devices[d].coop
          /\ g_devices' = With(g_devices, d, g_devices'[d])
    BY <1>6 DEF DeviceAltered
  <2>2. DOMAIN g_devices' = DOMAIN g_devices /\ g_coops' = g_coops
    BY <1>6, <2>1 DEF DeviceAltered, With
  <2>3. Kept!Alter(d)
    BY <1>a, <2>1 DEF Kept!Alter
  <2> QED
    BY <2>1, <2>2, <2>3 DEF Kept!Next, Kept!Command
<1> QED
  BY <1>1, <1>2, <1>3, <1>4, <1>5, <1>6, StepShape
  DEF Quiet, Dies, Start, LoggedIn, LoggedOut

\* Any other step at most stops or starts the server: the farm of the file is kept.
LEMMA StopOrStartOfFarm ==
  ASSUME Faults = {}, HandCoops = {}, HandDevices = {}, PlainWords, TypeOK, FileNamed(disk),
         FileHolds, MemoryHolds, [Next]_vars, ~(up /\ up')
  PROVE  [Kept!Next]_<<up, KeptCoops, KeptDevices>>
<1>1. disk' = disk
  BY SavedOrKept DEF Crash, Scan, Start
<1>2. FarmInFile = FarmOf(disk) /\ FarmInFile' = FarmOf(disk)
  BY <1>1 DEF FarmInFile, FarmOf, Readable
<1>3. CASE up /\ ~up'
  <2>1. /\ g_coops.name = FarmOf(disk).coops.name
        /\ StoredTable(g_devices) = FarmOf(disk).devices
    BY <1>3 DEF MemoryHolds, Holds
  <2>2. Kept!Stored(g_devices, FarmOf(disk).devices)
    BY <2>1, StoredTables DEF TypeOK
  <2> QED
    BY <1>2, <1>3, <2>1, <2>2 DEF Kept!Next, Kept!Stop, KeptCoops, KeptDevices
<1>4. CASE ~up /\ up'
  <2>1. Start
    BY <1>4, SavedOrKept DEF Crash, Scan
  <2>2. /\ g_coops'.name = FarmOf(disk).coops.name
        /\ g_devices' = FarmOf(disk).devices
    BY <2>1, StartFindsFarm DEF TypeOK
  <2> QED
    BY <1>2, <1>4, <2>2 DEF Kept!Next, Kept!Start, KeptCoops, KeptDevices
<1>5. CASE ~up /\ ~up'
  <2>1. up \in BOOLEAN /\ up' \in BOOLEAN
    BY StepTypes DEF TypeOK
  <2> QED
    BY <1>2, <1>5, <2>1, Zenon DEF KeptCoops, KeptDevices
<1> QED
  BY <1>3, <1>4, <1>5

\* The server keeps the farm as module Farm promises, across crashes and restarts:
\* when no save fails, nobody edits the file, and names, passwords and ids are ones
\* that the file can hold (coop_logic.c:46, 285; storage.c:316, 321).
THEOREM FarmIsKept ==
  ASSUME Faults = {}, HandCoops = {}, HandDevices = {}, PlainWords
  PROVE  Spec => KeepsFarm
<1>1. Init => FileHolds /\ MemoryHolds
  <2>1. FarmOf(NoFile) = [coops |-> coops_init, devices |-> EmptyTable]
        /\ FileFarms(NoFile) = {[coops |-> coops_init, devices |-> EmptyTable]}
    BY DEF FarmOf, FileFarms, Readable, NoFile
  <2>2. Dense(coops_init)
    BY DEF Dense, coops_init, EmptyTable
  <2>3. StoredTable(EmptyTable) = EmptyTable
    BY DEF StoredTable, EmptyTable
  <2> QED
    BY <2>1, <2>2, <2>3 DEF Init, FileHolds, MemoryHolds, Holds
<1>2. Init => Kept!Init
  <2> SUFFICES ASSUME Init PROVE Kept!Init
    OBVIOUS
  <2>1. ~up /\ FarmInFile = [coops |-> coops_init, devices |-> EmptyTable]
    BY DEF Init, FarmInFile, Readable, NoFile
  <2> QED
    BY <2>1, FarmTables DEF Kept!Init, Init, coops_init
<1>3. TypeOK /\ FileNamed(disk) /\ Keepable(g_coops, g_devices)
      /\ Keepable(g_coops, g_devices)' /\ FileHolds /\ MemoryHolds /\ [Next]_vars
        => (FileHolds /\ MemoryHolds)'
  BY FarmIsHeld
<1>4. TypeOK /\ FileNamed(disk) /\ Keepable(g_coops, g_devices) /\ FileHolds /\ MemoryHolds
      /\ [Next]_vars
        => [Kept!Next]_<<up, KeptCoops, KeptDevices>>
  BY CommandOfFarm, StopOrStartOfFarm
<1> QED
  BY <1>1, <1>2, <1>3, <1>4, TypeCorrect, AlwaysTidy, AlwaysKeepable, PTL
  DEF Spec, KeepsFarm, Kept!Spec, KeptCoops, KeptDevices
=============================================================================
