--------------------------- MODULE CoopLogicProofs ---------------------------
(***************************************************************************)
(* CoopLogic for every value of its constants.  First it keeps the types   *)
(* of its variables: what each operator of the handlers gives, then one    *)
(* lemma per group of actions, then the theorem TypeCorrect.  Then its     *)
(* safety: sessions and their devices, the numbering and the size of the   *)
(* tables, devices and their coops, all of it from TypeCorrect and from    *)
(* StepShape, which says what a step can do to the tables.                 *)
(***************************************************************************)
EXTENDS CoopLogic, FiniteSetTheorems, TLAPS

(***************************************************************************)
(* Types of the operators the handlers are made of.                        *)
(***************************************************************************)

\* Bumping next_id past ids, wrapping included, leaves an int (coops.c:29).
LEMMA BumpType ==
  ASSUME NEW next \in IntMin .. IntMax, NEW ids \in SUBSET CoopIds
  PROVE  Bump(next, ids) \subseteq IntMin .. IntMax
BY ConfigAssumption DEF Bump, IntMin, CoopIds

\* Upserting a table into a context gives a context that has lost no coop
\* (coops.c:23).
LEMMA UpsertedType ==
  ASSUME NEW c, IsCoops(c),
         NEW t, DOMAIN t \subseteq CoopIds, \A i \in DOMAIN t : t[i] \in CoopNames,
         NEW r \in Upserted(c, t)
  PROVE  IsCoops(r) /\ DOMAIN c.name \subseteq DOMAIN r.name
<1> PICK S \in Admitted(DOMAIN c.name, DOMAIN t, MaxCoops) :
      \E n \in Bump(c.next, (DOMAIN c.name \cap DOMAIN t) \cup S) :
        r = [name |-> [i \in DOMAIN c.name \cup S |->
                         IF i \in DOMAIN t THEN t[i] ELSE c.name[i]],
             next |-> n]
  BY DEF Upserted
<1>1. PICK n \in Bump(c.next, (DOMAIN c.name \cap DOMAIN t) \cup S) :
        r = [name |-> [i \in DOMAIN c.name \cup S |->
                         IF i \in DOMAIN t THEN t[i] ELSE c.name[i]],
             next |-> n]
  OBVIOUS
<1>2. S \subseteq DOMAIN t
  BY DEF Admitted
<1>3. n \in IntMin .. IntMax
  <2>1. c.next \in IntMin .. IntMax
    BY DEF IsCoops
  <2>2. (DOMAIN c.name \cap DOMAIN t) \cup S \in SUBSET CoopIds
    BY <1>2
  <2> QED
    BY <2>1, <2>2, BumpType
<1>4. r.name \in [DOMAIN c.name \cup S -> CoopNames]
  <2>1. \A i \in DOMAIN c.name : c.name[i] \in CoopNames
    BY DEF IsCoops
  <2> QED
    BY <1>1, <1>2, <2>1
<1>5. DOMAIN r.name = DOMAIN c.name \cup S
  BY <1>4
<1>6. r.name \in [DOMAIN r.name -> CoopNames]
  BY <1>4, <1>5
<1>7. r.next = n
  BY <1>1
<1>8. DOMAIN r.name \subseteq CoopIds
  BY <1>2, <1>5 DEF IsCoops
<1>9. r \in [name : [DOMAIN r.name -> CoopNames], next : IntMin .. IntMax]
  BY <1>1, <1>3, <1>6
<1> QED
  BY <1>5, <1>8, <1>9 DEF IsCoops

\* coops_add gives a context with the new id in it (coops.c:43).
LEMMA CoopsAddType ==
  ASSUME NEW c, IsCoops(c), NEW name \in Names, NEW r \in coops_add(c, name)
  PROVE  /\ IsCoops(r)
         /\ DOMAIN r.name = DOMAIN c.name \cup {new_coop_id(c)}
<1>1. PICK n \in Bump(c.next, {new_coop_id(c)}) :
        r = [name |-> With(c.name, new_coop_id(c), name), next |-> n]
  BY DEF coops_add
<1>2. new_coop_id(c) \in CoopIds
  BY ConfigAssumption DEF new_coop_id, CoopIds, IsCoops, IntMin
<1>3. n \in IntMin .. IntMax
  <2>1. c.next \in IntMin .. IntMax /\ {new_coop_id(c)} \in SUBSET CoopIds
    BY <1>2 DEF IsCoops
  <2> QED
    BY <2>1, BumpType
<1>4. name \in CoopNames /\ \A i \in DOMAIN c.name : c.name[i] \in CoopNames
  BY DEF CoopNames, IsCoops
<1>5. With(c.name, new_coop_id(c), name)
        \in [DOMAIN c.name \cup {new_coop_id(c)} -> CoopNames]
  BY <1>4 DEF With
<1>6. DOMAIN r.name = DOMAIN c.name \cup {new_coop_id(c)}
  BY <1>1, <1>5
<1>7. r \in [name : [DOMAIN r.name -> CoopNames], next : IntMin .. IntMax]
  BY <1>1, <1>3, <1>5, <1>6
<1>8. DOMAIN r.name \subseteq CoopIds
  BY <1>2, <1>6 DEF IsCoops
<1> QED
  BY <1>6, <1>7, <1>8 DEF IsCoops

\* Setting one entry of a device table to a device gives a device table.
LEMMA WithDevice ==
  ASSUME NEW t, IsDevices(t), NEW d \in DeviceIds, NEW dev, IsDevice(dev)
  PROVE  IsDevices(With(t, d, dev)) /\ DOMAIN With(t, d, dev) = DOMAIN t \cup {d}
BY DEF With, IsDevices

\* A coop number that coops are given is one a device can have.
LEMMA CoopIdIsInt == ASSUME NEW c, IsCoops(c), NEW i \in DOMAIN c.name
                     PROVE  i \in 1 .. IntMax
BY DEF IsCoops, CoopIds

\* A device with default settings is a device (devices.c:464).
LEMMA NewDeviceType ==
  ASSUME NEW t \in DeviceTypes, NEW pw \in Passwords, NEW coop \in 1 .. IntMax
  PROVE  IsDevice(NewDevice(t, pw, coop))
<1>1. \A k \in Settings[t] : DefaultSetting(t, k) \in Int
  BY DEF Settings, DefaultSetting, DeviceTypes, KnownTypes, PoweredTypes
<1>2. DefaultPower(t) \in IF t \in PoweredTypes THEN {"ON", "OFF"} ELSE {"-"}
  BY DEF DefaultPower, DeviceTypes, KnownTypes, PoweredTypes
<1> QED
  BY <1>1, <1>2 DEF NewDevice, IsDevice

\* CONTROL, when accepted, leaves a device with the power states and the settings
\* of its type (devices.c:167-228).
LEMMA ControlledType ==
  ASSUME NEW dev, IsDevice(dev), NEW action \in Actions,
         NEW p, \A k \in DOMAIN p : p[k] \in Int,
         ControlAccepted(dev, action, p)
  PROVE  IsDevice(Controlled(dev, action, p))
<1>1. CASE action \in NowActions
  <2> DEFINE cfg == [k \in DOMAIN dev.cfg |->
                       IF k \in NowSettings[action] THEN p[k] ELSE dev.cfg[k]]
             power == IF action = "SPRAY_NOW" THEN "ON" ELSE dev.power
  <2>1. NowAccepted(dev, action, p)
    BY <1>1 DEF ControlAccepted
  <2>2. cfg \in [Settings[dev.type] -> Int]
    <3>1. dev.cfg \in [Settings[dev.type] -> Int]
      BY DEF IsDevice
    <3>2. \A k \in NowSettings[action] : p[k] \in Int
      BY <2>1 DEF NowAccepted
    <3> QED
      BY <3>1, <3>2
  <2>3. power \in IF dev.type \in PoweredTypes THEN {"ON", "OFF"} ELSE {"-"}
    <3>1. action = "SPRAY_NOW" => dev.type = "sprayer"
      BY <2>1 DEF NowAccepted, NowType
    <3> QED
      BY <3>1 DEF IsDevice, PoweredTypes
  <2>4. Controlled(dev, action, p) = [dev EXCEPT !.cfg = cfg, !.power = power]
    BY <1>1 DEF Controlled
  <2> HIDE DEF cfg, power
  <2> QED
    BY <2>2, <2>3, <2>4 DEF IsDevice
<1>2. CASE action \notin NowActions
  <2>1. action \in {"ON", "OFF"}
    BY <1>2 DEF NowActions
  <2>2. dev.type \in PoweredTypes
    BY <1>2 DEF ControlAccepted
  <2>3. Controlled(dev, action, p) = [dev EXCEPT !.power = action]
    BY <1>2 DEF Controlled
  <2> QED
    BY <2>1, <2>2, <2>3 DEF IsDevice
<1> QED
  BY <1>1, <1>2

\* SETCFG, when accepted, leaves a device with exactly its type's settings
\* (devices.c:230, coop_logic.c:315).
LEMMA ConfiguredType ==
  ASSUME NEW dev, IsDevice(dev),
         NEW p, \A k \in DOMAIN p : p[k] \in Int,
         SetCfgAccepted(dev, p)
  PROVE  IsDevice(Configured(dev, p))
<1>1. \A k \in Settings[dev.type] : p[k] \in Int
  BY DEF SetCfgAccepted
<1>2. Given(dev.type, p) \in [Settings[dev.type] -> Int]
  BY <1>1 DEF Given, IntPart
<1>3. Configured(dev, p) = [dev EXCEPT !.cfg = Given(dev.type, p)]
  BY DEF Configured
<1> QED
  BY <1>2, <1>3 DEF IsDevice

\* A device with another password or in another coop is a device.
LEMMA AlteredType ==
  ASSUME NEW dev, IsDevice(dev), NEW pw \in Passwords, NEW i \in 1 .. IntMax
  PROVE  /\ IsDevice(devices_change_password(dev, pw))
         /\ IsDevice([dev EXCEPT !.coop = i])
BY DEF IsDevice, devices_change_password

(***************************************************************************)
(* Rounding.  Leaves with long numerals are for SMT alone: the others      *)
(* count up to them.                                                       *)
(***************************************************************************)

\* Whether the number r above a number of four digits goes up by g to the next.
GoesUp(v, r, g) == 2 * r > g \/ (2 * r = g /\ v \in TiesUp)

\* Every number is a multiple of a grain and a rest (storage.c:316).
LEMMA Rests ==
  ASSUME NEW v \in Int
  PROVE  /\ v % 1 = 0
         /\ \E q \in Int : v % 10 \in 0 .. 9 /\ v = 10 * q + (v % 10)
         /\ \E q \in Int : v % 100 \in 0 .. 99 /\ v = 100 * q + (v % 100)
<1>1. PICK q \in Int : q = v \div 10
  OBVIOUS
<1>2. PICK p \in Int : p = v \div 100
  OBVIOUS
<1>3. v % 10 \in 0 .. 9 /\ v = 10 * q + (v % 10)
  BY <1>1
<1>4. v % 100 \in 0 .. 99 /\ v = 100 * p + (v % 100)
  BY <1>2
<1>5. v % 1 = 0
  OBVIOUS
<1> QED
  BY <1>3, <1>4, <1>5

\* Rounding keeps a number of four digits, ...
LEMMA RoundedFour == ASSUME NEW v \in Int, Size(v) < 10000 PROVE Rounded(v) = v
<1>1. Grain(v) = 1
  BY SMT DEF Grain, Size
<1>2. v % 1 = 0
  BY Rests, SMT DEF Size
<1> QED
  BY <1>1, <1>2, SMT DEF Rounded, Size

\* ... makes a multiple of 10 of one of five, ...
LEMMA RoundedFive ==
  ASSUME NEW v \in Int, Size(v) >= 10000, Size(v) < 100000
  PROVE  \E q \in Int, r \in 0 .. 9 :
           v = 10 * q + r /\ Rounded(v) = IF GoesUp(v, r, 10) THEN 10 * q + 10 ELSE 10 * q
<1>1. Grain(v) = 10
  BY SMT DEF Grain, Size
<1>2. PICK q \in Int, r \in 0 .. 9 : r = v % 10 /\ v = 10 * q + r
  BY Rests, SMT DEF Size
<1>3. Rounded(v) = IF GoesUp(v, r, 10) THEN v - r + 10 ELSE v - r
  BY <1>1, <1>2, SMT DEF Rounded, GoesUp, Size
<1> WITNESS q \in Int, r \in 0 .. 9
<1> QED
  BY <1>2, <1>3, SMT DEF Size

\* ... and a multiple of 100 of a longer one.
LEMMA RoundedMore ==
  ASSUME NEW v \in Int, Size(v) >= 100000
  PROVE  \E q \in Int, r \in 0 .. 99 :
           v = 100 * q + r /\ Rounded(v) = IF GoesUp(v, r, 100) THEN 100 * q + 100 ELSE 100 * q
<1>1. Grain(v) = 100
  BY SMT DEF Grain, Size
<1>2. PICK q \in Int, r \in 0 .. 99 : r = v % 100 /\ v = 100 * q + r
  BY Rests, SMT DEF Size
<1>3. Rounded(v) = IF GoesUp(v, r, 100) THEN v - r + 100 ELSE v - r
  BY <1>1, <1>2, SMT DEF Rounded, GoesUp, Size
<1> WITNESS q \in Int, r \in 0 .. 99
<1> QED
  BY <1>2, <1>3, SMT DEF Size

\* Rounding a setting leaves a number, ...
LEMMA RoundedInt == ASSUME NEW v \in Int PROVE Rounded(v) \in Int
<1>1. CASE Size(v) < 10000
  BY <1>1, RoundedFour, SMT DEF Size
<1>2. CASE Size(v) >= 10000 /\ Size(v) < 100000
  BY <1>2, RoundedFive, SMT DEF Size
<1>3. CASE Size(v) >= 100000
  BY <1>3, RoundedMore, SMT DEF Size
<1> QED
  BY <1>1, <1>2, <1>3, SMT DEF Size

\* ... off by at most half of what its fourth digit counts, ...
LEMMA RoundedNear ==
  ASSUME NEW v \in Int
  PROVE  2000 * Kept!Distance(v, Rounded(v)) <= Kept!Distance(0, v)
<1>1. CASE Size(v) < 10000
  BY <1>1, RoundedFour, SMT DEF Kept!Distance, Size
<1>2. CASE Size(v) >= 10000 /\ Size(v) < 100000
  <2>1. PICK q \in Int, r \in 0 .. 9 :
          v = 10 * q + r /\ Rounded(v) = IF GoesUp(v, r, 10) THEN 10 * q + 10 ELSE 10 * q
    BY <1>2, RoundedFive, SMT DEF Size
  <2>2. Rounded(v) \in v - 5 .. v + 5
    BY <2>1, SMT DEF GoesUp, Size
  <2> QED
    BY <1>2, <2>2, SMT DEF Kept!Distance, Size
<1>3. CASE Size(v) >= 100000
  <2>1. PICK q \in Int, r \in 0 .. 99 :
          v = 100 * q + r /\ Rounded(v) = IF GoesUp(v, r, 100) THEN 100 * q + 100 ELSE 100 * q
    BY <1>3, RoundedMore, SMT DEF Size
  <2>2. Rounded(v) \in v - 50 .. v + 50
    BY <2>1, SMT DEF GoesUp, Size
  <2> QED
    BY <1>3, <2>2, SMT DEF Kept!Distance, Size
<1> QED
  BY <1>1, <1>2, <1>3, SMT DEF Size

\* ... that stays when it is rounded again ...
LEMMA RoundedTwice == ASSUME NEW v \in Int PROVE Rounded(Rounded(v)) = Rounded(v)
<1>a. ASSUME NEW p \in Int, Size(10 * p) >= 10000, Size(10 * p) < 100000
      PROVE  Rounded(10 * p) = 10 * p
  <2>1. PICK w \in Int : w = 10 * p
    OBVIOUS
  <2>2. PICK q \in Int, r \in 0 .. 9 :
          w = 10 * q + r /\ Rounded(w) = IF GoesUp(w, r, 10) THEN 10 * q + 10 ELSE 10 * q
    BY <1>a, <2>1, RoundedFive, SMT DEF Size
  <2>3. r = 0
    BY <2>1, <2>2, SMT DEF Size
  <2> QED
    BY <2>1, <2>2, <2>3, SMT DEF GoesUp, Size
<1>b. ASSUME NEW p \in Int, Size(100 * p) >= 100000
      PROVE  Rounded(100 * p) = 100 * p
  <2>1. PICK w \in Int : w = 100 * p
    OBVIOUS
  <2>2. PICK q \in Int, r \in 0 .. 99 :
          w = 100 * q + r /\ Rounded(w) = IF GoesUp(w, r, 100) THEN 100 * q + 100 ELSE 100 * q
    BY <1>b, <2>1, RoundedMore, SMT DEF Size
  <2>3. r = 0
    BY <2>1, <2>2, SMT DEF Size
  <2> QED
    BY <2>1, <2>2, <2>3, SMT DEF GoesUp, Size
<1>c. Rounded(100000) = 100000 /\ Rounded(-100000) = -100000
  <2>1. Rounded(100 * 1000) = 100 * 1000 /\ Rounded(100 * (-1000)) = 100 * (-1000)
    BY <1>b, SMT DEF Size
  <2> QED
    BY <2>1, SMT DEF Size
<1>1. CASE Size(v) < 10000
  BY <1>1, RoundedFour, SMT DEF Size
<1>2. CASE Size(v) >= 10000 /\ Size(v) < 100000
  <2>1. PICK p \in Int : Rounded(v) = 10 * p /\ Size(p) >= 1000 /\ Size(p) <= 10000
    <3>1. PICK q \in Int, r \in 0 .. 9 :
            v = 10 * q + r /\ Rounded(v) = IF GoesUp(v, r, 10) THEN 10 * q + 10 ELSE 10 * q
      BY <1>2, RoundedFive, SMT DEF Size
    <3>2. CASE GoesUp(v, r, 10)
      <4>1. Rounded(v) = 10 * (q + 1)
        BY <3>1, <3>2, SMT DEF Size
      <4>2. Size(q + 1) >= 1000 /\ Size(q + 1) <= 10000
        BY <1>2, <3>1, <3>2, SMT DEF Size, GoesUp
      <4> QED
        BY <4>1, <4>2, SMT DEF Size
    <3>3. CASE ~GoesUp(v, r, 10)
      BY <1>2, <3>1, <3>3, SMT DEF Size
    <3> QED
      BY <3>2, <3>3, SMT DEF Size
  <2>2. CASE Size(p) = 10000
    BY <1>c, <2>1, <2>2, SMT DEF Size
  <2>3. CASE Size(p) < 10000
    BY <1>a, <2>1, <2>3, SMT DEF Size
  <2> QED
    BY <2>1, <2>2, <2>3, SMT DEF Size
<1>3. CASE Size(v) >= 100000
  <2>1. PICK p \in Int : Rounded(v) = 100 * p /\ Size(p) >= 1000
    <3>1. PICK q \in Int, r \in 0 .. 99 :
            v = 100 * q + r /\ Rounded(v) = IF GoesUp(v, r, 100) THEN 100 * q + 100 ELSE 100 * q
      BY <1>3, RoundedMore, SMT DEF Size
    <3>2. CASE GoesUp(v, r, 100)
      <4>1. Rounded(v) = 100 * (q + 1) /\ Size(q + 1) >= 1000
        BY <1>3, <3>1, <3>2, SMT DEF Size, GoesUp
      <4> QED
        BY <4>1, SMT DEF Size
    <3>3. CASE ~GoesUp(v, r, 100)
      BY <1>3, <3>1, <3>3, SMT DEF Size
    <3> QED
      BY <3>2, <3>3, SMT DEF Size
  <2> QED
    BY <1>b, <2>1, SMT DEF Size
<1> QED
  BY <1>1, <1>2, <1>3, SMT DEF Size

\* ... and on the same side of the others.
LEMMA RoundedOrdered ==
  ASSUME NEW v \in Nat, NEW w \in Nat, v <= w, w <= 100000
  PROVE  Rounded(v) <= Rounded(w)
<1>a. ASSUME NEW x \in Nat, x >= 10000, x < 100000
      PROVE  Rounded(x) \in Int /\ Rounded(x) >= 10000 /\ Rounded(x) <= 100000
  <2>1. PICK q \in Int, r \in 0 .. 9 :
          x = 10 * q + r /\ Rounded(x) = IF GoesUp(x, r, 10) THEN 10 * q + 10 ELSE 10 * q
    BY <1>a, RoundedFive, SMT DEF Size
  <2> QED
    BY <1>a, <2>1, SMT DEF Size
<1>b. Rounded(100000) = 100000
  <2>1. Grain(100000) = 100 /\ 100000 % 100 = 0
    BY SMT DEF Grain, Size
  <2> QED
    BY <2>1, SMT DEF Rounded, Size
<1>1. CASE v <= 9999 /\ w <= 9999
  BY <1>1, RoundedFour, SMT DEF Size
<1>2. CASE v <= 9999 /\ w > 9999
  <2>1. Rounded(v) = v
    BY <1>2, RoundedFour, SMT DEF Size
  <2>2. Rounded(w) \in Int /\ Rounded(w) >= 10000
    BY <1>2, <1>a, <1>b, SMT DEF Size
  <2> QED
    BY <1>2, <2>1, <2>2, SMT DEF Size
<1>3. CASE v > 9999 /\ w = 100000
  BY <1>3, <1>a, <1>b, SMT DEF Size
<1>4. CASE v > 9999 /\ w < 100000
  <2>1. PICK q \in Int, r \in 0 .. 9 :
          v = 10 * q + r /\ Rounded(v) = IF GoesUp(v, r, 10) THEN 10 * q + 10 ELSE 10 * q
    BY <1>4, RoundedFive, SMT DEF Size
  <2>2. PICK p \in Int, s \in 0 .. 9 :
          w = 10 * p + s /\ Rounded(w) = IF GoesUp(w, s, 10) THEN 10 * p + 10 ELSE 10 * p
    BY <1>4, RoundedFive, SMT DEF Size
  <2>3. CASE q < p
    BY <2>1, <2>2, <2>3, SMT DEF Size
  <2>4. CASE q = p
    <3>1. GoesUp(v, r, 10) => GoesUp(w, s, 10)
      <4>1. CASE r = s
        BY <2>1, <2>2, <2>4, <4>1, SMT DEF Size
      <4>2. CASE r < s
        BY <2>1, <2>2, <4>2, SMT DEF GoesUp, Size
      <4> QED
        BY <2>1, <2>2, <2>4, <4>1, <4>2, SMT DEF Size
    <3> QED
      BY <2>1, <2>2, <2>4, <3>1, SMT DEF Size
  <2> QED
    BY <2>1, <2>2, <2>3, <2>4, SMT DEF Size
<1> QED
  BY <1>1, <1>2, <1>3, <1>4, SMT DEF Size

\* A whole speed is 1, 2 or 3 (coop_logic.c:315).
LEMMA IntPartWhole == ASSUME NEW v \in Int, IntPart(v) \in FanSpeeds
  PROVE IntPart(v) \in {1000, 2000, 3000}
<1> USE DEF FanSpeeds
<1>1. CASE v >= 0
  <2>1. PICK q \in Int : q = v \div 1000
    OBVIOUS
  <2>2. IntPart(v) = q * 1000
    BY <1>1, <2>1 DEF IntPart
  <2> QED
    BY <2>1, <2>2
<1>2. CASE v < 0
  <2>1. PICK q \in Int : q = (-v) \div 1000
    OBVIOUS
  <2>2. IntPart(v) = -(q * 1000)
    BY <1>2, <2>1 DEF IntPart
  <2> QED
    BY <2>1, <2>2
<1> QED
  BY <1>1, <1>2

(***************************************************************************)
(* Files.                                                                  *)
(***************************************************************************)

\* Payloads are tables of numbers.
LEMMA PayloadNumbers == \A p \in Payloads : \A k \in DOMAIN p : p[k] \in Int
<1>1. \A n \in Numbers : n \in Int
  BY DEF Numbers
<1>2. \A p \in Payloads : \A k \in DOMAIN p : p[k] \in Numbers
  BY CoopLogicAssumption
<1> QED
  BY <1>1, <1>2

\* What a save writes is a file (storage.c:275).
LEMMA SaveType ==
  ASSUME NEW c, IsCoops(c), NEW t, IsDevices(t)
  PROVE  IsFile(storage_save_farm(c, t))
<1> DEFINE f == storage_save_farm(c, t)
<1>1. \A i \in DOMAIN f.coops :
        i \in Int /\ i <= IntMax /\ f.coops[i] \in CoopNames \cup {Missing}
  BY ConfigAssumption DEF storage_save_farm, IsCoops, CoopIds, Written
<1>2. \A d \in DOMAIN f.devices :
        d \in DeviceIds /\ IsEntry(f.devices[d]) /\ f.devices[d].coop <= IntMax
  <2> SUFFICES ASSUME NEW d \in Saveable(c, t)
               PROVE  /\ d \in DeviceIds
                      /\ IsEntry(SavedDevice(t[d]))
                      /\ SavedDevice(t[d]).coop <= IntMax
    BY DEF storage_save_farm
  <2>1. d \in DeviceIds /\ IsDevice(t[d])
    BY DEF Saveable, IsDevices
  <2>2. [k \in DOMAIN t[d].cfg |-> Rounded(t[d].cfg[k])] \in [DOMAIN t[d].cfg -> Int]
    <3>1. \A k \in DOMAIN t[d].cfg : t[d].cfg[k] \in Int
      BY <2>1 DEF IsDevice
    <3> QED
      BY <3>1, RoundedInt
  <2>3. t[d].power \in Powers
    BY <2>1 DEF IsDevice, Powers
  <2> QED
    BY <2>1, <2>2, <2>3, ConfigAssumption DEF IsDevice, IsEntry, SavedDevice, Written
<1>3. f \in [status : {"absent", "ok", "corrupt"}, coops : {f.coops}, devices : {f.devices}]
  BY DEF storage_save_farm
<1> HIDE DEF f
<1> QED
  BY <1>1, <1>2, <1>3 DEF IsFile, f

\* An entry of the file under a coop that counts is loaded as a device
\* (storage.c:74).
LEMMA LoadedDeviceType ==
  ASSUME NEW e, IsEntry(e), e.coop > 0, e.coop <= IntMax
  PROVE  IsDevice(LoadedDevice(e))
<1>1. \A k \in Settings[e.type] : LoadedSetting(e, k) \in Int
  <2>1. \A k \in DOMAIN e.cfg : e.cfg[k] \in Int
    BY DEF IsEntry
  <2>2. \A v \in Int : IntPart(v) \in Int
    BY DEF IntPart
  <2> QED
    BY <2>1, <2>2 DEF LoadedSetting
<1>2. LoadedDevice(e).power \in IF e.type \in PoweredTypes THEN {"ON", "OFF"} ELSE {"-"}
  BY DEF LoadedDevice
<1>3. (IF e.password = Missing THEN DefaultPassword ELSE e.password) \in Passwords
  BY DevicesAssumption DEF IsEntry
<1>4. e.type \in DeviceTypes /\ e.coop \in 1 .. IntMax
  BY ConfigAssumption DEF IsEntry
<1> QED
  BY <1>1, <1>2, <1>3, <1>4 DEF LoadedDevice, IsDevice

\* The coops of a file that count have ids and names that a table takes
\* (storage.c:347-357).
LEMMA ListedNames ==
  ASSUME NEW f, IsFile(f)
  PROVE  /\ ListedCoops(f) \subseteq CoopIds
         /\ \A i \in ListedCoops(f) : LoadedName(f, i) \in CoopNames
<1>1. ListedCoops(f) \subseteq CoopIds
  BY ConfigAssumption DEF ListedCoops, IsFile, CoopIds
<1>2. ASSUME NEW i \in ListedCoops(f)
      PROVE  LoadedName(f, i) \in CoopNames
  <2>1. i \in CoopIds /\ i \in DOMAIN f.coops
    BY <1>1 DEF ListedCoops
  <2>2. f.coops[i] \in CoopNames \cup {Missing}
    BY <2>1 DEF IsFile
  <2>3. DefaultName(i) \in CoopNames
    BY <2>1 DEF CoopNames
  <2> QED
    BY <2>2, <2>3 DEF LoadedName
<1> QED
  BY <1>1, <1>2

\* Every farm that loading a file can give has well-typed tables (storage.c:321).
LEMMA LoadType ==
  ASSUME NEW f, IsFile(f), NEW farm \in storage_load_farm(f)
  PROVE  IsCoops(farm.coops) /\ IsDevices(farm.devices)
<1> DEFINE named == [i \in ListedCoops(f) |-> LoadedName(f, i)]
<1>1. PICK c \in Upserted(coops_init, named) :
        \E D \in Admitted({}, ListedDevices(f), MaxDevices) :
          farm = [coops |-> c, devices |-> [d \in D |-> LoadedDevice(f.devices[d])]]
  BY DEF storage_load_farm
<1>2. PICK D \in Admitted({}, ListedDevices(f), MaxDevices) :
        farm = [coops |-> c, devices |-> [d \in D |-> LoadedDevice(f.devices[d])]]
  BY <1>1
<1>3. IsCoops(coops_init)
  BY ConfigAssumption DEF IsCoops, coops_init, EmptyTable, IntMin
<1>4. DOMAIN named \subseteq CoopIds /\ \A i \in DOMAIN named : named[i] \in CoopNames
  BY ListedNames
<1>6. IsCoops(c)
  <2> HIDE DEF named
  <2> QED
    BY <1>1, <1>3, <1>4, UpsertedType
<1>7. ASSUME NEW d \in D
      PROVE  d \in DeviceIds /\ IsDevice(LoadedDevice(f.devices[d]))
  <2>1. d \in DOMAIN f.devices /\ f.devices[d].coop > 0
    BY DEF Admitted, ListedDevices
  <2>2. d \in DeviceIds /\ IsEntry(f.devices[d]) /\ f.devices[d].coop <= IntMax
    BY <2>1 DEF IsFile
  <2> QED
    BY <2>1, <2>2, LoadedDeviceType
<1>8. IsDevices(farm.devices)
  BY <1>2, <1>7 DEF IsDevices
<1> QED
  BY <1>2, <1>6, <1>8

(***************************************************************************)
(* Sessions.                                                               *)
(***************************************************************************)
IsSessions(s) == s \in [Slots -> [token : Tokens, dev : DeviceIds] \cup {NoSession}]

\* A login and a logout leave every slot free or with a session
\* (session_auth.c:28, 54).
LEMMA SessionsType ==
  ASSUME NEW s, IsSessions(s), NEW token \in Tokens, NEW d \in DeviceIds
  PROVE  /\ IsSessions(create_session(s, token, d))
         /\ IsSessions(end_session(s, token))
         /\ IsSessions(no_sessions)
BY DEF IsSessions, create_session, end_session, no_sessions

(***************************************************************************)
(* Type correctness.                                                       *)
(***************************************************************************)

\* What is left of the types when the process is gone, and what the tail of every
\* command that changes the farm keeps.
LEMMA SaveThenAnswerType ==
  ASSUME TypeOK, NEW c, IsCoops(c), NEW t, IsDevices(t), NEW code \in Replies,
         SaveThenAnswer(c, t, code)
  PROVE  TypeOK'
<1> PICK outcome \in {"saved"} \cup Faults :
      /\ disk' = CASE outcome = "saved" -> storage_save_farm(c, t)
                   [] outcome = "open_fails" -> disk
                   [] OTHER -> Truncated
      /\ IF outcome = "killed_in_save" THEN Dies
         ELSE /\ up' = up
              /\ g_coops' = c
              /\ g_devices' = t
              /\ sessions' = sessions
              /\ reply' = code
  BY DEF SaveThenAnswer
<1>1. IsFile(disk')
  <2>1. IsFile(Truncated)
    BY DEF IsFile, Truncated, EmptyTable
  <2>2. IsFile(storage_save_farm(c, t))
    BY SaveType
  <2> QED
    BY <2>1, <2>2 DEF TypeOK
<1>2. clock' \in Tokens
  BY DEF SaveThenAnswer, TypeOK
<1>3. CASE Dies
  <2>1. IsCoops(coops_init) /\ IsDevices(EmptyTable)
    BY ConfigAssumption DEF IsCoops, IsDevices, coops_init, EmptyTable, IntMin
  <2>2. no_sessions \in [Slots -> [token : Tokens, dev : DeviceIds] \cup {NoSession}]
    BY DEF no_sessions
  <2> QED
    BY <1>1, <1>2, <1>3, <2>1, <2>2 DEF TypeOK, Dies, Replies
<1>4. CASE ~Dies
  BY <1>1, <1>2, <1>4 DEF TypeOK
<1> QED
  BY <1>3, <1>4

\* An answer that changes nothing keeps the types.
LEMMA AnswerType ==
  ASSUME TypeOK, NEW code \in Replies, Answer(code)
  PROVE  TypeOK'
BY DEF TypeOK, Answer

\* COOP_ADD, COOP_LIST and a malformed command keep the types (coop_logic.c:125-164).
LEMMA CoopCommandType ==
  ASSUME TypeOK
  PROVE  /\ Malformed \/ CoopList => TypeOK'
         /\ \A name \in Names \cup {""} : CoopAdd(name) => TypeOK'
<1> USE DEF Replies, Changes
<1>1. Malformed \/ CoopList => TypeOK'
  BY AnswerType DEF Malformed, CoopList
<1>2. ASSUME NEW name \in Names \cup {""}, CoopAdd(name)
      PROVE  TypeOK'
  <2>1. CASE ~CanAddCoop(g_coops, name)
    BY <1>2, <2>1, AnswerType DEF CoopAdd
  <2>2. CASE CanAddCoop(g_coops, name)
    <3>1. name \in Names
      BY <2>2 DEF CanAddCoop
    <3>2. PICK coops \in coops_add(g_coops, name) :
            SaveThenAnswer(coops, g_devices, "COOPADD_OK")
      BY <1>2, <2>2 DEF CoopAdd
    <3>3. IsCoops(coops)
      BY <3>1, CoopsAddType DEF TypeOK
    <3> QED
      BY <3>2, <3>3, SaveThenAnswerType DEF TypeOK
  <2> QED
    BY <2>1, <2>2
<1> QED
  BY <1>1, <1>2

\* The commands on devices keep the types: one step per command of handle_command
\* (coop_logic.c:165-481).
LEMMA CommandType ==
  ASSUME TypeOK, NEW d \in DeviceIds, NEW token \in Tokens
  PROVE  /\ \A pw \in Passwords : Connect(d, pw) => TypeOK'
         /\ Info(d, token) \/ Bye(d, token) => TypeOK'
         /\ \A action \in Actions, p \in Payloads : Control(d, token, action, p) => TypeOK'
         /\ \A p \in Payloads : SetCfg(d, token, p) => TypeOK'
         /\ \A old_pw, new_pw \in Passwords : ChPass(d, token, old_pw, new_pw) => TypeOK'
         /\ \A type \in NewTypes, pw \in Passwords, coop \in CoopArgs :
              AddDevice(d, type, pw, coop) => TypeOK'
         /\ \A coop \in CoopArgs : Assign(d, coop) => TypeOK'
<1> USE DEF Replies, Changes
<1>a. /\ IsCoops(g_coops)
      /\ IsDevices(g_devices)
      /\ \A x \in DOMAIN g_devices : IsDevice(g_devices[x])
  BY DEF TypeOK, IsDevices
<1>b. \A code \in Replies : Rejected(d, code) => TypeOK'
  BY AnswerType DEF Rejected
<1>c. Refused(token, d) => TypeOK'
  BY AnswerType DEF Refused
<1>3. ASSUME NEW pw \in Passwords, Connect(d, pw)
      PROVE  TypeOK'
  <2>1. CASE Answer("BAD_REQUEST")
    BY <2>1, AnswerType
  <2>2. CASE Rejected(d, "WRONG_PASSWORD")
    BY <2>2, <1>b
  <2>3. CASE /\ sessions' = create_session(sessions, generate_token(clock), d)
             /\ reply' = "CONNECT_OK"
             /\ UNCHANGED <<up, g_coops, g_devices, disk, clock>>
    <3>1. IsSessions(sessions) /\ generate_token(clock) \in Tokens
      BY DEF TypeOK, IsSessions, generate_token
    <3>2. IsSessions(create_session(sessions, generate_token(clock), d))
      BY <3>1, SessionsType
    <3> QED
      BY <2>3, <3>2 DEF TypeOK, IsSessions
  <2> QED
    BY <1>3, <2>1, <2>2, <2>3 DEF Connect
<1>4. ASSUME Info(d, token)
      PROVE  TypeOK'
  BY <1>4, <1>b, <1>c, AnswerType DEF Info
<1>5. ASSUME NEW action \in Actions, NEW p \in Payloads, Control(d, token, action, p)
      PROVE  TypeOK'
  <2> DEFINE q == PayloadOf(d, action, p)
             dev == Controlled(g_devices[d], action, q)
  <2>1. CASE ControlServed(d, action, q)
             /\ SaveThenAnswer(g_coops, With(g_devices, d, dev), "CONTROL_OK")
    <3>1. \A k \in DOMAIN q : q[k] \in Int
      BY PayloadNumbers DEF PayloadOf, EmptyTable
    <3>2. IsDevice(g_devices[d]) /\ ControlAccepted(g_devices[d], action, q)
      BY <2>1, <1>a DEF ControlServed
    <3> HIDE DEF q
    <3>3. IsDevice(dev)
      BY <3>1, <3>2, ControlledType
    <3> HIDE DEF dev
    <3>4. IsDevices(With(g_devices, d, dev))
      BY <1>a, <3>3, WithDevice
    <3> QED
      BY <1>a, <2>1, <3>4, SaveThenAnswerType
  <2> QED
    BY <1>5, <2>1, <1>b, <1>c DEF Control
<1>6. ASSUME NEW p \in Payloads, SetCfg(d, token, p)
      PROVE  TypeOK'
  <2> DEFINE dev == Configured(g_devices[d], p)
  <2>1. CASE SetCfgServed(d, p)
             /\ SaveThenAnswer(g_coops, With(g_devices, d, dev), "SETCFG_OK")
    <3>1. \A k \in DOMAIN p : p[k] \in Int
      BY PayloadNumbers
    <3>2. IsDevice(g_devices[d]) /\ SetCfgAccepted(g_devices[d], p)
      BY <2>1, <1>a DEF SetCfgServed
    <3>3. IsDevice(dev)
      BY <3>1, <3>2, ConfiguredType
    <3> HIDE DEF dev
    <3>4. IsDevices(With(g_devices, d, dev))
      BY <1>a, <3>3, WithDevice
    <3> QED
      BY <1>a, <2>1, <3>4, SaveThenAnswerType
  <2> QED
    BY <1>6, <2>1, <1>b, <1>c DEF SetCfg
<1>7. ASSUME NEW old_pw \in Passwords, NEW new_pw \in Passwords,
             ChPass(d, token, old_pw, new_pw)
      PROVE  TypeOK'
  <2> DEFINE dev == devices_change_password(g_devices[d], new_pw)
  <2>1. CASE PasswordIs(d, old_pw)
             /\ SaveThenAnswer(g_coops, With(g_devices, d, dev), "PASS_OK")
    <3>1. IsDevice(g_devices[d])
      BY <2>1, <1>a DEF PasswordIs
    <3>2. IsDevice(dev)
      BY <3>1 DEF IsDevice, devices_change_password
    <3> HIDE DEF dev
    <3>3. IsDevices(With(g_devices, d, dev))
      BY <1>a, <3>2, WithDevice
    <3> QED
      BY <1>a, <2>1, <3>3, SaveThenAnswerType
  <2> QED
    BY <1>7, <2>1, <1>b, <1>c DEF ChPass
<1>8. ASSUME Bye(d, token)
      PROVE  TypeOK'
  <2>1. CASE /\ sessions' = end_session(sessions, token)
             /\ reply' = "BYE_OK"
             /\ UNCHANGED <<up, g_coops, g_devices, disk, clock>>
    <3>1. IsSessions(end_session(sessions, token))
      BY SessionsType DEF TypeOK, IsSessions
    <3> QED
      BY <2>1, <3>1 DEF TypeOK, IsSessions
  <2> QED
    BY <1>8, <2>1, <1>c DEF Bye
<1>9. ASSUME NEW type \in NewTypes, NEW pw \in Passwords, NEW coop \in CoopArgs,
             AddDevice(d, type, pw, coop)
      PROVE  TypeOK'
  <2>1. CASE Answer("BAD_REQUEST")
    BY <2>1, AnswerType
  <2>2. CASE CanAdd(d, type, coop)
             /\ SaveThenAnswer(g_coops, With(g_devices, d, NewDevice(type, pw, coop)),
                               "ADD_OK")
    <3>1. coop \in 1 .. IntMax
      BY <2>2, <1>a, CoopIdIsInt DEF CanAdd
    <3>2. IsDevice(NewDevice(type, pw, coop))
      BY <3>1, CoopLogicAssumption, NewDeviceType
    <3>3. IsDevices(With(g_devices, d, NewDevice(type, pw, coop)))
      BY <1>a, <3>2, WithDevice
    <3> QED
      BY <1>a, <2>2, <3>3, SaveThenAnswerType
  <2> QED
    BY <1>9, <2>1, <2>2 DEF AddDevice
<1>10. ASSUME NEW coop \in CoopArgs, Assign(d, coop)
       PROVE  TypeOK'
  <2> DEFINE dev == [g_devices[d] EXCEPT !.coop = coop]
  <2>1. CASE Answer(AssignRefusal(d, coop))
    BY <2>1, AnswerType DEF AssignRefusal
  <2>2. CASE CanAssign(d, coop)
             /\ SaveThenAnswer(g_coops, With(g_devices, d, dev), "ASSIGN_OK")
    <3>1. coop \in 1 .. IntMax /\ IsDevice(g_devices[d])
      BY <2>2, <1>a, CoopIdIsInt DEF CanAssign
    <3>2. IsDevice(dev)
      BY <3>1 DEF IsDevice
    <3> HIDE DEF dev
    <3>3. IsDevices(With(g_devices, d, dev))
      BY <1>a, <3>2, WithDevice
    <3> QED
      BY <1>a, <2>2, <3>3, SaveThenAnswerType
  <2> QED
    BY <1>10, <2>1, <2>2 DEF Assign
<1> QED
  BY <1>3, <1>4, <1>5, <1>6, <1>7, <1>8, <1>9, <1>10

\* Merging the devices of a file into the table gives a table that has lost none,
\* and has the ones it had as they were (coop_logic.c:29).
LEMMA MergedType ==
  ASSUME NEW t, IsDevices(t), NEW u, IsDevices(u), NEW r \in MergedDevices(t, u)
  PROVE  /\ IsDevices(r)
         /\ DOMAIN t \subseteq DOMAIN r
         /\ \A d \in DOMAIN t : r[d] = t[d]
<1>1. PICK S \in Admitted(DOMAIN t, DOMAIN u, MaxDevices) : r = Appended(t, u, S)
  BY DEF MergedDevices
<1>2. S \subseteq DOMAIN u
  BY DEF Admitted
<1> QED
  BY <1>1, <1>2 DEF Appended, IsDevices

\* SCAN, the start and the end of the process keep the types.
LEMMA ProcessType ==
  ASSUME TypeOK
  PROVE  Scan \/ Start \/ Crash => TypeOK'
<1> USE DEF Replies, Changes
<1>1. IsCoops(coops_init) /\ IsDevices(EmptyTable)
  BY ConfigAssumption DEF IsCoops, IsDevices, coops_init, EmptyTable, IntMin
<1>2. \A farm \in storage_load_farm(disk) : IsCoops(farm.coops) /\ IsDevices(farm.devices)
  BY LoadType DEF TypeOK
<1>3. no_sessions \in [Slots -> [token : Tokens, dev : DeviceIds] \cup {NoSession}]
  BY DEF no_sessions
<1>4. ASSUME Scan
      PROVE  TypeOK'
  <2>1. IsCoops(g_coops)' /\ IsDevices(g_devices)'
    <3>1. CASE ~Readable(disk)
      BY <1>4, <3>1 DEF Scan, merge_farm_from_disk, TypeOK
    <3>2. CASE Readable(disk)
      <4>1. PICK farm \in storage_load_farm(disk) :
              /\ g_coops' \in Upserted(g_coops, farm.coops.name)
              /\ g_devices' \in MergedDevices(g_devices, farm.devices)
        BY <1>4, <3>2 DEF Scan, merge_farm_from_disk
      <4>2. DOMAIN farm.coops.name \subseteq CoopIds
            /\ \A i \in DOMAIN farm.coops.name : farm.coops.name[i] \in CoopNames
        BY <1>2 DEF IsCoops
      <4>3. IsCoops(g_coops')
        BY <4>1, <4>2, UpsertedType DEF TypeOK
      <4>4. IsDevices(g_devices')
        BY <1>2, <4>1, MergedType DEF TypeOK
      <4> QED
        BY <4>3, <4>4
    <3> QED
      BY <3>1, <3>2
  <2> QED
    BY <1>4, <2>1 DEF Scan, TypeOK
<1>5. ASSUME Start
      PROVE  TypeOK'
  <2>1. IsCoops(g_coops)' /\ IsDevices(g_devices)'
    <3>1. CASE ~Readable(disk)
      BY <1>1, <1>5, <3>1 DEF Start, coop_logic_init
    <3>2. CASE Readable(disk)
      <4>1. PICK farm \in storage_load_farm(disk) :
              g_coops' = sanitize_coop_names(farm.coops) /\ g_devices' = farm.devices
        BY <1>5, <3>2 DEF Start, coop_logic_init
      <4>2. \A i \in CoopIds : DefaultName(i) \in CoopNames
        BY DEF CoopNames
      <4>3. IsCoops(sanitize_coop_names(farm.coops))
        BY <1>2, <4>2 DEF sanitize_coop_names, IsCoops
      <4> QED
        BY <1>2, <4>1, <4>3
    <3> QED
      BY <3>1, <3>2
  <2> QED
    BY <1>3, <1>5, <2>1 DEF Start, TypeOK
<1>6. ASSUME Crash
      PROVE  TypeOK'
  BY <1>1, <1>3, <1>6 DEF Crash, Dies, TypeOK
<1> QED
  BY <1>4, <1>5, <1>6

\* The clock and the people who edit the file keep the types.
LEMMA WorldType ==
  ASSUME TypeOK
  PROVE  Tick \/ HandWritesCoop \/ HandAddsDevice => TypeOK'
<1> USE DEF Replies
<1>1. ASSUME Tick
      PROVE  TypeOK'
  BY <1>1, CoopLogicAssumption DEF Tick, TypeOK, Tokens
<1>2. ASSUME HandWritesCoop
      PROVE  TypeOK'
  <2>1. PICK h \in HandCoops :
          HandEdit([disk EXCEPT !.status = "ok", !.coops = With(disk.coops, h.id, h.name)])
    BY <1>2 DEF HandWritesCoop
  <2>2. h.id \in Int /\ h.id <= IntMax /\ h.name \in CoopNames \cup {Missing}
    BY CoopLogicAssumption DEF CoopNames
  <2>3. IsFile(disk')
    BY <2>1, <2>2 DEF HandEdit, TypeOK, IsFile, With
  <2> QED
    BY <2>1, <2>3 DEF HandEdit, TypeOK
<1>3. ASSUME HandAddsDevice
      PROVE  TypeOK'
  <2>1. PICK h \in HandDevices :
          HandEdit([disk EXCEPT !.devices = With(disk.devices, h.id, h.entry)])
    BY <1>3 DEF HandAddsDevice
  <2>2. h.id \in DeviceIds /\ IsEntry(h.entry) /\ h.entry.coop <= IntMax
    BY CoopLogicAssumption
  <2>3. IsFile(disk')
    BY <2>1, <2>2 DEF HandEdit, TypeOK, IsFile, With
  <2> QED
    BY <2>1, <2>3 DEF HandEdit, TypeOK
<1> QED
  BY <1>1, <1>2, <1>3

\* A command about device d.
DeviceCommand(d) ==
  \/ \E pw \in Passwords : Connect(d, pw)
  \/ \E token \in Tokens : Info(d, token) \/ Bye(d, token)
  \/ \E token \in Tokens, action \in Actions, p \in Payloads : Control(d, token, action, p)
  \/ \E token \in Tokens, p \in Payloads : SetCfg(d, token, p)
  \/ \E token \in Tokens, old_pw, new_pw \in Passwords : ChPass(d, token, old_pw, new_pw)
  \/ \E type \in NewTypes, pw \in Passwords, coop \in CoopArgs : AddDevice(d, type, pw, coop)
  \/ \E coop \in CoopArgs : Assign(d, coop)

\* The first state has the types, and every step keeps them.
LEMMA InitTypes ==
  ASSUME Init
  PROVE  TypeOK
<1>1. IsCoops(g_coops) /\ IsDevices(g_devices)
  BY ConfigAssumption DEF Init, IsCoops, IsDevices, coops_init, EmptyTable, IntMin
<1>2. IsFile(disk)
  BY DEF Init, IsFile, NoFile, EmptyTable
<1>3. sessions \in [Slots -> [token : Tokens, dev : DeviceIds] \cup {NoSession}]
  BY DEF Init, no_sessions
<1>4. clock \in Tokens
  BY CoopLogicAssumption DEF Init, Tokens
<1>5. up \in BOOLEAN /\ reply \in Replies
  BY DEF Init, Replies
<1> QED
  BY <1>1, <1>2, <1>3, <1>4, <1>5 DEF TypeOK

\* Every step keeps the state well typed.
LEMMA StepTypes ==
  ASSUME TypeOK, [Next]_vars
  PROVE  TypeOK'
<1>1. CASE Server
  <2>1. CASE Malformed \/ CoopList
    BY <2>1, CoopCommandType
  <2>2. CASE \E name \in Names \cup {""} : CoopAdd(name)
    BY <2>2, CoopCommandType
  <2>3. CASE Scan \/ Start \/ Crash
    BY <2>3, ProcessType
  <2>4. CASE \E d \in DeviceIds : DeviceCommand(d)
    <3> PICK d \in DeviceIds : DeviceCommand(d)
      BY <2>4
    <3>1. 0 \in Tokens
      BY CoopLogicAssumption DEF Tokens
    <3> QED
      BY <3>1, CommandType DEF DeviceCommand
  <2> QED
    BY <1>1, <2>1, <2>2, <2>3, <2>4 DEF Server, DeviceCommand
<1>2. CASE Tick \/ HandWritesCoop \/ HandAddsDevice
  BY <1>2, WorldType
<1>3. CASE UNCHANGED vars
  BY <1>3 DEF vars, TypeOK
<1> QED
  BY <1>1, <1>2, <1>3 DEF Next

\* In every reachable state the variables have their types: a device has a power
\* state and settings exactly when its type has them, however commands, saves,
\* hand edits and loads made it (devices.h:79).
THEOREM TypeCorrect == Spec => []TypeOK
BY InitTypes, StepTypes, PTL DEF Spec

(***************************************************************************)
(* What a step can be, seen from the tables: the lemma that the invariants *)
(* below rest on.                                                          *)
(***************************************************************************)
Quiet == UNCHANGED <<up, g_coops, g_devices, sessions>>

CoopAdded ==
  /\ \E name \in Names : CanAddCoop(g_coops, name) /\ g_coops' \in coops_add(g_coops, name)
  /\ UNCHANGED <<up, g_devices, sessions>>

DeviceAdded ==
  /\ \E d \in DeviceIds, type \in NewTypes, pw \in Passwords, coop \in CoopArgs :
       /\ CanAdd(d, type, coop)
       /\ g_devices' = With(g_devices, d, NewDevice(type, pw, coop))
  /\ UNCHANGED <<up, g_coops, sessions>>

DeviceMoved ==
  /\ \E d \in DeviceIds, coop \in CoopArgs :
       /\ CanAssign(d, coop)
       /\ g_devices' = With(g_devices, d, [g_devices[d] EXCEPT !.coop = coop])
  /\ UNCHANGED <<up, g_coops, sessions>>

\* The speed of a fan is one of its three, not a fraction of one.
WholeSpeed(dev) == dev.type = "fan" => dev.cfg["toc_do"] \in {1000, 2000, 3000}

\* By a client with a session of the device.
DeviceAltered ==
  /\ \E d \in DOMAIN g_devices :
       /\ \E s \in Active(sessions) : sessions[s].dev = d
       /\ \E dev \in {g_devices'[d]} :
            /\ IsDevice(dev)
            /\ InRange(g_devices[d]) => InRange(dev)
            /\ WholeSpeed(g_devices[d]) => WholeSpeed(dev)
            /\ dev.type = g_devices[d].type
            /\ dev.coop = g_devices[d].coop
            /\ g_devices' = With(g_devices, d, dev)
  /\ UNCHANGED <<up, g_coops, sessions>>

LoggedIn ==
  /\ \E d \in DOMAIN g_devices :
       sessions' = create_session(sessions, generate_token(clock), d)
  /\ UNCHANGED <<up, g_coops, g_devices>>

LoggedOut ==
  /\ \E token \in Tokens : sessions' = end_session(sessions, token)
  /\ UNCHANGED <<up, g_coops, g_devices>>

\* The tail of a command either kills the process or leaves the new tables in
\* memory, whatever became of the save (coop_logic.c:285).
LEMMA SaveOutcome ==
  ASSUME NEW c, NEW t, NEW code, SaveThenAnswer(c, t, code)
  PROVE  \/ Dies
         \/ g_coops' = c /\ g_devices' = t /\ UNCHANGED <<up, sessions>>
BY DEF SaveThenAnswer

\* A token that is valid for a device comes from an active session of that device
\* (session_auth.c:43).
LEMMA ConnectedHasSession ==
  ASSUME NEW d, NEW token, Connected(token, d)
  PROVE  \E s \in Active(sessions) : sessions[s].dev = d
BY DEF Connected, Validated, IsFirst, Holding

\* CONTROL and SETCFG accept only values in range, and thresholds in order
\* (devices.c:167, 241).
LEMMA ControlledInRange ==
  ASSUME NEW dev, IsDevice(dev), InRange(dev), NEW action \in Actions, NEW p,
         ControlAccepted(dev, action, p)
  PROVE  InRange(Controlled(dev, action, p))
<1>1. CASE action \notin NowActions
  <2>1. /\ Controlled(dev, action, p).cfg = dev.cfg
        /\ Controlled(dev, action, p).type = dev.type
    BY <1>1 DEF Controlled, IsDevice
  <2> QED
    BY <2>1 DEF InRange
<1>2. CASE action \in NowActions
  <2>1. /\ dev.type = NowType[action]
        /\ \A k \in NowSettings[action] : p[k] \in Limit[k]
    BY <1>2 DEF ControlAccepted, NowAccepted
  <2>2. PICK new : new = Controlled(dev, action, p)
    OBVIOUS
  <2>3. /\ new.cfg = [k \in DOMAIN dev.cfg |->
                        IF k \in NowSettings[action] THEN p[k] ELSE dev.cfg[k]]
        /\ new.type = dev.type
    BY <1>2, <2>2 DEF Controlled, IsDevice
  <2>4. \A k \in DOMAIN new.cfg : new.cfg[k] \in Limit[k]
    BY <2>1, <2>3 DEF InRange
  <2>5. Ordered(new.type, new.cfg)
    <3>1. dev.type # "heater"
      BY <1>2, <2>1 DEF NowType, NowActions, Actions
    <3>2. ASSUME dev.type = "sprayer"
          PROVE  /\ new.cfg["do_am_bat_pct"] = dev.cfg["do_am_bat_pct"]
                 /\ new.cfg["do_am_muc_tieu_pct"] = dev.cfg["do_am_muc_tieu_pct"]
      <4>1. action = "SPRAY_NOW"
        BY <1>2, <2>1, <3>2 DEF NowType, NowActions, Actions
      <4>2. /\ "do_am_bat_pct" \in DOMAIN dev.cfg
            /\ "do_am_muc_tieu_pct" \in DOMAIN dev.cfg
        BY <3>2 DEF IsDevice, Settings, DeviceTypes, KnownTypes, PoweredTypes
      <4> QED
        BY <2>3, <4>1, <4>2 DEF NowSettings
    <3> QED
      BY <2>3, <3>1, <3>2 DEF InRange, Ordered
  <2> QED
    BY <2>2, <2>4, <2>5 DEF InRange
<1> QED
  BY <1>1, <1>2

\* SETCFG leaves the settings in range.
LEMMA ConfiguredInRange ==
  ASSUME NEW dev, IsDevice(dev), NEW p, SetCfgAccepted(dev, p)
  PROVE  InRange(Configured(dev, p))
<1>1. /\ Configured(dev, p).cfg = Given(dev.type, p)
      /\ Configured(dev, p).type = dev.type
  BY DEF Configured, IsDevice
<1>2. DOMAIN Given(dev.type, p) = Settings[dev.type]
  BY DEF Given
<1> QED
  BY <1>1, <1>2 DEF InRange, SetCfgAccepted

\* But for the speed, a limit is 0 and a round number (devices.c:21).
LimitTops ==
  {LIMIT_TEMP_MAX_C, LIMIT_HUM_MAX_PCT, LIMIT_SPRAY_MAX_LPH, LIMIT_FEED_MAX_KG,
   LIMIT_WATER_MAX_L}

LEMMA LimitShape ==
  /\ Limit["toc_do"] = FanSpeeds
  /\ \A k \in DOMAIN Limit : k # "toc_do" => \E top \in LimitTops : Limit[k] = 0 .. top
<1>1. Limit["toc_do"] = FanSpeeds
  BY DEF Limit
<1>2. ASSUME NEW k \in DOMAIN Limit, k # "toc_do"
      PROVE  \E top \in LimitTops : Limit[k] = 0 .. top
  BY <1>2 DEF Limit, LimitTops
<1> QED
  BY <1>1, <1>2

\* CONTROL leaves the speed of a fan alone, and SETCFG drops its fraction
\* (coop_logic.c:315).
LEMMA SpeedStaysWhole ==
  ASSUME NEW dev, IsDevice(dev), NEW p
  PROVE  /\ \A action \in Actions : ControlAccepted(dev, action, p) /\ WholeSpeed(dev)
              => WholeSpeed(Controlled(dev, action, p))
         /\ (\A k \in DOMAIN p : p[k] \in Int) /\ SetCfgAccepted(dev, p)
              => WholeSpeed(Configured(dev, p))
<1> USE DEF WholeSpeed
<1>1. ASSUME NEW action \in Actions, ControlAccepted(dev, action, p), WholeSpeed(dev)
      PROVE  WholeSpeed(Controlled(dev, action, p))
  <2>1. CASE action \notin NowActions
    <3>1. /\ Controlled(dev, action, p).cfg = dev.cfg
          /\ Controlled(dev, action, p).type = dev.type
      BY <2>1 DEF Controlled, IsDevice
    <3> QED
      BY <1>1, <3>1
  <2>2. CASE action \in NowActions
    <3>1. dev.type # "fan"
      BY <1>1, <2>2 DEF ControlAccepted, NowAccepted, NowType, NowActions, Actions
    <3>2. Controlled(dev, action, p).type = dev.type
      BY <2>2 DEF Controlled, IsDevice
    <3> QED
      BY <3>1, <3>2
  <2> QED
    BY <2>1, <2>2
<1>2. ASSUME \A k \in DOMAIN p : p[k] \in Int, SetCfgAccepted(dev, p), dev.type = "fan"
      PROVE  Given("fan", p)["toc_do"] \in {1000, 2000, 3000}
  <2>1. "toc_do" \in Settings["fan"]
    BY DEF Settings, DeviceTypes, KnownTypes, PoweredTypes
  <2>2. "toc_do" \in DOMAIN p /\ Given("fan", p)["toc_do"] \in Limit["toc_do"]
    BY <1>2, <2>1, Zenon DEF SetCfgAccepted
  <2>3. Given("fan", p)["toc_do"] = IntPart(p["toc_do"])
    BY <2>1 DEF Given
  <2>4. PICK v \in Int : v = p["toc_do"]
    BY <1>2, <2>2
  <2>5. IntPart(v) \in FanSpeeds
    BY <2>2, <2>3, <2>4, LimitShape
  <2> QED
    BY <2>3, <2>4, <2>5, IntPartWhole
<1>3. /\ Configured(dev, p).cfg = Given(dev.type, p)
      /\ Configured(dev, p).type = dev.type
  BY DEF Configured, IsDevice
<1> QED
  BY <1>1, <1>2, <1>3

\* A command of a connected client that stores dev for d.
LEMMA AlteredStep ==
  ASSUME TypeOK, NEW d \in DOMAIN g_devices, NEW token, Connected(token, d),
         NEW dev, IsDevice(dev), dev.type = g_devices[d].type,
         dev.coop = g_devices[d].coop,
         InRange(g_devices[d]) => InRange(dev),
         WholeSpeed(g_devices[d]) => WholeSpeed(dev),
         NEW code, SaveThenAnswer(g_coops, With(g_devices, d, dev), code)
  PROVE  Dies \/ DeviceAltered
<1> SUFFICES ASSUME /\ g_coops' = g_coops /\ UNCHANGED <<up, sessions>>
                    /\ g_devices' = With(g_devices, d, dev)
             PROVE  DeviceAltered
  BY SaveOutcome
<1>1. g_devices'[d] = dev
  BY DEF With
<1>2. \E s \in Active(sessions) : sessions[s].dev = d
  BY ConnectedHasSession
<1> QED
  BY <1>1, <1>2 DEF DeviceAltered

\* An answer alone changes no table.
LEMMA AnswersAreQuiet ==
  /\ \A code : Answer(code) => Quiet
  /\ \A d, code : Rejected(d, code) => Quiet
  /\ \A d, token : Refused(token, d) => Quiet
BY DEF Answer, Rejected, Refused, Quiet

\* What each command about a device can do to the tables.
LEMMA ConnectShape ==
  ASSUME NEW d \in DeviceIds, NEW pw \in Passwords, Connect(d, pw)
  PROVE  Quiet \/ LoggedIn
<1>1. CASE PasswordIs(d, pw)
           /\ sessions' = create_session(sessions, generate_token(clock), d)
           /\ UNCHANGED <<up, g_coops, g_devices>>
  BY <1>1 DEF LoggedIn, PasswordIs
<1> QED
  BY <1>1, AnswersAreQuiet DEF Connect

\* CONTROL alters the one device whose token it carries.
LEMMA ControlShape ==
  ASSUME TypeOK, NEW d \in DeviceIds, NEW token \in Tokens, NEW action \in Actions,
         NEW p \in Payloads, Control(d, token, action, p)
  PROVE  Quiet \/ Dies \/ DeviceAltered
<1> DEFINE q == PayloadOf(d, action, p)
           dev == Controlled(g_devices[d], action, q)
<1>1. CASE /\ Connected(token, d) /\ ControlServed(d, action, q)
           /\ SaveThenAnswer(g_coops, With(g_devices, d, dev), "CONTROL_OK")
  <2>1. \A k \in DOMAIN q : q[k] \in Int
    BY PayloadNumbers DEF PayloadOf, EmptyTable
  <2>2. d \in DOMAIN g_devices /\ IsDevice(g_devices[d])
        /\ ControlAccepted(g_devices[d], action, q)
    BY <1>1 DEF ControlServed, TypeOK, IsDevices
  <2> HIDE DEF q
  <2>3. IsDevice(dev)
    BY <2>1, <2>2, ControlledType
  <2>4. dev.type = g_devices[d].type /\ dev.coop = g_devices[d].coop
    BY <2>2 DEF Controlled, IsDevice
  <2>5. InRange(g_devices[d]) => InRange(dev)
    BY <2>2, ControlledInRange
  <2>6. WholeSpeed(g_devices[d]) => WholeSpeed(dev)
    BY <2>2, SpeedStaysWhole
  <2> HIDE DEF dev
  <2> QED
    BY <1>1, <2>2, <2>3, <2>4, <2>5, <2>6, AlteredStep
<1> QED
  BY <1>1, AnswersAreQuiet DEF Control

\* So does SETCFG.
LEMMA SetCfgShape ==
  ASSUME TypeOK, NEW d \in DeviceIds, NEW token \in Tokens, NEW p \in Payloads,
         SetCfg(d, token, p)
  PROVE  Quiet \/ Dies \/ DeviceAltered
<1> DEFINE dev == Configured(g_devices[d], p)
<1>1. CASE /\ Connected(token, d) /\ SetCfgServed(d, p)
           /\ SaveThenAnswer(g_coops, With(g_devices, d, dev), "SETCFG_OK")
  <2>1. \A k \in DOMAIN p : p[k] \in Int
    BY PayloadNumbers
  <2>2. d \in DOMAIN g_devices /\ IsDevice(g_devices[d])
        /\ SetCfgAccepted(g_devices[d], p)
    BY <1>1 DEF SetCfgServed, TypeOK, IsDevices
  <2>3. IsDevice(dev)
    BY <2>1, <2>2, ConfiguredType
  <2>4. dev.type = g_devices[d].type /\ dev.coop = g_devices[d].coop
    BY <2>2 DEF Configured, IsDevice
  <2>5. InRange(dev)
    BY <2>2, ConfiguredInRange
  <2>6. WholeSpeed(dev)
    BY <2>1, <2>2, SpeedStaysWhole
  <2> HIDE DEF dev
  <2> QED
    BY <1>1, <2>2, <2>3, <2>4, <2>5, <2>6, AlteredStep
<1> QED
  BY <1>1, AnswersAreQuiet DEF SetCfg

\* So does CHPASS.
LEMMA ChPassShape ==
  ASSUME TypeOK, NEW d \in DeviceIds, NEW token \in Tokens, NEW old_pw \in Passwords,
         NEW new_pw \in Passwords, ChPass(d, token, old_pw, new_pw)
  PROVE  Quiet \/ Dies \/ DeviceAltered
<1> DEFINE dev == devices_change_password(g_devices[d], new_pw)
<1>1. CASE /\ Connected(token, d) /\ PasswordIs(d, old_pw)
           /\ SaveThenAnswer(g_coops, With(g_devices, d, dev), "PASS_OK")
  <2>1. d \in DOMAIN g_devices /\ IsDevice(g_devices[d])
    BY <1>1 DEF PasswordIs, TypeOK, IsDevices
  <2>2. /\ IsDevice(dev)
        /\ dev.type = g_devices[d].type
        /\ dev.coop = g_devices[d].coop
        /\ dev.cfg = g_devices[d].cfg
    BY <2>1 DEF IsDevice, devices_change_password
  <2>3. /\ InRange(g_devices[d]) => InRange(dev)
        /\ WholeSpeed(g_devices[d]) => WholeSpeed(dev)
    BY <2>2 DEF InRange, WholeSpeed
  <2> HIDE DEF dev
  <2> QED
    BY <1>1, <2>1, <2>2, <2>3, AlteredStep
<1> QED
  BY <1>1, AnswersAreQuiet DEF ChPass

\* ADD adds a device that was not there.
LEMMA AddDeviceShape ==
  ASSUME NEW d \in DeviceIds, NEW type \in NewTypes, NEW pw \in Passwords,
         NEW coop \in CoopArgs, AddDevice(d, type, pw, coop)
  PROVE  Quiet \/ Dies \/ DeviceAdded
<1>1. CASE CanAdd(d, type, coop)
           /\ SaveThenAnswer(g_coops, With(g_devices, d, NewDevice(type, pw, coop)),
                             "ADD_OK")
  <2>1. \/ Dies
        \/ /\ g_devices' = With(g_devices, d, NewDevice(type, pw, coop))
           /\ g_coops' = g_coops /\ UNCHANGED <<up, sessions>>
    BY <1>1, SaveOutcome
  <2> QED
    BY <1>1, <2>1 DEF DeviceAdded
<1> QED
  BY <1>1, AnswersAreQuiet DEF AddDevice

\* The same for the commands on devices together.
LEMMA DeviceCommandShape ==
  ASSUME TypeOK, NEW d \in DeviceIds, DeviceCommand(d)
  PROVE  \/ Quiet \/ Dies \/ LoggedIn \/ LoggedOut
         \/ DeviceAdded \/ DeviceMoved \/ DeviceAltered
<1>1. ASSUME NEW token \in Tokens, Info(d, token) \/ Bye(d, token)
      PROVE  Quiet \/ LoggedOut
  BY <1>1, AnswersAreQuiet DEF Info, Bye, LoggedOut
<1>2. ASSUME NEW coop \in CoopArgs, Assign(d, coop)
      PROVE  Quiet \/ Dies \/ DeviceMoved
  <2> DEFINE dev == [g_devices[d] EXCEPT !.coop = coop]
  <2>1. CASE CanAssign(d, coop)
             /\ SaveThenAnswer(g_coops, With(g_devices, d, dev), "ASSIGN_OK")
    <3>1. \/ Dies
          \/ /\ g_devices' = With(g_devices, d, dev)
             /\ g_coops' = g_coops /\ UNCHANGED <<up, sessions>>
      <4> HIDE DEF dev
      <4> QED
        BY <2>1, SaveOutcome
    <3> QED
      BY <2>1, <3>1 DEF DeviceMoved
  <2> QED
    BY <1>2, <2>1, AnswersAreQuiet DEF Assign
<1> QED
  BY <1>1, <1>2, ConnectShape, ControlShape, SetCfgShape, ChPassShape, AddDeviceShape
  DEF DeviceCommand

\* What any step can do to the tables.
LEMMA StepShape ==
  ASSUME TypeOK, [Next]_vars
  PROVE  \/ Quiet \/ Dies \/ Start \/ Scan \/ CoopAdded \/ LoggedIn \/ LoggedOut
         \/ DeviceAdded \/ DeviceMoved \/ DeviceAltered
<1>1. CASE Malformed \/ CoopList
  BY <1>1 DEF Malformed, CoopList, Answer, Quiet
<1>2. CASE \E name \in Names \cup {""} : CoopAdd(name)
  <2> PICK name \in Names \cup {""} : CoopAdd(name)
    BY <1>2
  <2>1. CASE ~CanAddCoop(g_coops, name)
    BY <2>1 DEF CoopAdd, Answer, Quiet
  <2>2. CASE CanAddCoop(g_coops, name)
    <3>1. PICK coops \in coops_add(g_coops, name) :
            SaveThenAnswer(coops, g_devices, "COOPADD_OK")
      BY <2>2 DEF CoopAdd
    <3>2. name \in Names
      BY <2>2 DEF CanAddCoop
    <3> QED
      BY <2>2, <3>1, <3>2, SaveOutcome DEF CoopAdded
  <2> QED
    BY <2>1, <2>2
<1>3. CASE \E d \in DeviceIds : DeviceCommand(d)
  BY <1>3, DeviceCommandShape
<1>4. CASE Crash
  BY <1>4 DEF Crash
<1>5. CASE Tick \/ HandWritesCoop \/ HandAddsDevice
  BY <1>5 DEF Tick, HandWritesCoop, HandAddsDevice, HandEdit, Quiet
<1>6. CASE UNCHANGED vars
  BY <1>6 DEF vars, Quiet
<1> QED
  BY <1>1, <1>2, <1>3, <1>4, <1>5, <1>6 DEF Next, Server, DeviceCommand

(***************************************************************************)
(* Sessions and the devices they are for.                                  *)
(***************************************************************************)

\* A SCAN keeps the devices of the memory as they are.
LEMMA ScanKeeps ==
  ASSUME TypeOK, Scan
  PROVE  /\ UNCHANGED <<up, sessions>>
         /\ DOMAIN g_devices \subseteq DOMAIN g_devices'
         /\ \A d \in DOMAIN g_devices : g_devices'[d] = g_devices[d]
<1>1. UNCHANGED <<up, sessions>>
  BY DEF Scan
<1>2. CASE g_devices' = g_devices
  BY <1>1, <1>2
<1>3. CASE \E farm \in storage_load_farm(disk) :
             g_devices' \in MergedDevices(g_devices, farm.devices)
  <2> PICK farm \in storage_load_farm(disk) :
        g_devices' \in MergedDevices(g_devices, farm.devices)
    BY <1>3
  <2>1. IsDevices(g_devices) /\ IsDevices(farm.devices)
    BY LoadType DEF TypeOK
  <2> QED
    BY <1>1, <2>1, MergedType
<1> QED
  BY <1>2, <1>3 DEF Scan, merge_farm_from_disk

\* No step but the end of the process takes a device out of the memory.
LEMMA DevicesStay ==
  ASSUME TypeOK, [Next]_vars
  PROVE  Dies \/ Start \/ DOMAIN g_devices \subseteq DOMAIN g_devices'
BY StepShape, ScanKeeps
DEF Quiet, CoopAdded, LoggedIn, LoggedOut, DeviceAdded, DeviceMoved, DeviceAltered, With

\* A session is always that of a device the server still has, so the NO_DEVICE
\* answers after a successful token check are dead code (coop_logic.c:201).
THEOREM SessionsAlwaysKnown == Spec => []SessionsKnown
<1>1. Init => SessionsKnown
  BY DEF Init, SessionsKnown, Active, no_sessions
<1>2. TypeOK /\ SessionsKnown /\ [Next]_vars => SessionsKnown'
  <2> SUFFICES ASSUME TypeOK, SessionsKnown, [Next]_vars PROVE SessionsKnown'
    OBVIOUS
  <2>1. CASE Dies \/ Start
    BY <2>1 DEF Dies, Start, SessionsKnown, Active, no_sessions
  <2>2. CASE DOMAIN g_devices \subseteq DOMAIN g_devices' /\ sessions' = sessions
    BY <2>2 DEF SessionsKnown, Active
  <2>3. CASE LoggedIn
    <3>1. PICK d \in DOMAIN g_devices :
            sessions' = create_session(sessions, generate_token(clock), d)
      BY <2>3 DEF LoggedIn
    <3> QED
      BY <2>3, <3>1 DEF LoggedIn, SessionsKnown, Active, create_session
  <2>4. CASE LoggedOut
    BY <2>4 DEF LoggedOut, SessionsKnown, Active, end_session
  <2>5. \/ Dies \/ Start \/ LoggedIn \/ LoggedOut \/ sessions' = sessions
    BY StepShape, ScanKeeps DEF Quiet, CoopAdded, DeviceAdded, DeviceMoved, DeviceAltered
  <2> QED
    BY <2>1, <2>2, <2>3, <2>4, <2>5, DevicesStay
<1> QED
  BY <1>1, <1>2, TypeCorrect, PTL DEF Spec

(***************************************************************************)
(* next_id and the size of the tables.                                     *)
(***************************************************************************)

\* next_id is above every id of a coop context that has no coop INT_MAX.
FreshIn(c) == IntMax \notin DOMAIN c.name => \A i \in DOMAIN c.name : i < c.next

\* An upsert keeps next_id above the ids (coops.c:29, 39).
LEMMA UpsertedFresh ==
  ASSUME NEW c, IsCoops(c), FreshIn(c),
         NEW t, DOMAIN t \subseteq CoopIds, \A i \in DOMAIN t : t[i] \in CoopNames,
         NEW r \in Upserted(c, t)
  PROVE  FreshIn(r)
<1> PICK S \in Admitted(DOMAIN c.name, DOMAIN t, MaxCoops) :
      \E n \in Bump(c.next, (DOMAIN c.name \cap DOMAIN t) \cup S) :
        r = [name |-> [i \in DOMAIN c.name \cup S |->
                         IF i \in DOMAIN t THEN t[i] ELSE c.name[i]],
             next |-> n]
  BY DEF Upserted
<1>1. PICK n \in Bump(c.next, (DOMAIN c.name \cap DOMAIN t) \cup S) :
        r = [name |-> [i \in DOMAIN c.name \cup S |->
                         IF i \in DOMAIN t THEN t[i] ELSE c.name[i]],
             next |-> n]
  OBVIOUS
<1>2. S \subseteq DOMAIN t
  BY DEF Admitted
<1>3. DOMAIN r.name = DOMAIN c.name \cup S /\ r.next = n
  BY <1>1
<1>4. c.next \in Int /\ DOMAIN c.name \cup S \subseteq Int
  BY <1>2 DEF IsCoops, CoopIds, IntMin
<1>5. IntMax \notin DOMAIN c.name \cup S =>
        /\ n \in Int
        /\ n >= c.next
        /\ \A i \in (DOMAIN c.name \cap DOMAIN t) \cup S : n > i
  BY <1>1, <1>2, <1>4 DEF Bump
<1> QED
  BY <1>3, <1>4, <1>5 DEF FreshIn

\* So do coops_add and the loading of a file.
LEMMA CoopsAddFresh ==
  ASSUME NEW c, IsCoops(c), FreshIn(c), NEW name \in Names, NEW r \in coops_add(c, name)
  PROVE  FreshIn(r)
<1>1. PICK n \in Bump(c.next, {new_coop_id(c)}) :
        r = [name |-> With(c.name, new_coop_id(c), name), next |-> n]
  BY DEF coops_add
<1>2. DOMAIN r.name = DOMAIN c.name \cup {new_coop_id(c)} /\ r.next = n
  BY <1>1, CoopsAddType
<1>3. c.next \in Int /\ DOMAIN c.name \subseteq Int /\ new_coop_id(c) \in Int
  BY DEF IsCoops, CoopIds, IntMin, new_coop_id
<1>4. IntMax \notin DOMAIN r.name =>
        n \in Int /\ n >= c.next /\ n > new_coop_id(c)
  BY <1>1, <1>2, <1>3 DEF Bump
<1> QED
  BY <1>2, <1>3, <1>4 DEF FreshIn

\* A load leaves next_id above the ids.
LEMMA LoadFresh ==
  ASSUME NEW f, IsFile(f), NEW farm \in storage_load_farm(f)
  PROVE  FreshIn(farm.coops)
<1> DEFINE named == [i \in ListedCoops(f) |-> LoadedName(f, i)]
<1>1. farm.coops \in Upserted(coops_init, named)
  BY DEF storage_load_farm
<1>2. IsCoops(coops_init) /\ FreshIn(coops_init)
  BY ConfigAssumption DEF IsCoops, FreshIn, coops_init, EmptyTable, IntMin
<1>3. DOMAIN named \subseteq CoopIds /\ \A i \in DOMAIN named : named[i] \in CoopNames
  BY ListedNames
<1> HIDE DEF named
<1> QED
  BY <1>1, <1>2, <1>3, UpsertedFresh

\* Unless a coop numbered INT_MAX came from the file, next_id is above every id
\* in the table, through adds, merges and restarts (coops.c:29, 39, 46).
THEOREM NextIdAlwaysFresh == Spec => []NextIdFresh
<1> USE DEF NextIdFresh, FreshIn
<1>1. Init => NextIdFresh
  BY DEF Init, coops_init, EmptyTable
<1>2. TypeOK /\ NextIdFresh /\ [Next]_vars => NextIdFresh'
  <2> SUFFICES ASSUME TypeOK, NextIdFresh, [Next]_vars PROVE NextIdFresh'
    OBVIOUS
  <2>a. FreshIn(g_coops) /\ IsCoops(g_coops) /\ IsFile(disk)
    BY DEF TypeOK
  <2>1. CASE g_coops' = g_coops
    BY <2>1
  <2>2. CASE g_coops' = coops_init
    BY <2>2 DEF coops_init, EmptyTable
  <2>3. CASE CoopAdded
    BY <2>3, <2>a, CoopsAddFresh DEF CoopAdded
  <2>4. CASE \E farm \in storage_load_farm(disk) :
               g_coops' \in Upserted(g_coops, farm.coops.name)
    <3> PICK farm \in storage_load_farm(disk) :
          g_coops' \in Upserted(g_coops, farm.coops.name)
      BY <2>4
    <3>1. DOMAIN farm.coops.name \subseteq CoopIds
          /\ \A i \in DOMAIN farm.coops.name : farm.coops.name[i] \in CoopNames
      BY <2>a, LoadType DEF IsCoops
    <3>2. FreshIn(g_coops')
      BY <2>a, <3>1, UpsertedFresh
    <3> QED
      BY <3>2
  <2>5. CASE \E farm \in storage_load_farm(disk) :
               g_coops' = sanitize_coop_names(farm.coops)
    <3> PICK farm \in storage_load_farm(disk) :
          g_coops' = sanitize_coop_names(farm.coops)
      BY <2>5
    <3>1. FreshIn(farm.coops) /\ IsCoops(farm.coops)
      BY <2>a, LoadFresh, LoadType
    <3>2. DOMAIN g_coops'.name = DOMAIN farm.coops.name
          /\ g_coops'.next = farm.coops.next
      BY <3>1 DEF sanitize_coop_names, IsCoops
    <3> QED
      BY <3>1, <3>2
  <2>6. CASE Scan
    BY <2>1, <2>4, <2>6 DEF Scan, merge_farm_from_disk
  <2>7. CASE Start
    BY <2>2, <2>5, <2>7 DEF Start, coop_logic_init
  <2> QED
    BY <2>1, <2>2, <2>3, <2>6, <2>7, StepShape
    DEF Quiet, Dies, LoggedIn, LoggedOut, DeviceAdded, DeviceMoved, DeviceAltered
<1> QED
  BY <1>1, <1>2, TypeCorrect, PTL DEF Spec

\* What the server can do to the file: the tail of a command writes the tables it
\* leaves in memory, or ruins the file, or does not touch it (storage.c:316).
LEMMA ServerFileShape ==
  ASSUME Server
  PROVE  \/ disk' = disk
         \/ disk' = Truncated
         \/ disk' = storage_save_farm(g_coops', g_devices')
<1> DEFINE Shape == \/ disk' = disk
                    \/ disk' = Truncated
                    \/ disk' = storage_save_farm(g_coops', g_devices')
<1>a. ASSUME NEW c, NEW t, NEW code, SaveThenAnswer(c, t, code)
      PROVE  Shape
  <2>1. ASSUME NEW outcome \in {"saved"} \cup Faults,
               disk' = (CASE outcome = "saved" -> storage_save_farm(c, t)
                          [] outcome = "open_fails" -> disk
                          [] OTHER -> Truncated),
               IF outcome = "killed_in_save" THEN Dies
               ELSE /\ up' = up
                    /\ g_coops' = c
                    /\ g_devices' = t
                    /\ sessions' = sessions
                    /\ reply' = code
        PROVE  Shape
    <3>1. CASE outcome = "saved"
      BY <2>1, <3>1
    <3>2. CASE outcome = "open_fails"
      BY <2>1, <3>2
    <3>3. CASE outcome # "saved" /\ outcome # "open_fails"
      BY <2>1, <3>3
    <3> QED
      BY <3>1, <3>2, <3>3
  <2> HIDE DEF Shape
  <2> QED
    BY <1>a, <2>1 DEF SaveThenAnswer
<1>b. \A code : Answer(code) => Shape
  BY DEF Answer
<1>c. \A d, code : Rejected(d, code) => Shape
  BY DEF Rejected, Answer
<1>d. \A d, token : Refused(token, d) => Shape
  BY DEF Refused, Answer
<1>1. CASE Malformed \/ CoopList
  BY <1>1, <1>b DEF Malformed, CoopList
<1>2. CASE \E name \in Names \cup {""} : CoopAdd(name)
  <2> HIDE DEF Shape
  <2>1. Shape
    BY <1>2, <1>a, <1>b DEF CoopAdd
  <2> QED
    BY <2>1 DEF Shape
<1>3. CASE \E d \in DeviceIds : DeviceCommand(d)
  <2> PICK d \in DeviceIds : DeviceCommand(d)
    BY <1>3
  <2>1. ASSUME NEW pw, Connect(d, pw) PROVE Shape
    BY <2>1, <1>b, <1>c DEF Connect
  <2>2. ASSUME NEW token, Info(d, token) \/ Bye(d, token) PROVE Shape
    BY <2>2, <1>b, <1>c, <1>d DEF Info, Bye
  <2> HIDE DEF Shape
  <2>3. ASSUME NEW token, NEW action, NEW p, Control(d, token, action, p) PROVE Shape
    BY <2>3, <1>a, <1>c, <1>d DEF Control
  <2>4. ASSUME NEW token, NEW p, SetCfg(d, token, p) PROVE Shape
    BY <2>4, <1>a, <1>c, <1>d DEF SetCfg
  <2>5. ASSUME NEW token, NEW old_pw, NEW new_pw, ChPass(d, token, old_pw, new_pw)
        PROVE  Shape
    BY <2>5, <1>a, <1>c, <1>d DEF ChPass
  <2>6. ASSUME NEW type, NEW pw, NEW coop, AddDevice(d, type, pw, coop) PROVE Shape
    BY <2>6, <1>a, <1>b DEF AddDevice
  <2>7. ASSUME NEW coop, Assign(d, coop) PROVE Shape
    BY <2>7, <1>a, <1>b DEF Assign
  <2>8. Shape
    BY <2>1, <2>2, <2>3, <2>4, <2>5, <2>6, <2>7 DEF DeviceCommand
  <2> QED
    BY <2>8 DEF Shape
<1>4. CASE Scan \/ Start \/ Crash
  BY <1>4 DEF Scan, Start, Crash
<1> QED
  BY <1>1, <1>2, <1>3, <1>4 DEF Server, DeviceCommand

\* Nobody else does more to it than the people who edit it.
LEMMA FileShape ==
  ASSUME [Next]_vars
  PROVE  \/ disk' = disk
         \/ disk' = Truncated
         \/ disk' = storage_save_farm(g_coops', g_devices')
         \/ HandWritesCoop
         \/ HandAddsDevice
BY ServerFileShape DEF Next, Tick, vars

(***************************************************************************)
(* The tables fit their arrays.  Adding an entry to a table that has room  *)
(* says something about its size only when it is finite; the files the     *)
(* entries come from have to be finite too.                                *)
(***************************************************************************)
FiniteTables == IsFiniteSet(DOMAIN g_devices) /\ IsFiniteSet(DOMAIN disk.devices)

\* One entry more is at most one more.
LEMMA AddOne ==
  ASSUME NEW S, NEW x, IsFiniteSet(S)
  PROVE  IsFiniteSet(S \cup {x}) /\ Cardinality(S \cup {x}) <= Cardinality(S) + 1
<1>1. Cardinality(S) \in Nat
  BY FS_CardinalityType
<1> QED
  BY <1>1, FS_AddElement

\* A coop table is finite: its ids are ints.
LEMMA CoopsFinite ==
  ASSUME NEW c, IsCoops(c)
  PROVE  IsFiniteSet(DOMAIN c.name) /\ Cardinality(DOMAIN c.name) \in Nat
<1>1. IsFiniteSet(CoopIds)
  BY ConfigAssumption, FS_Interval DEF CoopIds
<1>2. DOMAIN c.name \in SUBSET CoopIds
  BY DEF IsCoops
<1> QED
  BY <1>1, <1>2, FS_Subset, FS_CardinalityType

\* Whatever is offered to a table that fits, the table still fits.
LEMMA AdmittedFits ==
  ASSUME NEW have, NEW offered, NEW max, NEW S \in Admitted(have, offered, max)
  PROVE  Cardinality(have \cup S) <= max /\ S \subseteq offered
BY DEF Admitted

\* Upserting leaves a coop table that fits (coops.c:33).
LEMMA UpsertedFits ==
  ASSUME NEW c, NEW t, NEW r \in Upserted(c, t)
  PROVE  Cardinality(DOMAIN r.name) <= MaxCoops
<1> PICK S \in Admitted(DOMAIN c.name, DOMAIN t, MaxCoops) :
      \E n \in Bump(c.next, (DOMAIN c.name \cap DOMAIN t) \cup S) :
        r = [name |-> [i \in DOMAIN c.name \cup S |->
                         IF i \in DOMAIN t THEN t[i] ELSE c.name[i]],
             next |-> n]
  BY DEF Upserted
<1>1. DOMAIN r.name = DOMAIN c.name \cup S
  OBVIOUS
<1> QED
  BY <1>1, AdmittedFits

\* A load gives finite tables that fit the arrays (storage.c:365).
LEMMA LoadFits ==
  ASSUME NEW f, IsFile(f), IsFiniteSet(DOMAIN f.devices),
         NEW farm \in storage_load_farm(f)
  PROVE  /\ Cardinality(DOMAIN farm.coops.name) <= MaxCoops
         /\ Cardinality(DOMAIN farm.devices) <= MaxDevices
         /\ IsFiniteSet(DOMAIN farm.devices)
<1> DEFINE named == [i \in ListedCoops(f) |-> LoadedName(f, i)]
<1>1. PICK c \in Upserted(coops_init, named) :
        \E D \in Admitted({}, ListedDevices(f), MaxDevices) :
          farm = [coops |-> c, devices |-> [d \in D |-> LoadedDevice(f.devices[d])]]
  BY DEF storage_load_farm
<1>2. PICK D \in Admitted({}, ListedDevices(f), MaxDevices) :
        farm = [coops |-> c, devices |-> [d \in D |-> LoadedDevice(f.devices[d])]]
  BY <1>1
<1>3. DOMAIN farm.devices = D /\ farm.coops = c
  BY <1>2
<1>4. Cardinality(D) <= MaxDevices /\ D \in SUBSET DOMAIN f.devices
  <2>1. {} \cup D = D
    OBVIOUS
  <2> QED
    BY <2>1 DEF ListedDevices, Admitted
<1>5. Cardinality(DOMAIN c.name) <= MaxCoops
  BY UpsertedFits
<1> QED
  BY <1>3, <1>4, <1>5, FS_Subset

\* Commands, merges and loads put finitely many entries in a table, and no more than
\* it has room for.
LEMMA InitFits ==
  ASSUME Init
  PROVE  Capacity /\ FiniteTables
BY FS_EmptySet, ConfigAssumption
DEF Init, Capacity, FiniteTables, coops_init, EmptyTable, NoFile

\* Every step keeps the tables finite and within their sizes.
LEMMA StepFits ==
  ASSUME TypeOK, Capacity, FiniteTables, [Next]_vars
  PROVE  (Capacity /\ FiniteTables)'
<1>a. IsFile(disk) /\ IsCoops(g_coops) /\ IsDevices(g_devices)
  BY DEF TypeOK
<1>b. IsFiniteSet(DOMAIN g_devices) /\ Cardinality(DOMAIN g_devices) \in Nat
  BY FS_CardinalityType DEF FiniteTables
<1> DEFINE Fits(t) == IsFiniteSet(DOMAIN t) /\ Cardinality(DOMAIN t) <= MaxDevices
<1>1. Cardinality(DOMAIN g_coops'.name) <= MaxCoops
  <2>1. CASE g_coops' = g_coops
    BY <2>1 DEF Capacity
  <2>2. CASE g_coops' = coops_init
    BY <2>2, FS_EmptySet, ConfigAssumption DEF coops_init, EmptyTable
  <2>3. CASE CoopAdded
    <3>1. PICK name \in Names :
            CanAddCoop(g_coops, name) /\ g_coops' \in coops_add(g_coops, name)
      BY <2>3 DEF CoopAdded
    <3>2. DOMAIN g_coops'.name = DOMAIN g_coops.name \cup {new_coop_id(g_coops)}
      BY <1>a, <3>1, CoopsAddType
    <3>3. Cardinality(DOMAIN g_coops'.name) <= Cardinality(DOMAIN g_coops.name) + 1
      <4>1. IsFiniteSet(DOMAIN g_coops.name) /\ Cardinality(DOMAIN g_coops.name) \in Nat
        BY <1>a, CoopsFinite
      <4> QED
        BY <3>2, <4>1, AddOne
    <3>4. Cardinality(DOMAIN g_coops.name) \in Nat
          /\ Cardinality(DOMAIN g_coops'.name) \in Nat
      <4>1. IsCoops(g_coops')
        BY <1>a, <3>1, CoopsAddType
      <4> QED
        BY <1>a, <4>1, CoopsFinite
    <3>5. Cardinality(DOMAIN g_coops.name) < MaxCoops /\ MaxCoops \in Nat
      BY <3>1, ConfigAssumption DEF CanAddCoop
    <3> QED
      BY <3>3, <3>4, <3>5
  <2>4. CASE Scan
    BY <2>1, <2>4, UpsertedFits DEF Scan, merge_farm_from_disk
  <2>5. CASE Start
    <3>1. ASSUME NEW farm \in storage_load_farm(disk),
                 g_coops' = sanitize_coop_names(farm.coops)
          PROVE  Cardinality(DOMAIN g_coops'.name) <= MaxCoops
      <4>1. DOMAIN g_coops'.name = DOMAIN farm.coops.name
        BY <1>a, <3>1, LoadType DEF sanitize_coop_names, IsCoops
      <4> QED
        BY <1>a, <4>1, LoadFits DEF FiniteTables
    <3> QED
      BY <2>2, <2>5, <3>1 DEF Start, coop_logic_init
  <2> QED
    BY <2>1, <2>2, <2>3, <2>4, <2>5, StepShape
    DEF Quiet, Dies, LoggedIn, LoggedOut, DeviceAdded, DeviceMoved, DeviceAltered
<1>2. Fits(g_devices')
  <2>1. CASE DOMAIN g_devices' = DOMAIN g_devices
    BY <1>b, <2>1 DEF Capacity
  <2>2. CASE g_devices' = EmptyTable
    BY <2>2, FS_EmptySet, ConfigAssumption DEF EmptyTable
  <2>3. CASE DeviceAdded
    <3>1. PICK d \in DeviceIds, type \in NewTypes, pw \in Passwords, coop \in CoopArgs :
            /\ CanAdd(d, type, coop)
            /\ g_devices' = With(g_devices, d, NewDevice(type, pw, coop))
      BY <2>3 DEF DeviceAdded
    <3>2. DOMAIN g_devices' = DOMAIN g_devices \cup {d}
      BY <3>1 DEF With
    <3>3. IsFiniteSet(DOMAIN g_devices')
          /\ Cardinality(DOMAIN g_devices') <= Cardinality(DOMAIN g_devices) + 1
      BY <1>b, <3>2, AddOne
    <3>4. Cardinality(DOMAIN g_devices') \in Nat
      BY <3>3, FS_CardinalityType
    <3> QED
      BY <1>b, <3>1, <3>3, <3>4, ConfigAssumption DEF CanAdd, CanAddDevice
  <2>4. CASE DeviceMoved
    <3>1. DOMAIN g_devices' = DOMAIN g_devices
      BY <2>4 DEF DeviceMoved, CanAssign, With
    <3> QED
      BY <2>1, <3>1
  <2>5. CASE DeviceAltered
    <3>1. DOMAIN g_devices' = DOMAIN g_devices
      BY <2>5 DEF DeviceAltered, With
    <3> QED
      BY <2>1, <3>1
  <2>6. ASSUME NEW farm \in storage_load_farm(disk)
        PROVE  /\ g_devices' = farm.devices => Fits(g_devices')
               /\ g_devices' \in MergedDevices(g_devices, farm.devices) => Fits(g_devices')
    <3>1. Fits(farm.devices)
      BY <1>a, LoadFits DEF FiniteTables
    <3>2. ASSUME NEW S \in Admitted(DOMAIN g_devices, DOMAIN farm.devices, MaxDevices),
                 g_devices' = Appended(g_devices, farm.devices, S)
          PROVE  Fits(g_devices')
      <4>1. DOMAIN g_devices' = DOMAIN g_devices \cup S
        BY <3>2 DEF Appended
      <4>2. Cardinality(DOMAIN g_devices \cup S) <= MaxDevices
            /\ S \in SUBSET DOMAIN farm.devices
        BY AdmittedFits
      <4>3. IsFiniteSet(DOMAIN g_devices \cup S)
        BY <1>b, <3>1, <4>2, FS_Subset, FS_Union
      <4> QED
        BY <4>1, <4>2, <4>3
    <3> QED
      BY <3>1, <3>2 DEF MergedDevices
  <2>7. CASE Scan
    BY <2>1, <2>6, <2>7 DEF Scan, merge_farm_from_disk
  <2>8. CASE Start
    BY <2>2, <2>6, <2>8 DEF Start, coop_logic_init
  <2> HIDE DEF Fits
  <2> QED
    BY <2>1, <2>2, <2>3, <2>4, <2>5, <2>7, <2>8, StepShape
    DEF Quiet, Dies, LoggedIn, LoggedOut, CoopAdded
<1>3. IsFiniteSet(DOMAIN disk'.devices)
  <2>1. CASE disk' = disk \/ HandWritesCoop
    BY <2>1 DEF HandWritesCoop, HandEdit, FiniteTables, TypeOK, IsFile
  <2>2. CASE disk' = Truncated
    BY <2>2, FS_EmptySet DEF Truncated, EmptyTable
  <2>3. CASE disk' = storage_save_farm(g_coops', g_devices')
    <3>1. DOMAIN disk'.devices \in SUBSET DOMAIN g_devices'
      BY <2>3 DEF storage_save_farm, Saveable
    <3> QED
      BY <1>2, <3>1, FS_Subset
  <2>4. CASE HandAddsDevice
    <3>1. PICK h \in HandDevices : disk'.devices = With(disk.devices, h.id, h.entry)
      BY <2>4 DEF HandAddsDevice, HandEdit, TypeOK, IsFile
    <3>2. DOMAIN disk'.devices = DOMAIN disk.devices \cup {h.id}
      BY <3>1 DEF With
    <3> QED
      BY <3>2, FS_AddElement DEF FiniteTables
  <2> QED
    BY <2>1, <2>2, <2>3, <2>4, FileShape
<1> QED
  BY <1>1, <1>2, <1>3 DEF Capacity, FiniteTables

\* So they always are.
LEMMA FiniteAndFit == Spec => [](Capacity /\ FiniteTables)
BY InitFits, StepFits, TypeCorrect, PTL DEF Spec

\* The tables never hold more than their arrays have room for, also after a
\* SCAN or a start from a file that lists more (coops.c:33, storage.c:365,
\* coop_logic.c:33).
THEOREM TablesAlwaysFit == Spec => []Capacity
BY FiniteAndFit, PTL

(***************************************************************************)
(* Devices and their coops, when no coop is written in the file by hand.   *)
(* The invariant has to say of the file what DevicesHoused says of the     *)
(* memory, that all its coops fit in the table, and, since a SCAN puts its *)
(* devices beside those in memory, that the memory knows its coops.        *)
(***************************************************************************)
FileHoused ==
  /\ DOMAIN disk.coops \subseteq CoopIds
  /\ Cardinality(DOMAIN disk.coops) <= MaxCoops
  /\ \A d \in DOMAIN disk.devices : disk.devices[d].coop \in DOMAIN disk.coops
  /\ disk.status # "ok" => DOMAIN disk.coops = {}
  /\ up => DOMAIN disk.coops \subseteq DOMAIN g_coops.name

\* When every coop of the file fits, a load takes them all, and the devices it
\* takes belong to them (storage.c:359).
LEMMA LoadHoused ==
  ASSUME IsFile(disk), FileHoused, NEW farm \in storage_load_farm(disk)
  PROVE  /\ DOMAIN farm.coops.name = DOMAIN disk.coops
         /\ \A d \in DOMAIN farm.devices : farm.devices[d].coop \in DOMAIN disk.coops
<1> DEFINE named == [i \in ListedCoops(disk) |-> LoadedName(disk, i)]
<1>1. PICK c \in Upserted(coops_init, named) :
        \E D \in Admitted({}, ListedDevices(disk), MaxDevices) :
          farm = [coops |-> c, devices |-> [d \in D |-> LoadedDevice(disk.devices[d])]]
  BY DEF storage_load_farm
<1>2. PICK D \in Admitted({}, ListedDevices(disk), MaxDevices) :
        farm = [coops |-> c, devices |-> [d \in D |-> LoadedDevice(disk.devices[d])]]
  BY <1>1
<1>3. ListedCoops(disk) = DOMAIN disk.coops
  BY ConfigAssumption DEF FileHoused, ListedCoops, CoopIds
<1>4. DOMAIN c.name = DOMAIN disk.coops
  <2>0. DOMAIN named = DOMAIN disk.coops
    BY <1>3
  <2>a. c \in Upserted(coops_init, named)
    OBVIOUS
  <2> HIDE DEF named
  <2>1. PICK S \in Admitted(DOMAIN coops_init.name, DOMAIN named, MaxCoops) :
          \E n \in Bump(coops_init.next, (DOMAIN coops_init.name \cap DOMAIN named) \cup S) :
            c = [name |-> [i \in DOMAIN coops_init.name \cup S |->
                             IF i \in DOMAIN named THEN named[i] ELSE coops_init.name[i]],
                 next |-> n]
    BY <2>a DEF Upserted
  <2>2. DOMAIN c.name = DOMAIN coops_init.name \cup S
    BY <2>1
  <2>3. DOMAIN coops_init.name = {} /\ DOMAIN named = DOMAIN disk.coops
    BY <2>0 DEF coops_init, EmptyTable
  <2>4. /\ S \in SUBSET DOMAIN disk.coops
        /\ S # DOMAIN disk.coops => Cardinality(S) = MaxCoops
    <3>1. {} \cup S = S
      OBVIOUS
    <3>2. DOMAIN disk.coops \ {} = DOMAIN disk.coops
      OBVIOUS
    <3> QED
      BY <2>3, <3>1, <3>2 DEF Admitted
  <2>5. IsFiniteSet(DOMAIN disk.coops)
    <3>1. IsFiniteSet(CoopIds)
      BY ConfigAssumption, FS_Interval DEF CoopIds
    <3> QED
      BY <3>1, FS_Subset DEF FileHoused
  <2>6. S = DOMAIN disk.coops
    <3> SUFFICES ASSUME Cardinality(S) = MaxCoops PROVE S = DOMAIN disk.coops
      BY <2>4
    <3>1. Cardinality(DOMAIN disk.coops) \in Nat /\ Cardinality(S) <= Cardinality(DOMAIN disk.coops)
      BY <2>4, <2>5, FS_Subset, FS_CardinalityType
    <3>2. Cardinality(DOMAIN disk.coops) <= MaxCoops
      BY DEF FileHoused
    <3>3. Cardinality(DOMAIN disk.coops) = Cardinality(S)
      BY <3>1, <3>2, ConfigAssumption
    <3> QED
      BY <2>4, <2>5, <3>3, FS_Subset
  <2> QED
    BY <2>2, <2>3, <2>6
<1>5. ASSUME NEW d \in D
      PROVE  LoadedDevice(disk.devices[d]).coop \in DOMAIN disk.coops
  <2>1. d \in DOMAIN disk.devices
    BY DEF Admitted, ListedDevices
  <2> QED
    BY <2>1 DEF FileHoused, LoadedDevice
<1> QED
  BY <1>2, <1>4, <1>5

\* In memory, coops and devices stay housed as long as no coop disappears.
LEMMA MemoryHoused ==
  ASSUME TypeOK, DevicesHoused, FileHoused, [Next]_vars
  PROVE  DevicesHoused' /\ (up' => DOMAIN disk.coops \subseteq DOMAIN g_coops'.name)
<1> USE DEF DevicesHoused
<1>a. IsFile(disk) /\ IsCoops(g_coops)
  BY DEF TypeOK
<1>1. CASE Quiet \/ LoggedIn \/ LoggedOut
  BY <1>1 DEF Quiet, LoggedIn, LoggedOut, FileHoused
<1>2. CASE Dies
  BY <1>2 DEF Dies, EmptyTable
<1>3. CASE CoopAdded
  <2>1. DOMAIN g_coops.name \subseteq DOMAIN g_coops'.name
    BY <1>3, <1>a, CoopsAddType DEF CoopAdded
  <2> QED
    BY <1>3, <2>1 DEF CoopAdded, FileHoused
<1>4. CASE DeviceAdded
  <2>1. PICK d \in DeviceIds, type \in NewTypes, pw \in Passwords, coop \in CoopArgs :
          /\ CanAdd(d, type, coop)
          /\ g_devices' = With(g_devices, d, NewDevice(type, pw, coop))
    BY <1>4 DEF DeviceAdded
  <2>2. coop \in DOMAIN g_coops.name /\ NewDevice(type, pw, coop).coop = coop
    BY <2>1 DEF CanAdd, NewDevice
  <2> QED
    BY <1>4, <2>1, <2>2 DEF DeviceAdded, With, FileHoused
<1>5. CASE DeviceMoved
  <2>1. PICK d \in DeviceIds, coop \in CoopArgs :
          /\ CanAssign(d, coop)
          /\ g_devices' = With(g_devices, d, [g_devices[d] EXCEPT !.coop = coop])
    BY <1>5 DEF DeviceMoved
  <2> DEFINE dev == [g_devices[d] EXCEPT !.coop = coop]
  <2>2. dev.coop \in DOMAIN g_coops.name
    BY <2>1 DEF CanAssign, TypeOK, IsDevices, IsDevice
  <2>3. g_devices' = With(g_devices, d, dev)
    BY <2>1
  <2> HIDE DEF dev
  <2>4. UNCHANGED <<up, g_coops>>
    BY <1>5 DEF DeviceMoved
  <2> QED
    BY <2>2, <2>3, <2>4 DEF With, FileHoused
<1>6. CASE DeviceAltered
  BY <1>6 DEF DeviceAltered, With, FileHoused
<1>7. CASE Scan
  <2>1. CASE ~Readable(disk)
    <3>1. UNCHANGED <<up, g_coops, g_devices>>
      BY <1>7, <2>1 DEF Scan, merge_farm_from_disk
    <3> QED
      BY <3>1 DEF FileHoused
  <2>2. ASSUME NEW farm \in storage_load_farm(disk),
               g_coops' \in Upserted(g_coops, farm.coops.name),
               g_devices' \in MergedDevices(g_devices, farm.devices)
        PROVE  DevicesHoused' /\ DOMAIN disk.coops \subseteq DOMAIN g_coops'.name
    <3>1. /\ DOMAIN g_coops.name \subseteq DOMAIN g_coops'.name
          /\ DOMAIN farm.coops.name \subseteq CoopIds
      <4>1. IsCoops(farm.coops)
        BY <1>a, LoadType
      <4> QED
        BY <1>a, <2>2, <4>1, UpsertedType DEF IsCoops
    <3>2. DOMAIN disk.coops \subseteq DOMAIN g_coops.name
      BY <1>7 DEF Scan, FileHoused
    <3>3. \A d \in DOMAIN farm.devices : farm.devices[d].coop \in DOMAIN g_coops'.name
      BY <1>a, <3>1, <3>2, LoadHoused
    <3>4. \A d \in DOMAIN g_devices : g_devices[d].coop \in DOMAIN g_coops'.name
      BY <3>1
    <3>5. \A d \in DOMAIN g_devices' : g_devices'[d].coop \in DOMAIN g_coops'.name
      <4>1. PICK S \in Admitted(DOMAIN g_devices, DOMAIN farm.devices, MaxDevices) :
              g_devices' = Appended(g_devices, farm.devices, S)
        BY <2>2 DEF MergedDevices
      <4>2. S \subseteq DOMAIN farm.devices
        BY DEF Admitted
      <4>3. DOMAIN g_devices' = DOMAIN g_devices \cup S
        BY <4>1 DEF Appended
      <4> SUFFICES ASSUME NEW d \in DOMAIN g_devices'
                   PROVE  g_devices'[d].coop \in DOMAIN g_coops'.name
        OBVIOUS
      <4>4. CASE d \in DOMAIN g_devices
        <5>1. g_devices'[d] = g_devices[d]
          BY <4>1, <4>4 DEF Appended
        <5> QED
          BY <3>4, <4>4, <5>1
      <4>5. CASE d \notin DOMAIN g_devices
        <5>1. d \in S
          BY <4>3, <4>5
        <5>2. g_devices'[d] = farm.devices[d]
          BY <4>1, <4>5, <5>1 DEF Appended
        <5> QED
          BY <3>3, <4>2, <5>1, <5>2
      <4> QED
        BY <4>4, <4>5
    <3> QED
      BY <3>1, <3>2, <3>5
  <2> QED
    BY <1>7, <2>1, <2>2 DEF Scan, merge_farm_from_disk
<1>8. CASE Start
  <2>1. CASE ~Readable(disk)
    <3>1. DOMAIN disk.coops = {}
      BY <2>1 DEF FileHoused, Readable
    <3>2. g_devices' = EmptyTable
      BY <1>8, <2>1 DEF Start, coop_logic_init
    <3> QED
      BY <3>1, <3>2 DEF EmptyTable, FileHoused
  <2>2. ASSUME NEW farm \in storage_load_farm(disk),
               g_coops' = sanitize_coop_names(farm.coops),
               g_devices' = farm.devices
        PROVE  DevicesHoused' /\ DOMAIN disk.coops \subseteq DOMAIN g_coops'.name
    <3>1. DOMAIN g_coops'.name = DOMAIN farm.coops.name
      BY <1>a, <2>2, LoadType DEF sanitize_coop_names, IsCoops
    <3> QED
      BY <1>a, <2>2, <3>1, LoadHoused
  <2> QED
    BY <1>8, <2>1, <2>2 DEF Start, coop_logic_init
<1> QED
  BY <1>1, <1>2, <1>3, <1>4, <1>5, <1>6, <1>7, <1>8, StepShape

\* The file the server leaves is housed too.
LEMMA FileStaysHoused ==
  ASSUME TypeOK, TypeOK', Capacity', DevicesHoused, FileHoused, [Next]_vars, HandCoops = {}
  PROVE  FileHoused'
<1>a. up' => DOMAIN disk.coops \subseteq DOMAIN g_coops'.name
  BY MemoryHoused
<1>1. CASE disk' = disk
  BY <1>1, <1>a DEF FileHoused
<1>2. CASE disk' = Truncated
  BY <1>2, FS_EmptySet, ConfigAssumption DEF Truncated, EmptyTable, FileHoused
<1>3. CASE disk' = storage_save_farm(g_coops', g_devices')
  <2>1. DOMAIN disk'.coops = DOMAIN g_coops'.name /\ disk'.status = "ok"
    BY <1>3 DEF storage_save_farm
  <2>2. /\ DOMAIN g_coops'.name \subseteq CoopIds
        /\ Cardinality(DOMAIN g_coops'.name) <= MaxCoops
    BY DEF TypeOK, IsCoops, Capacity
  <2>3. \A d \in DOMAIN disk'.devices : disk'.devices[d].coop \in DOMAIN g_coops'.name
    BY <1>3 DEF storage_save_farm, Saveable, SavedDevice
  <2> QED
    BY <2>1, <2>2, <2>3 DEF FileHoused
<1>4. CASE HandWritesCoop
  BY <1>4 DEF HandWritesCoop
<1>5. CASE HandAddsDevice
  <2>1. PICK h \in HandDevices :
          /\ h.entry.coop \in DOMAIN disk.coops
          /\ HandEdit([disk EXCEPT !.devices = With(disk.devices, h.id, h.entry)])
    BY <1>5 DEF HandAddsDevice
  <2>2. /\ disk'.coops = disk.coops
        /\ disk'.status = disk.status
        /\ disk'.devices = With(disk.devices, h.id, h.entry)
        /\ UNCHANGED <<up, g_coops>>
    BY <2>1 DEF HandEdit, TypeOK, IsFile
  <2>3. \A d \in DOMAIN disk'.devices : disk'.devices[d].coop \in DOMAIN disk.coops
    BY <2>1, <2>2 DEF With, FileHoused
  <2> QED
    BY <2>2, <2>3 DEF FileHoused
<1> QED
  BY <1>1, <1>2, <1>3, <1>4, <1>5, FileShape

\* The strengthened invariant of DevicesAlwaysHoused holds always.
LEMMA AlwaysHoused ==
  ASSUME HandCoops = {}
  PROVE  Spec => [](DevicesHoused /\ FileHoused)
<1>1. Init => DevicesHoused /\ FileHoused
  BY FS_EmptySet, ConfigAssumption
  DEF Init, DevicesHoused, FileHoused, EmptyTable, NoFile
<1>2. TypeOK /\ TypeOK' /\ Capacity' /\ DevicesHoused /\ FileHoused /\ [Next]_vars
        => (DevicesHoused /\ FileHoused)'
  BY MemoryHoused, FileStaysHoused
<1> QED
  BY <1>1, <1>2, TypeCorrect, TablesAlwaysFit, PTL DEF Spec

\* Every device in memory belongs to a coop in memory, whatever saves fail and
\* crashes come, as long as nobody writes coops in the file by hand: then no file
\* lists more coops than the table takes (storage.c:359).
THEOREM DevicesAlwaysHoused ==
  ASSUME HandCoops = {}
  PROVE  Spec => []DevicesHoused
BY AlwaysHoused, PTL
=============================================================================
