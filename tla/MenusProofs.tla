----------------------------- MODULE MenusProofs -----------------------------
(***************************************************************************)
(* The menus of Menus, for any number of users and tables of any size:     *)
(* the lists name each coop once; and, when nobody writes coops in the     *)
(* file and the names are ones the file can hold, what a connected client  *)
(* shows, remembers and reports is so on the server.                       *)
(***************************************************************************)
EXTENDS Menus, CoopLogicFarmProofs, SequenceTheorems

(***************************************************************************)
(* The numbering of a list.                                                *)
(***************************************************************************)

\* Every finite set of ids has a k-th one, up to its size.
LEMMA KthExists ==
  ASSUME NEW S \in SUBSET Int, IsFiniteSet(S), NEW k \in 1 .. Cardinality(S)
  PROVE  Kth(S, k) \in S /\ Cardinality({j \in S : j <= Kth(S, k)}) = k
<1> DEFINE Upto(i) == {j \in S : j <= i}
<1>1. PICK n \in Nat : n = Cardinality(S)
  BY FS_CardinalityType
<1>2. ASSUME NEW i \in S
      PROVE  IsFiniteSet(Upto(i)) /\ Cardinality(Upto(i)) \in 1 .. n
  <2>1. /\ IsFiniteSet(Upto(i)) /\ Cardinality(Upto(i)) \in Nat
        /\ Cardinality(Upto(i)) <= n
    BY <1>1, FS_Subset, FS_CardinalityType
  <2>2. i \in Upto(i)
    OBVIOUS
  <2>3. Cardinality(Upto(i)) # 0
    BY <2>1, <2>2, FS_EmptySet
  <2> QED
    BY <2>1, <2>3
<1>3. ASSUME NEW i \in S, NEW j \in S, i < j PROVE Cardinality(Upto(i)) # Cardinality(Upto(j))
  <2>1. Upto(i) \in SUBSET Upto(j)
    <3> SUFFICES ASSUME NEW l \in S, l <= i PROVE l <= j
      OBVIOUS
    <3>1. i \in Int /\ j \in Int /\ l \in Int
      OBVIOUS
    <3> QED
      BY <1>3, <3>1
  <2>2. j \in Upto(j) /\ j \notin Upto(i)
    BY <1>3
  <2>3. IsFiniteSet(Upto(j))
    BY <1>2
  <2> QED
    BY <2>1, <2>2, <2>3, FS_Subset
<1> HIDE DEF Upto
<1>4. PICK f : f = [i \in S |-> Cardinality(Upto(i))]
  OBVIOUS
<1>5. f \in Injection(S, 1 .. n)
  <2>1. f \in [S -> 1 .. n]
    BY <1>2, <1>4
  <2>2. \A i, j \in S : f[i] = f[j] => i = j
    <3> SUFFICES ASSUME NEW i \in S, NEW j \in S, i # j PROVE f[i] # f[j]
      OBVIOUS
    <3>1. i < j \/ j < i
      OBVIOUS
    <3> QED
      BY <1>3, <1>4, <3>1
  <2> QED
    BY <2>1, <2>2 DEF Injection, IsInjective
<1>6. IsFiniteSet(1 .. n) /\ Cardinality(1 .. n) = n
  BY FS_Interval
<1>7. f \in Surjection(S, 1 .. n)
  BY <1>1, <1>5, <1>6, FS_Injection
<1>8. \E i \in S : Cardinality(Upto(i)) = k
  <2>1. k \in 1 .. n
    BY <1>1
  <2> QED
    BY <1>4, <1>7, <2>1 DEF Surjection
<1> QED
  BY <1>8 DEF Kth, Upto

\* It is another one for each k.
LEMMA KthDistinct ==
  ASSUME NEW S \in SUBSET Int, IsFiniteSet(S),
         NEW k \in 1 .. Cardinality(S), NEW l \in 1 .. Cardinality(S), Kth(S, k) = Kth(S, l)
  PROVE  k = l
<1>1. Cardinality({j \in S : j <= Kth(S, k)}) = k
  BY KthExists
<1>2. Cardinality({j \in S : j <= Kth(S, l)}) = l
  BY KthExists
<1> QED
  BY <1>1, <1>2

\* In 1 .. n it is k.
LEMMA KthOfRange ==
  ASSUME NEW n \in Nat, NEW k \in 1 .. n
  PROVE  Kth(1 .. n, k) = k
<1>1. IsFiniteSet(1 .. n) /\ Cardinality(1 .. n) = n
  BY FS_Interval
<1>2. PICK i : i = Kth(1 .. n, k)
  OBVIOUS
<1>3. i \in 1 .. n /\ Cardinality({j \in 1 .. n : j <= i}) = k
  <2>1. k \in 1 .. Cardinality(1 .. n) /\ 1 .. n \in SUBSET Int
    BY <1>1
  <2> QED
    BY <1>1, <1>2, <2>1, KthExists
<1>4. {j \in 1 .. n : j <= i} = 1 .. i
  BY <1>3
<1>5. Cardinality(1 .. i) = i
  BY <1>3, FS_Interval
<1> QED
  BY <1>2, <1>3, <1>4, <1>5

(***************************************************************************)
(* The types of what a client keeps, and that its requests are requests of *)
(* CoopLogic.                                                              *)
(***************************************************************************)

IsList(l) ==
  /\ \E n \in 0 .. MaxCoops : l = [k \in 1 .. n |-> l[k]]
  /\ \A k \in DOMAIN l : /\ DOMAIN l[k] = {"id", "name", "devs"}
                         /\ l[k].id \in CoopIds
  /\ \A j, k \in DOMAIN l : l[j].id = l[k].id => j = k

IsMemory(m) ==
  /\ \A d \in DOMAIN m : m[d].token \in Tokens
  /\ IsFiniteSet(DOMAIN m)
  /\ Cardinality(DOMAIN m) <= MaxDevices

MenuTypes ==
  /\ linked \in [Users -> BOOLEAN]
  /\ pc \in [Users -> Places]
  /\ DOMAIN coop_list = Users /\ \A u \in Users : IsList(coop_list[u])
  /\ DOMAIN devices = Users /\ \A u \in Users : IsMemory(devices[u])
  /\ DOMAIN order = Users
  /\ \A u \in Users : linked[u] => up /\ pc[u] # "away"

\* A step of a menu, seen from the server.
CoopNamed ==
  /\ \E name \in Names \ ({""} \cup Reserved) :
       CanAddCoop(g_coops, name) /\ g_coops' \in coops_add(g_coops, name)
  /\ UNCHANGED <<up, g_devices, sessions>>

MenuShape ==
  \/ Quiet \/ Dies \/ Scan \/ CoopNamed \/ DeviceAdded \/ DeviceAltered
  \/ (Paced /\ LoggedIn)

\* The requests of the menus are commands of CoopLogic.
LEMMA CommandsAreServer ==
  ASSUME NEW d \in DeviceIds
  PROVE  /\ CoopList => Server
         /\ Scan => Server
         /\ \A name \in Names : CoopAdd(name) => Server
         /\ \A pw \in Passwords : Connect(d, pw) => Server
         /\ \A token \in Tokens : Info(d, token) => Server
         /\ \A token \in Tokens, p \in Payloads : SetCfg(d, token, p) => Server
         /\ \A type \in NewTypes, pw \in Passwords, coop \in CoopArgs :
              AddDevice(d, type, pw, coop) => Server
BY DEF Server

\* So is CONTROL, with whatever payload.
LEMMA ControlIsServer ==
  ASSUME NEW d \in DeviceIds, NEW token \in Tokens, NEW action \in Actions,
         NEW p \in Payloads, Control(d, token, action, p)
  PROVE  Server
BY DEF Server

\* What a COOPADD of a menu does.
LEMMA CoopAddShape ==
  ASSUME NEW name \in Names \ ({""} \cup Reserved), CoopAdd(name)
  PROVE  Quiet \/ Dies \/ CoopNamed
<1>1. CASE Answer("BAD_REQUEST")
  BY <1>1, AnswersAreQuiet
<1>2. CASE /\ CanAddCoop(g_coops, name)
           /\ \E coops \in coops_add(g_coops, name) :
                SaveThenAnswer(coops, g_devices, "COOPADD_OK")
  BY <1>2, SaveOutcome DEF CoopNamed
<1> QED
  BY <1>1, <1>2 DEF CoopAdd

\* A request of a menu is a command of CoopLogic, of one of a few shapes.
LEMMA RequestOfMenu ==
  ASSUME TypeOK, MenuTypes, NEW u \in Users, Menu(u)
  PROVE  (Server \/ UNCHANGED vars) /\ MenuShape
<1>a. CoopList => Server /\ Quiet
  <2>1. CoopList => Server
    BY DEF Server
  <2> QED
    BY <2>1 DEF CoopList, Answer, Quiet
<1>b. UNCHANGED vars => Quiet
  BY DEF vars, Quiet
<1>c. ASSUME NEW d, d \in Usable(u) PROVE devices[u][d].token \in Tokens
  BY <1>c DEF Usable, MenuTypes, IsMemory
<1>1. CASE RefreshCoopList(u)
  <2>1. CoopList \/ UNCHANGED vars
    BY <1>1 DEF RefreshCoopList
  <2> QED
    BY <2>1, <1>a, <1>b DEF MenuShape
<1>2. CASE RefreshScan(u)
  <2>1. Scan \/ UNCHANGED vars
    BY <1>2 DEF RefreshScan
  <2>2. Scan => Server
    BY DEF Server
  <2> QED
    BY <2>1, <2>2, <1>b DEF MenuShape
<1>3. ASSUME NEW d \in DeviceIds, NEW pw \in Passwords, Paced, menu_connect(u, d, pw)
      PROVE  (Server \/ UNCHANGED vars) /\ MenuShape
  <2>1. Connect(d, pw)
    BY <1>3 DEF menu_connect
  <2> QED
    BY <1>3, <2>1, ConnectShape, CommandsAreServer DEF MenuShape
<1>4. ASSUME NEW d \in DeviceIds, menu_info(u, d) PROVE (Server \/ UNCHANGED vars) /\ MenuShape
  <2>1. PICK token \in Tokens : Info(d, token)
    BY <1>c, <1>4 DEF menu_info
  <2>2. Quiet
    BY <2>1, AnswersAreQuiet DEF Info
  <2> QED
    BY <2>1, <2>2, CommandsAreServer DEF MenuShape
<1>5. ASSUME NEW d \in DeviceIds, NEW direct_mode \in BOOLEAN, menu_control(u, d, direct_mode)
      PROVE  (Server \/ UNCHANGED vars) /\ MenuShape
  <2>1. devices[u][d].token \in Tokens
    BY <1>c, <1>5 DEF menu_control
  <2>2. \/ \E a \in NowActions, p \in Payloads : Control(d, devices[u][d].token, a, p)
        \/ \E a \in {"ON", "OFF"} : Control(d, devices[u][d].token, a, EmptyTable)
    BY <1>5 DEF menu_control
  <2>3. NowActions \subseteq Actions /\ {"ON", "OFF"} \subseteq Actions
    BY DEF NowActions, Actions
  <2>4. PICK a \in Actions, p \in Payloads : Control(d, devices[u][d].token, a, p)
    BY <2>2, <2>3, MenusAssumption
  <2>5. PICK token \in Tokens : Control(d, token, a, p)
    BY <2>1, <2>4
  <2> QED
    BY <2>5, ControlShape, ControlIsServer DEF MenuShape
<1>6. ASSUME NEW d \in DeviceIds, menu_setcfg(u, d) PROVE (Server \/ UNCHANGED vars) /\ MenuShape
  <2>1. PICK p \in Payloads : SetCfg(d, devices[u][d].token, p)
    BY <1>6 DEF menu_setcfg
  <2>2. PICK token \in Tokens : SetCfg(d, token, p)
    BY <1>c, <1>6, <2>1 DEF menu_setcfg
  <2> QED
    BY <2>2, SetCfgShape, CommandsAreServer DEF MenuShape
<1>7. ASSUME NEW name \in Names, menu_add_coop(u, name)
      PROVE  (Server \/ UNCHANGED vars) /\ MenuShape
  <2>1. CoopAdd(name) /\ name \in Names \ ({""} \cup Reserved)
    BY <1>7 DEF menu_add_coop, NameTaken
  <2>2. Server
    BY <2>1 DEF Server
  <2> QED
    BY <2>1, <2>2, CoopAddShape DEF MenuShape
<1>8. ASSUME NEW at \in DOMAIN coop_list[u], NEW d \in DeviceIds, NEW type \in NewTypes,
             NEW pw \in Passwords, menu_add_device(u, at, d, type, pw)
      PROVE  (Server \/ UNCHANGED vars) /\ MenuShape
  <2>1. coop_list[u][at].id \in CoopArgs
    BY MenusAssumption DEF MenuTypes, IsList
  <2>2. PICK coop \in CoopArgs : AddDevice(d, type, pw, coop)
    BY <1>8, <2>1 DEF menu_add_device
  <2> QED
    BY <2>2, AddDeviceShape, CommandsAreServer DEF MenuShape
<1>9. CASE Open(u)
  BY <1>9, <1>a DEF Open, MenuShape
<1>10. CASE Leave(u)
  BY <1>10, <1>b DEF Leave, MenuShape
<1> QED
  BY <1>1, <1>2, <1>3, <1>4, <1>5, <1>6, <1>7, <1>8, <1>9, <1>10 DEF Menu

(***************************************************************************)
(* What a request does to the client: nothing to the others but that they  *)
(* lose a server that dies.                                                *)
(***************************************************************************)

Frame(u) ==
  /\ linked' \in [Users -> BOOLEAN] /\ pc' \in [Users -> Places]
  /\ DOMAIN coop_list' = Users /\ DOMAIN devices' = Users /\ DOMAIN order' = Users
  /\ linked'[u] => up' /\ pc'[u] # "away"
  /\ \A v \in Users \ {u} :
       /\ linked'[v] => linked[v] /\ up'
       /\ pc'[v] = pc[v]
       /\ coop_list'[v] = coop_list[v]
       /\ devices'[v] = devices[v]
       /\ order'[v] = order[v]

\* A request leaves the lists, or the memory, of the other users alone.
LEMMA RequestFrames ==
  ASSUME MenuTypes, NEW u \in Users, Menu(u)
  PROVE  Frame(u)
<1> USE DEF Frame, MenuTypes, Places
<1>a. CoopList => up /\ up' = up
  BY DEF CoopList, Answer
<1>b. Scan => up /\ up' = up
  BY DEF Scan
<1>c. UNCHANGED vars => up' = up
  BY DEF vars
<1>1. CASE RefreshCoopList(u)
  BY <1>1, <1>a, <1>c DEF RefreshCoopList, Goto, AfterCoopList
<1>2. CASE RefreshScan(u)
  BY <1>2, <1>b, <1>c DEF RefreshScan, Goto
<1> USE DEF Chosen, Returns, Goto, KeepLinks
<1>3. ASSUME NEW d \in DeviceIds, NEW pw \in Passwords, menu_connect(u, d, pw)
      PROVE  Frame(u)
  BY <1>3 DEF menu_connect
<1>4. ASSUME NEW d \in DeviceIds, menu_info(u, d) PROVE Frame(u)
  BY <1>4 DEF menu_info
<1>5. ASSUME NEW d \in DeviceIds, NEW direct_mode \in BOOLEAN, menu_control(u, d, direct_mode)
      PROVE  Frame(u)
  BY <1>5 DEF menu_control
<1>6. ASSUME NEW d \in DeviceIds, menu_setcfg(u, d) PROVE Frame(u)
  BY <1>6 DEF menu_setcfg
<1>7. ASSUME NEW name \in Names, menu_add_coop(u, name) PROVE Frame(u)
  BY <1>7 DEF menu_add_coop
<1>8. ASSUME NEW at \in DOMAIN coop_list[u], NEW d \in DeviceIds, NEW type \in NewTypes,
             NEW pw \in Passwords, menu_add_device(u, at, d, type, pw)
      PROVE  Frame(u)
  BY <1>8 DEF menu_add_device
<1>9. CASE Open(u)
  BY <1>9, <1>a DEF Open, AfterCoopList
<1>10. CASE Leave(u)
  BY <1>10, <1>c DEF Leave
<1> QED
  BY <1>1, <1>2, <1>3, <1>4, <1>5, <1>6, <1>7, <1>8, <1>9, <1>10 DEF Menu

\* The lists are lists of what the table holds.
LEMMA ListedFinite ==
  ASSUME IsCoops(g_coops)
  PROVE  /\ Listed \in SUBSET CoopIds /\ IsFiniteSet(Listed)
         /\ Cardinality(Listed) \in Nat
         /\ Cardinality(Listed) <= Cardinality(DOMAIN g_coops.name)
<1>1. IsFiniteSet(DOMAIN g_coops.name)
  BY CoopsFinite
<1>2. Listed \in SUBSET DOMAIN g_coops.name /\ Listed \in SUBSET CoopIds
  BY DEF Listed, IsCoops
<1> QED
  BY <1>1, <1>2, FS_Subset, FS_CardinalityType

\* COOPLIST gives a list of different coops.
LEMMA FetchedIsList ==
  ASSUME IsCoops(g_coops), Cardinality(DOMAIN g_coops.name) <= MaxCoops, NEW old
  PROVE  IsList(Fetched(old))
<1>1. PICK S : S = Listed
  OBVIOUS
<1>2. /\ S \in SUBSET CoopIds /\ S \in SUBSET Int /\ IsFiniteSet(S)
      /\ Cardinality(S) \in 0 .. MaxCoops
  BY <1>1, ListedFinite, CoopsFinite, ConfigAssumption DEF CoopIds
<1>3. PICK n \in 0 .. MaxCoops : n = Cardinality(S)
  BY <1>2
<1>4. PICK l : l = Fetched(old)
  OBVIOUS
<1>5. l = [k \in 1 .. n |-> ListEntry(Kth(S, k))]
  BY <1>1, <1>3, <1>4 DEF Fetched
<1>6. ASSUME NEW k \in 1 .. n
      PROVE  /\ DOMAIN l[k] = {"id", "name", "devs"}
             /\ l[k].id = Kth(S, k) /\ Kth(S, k) \in CoopIds
  <2>1. Kth(S, k) \in S
    BY <1>2, <1>3, KthExists
  <2> QED
    BY <1>2, <1>5, <2>1 DEF ListEntry
<1>7. ASSUME NEW j \in 1 .. n, NEW k \in 1 .. n, Kth(S, j) = Kth(S, k) PROVE j = k
  BY <1>2, <1>3, <1>7, KthDistinct
<1>8. DOMAIN l = 1 .. n /\ l = [k \in 1 .. n |-> l[k]]
  BY <1>5
<1> QED
  BY <1>4, <1>6, <1>7, <1>8 DEF IsList

\* SCAN leaves it one.
LEMMA HousedIsList ==
  ASSUME NEW l, IsList(l), NEW t
  PROVE  IsList(Housed(l, t))
<1>1. PICK n \in 0 .. MaxCoops : l = [k \in 1 .. n |-> l[k]]
  BY DEF IsList
<1>2. PICK h : h = Housed(l, t)
  OBVIOUS
<1>3. DOMAIN l = 1 .. n /\ DOMAIN h = 1 .. n /\ h = [k \in 1 .. n |-> h[k]]
  BY <1>1, <1>2 DEF Housed
<1>4. ASSUME NEW k \in 1 .. n
      PROVE  /\ DOMAIN h[k] = {"id", "name", "devs"} /\ h[k].id = l[k].id
             /\ l[k].id \in CoopIds
  <2>1. DOMAIN l[k] = {"id", "name", "devs"} /\ l[k].id \in CoopIds
    BY <1>3 DEF IsList
  <2>2. h[k] = [l[k] EXCEPT !.devs = [d \in {d \in DOMAIN t : t[d].coop = l[k].id} |-> t[d].type]]
    BY <1>2, <1>3 DEF Housed
  <2> QED
    BY <2>1, <2>2
<1>5. \A j, k \in 1 .. n : h[j].id = h[k].id => j = k
  BY <1>3, <1>4 DEF IsList
<1> QED
  BY <1>2, <1>3, <1>4, <1>5 DEF IsList

\* What is remembered fits.
LEMMA RememberedIsMemory ==
  ASSUME NEW m, IsMemory(m), NEW d, NEW entry, entry.token \in Tokens
  PROVE  IsMemory(Remembered(m, d, entry))
<1>1. CASE d \notin DOMAIN m /\ Cardinality(DOMAIN m) >= MaxDevices
  BY <1>1 DEF Remembered
<1>2. CASE ~(d \notin DOMAIN m /\ Cardinality(DOMAIN m) >= MaxDevices)
  <2>1. Remembered(m, d, entry) = With(m, d, entry)
    BY <1>2 DEF Remembered
  <2>2. /\ DOMAIN With(m, d, entry) = DOMAIN m \cup {d}
        /\ \A e \in DOMAIN m \cup {d} : With(m, d, entry)[e] \in {entry, m[e]}
    BY DEF With
  <2>3. PICK S : S = DOMAIN m
    OBVIOUS
  <2>4. IsFiniteSet(S) /\ Cardinality(S) \in Nat /\ Cardinality(S) <= MaxDevices
    BY <2>3, FS_CardinalityType DEF IsMemory
  <2>5. IsFiniteSet(S \cup {d}) /\ Cardinality(S \cup {d}) <= MaxDevices
    <3>1. CASE d \in S
      <4>1. S \cup {d} = S
        BY <3>1
      <4> QED
        BY <2>4, <4>1
    <3>2. CASE d \notin S
      <4>1. Cardinality(S) < MaxDevices
        BY <1>2, <2>3, <2>4, <3>2, ConfigAssumption
      <4>2. IsFiniteSet(S \cup {d}) /\ Cardinality(S \cup {d}) \in Nat
            /\ Cardinality(S \cup {d}) <= Cardinality(S) + 1
        BY <2>4, AddOne, FS_CardinalityType
      <4> QED
        BY <2>4, <4>1, <4>2, ConfigAssumption
    <3> QED
      BY <3>1, <3>2
  <2>6. \A e \in S \cup {d} : With(m, d, entry)[e].token \in Tokens
    BY <2>2, <2>3 DEF IsMemory, With
  <2> QED
    BY <2>1, <2>2, <2>3, <2>5, <2>6 DEF IsMemory
<1> QED
  BY <1>1, <1>2

\* An empty list and an empty memory are well typed.
LEMMA NothingTypes == IsList(<<>>) /\ IsMemory(EmptyTable)
<1>1. 0 \in 0 .. MaxCoops /\ <<>> = [k \in 1 .. 0 |-> <<>>[k]]
  BY ConfigAssumption
<1> QED
  BY <1>1, FS_EmptySet, ConfigAssumption DEF IsList, IsMemory, EmptyTable

\* Each choice keeps the lists and the memory well typed.
LEMMA RequestTypes ==
  ASSUME TypeOK, Capacity, MenuTypes, NEW u \in Users, Menu(u)
  PROVE  IsList(coop_list'[u]) /\ IsMemory(devices'[u])
<1> DEFINE Right == IsList(coop_list'[u]) /\ IsMemory(devices'[u])
<1> USE DEF MenuTypes
<1>a. IsList(<<>>) /\ IsMemory(EmptyTable)
  BY NothingTypes
<1>b. \A old : IsList(Fetched(old))
  BY FetchedIsList DEF TypeOK, Capacity
<1>c. IsList(coop_list[u]) /\ IsMemory(devices[u])
  OBVIOUS
<1>1. CASE RefreshCoopList(u)
  BY <1>1, <1>a, <1>b, <1>c DEF RefreshCoopList
<1>2. CASE RefreshScan(u)
  BY <1>2, <1>c, HousedIsList DEF RefreshScan
<1>3. ASSUME NEW d \in DeviceIds, NEW pw \in Passwords, menu_connect(u, d, pw)
      PROVE  Right
  <2>1. PICK entry : entry = [token |-> generate_token(clock), type |-> TypeShown(u, d)]
    OBVIOUS
  <2>2. IsMemory(Remembered(devices[u], d, entry))
    BY <1>c, <2>1, RememberedIsMemory DEF generate_token, TypeOK
  <2> QED
    BY <1>3, <1>c, <2>1, <2>2 DEF menu_connect
<1>4. ASSUME NEW d \in DeviceIds, menu_info(u, d) PROVE Right
  BY <1>4, <1>c DEF menu_info
<1>5. ASSUME NEW d \in DeviceIds, NEW direct_mode \in BOOLEAN, menu_control(u, d, direct_mode)
      PROVE  Right
  BY <1>5, <1>c DEF menu_control
<1>6. ASSUME NEW d \in DeviceIds, menu_setcfg(u, d) PROVE Right
  BY <1>6, <1>c DEF menu_setcfg
<1>7. ASSUME NEW name \in Names, menu_add_coop(u, name) PROVE Right
  BY <1>7, <1>c DEF menu_add_coop
<1>8. ASSUME NEW at \in DOMAIN coop_list[u], NEW d \in DeviceIds, NEW type \in NewTypes,
             NEW pw \in Passwords, menu_add_device(u, at, d, type, pw)
      PROVE  Right
  BY <1>8, <1>c DEF menu_add_device
<1>9. CASE Open(u)
  BY <1>9, <1>b, <1>c DEF Open
<1>10. CASE Leave(u)
  BY <1>10, <1>a DEF Leave
<1> QED
  BY <1>1, <1>2, <1>3, <1>4, <1>5, <1>6, <1>7, <1>8, <1>9, <1>10 DEF Menu

\* What happens outside is a step of CoopLogic too, and changes what clients keep only
\* in that they may lose the server.
LEMMA OutsideOfMenus ==
  ASSUME MenuTypes, Outside
  PROVE  /\ [Next]_vars
         /\ linked' = [u \in Users |-> linked[u] /\ up']
         /\ UNCHANGED <<pc, coop_list, devices, order>>
<1>1. Start \/ Crash \/ Tick \/ HandAddsDevice
  BY DEF Outside
<1>2. Next
  BY <1>1 DEF Next, Server
<1> QED
  BY <1>2 DEF Outside, KeepLinks

\* So does each step of the menus.
LEMMA MenusNextTypes ==
  ASSUME TypeOK, Capacity, MenuTypes, [MenusNext]_allVars
  PROVE  [Next]_vars /\ MenuTypes'
<1>1. CASE UNCHANGED allVars
  BY <1>1 DEF allVars, userVars, vars, MenuTypes
<1>2. CASE Outside
  BY <1>2, OutsideOfMenus DEF MenuTypes
<1>3. ASSUME NEW u \in Users, Menu(u) PROVE [Next]_vars /\ MenuTypes'
  <2>1. [Next]_vars
    BY <1>3, RequestOfMenu DEF Next
  <2>2. Frame(u)
    BY <1>3, RequestFrames
  <2>3. IsList(coop_list'[u]) /\ IsMemory(devices'[u])
    BY <1>3, RequestTypes
  <2>4. \A v \in Users : IsList(coop_list'[v]) /\ IsMemory(devices'[v])
    BY <2>2, <2>3 DEF Frame, MenuTypes
  <2>5. \A v \in Users : linked'[v] => up' /\ pc'[v] # "away"
    BY <2>2 DEF Frame, MenuTypes
  <2> QED
    BY <2>1, <2>2, <2>4, <2>5 DEF Frame, MenuTypes
<1> QED
  BY <1>1, <1>2, <1>3 DEF MenusNext

\* So the menus use the server as CoopLogic says a server may be used.
LEMMA MenusInitTypes ==
  ASSUME MenusInit
  PROVE  Init /\ MenuTypes
BY NothingTypes DEF MenusInit, MenuTypes, Places

LEMMA MenusUseServer ==
  MenusSpec => Spec /\ [](TypeOK /\ Capacity /\ MenuTypes)
<1>1. MenusInit => TypeOK /\ Capacity /\ FiniteTables /\ MenuTypes
  BY MenusInitTypes, InitTypes, InitFits
<1>2. TypeOK /\ Capacity /\ FiniteTables /\ MenuTypes /\ [MenusNext]_allVars
        => (TypeOK /\ Capacity /\ FiniteTables /\ MenuTypes)'
  BY MenusNextTypes, StepTypes, StepFits
<1>3. MenusInit => Init
  BY DEF MenusInit
<1>4. TypeOK /\ Capacity /\ MenuTypes /\ [MenusNext]_allVars => [Next]_vars
  BY MenusNextTypes
<1> QED
  BY <1>1, <1>2, <1>3, <1>4, PTL DEF MenusSpec, Spec

\* A list has as many entries as the server has coops to show.
LEMMA ListFits ==
  ASSUME NEW l, IsList(l)
  PROVE  Len(l) <= MaxCoops
<1>1. PICK n \in 0 .. MaxCoops : l = [k \in 1 .. n |-> l[k]]
  BY DEF IsList
<1>2. l \in Seq({l[k] : k \in 1 .. n})
  BY <1>1
<1>3. Len(l) \in Nat /\ 1 .. n = 1 .. Len(l)
  BY <1>1, <1>2, LenProperties
<1> QED
  BY <1>3, ConfigAssumption

\* In every reachable state what a client keeps has its type: what the user picks by
\* its number is unambiguous, a list names each coop once and fits in its array, and
\* so does what is remembered (main_client.c:169, ui_client.c:333).
THEOREM MenusTypes == MenusSpec => []MenusTypeOK
<1>1. MenuTypes => MenusTypeOK
  BY ListFits DEF MenuTypes, MenusTypeOK, IsList, IsMemory
<1> QED
  BY <1>1, MenusUseServer, PTL

(***************************************************************************)
(* The coops, when nobody writes them in the file and the file can hold    *)
(* the names the users give: they are numbered 1, 2, 3 ... in memory and   *)
(* in the file, and what the file has the memory has, under that name.     *)
(***************************************************************************)

\* A name a coop can have: one that no load replaces, or its default one.
PlainName(i) == (Names \ ({""} \cup Reserved)) \cup {DefaultName(i)}

CoopsKnown(c) ==
  /\ Dense(c)
  /\ Cardinality(DOMAIN c.name) <= MaxCoops
  /\ \A i \in DOMAIN c.name : c.name[i] \in PlainName(i)

FileKnown(f) ==
  Readable(f) =>
    \E m \in 0 .. MaxCoops :
      DOMAIN f.coops = 1 .. m /\ \A i \in 1 .. m : LoadedName(f, i) \in PlainName(i)

FileAgrees(f, c) ==
  Readable(f) =>
    \A i \in DOMAIN f.coops : i \in DOMAIN c.name /\ c.name[i] = LoadedName(f, i)

FarmKnown == CoopsKnown(g_coops) /\ FileKnown(disk) /\ (up => FileAgrees(disk, g_coops))

\* Ids below next_id leave it where it is (coops.c:29).
LEMMA BumpBelow ==
  ASSUME NEW next \in Int, NEW ids \in SUBSET Int, next <= IntMax, \A i \in ids : i < next
  PROVE  Bump(next, ids) = {next}
<1>1. IntMax \notin ids
  BY ConfigAssumption
<1>2. ASSUME NEW m \in {next} \cup {i + 1 : i \in ids}, m >= next PROVE m = next
  <2>1. CASE m \in {i + 1 : i \in ids}
    <3>1. PICK i \in ids : m = i + 1
      BY <2>1
    <3>2. i \in Int /\ i < next
      OBVIOUS
    <3> QED
      BY <1>2, <3>1, <3>2
  <2> QED
    BY <2>1
<1>3. next >= next /\ \A i \in ids : next > i
  OBVIOUS
<1> QED
  BY <1>1, <1>2, <1>3 DEF Bump

\* A load finds the coops of the file (storage.c:337).
LEMMA LoadKnown ==
  ASSUME NEW f, Readable(f), FileKnown(f), NEW farm \in storage_load_farm(f)
  PROVE  /\ DOMAIN farm.coops.name = DOMAIN f.coops
         /\ \A i \in DOMAIN f.coops : farm.coops.name[i] = LoadedName(f, i)
         /\ CoopsKnown(farm.coops)
<1>1. PICK m \in 0 .. MaxCoops :
        DOMAIN f.coops = 1 .. m /\ \A i \in 1 .. m : LoadedName(f, i) \in PlainName(i)
  BY DEF FileKnown
<1>2. m \in Nat /\ m < IntMax /\ IsFiniteSet(1 .. m) /\ Cardinality(1 .. m) = m
  BY FS_Interval, ConfigAssumption
<1>3. ListedCoops(f) = 1 .. m
  BY <1>1 DEF ListedCoops
<1>4. /\ DOMAIN farm.coops.name \in SUBSET (1 .. m)
      /\ 1 .. m \subseteq DOMAIN farm.coops.name
         \/ Cardinality(DOMAIN farm.coops.name) = MaxCoops
      /\ \A i \in DOMAIN farm.coops.name : farm.coops.name[i] = LoadedName(f, i)
  BY <1>3, LoadTakes
<1>5. DOMAIN farm.coops.name = 1 .. m
  <2>1. CASE Cardinality(DOMAIN farm.coops.name) = MaxCoops
    BY <1>2, <1>4, <2>1, WholePart, ConfigAssumption
  <2> QED
    BY <1>4, <2>1
<1>6. PICK named : named = [i \in ListedCoops(f) |-> LoadedName(f, i)]
  OBVIOUS
<1>7. coops_init.name = EmptyTable /\ coops_init.next = 1 /\ DOMAIN coops_init.name = {}
  BY DEF coops_init, EmptyTable
<1>8. farm.coops.next = m + 1
  <2>1. farm.coops \in Upserted(coops_init, named)
    BY <1>6 DEF storage_load_farm
  <2>2. PICK S \in Admitted(DOMAIN coops_init.name, DOMAIN named, MaxCoops) :
          \E n \in Bump(coops_init.next, (DOMAIN coops_init.name \cap DOMAIN named) \cup S) :
            farm.coops = [name |-> [i \in DOMAIN coops_init.name \cup S |->
                             IF i \in DOMAIN named THEN named[i] ELSE coops_init.name[i]],
                          next |-> n]
    BY <2>1 DEF Upserted
  <2>3. DOMAIN farm.coops.name = DOMAIN coops_init.name \cup S
    BY <2>2
  <2>4. (DOMAIN coops_init.name \cap DOMAIN named) \cup S = 1 .. m
    BY <1>5, <1>7, <2>3
  <2>5. Bump(1, 1 .. m) = {m + 1}
    BY <1>2, BumpDense
  <2> QED
    BY <1>7, <2>2, <2>4, <2>5
<1>9. Dense(farm.coops)
  BY <1>2, <1>5, <1>8 DEF Dense
<1> QED
  BY <1>1, <1>2, <1>4, <1>5, <1>9 DEF CoopsKnown

\* A SCAN finds nothing new in the file (coop_logic.c:21).
LEMMA ScanKnown ==
  ASSUME IsCoops(g_coops), FarmKnown, Scan
  PROVE  g_coops' = g_coops
<1>1. ASSUME Readable(disk), NEW farm \in storage_load_farm(disk),
             g_coops' \in Upserted(g_coops, farm.coops.name)
      PROVE  g_coops' = g_coops
  <2>1. PICK t : t = farm.coops.name
    OBVIOUS
  <2>2. DOMAIN t \subseteq DOMAIN g_coops.name /\ \A i \in DOMAIN t : t[i] = g_coops.name[i]
    BY <1>1, <2>1, LoadKnown DEF FarmKnown, FileAgrees, Scan
  <2>3. PICK S \in Admitted(DOMAIN g_coops.name, DOMAIN t, MaxCoops) :
          \E n \in Bump(g_coops.next, (DOMAIN g_coops.name \cap DOMAIN t) \cup S) :
            g_coops' = [name |-> [i \in DOMAIN g_coops.name \cup S |->
                           IF i \in DOMAIN t THEN t[i] ELSE g_coops.name[i]],
                        next |-> n]
    BY <1>1, <2>1 DEF Upserted
  <2>4. S = {}
    BY <2>2 DEF Admitted
  <2>5. DOMAIN g_coops.name \cup S = DOMAIN g_coops.name
    BY <2>4
  <2>6. PICK ids : ids = (DOMAIN g_coops.name \cap DOMAIN t) \cup S
    OBVIOUS
  <2>7. PICK next : next = g_coops.next
    OBVIOUS
  <2>8. next \in Int /\ next <= IntMax /\ ids \in SUBSET Int /\ \A i \in ids : i < next
    <3>1. next \in Nat \ {0} /\ DOMAIN g_coops.name = 1 .. (next - 1)
      BY <2>7 DEF FarmKnown, CoopsKnown, Dense
    <3>2. next <= IntMax
      BY <2>7, ConfigAssumption DEF IsCoops, IntMin
    <3> QED
      BY <2>4, <2>6, <3>1, <3>2
  <2>9. Bump(next, ids) = {next}
    BY <2>8, BumpBelow
  <2>10. PICK n \in {next} :
           g_coops' = [name |-> [i \in DOMAIN g_coops.name |->
                          IF i \in DOMAIN t THEN t[i] ELSE g_coops.name[i]],
                       next |-> n]
    BY <2>3, <2>5, <2>6, <2>7, <2>9
  <2>11. g_coops' = [name |-> [i \in DOMAIN g_coops.name |-> g_coops.name[i]], next |-> next]
    BY <2>2, <2>10
  <2> QED
    BY <2>7, <2>11 DEF IsCoops
<1> QED
  BY <1>1 DEF Scan, merge_farm_from_disk

\* A start finds what the file has, or nothing (coop_logic.c:50).
LEMMA StartKnown ==
  ASSUME IsFile(disk), FarmKnown, Start
  PROVE  CoopsKnown(g_coops') /\ FileAgrees(disk', g_coops')
<1>1. CASE ~Readable(disk)
  <2>1. g_coops' = coops_init /\ disk' = disk
    BY <1>1 DEF Start, coop_logic_init
  <2>2. Cardinality({}) = 0
    BY FS_EmptySet
  <2> QED
    BY <1>1, <2>1, <2>2, ConfigAssumption
    DEF CoopsKnown, FileAgrees, Dense, coops_init, EmptyTable
<1>2. ASSUME Readable(disk), NEW farm \in storage_load_farm(disk),
             g_coops' = sanitize_coop_names(farm.coops)
      PROVE  CoopsKnown(g_coops') /\ FileAgrees(disk, g_coops')
  <2>1. /\ DOMAIN farm.coops.name = DOMAIN disk.coops
        /\ \A i \in DOMAIN disk.coops : farm.coops.name[i] = LoadedName(disk, i)
        /\ CoopsKnown(farm.coops) /\ IsCoops(farm.coops)
    BY <1>2, LoadKnown, LoadType DEF FarmKnown
  <2>2. \A i \in DOMAIN farm.coops.name :
          farm.coops.name[i] \in {"", "0"} => farm.coops.name[i] = DefaultName(i)
    BY <2>1 DEF CoopsKnown, PlainName, Reserved
  <2>3. /\ g_coops'.name = [i \in DOMAIN farm.coops.name |-> farm.coops.name[i]]
        /\ g_coops'.next = farm.coops.next
    BY <1>2, <2>1, <2>2 DEF sanitize_coop_names, IsCoops
  <2>4. g_coops'.name = farm.coops.name
    BY <2>1, <2>3 DEF IsCoops
  <2> QED
    BY <2>1, <2>3, <2>4 DEF CoopsKnown, Dense, FileAgrees
<1> QED
  BY <1>1, <1>2 DEF Start, coop_logic_init

\* A COOPADD takes the next number (coops.c:39).
LEMMA AddKnown ==
  ASSUME FarmKnown, CoopNamed
  PROVE  /\ CoopsKnown(g_coops')
         /\ \A i \in DOMAIN g_coops.name :
              i \in DOMAIN g_coops'.name /\ g_coops'.name[i] = g_coops.name[i]
<1>1. PICK name \in Names :
        /\ name # "" /\ name \notin Reserved
        /\ CanAddCoop(g_coops, name) /\ g_coops' \in coops_add(g_coops, name)
  BY DEF CoopNamed
<1>2. Dense(g_coops')
  BY CommandDense DEF FarmKnown, CoopsKnown, CoopNamed, CoopAdded
<1>3. PICK n \in Nat : n = g_coops.next - 1 /\ DOMAIN g_coops.name = 1 .. n
                       /\ Cardinality(DOMAIN g_coops.name) = n
  BY DenseFits DEF FarmKnown, CoopsKnown, Dense
<1>4. g_coops.next = n + 1 /\ new_coop_id(g_coops) = n + 1
  BY <1>3 DEF FarmKnown, CoopsKnown, Dense, new_coop_id
<1>5. PICK k \in Nat : k = n + 1
  BY <1>3
<1>6. PICK next : g_coops' = [name |-> With(g_coops.name, k, name), next |-> next]
  BY <1>1, <1>4, <1>5 DEF coops_add
<1>7. /\ DOMAIN g_coops'.name = DOMAIN g_coops.name \cup {k}
      /\ g_coops'.name[k] = name
      /\ \A i \in DOMAIN g_coops.name : i # k => g_coops'.name[i] = g_coops.name[i]
  BY <1>6 DEF With
<1>8. k \notin DOMAIN g_coops.name /\ DOMAIN g_coops'.name = 1 .. k
  BY <1>3, <1>5, <1>7
<1>9. Cardinality(1 .. k) = k
  BY FS_Interval
<1>10. k <= MaxCoops
  <2>1. n < MaxCoops
    BY <1>1, <1>3 DEF CanAddCoop
  <2> QED
    BY <1>5, <2>1, ConfigAssumption
<1>11. ASSUME NEW i \in DOMAIN g_coops'.name PROVE g_coops'.name[i] \in PlainName(i)
  <2>1. CASE i = k
    <3>1. name \in Names \ ({""} \cup Reserved)
      BY <1>1
    <3> QED
      BY <1>7, <2>1, <3>1 DEF PlainName
  <2>2. CASE i # k
    <3>1. g_coops.name[i] \in PlainName(i) /\ g_coops'.name[i] = g_coops.name[i]
      BY <1>7, <2>2 DEF FarmKnown, CoopsKnown
    <3> QED
      BY <3>1
  <2> QED
    BY <2>1, <2>2
<1> QED
  BY <1>2, <1>7, <1>8, <1>9, <1>10, <1>11 DEF CoopsKnown

\* What is saved has the names in memory (storage.c:302).
LEMMA SavedKnown ==
  ASSUME Names \cap NonJson = {}, NEW c, CoopsKnown(c), NEW t
  PROVE  FileKnown(storage_save_farm(c, t)) /\ FileAgrees(storage_save_farm(c, t), c)
<1>1. PICK f : f = storage_save_farm(c, t)
  OBVIOUS
<1>2. f.coops = [i \in DOMAIN c.name |-> Written(c.name[i])]
  BY <1>1 DEF storage_save_farm
<1>3. ASSUME NEW i \in DOMAIN c.name PROVE LoadedName(f, i) = c.name[i]
  <2>1. f.coops[i] = Written(c.name[i])
    BY <1>2
  <2>2. c.name[i] \in PlainName(i)
    BY DEF CoopsKnown
  <2>3. CASE c.name[i] = DefaultName(i)
    BY <2>1, <2>3 DEF LoadedName, Written
  <2>4. CASE c.name[i] \in Names \ ({""} \cup Reserved)
    <3>1. Written(c.name[i]) = c.name[i]
      BY <2>4 DEF Written
    <3>2. c.name[i] \notin {Missing, "", "0"}
      BY <2>4, StorageAssumption DEF Reserved
    <3> QED
      BY <2>1, <3>1, <3>2 DEF LoadedName
  <2> QED
    BY <2>2, <2>3, <2>4 DEF PlainName
<1>4. PICK n \in Nat : DOMAIN c.name = 1 .. n /\ Cardinality(DOMAIN c.name) = n
  BY DenseFits DEF CoopsKnown, Dense
<1>5. n \in 0 .. MaxCoops
  BY <1>4, ConfigAssumption DEF CoopsKnown
<1> QED
  BY <1>1, <1>2, <1>3, <1>4, <1>5 DEF FileKnown, FileAgrees, CoopsKnown

(***************************************************************************)
(* While the server runs it only grows, seen from the menus: they send     *)
(* neither ASSIGN nor BYE, and logins are paced.                           *)
(***************************************************************************)

CoopsStay ==
  \A i \in DOMAIN g_coops.name : i \in DOMAIN g_coops'.name /\ g_coops'.name[i] = g_coops.name[i]

DevicesKeepPlace ==
  \A d \in DOMAIN g_devices :
    /\ d \in DOMAIN g_devices'
    /\ g_devices'[d].type = g_devices[d].type /\ g_devices'[d].coop = g_devices[d].coop

SessionsStay ==
  \A token, d : Validated(sessions, token, d) => Validated(sessions', token, d)

Grown == CoopsStay /\ DevicesKeepPlace /\ SessionsStay

\* A login leaves the sessions with another token alone (session_auth.c:28).
LEMMA LoginKeepsOthers ==
  ASSUME NEW s, NEW t, NEW e, NEW token, token # t
  PROVE  Holding(create_session(s, t, e), token) = Holding(s, token)
<1>1. PICK n : n = create_session(s, t, e)
  OBVIOUS
<1>2. \A k \in Slots :
        n[k] = IF IsFirst(k, Slots \ Active(s)) THEN [token |-> t, dev |-> e] ELSE s[k]
  BY <1>1 DEF create_session
<1>3. ASSUME NEW k \in Slots, IsFirst(k, Slots \ Active(s))
      PROVE  k \notin Active(s) /\ n[k].token # token
  <2>1. n[k] = [token |-> t, dev |-> e]
    BY <1>2, <1>3
  <2>2. n[k].token = t
    BY <2>1
  <2> QED
    BY <1>3, <2>2 DEF IsFirst
<1>4. ASSUME NEW k \in Slots PROVE k \in Holding(n, token) <=> k \in Holding(s, token)
  <2>1. CASE IsFirst(k, Slots \ Active(s))
    BY <1>3, <2>1 DEF Holding
  <2>2. CASE ~IsFirst(k, Slots \ Active(s))
    BY <1>2, <2>2 DEF Holding, Active
  <2> QED
    BY <2>1, <2>2
<1>5. Holding(n, token) \subseteq Slots /\ Holding(s, token) \subseteq Slots
  BY DEF Holding, Active
<1> QED
  BY <1>1, <1>4, <1>5

\* So does a paced login, whose token is held by no other session.
LEMMA PacedLoginKeeps ==
  ASSUME NEW s, NEW t, NEW e, Holding(s, t) = {}, NEW token, NEW d, Validated(s, token, d)
  PROVE  Validated(create_session(s, t, e), token, d)
<1>1. PICK k \in Slots : IsFirst(k, Holding(s, token)) /\ s[k].dev = d
  BY DEF Validated
<1>2. k \in Holding(s, token)
  BY <1>1 DEF IsFirst
<1>3. token # t
  BY <1>2
<1>4. Holding(create_session(s, t, e), token) = Holding(s, token)
  BY <1>3, LoginKeepsOthers
<1>5. k \in Active(s)
  BY <1>2 DEF Holding
<1>6. ~IsFirst(k, Slots \ Active(s))
  BY <1>5 DEF IsFirst
<1>7. create_session(s, t, e)[k] = s[k]
  BY <1>6 DEF create_session
<1> QED
  BY <1>1, <1>4, <1>7 DEF Validated

\* It makes its token valid for its device.
LEMMA PacedLoginValid ==
  ASSUME NEW s, NEW t \in Nat, NEW e \in DeviceIds, Holding(s, t) = {}, ~Full(s)
  PROVE  Validated(create_session(s, t, e), t, e)
<1>1. PICK S : S = Slots \ Active(s)
  OBVIOUS
<1>2. S \in SUBSET Nat /\ S # {}
  BY <1>1 DEF Full, Active, Slots
<1>3. PICK k \in S : \A u \in S : k <= u
  <2>1. PICK k \in S : \A u \in S : ~(<<u, k>> \in OpToRel(<, Nat))
    BY <1>2, NatLessThanWellFounded, WFMin
  <2>2. \A u \in S : ~(u < k)
    BY <1>2, <2>1 DEF OpToRel
  <2> QED
    BY <1>2, <2>2
<1>4. k \in Slots /\ \A u \in Slots : IsFirst(u, S) <=> u = k
  BY <1>1, <1>2, <1>3 DEF IsFirst
<1>5. PICK n : n = create_session(s, t, e)
  OBVIOUS
<1>6. \A u \in Slots : n[u] = IF u = k THEN [token |-> t, dev |-> e] ELSE s[u]
  BY <1>1, <1>4, <1>5 DEF create_session
<1>7. [token |-> t, dev |-> e] # NoSession
  BY MenusAssumption
<1>8. ASSUME NEW u \in Slots PROVE u \in Holding(n, t) <=> u = k
  BY <1>4, <1>6, <1>7, <1>8 DEF Holding, Active
<1>9. Holding(n, t) = {k}
  BY <1>4, <1>8 DEF Holding, Active
<1>10. IsFirst(k, Holding(n, t)) /\ n[k].dev = e
  BY <1>2, <1>3, <1>4, <1>6, <1>9 DEF IsFirst
<1> QED
  BY <1>4, <1>5, <1>10 DEF Validated

\* A request of a menu ends the server or makes it grow: coops, devices and valid sessions stay.
LEMMA MenuGrows ==
  ASSUME TypeOK, FarmKnown, MenuShape
  PROVE  Dies \/ (up' = up /\ Grown /\ CoopsKnown(g_coops'))
<1> DEFINE Good == up' = up /\ Grown /\ CoopsKnown(g_coops')
<1>a. CoopsKnown(g_coops)
  BY DEF FarmKnown
<1>1. CASE Quiet
  BY <1>1, <1>a DEF Quiet, Grown, CoopsStay, DevicesKeepPlace, SessionsStay
<1>2. CASE Scan
  <2>1. g_coops' = g_coops
    BY <1>2, ScanKnown DEF TypeOK
  <2>2. /\ UNCHANGED <<up, sessions>>
        /\ \A d \in DOMAIN g_devices : d \in DOMAIN g_devices' /\ g_devices'[d] = g_devices[d]
    BY <1>2, ScanKeeps
  <2> QED
    BY <1>a, <2>1, <2>2 DEF Grown, CoopsStay, DevicesKeepPlace, SessionsStay
<1>3. CASE CoopNamed
  <2>1. CoopsStay /\ CoopsKnown(g_coops')
    BY <1>3, AddKnown DEF CoopsStay
  <2> QED
    BY <1>3, <2>1 DEF CoopNamed, Grown, DevicesKeepPlace, SessionsStay
<1>4. CASE DeviceAdded
  <2>1. UNCHANGED <<up, g_coops, sessions>>
    BY <1>4 DEF DeviceAdded
  <2>2. PICK d, dev : d \notin DOMAIN g_devices /\ g_devices' = With(g_devices, d, dev)
    BY <1>4 DEF DeviceAdded, CanAdd, CanAddDevice
  <2>3. DevicesKeepPlace
    BY <2>2 DEF DevicesKeepPlace, With
  <2> QED
    BY <1>a, <2>1, <2>3 DEF Grown, CoopsStay, SessionsStay
<1>5. CASE DeviceAltered
  <2>1. UNCHANGED <<up, g_coops, sessions>>
    BY <1>5 DEF DeviceAltered
  <2>2. PICK d \in DOMAIN g_devices :
          \E dev : /\ dev.type = g_devices[d].type /\ dev.coop = g_devices[d].coop
                  /\ g_devices' = With(g_devices, d, dev)
    BY <1>5 DEF DeviceAltered
  <2>3. DevicesKeepPlace
    BY <2>2 DEF DevicesKeepPlace, With
  <2> QED
    BY <1>a, <2>1, <2>3 DEF Grown, CoopsStay, SessionsStay
<1>6. CASE Paced /\ LoggedIn
  <2>1. UNCHANGED <<up, g_coops, g_devices>>
    BY <1>6 DEF LoggedIn
  <2>2. PICK e : sessions' = create_session(sessions, generate_token(clock), e)
    BY <1>6 DEF LoggedIn
  <2>3. SessionsStay
    BY <1>6, <2>2, PacedLoginKeeps DEF SessionsStay, Paced
  <2> QED
    BY <1>a, <2>1, <2>3 DEF Grown, CoopsStay, DevicesKeepPlace
<1> QED
  BY <1>1, <1>2, <1>3, <1>4, <1>5, <1>6 DEF MenuShape

\* So the farm stays known.
LEMMA GrownAgrees ==
  ASSUME FarmKnown, up, CoopsStay
  PROVE  FileAgrees(disk, g_coops')
BY DEF FarmKnown, FileAgrees, CoopsStay

\* The menus keep the farm known.
LEMMA MenuKeepsKnown ==
  ASSUME Names \cap NonJson = {}, TypeOK, FarmKnown, MenuShape, Server \/ UNCHANGED vars
  PROVE  FarmKnown'
<1>1. /\ CoopsKnown(g_coops')
      /\ up' => FileAgrees(disk, g_coops')
  <2>1. CASE Dies
    <3>1. Cardinality({}) = 0
      BY FS_EmptySet
    <3> QED
      BY <2>1, <3>1, ConfigAssumption DEF Dies, CoopsKnown, Dense, coops_init, EmptyTable
  <2>2. CASE up' = up /\ Grown /\ CoopsKnown(g_coops')
    BY <2>2, GrownAgrees DEF Grown
  <2> QED
    BY <2>1, <2>2, MenuGrows
<1>2. CASE disk' = disk
  BY <1>1, <1>2 DEF FarmKnown
<1>3. CASE disk' = Truncated
  BY <1>1, <1>3 DEF FarmKnown, FileKnown, FileAgrees, Readable, Truncated
<1>4. CASE disk' = storage_save_farm(g_coops', g_devices')
  BY <1>1, <1>4, SavedKnown DEF FarmKnown
<1> QED
  BY <1>2, <1>3, <1>4, ServerFileShape DEF vars

\* So do crashes, starts, the clock and hand-added devices.
LEMMA OutsideKeepsKnown ==
  ASSUME TypeOK, FarmKnown, Outside
  PROVE  /\ FarmKnown'
         /\ up /\ up' => Grown
<1> USE DEF Grown, CoopsStay, DevicesKeepPlace, SessionsStay
<1>1. CASE Start
  BY <1>1, StartKnown DEF TypeOK, FarmKnown, Start
<1>2. CASE Crash
  <2>1. Cardinality({}) = 0
    BY FS_EmptySet
  <2> QED
    BY <1>2, <2>1, ConfigAssumption
    DEF Crash, Dies, FarmKnown, CoopsKnown, Dense, coops_init, EmptyTable
<1>3. CASE Tick
  BY <1>3 DEF Tick, FarmKnown
<1>4. CASE HandAddsDevice
  <2>1. PICK f : disk' = f /\ f.coops = disk.coops /\ f.status = disk.status
    BY <1>4 DEF HandAddsDevice, HandEdit, TypeOK, IsFile
  <2>2. UNCHANGED <<up, g_coops, g_devices, sessions>>
    BY <1>4 DEF HandAddsDevice, HandEdit
  <2>3. \A i : LoadedName(f, i) = LoadedName(disk, i)
    BY <2>1 DEF LoadedName
  <2>4. FileKnown(f) /\ (up => FileAgrees(f, g_coops))
    BY <2>1, <2>3 DEF FarmKnown, FileKnown, FileAgrees, Readable
  <2> QED
    BY <2>1, <2>2, <2>4 DEF FarmKnown
<1> QED
  BY <1>1, <1>2, <1>3, <1>4 DEF Outside

(***************************************************************************)
(* What a connected client holds, against the tables of the server: c the  *)
(* coops, t the devices, s the sessions.  The k-th entry of a list is coop *)
(* number k, which is why the list may be refilled while a registration is *)
(* under way.                                                              *)
(***************************************************************************)

ListTrue(c, t, l) ==
  \A k \in DOMAIN l :
    /\ l[k].id = k /\ k \in DOMAIN c.name /\ c.name[k] = l[k].name
    /\ \A d \in DOMAIN l[k].devs :
         d \in DOMAIN t /\ t[d].type = l[k].devs[d] /\ t[d].coop = k

MemoryTrue(s, t, m) ==
  \A d \in DOMAIN m :
    Validated(s, m[d].token, d) /\ d \in DOMAIN t /\ t[d].type = m[d].type

OrderTrue(t, p, l, o) ==
  p \in {"registered", "relisted", "reported"} =>
    /\ o.at \in DOMAIN l /\ o.dev \in DOMAIN t /\ t[o.dev].coop = o.at
    /\ p = "reported" => o.dev \in DOMAIN l[o.at].devs

UserTrue(c, t, s, l, m, p, o) ==
  ListTrue(c, t, l) /\ MemoryTrue(s, t, m) /\ OrderTrue(t, p, l, o)

MenusTrue ==
  \A u \in Users :
    /\ linked[u] =>
         UserTrue(g_coops, g_devices, sessions, coop_list[u], devices[u], pc[u], order[u])
    /\ pc[u] = "away" => devices[u] = EmptyTable

\* What is true of a server stays true as it grows.
LEMMA GrowingKeepsTrue ==
  ASSUME Grown, NEW l, NEW m, NEW p, NEW o
  PROVE  /\ ListTrue(g_coops, g_devices, l) => ListTrue(g_coops', g_devices', l)
         /\ MemoryTrue(sessions, g_devices, m) => MemoryTrue(sessions', g_devices', m)
         /\ OrderTrue(g_devices, p, l, o) => OrderTrue(g_devices', p, l, o)
<1> USE DEF Grown, CoopsStay, DevicesKeepPlace, SessionsStay
<1>1. ListTrue(g_coops, g_devices, l) => ListTrue(g_coops', g_devices', l)
  BY DEF ListTrue
<1>2. MemoryTrue(sessions, g_devices, m) => MemoryTrue(sessions', g_devices', m)
  BY DEF MemoryTrue
<1>3. OrderTrue(g_devices, p, l, o) => OrderTrue(g_devices', p, l, o)
  BY DEF OrderTrue
<1> QED
  BY <1>1, <1>2, <1>3

\* COOPLIST gives every coop, each at the place of its number (coop_logic.c:123).
LEMMA FetchedTrue ==
  ASSUME IsCoops(g_coops), CoopsKnown(g_coops), NEW old, NEW t
  PROVE  /\ DOMAIN Fetched(old) = DOMAIN g_coops.name
         /\ ListTrue(g_coops, t, Fetched(old))
<1>1. PICK n \in Nat : DOMAIN g_coops.name = 1 .. n
  BY DEF CoopsKnown, Dense
<1>2. \A i \in DOMAIN g_coops.name : g_coops.name[i] \notin Reserved
  <2> SUFFICES ASSUME NEW i \in DOMAIN g_coops.name PROVE g_coops.name[i] \notin Reserved
    OBVIOUS
  <2>1. i \in CoopIds /\ g_coops.name[i] \in PlainName(i)
    BY DEF IsCoops, CoopsKnown
  <2> QED
    BY <2>1, MenusAssumption DEF PlainName
<1>3. Listed = 1 .. n
  BY <1>1, <1>2 DEF Listed
<1>4. Cardinality(1 .. n) = n
  BY FS_Interval
<1>5. PICK l : l = Fetched(old)
  OBVIOUS
<1>6. l = [k \in 1 .. n |-> ListEntry(Kth(1 .. n, k))]
  BY <1>3, <1>4, <1>5 DEF Fetched
<1>7. ASSUME NEW k \in 1 .. n
      PROVE  l[k].id = k /\ l[k].name = g_coops.name[k] /\ DOMAIN l[k].devs = {}
  <2>1. l[k] = ListEntry(k)
    BY <1>6, KthOfRange
  <2> QED
    BY <2>1 DEF ListEntry, EmptyTable
<1>8. DOMAIN l = 1 .. n
  BY <1>6
<1> QED
  BY <1>1, <1>5, <1>7, <1>8 DEF ListTrue

\* SCAN puts every device under the coop it is in (ui_client.c:161).
LEMMA HousedTrue ==
  ASSUME NEW c, NEW t, NEW l, IsList(l), ListTrue(c, t, l)
  PROVE  /\ DOMAIN Housed(l, t) = DOMAIN l
         /\ ListTrue(c, t, Housed(l, t))
         /\ \A k \in DOMAIN l, d \in DOMAIN t :
              t[d].coop = k => d \in DOMAIN Housed(l, t)[k].devs
<1>1. PICK h : h = Housed(l, t)
  OBVIOUS
<1>2. DOMAIN h = DOMAIN l
  BY <1>1 DEF Housed
<1>3. ASSUME NEW k \in DOMAIN l
      PROVE  /\ h[k].id = k /\ h[k].name = l[k].name
             /\ h[k].devs = [d \in {d \in DOMAIN t : t[d].coop = k} |-> t[d].type]
  <2>1. DOMAIN l[k] = {"id", "name", "devs"} /\ l[k].id = k
    BY DEF IsList, ListTrue
  <2>2. h[k] = [l[k] EXCEPT !.devs = [d \in {d \in DOMAIN t : t[d].coop = k} |-> t[d].type]]
    BY <1>1, <2>1 DEF Housed
  <2> QED
    BY <2>1, <2>2
<1>4. ASSUME NEW k \in DOMAIN l
      PROVE  /\ \A d \in DOMAIN h[k].devs :
                  d \in DOMAIN t /\ t[d].type = h[k].devs[d] /\ t[d].coop = k
             /\ \A d \in DOMAIN t : t[d].coop = k => d \in DOMAIN h[k].devs
  <2>1. PICK D : D = {d \in DOMAIN t : t[d].coop = k}
    OBVIOUS
  <2>2. PICK g : g = h[k].devs
    OBVIOUS
  <2>3. g = [d \in D |-> t[d].type]
    BY <1>3, <2>1, <2>2
  <2>4. DOMAIN g = D /\ \A d \in D : g[d] = t[d].type
    BY <2>3
  <2> QED
    BY <2>1, <2>2, <2>4
<1>5. ListTrue(c, t, h)
  BY <1>2, <1>3, <1>4 DEF ListTrue
<1> QED
  BY <1>1, <1>2, <1>4, <1>5

\* The type shown for a device is that of the device (ui_client.c:170).
LEMMA TypeShownTrue ==
  ASSUME NEW u \in Users, ListTrue(g_coops, g_devices, coop_list[u]), NEW d \in Shown(u)
  PROVE  d \in DOMAIN g_devices /\ TypeShown(u, d) = g_devices[d].type
<1>1. \E k \in DOMAIN coop_list[u] : d \in DOMAIN coop_list[u][k].devs
  BY DEF Shown
<1>2. PICK i : i = CHOOSE k \in DOMAIN coop_list[u] : d \in DOMAIN coop_list[u][k].devs
  OBVIOUS
<1>3. i \in DOMAIN coop_list[u] /\ d \in DOMAIN coop_list[u][i].devs
  BY <1>1, <1>2
<1>4. TypeShown(u, d) = coop_list[u][i].devs[d]
  BY <1>2 DEF TypeShown
<1> QED
  BY <1>3, <1>4 DEF ListTrue

\* An accepted login is remembered with a token that is valid (ui_client.c:367).
LEMMA ConnectTrue ==
  ASSUME TypeOK, NEW d \in DeviceIds, NEW pw \in Passwords, Paced, Connect(d, pw),
         reply' = "CONNECT_OK"
  PROVE  Validated(sessions', generate_token(clock), d)
<1>1. /\ ~Full(sessions)
      /\ sessions' = create_session(sessions, generate_token(clock), d)
  BY DEF Connect, Rejected, Answer
<1>2. generate_token(clock) \in Nat
  BY CoopLogicAssumption DEF generate_token, TypeOK, Tokens
<1> QED
  BY <1>1, <1>2, PacedLoginValid DEF Paced

\* What the client remembers after a login is true.
LEMMA RememberedIsTrue ==
  ASSUME NEW s, NEW t, NEW m, MemoryTrue(s, t, m), NEW d \in DOMAIN t, NEW token,
         Validated(s, token, d)
  PROVE  MemoryTrue(s, t, Remembered(m, d, [token |-> token, type |-> t[d].type]))
<1>1. PICK e : e = [token |-> token, type |-> t[d].type]
  OBVIOUS
<1>2. e.token = token /\ e.type = t[d].type
  BY <1>1
<1>3. MemoryTrue(s, t, With(m, d, e))
  BY <1>2 DEF MemoryTrue, With
<1> QED
  BY <1>1, <1>3 DEF Remembered

\* An accepted registration puts the device in the coop picked (coop_logic.c:464).
LEMMA AddTrue ==
  ASSUME NEW d, NEW type, NEW pw, NEW coop, AddDevice(d, type, pw, coop), reply' = "ADD_OK"
  PROVE  d \in DOMAIN g_devices' /\ g_devices'[d].coop = coop
<1>1. SaveThenAnswer(g_coops, With(g_devices, d, NewDevice(type, pw, coop)), "ADD_OK")
  BY DEF AddDevice, Answer
<1>2. ~Dies
  BY DEF Dies
<1>3. g_devices' = With(g_devices, d, NewDevice(type, pw, coop))
  BY <1>1, <1>2, SaveOutcome
<1>4. NewDevice(type, pw, coop).coop = coop
  BY DEF NewDevice
<1> QED
  BY <1>3, <1>4 DEF With

(***************************************************************************)
(* So what a connected client holds is true after each of its requests.    *)
(***************************************************************************)

\* A server that survives a request was running before it, and has only grown.
LEMMA LinkedGrows ==
  ASSUME TypeOK, MenuTypes, FarmKnown, NEW u \in Users, Menu(u), up'
  PROVE  (up /\ Grown) \/ UNCHANGED vars
<1>1. MenuShape
  BY RequestOfMenu
<1> QED
  BY <1>1, MenuGrows DEF Dies

\* Each of the two requests of a refresh leaves its user with a true view.
LEMMA RefreshTrue ==
  ASSUME TypeOK, MenuTypes, FarmKnown, MenusTrue, NEW u \in Users, linked'[u], Grown,
         RefreshCoopList(u) \/ RefreshScan(u)
  PROVE  UserTrue(g_coops', g_devices', sessions',
                  coop_list'[u], devices'[u], pc'[u], order'[u])
<1>a. linked[u]
  BY DEF RefreshCoopList, RefreshScan
<1>b. /\ ListTrue(g_coops, g_devices, coop_list[u])
      /\ MemoryTrue(sessions, g_devices, devices[u])
      /\ OrderTrue(g_devices, pc[u], coop_list[u], order[u])
  BY <1>a DEF MenusTrue, UserTrue
<1>c. /\ ListTrue(g_coops', g_devices', coop_list[u])
      /\ MemoryTrue(sessions', g_devices', devices[u])
      /\ OrderTrue(g_devices', pc[u], coop_list[u], order[u])
  BY <1>b, GrowingKeepsTrue
<1>1. CASE RefreshCoopList(u)
  <2>1. /\ CoopList
        /\ coop_list' = [coop_list EXCEPT ![u] = Fetched(@)]
        /\ pc' = [pc EXCEPT ![u] = AfterCoopList(u)]
        /\ order' = [order EXCEPT ![u] = IF pc[u] = "registered" THEN @ ELSE Nothing]
        /\ devices' = devices
        /\ pc[u] \in {"menu", "chosen", "registered", "reported"}
    BY <1>1, <1>a DEF RefreshCoopList, Goto
  <2>2. UNCHANGED <<g_coops, g_devices, sessions>>
    BY <2>1 DEF CoopList, Answer
  <2>3. PICK l : l = Fetched(coop_list[u])
    OBVIOUS
  <2>4. DOMAIN l = DOMAIN g_coops.name /\ ListTrue(g_coops, g_devices, l)
    BY <2>3, FetchedTrue DEF TypeOK, FarmKnown
  <2>5. coop_list'[u] = l /\ devices'[u] = devices[u]
    BY <2>1, <2>3 DEF MenuTypes
  <2>6. OrderTrue(g_devices, pc'[u], l, order'[u])
    <3>1. CASE pc[u] = "registered"
      <4>1. pc'[u] = "relisted" /\ order'[u] = order[u]
        BY <2>1, <3>1 DEF AfterCoopList, MenuTypes
      <4>2. DOMAIN coop_list[u] \subseteq DOMAIN l
        BY <1>b, <2>4 DEF ListTrue
      <4> QED
        BY <1>b, <3>1, <4>1, <4>2 DEF OrderTrue
    <3>2. CASE pc[u] # "registered"
      <4>1. pc'[u] = "listed"
        BY <2>1, <3>2 DEF AfterCoopList, MenuTypes
      <4> QED
        BY <4>1 DEF OrderTrue
    <3> QED
      BY <3>1, <3>2
  <2> QED
    BY <1>b, <2>2, <2>4, <2>5, <2>6 DEF UserTrue
<1>2. CASE RefreshScan(u)
  <2>1. /\ coop_list' = [coop_list EXCEPT ![u] = Housed(@, g_devices')]
        /\ pc' = [pc EXCEPT ![u] = IF pc[u] = "relisted" THEN "reported" ELSE "chosen"]
        /\ UNCHANGED <<devices, order>>
        /\ pc[u] \in {"listed", "relisted"}
    BY <1>2, <1>a DEF RefreshScan, Goto
  <2>2. PICK t : t = g_devices'
    OBVIOUS
  <2>3. PICK l : l = Housed(coop_list[u], t)
    OBVIOUS
  <2>4. IsList(coop_list[u])
    BY DEF MenuTypes
  <2>5. /\ DOMAIN l = DOMAIN coop_list[u]
        /\ ListTrue(g_coops', t, l)
        /\ \A k \in DOMAIN coop_list[u], d \in DOMAIN t : t[d].coop = k => d \in DOMAIN l[k].devs
    BY <1>c, <2>2, <2>3, <2>4, HousedTrue
  <2>6. coop_list'[u] = l /\ devices'[u] = devices[u] /\ order'[u] = order[u]
    BY <2>1, <2>2, <2>3 DEF MenuTypes
  <2>7. OrderTrue(t, pc'[u], l, order'[u])
    <3>1. CASE pc[u] = "relisted"
      BY <1>c, <2>2, <2>5, <2>6, <3>1 DEF OrderTrue
    <3>2. CASE pc[u] # "relisted"
      <4>1. pc'[u] = "chosen"
        BY <2>1, <3>2 DEF MenuTypes
      <4> QED
        BY <4>1 DEF OrderTrue
    <3> QED
      BY <3>1, <3>2
  <2> QED
    BY <1>c, <2>2, <2>5, <2>6, <2>7 DEF UserTrue
<1> QED
  BY <1>1, <1>2

\* A request that leaves the lists alone and leads back to the menu.
LEMMA BackInMenuTrue ==
  ASSUME MenuTypes, MenusTrue, NEW u \in Users, linked[u], Grown,
         pc' = [pc EXCEPT ![u] = "menu"], coop_list' = coop_list,
         MemoryTrue(sessions', g_devices', devices'[u])
  PROVE  UserTrue(g_coops', g_devices', sessions',
                  coop_list'[u], devices'[u], pc'[u], order'[u])
<1>1. ListTrue(g_coops', g_devices', coop_list[u])
  BY GrowingKeepsTrue DEF MenusTrue, UserTrue
<1>2. pc'[u] = "menu"
  BY DEF MenuTypes
<1>3. OrderTrue(g_devices', pc'[u], coop_list[u], order'[u])
  BY <1>2 DEF OrderTrue
<1> QED
  BY <1>1, <1>3 DEF UserTrue

\* So does each choice of the menu.
LEMMA ChoiceTrue ==
  ASSUME TypeOK, MenuTypes, MenusTrue, NEW u \in Users, Grown, NEW d \in DeviceIds
  PROVE  /\ \A pw \in Passwords : Paced /\ menu_connect(u, d, pw) =>
              UserTrue(g_coops', g_devices', sessions',
                       coop_list'[u], devices'[u], pc'[u], order'[u])
         /\ \A at \in DOMAIN coop_list[u], type \in NewTypes, pw \in Passwords :
              menu_add_device(u, at, d, type, pw) =>
                UserTrue(g_coops', g_devices', sessions',
                         coop_list'[u], devices'[u], pc'[u], order'[u])
<1> DEFINE Right == UserTrue(g_coops', g_devices', sessions',
                             coop_list'[u], devices'[u], pc'[u], order'[u])
<1>a. linked[u] => /\ ListTrue(g_coops, g_devices, coop_list[u])
                   /\ ListTrue(g_coops', g_devices', coop_list[u])
                   /\ MemoryTrue(sessions', g_devices', devices[u])
  BY GrowingKeepsTrue DEF MenusTrue, UserTrue
<1>1. ASSUME NEW pw \in Passwords, Paced, menu_connect(u, d, pw) PROVE Right
  <2>1. /\ linked[u] /\ pc' = [pc EXCEPT ![u] = "menu"] /\ coop_list' = coop_list
        /\ d \in Shown(u) /\ Connect(d, pw)
    BY <1>1 DEF menu_connect, Chosen, Returns, Goto
  <2>2. PICK entry : entry = [token |-> generate_token(clock), type |-> TypeShown(u, d)]
    OBVIOUS
  <2>3. devices' = IF reply' # "CONNECT_OK" THEN devices
                   ELSE [devices EXCEPT ![u] = Remembered(@, d, entry)]
    BY <1>1, <2>2 DEF menu_connect
  <2>4. MemoryTrue(sessions', g_devices', devices'[u])
    <3>1. CASE reply' # "CONNECT_OK"
      BY <1>a, <2>1, <2>3, <3>1
    <3>2. CASE reply' = "CONNECT_OK"
      <4>1. Validated(sessions', generate_token(clock), d)
        BY <1>1, <2>1, <3>2, ConnectTrue
      <4>2. d \in DOMAIN g_devices' /\ TypeShown(u, d) = g_devices'[d].type
        BY <1>a, <2>1, TypeShownTrue DEF Grown, DevicesKeepPlace
      <4>3. entry = [token |-> generate_token(clock), type |-> g_devices'[d].type]
        BY <2>2, <4>2
      <4>4. MemoryTrue(sessions', g_devices', Remembered(devices[u], d, entry))
        BY <1>a, <2>1, <4>1, <4>2, <4>3, RememberedIsTrue
      <4>5. devices'[u] = Remembered(devices[u], d, entry)
        BY <2>3, <3>2 DEF MenuTypes
      <4> QED
        BY <4>4, <4>5
    <3> QED
      BY <3>1, <3>2
  <2> QED
    BY <2>1, <2>4, BackInMenuTrue
<1>2. ASSUME NEW at \in DOMAIN coop_list[u], NEW type \in NewTypes, NEW pw \in Passwords,
             menu_add_device(u, at, d, type, pw)
      PROVE  Right
  <2>1. linked[u] /\ UNCHANGED <<coop_list, devices>>
        /\ AddDevice(d, type, pw, coop_list[u][at].id)
    BY <1>2 DEF menu_add_device, Chosen
  <2>2. CASE reply' = "ADD_OK"
    <3>1. pc' = [pc EXCEPT ![u] = "registered"]
          /\ order' = [order EXCEPT ![u] = [at |-> at, dev |-> d]]
      BY <1>2, <2>2 DEF menu_add_device, Goto
    <3>2. pc'[u] = "registered" /\ order'[u] = [at |-> at, dev |-> d]
      BY <3>1 DEF MenuTypes
    <3>3. coop_list[u][at].id = at
      BY <1>a, <2>1 DEF ListTrue
    <3>4. d \in DOMAIN g_devices' /\ g_devices'[d].coop = at
      BY <2>1, <2>2, <3>3, AddTrue
    <3>5. OrderTrue(g_devices', pc'[u], coop_list[u], order'[u])
      BY <3>2, <3>4 DEF OrderTrue
    <3> QED
      BY <1>a, <2>1, <3>5 DEF UserTrue
  <2>3. CASE reply' # "ADD_OK"
    <3>1. pc' = [pc EXCEPT ![u] = "menu"]
      BY <1>2, <2>3 DEF menu_add_device, Goto
    <3> QED
      BY <1>a, <2>1, <3>1, BackInMenuTrue
  <2> QED
    BY <2>2, <2>3
<1> QED
  BY <1>1, <1>2

\* So what a user knows is true after any request of their own.
LEMMA RequestTrue ==
  ASSUME TypeOK, MenuTypes, FarmKnown, MenusTrue, NEW u \in Users, Menu(u), linked'[u]
  PROVE  UserTrue(g_coops', g_devices', sessions',
                  coop_list'[u], devices'[u], pc'[u], order'[u])
<1> DEFINE Right == UserTrue(g_coops', g_devices', sessions',
                             coop_list'[u], devices'[u], pc'[u], order'[u])
<1>a. up'
  BY RequestFrames DEF Frame
<1>b. Grown
  <2>1. UNCHANGED vars => Grown
    BY DEF vars, Grown, CoopsStay, DevicesKeepPlace, SessionsStay
  <2> QED
    BY <1>a, <2>1, LinkedGrows
<1>c. linked[u] => MemoryTrue(sessions', g_devices', devices[u])
  BY <1>b, GrowingKeepsTrue DEF MenusTrue, UserTrue
<1>d. ASSUME linked[u], Returns(u), UNCHANGED <<coop_list, devices>> PROVE Right
  <2>1. pc' = [pc EXCEPT ![u] = "menu"]
    BY <1>d DEF Returns, Goto
  <2> QED
    BY <1>b, <1>c, <1>d, <2>1, BackInMenuTrue
<1>1. CASE RefreshCoopList(u) \/ RefreshScan(u)
  BY <1>1, <1>b, RefreshTrue
<1>2. ASSUME NEW d \in DeviceIds, NEW pw \in Passwords, Paced, menu_connect(u, d, pw)
      PROVE  Right
  BY <1>2, <1>b, ChoiceTrue
<1>3. ASSUME NEW at \in DOMAIN coop_list[u], NEW d \in DeviceIds, NEW type \in NewTypes,
             NEW pw \in Passwords, menu_add_device(u, at, d, type, pw)
      PROVE  Right
  BY <1>3, <1>b, ChoiceTrue
<1> HIDE DEF Right
<1>4. ASSUME NEW d \in DeviceIds, menu_info(u, d) PROVE Right
  BY <1>4, <1>d DEF menu_info, Chosen
<1>5. ASSUME NEW d \in DeviceIds, NEW direct_mode \in BOOLEAN, menu_control(u, d, direct_mode)
      PROVE  Right
  BY <1>5, <1>d DEF menu_control, Chosen
<1>6. ASSUME NEW d \in DeviceIds, menu_setcfg(u, d) PROVE Right
  BY <1>6, <1>d DEF menu_setcfg, Chosen
<1>7. ASSUME NEW name \in Names, menu_add_coop(u, name) PROVE Right
  BY <1>7, <1>d DEF menu_add_coop, Chosen
<1>8. CASE Open(u)
  <2>1. /\ coop_list'[u] = Fetched(<<>>) /\ devices'[u] = devices[u] /\ pc'[u] = "menu"
        /\ pc[u] = "away"
    BY <1>8 DEF Open, Goto, AfterCoopList, MenuTypes
  <2>2. UNCHANGED <<g_coops, g_devices, sessions>>
    BY <1>8 DEF Open, CoopList, Answer
  <2>3. ListTrue(g_coops, g_devices, Fetched(<<>>))
    BY FetchedTrue DEF TypeOK, FarmKnown
  <2>4. MemoryTrue(sessions, g_devices, EmptyTable) /\ devices[u] = EmptyTable
    BY <2>1 DEF MemoryTrue, EmptyTable, MenusTrue
  <2>5. OrderTrue(g_devices, "menu", Fetched(<<>>), order'[u])
    BY DEF OrderTrue
  <2> QED
    BY <2>1, <2>2, <2>3, <2>4, <2>5 DEF UserTrue, Right
<1>9. CASE Leave(u)
  BY <1>9 DEF Leave, MenuTypes
<1>10. Right
  BY <1>1, <1>2, <1>3, <1>4, <1>5, <1>6, <1>7, <1>8, <1>9 DEF Menu, Right
<1> QED
  BY <1>10 DEF Right

\* And after those of the others.
LEMMA OthersTrue ==
  ASSUME MenusTrue, Grown, NEW v \in Users, linked[v],
         pc'[v] = pc[v], coop_list'[v] = coop_list[v],
         devices'[v] = devices[v], order'[v] = order[v]
  PROVE  UserTrue(g_coops', g_devices', sessions',
                  coop_list'[v], devices'[v], pc'[v], order'[v])
BY GrowingKeepsTrue DEF MenusTrue, UserTrue

\* A user who is away remembers nothing.
LEMMA ForgetsWhenAway ==
  ASSUME MenuTypes, MenusTrue, NEW u \in Users, Menu(u), pc'[u] = "away"
  PROVE  devices'[u] = EmptyTable
<1> USE DEF MenuTypes, Goto, Returns
<1>1. ASSUME NEW place, place # "away", Goto(u, place) PROVE FALSE
  BY <1>1
<1>2. CASE Leave(u)
  BY <1>2 DEF Leave
<1>3. CASE RefreshCoopList(u) \/ RefreshScan(u) \/ Open(u)
  BY <1>3 DEF RefreshCoopList, RefreshScan, Open, AfterCoopList
<1> HIDE DEF Goto
<1>4. CASE Returns(u)
  BY <1>1, <1>4
<1>5. ASSUME NEW at \in DOMAIN coop_list[u], NEW d \in DeviceIds, NEW type \in NewTypes,
             NEW pw \in Passwords, menu_add_device(u, at, d, type, pw)
      PROVE  FALSE
  BY <1>1, <1>5 DEF menu_add_device
<1> QED
  BY <1>2, <1>3, <1>4, <1>5
  DEF Menu, menu_connect, menu_info, menu_control, menu_setcfg, menu_add_coop

\* Every step of the menus keeps what all users know true.
LEMMA MenusStepTrue ==
  ASSUME Names \cap NonJson = {}, TypeOK, MenuTypes, FarmKnown, MenusTrue,
         [MenusNext]_allVars
  PROVE  FarmKnown' /\ MenusTrue'
<1>a. \A u \in Users : linked[u] => up
  BY DEF MenuTypes
<1>1. CASE UNCHANGED allVars
  BY <1>1 DEF allVars, userVars, vars, FarmKnown, MenusTrue
<1>2. CASE Outside
  <2>1. FarmKnown' /\ (up /\ up' => Grown)
    BY <1>2, OutsideKeepsKnown
  <2>2. /\ linked' = [u \in Users |-> linked[u] /\ up']
        /\ UNCHANGED <<pc, coop_list, devices, order>>
    BY <1>2, OutsideOfMenus
  <2>3. ASSUME NEW v \in Users, linked'[v]
        PROVE  UserTrue(g_coops', g_devices', sessions',
                        coop_list'[v], devices'[v], pc'[v], order'[v])
    <3>1. linked[v] /\ up /\ up'
      BY <1>a, <2>2, <2>3
    <3> QED
      BY <2>1, <2>2, <3>1, OthersTrue
  <2>4. \A v \in Users : pc'[v] = "away" => devices'[v] = EmptyTable
    BY <2>2 DEF MenusTrue
  <2> QED
    BY <2>1, <2>3, <2>4 DEF MenusTrue
<1>3. ASSUME NEW u \in Users, Menu(u) PROVE FarmKnown' /\ MenusTrue'
  <2>1. FarmKnown'
    BY <1>3, RequestOfMenu, MenuKeepsKnown
  <2>2. Frame(u)
    BY <1>3, RequestFrames
  <2>3. ASSUME NEW v \in Users, linked'[v]
        PROVE  UserTrue(g_coops', g_devices', sessions',
                        coop_list'[v], devices'[v], pc'[v], order'[v])
    <3>1. CASE v = u
      BY <1>3, <2>3, <3>1, RequestTrue
    <3>2. CASE v # u
      <4>1. linked[v] /\ up'
        BY <2>2, <2>3, <3>2 DEF Frame
      <4>2. Grown
        <5>1. UNCHANGED vars => Grown
          BY DEF vars, Grown, CoopsStay, DevicesKeepPlace, SessionsStay
        <5> QED
          BY <1>3, <4>1, <5>1, LinkedGrows
      <4> QED
        BY <2>2, <3>2, <4>1, <4>2, OthersTrue DEF Frame
    <3> QED
      BY <3>1, <3>2
  <2>4. \A v \in Users : pc'[v] = "away" => devices'[v] = EmptyTable
    BY <1>3, <2>2, ForgetsWhenAway DEF Frame, MenusTrue
  <2> QED
    BY <2>1, <2>3, <2>4 DEF MenusTrue
<1> QED
  BY <1>1, <1>2, <1>3 DEF MenusNext

\* It is true always.
LEMMA MenusAlwaysTrue ==
  ASSUME Names \cap NonJson = {}
  PROVE  MenusSpec => []MenusTrue
<1>1. MenusInit => FarmKnown /\ MenusTrue
  <2>1. Cardinality({}) = 0
    BY FS_EmptySet
  <2> QED
    BY <2>1, ConfigAssumption
    DEF MenusInit, Init, FarmKnown, CoopsKnown, FileKnown, Dense, Readable, coops_init,
        EmptyTable, NoFile, MenusTrue
<1>2. TypeOK /\ MenuTypes /\ FarmKnown /\ MenusTrue /\ [MenusNext]_allVars
        => (FarmKnown /\ MenusTrue)'
  BY MenusStepTrue
<1> QED
  BY <1>1, <1>2, MenusUseServer, PTL DEF MenusSpec

\* In every reachable state what a connected client shows is so on the server, when
\* nobody writes coops in the file and the file can hold the names users give: each
\* coop has that name, each device has that type and is in that coop, however the
\* requests of others fall between and after its own (ui_client.c:161, 170).
THEOREM CachesAreTrue ==
  ASSUME Names \cap NonJson = {}
  PROVE  MenusSpec => []CacheTrue
<1>1. MenusTrue => CacheTrue
  BY DEF MenusTrue, UserTrue, ListTrue, CacheTrue
<1> QED
  BY <1>1, MenusAlwaysTrue, PTL

\* In every reachable state the token a connected client remembers for a device is
\* valid for it, and the type it builds requests for is that of the device
\* (ui_client.c:367).
THEOREM RememberedIsValid ==
  ASSUME Names \cap NonJson = {}
  PROVE  MenusSpec => []RememberedTrue
<1>1. MenusTrue => RememberedTrue
  BY DEF MenusTrue, UserTrue, MemoryTrue, RememberedTrue
<1> QED
  BY <1>1, MenusAlwaysTrue, PTL

\* In every reachable state the report of a registration names the coop the device was
\* put in, and the menu shows it there, although the list was refilled in between
\* (ui_client.c:565, 598).
THEOREM ReportsAreRight ==
  ASSUME Names \cap NonJson = {}
  PROVE  MenusSpec => []ReportedCoop
<1>1. MenusTrue => ReportedCoop
  BY DEF MenusTrue, UserTrue, ListTrue, OrderTrue, ReportedCoop
<1> QED
  BY <1>1, MenusAlwaysTrue, PTL
=============================================================================
