-------------------------------- MODULE Menus --------------------------------
(***************************************************************************)
(* client/ui_client.c and coop_client.c: users at the menus of client      *)
(* processes, composed with the server of CoopLogic.                       *)
(*                                                                         *)
(* A request and its answer are one step: the server is so fast that       *)
(* answers stay in step with requests (AnswersInStep of Network).  Between *)
(* two requests of a client those of the others come: between the COOPLIST *)
(* and the SCAN of one refresh, and between the refresh, which fills the   *)
(* lists the user picks from, and the request made of what was picked.     *)
(*                                                                         *)
(* All clients are menus.  They send neither BYE nor CHPASS nor ASSIGN.    *)
(* A definition named X_y is X with a mistake y, for the mutation runs.    *)
(***************************************************************************)
EXTENDS CoopLogic

CONSTANT Users    \* client processes

VARIABLES
  linked,      \* per user, whether the client's connection is that of a running server
  pc,          \* per user: "away" when no client runs, else where it stands
  coop_list,   \* UiContext.coop_list: the coops, each with its devices and their types
  devices,     \* UiContext.devices: token and type of each device connected
  order        \* the registration under way or just reported: the index of the
               \* coop picked, and the device; or Nothing

userVars == <<linked, pc, coop_list, devices, order>>
allVars == <<vars, userVars>>

Nothing == [at |-> 0, dev |-> ""]

MenusInit ==
  /\ Init
  /\ linked = [u \in Users |-> FALSE]
  /\ pc = [u \in Users |-> "away"]
  /\ coop_list = [u \in Users |-> <<>>]
  /\ devices = [u \in Users |-> EmptyTable]
  /\ order = [u \in Users |-> Nothing]

(***************************************************************************)
(* The places of a client: "menu" is any menu; "listed" is inside          *)
(* refresh_coops, between COOPLIST and SCAN; after it the user has         *)
(* "chosen" what to do.  A registration that was accepted ("registered")   *)
(* refreshes once more ("relisted") before it is "reported".               *)
(***************************************************************************)
Goto(u, place) == pc' = [pc EXCEPT ![u] = place]

\* A server that dies takes all connections with it.
KeepLinks == linked' = [u \in Users |-> linked[u] /\ up']

(***************************************************************************)
(* backend_coop_list and refresh_coops.  The server lists coops in the     *)
(* order of its table, which is that of their ids as long as nobody writes *)
(* ids in the file: coops_add appends, with increasing ids.                *)
(***************************************************************************)
Reserved == {"0"}
Listed == {i \in DOMAIN g_coops.name : g_coops.name[i] \notin Reserved}

\* The k-th of the ids in S.
Kth(S, k) == CHOOSE i \in S : Cardinality({j \in S : j <= i}) = k

ListEntry(i) == [id |-> i, name |-> g_coops.name[i], devs |-> EmptyTable]

Fetched_keepsOld(old) ==
  old \o [k \in 1 .. Cardinality(Listed) |-> ListEntry(Kth(Listed, k))]
Fetched(old) == [k \in 1 .. Cardinality(Listed) |-> ListEntry(Kth(Listed, k))]

\* The requests of the menus are among those of CoopLogic, a free slot is no session,
\* and no coop gets a reserved name from the server itself.
ASSUME MenusAssumption ==
  /\ CoopIds \subseteq CoopArgs
  /\ EmptyTable \in Payloads
  /\ NoSession \notin [token : Nat, dev : DeviceIds]
  /\ \A i \in CoopIds : DefaultName(i) \notin Reserved

\* The list with the devices of table t put under their coops.
Housed_firstCoop(list, t) ==
  [k \in DOMAIN list |->
     [list[k] EXCEPT !.devs = [d \in {d \in DOMAIN t : k = 1} |-> t[d].type]]]
Housed(list, t) ==
  [k \in DOMAIN list |->
     [list[k] EXCEPT !.devs =
        [d \in {d \in DOMAIN t : t[d].coop = list[k].id} |-> t[d].type]]]

AfterCoopList(u) ==
  CASE pc[u] = "away" -> "menu"
    [] pc[u] = "registered" -> "relisted"
    [] OTHER -> "listed"

RefreshCoopList(u) ==
  /\ pc[u] \in {"menu", "chosen", "registered", "reported"}
  /\ order' = [order EXCEPT ![u] = IF pc[u] = "registered" THEN @ ELSE Nothing]
  /\ \/ /\ linked[u]
        /\ CoopList
        /\ coop_list' = [coop_list EXCEPT ![u] = Fetched(@)]
        /\ Goto(u, AfterCoopList(u))
     \/ /\ ~linked[u]
        /\ coop_list' = [coop_list EXCEPT ![u] = <<>>]
        /\ Goto(u, IF pc[u] = "registered" THEN "reported" ELSE "chosen")
        /\ UNCHANGED vars
  /\ UNCHANGED <<linked, devices>>

RefreshScan(u) ==
  /\ pc[u] \in {"listed", "relisted"}
  /\ \/ /\ linked[u]
        /\ Scan
        /\ coop_list' = [coop_list EXCEPT ![u] = Housed(@, g_devices')]
     \/ /\ ~linked[u]
        /\ UNCHANGED <<vars, coop_list>>
  /\ Goto(u, IF pc[u] = "relisted" THEN "reported" ELSE "chosen")
  /\ UNCHANGED <<linked, devices, order>>

(***************************************************************************)
(* The choices of the menus.  The request is made of the lists as the      *)
(* refresh left them; all but a registration lead back to the menu.  On a  *)
(* lost connection a request fails and changes nothing, as if the user had *)
(* not made it: there only the next refresh is a step.                     *)
(***************************************************************************)
Chosen(u) == pc[u] = "chosen" /\ linked[u]
Returns(u) == Goto(u, "menu") /\ KeepLinks

\* Devices the user may pick.
Shown(u) == UNION {DOMAIN coop_list[u][k].devs : k \in DOMAIN coop_list[u]}
TypeShown(u, d) ==
  LET k == CHOOSE k \in DOMAIN coop_list[u] : d \in DOMAIN coop_list[u][k].devs
  IN coop_list[u][k].devs[d]
Usable(u) == Shown(u) \cap DOMAIN devices[u]

\* The entry of ensure_client_device, filled in; none when the table is full.
Remembered_firstEntry(known, d, entry) ==
  IF known = EmptyTable THEN With(known, d, entry)
  ELSE [e \in DOMAIN known |-> entry]
Remembered(known, d, entry) ==
  IF d \notin DOMAIN known /\ Cardinality(DOMAIN known) >= MaxDevices THEN known
  ELSE With(known, d, entry)

menu_connect(u, d, pw) ==
  /\ Chosen(u)
  /\ d \in Shown(u)
  /\ Connect(d, pw)
  /\ Returns(u)
  /\ devices' = IF reply' # "CONNECT_OK" THEN devices
                ELSE [devices EXCEPT ![u] =
                        Remembered(@, d, [token |-> generate_token(clock),
                                          type |-> TypeShown(u, d)])]
  /\ UNCHANGED <<coop_list, order>>

menu_info(u, d) ==
  /\ Chosen(u)
  /\ d \in Usable(u)
  /\ Info(d, devices[u][d].token)
  /\ Returns(u)
  /\ UNCHANGED <<coop_list, devices, order>>

\* Choice 3, and choice 5 (direct_mode): a NOW action for the types that have one,
\* ON or OFF for all others, also those without a power state.
HasNowAction(type) == \E a \in NowActions : NowType[a] = type

menu_control(u, d, direct_mode) ==
  /\ Chosen(u)
  /\ d \in Usable(u)
  /\ LET entry == devices[u][d] IN
       \/ /\ direct_mode
          /\ \E a \in NowActions, p \in Payloads :
               /\ NowType[a] = entry.type
               /\ DOMAIN p = NowSettings[a]
               /\ Control(d, entry.token, a, p)
       \/ /\ IF direct_mode THEN ~HasNowAction(entry.type) ELSE entry.type \in PoweredTypes
          /\ \E a \in {"ON", "OFF"} : Control(d, entry.token, a, EmptyTable)
  /\ Returns(u)
  /\ UNCHANGED <<coop_list, devices, order>>

menu_setcfg(u, d) ==
  /\ Chosen(u)
  /\ d \in Usable(u)
  /\ LET entry == devices[u][d] IN
       /\ Settings[entry.type] # {}
       /\ \E p \in Payloads :
            /\ DOMAIN p = Settings[entry.type]
            /\ entry.type = "fan" => p["toc_do"] \in {10, 20, 30}
            /\ SetCfg(d, entry.token, p)
  /\ Returns(u)
  /\ UNCHANGED <<coop_list, devices, order>>

\* menu_manage_coop, choices 1 and 3.
NameTaken_reserved(name) == name # ""
NameTaken(name) == name # "" /\ name \notin Reserved

menu_add_coop(u, name) ==
  /\ Chosen(u)
  /\ NameTaken(name)
  /\ CoopAdd(name)
  /\ Returns(u)
  /\ UNCHANGED <<coop_list, devices, order>>

menu_add_device(u, at, d, type, pw) ==
  /\ Chosen(u)
  /\ coop_list[u][at].id > 0
  /\ type # "unknown"
  /\ AddDevice(d, type, pw, coop_list[u][at].id)
  /\ IF reply' = "ADD_OK"
     THEN Goto(u, "registered") /\ order' = [order EXCEPT ![u] = [at |-> at, dev |-> d]]
     ELSE Goto(u, "menu") /\ UNCHANGED order
  /\ KeepLinks
  /\ UNCHANGED <<coop_list, devices>>

(***************************************************************************)
(* The client process: main up to ui_run, and its end.                     *)
(***************************************************************************)
Open(u) ==
  /\ pc[u] = "away"
  /\ CoopList
  /\ coop_list' = [coop_list EXCEPT ![u] = Fetched(<<>>)]
  /\ linked' = [linked EXCEPT ![u] = TRUE]
  /\ Goto(u, AfterCoopList(u))
  /\ UNCHANGED <<devices, order>>

Leave(u) ==
  /\ pc[u] # "away"
  /\ Goto(u, "away")
  /\ linked' = [linked EXCEPT ![u] = FALSE]
  /\ coop_list' = [coop_list EXCEPT ![u] = <<>>]
  /\ devices' = [devices EXCEPT ![u] = EmptyTable]
  /\ order' = [order EXCEPT ![u] = Nothing]
  /\ UNCHANGED vars

(***************************************************************************)
(* Logins are paced as in SessionAuth: none in the second in which a       *)
(* session that is still open was created.                                 *)
(***************************************************************************)
Paced == Holding(sessions, generate_token(clock)) = {}

Menu(u) ==
  \/ RefreshCoopList(u)
  \/ RefreshScan(u)
  \/ \E d \in DeviceIds, pw \in Passwords : Paced /\ menu_connect(u, d, pw)
  \/ \E d \in DeviceIds : menu_info(u, d)
  \/ \E d \in DeviceIds, direct_mode \in BOOLEAN : menu_control(u, d, direct_mode)
  \/ \E d \in DeviceIds : menu_setcfg(u, d)
  \/ \E name \in Names : menu_add_coop(u, name)
  \/ \E at \in DOMAIN coop_list[u], d \in DeviceIds, type \in NewTypes, pw \in Passwords :
       menu_add_device(u, at, d, type, pw)
  \/ Open(u)
  \/ Leave(u)

Outside ==
  /\ Start \/ Crash \/ Tick \/ HandAddsDevice
  /\ KeepLinks
  /\ UNCHANGED <<pc, coop_list, devices, order>>

MenusNext == Outside \/ \E u \in Users : Menu(u)

MenusSpec == MenusInit /\ [][MenusNext]_allVars

(***************************************************************************)
(* Properties.                                                             *)
(***************************************************************************)
Places == {"away", "menu", "listed", "chosen", "registered", "relisted", "reported"}

\* The variables have their types; what the user picks by its number is unambiguous:
\* a list names each coop once and fits in its array (main_client.c:169, 192).
MenusTypeOK ==
  /\ linked \in [Users -> BOOLEAN]
  /\ pc \in [Users -> Places]
  /\ \A u \in Users :
       /\ \A j, k \in DOMAIN coop_list[u] : coop_list[u][j].id = coop_list[u][k].id => j = k
       /\ Len(coop_list[u]) <= MaxCoops
       /\ Cardinality(DOMAIN devices[u]) <= MaxDevices
       /\ linked[u] => up /\ pc[u] # "away"

\* What a connected client shows is so on the server, however the requests of others
\* fall between its COOPLIST and its SCAN and after them: each coop has that name, each
\* device has that type and is in that coop (ui_client.c:161, 170).
CacheTrue ==
  \A u \in Users : linked[u] =>
    \A k \in DOMAIN coop_list[u] :
      LET coop == coop_list[u][k] IN
        /\ coop.id \in DOMAIN g_coops.name /\ g_coops.name[coop.id] = coop.name
        /\ \A d \in DOMAIN coop.devs :
             /\ d \in DOMAIN g_devices
             /\ g_devices[d].type = coop.devs[d] /\ g_devices[d].coop = coop.id

\* The token a client remembers for a device is valid for it as long as the server
\* runs, whoever else logs in or leaves, and the type it builds requests for is that
\* of the device (ui_client.c:367).
RememberedTrue ==
  \A u \in Users : linked[u] =>
    \A d \in DOMAIN devices[u] :
      /\ Validated(sessions, devices[u][d].token, d)
      /\ d \in DOMAIN g_devices /\ g_devices[d].type = devices[u][d].type

\* The report of a registration names the coop the device was put in, and the menu
\* shows it there, although the list was refilled meanwhile: what others add comes
\* behind it (ui_client.c:565, 598).  A client that lost the server in between reports
\* an empty name.
ReportedCoop ==
  \A u \in Users : pc[u] = "reported" /\ linked[u] =>
    LET coop == coop_list[u][order[u].at] IN
      /\ order[u].at \in DOMAIN coop_list[u]
      /\ g_devices[order[u].dev].coop = coop.id
      /\ g_coops.name[coop.id] = coop.name
      /\ order[u].dev \in DOMAIN coop.devs
=============================================================================
