------------------------------ MODULE CoopLogic ------------------------------
(***************************************************************************)
(* The farm server: server/coop_logic.c on top of coops.c, devices.c,      *)
(* session_auth.c and storage.c, with the process and its file around it.  *)
(* The server has one thread, so a command is one step: handle_command     *)
(* runs to its end, saving included, before the next line is read.  A      *)
(* crash may come between two commands or inside the save of one.          *)
(*                                                                         *)
(* A request carries whatever a client may put in it: any device, token,   *)
(* password, coop id or payload, valid or not.                             *)
(* A definition named X_y is X with a mistake y, for the mutation runs.    *)
(***************************************************************************)
EXTENDS Storage, SessionTable

CONSTANTS
  NewTypes,     \* type words ADD is tried with; "unknown" is one not in TYPE_TABLE
  Payloads,     \* payloads CONTROL and SETCFG are tried with
  CoopArgs,     \* coop ids ADD and ASSIGN are tried with
  HandCoops,    \* [id, name]: coops a person may write in the file
  HandDevices,  \* [id, entry]: devices a person may write in the file
  Faults,       \* what may go wrong in a save, a subset of SaveFaults
  MaxClock      \* bound: the last second of the model

SaveFaults == {"open_fails", "write_fails", "killed_in_save"}

ASSUME CoopLogicAssumption ==
  /\ NewTypes \subseteq DeviceTypes
  /\ \A p \in Payloads : \A k \in DOMAIN p : p[k] \in Numbers
  /\ CoopArgs \subseteq Int
  /\ HandCoops \subseteq [id : Int, name : Names \cup {Missing}]
  /\ \A h \in HandCoops : h.id <= IntMax
  /\ \A h \in HandDevices :
       /\ h.id \in DeviceIds \ NonJson /\ IsEntry(h.entry) /\ h.entry.coop <= IntMax
       /\ \A k \in DOMAIN h.entry.cfg : h.entry.cfg[k] \in Numbers
  /\ Faults \subseteq SaveFaults
  /\ MaxClock \in Nat

VARIABLES
  up,         \* the server process is running
  g_coops,    \* static struct CoopsContext g_coops
  g_devices,  \* static struct DevicesContext g_devices, as a table by id
  sessions,   \* static struct Session sessions[MAX_DEVICES]
  disk,       \* farm_state.json
  clock,      \* time(NULL), in seconds
  reply       \* code of the response to the step just taken, "-" for none

vars == <<up, g_coops, g_devices, sessions, disk, clock, reply>>

Tokens == 0 .. MaxClock

\* Responses that report a change the server made.
Changes == {"COOPADD_OK", "CONTROL_OK", "SETCFG_OK", "PASS_OK", "ADD_OK", "ASSIGN_OK"}
Replies ==
  Changes \cup {"-", "BAD_REQUEST", "NO_DEVICE", "WRONG_PASSWORD", "NOT_CONNECTED",
                "CONNECT_OK", "INFO_OK", "BYE_OK", "DEVICE", "NO_DEVICE_SCAN",
                "COOP", "NO_COOP"}

(***************************************************************************)
(* The shapes that handlers are made of.                                   *)
(***************************************************************************)

\* Answer and change nothing.
Answer(code) ==
  /\ reply' = code
  /\ UNCHANGED <<up, g_coops, g_devices, sessions, disk, clock>>

\* What is left when the process is gone: statics as coops_init leaves them.
Dies ==
  /\ up' = FALSE
  /\ g_coops' = coops_init
  /\ g_devices' = EmptyTable
  /\ sessions' = no_sessions
  /\ reply' = "-"

(***************************************************************************)
(* The tail of every command that changes the farm: the tables become      *)
(* coops and devices, (void)storage_save_farm(...), and the answer.  The   *)
(* result of the save is ignored.  When the file cannot be opened it stays *)
(* as it was; once opened for writing it is empty, so a write that fails   *)
(* or is cut short leaves no JSON.                                         *)
(***************************************************************************)
SaveThenAnswer(coops, devices, code) ==
  /\ clock' = clock
  /\ \E outcome \in {"saved"} \cup Faults :
       /\ disk' = CASE outcome = "saved" -> storage_save_farm(coops, devices)
                    [] outcome = "open_fails" -> disk
                    [] OTHER -> Truncated
       /\ IF outcome = "killed_in_save" THEN Dies
          ELSE /\ up' = up
               /\ g_coops' = coops
               /\ g_devices' = devices
               /\ sessions' = sessions
               /\ reply' = code

\* The handlers that take a token start by checking it.
Connected(token, d) == Validated(sessions, token, d)

Refused(token, d) == ~Connected(token, d) /\ Answer("NOT_CONNECTED")

\* The refusals after the token check: the device is gone, or will not do it.
Rejected(d, code) ==
  Answer(IF d \in DOMAIN g_devices THEN code ELSE "NO_DEVICE")

PasswordIs(d, pw) == d \in DOMAIN g_devices /\ g_devices[d].password = pw

(***************************************************************************)
(* handle_command, one action per command.                                 *)
(***************************************************************************)

\* Arguments that sscanf cannot split, or a command word not in the table.
Malformed == up /\ Answer("BAD_REQUEST")

CoopAdd(name) ==
  /\ up
  /\ \/ /\ ~CanAddCoop(g_coops, name)
        /\ Answer("BAD_REQUEST")
     \/ /\ CanAddCoop(g_coops, name)
        /\ \E coops \in coops_add(g_coops, name) :
             SaveThenAnswer(coops, g_devices, "COOPADD_OK")

Connect(d, pw) ==
  /\ up
  /\ \/ ~PasswordIs(d, pw) /\ Rejected(d, "WRONG_PASSWORD")
     \/ PasswordIs(d, pw) /\ Full(sessions) /\ Answer("BAD_REQUEST")
     \/ /\ PasswordIs(d, pw)
        /\ ~Full(sessions)
        /\ sessions' = create_session(sessions, generate_token(clock), d)
        /\ reply' = "CONNECT_OK"
        /\ UNCHANGED <<up, g_coops, g_devices, disk, clock>>

\* devices_info_json fails for an id it cannot encode.
InfoAvailable(d) == d \in DOMAIN g_devices /\ d \notin NonJson

Info(d, token) ==
  /\ up
  /\ \/ Refused(token, d)
     \/ Connected(token, d) /\ ~InfoAvailable(d) /\ Rejected(d, "BAD_REQUEST")
     \/ Connected(token, d) /\ InfoAvailable(d) /\ Answer("INFO_OK")

ControlServed(d, action, p) ==
  d \in DOMAIN g_devices /\ ControlAccepted(g_devices[d], action, p)

Control(d, token, action, payload) ==
  /\ up
  /\ LET p == PayloadOf(d, action, payload) IN
       \/ Refused(token, d)
       \/ Connected(token, d) /\ ~ControlServed(d, action, p) /\ Rejected(d, "BAD_REQUEST")
       \/ /\ Connected(token, d)
          /\ ControlServed(d, action, p)
          /\ SaveThenAnswer(g_coops,
                            With(g_devices, d, Controlled(g_devices[d], action, p)),
                            "CONTROL_OK")

SetCfgServed(d, p) == d \in DOMAIN g_devices /\ SetCfgAccepted(g_devices[d], p)

SetCfg(d, token, p) ==
  /\ up
  /\ \/ Refused(token, d)
     \/ Connected(token, d) /\ ~SetCfgServed(d, p) /\ Rejected(d, "BAD_REQUEST")
     \/ /\ Connected(token, d)
        /\ SetCfgServed(d, p)
        /\ SaveThenAnswer(g_coops, With(g_devices, d, Configured(g_devices[d], p)),
                          "SETCFG_OK")

ChPass(d, token, old_pw, new_pw) ==
  /\ up
  /\ \/ Refused(token, d)
     \/ /\ Connected(token, d)
        /\ ~PasswordIs(d, old_pw)
        /\ Rejected(d, "WRONG_PASSWORD")
     \/ /\ Connected(token, d)
        /\ PasswordIs(d, old_pw)
        /\ SaveThenAnswer(g_coops,
                          With(g_devices, d, devices_change_password(g_devices[d], new_pw)),
                          "PASS_OK")

Bye(d, token) ==
  /\ up
  /\ \/ Refused(token, d)
     \/ /\ Connected(token, d)
        /\ sessions' = end_session(sessions, token)
        /\ reply' = "BYE_OK"
        /\ UNCHANGED <<up, g_coops, g_devices, disk, clock>>

CanAdd(d, type, coop) ==
  /\ type # "unknown"
  /\ coop \in DOMAIN g_coops.name
  /\ CanAddDevice(g_devices, d)

AddDevice(d, type, pw, coop) ==
  /\ up
  /\ \/ ~CanAdd(d, type, coop) /\ Answer("BAD_REQUEST")
     \/ /\ CanAdd(d, type, coop)
        /\ SaveThenAnswer(g_coops, With(g_devices, d, NewDevice(type, pw, coop)), "ADD_OK")

\* A coop that is not in the table is refused before the device is looked up.
AssignRefusal(d, coop) ==
  IF coop \in DOMAIN g_coops.name THEN "NO_DEVICE" ELSE "BAD_REQUEST"
CanAssign_anyCoop(d, coop) == d \in DOMAIN g_devices /\ coop > 0
CanAssign(d, coop) == d \in DOMAIN g_devices /\ coop \in DOMAIN g_coops.name

Assign(d, coop) ==
  /\ up
  /\ \/ ~CanAssign(d, coop) /\ Answer(AssignRefusal(d, coop))
     \/ /\ CanAssign(d, coop)
        /\ SaveThenAnswer(g_coops, With(g_devices, d, [g_devices[d] EXCEPT !.coop = coop]),
                          "ASSIGN_OK")

(***************************************************************************)
(* SCAN merges the file into memory before it lists the devices: coops are *)
(* upserted, so the file's names win; devices are added only when their id *)
(* is new, so the memory's devices win.  It does not save.                 *)
(***************************************************************************)
MergedDevices_oneShort(devices, file_devices) ==
  {Appended(devices, file_devices, S)
     : S \in Admitted(DOMAIN devices, DOMAIN file_devices, MaxDevices - 1)}
MergedDevices_noRoom(devices, file_devices) ==
  {Appended(devices, file_devices, DOMAIN file_devices \ DOMAIN devices)}
MergedDevices_reload(devices, file_devices) == {file_devices}
MergedDevices(devices, file_devices) ==
  {Appended(devices, file_devices, S)
     : S \in Admitted(DOMAIN devices, DOMAIN file_devices, MaxDevices)}

merge_farm_from_disk ==
  IF ~Readable(disk)
  THEN UNCHANGED <<g_coops, g_devices>>
  ELSE \E farm \in storage_load_farm(disk) :
         /\ g_coops' \in Upserted(g_coops, farm.coops.name)
         /\ g_devices' \in MergedDevices(g_devices, farm.devices)

Scan ==
  /\ up
  /\ merge_farm_from_disk
  /\ reply' = IF DOMAIN g_devices' = {} THEN "NO_DEVICE_SCAN" ELSE "DEVICE"
  /\ UNCHANGED <<up, sessions, disk, clock>>

CoopList ==
  up /\ Answer(IF DOMAIN g_coops.name = {} THEN "NO_COOP" ELSE "COOP")

(***************************************************************************)
(* The process.  coop_logic_init loads the file, or starts an empty farm   *)
(* when it cannot be read for whatever reason; sanitize_coop_names repeats *)
(* what the load did to the names.                                         *)
(***************************************************************************)
sanitize_coop_names(ctx) ==
  [ctx EXCEPT !.name = [i \in DOMAIN ctx.name |->
                          IF ctx.name[i] \in {"", "0"} THEN DefaultName(i)
                                                       ELSE ctx.name[i]]]

coop_logic_init ==
  IF ~Readable(disk)
  THEN g_coops' = coops_init /\ g_devices' = EmptyTable
  ELSE \E farm \in storage_load_farm(disk) :
         /\ g_coops' = sanitize_coop_names(farm.coops)
         /\ g_devices' = farm.devices

Start ==
  /\ ~up
  /\ up' = TRUE
  /\ coop_logic_init
  /\ sessions' = no_sessions
  /\ reply' = "-"
  /\ UNCHANGED <<disk, clock>>

Crash == up /\ Dies /\ UNCHANGED <<disk, clock>>

(***************************************************************************)
(* The world outside the server.                                           *)
(***************************************************************************)
Tick ==
  /\ clock < MaxClock
  /\ clock' = clock + 1
  /\ reply' = "-"
  /\ UNCHANGED <<up, g_coops, g_devices, sessions, disk>>

\* A person edits farm_state.json, whether the server runs or not: adds or
\* renames a coop, or adds a device under a coop of the file.
HandEdit(file) ==
  /\ disk.status # "corrupt"
  /\ disk' = file
  /\ reply' = "-"
  /\ UNCHANGED <<up, g_coops, g_devices, sessions, clock>>

HandWritesCoop ==
  \E h \in HandCoops :
    HandEdit([disk EXCEPT !.status = "ok", !.coops = With(disk.coops, h.id, h.name)])

HandAddsDevice ==
  \E h \in HandDevices :
    /\ h.id \notin DOMAIN disk.devices
    /\ h.entry.coop \in DOMAIN disk.coops
    /\ HandEdit([disk EXCEPT !.devices = With(disk.devices, h.id, h.entry)])

(***************************************************************************)
(* The specification.  The server has not been started and there is no     *)
(* file yet: both the fresh install and, after hand edits, the README's    *)
(* "copy the sample file first".                                           *)
(***************************************************************************)
Init ==
  /\ up = FALSE
  /\ g_coops = coops_init
  /\ g_devices = EmptyTable
  /\ sessions = no_sessions
  /\ disk = NoFile
  /\ clock = 0
  /\ reply = "-"

\* A step of the server or of its process.
Server ==
  \/ Malformed
  \/ \E name \in Names \cup {""} : CoopAdd(name)
  \/ \E d \in DeviceIds, pw \in Passwords : Connect(d, pw)
  \/ \E d \in DeviceIds, token \in Tokens : Info(d, token)
  \/ \E d \in DeviceIds, token \in Tokens, action \in Actions, p \in Payloads :
       Control(d, token, action, p)
  \/ \E d \in DeviceIds, token \in Tokens, p \in Payloads : SetCfg(d, token, p)
  \/ \E d \in DeviceIds, token \in Tokens, old_pw, new_pw \in Passwords :
       ChPass(d, token, old_pw, new_pw)
  \/ \E d \in DeviceIds, token \in Tokens : Bye(d, token)
  \/ \E d \in DeviceIds, type \in NewTypes, pw \in Passwords, coop \in CoopArgs :
       AddDevice(d, type, pw, coop)
  \/ \E d \in DeviceIds, coop \in CoopArgs : Assign(d, coop)
  \/ Scan
  \/ CoopList
  \/ Start
  \/ Crash

Next == Server \/ Tick \/ HandWritesCoop \/ HandAddsDevice

Spec == Init /\ [][Next]_vars

(***************************************************************************)
(* Properties.                                                             *)
(***************************************************************************)
\* The variables have their types; a device has a power state and settings exactly
\* when its type has them (devices.h:79), however commands and loads made it.
TypeOK ==
  /\ up \in BOOLEAN
  /\ IsCoops(g_coops)
  /\ IsDevices(g_devices)
  /\ sessions \in [Slots -> [token : Tokens, dev : DeviceIds] \cup {NoSession}]
  /\ IsFile(disk)
  /\ clock \in Tokens
  /\ reply \in Replies

\* The tables never hold more than their arrays have room for, also after a
\* SCAN or a start from a file that lists more (coops.c:33, storage.c:365,
\* coop_logic.c:33).
Capacity ==
  /\ Cardinality(DOMAIN g_coops.name) <= MaxCoops
  /\ Cardinality(DOMAIN g_devices) <= MaxDevices

\* Unless a coop numbered INT_MAX came from the file, next_id is above every id
\* in the table, through adds, merges and restarts (coops.c:29, 39, 46).
NextIdFresh ==
  IntMax \notin DOMAIN g_coops.name =>
    \A i \in DOMAIN g_coops.name : i < g_coops.next

\* Every device in memory belongs to a coop in memory.  Needs a file whose coops
\* all fit in the table (storage.c:359 loads the devices of a coop that does not).
DevicesHoused ==
  \A d \in DOMAIN g_devices : g_devices[d].coop \in DOMAIN g_coops.name

\* A session is always that of a device the server still has, so the NO_DEVICE
\* answers that follow a successful token check cannot happen (coop_logic.c:201).
SessionsKnown == \A s \in Active(sessions) : sessions[s].dev \in DOMAIN g_devices

\* Every device has settings that SETCFG or CONTROL would accept, whatever mix of
\* commands, saves and restarts set them.  Needs hand-written heaters, sprayers, feeders
\* and drinkers to have such settings too: a load corrects only the speed of a fan
\* (storage.c:117, 126, 143).
SettingsInRange == \A d \in DOMAIN g_devices : InRange(g_devices[d])

\* After a SCAN everything the file lists is in memory, unless the table is full,
\* and every coop it names has the name it gives (coop_logic.c:21).
ScanComplete ==
  reply \in {"DEVICE", "NO_DEVICE_SCAN"} /\ disk.status = "ok" =>
    /\ \/ ListedDevices(disk) \subseteq DOMAIN g_devices
       \/ Cardinality(DOMAIN g_devices) = MaxDevices
    /\ \/ ListedCoops(disk) \subseteq DOMAIN g_coops.name
       \/ Cardinality(DOMAIN g_coops.name) = MaxCoops
    /\ Cardinality(ListedCoops(disk)) <= MaxCoops =>
         \A i \in ListedCoops(disk) \cap DOMAIN g_coops.name :
           g_coops.name[i] = LoadedName(disk, i)

\* As long as no coop is numbered INT_MAX, a COOP_ADD that is answered with
\* COOPADD_OK added a coop: it took an id that was free (coops.h:40).  After one is,
\* next_id starts over and an add may rename a coop (coops.c:39).
CoopAddFreshBelowMax ==
  [][reply' = "COOPADD_OK" /\ IntMax \notin DOMAIN g_coops.name =>
       \E i \in DOMAIN g_coops'.name \ DOMAIN g_coops.name :
         DOMAIN g_coops'.name = DOMAIN g_coops.name \cup {i}]_vars

\* The server starts with an empty farm only when there is no farm file, or when
\* the file lists nothing (coop_logic.c:50).
EmptyStartOnlyWithoutFile ==
  [][~up /\ up' /\ DOMAIN g_coops'.name = {} =>
       disk.status = "absent" \/ (disk.status = "ok" /\ ListedCoops(disk) = {})]_vars

(***************************************************************************)
(* The farm the program keeps: what is in memory while it runs, what it    *)
(* will find in the file while it does not.                                *)
(***************************************************************************)
FarmInFile ==
  IF ~Readable(disk) THEN [coops |-> coops_init, devices |-> EmptyTable]
  ELSE CHOOSE farm \in storage_load_farm(disk) : TRUE

Kept ==
  INSTANCE Farm WITH
    coops <- IF up THEN g_coops.name ELSE FarmInFile.coops.name,
    devices <- IF up THEN g_devices ELSE FarmInFile.devices

\* After a command that changed the farm and whose save succeeded, the file holds
\* the whole farm: loading it gives back the coops and the devices in memory, with
\* the first four significant digits of their settings (storage.h:8, storage.c:316).
\* Needs names the load leaves alone: it renames a coop that a client has named "0"
\* (storage.c:354).
SaveWholeFarm ==
  [][reply' \in Changes /\ disk' = storage_save_farm(g_coops', g_devices') =>
       \A farm \in storage_load_farm(disk)' :
         /\ farm.coops.name = g_coops'.name
         /\ Kept!Stored(g_devices', farm.devices)]_vars

\* The server keeps the farm as module Farm promises, across crashes and restarts:
\* when no save fails, nobody edits the file, and names, passwords and ids are
\* ones that the file can hold.
KeepsFarm == Kept!Spec
=============================================================================
