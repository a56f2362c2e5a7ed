# A verification of the chicken-farm server (Quan-Ly-Chuong-Ga)

The program is a small client/server system in C. The server keeps a farm: coops
(*chuồng*) and the devices in them (fans, heaters, sprayers, feeders, drinkers,
sensors, egg counters). Clients speak a line protocol over TCP. This directory holds
TLA+ models of the server, of its clients and of the network between them, TLC runs
on small instances, and TLAPS proofs.

## 1. The system

### Inventory

| component | code | state | operations | what makes it correct |
|---|---|---|---|---|
| coop table | `server/coops.c` | `CoopsContext`: array of (id, name), `next_id` | init, find, upsert, add | ids are unique, a new coop takes a free id, never more than `MAX_COOPS` |
| device table | `server/devices.c` | `DevicesContext`: array of `Device` (id, type, coop, password, per-type settings and power state) | find, add, set state, NOW actions, set config, change password, info | settings match the type, stay in their limits and ordered; never more than `MAX_DEVICES` |
| session table | `server/session_auth.c` | `sessions[MAX_DEVICES]`: (token, device, active) | generate token, create, validate, end | a token belongs to one session of one device; an ended token is invalid; a session comes from a login |
| farm file | `server/storage.c` | `farm_state.json` | save, load | what is saved loads back, settings to four significant digits; a load never overfills a table |
| command router | `server/coop_logic.c` | the statics `g_coops`, `g_devices` | one handler per command; start; merge on SCAN | a device changes only for a client that logged in to that device; a restart loses nothing but the fifth digit of a setting; devices live in coops that exist |
| line framing | `server/net_server.c` | per connection: line buffer, `buf_pos` | read, split into lines | every line is handled whole, once, in order |
| connection slots | `server/net_server.c` | per slot: fd, what `poll` reported | poll, accept, read, answer, close | a connection has one slot, slots come back, the loop never waits on one connection |
| protocol, types | `shared/` | constant tables | parse command and type words, format responses | – |
| client backend | `client/main_client.c`, `client/net_client.c` | one socket | one function per request; SCAN and COOPLIST read until 200 ms of silence | each answer is taken for the request it answers |
| client menus | `client/ui_client.c`, `client/coop_client.c` | cached coop list, remembered device and token | menus | the cache agrees with the server when it is used |
| event log | `server/monitor_log.c` | a log file | append | – |

### How they interact

`main_server.c` calls `coop_logic_init` (which loads the file) and then `server_run`.
`server_run` polls the listening socket and up to `MAX_DEVICES` connections. For a
readable connection it calls `handle_client_line`, which reads once and calls
`handle_command` for each complete line. `handle_command` runs to its end, including
the save of the whole farm, before the next line is looked at. There are no threads in
the server: concurrency is between clients, whose lines come in any order, and between
the server, the people who edit `farm_state.json`, and crashes.

### What is hard

- Tokens come from `srand(time(NULL))`: logins in one second share a token.
- Sessions have no owner connection and no expiry; only BYE ends one.
- Settings go to the file with four significant digits, so a restart may change them.
- The file is overwritten in place, the result of the save is ignored, and every load
  error is taken for "no file".
- SCAN merges a file that may be older or newer than memory; every other changing
  command overwrites it.
- The coop and device tables fill up on four paths, each with its own checks.
- The line buffer is shifted without its terminator.
- The client takes 200 ms of silence for the end of an answer.
- What `poll` reported is used after slots have been filled and freed.
- The menus refresh their lists with two requests, and build the next request from the
  lists while other users change the farm.

`PROJECT.json` lists these hazards at their lines with the properties that cover them.

## 2. The modules

| module | what it is |
|---|---|
| `Config` | `MAX_DEVICES`, `MAX_COOPS`, `INT_MAX` as constants with their assumption |
| `Tables` | C arrays as finite functions from id to entry |
| `Coops` | `coops.c`: contexts, `coops_upsert` over a table, `coops_add`, the wrap of `next_id` |
| `Devices` | `devices.c`: settings, limits, defaults, what CONTROL and SETCFG accept and do |
| `SessionTable` | `session_auth.c` as operators on the array of slots |
| `Storage` | `storage.c`: the file, what a save writes, what a load makes of it |
| `CoopLogic` | the server: the state machine over all of the above, and its properties |
| `Farm` | abstract: the farm that the server promises to keep |
| `FarmHistory` | `CoopLogic` with a history variable for hand-added devices |
| `Access` | `CoopLogic` with clients that send only the tokens they were given, and with a history of their logins |
| `SessionMap` | abstract: a map from open tokens to devices |
| `SessionAuth` | the session table as a component of its own, with the clock |
| `LineBuffer` | `handle_client_line` on one connection, byte by byte |
| `NetServer` | `server_run`: slots, poll, accept, answers line by line, over many connections |
| `Network` | the request functions of the clients on the other end of `NetServer`'s connections |
| `Menus` | the menus of several clients on top of `CoopLogic` |
| `MC*` | constants for TLC |
| `CoopLogicProofs` | theorems about `CoopLogic`: types, the shape of every step, what follows from it, and what rounding does to a number |
| `CoopLogicFarmProofs` | theorems about the farm: adding and scanning, settings, saving and loading, the refinement of `Farm` |
| `AccessProofs` | the theorem about who may change a device |
| `SessionAuthProofs` | theorems about the session table, with the refinement of `SessionMap` |
| `LineBufferProofs` | theorems about the framing of lines |
| `NetworkLoopProofs` | theorems about the poll loop under any delay |
| `NetworkProofs` | theorems about the conversations with a prompt server |
| `MenusProofs` | theorems about the menus on top of the server |

Definitions are named after the C functions they stand for. A definition called `X_y`
is `X` with the plausible mistake `y`; it is used only to show that the properties
notice that mistake.

### State and actions of CoopLogic

`g_coops`, `g_devices` and `sessions` are the statics of the same names, `disk` is
`farm_state.json`, `clock` is `time(NULL)`, `up` says whether the process runs, and
`reply` is the code of the last response. Each command is one action (`CoopAdd`,
`Connect`, `Info`, `Control`, `SetCfg`, `ChPass`, `Bye`, `AddDevice`, `Assign`, `Scan`,
`CoopList`, and `Malformed` for what cannot be parsed). Its disjuncts are the early
returns of the handler, in their order, and its success. A client may put any device,
token, password, coop id and payload of the constants into a request.

A command that changes the farm ends in `SaveThenAnswer`: the new tables are in memory,
the file is rewritten, the client is told of success. `Faults` may make the open fail
(the file stays), a write fail (the file is truncated), or the process die inside the
save. `Start` is `coop_logic_init`; `Crash` loses the statics. `HandWritesCoop` and
`HandAddsDevice` are people who edit the file, as a comment of `coop_logic.c` and the
`README.md` of the repository foresee.

`CoopLogic` lets a request carry any token, so it cannot say whose session a request uses.
`Access` can: there each request comes from a client `actor`, a token in it is one that this
client got from a CONNECT of its own (`TokensOf`), and `logins` remembers every login with
its client, device, token and second, and whether it is still open. A login is open until its
BYE or the end of the server process. Two clients may be logged in to the same device, or to
different ones, and send each other's device ids with their own tokens.

### The layers of the client/server composition

The composition is made in three layers, each of which states what the next one takes
for granted.

- `LineBuffer` follows the bytes of one connection. It needs a client that is at most
  one line ahead (`Window = 2`).
- `Network` (with `NetServer`) follows connections, requests and lines. A request is one
  message here. Its `OneLineAhead` is the assumption of `LineBuffer`. Clients number
  their requests so that a property can say which answer a line belongs to; the program
  has no such number. A wait with a timeout may end at any time (`Spec`), or not while
  the server owes that client something (`PromptSpec`).
- `Menus` makes a request and its answer one step. That is `AnswersInStep` of `Network`,
  which holds for `PromptSpec`.

State of `NetServer`: `clients[i]` is the connection of slot i (`fds[i + 1]` always holds
the same descriptor, so it has no variable of its own), `revents` what poll reported and the loop
has not yet looked at, `out` the lines of the answer being written. `Poll`, `Accept`,
`Read`, `Write` and `Close` are the stations of one turn of the loop; every `Write` is one
`send_line`, and a client may hang up between two of them. `dropped` holds connections
that were accepted when all slots were taken. `Other` is a connection that keeps a slot
busy and says nothing, so that two clients are enough to meet a full server.

State of `Network`: `pc` is the wait a client is in, or the point of `refresh_coops` or
the menu it stands at; `took` are the lines its last request function has taken and
`told` what that function returned. `Kill` stands for a user who ends the client in the
middle of something, `Quit` for choice 0.

State of `Menus`: `coop_list` and `devices` are the fields of `UiContext`; `pc` marks the
points between two requests; `order` is the pointer of `menu_manage_coop` into the list,
and the device registered. Each menu choice is an action that takes the `CoopLogic`
action of its command as a conjunct, with arguments built from the lists as the code
builds them. Other users move between any two requests.

### Abstractions

- Arrays are functions from ids. Array order matters only for which entries of an
  overlong file get the last slots; there the model takes every choice.
- Names, passwords and ids are strings without inner structure; length limits are left
  out. `NonJson` are the ones `json_string()` refuses.
- Settings are integers in thousandths of their unit; what a client gives beyond the third
  decimal is left out. The fan speed is truncated to an int as `require_int` does. Payload
  numbers wider than an `int` are left out: `Numbers` bounds them to less than 1000 units.
- A save rounds settings to four significant digits (`Rounded`): 12.345 is saved as 12.35 and
  comes back so. What happens to a number half way between two depends on the double nearest
  to it; `TiesUp` says which of them go up, and the theorems hold for every choice. Numbers
  with at most four digits, which thousandths below 10 are, come back as they were.
- Sensor readings, egg counts, units, heater modes and schedules are left out: no command
  changes them. So are log lines and the text of the responses.
- `PayloadOf` keeps one accident of parsing: `strstr` looks for the action word from the
  start of the arguments, so an id that contains the word hides the payload.
- Different seconds give different tokens, and a client does not guess a token. Only collisions inside a second are modelled.
- In a file edited by hand, no id appears twice.
- In `LineBuffer` lines are single words; what an answer says plays no part.
- In `Network` a line is never cut: `client_recv_line` reads to the newline. One read of
  the server takes one or two waiting requests. `write` never blocks for want of room: a
  client in step has one answer outstanding.
- In `Menus` the coop list is in the order of the ids (`Kth`), which is the order of the
  server's table as long as nobody writes coops in the file (`Outside` has no
  `HandWritesCoop`); ids typed by users are single words.

## 3. The model-checking runs

All runs switch the deadlock check off: the server may stay stopped, and the clock and
the number of lines are bounded. IntMax, the largest `int`, is a small number in them.

| run | constants that matter | what it shows |
|---|---|---|
| `farm` | 1 device slot for 2 ids (one contains `FEED_NOW`), 2 seconds, 2 coops, 2 passwords, all types, payloads at and beyond each limit, just below it, where a save rounds up to the limit, and at ties, a coop id that may not exist, no faults | `TypeOK`, `SettingsInRange`, `DevicesHoused`; `SaveWholeFarm`; `KeepsFarm`: `CoopLogic` implements `Farm` across crashes and restarts |
| `files` | 1 device slot, 2 coop slots, files with up to 4 coops (one with id 0, one named `0`, one unnamed) and devices under them (missing numbers, an absurd speed, an unknown type), all faults | `Capacity`, `NextIdFresh`, `SessionsKnown`, `ScanComplete`, `SettingsInRange`, `CoopAddFreshBelowMax` |
| `access` | 2 clients (symmetric), 2 fans, 2 sessions, 2 seconds, 2 passwords, saves that leave the file behind memory, a hand-written fan that differs from the one in memory | `AuthorisedChange` |
| `sessions_paced` | 3 slots, 2 devices, 5 seconds, `PacedSpec` | `TypeOK`, `KeepsSessionMap`: the slots implement `SessionMap` |
| `lines` | 7-byte buffer, 3 lines of 0 to 7 bytes, one sent ahead, every cut | `TypeOK`, `Framing`, `EveryLineHandled` |
| `network` | 2 clients, 2 slots, each free or taken by somebody else, 4 requests per client, answers of up to 2 lines, `PromptSpec` | `NetTypeOK`, `ReadNeverBlocks`, `AnswersInStep`, `OneLineAhead`, `SurvivesQuits`, `EveryCallReturns`, `SlotsComeBack` |
| `menus` | 2 users (symmetric), 2 devices and sessions, 2 coops, 2 seconds, drinkers registered by menu, set with and without a payload and beyond the limit, a sensor added by hand, the name `0` tried | `MenusTypeOK`, `CacheTrue`, `RememberedTrue`, `ReportedCoop` |

The bounds are small and sufficient for the cases the properties tell apart. Two devices
and two clients are the least with which one client's token can reach another's device, and two
seconds the least in which both can log in. The state graphs of `farm` and `access` leave out the last
answer and who got it (the `VIEW` of their cfg): no step reads them, and the properties of steps, which
do, are evaluated on every step. A device table of one slot is the least that overflows, and neither `files` nor `farm`
needs a second one because entries of a table do not interact; `farm` was also run by hand with
two slots and heaters only (70,687 states). One more coop id than slots lets a file overflow the
coop table. Two coops are needed to move a device. Three lines and a buffer
shorter than two of the longest lines make reads end inside a line, at its end, and in
the next but one. `lines` was also run by hand with buffers of 8, 10 and 12 bytes and 4
lines: `Framing` holds there too.

In `network` four requests are the first COOPLIST, the COOPLIST and SCAN of one refresh,
and the command after it: the whole cycle of a client. With two slots and `Other` a client
meets a free, a nearly full and a full server; two clients are enough for one to be
accepted, closed or killed while the other is served. In `menus` two coops are the least
for which a number can point to the wrong one. `menus` was also run by hand with the server
dying inside saves (`Faults = {"killed_in_save"}`), with the same result.

Assumptions that a passing run makes, and that the code does not enforce, are in the
comments of the properties. `SettingsInRange` needs hand-written numbers in range;
`DevicesHoused` a file whose coops fit; `SaveWholeFarm` and `KeepsFarm` names that the
file can hold; `PacedSpec` and `Access` that no two logins get a slot in one second (they compare
the second with that of earlier logins, and say nothing of tokens); `lines` a client at most one
line ahead (`Window = 2`); `AnswersInStep`, `OneLineAhead` and `SurvivesQuits` a server that is
prompt (`PromptSpec`); the properties of `Menus` paced logins and no clients but the menus. The menus refuse the coop name `0`; a client of another kind
can give it, and then `ReportedCoop` fails (the mutant of that property shows how).

### Where code and documentation disagree

Each of these runs checks one sentence of the repository and TLC refutes it.

| run | property | the disagreement |
|---|---|---|
| `session_token` | `TokenIdentifiesDevice` | two logins in a second: one token, two devices (`session_auth.c:20` against `session_auth.h:7`) |
| `empty_start` | `EmptyStartOnlyWithoutFile` | a save cut short leaves a file that the start takes for none (`coop_logic.c:51` against its line 50) |
| `hand_edits` | `ScanLoadsHandEdits` | a command that saves before the SCAN wipes the edit (`coop_logic.c:451` against line 106) |
| `late_answers` | `SilenceIsTheEnd` | a list function that waited 200 ms returns, and the next request takes the rest of its answer (`main_client.c:40` against its line 41, "no more data") |
| `lines_pipelined` | `Framing` | with two lines ahead, a stale newline behind the shifted bytes ends a line (`net_server.c:179` against `net_server.h:38`) |

The models contain further behaviour that disagrees with the documentation and has no run
of its own:

- `end_session` ends only the first slot with the token, so after two logins to one device in
  one second a BYE leaves the token valid (`session_auth.c:59` against `session_auth.h:32`). It
  has the cause of `session_token`.
- After a coop numbered `INT_MAX`, which a file may list, ids start over, and an add renames a
  coop and reports a new one (`coops.c:39` against `coops.h:40`). `CoopAddFreshBelowMax` says up to
  where adds are right. The overflow is modelled as the wrap that the repository's unoptimised
  build produces.
- From a file with more coops than the table holds, a start or a SCAN loads the devices of a coop
  it drops (`storage.c:359` against `storage.h:17`). `DevicesHoused` is therefore checked without such files.
- A good FEED_NOW is refused for a device whose id contains the word (`coop_logic.c:227` against
  its line 216). The run `farm` has such an id; its properties hold all the same.
- A client that is killed while its answer is on the way takes the server with it
  (`net_server.c:112` against `net_server.h:33`). `SurvivesQuits` says that it takes that.
- A READY that comes after 500 ms is taken by the first COOPLIST as its answer (`main_client.c:269`
  against its line 267). It is a case of what `late_answers` shows, and `PromptSpec` excludes both.

A coop that a client names `0` is renamed by the next load, so `SaveWholeFarm` fails for
that name. A comment (`coop_logic.c:40`) announces the renaming, so it is not listed.

### Fairness

`LineBuffer` states `WF_vars(Server)`. `poll()` without a timeout reports a connection with
unread bytes or a hang-up on every turn of the loop, and the loop over the lines does not
wait for anybody. Nothing is assumed of the client: it may stop sending or hang up at any
time. The server may die of SIGPIPE when it answers a client that has hung up, which
`EveryLineHandled` allows.

`PromptSpec` of `Network` states weak fairness of the server's loop, for the same reason
(`ReadNeverBlocks` is what makes it true), and for each client of the step that ends its
wait: the line it waits for, the end of the connection, or the timeout. It assumes
nothing of users, who may stop at any prompt, and nothing of `poll`, whose failure ends the
server. `EveryCallReturns` and `SlotsComeBack` rest on it. `SlotsComeBack` needs no
fairness between slots: one turn of the loop serves every slot poll reported.

The other properties are safety properties.

## 4. The proofs

The theorems hold for every value of the constants that satisfies the named assumptions of
the modules (`ConfigAssumption`, `NamesAssumption`, `DevicesAssumption`,
`StorageAssumption`, `CoopLogicAssumption`, `SessionAuthAssumption`,
`LineBufferAssumption`, `NetServerAssumption`, `MenusAssumption`): tables, files, buffers, lines and lists of
any size, any number of clients. TLC evaluates the assumptions on every run of the module
that states them. Whatever else a theorem needs is in its statement, and below.

### The server: CoopLogic

| theorem | statement | argument |
|---|---|---|
| `TypeCorrect` | `Spec => []TypeOK` | inductive as it stands; one lemma per operator that makes a table, a device or a file, one step per action |
| `SessionsAlwaysKnown` | `Spec => []SessionsKnown` | `StepShape`: a step alters one device, adds one, keeps all, or ends the process; the device of a new session is known |
| `NextIdAlwaysFresh` | `Spec => []NextIdFresh` | inductive relative to `TypeOK`; the lemmas follow `next_id` through `Bump` |
| `TablesAlwaysFit` | `Spec => []Capacity` | strengthened by `FiniteTables`: the cardinality of a table says something only when it is finite, and files feed tables |
| `DevicesAlwaysHoused` | `HandCoops = {}` implies `Spec => []DevicesHoused` | strengthened by `FileHoused`: the file's devices lie in the file's coops, those fit in the table, and while the server runs they are all in memory; without the last part a SCAN could bring a device whose coop is unknown |
| `AddsAreFresh` | `Spec => CoopAddFreshBelowMax` | `ReplyShape`: only the successful COOP_ADD gives that answer; `NextIdFresh` makes its id a new one |
| `ScansAreComplete` | `Spec => []ScanComplete` | a merge takes as many entries of the file as fit (`LoadTakes`, `UpsertTakes`); that a part as large as the whole is the whole needs the finiteness of the tables |
| `SettingsStayInRange` | `Spec => []SettingsInRange` | strengthened by `FileInRange`: a SCAN or a start takes what the file says, so the file must be in range as well. A save keeps it so because the limits themselves have at most four digits (`LimitsAreRound`) and rounding keeps the order (`RoundedOrdered`) |
| `SavesAreWhole` | `HandCoops = {}` and `PlainWords` imply `Spec => SaveWholeFarm` | `RoundTrip`: a load gives back what a save wrote, rounded (`StoredTable`), if the farm is `Keepable`, that is, finite, housed, with words and whole fan speeds that survive the conversion; `AlwaysKeepable` shows that it always is, and `RoundedNear` that rounding moves a number by at most half of its fourth digit |
| `FarmIsKept` | without faults and hand edits and with `PlainWords`, `Spec => KeepsFarm` | `FileHolds`: the file holds exactly one farm, and rounding it again changes nothing (`RoundedTwice`); `MemoryHolds`: while the server runs that is the farm in memory, rounded, and its coops are numbered 1, 2, ... with `next_id` behind the last. A crash then maps to a stop that rounds the settings and loses nothing else, a start to finding that farm, and a command to the abstract command |

The hypotheses are those the code needs:

- `HandCoops = {}` (nobody writes coops into the file): with more coops in the file than
  slots the code really loads devices without their coop (`storage.c:359`).
- `PlainWords`: no coop is named "0", which a load renames (`storage.c:354`), and no name,
  password or id is one that `json_string()` refuses (`storage.c:302`).
- `SettingsStayInRange` supposes that devices which people write into the file are in range:
  the load does not check them (`storage.c:126`).
- `TiesUp` is any set: nothing is assumed of how ties are rounded.
- `FarmIsKept` also supposes `Faults = {}` and `HandDevices = {}`. A save that fails leaves a
  file that is behind the memory, or empty, and the client is told of success; no abstract
  farm keeps that promise. Crashes between commands stay.

### Whose request it is: Access

| theorem | statement | argument |
|---|---|---|
| `ChangesAreAuthorised` | `ASpec => AuthorisedChange` | `AInv`: a login has the token of its second (`LoginsOK`), so a token belongs to one login (`OneLogin`) and to one slot (`OneSlot`); each taken slot is that of an open login (`SlotsAreOpen`), and a server that is down has none (`NoneWhenDown`) |

The step from the invariant to the property: a request that alters a device passed
`validate_session` with a token of its client, so a slot holds that token for that device; the
login the slot comes from is open and has that token, and because the token belongs to one
login it is the client's own. It takes all parts of `AInv` to keep this: a BYE must free the
slot of the login it closes, and no other; a login must not reuse a token that a closed
login of somebody else still remembers. Nothing is supposed of faults, hand edits or the number of
clients; that they log in at most once in a second is a guard of `LogIn` on the clock.

### The session table: SessionAuth

| theorem | statement | argument |
|---|---|---|
| `SessionTypes` | `Spec => []TypeOK` | inductive as it stands, under any sequence of calls |
| `SlotsImplementMap` | `PacedSpec => KeepsSessionMap` | `PacedInv`: every session has a token from the second of the last login or before (`Earlier`), so the token of a login in a later second is new and no two slots share one (`Unique`). The map sends the token of each slot to its device (`OpenOf`); a login then adds one entry, a logout removes it, and the map is as large as the set of taken slots (`OpenCount`) |

Paced means that a login comes in a later second than the last one. That tokens are then
different follows from `generate_token`. Without it the statement is false, as the run
`session_token` shows.

### Line framing: LineBuffer

| theorem | statement | argument |
|---|---|---|
| `BufferTypes` | `Spec => []TypeOK` | inductive as it stands, for any client |
| `LinesWhole` | `Window <= 2` implies `Spec => []Framing` | the bytes in the buffer, then those on the wire, are the lines that are not handled yet (`Stream`, position by position); `Guarded`: inside the line loop the first newline is where the first of these lines ends |
| `NeverOverrun` | `Window <= 2` implies `Spec => [](pc = "crashed" => hung_up)` | from the same invariant: the shift moves no more bytes than the buffer has behind the line |

The hypothesis is what `OneRequestAhead` provides, with one line to spare. For larger
windows `Framing` is false: `lines_pipelined`.

### Connections and conversations: NetServer and Network

| theorem | statement | argument |
|---|---|---|
| `OnePlaceEach` | `Spec => []NetTypeOK` | with `Once`, that a client connects once and stands once in the backlog |
| `LoopNeverBlocks` | `Spec => []ReadNeverBlocks` | strengthened by `Reported` to the middle of an answer: what poll reported stays readable, because only the server reads and a slot that changes hands is past in the scan |
| `OneRequestAhead` | `PromptSpec => []OneLineAhead` | the three rest on one invariant, `PInv`: each client that has not been dropped is quiet, has one request under way, or has exactly the rest of one answer to its last request still to come (`Talk`), counted over `lines` and `out` together |
| `AnswersKeepStep` | `PromptSpec => []AnswersInStep` | `Told`: what the request function has taken is from the answer to its call, and it returns 0 at the last line |
| `QuitsAreHarmless` | `PromptSpec => []SurvivesQuits` | a client that leaves by the menu is quiet, so nothing is written to it |

`Spec` puts no bound on delays; `PromptSpec` has no wait end while the server owes that
client something. Without it `SilenceIsTheEnd` fails: `late_answers`.

### The menus on top of the server: Menus

| theorem | statement | argument |
|---|---|---|
| `MenusTypes` | `MenusSpec => []MenusTypeOK` | `MenusUseServer`: every step of the menus is one of `CoopLogic` or leaves the server alone, so its `TypeOK` and `Capacity` hold here; a list then has as many entries as there are coops to show, and `KthDistinct` makes them different ones |
| `CachesAreTrue` | `Names \cap NonJson = {}` implies `MenusSpec => []CacheTrue` | the three rest on `FarmKnown` and `MenusTrue`, below |
| `RememberedIsValid` | the same for `RememberedTrue` | a login in a second of its own takes a free slot and leaves the sessions with other tokens alone; no menu says BYE |
| `ReportsAreRight` | the same for `ReportedCoop` | the place in the list that the pointer holds is the number of the coop (`KthOfRange`), in every later list as well |

`FarmKnown` says that the coops in memory are numbered 1, 2, ... without a gap, that none
has a reserved name, and that the file has no coop under another name than memory has:
what a SCAN merges cannot rename or insert a coop. It is inductive because nobody writes
coops in the file. `Grown` then describes every step of a server that stays up: coops and
devices only come, keep their names, types and places, and valid tokens stay valid.
(`GrownAgrees`, `MenuGrows`, `OutsideKeepsKnown`.) `MenusTrue` is what each
connected user knows, in a form that `Grown` keeps: the list (`ListTrue`), the tokens
(`MemoryTrue`) and the pointer (`OrderTrue`). A user who has lost the server keeps a list but no
claim on it, and one who is away remembers nothing.

The numbering needs the size of a set of ids, not a sort: `Kth(S, k)` is the id with k ids
of S up to it, and that there is one follows from an injection into `1 .. n` (`KthExists`),
without an induction. `MenusAssumption` says that a menu may ask for any coop number
and send no payload, that the empty slot is not a session, and that the name the server
makes up for a coop ("Chuong 3") is not the reserved one. `Names \cap NonJson = {}` is
needed: a coop whose name the file cannot hold comes back from a SCAN under the made-up
one while clients show the old (`storage.c:302`).

### Only model-checked

- `EveryLineHandled`, `EveryCallReturns`, `SlotsComeBack`: liveness under fairness, which
  this proof system does not reach.
- The runs that end in a violation refute something on one instance; there is nothing to
  prove.

## 5. What is not modelled

- The text of response lines, the event log, prompts and printing, the layout of INFO: no
  decision depends on them.
- Failures of `socket`, `bind`, `listen` at the start of the server, which ends it; signals
  other than SIGPIPE; `malloc` failures; JSON parsing itself.
- `write` that blocks because a client does not read.
- Clients that are not the menus, in `Network` and `Menus` (in `CoopLogic` a request may carry anything).
- `backend_assign`, which no menu calls.
- Build files and `scan_devices.json`, which no source file reads.

## 6. Plan

In order of importance:

1. An abstract specification of remote calls (each request executed once, its own verdict
   returned) that `Network` implements when the server is prompt, and a condition on delays
   weaker than promptness.
2. The composition of sessions with connections: sessions that outlive the connection that
   opened them, up to the point where every login is refused.
