------------------------------ MODULE NetServer ------------------------------
(***************************************************************************)
(* server_run of server/net_server.c: the connection slots, and the loop   *)
(* that polls, accepts one connection, and then looks at the slots in      *)
(* order.  How the bytes of one connection become lines is module          *)
(* LineBuffer; here a request is one message, and an answer is the lines   *)
(* handle_command or the two list handlers write for it.                   *)
(*                                                                         *)
(* A request is [call, kind]: the client's number for it, and SCAN,        *)
(* COOPLIST, or CALL for any of the commands answered with one line.  A    *)
(* line is [call, word, last]: the request it answers, and whether it is   *)
(* the last line of the answer.  The server itself never sees the numbers. *)
(* A definition named X_y is X with a mistake y, for the mutation runs.    *)
(***************************************************************************)
EXTENDS Config, Sequences

CONSTANTS
  Clients,    \* client processes, one connection each
  NoClient,   \* a free slot: fd = -1
  Other,      \* a connection of nobody in Clients, which stays open and silent
  MaxItems,   \* bound: devices or coops in the answer to SCAN or COOPLIST
  MaxCalls    \* bound: requests of one client

ASSUME NetServerAssumption ==
  /\ NoClient \notin Clients
  /\ Other \notin Clients \cup {NoClient}
  /\ MaxItems \in Nat
  /\ MaxCalls \in Nat

VARIABLES
  process,    \* "running", or what ended it: "poll failed", "SIGPIPE"
  backlog,    \* connections that wait to be accepted, oldest first
  clients,    \* clients[i].fd, with fds[i + 1].fd, for each slot
  dropped,    \* connections accepted when no slot was free: open, in no slot
  revents,    \* what poll reported and the loop has not looked at yet: slots,
              \* and 0 for the listening socket
  out,        \* lines still to be written to the slot being served
  requests,   \* per client, requests sent and not read by the server
  lines,      \* per client, lines written and not read by the client
  hung_up     \* per client, whether its end of the connection is closed

serverVars == <<process, backlog, clients, dropped, revents, out, requests, lines, hung_up>>

Slots == 1 .. MaxDevices
Kinds == {"SCAN", "COOPLIST", "CALL"}
Request == [call : 1 .. MaxCalls, kind : Kinds]

\* The response that lists one entry, and the one that says there is none.
Item == [SCAN |-> "DEVICE", COOPLIST |-> "COOP"]
NoItem == [SCAN |-> "NO_DEVICE_SCAN", COOPLIST |-> "NO_COOP"]
Words == {"READY", "DEVICE", "NO_DEVICE_SCAN", "COOP", "NO_COOP", "OK", "REFUSED"}
Line == [call : 0 .. MaxCalls, word : Words, last : BOOLEAN]

READY == [call |-> 0, word |-> "READY", last |-> TRUE]

NetInit ==
  /\ process = "running"
  /\ backlog = <<>>
  /\ clients \in [Slots -> {NoClient, Other}]
  /\ dropped = {}
  /\ revents = {}
  /\ out = <<>>
  /\ requests = [c \in Clients |-> <<>>]
  /\ lines = [c \in Clients |-> <<>>]
  /\ hung_up = [c \in Clients |-> FALSE]

Running == process = "running"

(***************************************************************************)
(* poll.                                                                   *)
(***************************************************************************)
Readable(c) == requests[c] # <<>> \/ hung_up[c]

Ready_everyOpen ==
  {i \in Slots : clients[i] \in Clients} \cup (IF backlog = <<>> THEN {} ELSE {0})
Ready ==
  {i \in Slots : clients[i] \in Clients /\ Readable(clients[i])} \cup
  (IF backlog = <<>> THEN {} ELSE {0})

Poll ==
  /\ Running
  /\ revents = {} /\ out = <<>>
  /\ Ready # {}
  /\ revents' = Ready
  /\ UNCHANGED <<process, backlog, clients, dropped, out, requests, lines, hung_up>>

\* poll fails: server_run returns, and main with it.
PollFails ==
  /\ Running
  /\ revents = {} /\ out = <<>>
  /\ process' = "poll failed"
  /\ UNCHANGED <<backlog, clients, dropped, revents, out, requests, lines, hung_up>>

(***************************************************************************)
(* send_line.  A client that is gone may not be known to be gone yet; when *)
(* it is, the write raises SIGPIPE, which the server does not ignore.      *)
(***************************************************************************)
send_line(c, line) ==
  IF hung_up[c]
  THEN lines' = lines /\ process' \in {"running", "SIGPIPE"}
  ELSE lines' = [lines EXCEPT ![c] = Append(@, line)] /\ process' = process

(***************************************************************************)
(* accept: the first free slot takes the connection.  When there is none   *)
(* nothing more happens to it.                                             *)
(***************************************************************************)
TakenSlot_noBreak(i) == clients[i] = NoClient
TakenSlot(i) == clients[i] = NoClient /\ \A j \in 1 .. i - 1 : clients[j] # NoClient

Accept ==
  /\ Running
  /\ 0 \in revents /\ out = <<>>
  /\ revents' = revents \ {0}
  /\ backlog' = Tail(backlog)
  /\ LET c == Head(backlog) IN
       \/ /\ \E i \in Slots : TakenSlot(i)
          /\ clients' = [i \in Slots |-> IF TakenSlot(i) THEN c ELSE clients[i]]
          /\ send_line(c, READY)
          /\ UNCHANGED dropped
       \/ /\ ~ \E i \in Slots : TakenSlot(i)
          /\ dropped' = dropped \cup {c}
          /\ UNCHANGED <<clients, lines, process>>
  /\ UNCHANGED <<out, requests, hung_up>>

(***************************************************************************)
(* handle_client_line.  One read takes one or more of the waiting          *)
(* requests; every one of them is answered before the loop goes on.        *)
(***************************************************************************)
\* The answers to request r: one line per entry, or the line that says there is
\* none; for a CALL, that it was done or why not.
Answers_silentRefusal(r) ==
  IF r.kind = "CALL"
  THEN {<<[call |-> r.call, word |-> "OK", last |-> TRUE]>>, <<>>}
  ELSE {<<[call |-> r.call, word |-> NoItem[r.kind], last |-> TRUE]>>}
Answers(r) ==
  IF r.kind = "CALL"
  THEN {<<[call |-> r.call, word |-> w, last |-> TRUE]>> : w \in {"OK", "REFUSED"}}
  ELSE {<<[call |-> r.call, word |-> NoItem[r.kind], last |-> TRUE]>>} \cup
       {[i \in 1 .. n |-> [call |-> r.call, word |-> Item[r.kind], last |-> i = n]]
          : n \in 1 .. MaxItems}

AllAnswers(batch) ==
  IF Len(batch) = 1 THEN Answers(batch[1])
  ELSE {a \o b : a \in Answers(batch[1]), b \in Answers(batch[2])}

\* i is the slot the loop is at.
At(i) == Running /\ 0 \notin revents /\ i \in revents /\ \A j \in revents : i <= j

Read(i) ==
  /\ At(i) /\ out = <<>>
  /\ LET c == clients[i] IN
       \E n \in 1 .. 2 :
         /\ n <= Len(requests[c])
         /\ out' \in AllAnswers(SubSeq(requests[c], 1, n))
         /\ requests' = [requests EXCEPT ![c] = SubSeq(@, n + 1, Len(@))]
  /\ revents' = IF out' = <<>> THEN revents \ {i} ELSE revents
  /\ UNCHANGED <<process, backlog, clients, dropped, lines, hung_up>>

Write(i) ==
  /\ At(i) /\ out # <<>>
  /\ send_line(clients[i], Head(out))
  /\ out' = Tail(out)
  /\ revents' = IF Len(out) = 1 THEN revents \ {i} ELSE revents
  /\ UNCHANGED <<backlog, clients, dropped, requests, hung_up>>

\* The client has disconnected: n <= 0.
Freed_onlyPolled(i) == clients
Freed(i) == [clients EXCEPT ![i] = NoClient]

Close(i) ==
  /\ At(i) /\ out = <<>>
  /\ requests[clients[i]] = <<>> /\ hung_up[clients[i]]
  /\ clients' = Freed(i)
  /\ revents' = revents \ {i}
  /\ UNCHANGED <<process, backlog, dropped, out, requests, lines, hung_up>>

ServerStep == Poll \/ Accept \/ \E i \in Slots : Read(i) \/ Write(i) \/ Close(i)

(***************************************************************************)
(* Properties of the slots.                                                *)
(***************************************************************************)
\* The variables have their types, and a connection is in one place: it waits, or
\* has one slot, or was accepted without one (net_server.c:81).
NetTypeOK ==
  /\ process \in {"running", "poll failed", "SIGPIPE"}
  /\ backlog \in Seq(Clients)
  /\ clients \in [Slots -> Clients \cup {NoClient, Other}]
  /\ dropped \subseteq Clients
  /\ revents \subseteq 0 .. MaxDevices
  /\ out \in Seq(Line)
  /\ requests \in [Clients -> Seq(Request)]
  /\ lines \in [Clients -> Seq(Line)]
  /\ hung_up \in [Clients -> BOOLEAN]
  /\ \A i, j \in Slots : clients[i] = clients[j] /\ clients[i] \in Clients => i = j
  /\ \A k \in 1 .. Len(backlog), i \in Slots : backlog[k] # clients[i]
  /\ \A i \in Slots : clients[i] \notin dropped

\* The loop never reads from a connection that has nothing to read, on which it would
\* wait while all others wait for it, although it accepts and closes connections
\* between poll and the read (net_server.c:63, 102, 147).
ReadNeverBlocks ==
  Running /\ out = <<>> =>
    \A i \in revents \ {0} : clients[i] \in Clients /\ Readable(clients[i])
=============================================================================
