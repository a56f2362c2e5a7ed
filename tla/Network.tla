------------------------------- MODULE Network -------------------------------
(***************************************************************************)
(* Clients and the server over TCP: client/main_client.c and net_client.c  *)
(* on one side of each connection, NetServer on the other.                 *)
(*                                                                         *)
(* A client has one request function running at a time.  SCAN and COOPLIST *)
(* take lines until one has another code or until 200 ms pass without any; *)
(* every other request blocks until it has one line.  Time is abstracted:  *)
(* a wait with a timeout may end whenever there is nothing to read.        *)
(***************************************************************************)
EXTENDS NetServer

VARIABLES
  pc,      \* per client: the wait it is in, or where it stands between requests
  calls,   \* per client, requests sent so far
  took,    \* per client, lines taken by its last request function
  told     \* per client, what the last request function returned: "-" while it
           \* runs, "ok" for 0, "failed" for -1

clientVars == <<pc, calls, took, told>>
vars == <<serverVars, clientVars>>

(***************************************************************************)
(* The places of a client: "start"; "ready" waits for the READY line;      *)
(* "first" sends the first COOPLIST; "menu" is the main menu, from which   *)
(* every choice refreshes the lists; "listed" is refresh_coops between its *)
(* COOPLIST and its SCAN; "chosen" may send a request.                     *)
(***************************************************************************)
Init ==
  /\ NetInit
  /\ pc = [c \in Clients |-> "start"]
  /\ calls = [c \in Clients |-> 0]
  /\ took = [c \in Clients |-> <<>>]
  /\ told = [c \in Clients |-> "-"]

Goto(c, place) == pc' = [pc EXCEPT ![c] = place]

\* client_connect.
Connect(c) ==
  /\ pc[c] = "start"
  /\ \/ /\ Running
        /\ backlog' = Append(backlog, c)
        /\ Goto(c, "ready")
     \/ /\ ~Running
        /\ Goto(c, "gone")
        /\ UNCHANGED backlog
  /\ UNCHANGED <<process, clients, dropped, revents, out, requests, lines, hung_up,
                 calls, took, told>>

(***************************************************************************)
(* client_send_line.  On a connection whose other end is gone it fails, or *)
(* kills the client with SIGPIPE.                                          *)
(***************************************************************************)
MayFollow ==
  [COOPLIST |-> {"first", "menu", "chosen"}, SCAN |-> {"listed"}, CALL |-> {"chosen"}]

Send(c, kind) ==
  /\ pc[c] \in MayFollow[kind]
  /\ Running
  /\ calls[c] < MaxCalls
  /\ requests' = [requests EXCEPT ![c] = Append(@, [call |-> calls[c] + 1, kind |-> kind])]
  /\ calls' = [calls EXCEPT ![c] = @ + 1]
  /\ took' = [took EXCEPT ![c] = <<>>]
  /\ told' = [told EXCEPT ![c] = "-"]
  /\ Goto(c, kind)
  /\ UNCHANGED <<process, backlog, clients, dropped, revents, out, lines, hung_up>>

SendFails(c) ==
  /\ pc[c] \in {"first", "menu", "listed", "chosen"}
  /\ ~Running
  /\ \/ Goto(c, "menu") /\ UNCHANGED hung_up
     \/ Goto(c, "gone") /\ hung_up' = [hung_up EXCEPT ![c] = TRUE]
  /\ told' = [told EXCEPT ![c] = "failed"]
  /\ UNCHANGED <<process, backlog, clients, dropped, revents, out, requests, lines,
                 calls, took>>

(***************************************************************************)
(* client_recv_line and client_recv_line_timeout.                          *)
(***************************************************************************)
Waiting(c) == pc[c] \in Kinds

\* Where a client goes when its request function returns.  The first COOPLIST is
\* that of main; refresh_coops goes on to SCAN when its COOPLIST returned 0.
Returns(c, verdict) ==
  /\ told' = [told EXCEPT ![c] = verdict]
  /\ Goto(c, CASE pc[c] = "CALL" \/ calls[c] = 1 -> "menu"
               [] pc[c] = "COOPLIST" /\ verdict = "ok" -> "listed"
               [] OTHER -> "chosen")

\* Whether a request function takes more lines after this one.
GoesOn_never(kind, line) == FALSE
GoesOn(kind, line) == kind # "CALL" /\ line.word = Item[kind]

Receive(c) ==
  /\ lines[c] # <<>>
  /\ lines' = [lines EXCEPT ![c] = Tail(@)]
  /\ LET line == Head(lines[c]) IN
       \/ /\ pc[c] = "ready"
          /\ Goto(c, "first")
          /\ UNCHANGED <<took, told>>
       \/ /\ Waiting(c)
          /\ took' = [took EXCEPT ![c] = Append(@, line)]
          /\ IF GoesOn(pc[c], line) THEN UNCHANGED <<pc, told>>
             ELSE Returns(c, IF pc[c] # "CALL" \/ line.word = "OK" THEN "ok" ELSE "failed")
  /\ UNCHANGED <<process, backlog, clients, dropped, revents, out, requests, hung_up, calls>>

\* Silence.
Timeout(c) ==
  /\ Running
  /\ lines[c] = <<>>
  /\ \/ pc[c] = "ready" /\ Goto(c, "first") /\ UNCHANGED told
     \/ pc[c] \in {"SCAN", "COOPLIST"} /\ Returns(c, "ok")
  /\ UNCHANGED <<serverVars, calls, took>>

\* The server is gone, and with it its end of the connection.
Disconnected(c) ==
  /\ ~Running
  /\ lines[c] = <<>>
  /\ \/ pc[c] = "ready" /\ Goto(c, "first") /\ UNCHANGED told
     \/ Waiting(c) /\ Returns(c, "failed")
  /\ UNCHANGED <<serverVars, calls, took>>

(***************************************************************************)
(* The end of a client: by the menu, or killed by its user in the middle   *)
(* of something.                                                           *)
(***************************************************************************)
Leaves(c, how) ==
  /\ Goto(c, how)
  /\ hung_up' = [hung_up EXCEPT ![c] = TRUE]
  /\ lines' = [lines EXCEPT ![c] = <<>>]
  /\ took' = [took EXCEPT ![c] = <<>>]
  /\ told' = [told EXCEPT ![c] = "-"]
  /\ UNCHANGED <<process, backlog, clients, dropped, revents, out, requests, calls>>

Quit(c) == pc[c] \in {"menu", "chosen"} /\ Leaves(c, "gone")
Kill(c) == pc[c] \in {"ready", "first", "listed"} \cup Kinds /\ Leaves(c, "killed")

(***************************************************************************)
(* The server owes client c something: to accept it, or to answer it.      *)
(***************************************************************************)
Serves(c) == out # <<>> /\ \E i \in Slots : At(i) /\ clients[i] = c
Owes(c) ==
  Running /\ \/ \E k \in 1 .. Len(backlog) : backlog[k] = c
             \/ requests[c] # <<>> /\ c \notin dropped
             \/ Serves(c)

ClientStep(c) ==
  \/ Connect(c)
  \/ \E kind \in Kinds : Send(c, kind)
  \/ SendFails(c)
  \/ Receive(c)
  \/ Disconnected(c)
  \/ Quit(c)
  \/ Kill(c)

NetStep == (ServerStep \/ PollFails) /\ UNCHANGED clientVars

\* Any delay.
Next == NetStep \/ \E c \in Clients : ClientStep(c) \/ Timeout(c)

Spec == Init /\ [][Next]_vars

(***************************************************************************)
(* A server so fast that no wait with a timeout (200 ms, or 500 ms for     *)
(* READY) ends while it owes that client anything.  Neither the code nor   *)
(* TCP ensures it; the client relies on it.  The loop of the server waits  *)
(* only in poll, a client that waits does nothing else, and a timeout ends *)
(* by itself; nothing is assumed of users.                                 *)
(***************************************************************************)
PromptTimeout(c) == ~Owes(c) /\ Timeout(c)

PromptNext == NetStep \/ \E c \in Clients : ClientStep(c) \/ PromptTimeout(c)

PromptSpec ==
  /\ Init /\ [][PromptNext]_vars
  /\ WF_vars(ServerStep /\ UNCHANGED clientVars)
  /\ \A c \in Clients : WF_vars(Receive(c) \/ Disconnected(c) \/ PromptTimeout(c))

(***************************************************************************)
(* Properties.                                                             *)
(***************************************************************************)
\* A request function takes lines of the answer to its own request only, and when it
\* returns 0 it has all of them; on a connection the server has put in no slot it has
\* none and takes that for an empty list (main_client.c:41, 175).
AnswersInStep ==
  \A c \in Clients :
    /\ \A k \in 1 .. Len(took[c]) : took[c][k].call = calls[c]
    /\ told[c] = "ok" =>
         \/ took[c] # <<>> /\ took[c][Len(took[c])].last
         \/ took[c] = <<>> /\ c \in dropped

\* Silence means that there are no more data: no request takes a line of an answer
\* that an earlier one took for complete (main_client.c:41).
SilenceIsTheEnd ==
  \A c \in Clients : \A k \in 1 .. Len(took[c]) : took[c][k].call \in {0, calls[c]}

\* A client sends a request only when the one before has been answered and the answer
\* taken: the assumption under which LineBuffer keeps lines whole.
OneLineAhead ==
  \A c \in Clients : requests[c] # <<>> /\ c \notin dropped /\ Running =>
    Len(requests[c]) = 1 /\ lines[c] = <<>> /\ ~Serves(c)

\* Clients that leave by the menu never bring the server down with SIGPIPE: it takes
\* one that is killed (net_server.c:112).
SurvivesQuits == process = "SIGPIPE" => \E c \in Clients : pc[c] = "killed"

\* A client with a slot is never left waiting: its request function returns, if only
\* because the server is gone.  One that was given no slot may wait for ever
\* (net_client.c:40).
HasSlot(c) == \E i \in Slots : clients[i] = c
EveryCallReturns == \A c \in Clients : Waiting(c) /\ HasSlot(c) ~> ~Waiting(c)

\* The slot of a client that is gone becomes free again (net_server.c:143).
SlotsComeBack == \A c \in Clients : hung_up[c] /\ HasSlot(c) ~> ~HasSlot(c) \/ ~Running
=============================================================================
