----------------------------- MODULE SessionMap -----------------------------
(***************************************************************************)
(* What a table of login sessions promises: each open token belongs to one *)
(* device, a token opened is a new one, a token closed is closed, and a    *)
(* login is turned away only when MaxDevices sessions are open.            *)
(***************************************************************************)
EXTENDS Config, Tables

VARIABLES
  open,     \* the open sessions, from token to device
  answer,   \* the answer to the last request, "-" when there was none
  asked     \* the token and device the last request was about

Without(t, k) == [x \in DOMAIN t \ {k} |-> t[x]]

Init == open = EmptyTable /\ answer = "-"

Open ==
  /\ answer' = "created"
  /\ Cardinality(DOMAIN open) < MaxDevices
  /\ asked'.token \notin DOMAIN open
  /\ open' = With(open, asked'.token, asked'.dev)

TurnAway ==
  /\ answer' = "no slot"
  /\ Cardinality(DOMAIN open) = MaxDevices
  /\ UNCHANGED open

IsOpen(request) == request.token \in DOMAIN open /\ open[request.token] = request.dev

Check ==
  /\ answer' = IF IsOpen(asked') THEN "valid" ELSE "not valid"
  /\ UNCHANGED open

Close ==
  /\ answer' = "ended"
  /\ IsOpen(asked')
  /\ open' = Without(open, asked'.token)

Idle == answer' = "-" /\ UNCHANGED <<open, asked>>

Next == Open \/ TurnAway \/ Check \/ Close \/ Idle

Spec == Init /\ [][Next]_<<open, answer, asked>>
=============================================================================
