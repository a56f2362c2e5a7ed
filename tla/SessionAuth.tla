----------------------------- MODULE SessionAuth -----------------------------
(***************************************************************************)
(* server/session_auth.c as a component of its own: the session table      *)
(* under every sequence of the calls coop_logic.c makes to it, and the     *)
(* clock that its tokens come from.  A handler ends a session only after   *)
(* validating its token for the device of the request.                     *)
(***************************************************************************)
EXTENDS SessionTable

CONSTANTS
  Devices,   \* device ids
  MaxClock   \* bound: the last second of the model

ASSUME SessionAuthAssumption ==
  MaxClock \in Nat /\ NoSession \notin [token : Nat, dev : Devices]

VARIABLES
  sessions,
  clock,
  answer,    \* the answer to the last call, "-" when the clock ticked
  asked,     \* the token and device of the last call: [token, dev]
  last       \* the second of the last login that got a slot, -1 before it

vars == <<sessions, clock, answer, asked, last>>

Tokens == 0 .. MaxClock
Request == [token : Tokens, dev : Devices]

Init ==
  /\ sessions = no_sessions
  /\ clock = 0
  /\ answer = "-"
  /\ asked \in Request
  /\ last = -1

Create(d) ==
  /\ asked' = [token |-> generate_token(clock), dev |-> d]
  /\ clock' = clock
  /\ \/ /\ Full(sessions)
        /\ answer' = "no slot"
        /\ UNCHANGED <<sessions, last>>
     \/ /\ ~Full(sessions)
        /\ answer' = "created"
        /\ sessions' = create_session(sessions, generate_token(clock), d)
        /\ last' = clock

Validate(token, d) ==
  /\ asked' = [token |-> token, dev |-> d]
  /\ answer' = IF Validated(sessions, token, d) THEN "valid" ELSE "not valid"
  /\ UNCHANGED <<sessions, clock, last>>

End(token, d) ==
  /\ Validated(sessions, token, d)
  /\ asked' = [token |-> token, dev |-> d]
  /\ answer' = "ended"
  /\ sessions' = end_session(sessions, token)
  /\ UNCHANGED <<clock, last>>

Tick ==
  /\ clock < MaxClock
  /\ clock' = clock + 1
  /\ answer' = "-"
  /\ UNCHANGED <<sessions, asked, last>>

Next ==
  \/ \E d \in Devices : Create(d)
  \/ \E token \in Tokens, d \in Devices : Validate(token, d) \/ End(token, d)
  \/ Tick

Spec == Init /\ [][Next]_vars

(***************************************************************************)
(* Clients that are slow enough: no login in the second of another.  The   *)
(* code does nothing to ensure it; what the table promises holds only then.*)
(***************************************************************************)
PacedNext ==
  \/ \E d \in Devices : last < clock /\ Create(d)
  \/ \E token \in Tokens, d \in Devices : Validate(token, d) \/ End(token, d)
  \/ Tick

PacedSpec == Init /\ [][PacedNext]_vars

(***************************************************************************)
(* Properties.                                                             *)
(***************************************************************************)

\* The variables have their types, and no session has a token of the future
\* (session_auth.c:20).
TypeOK ==
  /\ sessions \in [Slots -> Request \cup {NoSession}]
  /\ clock \in Tokens
  /\ answer \in {"-", "created", "no slot", "valid", "not valid", "ended"}
  /\ asked \in Request
  /\ last \in Tokens \cup {-1}
  /\ \A s \in Active(sessions) : sessions[s].token <= clock

\* A token belongs to one device: sessions with the same token are sessions of
\* the same device (session_auth.h:7, "token <-> device_id").
TokenIdentifiesDevice ==
  \A s, u \in Active(sessions) :
    sessions[s].token = sessions[u].token => sessions[s].dev = sessions[u].dev

\* The table of slots keeps the promise of SessionMap.
OpenTable ==
  [t \in {sessions[s].token : s \in Active(sessions)} |->
     sessions[CHOOSE s \in Holding(sessions, t) : TRUE].dev]

Map == INSTANCE SessionMap WITH open <- OpenTable

KeepsSessionMap == Map!Spec
=============================================================================
