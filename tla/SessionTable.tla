---------------------------- MODULE SessionTable ----------------------------
(***************************************************************************)
(* server/session_auth.c: the table of sessions, sessions[MAX_DEVICES].    *)
(* A slot holds NoSession (active = 0) or a record [token, dev].           *)
(*                                                                         *)
(* generate_token seeds rand() with time(NULL) on every call, so a token   *)
(* is a function of the second it is generated in.  The model takes the    *)
(* second itself for the token (distinct seconds giving distinct tokens).  *)
(* A definition named X_y is X with a mistake y, for the mutation runs.    *)
(***************************************************************************)
EXTENDS Config, Tables

CONSTANT NoSession

Slots == 1 .. MaxDevices

no_sessions == [s \in Slots |-> NoSession]
Active(sessions) == {s \in Slots : sessions[s] # NoSession}

\* The slots whose active session has this token.
Holding(sessions, token) == {s \in Active(sessions) : sessions[s].token = token}

\* s is the first slot of S, the one a scan from index 0 meets.
IsFirst(s, S) == s \in S /\ \A u \in S : s <= u

generate_token_ahead(clock) == clock + 1
generate_token(clock) == clock

\* create_session: the first slot that is not active; "full" is -1.
Full(sessions) == Active(sessions) = Slots
create_session_noReturn(sessions, token, dev) ==
  [s \in Slots |-> IF s \in Slots \ Active(sessions)
                   THEN [token |-> token, dev |-> dev]
                   ELSE sessions[s]]
create_session(sessions, token, dev) ==
  [s \in Slots |-> IF IsFirst(s, Slots \ Active(sessions))
                   THEN [token |-> token, dev |-> dev]
                   ELSE sessions[s]]

\* validate_session, and the comparison every handler makes of the device it
\* returns with the one in the request.
Validated_anyDevice(sessions, token, dev) == Holding(sessions, token) # {}
Validated(sessions, token, dev) ==
  \E s \in Slots : IsFirst(s, Holding(sessions, token)) /\ sessions[s].dev = dev

\* end_session: the first active slot with the token, and only that one.
end_session_notOwn(sessions, token) ==
  [s \in Slots |-> IF IsFirst(s, Active(sessions)) THEN NoSession ELSE sessions[s]]
end_session(sessions, token) ==
  [s \in Slots |-> IF IsFirst(s, Holding(sessions, token)) THEN NoSession
                                                          ELSE sessions[s]]
=============================================================================
