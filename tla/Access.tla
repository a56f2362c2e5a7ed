-------------------------------- MODULE Access --------------------------------
(***************************************************************************)
(* Who may change a device.  CoopLogic lets a request carry any token;     *)
(* here the requests come from clients, and a client sends only the tokens *)
(* that the server gave it (client/ui_client.c, find_token).  Two history  *)
(* variables remember what the program does not:                           *)
(*   logins  every login so far: who opened it, of which device, with      *)
(*           which token, in which second, and whether it is still open,   *)
(*           which is until its BYE or the end of the server's process     *)
(*   actor   the client that made the last request, or Nobody              *)
(*                                                                         *)
(* Clients log in at most once in a second: the program promises nothing   *)
(* when they do it more often (session_auth.c:20).                         *)
(***************************************************************************)
EXTENDS CoopLogic

CONSTANTS Clients, Nobody

VARIABLES logins, actor

TokensOf(c) == {l.token : l \in {l \in logins : l.who = c}}

Paced == \A l \in logins : l.at < clock

Granted(c, d) ==
  [who |-> c, dev |-> d, token |-> generate_token(clock), at |-> clock, open |-> TRUE]

Closed(L) == {[l EXCEPT !.open = FALSE] : l \in L}

\* The logins that are left when the process may have died.
Surviving == IF up' THEN logins ELSE Closed(logins)

(***************************************************************************)
(* The requests of a client.                                               *)
(***************************************************************************)
LogIn(c, d, pw) ==
  /\ Connect(d, pw)
  /\ \/ reply' # "CONNECT_OK" /\ UNCHANGED logins
     \/ /\ reply' = "CONNECT_OK"
        /\ Paced
        /\ logins' = logins \cup {Granted(c, d)}

LogOut(c, d, token) ==
  /\ Bye(d, token)
  /\ \/ reply' # "BYE_OK" /\ UNCHANGED logins
     \/ /\ reply' = "BYE_OK"
        /\ LET own == {l \in logins : l.who = c /\ l.dev = d /\ l.token = token}
           IN  logins' = (logins \ own) \cup Closed(own)

WithToken(d, token) ==
  \/ Info(d, token)
  \/ \E action \in Actions, p \in Payloads : Control(d, token, action, p)
  \/ \E p \in Payloads : SetCfg(d, token, p)
  \/ \E old_pw, new_pw \in Passwords : ChPass(d, token, old_pw, new_pw)

WithoutToken ==
  \/ Malformed
  \/ \E name \in Names \cup {""} : CoopAdd(name)
  \/ \E d \in DeviceIds, type \in NewTypes, pw \in Passwords, coop \in CoopArgs :
       AddDevice(d, type, pw, coop)
  \/ \E d \in DeviceIds, coop \in CoopArgs : Assign(d, coop)
  \/ Scan
  \/ CoopList

Request(c) ==
  /\ actor' = c
  /\ \/ \E d \in DeviceIds, pw \in Passwords : LogIn(c, d, pw)
     \/ \E d \in DeviceIds, token \in TokensOf(c) : LogOut(c, d, token)
     \/ /\ \/ \E d \in DeviceIds, token \in TokensOf(c) : WithToken(d, token)
           \/ WithoutToken
        /\ logins' = Surviving

Unasked ==
  /\ actor' = Nobody
  /\ Start \/ Crash \/ Tick \/ HandWritesCoop \/ HandAddsDevice
  /\ logins' = Surviving

AInit == Init /\ logins = {} /\ actor = Nobody

ANext == Unasked \/ \E c \in Clients : Request(c)

avars == <<vars, logins, actor>>

ASpec == AInit /\ [][ANext]_avars

(***************************************************************************)
(* Properties.                                                             *)
(***************************************************************************)
\* While the server runs, a device it has is never lost or retyped; ASSIGN, which
\* asks for no token, is all that moves it to another coop (coop_logic.c:456); and
\* its password, power state and settings change only by a CONTROL, SETCFG or CHPASS
\* of a client that has an open login of that very device (coop_logic.c:233, 345, 392),
\* whatever tokens other clients hold.  In particular a SCAN changes none of it,
\* whatever the file it merges says (coop_logic.c:35).
AuthorisedChange ==
  [][\A d \in DOMAIN g_devices :
       up /\ up' =>
         /\ d \in DOMAIN g_devices'
         /\ g_devices'[d].type = g_devices[d].type
         /\ g_devices'[d].coop = g_devices[d].coop \/ reply' = "ASSIGN_OK"
         /\ \/ /\ g_devices'[d].password = g_devices[d].password
               /\ g_devices'[d].power = g_devices[d].power
               /\ g_devices'[d].cfg = g_devices[d].cfg
            \/ /\ reply' \in {"CONTROL_OK", "SETCFG_OK", "PASS_OK"}
               /\ \E l \in logins : l.who = actor' /\ l.dev = d /\ l.open]_avars
=============================================================================
