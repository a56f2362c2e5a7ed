---------------------------- MODULE AccessProofs ----------------------------
(***************************************************************************)
(* Who may change a device, for every value of the constants of Access.    *)
(*                                                                         *)
(* A token belongs to one login, because logins are paced; an active slot  *)
(* holds the token and the device of a login that is still open.  So a     *)
(* request with a token of its client that finds a slot of the device      *)
(* finds the client's own login of that device.                            *)
(***************************************************************************)
EXTENDS Access, CoopLogicProofs

(***************************************************************************)
(* The invariant.                                                          *)
(***************************************************************************)
\* A login is of a second that has passed, and its token is of that second.
LoginsOK ==
  \A l \in logins :
    /\ l \in [who : Clients, dev : DeviceIds, token : Tokens, at : Tokens, open : BOOLEAN]
    /\ l.token = generate_token(l.at)
    /\ l.at <= clock

\* A token belongs to one login, and is held by one slot.
OneLogin == \A l, m \in logins : l.token = m.token => l = m
OneSlot == \A s, u \in Active(sessions) : sessions[s].token = sessions[u].token => s = u

\* An active slot is that of an open login.
SlotsAreOpen ==
  \A s \in Active(sessions) :
    \E l \in logins : l.open /\ l.token = sessions[s].token /\ l.dev = sessions[s].dev

\* A server that is down has no sessions.
NoneWhenDown == ~up => Active(sessions) = {}

AInv == LoginsOK /\ OneLogin /\ OneSlot /\ SlotsAreOpen /\ NoneWhenDown

\* The clients of Access do nothing that a client of CoopLogic may not do.
LEMMA TokensAreTokens ==
  ASSUME LoginsOK, NEW c, NEW token \in TokensOf(c)
  PROVE  token \in Tokens /\ \E l \in logins : l.who = c /\ l.token = token
BY DEF LoginsOK, TokensOf

LEMMA AccessIsCoopLogic ==
  ASSUME LoginsOK, [ANext]_avars
  PROVE  [Next]_vars
<1>1. CASE Unasked
  BY <1>1 DEF Unasked, Next, Server
<1>2. ASSUME NEW c \in Clients, Request(c) PROVE Next
  <2>1. ASSUME NEW d \in DeviceIds, NEW pw \in Passwords, LogIn(c, d, pw) PROVE Next
    BY <2>1 DEF LogIn, Next, Server
  <2>2. ASSUME NEW d \in DeviceIds, NEW token \in TokensOf(c), LogOut(c, d, token)
        PROVE  Next
    BY <2>2, TokensAreTokens DEF LogOut, Next, Server
  <2>3. ASSUME NEW d \in DeviceIds, NEW token \in TokensOf(c), WithToken(d, token)
        PROVE  Next
    BY <2>3, TokensAreTokens DEF WithToken, Next, Server
  <2>4. CASE WithoutToken
    BY <2>4 DEF WithoutToken, Next, Server
  <2> QED
    BY <1>2, <2>1, <2>2, <2>3, <2>4 DEF Request
<1>3. CASE UNCHANGED avars
  BY <1>3 DEF avars, vars
<1> QED
  BY <1>1, <1>2, <1>3 DEF ANext

(***************************************************************************)
(* What a request does to the devices.                                     *)
(***************************************************************************)
LEMMA SaveReplies ==
  ASSUME NEW c, NEW t, NEW code, SaveThenAnswer(c, t, code)
  PROVE  \/ Dies
         \/ g_coops' = c /\ g_devices' = t /\ reply' = code /\ UNCHANGED <<up, sessions>>
BY DEF SaveThenAnswer

\* d, and no other device, is altered, and neither retyped nor moved.
OnlyAltered(d) ==
  /\ d \in DOMAIN g_devices
  /\ DOMAIN g_devices' = DOMAIN g_devices
  /\ \A e \in DOMAIN g_devices : e # d => g_devices'[e] = g_devices[e]
  /\ g_devices'[d].type = g_devices[d].type
  /\ g_devices'[d].coop = g_devices[d].coop

LEMMA AlteredOnly ==
  ASSUME NEW d \in DOMAIN g_devices, NEW dev,
         dev.type = g_devices[d].type, dev.coop = g_devices[d].coop,
         g_devices' = With(g_devices, d, dev)
  PROVE  OnlyAltered(d)
BY DEF With, OnlyAltered

Altering == {"CONTROL_OK", "SETCFG_OK", "PASS_OK"}

\* A request with a token alters at most the device it names, when its token is one
\* of that device (coop_logic.c:233, 345, 392).
LEMMA TokenRequest ==
  ASSUME TypeOK, NEW d \in DeviceIds, NEW token \in Tokens, WithToken(d, token)
  PROVE  \/ Quiet \/ Dies
         \/ /\ Connected(token, d) /\ OnlyAltered(d) /\ reply' \in Altering
            /\ UNCHANGED <<up, sessions>>
<1>a. d \in DOMAIN g_devices => IsDevice(g_devices[d])
  BY DEF TypeOK, IsDevices
<1>b. ASSUME NEW dev, NEW code \in Altering,
             d \in DOMAIN g_devices, Connected(token, d),
             dev.type = g_devices[d].type, dev.coop = g_devices[d].coop,
             SaveThenAnswer(g_coops, With(g_devices, d, dev), code)
      PROVE  \/ Dies
             \/ /\ Connected(token, d) /\ OnlyAltered(d) /\ reply' \in Altering
                /\ UNCHANGED <<up, sessions>>
  BY <1>b, SaveReplies, AlteredOnly
<1>1. CASE Info(d, token)
  BY <1>1, AnswersAreQuiet DEF Info
<1>2. ASSUME NEW action \in Actions, NEW p \in Payloads, Control(d, token, action, p)
      PROVE  \/ Quiet \/ Dies
             \/ /\ Connected(token, d) /\ OnlyAltered(d) /\ reply' \in Altering
                /\ UNCHANGED <<up, sessions>>
  <2> DEFINE q == PayloadOf(d, action, p)
             dev == Controlled(g_devices[d], action, q)
  <2>1. CASE /\ Connected(token, d) /\ ControlServed(d, action, q)
             /\ SaveThenAnswer(g_coops, With(g_devices, d, dev), "CONTROL_OK")
    <3>1. d \in DOMAIN g_devices
      BY <2>1 DEF ControlServed
    <3>2. dev.type = g_devices[d].type /\ dev.coop = g_devices[d].coop
      BY <1>a, <3>1 DEF Controlled, IsDevice
    <3>3. "CONTROL_OK" \in Altering
      BY DEF Altering
    <3> HIDE DEF dev
    <3> QED
      BY <1>b, <2>1, <3>1, <3>2, <3>3
  <2> QED
    BY <1>2, <2>1, AnswersAreQuiet DEF Control
<1>3. ASSUME NEW p \in Payloads, SetCfg(d, token, p)
      PROVE  \/ Quiet \/ Dies
             \/ /\ Connected(token, d) /\ OnlyAltered(d) /\ reply' \in Altering
                /\ UNCHANGED <<up, sessions>>
  <2> DEFINE dev == Configured(g_devices[d], p)
  <2>1. CASE /\ Connected(token, d) /\ SetCfgServed(d, p)
             /\ SaveThenAnswer(g_coops, With(g_devices, d, dev), "SETCFG_OK")
    <3>1. d \in DOMAIN g_devices
      BY <2>1 DEF SetCfgServed
    <3>2. dev.type = g_devices[d].type /\ dev.coop = g_devices[d].coop
      BY <1>a, <3>1 DEF Configured, IsDevice
    <3>3. "SETCFG_OK" \in Altering
      BY DEF Altering
    <3> HIDE DEF dev
    <3> QED
      BY <1>b, <2>1, <3>1, <3>2, <3>3
  <2> QED
    BY <1>3, <2>1, AnswersAreQuiet DEF SetCfg
<1>4. ASSUME NEW old_pw \in Passwords, NEW new_pw \in Passwords,
             ChPass(d, token, old_pw, new_pw)
      PROVE  \/ Quiet \/ Dies
             \/ /\ Connected(token, d) /\ OnlyAltered(d) /\ reply' \in Altering
                /\ UNCHANGED <<up, sessions>>
  <2> DEFINE dev == devices_change_password(g_devices[d], new_pw)
  <2>1. CASE /\ Connected(token, d) /\ PasswordIs(d, old_pw)
             /\ SaveThenAnswer(g_coops, With(g_devices, d, dev), "PASS_OK")
    <3>1. d \in DOMAIN g_devices
      BY <2>1 DEF PasswordIs
    <3>2. dev.type = g_devices[d].type /\ dev.coop = g_devices[d].coop
      BY <1>a, <3>1 DEF devices_change_password, IsDevice
    <3>3. "PASS_OK" \in Altering
      BY DEF Altering
    <3> HIDE DEF dev
    <3> QED
      BY <1>b, <2>1, <3>1, <3>2, <3>3
  <2> QED
    BY <1>4, <2>1, AnswersAreQuiet DEF ChPass
<1> QED
  BY <1>1, <1>2, <1>3, <1>4 DEF WithToken

\* Every device is still there; none is altered, and only ASSIGN moves one.
AtMostMoved ==
  \A e \in DOMAIN g_devices :
    /\ e \in DOMAIN g_devices'
    /\ g_devices'[e].type = g_devices[e].type
    /\ g_devices'[e].password = g_devices[e].password
    /\ g_devices'[e].power = g_devices[e].power
    /\ g_devices'[e].cfg = g_devices[e].cfg
    /\ g_devices'[e].coop = g_devices[e].coop \/ reply' = "ASSIGN_OK"

LEMMA KeptIsAtMostMoved ==
  ASSUME \A e \in DOMAIN g_devices : e \in DOMAIN g_devices' /\ g_devices'[e] = g_devices[e]
  PROVE  AtMostMoved
BY DEF AtMostMoved

\* So it is with a request without a token (coop_logic.c:35, 456).
LEMMA TokenlessRequest ==
  ASSUME TypeOK, WithoutToken
  PROVE  Dies \/ (AtMostMoved /\ UNCHANGED <<up, sessions>>)
<1> DEFINE Harmless == Dies \/ (AtMostMoved /\ UNCHANGED <<up, sessions>>)
<1>a. Quiet => Harmless
  BY KeptIsAtMostMoved DEF Quiet
<1>1. CASE Malformed \/ CoopList
  BY <1>1, <1>a, AnswersAreQuiet DEF Malformed, CoopList
<1>2. ASSUME NEW name \in Names \cup {""}, CoopAdd(name) PROVE Harmless
  <2>1. ASSUME NEW coops, SaveThenAnswer(coops, g_devices, "COOPADD_OK") PROVE Harmless
    BY <2>1, SaveReplies, KeptIsAtMostMoved
  <2> QED
    BY <1>2, <1>a, <2>1, AnswersAreQuiet DEF CoopAdd
<1>3. ASSUME NEW d \in DeviceIds, NEW type \in NewTypes, NEW pw \in Passwords,
             NEW coop \in CoopArgs, AddDevice(d, type, pw, coop)
      PROVE  Harmless
  <2>1. CASE DeviceAdded
    BY <2>1, KeptIsAtMostMoved DEF DeviceAdded, CanAdd, CanAddDevice, With
  <2> QED
    BY <1>3, <1>a, <2>1, AddDeviceShape
<1>4. ASSUME NEW d \in DeviceIds, NEW coop \in CoopArgs, Assign(d, coop) PROVE Harmless
  <2> DEFINE dev == [g_devices[d] EXCEPT !.coop = coop]
  <2>1. CASE /\ CanAssign(d, coop)
             /\ SaveThenAnswer(g_coops, With(g_devices, d, dev), "ASSIGN_OK")
    <3>1. d \in DOMAIN g_devices /\ IsDevice(g_devices[d])
      BY <2>1 DEF CanAssign, TypeOK, IsDevices
    <3>2. /\ dev.type = g_devices[d].type /\ dev.password = g_devices[d].password
          /\ dev.power = g_devices[d].power /\ dev.cfg = g_devices[d].cfg
      BY <3>1 DEF IsDevice
    <3> HIDE DEF dev
    <3>3. \/ Dies
          \/ /\ g_devices' = With(g_devices, d, dev)
             /\ reply' = "ASSIGN_OK" /\ UNCHANGED <<up, sessions>>
      BY <2>1, SaveReplies
    <3>4. g_devices' = With(g_devices, d, dev) /\ reply' = "ASSIGN_OK" => AtMostMoved
      BY <3>1, <3>2 DEF With, AtMostMoved
    <3> QED
      BY <3>3, <3>4
  <2> QED
    BY <1>4, <1>a, <2>1, AnswersAreQuiet DEF Assign
<1>5. CASE Scan
  BY <1>5, ScanKeeps, KeptIsAtMostMoved
<1> QED
  BY <1>1, <1>2, <1>3, <1>4, <1>5 DEF WithoutToken

(***************************************************************************)
(* The invariant holds.                                                    *)
(***************************************************************************)
LEMMA ClockGoesOn ==
  ASSUME TypeOK, Next
  PROVE  clock <= clock'
<1>a. clock \in Int
  BY DEF TypeOK, Tokens
<1> DEFINE Still == clock' = clock
<1>b. /\ \A code : Answer(code) => Still
      /\ \A d, code : Rejected(d, code) => Still
      /\ \A d, token : Refused(token, d) => Still
      /\ \A c, t, code : SaveThenAnswer(c, t, code) => Still
  BY DEF Answer, Rejected, Refused, SaveThenAnswer
<1>1. Malformed \/ CoopList \/ Scan \/ Start \/ Crash => Still
  BY <1>b DEF Malformed, CoopList, Scan, Start, Crash
<1>2. ASSUME NEW name \in Names \cup {""}, CoopAdd(name) PROVE Still
  BY <1>2, <1>b DEF CoopAdd
<1>3. ASSUME NEW d \in DeviceIds, DeviceCommand(d) PROVE Still
  <2> HIDE DEF Still
  <2>1. ASSUME NEW pw, Connect(d, pw) PROVE Still
    BY <2>1, <1>b DEF Connect, Still
  <2>2. ASSUME NEW token, Info(d, token) \/ Bye(d, token) PROVE Still
    BY <2>2, <1>b DEF Info, Bye, Still
  <2>3. ASSUME NEW token, NEW action, NEW p, Control(d, token, action, p) PROVE Still
    BY <2>3, <1>b DEF Control
  <2>4. ASSUME NEW token, NEW p, SetCfg(d, token, p) PROVE Still
    BY <2>4, <1>b DEF SetCfg
  <2>5. ASSUME NEW token, NEW old_pw, NEW new_pw, ChPass(d, token, old_pw, new_pw)
        PROVE  Still
    BY <2>5, <1>b DEF ChPass
  <2>6. ASSUME NEW type, NEW pw, NEW coop, AddDevice(d, type, pw, coop) PROVE Still
    BY <2>6, <1>b DEF AddDevice
  <2>7. ASSUME NEW coop, Assign(d, coop) PROVE Still
    BY <2>7, <1>b DEF Assign
  <2> QED
    BY <1>3, <2>1, <2>2, <2>3, <2>4, <2>5, <2>6, <2>7 DEF DeviceCommand
<1>4. Tick => clock' = clock + 1
  BY DEF Tick
<1>5. HandWritesCoop \/ HandAddsDevice => Still
  BY DEF HandWritesCoop, HandAddsDevice, HandEdit
<1>6. Still \/ clock' = clock + 1
  BY <1>1, <1>2, <1>3, <1>4, <1>5 DEF Next, Server, DeviceCommand
<1> QED
  BY <1>a, <1>6

\* Logins that are closed are the same logins.
SameLogin(m, l) ==
  /\ m.who = l.who /\ m.dev = l.dev /\ m.token = l.token /\ m.at = l.at
  /\ m = [l EXCEPT !.open = FALSE]
  /\ m \in [who : Clients, dev : DeviceIds, token : Tokens, at : Tokens, open : BOOLEAN]

LEMMA ClosedLogins ==
  ASSUME LoginsOK, NEW L, L \subseteq logins
  PROVE  \A m \in Closed(L) : \E l \in L : SameLogin(m, l)
<1> SUFFICES ASSUME NEW m \in Closed(L) PROVE \E l \in L : SameLogin(m, l)
  OBVIOUS
<1>1. PICK l \in L : m = [l EXCEPT !.open = FALSE]
  BY DEF Closed
<1>2. l \in [who : Clients, dev : DeviceIds, token : Tokens, at : Tokens, open : BOOLEAN]
  BY DEF LoginsOK
<1> QED
  BY <1>1, <1>2 DEF SameLogin

\* As long as nobody logs in or out.
LEMMA LoginsStay ==
  ASSUME TypeOK, AInv, clock <= clock', clock' \in Int, logins' = Surviving,
         UNCHANGED <<up, sessions>> \/ Active(sessions') = {}
  PROVE  AInv'
<1>a. clock \in Int /\ \A l \in logins : l.at \in Int
  BY DEF TypeOK, Tokens, AInv, LoginsOK
<1>1. CASE logins' = logins /\ UNCHANGED <<up, sessions>>
  BY <1>a, <1>1 DEF AInv, LoginsOK, OneLogin, OneSlot, SlotsAreOpen, NoneWhenDown, Active
<1>2. CASE logins' = logins /\ Active(sessions') = {}
  BY <1>a, <1>2 DEF AInv, LoginsOK, OneLogin, OneSlot, SlotsAreOpen, NoneWhenDown
<1>3. CASE logins' = Closed(logins) /\ Active(sessions') = {}
  <2>a. \A m \in Closed(logins) : \E l \in logins : SameLogin(m, l)
    BY ClosedLogins DEF AInv
  <2>b. \A m \in logins' : \E l \in logins : SameLogin(m, l)
    BY <1>3, <2>a
  <2>1. LoginsOK'
    BY <1>a, <2>b DEF AInv, LoginsOK, SameLogin
  <2>2. OneLogin'
    BY <2>b DEF AInv, OneLogin, SameLogin
  <2> QED
    BY <1>3, <2>1, <2>2 DEF AInv, OneSlot, SlotsAreOpen, NoneWhenDown
<1>4. \/ logins' = logins
      \/ logins' = Closed(logins) /\ Active(sessions') = {}
  BY DEF Surviving, AInv, NoneWhenDown
<1> QED
  BY <1>1, <1>2, <1>3, <1>4

\* A login gets a token and a slot that no other login has (session_auth.c:29).
LEMMA LoginStep ==
  ASSUME TypeOK, AInv, NEW c \in Clients, NEW d \in DeviceIds, up, Paced,
         sessions' = create_session(sessions, generate_token(clock), d),
         logins' = logins \cup {Granted(c, d)}, up' = up, clock' = clock
  PROVE  AInv'
<1>1. PICK g : g = Granted(c, d)
  OBVIOUS
<1>2. /\ clock \in Tokens /\ clock \in Int
      /\ g \in [who : Clients, dev : DeviceIds, token : Tokens, at : Tokens, open : BOOLEAN]
      /\ g.token = clock /\ g.at = clock /\ g.dev = d /\ g.open
  BY <1>1 DEF TypeOK, Tokens, Granted, generate_token
<1>3. \A l \in logins : l.token \in Int /\ l.token < clock
  BY <1>2 DEF AInv, LoginsOK, Paced, generate_token, Tokens
<1>4. LoginsOK'
  BY <1>1, <1>2 DEF AInv, LoginsOK, generate_token
<1>5. OneLogin'
  BY <1>1, <1>2, <1>3 DEF AInv, OneLogin
<1>6. ASSUME NEW s \in Active(sessions')
      PROVE  \/ s \in Active(sessions) /\ sessions'[s] = sessions[s]
             \/ /\ IsFirst(s, Slots \ Active(sessions))
                /\ sessions'[s] = [token |-> clock, dev |-> d]
  BY <1>6 DEF create_session, Active, generate_token
<1>7. \A s \in Active(sessions) : sessions[s].token # clock
  BY <1>2, <1>3 DEF AInv, SlotsAreOpen
<1>8. \A s, u : IsFirst(s, Slots \ Active(sessions)) /\ IsFirst(u, Slots \ Active(sessions))
                  => s = u
  BY ConfigAssumption DEF IsFirst, Slots
<1>9. OneSlot'
  <2> SUFFICES ASSUME NEW s \in Active(sessions'), NEW u \in Active(sessions'),
                      sessions'[s].token = sessions'[u].token
               PROVE  s = u
    BY DEF OneSlot
  <2>1. CASE s \in Active(sessions) /\ sessions'[s] = sessions[s]
    <3>1. sessions'[u].token # clock
      BY <1>7, <2>1
    <3>2. u \in Active(sessions) /\ sessions'[u] = sessions[u]
      BY <1>6, <3>1
    <3> QED
      BY <2>1, <3>2 DEF AInv, OneSlot
  <2>2. CASE IsFirst(s, Slots \ Active(sessions)) /\ sessions'[s].token = clock
    <3>1. ~(u \in Active(sessions) /\ sessions'[u] = sessions[u])
      BY <1>7, <2>2
    <3> QED
      BY <1>6, <1>8, <2>2, <3>1
  <2> QED
    BY <1>6, <2>1, <2>2
<1>10. SlotsAreOpen'
  <2> SUFFICES ASSUME NEW s \in Active(sessions')
               PROVE  \E l \in logins' : /\ l.open /\ l.token = sessions'[s].token
                                         /\ l.dev = sessions'[s].dev
    BY DEF SlotsAreOpen
  <2>1. CASE s \in Active(sessions) /\ sessions'[s] = sessions[s]
    BY <2>1 DEF AInv, SlotsAreOpen
  <2>2. CASE sessions'[s] = [token |-> clock, dev |-> d]
    BY <1>1, <1>2, <2>2
  <2> QED
    BY <1>6, <2>1, <2>2
<1> QED
  BY <1>4, <1>5, <1>9, <1>10 DEF AInv, NoneWhenDown

\* The end of a session takes the one slot that holds its token (session_auth.c:59).
LEMMA LogoutStep ==
  ASSUME TypeOK, AInv, NEW c \in Clients, NEW d \in DeviceIds, NEW token, up,
         Connected(token, d), sessions' = end_session(sessions, token),
         up' = up, clock' = clock,
         NEW own, own = {l \in logins : l.who = c /\ l.dev = d /\ l.token = token},
         logins' = (logins \ own) \cup Closed(own)
  PROVE  AInv'
<1>1. \A m \in Closed(own) : \E l \in own : SameLogin(m, l)
  <2>1. own \subseteq logins
    OBVIOUS
  <2> QED
    BY <2>1, ClosedLogins DEF AInv
<1>2. LoginsOK'
  BY <1>1 DEF AInv, LoginsOK, SameLogin
<1>3. OneLogin'
  BY <1>1 DEF AInv, OneLogin, SameLogin
<1>4. PICK t \in Slots : IsFirst(t, Holding(sessions, token))
  BY DEF Connected, Validated
<1>5. ASSUME NEW s \in Active(sessions')
      PROVE  /\ s \in Active(sessions) /\ sessions'[s] = sessions[s]
             /\ sessions[s].token # token
  <2>1. s \in Active(sessions) /\ sessions'[s] = sessions[s] /\ s # t
    BY <1>4, <1>5 DEF end_session, Active
  <2>2. t \in Active(sessions) /\ sessions[t].token = token
    BY <1>4 DEF IsFirst, Holding
  <2> QED
    BY <2>1, <2>2 DEF AInv, OneSlot
<1>6. OneSlot'
  BY <1>5 DEF AInv, OneSlot
<1>7. SlotsAreOpen'
  BY <1>5 DEF AInv, SlotsAreOpen
<1> QED
  BY <1>2, <1>3, <1>6, <1>7 DEF AInv, NoneWhenDown

LEMMA AInvStep ==
  ASSUME TypeOK, AInv, [ANext]_avars
  PROVE  AInv'
<1>a. clock' \in Int /\ clock \in Int
  BY AccessIsCoopLogic, StepTypes DEF AInv, TypeOK, Tokens
<1>b. clock <= clock'
  BY <1>a, AccessIsCoopLogic, ClockGoesOn DEF AInv, vars
<1>c. Dies \/ Start => Active(sessions') = {}
  BY DEF Dies, Start, Active, no_sessions
<1>1. CASE Unasked
  <2>1. Start \/ Dies \/ UNCHANGED <<up, sessions>>
    BY <1>1 DEF Unasked, Crash, Tick, HandWritesCoop, HandAddsDevice, HandEdit
  <2> QED
    BY <1>1, <1>a, <1>b, <1>c, <2>1, LoginsStay DEF Unasked
<1>2. ASSUME NEW c \in Clients, NEW d \in DeviceIds, NEW pw \in Passwords, LogIn(c, d, pw)
      PROVE  AInv'
  <2>1. CASE reply' = "CONNECT_OK"
    <3>1. /\ sessions' = create_session(sessions, generate_token(clock), d)
          /\ up /\ up' = up /\ clock' = clock
      BY <1>2, <2>1 DEF LogIn, Connect, Answer, Rejected
    <3> QED
      BY <1>2, <2>1, <3>1, LoginStep DEF LogIn
  <2>2. CASE reply' # "CONNECT_OK"
    <3>1. up /\ Quiet
      BY <1>2, <2>2, AnswersAreQuiet DEF LogIn, Connect
    <3> QED
      BY <1>2, <1>a, <1>b, <2>2, <3>1, LoginsStay DEF LogIn, Quiet, Surviving
  <2> QED
    BY <2>1, <2>2
<1>3. ASSUME NEW c \in Clients, NEW d \in DeviceIds, NEW token \in TokensOf(c),
             LogOut(c, d, token)
      PROVE  AInv'
  <2>1. CASE reply' = "BYE_OK"
    <3>1. /\ Connected(token, d) /\ sessions' = end_session(sessions, token)
          /\ up /\ up' = up /\ clock' = clock
      BY <1>3, <2>1 DEF LogOut, Bye, Refused, Answer
    <3>2. PICK own : own = {l \in logins : l.who = c /\ l.dev = d /\ l.token = token}
      OBVIOUS
    <3>3. logins' = (logins \ own) \cup Closed(own)
      BY <1>3, <2>1, <3>2 DEF LogOut
    <3> QED
      BY <3>1, <3>2, <3>3, LogoutStep
  <2>2. CASE reply' # "BYE_OK"
    <3>1. up /\ Quiet
      BY <1>3, <2>2, AnswersAreQuiet DEF LogOut, Bye
    <3> QED
      BY <1>3, <1>a, <1>b, <2>2, <3>1, LoginsStay DEF LogOut, Quiet, Surviving
  <2> QED
    BY <2>1, <2>2
<1>4. ASSUME NEW c \in Clients, NEW d \in DeviceIds, NEW token \in TokensOf(c),
             WithToken(d, token), logins' = Surviving
      PROVE  AInv'
  <2>1. token \in Tokens
    BY TokensAreTokens DEF AInv
  <2>2. Dies \/ UNCHANGED <<up, sessions>>
    BY <1>4, <2>1, TokenRequest DEF Quiet
  <2> QED
    BY <1>4, <1>a, <1>b, <1>c, <2>2, LoginsStay
<1>5. CASE WithoutToken /\ logins' = Surviving
  BY <1>5, <1>a, <1>b, <1>c, TokenlessRequest, LoginsStay
<1>6. CASE UNCHANGED avars
  BY <1>6 DEF avars, vars, AInv, LoginsOK, OneLogin, OneSlot, SlotsAreOpen, NoneWhenDown
<1> QED
  BY <1>1, <1>2, <1>3, <1>4, <1>5, <1>6 DEF ANext, Request

\* Whatever clients send, a device is lost or retyped by none of them, moved only by
\* ASSIGN, and altered only by a CONTROL, SETCFG or CHPASS of a client that has an open
\* login of that very device (coop_logic.c:35, 233, 345, 392, 456).
THEOREM ChangesAreAuthorised == ASpec => AuthorisedChange
<1> DEFINE Protected(d) ==
      /\ d \in DOMAIN g_devices'
      /\ g_devices'[d].type = g_devices[d].type
      /\ g_devices'[d].coop = g_devices[d].coop \/ reply' = "ASSIGN_OK"
      /\ \/ /\ g_devices'[d].password = g_devices[d].password
            /\ g_devices'[d].power = g_devices[d].power
            /\ g_devices'[d].cfg = g_devices[d].cfg
         \/ /\ reply' \in {"CONTROL_OK", "SETCFG_OK", "PASS_OK"}
            /\ \E l \in logins : l.who = actor' /\ l.dev = d /\ l.open
<1>1. AInit => TypeOK /\ AInv
  <2>1. AInit => TypeOK
    BY InitTypes DEF AInit
  <2>2. AInit => AInv
    BY DEF AInit, Init, AInv, LoginsOK, OneLogin, OneSlot, SlotsAreOpen, NoneWhenDown,
           Active, no_sessions
  <2> QED
    BY <2>1, <2>2
<1>2. TypeOK /\ AInv /\ [ANext]_avars => (TypeOK /\ AInv)'
  BY AInvStep, AccessIsCoopLogic, StepTypes DEF AInv
<1>3. TypeOK /\ AInv /\ [ANext]_avars =>
        [\A d \in DOMAIN g_devices : up /\ up' => Protected(d)]_avars
  <2> SUFFICES ASSUME TypeOK, AInv, ANext, NEW d \in DOMAIN g_devices, up, up'
               PROVE  Protected(d)
    OBVIOUS
  <2>a. ~Dies /\ ~Start
    BY DEF Dies, Start
  <2>b. AtMostMoved => Protected(d)
    BY DEF AtMostMoved
  <2>c. g_devices' = g_devices => Protected(d)
    OBVIOUS
  <2>1. CASE Unasked
    BY <2>1, <2>a, <2>c
    DEF Unasked, Crash, Tick, HandWritesCoop, HandAddsDevice, HandEdit
  <2>2. ASSUME NEW c \in Clients, NEW e \in DeviceIds, NEW pw \in Passwords, LogIn(c, e, pw)
        PROVE  Protected(d)
    BY <2>2, <2>c, AnswersAreQuiet DEF LogIn, Connect, Quiet
  <2>3. ASSUME NEW c \in Clients, NEW e \in DeviceIds, NEW token \in TokensOf(c),
               LogOut(c, e, token)
        PROVE  Protected(d)
    BY <2>3, <2>c, AnswersAreQuiet DEF LogOut, Bye, Quiet
  <2>4. ASSUME NEW c \in Clients, actor' = c, NEW e \in DeviceIds, NEW token \in TokensOf(c),
               WithToken(e, token)
        PROVE  Protected(d)
    <3>1. token \in Tokens /\ \E l \in logins : l.who = c /\ l.token = token
      BY TokensAreTokens DEF AInv
    <3>2. CASE Quiet
      BY <3>2, <2>c DEF Quiet
    <3>3. CASE Connected(token, e) /\ OnlyAltered(e) /\ reply' \in Altering
      <4>1. PICK s \in Active(sessions) : sessions[s].token = token /\ sessions[s].dev = e
        BY <3>3 DEF Connected, Validated, IsFirst, Holding
      <4>2. \E l \in logins : l.open /\ l.token = token /\ l.dev = e
        BY <4>1 DEF AInv, SlotsAreOpen
      <4>3. \E l \in logins : l.who = c /\ l.dev = e /\ l.open
        BY <3>1, <4>2 DEF AInv, OneLogin
      <4>4. CASE e = d
        BY <2>4, <3>3, <4>3, <4>4 DEF OnlyAltered, Altering
      <4>5. CASE e # d
        BY <3>3, <4>5 DEF OnlyAltered
      <4> QED
        BY <4>4, <4>5
    <3> QED
      BY <2>4, <2>a, <3>1, <3>2, <3>3, TokenRequest
  <2>5. CASE WithoutToken
    BY <2>5, <2>a, <2>b, TokenlessRequest
  <2> HIDE DEF Protected
  <2> QED
    BY <2>1, <2>2, <2>3, <2>4, <2>5 DEF ANext, Request
<1> QED
  BY <1>1, <1>2, <1>3, PTL DEF ASpec, AuthorisedChange
=============================================================================
