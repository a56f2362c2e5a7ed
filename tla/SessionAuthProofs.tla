-------------------------- MODULE SessionAuthProofs --------------------------
(***************************************************************************)
(* The session table of SessionAuth, for every value of its constants: its *)
(* types under any sequence of calls; and that, when no two logins fall    *)
(* into one second, the slots implement SessionMap.                        *)
(***************************************************************************)
EXTENDS SessionAuth, FiniteSetTheorems, TLAPS

(***************************************************************************)
(* Slots.                                                                  *)
(***************************************************************************)

\* A scan of the slots meets at most one slot first, and one if there is any
\* (session_auth.c:30, 45, 56).
LEMMA FirstSlot ==
  ASSUME NEW S \in SUBSET Slots
  PROVE  /\ \A s, u : IsFirst(s, S) /\ IsFirst(u, S) => s = u
         /\ S # {} => \E s \in S : IsFirst(s, S)
<1>1. S \in SUBSET Nat
  BY DEF Slots
<1>2. \A s, u : IsFirst(s, S) /\ IsFirst(u, S) => s = u
  BY <1>1 DEF IsFirst
<1>3. ASSUME S # {}
      PROVE  \E s \in S : IsFirst(s, S)
  <2>1. PICK s \in S : \A u \in S : ~(<<u, s>> \in OpToRel(<, Nat))
    BY <1>1, <1>3, NatLessThanWellFounded, WFMin
  <2>2. \A u \in S : ~(u < s)
    BY <1>1, <2>1 DEF OpToRel
  <2> QED
    BY <1>1, <2>2 DEF IsFirst
<1> QED
  BY <1>2, <1>3

IsTable(t) == t \in [Slots -> Request \cup {NoSession}]

\* An active slot holds a session.
LEMMA ActiveHolds ==
  ASSUME NEW t, IsTable(t), NEW s \in Active(t)
  PROVE  s \in Slots /\ t[s] \in Request
BY DEF IsTable, Active

\* NoSession is not a session.
LEMMA RequestIsSession ==
  ASSUME NEW r \in Request
  PROVE  r # NoSession
BY SessionAuthAssumption DEF Request, Tokens

\* A login puts its session in one free slot and alters no other; there is such a
\* slot unless the table is full (session_auth.c:28).
LEMMA Created ==
  ASSUME NEW t, IsTable(t), NEW r \in Request, ~Full(t)
  PROVE  \E s \in Slots \ Active(t) :
           /\ create_session(t, r.token, r.dev) = [t EXCEPT ![s] = r]
           /\ IsTable([t EXCEPT ![s] = r])
           /\ Active([t EXCEPT ![s] = r]) = Active(t) \cup {s}
<1> DEFINE Free == Slots \ Active(t)
<1>1. Free \in SUBSET Slots /\ Free # {}
  BY DEF Full, Active
<1>2. PICK s \in Free : IsFirst(s, Free)
  BY <1>1, FirstSlot
<1>3. \A u \in Slots : IsFirst(u, Free) <=> u = s
  BY <1>1, <1>2, FirstSlot
<1>4. r = [token |-> r.token, dev |-> r.dev]
  BY DEF Request
<1>5. create_session(t, r.token, r.dev) = [t EXCEPT ![s] = r]
  BY <1>3, <1>4 DEF create_session, IsTable
<1>6. IsTable([t EXCEPT ![s] = r])
  BY DEF IsTable
<1>7. Active([t EXCEPT ![s] = r]) = Active(t) \cup {s}
  BY RequestIsSession DEF Active, IsTable
<1> QED
  BY <1>5, <1>6, <1>7

\* A logout frees the first slot with the token, and alters no other
\* (session_auth.c:54).
LEMMA Ended ==
  ASSUME NEW t, IsTable(t), NEW token, Holding(t, token) # {}
  PROVE  \E s \in Holding(t, token) :
           /\ end_session(t, token) = [t EXCEPT ![s] = NoSession]
           /\ IsTable([t EXCEPT ![s] = NoSession])
           /\ Active([t EXCEPT ![s] = NoSession]) = Active(t) \ {s}
<1>1. Holding(t, token) \in SUBSET Slots
  BY DEF Holding, Active
<1>2. PICK s \in Holding(t, token) : IsFirst(s, Holding(t, token))
  BY <1>1, FirstSlot
<1>3. \A u \in Slots : IsFirst(u, Holding(t, token)) <=> u = s
  BY <1>1, <1>2, FirstSlot
<1>4. s \in Slots
  BY <1>1
<1>5. end_session(t, token) = [t EXCEPT ![s] = NoSession]
  BY <1>3 DEF end_session, IsTable
<1>6. IsTable([t EXCEPT ![s] = NoSession])
  BY DEF IsTable
<1>7. Active([t EXCEPT ![s] = NoSession]) = Active(t) \ {s}
  BY <1>4 DEF Active, IsTable
<1> QED
  BY <1>5, <1>6, <1>7

\* A token that validates is that of an active session (session_auth.c:43).
LEMMA ValidatedHolds ==
  ASSUME NEW t, NEW token, NEW d, Validated(t, token, d)
  PROVE  \E s \in Holding(t, token) : IsFirst(s, Holding(t, token)) /\ t[s].dev = d
BY DEF Validated, IsFirst

(***************************************************************************)
(* Type correctness.                                                       *)
(***************************************************************************)
LEMMA InitType == Init => TypeOK
BY SessionAuthAssumption
DEF Init, TypeOK, no_sessions, Active, Tokens, Request

LEMMA NextType == TypeOK /\ [Next]_vars => TypeOK'
<1> SUFFICES ASSUME TypeOK, [Next]_vars PROVE TypeOK'
  OBVIOUS
<1>a. IsTable(sessions) /\ clock \in Tokens /\ asked \in Request
  BY DEF TypeOK, IsTable
<1>b. last \in Tokens \cup {-1}
  BY DEF TypeOK
<1>1. ASSUME NEW d \in Devices, Create(d) PROVE TypeOK'
  <2> DEFINE r == [token |-> clock, dev |-> d]
  <2>1. r \in Request
    BY <1>a DEF Request
  <2>2. asked' = r /\ clock' = clock /\ last' \in Tokens \cup {-1}
    BY <1>1, <1>a, <1>b DEF Create, generate_token
  <2>3. CASE Full(sessions)
    BY <1>1, <2>1, <2>2, <2>3 DEF Create, TypeOK
  <2>4. CASE ~Full(sessions)
    <3>1. sessions' = create_session(sessions, r.token, r.dev) /\ answer' = "created"
      BY <1>1, <2>4 DEF Create, generate_token
    <3> HIDE DEF r
    <3>2. PICK s \in Slots \ Active(sessions) :
            /\ sessions' = [sessions EXCEPT ![s] = r]
            /\ IsTable(sessions')
            /\ Active(sessions') = Active(sessions) \cup {s}
      BY <1>a, <2>1, <2>4, <3>1, Created
    <3>3. r.token <= clock
      BY <1>a, SessionAuthAssumption DEF r, Tokens
    <3>4. ASSUME NEW u \in Active(sessions')
          PROVE  sessions'[u].token <= clock'
      <4>1. sessions'[u] = IF u = s THEN r ELSE sessions[u]
        BY <1>a, <3>2, ActiveHolds DEF IsTable
      <4> QED
        BY <2>2, <3>2, <3>3, <4>1 DEF TypeOK
    <3> QED
      BY <1>a, <2>1, <2>2, <3>1, <3>2, <3>4 DEF TypeOK, IsTable
  <2> QED
    BY <2>3, <2>4
<1>2. ASSUME NEW token \in Tokens, NEW d \in Devices, Validate(token, d) PROVE TypeOK'
  BY <1>2 DEF Validate, TypeOK, Request
<1>3. ASSUME NEW token \in Tokens, NEW d \in Devices, End(token, d) PROVE TypeOK'
  <2>1. Holding(sessions, token) # {}
    BY <1>3, ValidatedHolds DEF End
  <2>2. sessions' = end_session(sessions, token)
    BY <1>3 DEF End
  <2>3. PICK s \in Holding(sessions, token) :
          /\ end_session(sessions, token) = [sessions EXCEPT ![s] = NoSession]
          /\ IsTable([sessions EXCEPT ![s] = NoSession])
          /\ Active([sessions EXCEPT ![s] = NoSession]) = Active(sessions) \ {s}
    BY <1>a, <2>1, Ended
  <2>4. clock' = clock /\ answer' = "ended" /\ asked' \in Request /\ last' = last
    BY <1>3 DEF End, Request
  <2>5. IsTable(sessions') /\ Active(sessions') = Active(sessions) \ {s}
    BY <2>2, <2>3
  <2>6. ASSUME NEW u \in Active(sessions')
        PROVE  sessions'[u].token <= clock'
    <3>1. u \in Active(sessions) /\ u # s /\ u \in Slots
      BY <1>a, <2>5, ActiveHolds
    <3>2. sessions'[u] = sessions[u]
      BY <1>a, <2>2, <2>3, <3>1 DEF IsTable
    <3> QED
      BY <2>4, <3>1, <3>2 DEF TypeOK
  <2> QED
    BY <1>a, <1>b, <2>4, <2>5, <2>6 DEF TypeOK, IsTable
<1>4. CASE Tick
  <2>1. /\ sessions' = sessions /\ asked' = asked /\ last' = last
        /\ clock' = clock + 1 /\ answer' = "-"
    BY <1>4 DEF Tick
  <2>2. clock' \in Tokens
    BY <1>4, <1>a, SessionAuthAssumption DEF Tick, Tokens
  <2>3. ASSUME NEW u \in Active(sessions)
        PROVE  sessions[u].token <= clock + 1
    <3>1. sessions[u].token \in Tokens /\ sessions[u].token <= clock
      BY <1>a, <2>3, ActiveHolds DEF Request, TypeOK
    <3> QED
      BY <1>a, <3>1, SessionAuthAssumption DEF Tokens
  <2>4. Active(sessions') = Active(sessions)
    BY <2>1
  <2> QED
    BY <1>a, <1>b, <2>1, <2>2, <2>3, <2>4 DEF TypeOK, IsTable
<1>5. CASE UNCHANGED vars
  BY <1>5 DEF vars, TypeOK
<1> QED
  BY <1>1, <1>2, <1>3, <1>4, <1>5 DEF Next

\* Under any sequence of calls a slot is free or holds a session, and no session has
\* a token of the future (session_auth.c:20).
THEOREM SessionTypes == Spec => []TypeOK
BY InitType, NextType, PTL DEF Spec

(***************************************************************************)
(* Logins that are paced: every open session was created no later than the *)
(* last login, so the token of a later second belongs to none.             *)
(***************************************************************************)
Unique(t) == \A s, u \in Active(t) : t[s].token = t[u].token => s = u

\* A login with a token that no open session has, and a logout, leave each token to
\* one session (session_auth.c:25, 52).
LEMMA LoginKeepsUnique ==
  ASSUME NEW t, IsTable(t), Unique(t), NEW r \in Request, Holding(t, r.token) = {},
         NEW s \in Slots \ Active(t), Active([t EXCEPT ![s] = r]) = Active(t) \cup {s}
  PROVE  Unique([t EXCEPT ![s] = r])
<1> DEFINE n == [t EXCEPT ![s] = r]
<1>1. \A u \in Active(n) : n[u] = IF u = s THEN r ELSE t[u]
  BY ActiveHolds DEF IsTable
<1>2. \A u \in Active(t) : t[u].token # r.token
  BY DEF Holding
<1>3. Active(n) = Active(t) \cup {s}
  OBVIOUS
<1> HIDE DEF n
<1>4. Unique(n)
  BY <1>1, <1>2, <1>3 DEF Unique
<1> QED
  BY <1>4 DEF n

LEMMA LogoutKeepsUnique ==
  ASSUME NEW t, IsTable(t), Unique(t), NEW s \in Active(t),
         Active([t EXCEPT ![s] = NoSession]) = Active(t) \ {s}
  PROVE  Unique([t EXCEPT ![s] = NoSession])
<1> DEFINE n == [t EXCEPT ![s] = NoSession]
<1>1. \A u \in Active(t) \ {s} : n[u] = t[u]
  BY ActiveHolds DEF IsTable
<1>2. Active(n) = Active(t) \ {s}
  OBVIOUS
<1> HIDE DEF n
<1>3. Unique(n)
  BY <1>1, <1>2 DEF Unique
<1> QED
  BY <1>3 DEF n

Earlier == last <= clock /\ \A s \in Active(sessions) : sessions[s].token <= last

PacedInv == TypeOK /\ Unique(sessions) /\ Earlier

LEMMA PacedIsNext == [PacedNext]_vars => [Next]_vars
BY DEF PacedNext, Next

\* The login of a paced step, on the table of slots.
LEMMA PacedLogin ==
  ASSUME TypeOK, NEW d \in Devices, Create(d), ~Full(sessions)
  PROVE  LET r == [token |-> clock, dev |-> d]
         IN  /\ r \in Request /\ asked' = r /\ answer' = "created"
             /\ \E s \in Slots \ Active(sessions) :
                  /\ sessions' = [sessions EXCEPT ![s] = r]
                  /\ IsTable([sessions EXCEPT ![s] = r])
                  /\ Active([sessions EXCEPT ![s] = r]) = Active(sessions) \cup {s}
<1> DEFINE r == [token |-> clock, dev |-> d]
<1>1. IsTable(sessions) /\ r \in Request
  BY DEF TypeOK, IsTable, Request
<1>2. asked' = r /\ answer' = "created" /\ sessions' = create_session(sessions, r.token, r.dev)
  BY DEF Create, generate_token
<1> HIDE DEF r
<1>3. PICK s \in Slots \ Active(sessions) :
        /\ create_session(sessions, r.token, r.dev) = [sessions EXCEPT ![s] = r]
        /\ IsTable([sessions EXCEPT ![s] = r])
        /\ Active([sessions EXCEPT ![s] = r]) = Active(sessions) \cup {s}
  BY <1>1, Created
<1>4. /\ r \in Request /\ asked' = r /\ answer' = "created"
      /\ \E u \in Slots \ Active(sessions) :
           /\ sessions' = [sessions EXCEPT ![u] = r]
           /\ IsTable([sessions EXCEPT ![u] = r])
           /\ Active([sessions EXCEPT ![u] = r]) = Active(sessions) \cup {u}
  BY <1>1, <1>2, <1>3
<1> QED
  BY <1>4 DEF r

\* The logout of a step, on the table of slots.
LEMMA Logout ==
  ASSUME TypeOK, NEW token \in Tokens, NEW d \in Devices, End(token, d)
  PROVE  \E s \in Holding(sessions, token) :
           /\ sessions' = [sessions EXCEPT ![s] = NoSession]
           /\ IsTable([sessions EXCEPT ![s] = NoSession])
           /\ Active([sessions EXCEPT ![s] = NoSession]) = Active(sessions) \ {s}
<1>1. IsTable(sessions) /\ Holding(sessions, token) # {}
  BY ValidatedHolds DEF TypeOK, IsTable, End
<1>2. sessions' = end_session(sessions, token)
  BY DEF End
<1> QED
  BY <1>1, <1>2, Ended

\* Seconds are numbers.
LEMMA Seconds == ASSUME TypeOK PROVE last \in Int /\ clock \in Int /\ Tokens \subseteq Int
<1>1. Tokens \subseteq Int /\ -1 \in Int
  BY SessionAuthAssumption DEF Tokens
<1>2. clock \in Tokens /\ (last \in Tokens \/ last = -1)
  BY DEF TypeOK
<1> QED
  BY <1>1, <1>2

\* The token of a second after the last login belongs to no session
\* (session_auth.c:20).
LEMMA LaterIsFree ==
  ASSUME TypeOK, Earlier, last < clock
  PROVE  Holding(sessions, generate_token(clock)) = {}
<1>1. ASSUME NEW s \in Active(sessions) PROVE sessions[s].token # clock
  <2>1. sessions[s].token \in Tokens /\ sessions[s].token <= last
    BY ActiveHolds DEF TypeOK, IsTable, Request, Earlier
  <2>2. last \in Int /\ clock \in Int /\ sessions[s].token \in Int
    BY <2>1, Seconds
  <2> QED
    BY <2>1, <2>2
<1> QED
  BY <1>1 DEF Holding, generate_token

\* No step puts a session after the last login.
LEMMA StaysEarlier ==
  ASSUME TypeOK, Earlier, [Next]_vars
  PROVE  Earlier'
<1>1. IsTable(sessions) /\ last \in Int /\ clock \in Int /\ last <= clock
  BY Seconds DEF TypeOK, IsTable, Earlier
<1>2. ASSUME NEW s \in Active(sessions)
      PROVE  sessions[s].token \in Int /\ sessions[s].token <= last
  BY <1>1, <1>2, ActiveHolds, SessionAuthAssumption DEF Request, Tokens, Earlier
<1>3. ASSUME NEW d \in Devices, Create(d), ~Full(sessions)
      PROVE  Earlier'
  <2> DEFINE r == [token |-> clock, dev |-> d]
  <2>1. r \in Request /\ \E s \in Slots \ Active(sessions) :
          /\ sessions' = [sessions EXCEPT ![s] = r]
          /\ Active([sessions EXCEPT ![s] = r]) = Active(sessions) \cup {s}
    BY <1>3, PacedLogin
  <2>2. last' = clock /\ clock' = clock /\ r.token = clock
    BY <1>3 DEF Create
  <2> HIDE DEF r
  <2>3. PICK s \in Slots \ Active(sessions) :
          /\ sessions' = [sessions EXCEPT ![s] = r]
          /\ Active(sessions') = Active(sessions) \cup {s}
    BY <2>1
  <2>4. ASSUME NEW u \in Active(sessions')
        PROVE  sessions'[u].token <= clock
    <3>1. CASE u = s
      <4>1. sessions'[u] = r
        BY <1>1, <2>3, <3>1 DEF IsTable
      <4> QED
        BY <1>1, <2>2, <4>1
    <3>2. CASE u # s
      <4>1. u \in Active(sessions) /\ sessions'[u] = sessions[u]
        BY <1>1, <2>3, <2>4, <3>2, ActiveHolds DEF IsTable
      <4> QED
        BY <1>1, <1>2, <4>1
    <3> QED
      BY <3>1, <3>2
  <2> QED
    BY <1>1, <2>2, <2>4 DEF Earlier
<1>4. ASSUME NEW token \in Tokens, NEW d \in Devices, End(token, d)
      PROVE  Earlier'
  <2>1. PICK s \in Holding(sessions, token) :
          /\ sessions' = [sessions EXCEPT ![s] = NoSession]
          /\ Active(sessions') = Active(sessions) \ {s}
    BY <1>4, Logout
  <2>2. \A u \in Active(sessions') : u \in Active(sessions) /\ sessions'[u] = sessions[u]
    BY <1>1, <2>1, ActiveHolds DEF IsTable
  <2> QED
    BY <1>4, <2>2 DEF Earlier, End
<1>5. CASE sessions' = sessions /\ last' = last /\ clock' \in {clock, clock + 1}
  BY <1>1, <1>2, <1>5 DEF Earlier
<1> QED
  BY <1>3, <1>4, <1>5 DEF Next, Create, Validate, Tick, vars

LEMMA NextPaced == PacedInv /\ [PacedNext]_vars => PacedInv'
<1> SUFFICES ASSUME PacedInv, [PacedNext]_vars PROVE PacedInv'
  OBVIOUS
<1>1. TypeOK /\ TypeOK' /\ IsTable(sessions) /\ Unique(sessions) /\ Earlier /\ Earlier'
  BY PacedIsNext, NextType, StaysEarlier DEF PacedInv, TypeOK, IsTable
<1>2. ASSUME NEW d \in Devices, last < clock, Create(d)
      PROVE  Unique(sessions')
  <2>1. CASE Full(sessions)
    BY <1>1, <1>2, <2>1 DEF Create
  <2>2. CASE ~Full(sessions)
    <3> DEFINE r == [token |-> clock, dev |-> d]
    <3>1. r \in Request /\ \E s \in Slots \ Active(sessions) :
            /\ sessions' = [sessions EXCEPT ![s] = r]
            /\ Active([sessions EXCEPT ![s] = r]) = Active(sessions) \cup {s}
      BY <1>1, <1>2, <2>2, PacedLogin
    <3>2. Holding(sessions, r.token) = {}
      BY <1>1, <1>2, LaterIsFree DEF generate_token
    <3> HIDE DEF r
    <3>3. PICK s \in Slots \ Active(sessions) :
            /\ sessions' = [sessions EXCEPT ![s] = r]
            /\ Active([sessions EXCEPT ![s] = r]) = Active(sessions) \cup {s}
      BY <3>1
    <3>4. Unique([sessions EXCEPT ![s] = r])
      BY <1>1, <3>1, <3>2, <3>3, LoginKeepsUnique
    <3> QED
      BY <3>3, <3>4
  <2> QED
    BY <2>1, <2>2
<1>3. ASSUME NEW token \in Tokens, NEW d \in Devices, End(token, d)
      PROVE  Unique(sessions')
  <2>1. PICK s \in Holding(sessions, token) :
          /\ sessions' = [sessions EXCEPT ![s] = NoSession]
          /\ Active([sessions EXCEPT ![s] = NoSession]) = Active(sessions) \ {s}
    BY <1>1, <1>3, Logout
  <2>2. s \in Active(sessions)
    BY DEF Holding
  <2>3. Unique([sessions EXCEPT ![s] = NoSession])
    BY <1>1, <2>1, <2>2, LogoutKeepsUnique
  <2> QED
    BY <2>1, <2>3
<1>4. ASSUME sessions' = sessions
      PROVE  Unique(sessions')
  BY <1>1, <1>4
<1>5. Unique(sessions')
  BY <1>2, <1>3, <1>4 DEF PacedNext, Validate, Tick, vars
<1> QED
  BY <1>1, <1>5 DEF PacedInv

(***************************************************************************)
(* The slots implement SessionMap.                                         *)
(***************************************************************************)
TokensOf(t) == {t[s].token : s \in Active(t)}
OpenOf(t) == [k \in TokensOf(t) |-> t[CHOOSE s \in Holding(t, k) : TRUE].dev]

\* The session of a token is the one that a slot holds (session_auth.c:43).
LEMMA OpenAt ==
  ASSUME NEW t, IsTable(t), Unique(t), NEW s \in Active(t)
  PROVE  /\ Holding(t, t[s].token) = {s}
         /\ t[s].token \in TokensOf(t)
         /\ OpenOf(t)[t[s].token] = t[s].dev
<1>1. Holding(t, t[s].token) = {s}
  BY DEF Holding, Unique
<1>2. t[s].token \in TokensOf(t)
  BY DEF TokensOf
<1>3. (CHOOSE u \in Holding(t, t[s].token) : TRUE) = s
  BY <1>1
<1>4. OpenOf(t)[t[s].token] = t[CHOOSE u \in Holding(t, t[s].token) : TRUE].dev
  BY <1>2 DEF OpenOf
<1> QED
  BY <1>1, <1>2, <1>3, <1>4

\* OpenOf is the only map from the tokens of the slots to their devices.
LEMMA OpenIsOnly ==
  ASSUME NEW t, IsTable(t), Unique(t), NEW f, f = [k \in TokensOf(t) |-> f[k]],
         \A s \in Active(t) : f[t[s].token] = t[s].dev
  PROVE  f = OpenOf(t)
<1>1. ASSUME NEW k \in TokensOf(t)
      PROVE  f[k] = OpenOf(t)[k]
  <2>1. PICK s \in Active(t) : t[s].token = k
    BY DEF TokensOf
  <2>2. OpenOf(t)[t[s].token] = t[s].dev /\ f[t[s].token] = t[s].dev
    BY OpenAt
  <2> QED
    BY <2>1, <2>2
<1>2. OpenOf(t) = [k \in TokensOf(t) |-> OpenOf(t)[k]]
  BY DEF OpenOf
<1> HIDE DEF OpenOf
<1> QED
  BY <1>1, <1>2

\* A token validates for a device when it is open for it.
LEMMA ValidatedIsOpen ==
  ASSUME NEW t, IsTable(t), Unique(t), NEW token, NEW d
  PROVE  Validated(t, token, d) <=> token \in TokensOf(t) /\ OpenOf(t)[token] = d
<1>1. ASSUME Validated(t, token, d)
      PROVE  token \in TokensOf(t) /\ OpenOf(t)[token] = d
  <2>1. PICK s \in Holding(t, token) : t[s].dev = d
    BY <1>1, ValidatedHolds
  <2>2. s \in Active(t) /\ t[s].token = token
    BY DEF Holding
  <2> QED
    BY <2>1, <2>2, OpenAt
<1>2. ASSUME token \in TokensOf(t), OpenOf(t)[token] = d
      PROVE  Validated(t, token, d)
  <2>1. PICK s \in Active(t) : t[s].token = token
    BY <1>2 DEF TokensOf
  <2>2. Holding(t, token) = {s} /\ t[s].dev = d
    BY <1>2, <2>1, OpenAt
  <2>3. s \in Slots /\ IsFirst(s, Holding(t, token))
    BY <2>1, <2>2 DEF IsFirst, Active, Slots
  <2> QED
    BY <2>2, <2>3 DEF Validated
<1> QED
  BY <1>1, <1>2

\* There are as many tokens as active slots, and MaxDevices of them when the table is
\* full (session_auth.c:25, 37).
LEMMA OpenCount ==
  ASSUME NEW t, IsTable(t), Unique(t)
  PROVE  /\ Full(t) => Cardinality(TokensOf(t)) = MaxDevices
         /\ ~Full(t) => Cardinality(TokensOf(t)) < MaxDevices
<1> DEFINE f == [s \in Active(t) |-> t[s].token]
<1>1. MaxDevices \in Nat \ {0}
  BY ConfigAssumption
<1>2. IsFiniteSet(Slots) /\ Cardinality(Slots) = MaxDevices
  BY <1>1, FS_Interval DEF Slots
<1>3. Active(t) \in SUBSET Slots
  BY DEF Active
<1>4. /\ IsFiniteSet(Active(t))
      /\ Cardinality(Active(t)) <= MaxDevices
      /\ Cardinality(Active(t)) = MaxDevices => Active(t) = Slots
  BY <1>2, <1>3, FS_Subset
<1>5. f \in Bijection(Active(t), TokensOf(t))
  <2>1. f \in [Active(t) -> TokensOf(t)]
    BY DEF TokensOf
  <2>2. \A s, u \in Active(t) : f[s] = f[u] => s = u
    BY DEF Unique
  <2>3. \A k \in TokensOf(t) : \E s \in Active(t) : f[s] = k
    BY DEF TokensOf
  <2> HIDE DEF f
  <2> QED
    BY <2>1, <2>2, <2>3 DEF Bijection, Injection, Surjection, IsInjective
<1>6. ExistsBijection(Active(t), TokensOf(t))
  BY <1>5 DEF ExistsBijection
<1>7. Cardinality(TokensOf(t)) = Cardinality(Active(t)) /\ Cardinality(Active(t)) \in Nat
  BY <1>4, <1>6, FS_Bijection, FS_CardinalityType
<1> QED
  BY <1>1, <1>2, <1>4, <1>7 DEF Full

\* What a login and a logout make of the map.
LEMMA LoginOpens ==
  ASSUME NEW t, IsTable(t), Unique(t), NEW r \in Request, Holding(t, r.token) = {},
         NEW s \in Slots \ Active(t), IsTable([t EXCEPT ![s] = r]),
         Active([t EXCEPT ![s] = r]) = Active(t) \cup {s}
  PROVE  /\ r.token \notin TokensOf(t)
         /\ OpenOf([t EXCEPT ![s] = r]) = With(OpenOf(t), r.token, r.dev)
<1> DEFINE n == [t EXCEPT ![s] = r]
           f == With(OpenOf(t), r.token, r.dev)
<1>1. \A u \in Active(n) : n[u] = IF u = s THEN r ELSE t[u]
  BY ActiveHolds DEF IsTable
<1>2. IsTable(n) /\ Unique(n) /\ Active(n) = Active(t) \cup {s}
  BY LoginKeepsUnique
<1>3. r.token \notin TokensOf(t)
  BY DEF Holding, TokensOf
<1> HIDE DEF n
<1>4. TokensOf(n) = TokensOf(t) \cup {r.token}
  BY <1>1, <1>2 DEF TokensOf
<1>5. DOMAIN OpenOf(t) = TokensOf(t)
  BY DEF OpenOf
<1>6. f = [k \in TokensOf(n) |-> IF k = r.token THEN r.dev ELSE OpenOf(t)[k]]
  BY <1>4, <1>5 DEF With
<1>7. f = [k \in TokensOf(n) |-> f[k]]
  BY <1>6
<1>8. ASSUME NEW u \in Active(n)
      PROVE  f[n[u].token] = n[u].dev
  <2>1. n[u].token \in TokensOf(n)
    BY DEF TokensOf
  <2>2. f[n[u].token] = IF n[u].token = r.token THEN r.dev ELSE OpenOf(t)[n[u].token]
    BY <1>6, <2>1
  <2>3. CASE u = s
    BY <1>1, <2>2, <2>3
  <2>4. CASE u # s
    <3>1. u \in Active(t) /\ n[u] = t[u]
      BY <1>1, <1>2, <2>4
    <3>2. t[u].token # r.token
      BY <3>1 DEF Holding
    <3> QED
      BY <2>2, <3>1, <3>2, OpenAt
  <2> QED
    BY <2>3, <2>4
<1> HIDE DEF f
<1>9. f = OpenOf(n)
  BY <1>2, <1>7, <1>8, OpenIsOnly
<1> QED
  BY <1>3, <1>9 DEF f, n

LEMMA LogoutCloses ==
  ASSUME NEW t, IsTable(t), Unique(t), NEW s \in Active(t),
         IsTable([t EXCEPT ![s] = NoSession]),
         Active([t EXCEPT ![s] = NoSession]) = Active(t) \ {s}
  PROVE  OpenOf([t EXCEPT ![s] = NoSession]) = Map!Without(OpenOf(t), t[s].token)
<1> DEFINE n == [t EXCEPT ![s] = NoSession]
           f == Map!Without(OpenOf(t), t[s].token)
<1>1. \A u \in Active(t) \ {s} : n[u] = t[u]
  BY ActiveHolds DEF IsTable
<1>2. IsTable(n) /\ Unique(n) /\ Active(n) = Active(t) \ {s}
  BY LogoutKeepsUnique
<1> HIDE DEF n
<1>3. TokensOf(n) = TokensOf(t) \ {t[s].token}
  BY <1>1, <1>2 DEF TokensOf, Unique
<1>4. DOMAIN OpenOf(t) = TokensOf(t)
  BY DEF OpenOf
<1>5. f = [k \in TokensOf(n) |-> OpenOf(t)[k]]
  BY <1>3, <1>4 DEF Map!Without
<1>6. f = [k \in TokensOf(n) |-> f[k]]
  BY <1>5
<1>7. ASSUME NEW u \in Active(n)
      PROVE  f[n[u].token] = n[u].dev
  <2>1. n[u].token \in TokensOf(n)
    BY DEF TokensOf
  <2>2. u \in Active(t) /\ n[u] = t[u]
    BY <1>1, <1>2
  <2> QED
    BY <1>5, <2>1, <2>2, OpenAt
<1> HIDE DEF f
<1>8. f = OpenOf(n)
  BY <1>2, <1>6, <1>7, OpenIsOnly
<1> QED
  BY <1>8 DEF f, n

LEMMA OpenTableIs == OpenTable = OpenOf(sessions) /\ OpenTable' = OpenOf(sessions')
BY DEF OpenTable, OpenOf, TokensOf

\* The operators of the tables, seen from the map.
LEMMA MapTables ==
  /\ \A S : Map!Cardinality(S) = Cardinality(S)
  /\ \A t, k, v : Map!With(t, k, v) = With(t, k, v)
  /\ Map!EmptyTable = EmptyTable
<1>1. ASSUME NEW S PROVE Map!Cardinality(S) = Cardinality(S)
  BY DEF Map!Cardinality, Cardinality
<1>2. \A t, k, v : Map!With(t, k, v) = With(t, k, v)
  BY DEF Map!With, With
<1>3. Map!EmptyTable = EmptyTable
  BY DEF Map!EmptyTable, EmptyTable
<1> QED
  BY <1>1, <1>2, <1>3

\* Every step of the paced table is a step of the map.
LEMMA StepImplementsMap ==
  PacedInv /\ [PacedNext]_vars => [Map!Next]_<<OpenTable, answer, asked>>
<1> SUFFICES ASSUME PacedInv, [PacedNext]_vars
             PROVE  [Map!Next]_<<OpenTable, answer, asked>>
  OBVIOUS
<1>1. TypeOK /\ IsTable(sessions) /\ Unique(sessions)
  BY DEF PacedInv, TypeOK, IsTable
<1>2. OpenTable = OpenOf(sessions) /\ OpenTable' = OpenOf(sessions')
  BY OpenTableIs
<1>3. DOMAIN OpenOf(sessions) = TokensOf(sessions)
  BY DEF OpenOf
<1>4. ASSUME NEW d \in Devices, last < clock, Create(d)
      PROVE  Map!Open \/ Map!TurnAway
  <2>1. CASE Full(sessions)
    <3>1. answer' = "no slot" /\ sessions' = sessions
      BY <1>4, <2>1 DEF Create
    <3>2. Cardinality(DOMAIN OpenTable) = MaxDevices
      BY <1>1, <1>2, <1>3, <2>1, OpenCount
    <3> QED
      BY <1>2, <3>1, <3>2, MapTables DEF Map!TurnAway
  <2>2. CASE ~Full(sessions)
    <3> DEFINE r == [token |-> clock, dev |-> d]
    <3>1. /\ r \in Request /\ asked' = r /\ answer' = "created"
          /\ \E s \in Slots \ Active(sessions) :
               /\ sessions' = [sessions EXCEPT ![s] = r]
               /\ IsTable([sessions EXCEPT ![s] = r])
               /\ Active([sessions EXCEPT ![s] = r]) = Active(sessions) \cup {s}
      BY <1>1, <1>4, <2>2, PacedLogin
    <3>2. Holding(sessions, r.token) = {}
      BY <1>1, <1>4, LaterIsFree DEF generate_token, PacedInv
    <3> HIDE DEF r
    <3>3. PICK s \in Slots \ Active(sessions) :
            /\ sessions' = [sessions EXCEPT ![s] = r]
            /\ IsTable([sessions EXCEPT ![s] = r])
            /\ Active([sessions EXCEPT ![s] = r]) = Active(sessions) \cup {s}
      BY <3>1
    <3>4. /\ r.token \notin TokensOf(sessions)
          /\ OpenOf([sessions EXCEPT ![s] = r]) = With(OpenOf(sessions), r.token, r.dev)
      BY <1>1, <3>1, <3>2, <3>3, LoginOpens
    <3>5. Cardinality(DOMAIN OpenTable) < MaxDevices
      BY <1>1, <1>2, <1>3, <2>2, OpenCount
    <3>6. asked'.token \notin DOMAIN OpenTable
      BY <1>2, <1>3, <3>1, <3>4
    <3>7. OpenTable' = With(OpenTable, asked'.token, asked'.dev)
      BY <1>2, <3>1, <3>3, <3>4
    <3> QED
      BY <3>1, <3>5, <3>6, <3>7, MapTables DEF Map!Open
  <2> QED
    BY <2>1, <2>2
<1>5. ASSUME NEW token \in Tokens, NEW d \in Devices, Validate(token, d)
      PROVE  Map!Check
  <2>1. /\ asked'.token = token /\ asked'.dev = d /\ sessions' = sessions
        /\ answer' = IF Validated(sessions, token, d) THEN "valid" ELSE "not valid"
    BY <1>5 DEF Validate
  <2>2. Validated(sessions, token, d) <=> Map!IsOpen(asked')
    BY <1>1, <1>2, <1>3, <2>1, ValidatedIsOpen DEF Map!IsOpen
  <2> QED
    BY <1>2, <2>1, <2>2 DEF Map!Check
<1>6. ASSUME NEW token \in Tokens, NEW d \in Devices, End(token, d)
      PROVE  Map!Close
  <2>1. asked'.token = token /\ asked'.dev = d /\ answer' = "ended"
    BY <1>6 DEF End
  <2>2. Map!IsOpen(asked')
    BY <1>1, <1>2, <1>3, <1>6, <2>1, ValidatedIsOpen DEF Map!IsOpen, End
  <2>3. PICK s \in Holding(sessions, token) :
          /\ sessions' = [sessions EXCEPT ![s] = NoSession]
          /\ IsTable([sessions EXCEPT ![s] = NoSession])
          /\ Active([sessions EXCEPT ![s] = NoSession]) = Active(sessions) \ {s}
    BY <1>1, <1>6, Logout
  <2>4. s \in Active(sessions) /\ sessions[s].token = token
    BY DEF Holding
  <2>5. OpenOf([sessions EXCEPT ![s] = NoSession])
          = Map!Without(OpenOf(sessions), sessions[s].token)
    BY <1>1, <2>3, <2>4, LogoutCloses
  <2>6. OpenTable' = Map!Without(OpenTable, asked'.token)
    BY <1>2, <2>1, <2>3, <2>4, <2>5
  <2> QED
    BY <2>1, <2>2, <2>6 DEF Map!Close
<1>7. ASSUME Tick PROVE Map!Idle
  BY <1>2, <1>7 DEF Tick, Map!Idle
<1>8. ASSUME UNCHANGED vars PROVE UNCHANGED <<OpenTable, answer, asked>>
  BY <1>2, <1>8 DEF vars
<1> QED
  BY <1>4, <1>5, <1>6, <1>7, <1>8 DEF PacedNext, Map!Next

\* When no two logins fall into one second, the slots keep the promise of SessionMap: a
\* token opened is new and is its device's until it is closed, and a login is turned away only
\* when MaxDevices sessions are open (session_auth.c:25, 43, 52).
THEOREM SlotsImplementMap == PacedSpec => KeepsSessionMap
<1>1. Init => PacedInv
  <2> SUFFICES ASSUME Init PROVE PacedInv
    OBVIOUS
  <2>1. Active(sessions) = {} /\ last = -1 /\ clock = 0
    BY DEF Init, no_sessions, Active
  <2> QED
    BY <2>1, InitType DEF PacedInv, Unique, Earlier
<1>2. Init => Map!Init
  <2> SUFFICES ASSUME Init PROVE Map!Init
    OBVIOUS
  <2>1. TokensOf(sessions) = {} /\ answer = "-"
    BY DEF Init, TokensOf, no_sessions, Active
  <2>2. OpenTable = OpenOf(sessions)
    BY OpenTableIs
  <2>3. OpenOf(sessions) = [k \in {} |-> k]
    BY <2>1 DEF OpenOf
  <2> QED
    BY <2>1, <2>2, <2>3, MapTables DEF Map!Init, EmptyTable
<1> QED
  BY <1>1, <1>2, NextPaced, StepImplementsMap, PTL DEF PacedSpec, KeepsSessionMap, Map!Spec
=============================================================================
