-------------------------- MODULE NetworkLoopProofs --------------------------
(***************************************************************************)
(* The poll loop of NetServer with the clients of Network, for any number  *)
(* of clients, slots, list entries and requests and any delay: types, that *)
(* a connection is in one place, and that no read blocks the loop.         *)
(***************************************************************************)
EXTENDS Network, SequenceTheorems, TLAPS

Places ==
  {"start", "ready", "first", "menu", "listed", "chosen", "gone", "killed"} \cup Kinds

ClientTypeOK ==
  /\ pc \in [Clients -> Places]
  /\ calls \in [Clients -> 0 .. MaxCalls]
  /\ took \in [Clients -> Seq(Line)]
  /\ told \in [Clients -> {"-", "ok", "failed"}]

\* A client connects once.
Once ==
  /\ \A k, l \in 1 .. Len(backlog) : backlog[k] = backlog[l] => k = l
  /\ \A k \in 1 .. Len(backlog) : backlog[k] \notin dropped /\ pc[backlog[k]] # "start"
  /\ \A i \in Slots : clients[i] \in Clients => pc[clients[i]] # "start"
  /\ \A c \in dropped : pc[c] # "start"

\* What poll reported is still so when the loop comes to it; only the slot being
\* served may have been read empty.
Reported ==
  /\ 0 \in revents => backlog # <<>> /\ out = <<>>
  /\ out # <<>> => revents # {}
  /\ \A i \in revents \ {0} :
       /\ clients[i] \in Clients
       /\ out = <<>> \/ (\E j \in revents : j < i) => Readable(clients[i])

LInv == NetTypeOK /\ ClientTypeOK /\ Once /\ Reported

(***************************************************************************)
(* Lemmas about the operators.                                             *)
(***************************************************************************)
LEMMA ReadyType == READY \in Line
BY NetServerAssumption DEF READY, Line, Words

\* An answer is one line or more (net_server.c:164).
LEMMA AnswerType ==
  ASSUME NEW r \in Request, NEW a \in Answers(r)
  PROVE  a \in Seq(Line) /\ a # <<>>
<1>1. r.call \in 0 .. MaxCalls /\ r.kind \in Kinds
  BY NetServerAssumption DEF Request
<1>2. ASSUME NEW w \in Words, a = <<[call |-> r.call, word |-> w, last |-> TRUE]>>
      PROVE  a \in Seq(Line) /\ a # <<>>
  <2>1. [call |-> r.call, word |-> w, last |-> TRUE] \in Line
    BY <1>1 DEF Line
  <2> QED
    BY <1>2, <2>1
<1>3. CASE r.kind = "CALL"
  BY <1>2, <1>3 DEF Answers, Words
<1>4. CASE r.kind # "CALL"
  <2>1. NoItem[r.kind] \in Words /\ Item[r.kind] \in Words
    BY <1>1, <1>4 DEF NoItem, Item, Words, Kinds
  <2>2. CASE a = <<[call |-> r.call, word |-> NoItem[r.kind], last |-> TRUE]>>
    BY <1>2, <2>1, <2>2
  <2>3. ASSUME NEW n \in 1 .. MaxItems,
               a = [i \in 1 .. n |-> [call |-> r.call, word |-> Item[r.kind], last |-> i = n]]
        PROVE  a \in Seq(Line) /\ a # <<>>
    <3>1. n \in Nat /\ n >= 1
      BY NetServerAssumption
    <3>2. \A i \in 1 .. n : [call |-> r.call, word |-> Item[r.kind], last |-> i = n] \in Line
      BY <1>1, <2>1 DEF Line
    <3>3. a \in Seq(Line) /\ Len(a) = n
      BY <2>3, <3>1, <3>2
    <3> QED
      BY <3>1, <3>3
  <2> QED
    BY <1>4, <2>2, <2>3 DEF Answers
<1> QED
  BY <1>3, <1>4

\* One read takes one request or two, and the lines it owes for them are some.
LEMMA BatchType ==
  ASSUME NEW s \in Seq(Request), NEW n \in 1 .. 2, n <= Len(s),
         NEW a \in AllAnswers(SubSeq(s, 1, n))
  PROVE  /\ a \in Seq(Line) /\ a # <<>>
         /\ SubSeq(s, n + 1, Len(s)) \in Seq(Request)
<1>1. /\ SubSeq(s, 1, n) \in Seq(Request) /\ Len(SubSeq(s, 1, n)) = n
      /\ SubSeq(s, n + 1, Len(s)) \in Seq(Request)
  <2>1. \A i \in 1 .. Len(s) : s[i] \in Request
    BY ElementOfSeq
  <2> QED
    BY <2>1, LenProperties, SubSeqProperties
<1> DEFINE b == SubSeq(s, 1, n)
<1>2. b \in Seq(Request) /\ Len(b) = n
  BY <1>1
<1> HIDE DEF b
<1>3. b[1] \in Request /\ (n = 2 => b[2] \in Request)
  BY <1>2, ElementOfSeq
<1>4. CASE n = 1
  <2>1. a \in Answers(b[1])
    BY <1>2, <1>4 DEF AllAnswers, b
  <2> QED
    BY <1>1, <1>3, <2>1, AnswerType
<1>5. CASE n = 2
  <2>1. PICK u \in Answers(b[1]), v \in Answers(b[2]) : a = u \o v
    BY <1>2, <1>5 DEF AllAnswers, b
  <2>2. u \in Seq(Line) /\ u # <<>> /\ v \in Seq(Line) /\ v # <<>>
    BY <1>3, <1>5, AnswerType
  <2>3. a \in Seq(Line) /\ a # <<>>
    BY <2>1, <2>2, ConcatProperties, ConcatSimplifications
  <2> QED
    BY <1>1, <2>3
<1> QED
  BY <1>4, <1>5

\* A line goes to its client, unless the client is gone: then it is lost, or the
\* process (net_server.c:112).
LEMMA LineWritten ==
  ASSUME lines \in [Clients -> Seq(Line)], NEW c \in Clients, NEW line \in Line,
         send_line(c, line)
  PROVE  /\ lines' \in [Clients -> Seq(Line)]
         /\ \A d \in Clients : d # c => lines'[d] = lines[d]
         /\ hung_up[c] => lines' = lines /\ process' \in {"running", "SIGPIPE"}
         /\ ~hung_up[c] => lines'[c] = Append(lines[c], line) /\ process' = process
<1>1. CASE hung_up[c]
  BY <1>1 DEF send_line
<1>2. CASE ~hung_up[c]
  <2>1. Append(lines[c], line) \in Seq(Line)
    OBVIOUS
  <2>2. lines' = [lines EXCEPT ![c] = Append(lines[c], line)] /\ process' = process
    BY <1>2 DEF send_line
  <2> QED
    BY <1>2, <2>1, <2>2
<1> QED
  BY <1>1, <1>2

\* The loop is at one slot.
LEMMA AtOne ==
  ASSUME NetTypeOK, NEW i \in Slots, At(i)
  PROVE  /\ i \in revents \ {0} /\ 0 \notin revents /\ Running
         /\ \A j \in revents : i <= j
         /\ \A j \in Slots : At(j) => j = i
<1>1. i \in Nat /\ i # 0 /\ Slots \subseteq Nat
  BY DEF Slots
<1> QED
  BY <1>1 DEF At

LEMMA ReportedSlots ==
  ASSUME NetTypeOK
  PROVE  /\ \A j \in revents : j \in Int
         /\ \A j \in revents \ {0} : j \in Slots
         /\ \A j \in Slots : j \in Int /\ j # 0
<1>1. revents \subseteq 0 .. MaxDevices /\ MaxDevices \in Nat
  BY ConfigAssumption DEF NetTypeOK
<1> QED
  BY <1>1 DEF Slots

(***************************************************************************)
(* The steps of the server.                                                *)
(***************************************************************************)
LEMMA PollKeeps ==
  ASSUME LInv, Poll, UNCHANGED clientVars
  PROVE  LInv'
<1>1. revents' = Ready /\ out = <<>>
  BY DEF Poll
<1>2. UNCHANGED <<process, backlog, clients, dropped, out, requests, lines, hung_up>>
  BY DEF Poll
<1>3. revents' \subseteq 0 .. MaxDevices
  BY <1>1, ConfigAssumption DEF Ready, Slots
<1>4. NetTypeOK' /\ ClientTypeOK' /\ Once'
  BY <1>2, <1>3 DEF LInv, NetTypeOK, ClientTypeOK, Once, clientVars
<1>5. Reported'
  <2>1. 0 \in revents' => backlog # <<>>
    BY <1>1 DEF Ready, Slots
  <2>2. \A i \in revents' \ {0} : clients[i] \in Clients /\ Readable(clients[i])
    BY <1>1 DEF Ready
  <2> QED
    BY <1>1, <1>2, <2>1, <2>2 DEF Reported, Readable
<1> QED
  BY <1>4, <1>5 DEF LInv

\* The connection accepted was in no other place (net_server.c:81).
LEMMA AcceptKeeps ==
  ASSUME LInv, Accept, UNCHANGED clientVars
  PROVE  LInv'
<1> DEFINE c == Head(backlog)
<1>1. /\ backlog \in Seq(Clients) /\ backlog # <<>> /\ out = <<>> /\ 0 \in revents
      /\ clients \in [Slots -> Clients \cup {NoClient, Other}]
  BY DEF LInv, NetTypeOK, Reported, Accept
<1>2. /\ c \in Clients /\ backlog' \in Seq(Clients) /\ Len(backlog) \in Nat
      /\ Len(backlog) >= 1 /\ c = backlog[1] /\ Len(backlog') = Len(backlog) - 1
      /\ \A k \in 1 .. Len(backlog') : backlog'[k] = backlog[k + 1]
  BY <1>1, HeadTailProperties, EmptySeq, LenProperties DEF Accept
<1>3. /\ revents' = revents \ {0} /\ UNCHANGED <<out, requests, hung_up>>
      /\ UNCHANGED <<pc, calls, took, told>>
  BY DEF Accept, clientVars
<1>4. \A k \in 1 .. Len(backlog') : k + 1 \in 1 .. Len(backlog) /\ k + 1 # 1
  BY <1>2
<1>5. /\ c \notin dropped /\ pc[c] # "start"
      /\ \A i \in Slots : clients[i] # c
      /\ \A k \in 1 .. Len(backlog') : backlog'[k] # c
  <2>1. 1 \in 1 .. Len(backlog)
    BY <1>2
  <2> HIDE DEF c
  <2>2. c \notin dropped /\ pc[c] # "start" /\ \A i \in Slots : clients[i] # c
    BY <1>2, <2>1 DEF LInv, NetTypeOK, Once
  <2>3. \A k \in 1 .. Len(backlog') : backlog'[k] # c
    BY <1>2, <1>4, <2>1 DEF LInv, Once
  <2> QED
    BY <2>2, <2>3
<1>6. \/ /\ \E i \in Slots : TakenSlot(i)
         /\ clients' = [i \in Slots |-> IF TakenSlot(i) THEN c ELSE clients[i]]
         /\ send_line(c, READY)
         /\ dropped' = dropped
      \/ /\ dropped' = dropped \cup {c}
         /\ UNCHANGED <<clients, lines, process>>
  BY DEF Accept
<1> HIDE DEF c
<1>7. /\ \A k, l \in 1 .. Len(backlog') : backlog'[k] = backlog'[l] => k = l
      /\ \A k \in 1 .. Len(backlog') : /\ backlog'[k] \notin dropped
                                       /\ pc[backlog'[k]] # "start"
                                       /\ \A i \in Slots : backlog'[k] # clients[i]
  <2>1. ASSUME NEW k \in 1 .. Len(backlog'), NEW l \in 1 .. Len(backlog'),
               backlog'[k] = backlog'[l]
        PROVE  k = l
    <3>1. k + 1 = l + 1
      BY <1>2, <1>4, <2>1 DEF LInv, Once
    <3> QED
      BY <1>2, <3>1
  <2>2. ASSUME NEW k \in 1 .. Len(backlog')
        PROVE  /\ backlog'[k] \notin dropped
               /\ pc[backlog'[k]] # "start"
               /\ \A i \in Slots : backlog'[k] # clients[i]
    <3>1. PICK m \in 1 .. Len(backlog) : backlog'[k] = backlog[m]
      BY <1>2, <1>4
    <3>2. backlog[m] \notin dropped /\ pc[backlog[m]] # "start"
      BY DEF LInv, Once
    <3>3. \A i \in Slots : backlog[m] # clients[i]
      BY DEF LInv, NetTypeOK
    <3> QED
      BY <3>1, <3>2, <3>3
  <2> QED
    BY <2>1, <2>2
<1>8. CASE dropped' = dropped \cup {c} /\ UNCHANGED <<clients, lines, process>>
  <2>1. NetTypeOK'
    BY <1>2, <1>3, <1>5, <1>7, <1>8 DEF LInv, NetTypeOK
  <2>2. ClientTypeOK' /\ Once'
    BY <1>2, <1>3, <1>5, <1>7, <1>8 DEF LInv, ClientTypeOK, Once
  <2>3. Reported'
    BY <1>1, <1>3, <1>8 DEF LInv, Reported, Readable
  <2> QED
    BY <2>1, <2>2, <2>3 DEF LInv
<1>9. CASE /\ \E i \in Slots : TakenSlot(i)
           /\ clients' = [i \in Slots |-> IF TakenSlot(i) THEN c ELSE clients[i]]
           /\ send_line(c, READY)
           /\ dropped' = dropped
  <2>1. PICK s \in Slots : TakenSlot(s)
    BY <1>9
  <2>2. \A i \in Slots : TakenSlot(i) => i = s
    BY <2>1 DEF TakenSlot, Slots
  <2>3. \A i \in Slots : clients'[i] = IF i = s THEN c ELSE clients[i]
    BY <1>9, <2>1, <2>2
  <2>4. clients' \in [Slots -> Clients \cup {NoClient, Other}]
    BY <1>1, <1>2, <1>9
  <2>5. lines' \in [Clients -> Seq(Line)] /\ process' \in {"running", "poll failed", "SIGPIPE"}
    BY <1>2, <1>9, LineWritten, ReadyType DEF LInv, NetTypeOK
  <2>6. NetTypeOK'
    <3>1. \A i, j \in Slots : clients'[i] = clients'[j] /\ clients'[i] \in Clients => i = j
      BY <1>5, <2>3 DEF LInv, NetTypeOK
    <3>2. \A k \in 1 .. Len(backlog'), i \in Slots : backlog'[k] # clients'[i]
      BY <1>5, <1>7, <2>3
    <3>3. \A i \in Slots : clients'[i] \notin dropped'
      BY <1>5, <1>9, <2>3 DEF LInv, NetTypeOK
    <3> QED
      BY <1>2, <1>3, <1>9, <2>4, <2>5, <3>1, <3>2, <3>3 DEF LInv, NetTypeOK
  <2>7. ClientTypeOK' /\ Once'
    BY <1>3, <1>5, <1>7, <1>9, <2>3 DEF LInv, ClientTypeOK, Once
  <2>8. Reported'
    <3>1. NoClient \notin Clients
      BY NetServerAssumption
    <3>2. s \notin revents \ {0}
      BY <2>1, <3>1 DEF LInv, Reported, TakenSlot
    <3>3. \A i \in revents \ {0} : i \in Slots
      BY ReportedSlots DEF LInv
    <3> QED
      BY <1>1, <1>3, <2>3, <3>2, <3>3 DEF LInv, Reported, Readable
  <2> QED
    BY <2>6, <2>7, <2>8 DEF LInv
<1> QED
  BY <1>6, <1>8, <1>9

\* The slot read from owes lines from then on; the others are as poll left them.
LEMMA ReadKeeps ==
  ASSUME LInv, NEW i \in Slots, Read(i), UNCHANGED clientVars
  PROVE  LInv'
<1> DEFINE c == clients[i]
<1>1. At(i) /\ out = <<>>
  BY DEF Read
<1>2. i \in revents \ {0} /\ 0 \notin revents /\ \A j \in revents : i <= j
  BY <1>1, AtOne DEF LInv
<1>3. c \in Clients /\ requests[c] \in Seq(Request)
  BY <1>2 DEF LInv, Reported, NetTypeOK
<1>4. PICK n \in 1 .. 2 :
        /\ n <= Len(requests[c])
        /\ out' \in AllAnswers(SubSeq(requests[c], 1, n))
        /\ requests' = [requests EXCEPT ![c] = SubSeq(@, n + 1, Len(@))]
  BY DEF Read
<1>5. /\ revents' = IF out' = <<>> THEN revents \ {i} ELSE revents
      /\ UNCHANGED <<process, backlog, clients, dropped, lines, hung_up>>
  BY DEF Read
<1> HIDE DEF c
<1>6. /\ out' \in Seq(Line) /\ out' # <<>>
      /\ SubSeq(requests[c], n + 1, Len(requests[c])) \in Seq(Request)
  BY <1>3, <1>4, BatchType
<1>7. /\ revents' = revents /\ requests' \in [Clients -> Seq(Request)]
      /\ \A d \in Clients : d # c => requests'[d] = requests[d]
  BY <1>3, <1>4, <1>5, <1>6 DEF LInv, NetTypeOK
<1>8. NetTypeOK' /\ ClientTypeOK' /\ Once'
  BY ZenonT(40), <1>5, <1>6, <1>7 DEF LInv, NetTypeOK, ClientTypeOK, Once, clientVars
<1>9. Reported'
  <2>1. ASSUME NEW j \in revents \ {0}
        PROVE  /\ clients[j] \in Clients
               /\ (\E k \in revents : k < j) => Readable(clients[j])'
    <3>1. clients[j] \in Clients /\ Readable(clients[j])
      BY <1>1 DEF LInv, Reported
    <3>2. j \in Slots
      BY ReportedSlots DEF LInv
    <3>3. CASE j = i
      <4>1. \A k \in revents : ~ (k < j)
        BY <1>2, <3>2, <3>3, ReportedSlots DEF LInv
      <4> QED
        BY <3>1, <4>1
    <3>4. CASE j # i
      <4>1. clients[j] # c
        BY <3>1, <3>2, <3>4 DEF LInv, NetTypeOK, c
      <4> QED
        BY <1>5, <1>7, <3>1, <4>1 DEF Readable
    <3> QED
      BY <3>3, <3>4
  <2> QED
    BY <1>2, <1>5, <1>6, <1>7, <2>1 DEF Reported
<1> QED
  BY <1>8, <1>9 DEF LInv

LEMMA WriteKeeps ==
  ASSUME LInv, NEW i \in Slots, Write(i), UNCHANGED clientVars
  PROVE  LInv'
<1> DEFINE c == clients[i]
<1>1. At(i) /\ out # <<>> /\ out \in Seq(Line) /\ Len(out) \in Nat
  BY LenProperties DEF Write, LInv, NetTypeOK
<1>2. i \in revents \ {0} /\ 0 \notin revents /\ \A j \in revents : i <= j
  BY <1>1, AtOne DEF LInv
<1>3. c \in Clients
  BY <1>2 DEF LInv, Reported
<1>4. Head(out) \in Line /\ out' \in Seq(Line) /\ Len(out') = Len(out) - 1
  BY <1>1, HeadTailProperties DEF Write
<1>5. /\ revents' = IF Len(out) = 1 THEN revents \ {i} ELSE revents
      /\ UNCHANGED <<backlog, clients, dropped, requests, hung_up>>
      /\ send_line(c, Head(out))
  BY DEF Write
<1>6. lines' \in [Clients -> Seq(Line)] /\ process' \in {"running", "poll failed", "SIGPIPE"}
  BY <1>3, <1>4, <1>5, LineWritten DEF LInv, NetTypeOK
<1>7. NetTypeOK' /\ ClientTypeOK' /\ Once'
  BY <1>4, <1>5, <1>6 DEF LInv, NetTypeOK, ClientTypeOK, Once, clientVars
<1>8. Reported'
  <2>1. ASSUME NEW j \in revents \ {0}
        PROVE  clients[j] \in Clients /\ (i # j => Readable(clients[j]))
    <3>1. i # j => i < j
      BY <1>2, ReportedSlots DEF LInv
    <3> QED
      BY <1>2, <3>1 DEF LInv, Reported
  <2>2. CASE Len(out) = 1
    <3>1. out' = <<>> /\ revents' = revents \ {i}
      BY <1>4, <1>5, <2>2, EmptySeq
    <3> QED
      BY <1>2, <1>5, <2>1, <3>1 DEF Reported, Readable
  <2>3. CASE Len(out) # 1
    <3>1. revents' = revents
      BY <1>5, <2>3
    <3>2. \A j \in revents : ~ (\E k \in revents : k < j) => j = i
      BY <1>2, ReportedSlots DEF LInv
    <3>3. \A k \in revents : ~ (k < i)
      BY <1>2, ReportedSlots DEF LInv
    <3>4. out' # <<>>
      BY <1>1, <1>4, <2>3, EmptySeq
    <3>5. \A j \in revents' \ {0} :
            /\ clients'[j] \in Clients
            /\ (\E k \in revents' : k < j) => Readable(clients[j])'
      BY <1>5, <2>1, <3>1, <3>3 DEF Readable
    <3> QED
      BY <1>2, <1>5, <3>1, <3>4, <3>5 DEF Reported, Readable
  <2> QED
    BY <2>2, <2>3
<1> QED
  BY <1>7, <1>8 DEF LInv

LEMMA CloseKeeps ==
  ASSUME LInv, NEW i \in Slots, Close(i), UNCHANGED clientVars
  PROVE  LInv'
<1>1. At(i) /\ out = <<>>
  BY DEF Close
<1>2. i \in revents \ {0} /\ 0 \notin revents
  BY <1>1, AtOne DEF LInv
<1>3. /\ clients' = [clients EXCEPT ![i] = NoClient] /\ revents' = revents \ {i}
      /\ UNCHANGED <<process, backlog, dropped, out, requests, lines, hung_up>>
  BY DEF Close, Freed
<1>4. /\ clients' \in [Slots -> Clients \cup {NoClient, Other}]
      /\ \A j \in Slots : clients'[j] = IF j = i THEN NoClient ELSE clients[j]
  BY <1>3 DEF LInv, NetTypeOK
<1>5. NoClient \notin Clients
  BY NetServerAssumption
<1>6. NetTypeOK'
  <2>1. backlog \in Seq(Clients) /\ \A k \in 1 .. Len(backlog) : backlog[k] \in Clients
    BY ElementOfSeq DEF LInv, NetTypeOK
  <2>2. \A k \in 1 .. Len(backlog'), j \in Slots : backlog'[k] # clients'[j]
    BY <1>3, <1>4, <1>5, <2>1 DEF LInv, NetTypeOK
  <2>3. \A j \in Slots : clients'[j] \notin dropped'
    BY <1>3, <1>4, <1>5 DEF LInv, NetTypeOK
  <2>4. \A j, k \in Slots : clients'[j] = clients'[k] /\ clients'[j] \in Clients => j = k
    BY <1>4, <1>5 DEF LInv, NetTypeOK
  <2>5. revents' \subseteq 0 .. MaxDevices
    BY <1>3 DEF LInv, NetTypeOK
  <2> QED
    BY <1>3, <1>4, <2>2, <2>3, <2>4, <2>5 DEF LInv, NetTypeOK
<1>7. ClientTypeOK' /\ Once'
  BY <1>3, <1>4, <1>5 DEF LInv, ClientTypeOK, Once, clientVars
<1>8. Reported'
  <2>1. \A j \in revents' \ {0} : j \in Slots /\ j # i
    BY <1>3, ReportedSlots DEF LInv
  <2> QED
    BY <1>1, <1>2, <1>3, <1>4, <2>1 DEF LInv, Reported, Readable
<1> QED
  BY <1>6, <1>7, <1>8 DEF LInv

(***************************************************************************)
(* The steps of the clients.                                               *)
(***************************************************************************)

\* What a client does to the connections it has leaves the loop as it is.
LEMMA ClientKeepsLoop ==
  ASSUME LInv, NEW c \in Clients, pc[c] # "start", ClientTypeOK',
         \A d \in Clients : d # c => pc'[d] = pc[d],
         pc'[c] # "start",
         UNCHANGED <<process, backlog, clients, dropped, revents, out>>,
         requests' \in [Clients -> Seq(Request)], lines' \in [Clients -> Seq(Line)],
         hung_up' \in [Clients -> BOOLEAN],
         \A d \in Clients : Readable(d) => Readable(d)'
  PROVE  LInv'
<1>1. NetTypeOK'
  BY DEF LInv, NetTypeOK
<1>2. Reported'
  BY DEF LInv, Reported
<1>3. \A d \in Clients : pc[d] # "start" => pc'[d] # "start"
  OBVIOUS
<1>4. Once'
  <2>1. /\ \A k \in 1 .. Len(backlog) : backlog[k] \in Clients
        /\ \A d \in dropped : d \in Clients
    BY ElementOfSeq DEF LInv, NetTypeOK
  <2> QED
    BY <1>3, <2>1 DEF LInv, Once
<1> QED
  BY <1>1, <1>2, <1>4 DEF LInv

LEMMA ConnectKeeps ==
  ASSUME LInv, NEW c \in Clients, Connect(c)
  PROVE  LInv'
<1>1. /\ pc[c] = "start" /\ UNCHANGED <<calls, took, told>>
      /\ UNCHANGED <<process, clients, dropped, revents, out, requests, lines, hung_up>>
  BY DEF Connect
<1>2. /\ pc' \in [Clients -> Places] /\ pc'[c] \in {"ready", "gone"}
      /\ \A d \in Clients : d # c => pc'[d] = pc[d]
  BY DEF Connect, Goto, LInv, ClientTypeOK, Places
<1>3. ClientTypeOK' /\ Reported'
  BY <1>1, <1>2 DEF LInv, ClientTypeOK, Reported, Readable, Connect
<1>4. /\ backlog \in Seq(Clients) /\ Len(backlog) \in Nat
      /\ \A k \in 1 .. Len(backlog) : backlog[k] \in Clients /\ backlog[k] # c
      /\ \A i \in Slots : clients[i] # c
      /\ c \notin dropped
      /\ dropped \subseteq Clients
  <2>1. /\ backlog \in Seq(Clients) /\ dropped \subseteq Clients
        /\ clients \in [Slots -> Clients \cup {NoClient, Other}]
    BY DEF LInv, NetTypeOK
  <2>2. Len(backlog) \in Nat /\ \A k \in 1 .. Len(backlog) : backlog[k] \in Clients
    BY <2>1, ElementOfSeq, LenProperties
  <2>3. /\ \A k \in 1 .. Len(backlog) : pc[backlog[k]] # "start"
        /\ \A i \in Slots : clients[i] \in Clients => pc[clients[i]] # "start"
        /\ \A d \in dropped : pc[d] # "start"
    BY DEF LInv, Once
  <2> QED
    BY <1>1, <2>1, <2>2, <2>3
<1>5. CASE UNCHANGED backlog
  <2>1. NetTypeOK'
    BY <1>1, <1>5 DEF LInv, NetTypeOK
  <2>2. Once'
    BY <1>1, <1>2, <1>4, <1>5 DEF LInv, Once
  <2> QED
    BY <1>3, <1>5, <2>1, <2>2 DEF LInv, Reported
<1>6. CASE backlog' = Append(backlog, c)
  <2>1. /\ backlog' \in Seq(Clients) /\ Len(backlog') = Len(backlog) + 1 /\ backlog' # <<>>
        /\ \A k \in 1 .. Len(backlog) : backlog'[k] = backlog[k]
        /\ backlog'[Len(backlog) + 1] = c
    BY <1>4, <1>6, AppendProperties
  <2>2. \A k \in 1 .. Len(backlog') : k \in 1 .. Len(backlog) \/ k = Len(backlog) + 1
    BY <1>4, <2>1
  <2>3. NetTypeOK'
    <3>1. ASSUME NEW k \in 1 .. Len(backlog'), NEW i \in Slots
          PROVE  backlog'[k] # clients'[i]
      <4>1. CASE k \in 1 .. Len(backlog)
        BY ZenonT(40), <1>1, <2>1, <4>1 DEF LInv, NetTypeOK
      <4>2. CASE k = Len(backlog) + 1
        BY <1>1, <1>4, <2>1, <4>2
      <4> QED
        BY <2>2, <4>1, <4>2
    <3> QED
      BY <1>1, <2>1, <3>1 DEF LInv, NetTypeOK
  <2>4. Once'
    <3>1. ASSUME NEW k \in 1 .. Len(backlog'), NEW l \in 1 .. Len(backlog'),
                 backlog'[k] = backlog'[l]
          PROVE  k = l
      <4>1. CASE k \in 1 .. Len(backlog) /\ l \in 1 .. Len(backlog)
        BY <2>1, <3>1, <4>1 DEF LInv, Once
      <4> QED
        BY <1>4, <2>1, <2>2, <3>1, <4>1
    <3>2. ASSUME NEW k \in 1 .. Len(backlog')
          PROVE  backlog'[k] \notin dropped' /\ pc'[backlog'[k]] # "start"
      <4>1. CASE k \in 1 .. Len(backlog)
        BY <1>1, <1>2, <1>4, <2>1, <4>1 DEF LInv, Once
      <4>2. CASE k = Len(backlog) + 1
        BY <1>1, <1>2, <1>4, <2>1, <4>2
      <4> QED
        BY <2>2, <4>1, <4>2
    <3> QED
      BY <1>1, <1>2, <1>4, <3>1, <3>2 DEF LInv, Once
  <2> QED
    BY <1>3, <2>3, <2>4 DEF LInv
<1> QED
  BY <1>5, <1>6 DEF Connect

LEMMA SendKeeps ==
  ASSUME LInv, NEW c \in Clients, NEW kind \in Kinds, Send(c, kind)
  PROVE  LInv'
<1> DEFINE r == [call |-> calls[c] + 1, kind |-> kind]
<1>1. pc[c] # "start"
  BY DEF Send, MayFollow, Kinds
<1>2. r \in Request /\ calls[c] + 1 \in 0 .. MaxCalls
  BY NetServerAssumption DEF Send, LInv, ClientTypeOK, Request
<1>3. /\ UNCHANGED <<process, backlog, clients, dropped, revents, out, lines, hung_up>>
      /\ requests' = [requests EXCEPT ![c] = Append(@, r)]
      /\ calls' = [calls EXCEPT ![c] = @ + 1]
      /\ took' = [took EXCEPT ![c] = <<>>]
      /\ told' = [told EXCEPT ![c] = "-"]
      /\ pc' = [pc EXCEPT ![c] = kind]
  BY DEF Send, Goto
<1> HIDE DEF r
<1>4. requests' \in [Clients -> Seq(Request)] /\ requests'[c] # <<>>
  <2>1. requests[c] \in Seq(Request)
    BY DEF LInv, NetTypeOK
  <2>2. Append(requests[c], r) \in Seq(Request) /\ Append(requests[c], r) # <<>>
    BY <1>2, <2>1, AppendProperties
  <2> QED
    BY <1>3, <2>2 DEF LInv, NetTypeOK
<1>5. ClientTypeOK'
  <2>1. <<>> \in Seq(Line)
    BY EmptySeq
  <2> QED
    BY <1>2, <1>3, <2>1 DEF LInv, ClientTypeOK, Places
<1>6. /\ \A d \in Clients : d # c => pc'[d] = pc[d] /\ requests'[d] = requests[d]
      /\ pc'[c] # "start"
  BY <1>3 DEF LInv, ClientTypeOK, NetTypeOK, Kinds
<1>7. \A d \in Clients : Readable(d) => Readable(d)'
  BY <1>3, <1>4, <1>6 DEF Readable
<1>8. lines' \in [Clients -> Seq(Line)] /\ hung_up' \in [Clients -> BOOLEAN]
  BY <1>3 DEF LInv, NetTypeOK
<1> QED
  BY <1>1, <1>3, <1>4, <1>5, <1>6, <1>7, <1>8, ClientKeepsLoop

LEMMA ReceiveKeeps ==
  ASSUME LInv, NEW c \in Clients, Receive(c)
  PROVE  LInv'
<1>1. lines[c] \in Seq(Line) /\ lines[c] # <<>> /\ took[c] \in Seq(Line)
  BY DEF Receive, LInv, NetTypeOK, ClientTypeOK
<1>2. Head(lines[c]) \in Line /\ Tail(lines[c]) \in Seq(Line)
  BY <1>1, HeadTailProperties
<1>3. /\ UNCHANGED <<process, backlog, clients, dropped, revents, out, requests, hung_up, calls>>
      /\ lines' = [lines EXCEPT ![c] = Tail(@)]
      /\ pc[c] \in {"ready"} \cup Kinds
  BY DEF Receive, Waiting
<1>4. lines' \in [Clients -> Seq(Line)] /\ requests' \in [Clients -> Seq(Request)]
      /\ hung_up' \in [Clients -> BOOLEAN]
  BY <1>2, <1>3 DEF LInv, NetTypeOK
<1>5. /\ \/ pc' = pc
         \/ \E place \in {"first", "menu", "listed", "chosen"} :
              pc' = [pc EXCEPT ![c] = place]
      /\ took' = took \/ took' = [took EXCEPT ![c] = Append(@, Head(lines[c]))]
      /\ told' = told \/ \E verdict \in {"ok", "failed"} : told' = [told EXCEPT ![c] = verdict]
  BY DEF Receive, Returns, Goto
<1>6. ClientTypeOK'
  <2>1. Append(took[c], Head(lines[c])) \in Seq(Line)
    BY <1>1, <1>2, AppendProperties
  <2>2. pc' \in [Clients -> Places]
    BY <1>5 DEF LInv, ClientTypeOK, Places
  <2>3. took' \in [Clients -> Seq(Line)]
    BY <1>5, <2>1 DEF LInv, ClientTypeOK
  <2>4. told' \in [Clients -> {"-", "ok", "failed"}]
    BY <1>5 DEF LInv, ClientTypeOK
  <2> QED
    BY <1>3, <2>2, <2>3, <2>4 DEF LInv, ClientTypeOK
<1>7. /\ pc[c] # "start" /\ pc'[c] # "start"
      /\ \A d \in Clients : d # c => pc'[d] = pc[d]
      /\ \A d \in Clients : Readable(d) => Readable(d)'
  BY <1>3, <1>5 DEF LInv, ClientTypeOK, Kinds, Readable
<1> QED
  BY <1>3, <1>4, <1>6, <1>7, ClientKeepsLoop

\* A wait that ends without a line, with or without the server.
LEMMA WaitEndKeeps ==
  ASSUME LInv, NEW c \in Clients, Timeout(c) \/ Disconnected(c)
  PROVE  LInv'
<1>1. UNCHANGED <<process, backlog, clients, dropped, revents, out, requests, lines, hung_up>>
  BY DEF Timeout, Disconnected, serverVars
<1>2. /\ pc[c] \in {"ready"} \cup Kinds
      /\ \E place \in {"first", "menu", "listed", "chosen"} :
           pc' = [pc EXCEPT ![c] = place]
      /\ told' = told \/ \E verdict \in {"ok", "failed"} : told' = [told EXCEPT ![c] = verdict]
      /\ calls' = calls /\ took' = took
  BY DEF Timeout, Disconnected, Returns, Goto, Waiting, Kinds
<1>3. ClientTypeOK'
  <2>1. pc' \in [Clients -> Places]
    BY <1>2 DEF LInv, ClientTypeOK, Places
  <2>2. told' \in [Clients -> {"-", "ok", "failed"}]
    BY <1>2 DEF LInv, ClientTypeOK
  <2> QED
    BY <1>2, <2>1, <2>2 DEF LInv, ClientTypeOK
<1>4. /\ pc[c] # "start" /\ pc'[c] # "start"
      /\ \A d \in Clients : d # c => pc'[d] = pc[d]
      /\ \A d \in Clients : Readable(d) => Readable(d)'
  BY <1>1, <1>2 DEF LInv, ClientTypeOK, Kinds, Readable
<1>5. lines' \in [Clients -> Seq(Line)] /\ requests' \in [Clients -> Seq(Request)]
      /\ hung_up' \in [Clients -> BOOLEAN]
  BY <1>1 DEF LInv, NetTypeOK
<1> QED
  BY <1>1, <1>3, <1>4, <1>5, ClientKeepsLoop

\* A client that leaves, or finds that it cannot send.
LEMMA LeaveKeeps ==
  ASSUME LInv, NEW c \in Clients, SendFails(c) \/ Quit(c) \/ Kill(c)
  PROVE  LInv'
<1>1. /\ UNCHANGED <<process, backlog, clients, dropped, revents, out, requests, calls>>
      /\ pc[c] # "start"
      /\ \E place \in {"menu", "gone", "killed"} : pc' = [pc EXCEPT ![c] = place]
      /\ hung_up' = hung_up \/ hung_up' = [hung_up EXCEPT ![c] = TRUE]
      /\ lines' = lines \/ lines' = [lines EXCEPT ![c] = <<>>]
      /\ took' = took \/ took' = [took EXCEPT ![c] = <<>>]
      /\ \E verdict \in {"-", "failed"} : told' = [told EXCEPT ![c] = verdict]
  BY DEF SendFails, Quit, Kill, Leaves, Goto, Kinds
<1>2. <<>> \in Seq(Line)
  BY EmptySeq
<1>3. ClientTypeOK'
  <2>1. pc' \in [Clients -> Places]
    BY <1>1 DEF LInv, ClientTypeOK, Places
  <2>2. told' \in [Clients -> {"-", "ok", "failed"}]
    BY <1>1 DEF LInv, ClientTypeOK
  <2>3. took' \in [Clients -> Seq(Line)]
    BY <1>1, <1>2 DEF LInv, ClientTypeOK
  <2> QED
    BY <1>1, <2>1, <2>2, <2>3 DEF LInv, ClientTypeOK
<1>4. lines' \in [Clients -> Seq(Line)] /\ requests' \in [Clients -> Seq(Request)]
      /\ hung_up' \in [Clients -> BOOLEAN]
  <2>1. /\ lines \in [Clients -> Seq(Line)] /\ requests \in [Clients -> Seq(Request)]
        /\ hung_up \in [Clients -> BOOLEAN]
    BY DEF LInv, NetTypeOK
  <2>2. lines' \in [Clients -> Seq(Line)]
    BY <1>1, <1>2, <2>1
  <2>3. hung_up' \in [Clients -> BOOLEAN]
    BY <1>1, <2>1
  <2> QED
    BY <1>1, <2>1, <2>2, <2>3
<1>5. /\ pc'[c] # "start"
      /\ \A d \in Clients : d # c => pc'[d] = pc[d]
  BY <1>1 DEF LInv, ClientTypeOK
<1>6. \A d \in Clients : Readable(d) => Readable(d)'
  BY <1>1 DEF Readable, LInv, NetTypeOK
<1> QED
  BY <1>1, <1>3, <1>4, <1>5, <1>6, ClientKeepsLoop

(***************************************************************************)
(* The theorems.                                                           *)
(***************************************************************************)
LEMMA InitLoop == Init => LInv
<1> SUFFICES ASSUME Init PROVE LInv
  OBVIOUS
<1>1. /\ <<>> \in Seq(Clients) /\ <<>> \in Seq(Line) /\ <<>> \in Seq(Request)
      /\ Len(<<>>) = 0
  BY EmptySeq
<1>2. /\ NoClient \notin Clients /\ Other \notin Clients /\ 0 \in 0 .. MaxCalls
  BY NetServerAssumption
<1>3. NetTypeOK
  BY <1>1, <1>2 DEF Init, NetInit, NetTypeOK
<1>4. ClientTypeOK
  BY <1>1, <1>2 DEF Init, ClientTypeOK, Places
<1>5. Once /\ Reported
  BY <1>1, <1>2 DEF Init, NetInit, Once, Reported
<1> QED
  BY <1>3, <1>4, <1>5 DEF LInv

LEMMA NextLoop == LInv /\ [Next]_vars => LInv'
<1> SUFFICES ASSUME LInv, [Next]_vars PROVE LInv'
  OBVIOUS
<1>1. ASSUME ServerStep, UNCHANGED clientVars PROVE LInv'
  BY <1>1, PollKeeps, AcceptKeeps, ReadKeeps, WriteKeeps, CloseKeeps DEF ServerStep
<1>2. ASSUME PollFails, UNCHANGED clientVars PROVE LInv'
  BY <1>2 DEF PollFails, clientVars, LInv, NetTypeOK, ClientTypeOK, Once, Reported, Readable
<1>3. ASSUME NEW c \in Clients, ClientStep(c) \/ Timeout(c) PROVE LInv'
  BY <1>3, ConnectKeeps, SendKeeps, ReceiveKeeps, WaitEndKeeps, LeaveKeeps DEF ClientStep
<1>4. CASE UNCHANGED vars
  BY <1>4 DEF vars, serverVars, clientVars, LInv, NetTypeOK, ClientTypeOK, Once, Reported, Readable
<1> QED
  BY <1>1, <1>2, <1>3, <1>4 DEF Next, NetStep

\* Whatever the delays, a connection waits, or has one slot, or has been accepted
\* without one (net_server.c:81).
THEOREM OnePlaceEach == Spec => []NetTypeOK
<1>1. LInv => NetTypeOK
  BY DEF LInv
<1> QED
  BY <1>1, InitLoop, NextLoop, PTL DEF Spec

\* Whatever the delays, the loop never reads from a connection that has nothing to
\* read, though it accepts and closes others between poll and the read
\* (net_server.c:75, 102, 140).
THEOREM LoopNeverBlocks == Spec => []ReadNeverBlocks
<1>1. LInv => ReadNeverBlocks
  BY DEF LInv, Reported, ReadNeverBlocks
<1> QED
  BY <1>1, InitLoop, NextLoop, PTL DEF Spec
=============================================================================
