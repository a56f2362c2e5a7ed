---------------------------- MODULE NetworkProofs ----------------------------
(***************************************************************************)
(* The conversations of Network under PromptSpec, for any number of        *)
(* clients, slots, list entries and requests: each client takes exactly    *)
(* the answer to its last request before it sends the next, and nobody who *)
(* leaves by the menu is written to.                                       *)
(***************************************************************************)
EXTENDS NetworkLoopProofs

InBacklog(c) == \E k \in 1 .. Len(backlog) : backlog[k] = c

\* The lines that are still to reach client c, written or not.
Rest(c) == lines[c] \o (IF Serves(c) THEN out ELSE <<>>)

\* g is the end of an answer to request number m, of kind k: its last line is marked,
\* and no other line ends the wait of the client.
Complete(k, m, g) ==
  /\ g # <<>>
  /\ \A j \in 1 .. Len(g) : /\ g[j].call = m
                            /\ g[j].last <=> j = Len(g)
                            /\ ~ GoesOn(k, g[j]) => j = Len(g)

\* Where a request may stand: not read yet, being answered, answered.
Quiet(c) == requests[c] = <<>> /\ Rest(c) = <<>>
Asked(c) ==
  /\ Len(requests[c]) = 1
  /\ requests[c][1] = [call |-> calls[c], kind |-> pc[c]]
  /\ Rest(c) = <<>>
  /\ took[c] = <<>>
Answered(c) == requests[c] = <<>> /\ Complete(pc[c], calls[c], Rest(c))
Taken(c) == Quiet(c) /\ took[c] # <<>> /\ took[c][Len(took[c])].last

\* The conversation of a client that was not dropped.
Talk(c) ==
  /\ pc[c] = "start" => Quiet(c)
  /\ pc[c] = "ready" => \/ InBacklog(c) /\ Quiet(c)
                        \/ ~InBacklog(c) /\ requests[c] = <<>> /\ Rest(c) = <<READY>>
  /\ pc[c] \in {"first", "menu", "listed", "chosen", "gone"} /\ Running =>
       ~InBacklog(c) /\ Quiet(c)
  /\ pc[c] \in Kinds => ~InBacklog(c) /\ (Asked(c) \/ Answered(c) \/ Taken(c))
  /\ pc[c] = "killed" /\ Running =>
       Len(requests[c]) <= 1 /\ (requests[c] # <<>> => ~Serves(c))

\* What a client, dropped or not, has taken and been told.
Told(c) ==
  /\ \A k \in 1 .. Len(took[c]) : took[c][k].call = calls[c]
  /\ told[c] = "ok" => \/ took[c] # <<>> /\ took[c][Len(took[c])].last
                       \/ took[c] = <<>> /\ c \in dropped
  /\ pc[c] \in {"start", "ready", "killed"} => took[c] = <<>> /\ told[c] = "-"
  /\ pc[c] \in Kinds => told[c] = "-"
  /\ c \in dropped => took[c] = <<>> /\ lines[c] = <<>>
  /\ hung_up[c] => pc[c] \in {"gone", "killed"}
  /\ pc[c] = "killed" => hung_up[c] /\ lines[c] = <<>>

CInv(c) == Told(c) /\ (c \notin dropped => Talk(c))

PInv == LInv /\ (\A c \in Clients : CInv(c)) /\ SurvivesQuits

(***************************************************************************)
(* Lemmas about answers and about the rest.                                *)
(***************************************************************************)

\* Every answer has an end that the client can tell, or is silence after a line that
\* is the last (net_server.c:164, main_client.c:41).
LEMMA AnswersComplete ==
  ASSUME NEW r \in Request, NEW a \in Answers(r)
  PROVE  Complete(r.kind, r.call, a)
<1>1. r.kind \in Kinds
  BY DEF Request
<1>2. ASSUME NEW w, a = <<[call |-> r.call, word |-> w, last |-> TRUE]>>
      PROVE  Complete(r.kind, r.call, a)
  <2>1. Len(a) = 1 /\ a[1] = [call |-> r.call, word |-> w, last |-> TRUE]
    BY <1>2
  <2>2. a # <<>>
    BY <1>2
  <2> QED
    BY <2>1, <2>2 DEF Complete
<1>3. CASE r.kind = "CALL"
  BY <1>2, <1>3 DEF Answers
<1>4. CASE r.kind # "CALL"
  <2>1. CASE a = <<[call |-> r.call, word |-> NoItem[r.kind], last |-> TRUE]>>
    BY <1>2, <2>1
  <2>2. ASSUME NEW n \in 1 .. MaxItems,
               a = [i \in 1 .. n |-> [call |-> r.call, word |-> Item[r.kind], last |-> i = n]]
        PROVE  Complete(r.kind, r.call, a)
    <3>1. n \in Nat /\ n >= 1
      BY NetServerAssumption
    <3>2. Len(a) = n /\ a # <<>>
      BY <2>2, <3>1
    <3>3. ASSUME NEW j \in 1 .. n
          PROVE  a[j].call = r.call /\ (a[j].last <=> j = n) /\ a[j].word = Item[r.kind]
      BY <2>2
    <3>4. \A j \in 1 .. n : GoesOn(r.kind, a[j])
      BY <1>4, <3>3 DEF GoesOn
    <3> QED
      BY <3>2, <3>3, <3>4 DEF Complete
  <2> QED
    BY <1>4, <2>1, <2>2 DEF Answers
<1> QED
  BY <1>3, <1>4

\* What is left of an answer when its first line is taken.
LEMMA CompleteTail ==
  ASSUME NEW k, NEW m, NEW g \in Seq(Line), Complete(k, m, g)
  PROVE  /\ Head(g).call = m
         /\ Tail(g) = <<>> => Head(g).last
         /\ Tail(g) # <<>> => Complete(k, m, Tail(g))
         /\ ~ GoesOn(k, Head(g)) => Tail(g) = <<>> /\ Head(g).last
<1>1. /\ Len(g) \in Nat /\ Len(g) >= 1 /\ Head(g) = g[1]
      /\ Tail(g) \in Seq(Line) /\ Len(Tail(g)) = Len(g) - 1
      /\ \A j \in 1 .. Len(Tail(g)) : Tail(g)[j] = g[j + 1]
  BY HeadTailProperties, EmptySeq, LenProperties DEF Complete
<1>2. Tail(g) = <<>> <=> Len(g) = 1
  <2> DEFINE t == Tail(g)
  <2>1. t \in Seq(Line) /\ Len(t) = Len(g) - 1 /\ Len(<<>>) = 0
    BY <1>1, EmptySeq
  <2> HIDE DEF t
  <2>2. t = <<>> <=> Len(g) = 1
    BY <1>1, <2>1, EmptySeq
  <2> QED
    BY <2>2 DEF t
<1>3. /\ g[1].call = m /\ (g[1].last <=> 1 = Len(g))
      /\ ~ GoesOn(k, g[1]) => 1 = Len(g)
  <2>1. 1 \in 1 .. Len(g)
    BY <1>1
  <2> QED
    BY <2>1 DEF Complete
<1>4. ASSUME NEW j \in 1 .. Len(Tail(g))
      PROVE  /\ Tail(g)[j].call = m
             /\ Tail(g)[j].last <=> j = Len(Tail(g))
             /\ ~ GoesOn(k, Tail(g)[j]) => j = Len(Tail(g))
  <2>1. j + 1 \in 1 .. Len(g) /\ (j + 1 = Len(g) <=> j = Len(Tail(g)))
    BY <1>1
  <2> DEFINE l == j + 1
  <2>2. l \in 1 .. Len(g) /\ Tail(g)[j] = g[l] /\ (l = Len(g) <=> j = Len(Tail(g)))
    BY <1>1, <2>1
  <2> HIDE DEF l
  <2> QED
    BY <2>2 DEF Complete
<1> QED
  BY <1>1, <1>2, <1>3, <1>4 DEF Complete

\* A line written is taken off one sequence and put on the other.
LEMMA MoveHead ==
  ASSUME NEW s \in Seq(Line), NEW t \in Seq(Line), t # <<>>
  PROVE  Append(s, Head(t)) \o Tail(t) = s \o t
<1>1. PICK h \in Line, u \in Seq(Line) : h = Head(t) /\ u = Tail(t)
  BY HeadTailProperties
<1>2. t = <<h>> \o u /\ <<h>> \in Seq(Line)
  BY <1>1, HeadTailAppend
<1>3. Append(s, h) = s \o <<h>>
  BY AppendIsConcat
<1>4. (s \o <<h>>) \o u = s \o (<<h>> \o u)
  BY <1>2, ConcatAssociative
<1> QED
  BY <1>1, <1>2, <1>3, <1>4

RestFacts ==
  \A c \in Clients :
    /\ Rest(c) \in Seq(Line)
    /\ ~Serves(c) => Rest(c) = lines[c]
    /\ Serves(c) => Rest(c) = lines[c] \o out
    /\ Rest(c) = <<>> <=> lines[c] = <<>> /\ ~Serves(c)

LEMMA RestIs == LInv => RestFacts
<1> SUFFICES ASSUME LInv, NEW c \in Clients
             PROVE  /\ Rest(c) \in Seq(Line)
                    /\ ~Serves(c) => Rest(c) = lines[c]
                    /\ Serves(c) => Rest(c) = lines[c] \o out
                    /\ Rest(c) = <<>> <=> lines[c] = <<>> /\ ~Serves(c)
  BY DEF RestFacts
<1>1. lines[c] \in Seq(Line) /\ out \in Seq(Line)
  BY DEF LInv, NetTypeOK
<1>2. CASE ~Serves(c)
  <2>1. Rest(c) = lines[c] \o <<>>
    BY <1>2 DEF Rest
  <2> QED
    BY <1>1, <1>2, <2>1, ConcatEmptySeq
<1>3. CASE Serves(c)
  <2>1. Rest(c) = lines[c] \o out /\ out # <<>>
    BY <1>3 DEF Rest, Serves
  <2>2. Rest(c) \in Seq(Line) /\ Rest(c) # <<>>
    BY <1>1, <2>1, ConcatProperties, ConcatSimplifications
  <2> QED
    BY <1>3, <2>1, <2>2
<1> QED
  BY <1>2, <1>3

LEMMA RestIsNext == LInv' => RestFacts'
BY RestIs, PTL

\* A step that leaves what concerns client d leaves its conversation.
LEMMA Frame ==
  ASSUME NEW d \in Clients, CInv(d),
         pc'[d] = pc[d], calls'[d] = calls[d], took'[d] = took[d], told'[d] = told[d],
         requests'[d] = requests[d], hung_up'[d] = hung_up[d],
         d \in dropped \/ hung_up[d] => lines'[d] = lines[d],
         Rest(d)' = Rest(d) \/ pc[d] = "killed",
         Serves(d)' => Serves(d),
         InBacklog(d)' <=> InBacklog(d),
         d \in dropped' <=> d \in dropped,
         Running' => Running
  PROVE  CInv(d)'
<1>1. Told(d)'
  BY DEF CInv, Told
<1>2. ASSUME d \notin dropped PROVE Talk(d)'
  <2>1. CASE pc[d] = "killed"
    BY <1>2, <2>1 DEF CInv, Talk, Kinds
  <2>2. CASE pc[d] # "killed"
    <3>1. Talk(d)
      BY <1>2 DEF CInv
    <3> QED
      BY <2>2, <3>1 DEF Talk, Quiet, Asked, Answered, Taken
  <2> QED
    BY <2>1, <2>2
<1> QED
  BY <1>1, <1>2 DEF CInv

(***************************************************************************)
(* The steps of the server.                                                *)
(***************************************************************************)

\* Nothing is being written while out is empty.
LEMMA IdleServes == out = <<>> => \A c \in Clients : ~Serves(c)
BY DEF Serves

LEMMA IdleServesNext == out' = <<>> => \A c \in Clients : ~Serves(c)'
BY DEF Serves

\* The loop writes to one client at a time (net_server.c:98).
AtOneSlot == \A i, j \in Slots : At(i) /\ At(j) => i = j

LEMMA OneSlot == NetTypeOK => AtOneSlot
BY AtOne DEF AtOneSlot

LEMMA OneSlotNext == NetTypeOK' => AtOneSlot'
BY OneSlot, PTL

LEMMA OneServed ==
  NetTypeOK => \A i \in Slots : At(i) => \A d \in Clients : Serves(d) => d = clients[i]
BY OneSlot DEF Serves, AtOneSlot

LEMMA OneServedNext ==
  NetTypeOK' => \A i \in Slots : At(i)' => \A d \in Clients : Serves(d)' => d = clients'[i]
BY OneSlotNext DEF Serves, AtOneSlot

\* poll changes no conversation, and neither does its failure or a close.
LEMMA IdleStep ==
  ASSUME PInv, LInv', NEW d \in Clients, out = <<>>, out' = <<>>,
         UNCHANGED <<backlog, dropped, requests, lines, hung_up>>, UNCHANGED clientVars,
         Running' => Running
  PROVE  CInv(d)'
<1>1. ~Serves(d) /\ ~Serves(d)'
  BY IdleServes, IdleServesNext
<1>2. Rest(d)' = Rest(d)
  BY <1>1, RestIs, RestIsNext DEF RestFacts, PInv
<1>3. InBacklog(d)' <=> InBacklog(d)
  BY DEF InBacklog
<1> QED
  BY <1>1, <1>2, <1>3, Frame DEF PInv, clientVars

\* READY is the first line a client is sent, and only one that was killed can end
\* the process by it (net_server.c:90).
LEMMA AcceptTalks ==
  ASSUME PInv, LInv', Accept, UNCHANGED clientVars
  PROVE  (\A d \in Clients : CInv(d)') /\ SurvivesQuits'
<1>1. /\ backlog \in Seq(Clients) /\ backlog # <<>> /\ out = <<>> /\ out' = <<>> /\ Running
      /\ lines \in [Clients -> Seq(Line)]
  BY DEF PInv, LInv, NetTypeOK, Reported, Accept
<1>a. PICK c \in Clients : c = Head(backlog)
  BY <1>1, HeadTailProperties
<1>2. /\ c \in Clients /\ Len(backlog) \in Nat /\ Len(backlog) >= 1 /\ c = backlog[1]
      /\ Len(backlog') = Len(backlog) - 1
      /\ \A k \in 1 .. Len(backlog') : backlog'[k] = backlog[k + 1]
  BY <1>a, <1>1, HeadTailProperties, EmptySeq, LenProperties DEF Accept
<1>3. /\ UNCHANGED <<requests, hung_up>> /\ UNCHANGED <<pc, calls, took, told>>
  BY DEF Accept, clientVars
<1>4. \A d \in Clients : ~Serves(d) /\ ~Serves(d)'
  BY <1>1, IdleServes, IdleServesNext
<1>5. RestFacts /\ RestFacts'
  BY RestIs, RestIsNext DEF PInv
<1>6. \/ send_line(c, READY) /\ dropped' = dropped
      \/ dropped' = dropped \cup {c} /\ UNCHANGED <<lines, process>>
  BY <1>a DEF Accept
<1>7. /\ \A d \in Clients : d # c => (InBacklog(d)' <=> InBacklog(d))
      /\ InBacklog(c) /\ ~InBacklog(c)' /\ c \notin dropped /\ pc[c] # "start"
  <2>1. 1 \in 1 .. Len(backlog) /\ \A k \in 1 .. Len(backlog') : k + 1 \in 1 .. Len(backlog)
    BY <1>2
  <2>2. InBacklog(c) /\ c \notin dropped /\ pc[c] # "start"
    BY <1>2, <2>1 DEF InBacklog, PInv, LInv, Once
  <2>3. ~InBacklog(c)'
    <3>1. SUFFICES ASSUME NEW k \in 1 .. Len(backlog'), backlog'[k] = c PROVE FALSE
      BY DEF InBacklog
    <3>2. k + 1 = 1
      BY <1>2, <2>1, <3>1 DEF PInv, LInv, Once
    <3> QED
      BY <1>2, <3>2
  <2>4. ASSUME NEW d \in Clients, d # c, InBacklog(d) PROVE InBacklog(d)'
    <3>1. PICK k \in 1 .. Len(backlog) : backlog[k] = d
      BY <2>4 DEF InBacklog
    <3>2. k # 1
      BY <1>2, <2>4, <3>1
    <3>3. k - 1 \in 1 .. Len(backlog') /\ (k - 1) + 1 = k
      BY <1>2, <3>2
    <3>4. backlog'[k - 1] = d
      BY <1>2, <3>1, <3>3
    <3> QED
      BY <3>3, <3>4 DEF InBacklog
  <2>5. ASSUME NEW d \in Clients, InBacklog(d)' PROVE InBacklog(d)
    <3>1. PICK k \in 1 .. Len(backlog') : backlog'[k] = d
      BY <2>5 DEF InBacklog
    <3> QED
      BY <1>2, <2>1, <3>1 DEF InBacklog
  <2> QED
    BY <2>2, <2>3, <2>4, <2>5
<1>8. /\ lines' \in [Clients -> Seq(Line)]
      /\ \A d \in Clients : d # c => lines'[d] = lines[d] /\ (d \in dropped' <=> d \in dropped)
  BY <1>1, <1>2, <1>6, LineWritten, ReadyType
<1>9. ASSUME NEW d \in Clients, d # c PROVE CInv(d)'
  <2>1. Rest(d)' = Rest(d)
    BY <1>4, <1>5, <1>8, <1>9 DEF RestFacts
  <2> QED
    BY <1>1, <1>3, <1>4, <1>7, <1>8, <1>9, <2>1, Frame DEF PInv
<1>10. /\ Told(c) /\ Talk(c) /\ pc[c] \in Places
  BY <1>2, <1>7 DEF PInv, CInv, LInv, ClientTypeOK
<1>11. pc[c] \in {"ready", "killed"}
  BY <1>1, <1>7, <1>10 DEF Talk, Places
<1>12. CInv(c)' /\ SurvivesQuits'
  <2>1. CASE pc[c] = "killed"
    <3>1. lines'[c] = lines[c] /\ hung_up[c]
      BY <1>1, <1>2, <1>6, <1>10, <2>1, LineWritten, ReadyType DEF Told
    <3>2. Told(c)'
      BY <1>3, <1>10, <2>1, <3>1 DEF Told
    <3>3. Talk(c)'
      BY <1>1, <1>3, <1>4, <1>10, <2>1 DEF Talk, Kinds
    <3>4. SurvivesQuits'
      BY <1>2, <1>3, <2>1 DEF SurvivesQuits
    <3> QED
      BY <3>2, <3>3, <3>4 DEF CInv
  <2>2. CASE pc[c] = "ready"
    <3>1. ~hung_up[c] /\ Quiet(c) /\ took[c] = <<>> /\ told[c] = "-" /\ lines[c] = <<>>
      BY <1>2, <1>5, <1>7, <1>10, <2>2 DEF Told, Talk, Quiet, RestFacts
    <3>2. Told(c)'
      BY <1>3, <1>6, <1>7, <1>10, <2>2, <3>1 DEF Told
    <3>3. ASSUME c \notin dropped' PROVE Talk(c)'
      <4>1. lines'[c] = Append(<<>>, READY)
        BY <1>1, <1>2, <1>6, <3>1, <3>3, LineWritten, ReadyType
      <4>2. lines'[c] = <<READY>>
        BY <4>1
      <4>3. Rest(c)' = <<READY>>
        BY <1>2, <1>4, <1>5, <4>2 DEF RestFacts
      <4> QED
        BY <1>3, <1>7, <2>2, <3>1, <4>3 DEF Talk, Quiet, Kinds
    <3>4. process' = process
      BY <1>1, <1>2, <1>6, <3>1, LineWritten, ReadyType
    <3> QED
      BY <1>3, <3>2, <3>3, <3>4 DEF CInv, SurvivesQuits, PInv
  <2> QED
    BY <1>11, <2>1, <2>2
<1> QED
  BY <1>9, <1>12

\* A read takes the one request of the conversation, and its answer is complete
\* (net_server.c:140).
LEMMA ReadTalks ==
  ASSUME PInv, LInv', NEW i \in Slots, Read(i), UNCHANGED clientVars
  PROVE  (\A d \in Clients : CInv(d)') /\ SurvivesQuits'
<1>1. At(i) /\ out = <<>> /\ Running
  BY DEF Read, At
<1>2. i \in revents \ {0} /\ 0 \notin revents /\ \A j \in revents : i <= j
  BY <1>1, AtOne DEF PInv, LInv
<1>a. PICK c \in Clients : c = clients[i]
  BY <1>2 DEF PInv, LInv, Reported
<1>3. /\ c \in Clients /\ requests[c] \in Seq(Request) /\ c \notin dropped
      /\ requests \in [Clients -> Seq(Request)]
  BY <1>a DEF PInv, LInv, NetTypeOK
<1>4. PICK n \in 1 .. 2 :
        /\ n <= Len(requests[c])
        /\ out' \in AllAnswers(SubSeq(requests[c], 1, n))
        /\ requests' = [requests EXCEPT ![c] = SubSeq(@, n + 1, Len(@))]
  BY <1>a DEF Read
<1>5. /\ revents' = IF out' = <<>> THEN revents \ {i} ELSE revents
      /\ UNCHANGED <<process, backlog, clients, dropped, lines, hung_up>>
      /\ UNCHANGED <<pc, calls, took, told>>
  BY DEF Read, clientVars
<1>6. out' \in Seq(Line) /\ out' # <<>>
  BY <1>3, <1>4, BatchType
<1>7. At(i)' /\ revents' = revents /\ clients'[i] = c
  BY <1>a, <1>1, <1>5, <1>6 DEF At, Running
<1>8. Serves(c)' /\ \A d \in Clients : ~Serves(d) /\ (Serves(d)' => d = c)
  <2>1. \A d \in Clients : ~Serves(d)
    BY <1>1, IdleServes
  <2>2. \A d \in Clients : Serves(d)' => d = c
    BY <1>7, OneServedNext DEF LInv
  <2>3. Serves(c)'
    BY <1>6, <1>7 DEF Serves
  <2> QED
    BY <2>1, <2>2, <2>3
<1>9. RestFacts /\ RestFacts'
  BY RestIs, RestIsNext DEF PInv
<1>10. ASSUME NEW d \in Clients, d # c PROVE CInv(d)'
  <2>1. Rest(d)' = Rest(d)
    BY <1>5, <1>8, <1>9, <1>10 DEF RestFacts
  <2>2. requests'[d] = requests[d]
    BY <1>3, <1>4, <1>10
  <2>3. InBacklog(d)' <=> InBacklog(d)
    BY <1>5 DEF InBacklog
  <2> QED
    BY <1>5, <1>8, <1>10, <2>1, <2>2, <2>3, Frame DEF PInv, Running
<1>11. Told(c) /\ Talk(c) /\ pc[c] \in Places /\ requests[c] # <<>>
  <2>1. requests[c] # <<>>
    BY <1>3, <1>4, EmptySeq
  <2> QED
    BY <1>3, <2>1 DEF PInv, CInv, LInv, ClientTypeOK
<1>12. pc[c] = "killed" \/ (pc[c] \in Kinds /\ ~InBacklog(c) /\ Asked(c))
  BY <1>1, <1>11 DEF Talk, Quiet, Answered, Taken, Places
<1>13. Len(requests[c]) = 1 /\ requests'[c] = <<>>
  <2> DEFINE l == Len(requests[c])
  <2>1. l <= 1
    <3>1. CASE pc[c] = "killed"
      BY <1>1, <1>11, <3>1 DEF Talk
    <3>2. CASE Asked(c)
      BY <3>2 DEF Asked
    <3> QED
      BY <1>12, <3>1, <3>2
  <2>2. n = 1 /\ Len(requests[c]) = 1
    <3>1. l \in Nat /\ n <= l /\ n \in 1 .. 2
      BY <1>3, <1>4, LenProperties
    <3> HIDE DEF l
    <3>2. n = 1 /\ l = 1
      BY <2>1, <3>1
    <3> QED
      BY <3>2 DEF l
  <2>3. SubSeq(requests[c], n + 1, Len(requests[c])) = <<>>
    BY <2>2, SubSeqEmpty
  <2> QED
    BY <1>3, <1>4, <2>2, <2>3
<1>14. Told(c)'
  BY <1>5, <1>11 DEF Told
<1>15. Talk(c)'
  <2>1. CASE pc[c] = "killed"
    BY <1>5, <1>13, <2>1, EmptySeq DEF Talk, Kinds
  <2>2. CASE pc[c] \in Kinds /\ ~InBacklog(c) /\ Asked(c)
    <3> DEFINE r == [call |-> calls[c], kind |-> pc[c]]
    <3>1. requests[c][1] = r /\ lines[c] = <<>>
      BY <1>3, <1>9, <2>2 DEF Asked, RestFacts
    <3>2. r \in Request
      <4>1. 1 \in 1 .. Len(requests[c])
        BY <1>13
      <4>2. requests[c][1] \in Request
        BY <1>3, <4>1, ElementOfSeq
      <4> QED
        BY <3>1, <4>2
    <3> HIDE DEF r
    <3>3. out' \in Answers(r)
      <4>1. /\ n = 1 /\ SubSeq(requests[c], 1, 1) \in Seq(Request)
            /\ Len(SubSeq(requests[c], 1, 1)) = 1 /\ SubSeq(requests[c], 1, 1)[1] = r
        BY <1>3, <1>4, <1>13, <3>1, <3>2, SubSeqProperties
      <4> QED
        BY <1>4, <4>1 DEF AllAnswers
    <3>4. Complete(r.kind, r.call, out')
      BY <3>2, <3>3, AnswersComplete
    <3>5. Rest(c)' = lines'[c] \o out'
      BY <1>3, <1>8, <1>9 DEF RestFacts
    <3>6. Rest(c)' = out'
      BY <1>5, <1>6, <3>1, <3>5, ConcatEmptySeq
    <3>7. Complete(pc[c], calls[c], out')
      BY <3>4 DEF r
    <3>8. Answered(c)'
      BY <1>5, <1>13, <3>6, <3>7 DEF Answered
    <3> QED
      BY <1>5, <2>2, <3>8 DEF Talk, Kinds, InBacklog
  <2> QED
    BY <1>12, <2>1, <2>2
<1> QED
  BY <1>5, <1>10, <1>14, <1>15 DEF CInv, SurvivesQuits, PInv

\* A line written moves from what is owed to what has come; only a killed client can
\* be gone (net_server.c:112).
LEMMA WriteTalks ==
  ASSUME PInv, LInv', NEW i \in Slots, Write(i), UNCHANGED clientVars
  PROVE  (\A d \in Clients : CInv(d)') /\ SurvivesQuits'
<1>1. At(i) /\ Running /\ out # <<>> /\ out \in Seq(Line) /\ Len(out) \in Nat
  BY LenProperties DEF Write, At, PInv, LInv, NetTypeOK
<1>2. i \in revents \ {0} /\ 0 \notin revents /\ \A j \in revents : i <= j
  BY <1>1, AtOne DEF PInv, LInv
<1>a. PICK c \in Clients : c = clients[i]
  BY <1>2 DEF PInv, LInv, Reported
<1>3. c \in Clients /\ c \notin dropped /\ lines \in [Clients -> Seq(Line)]
  BY <1>a DEF PInv, LInv, NetTypeOK
<1>4. Head(out) \in Line /\ out' = Tail(out) /\ out' \in Seq(Line) /\ Len(out') = Len(out) - 1
  BY <1>1, HeadTailProperties DEF Write
<1>5. /\ revents' = IF Len(out) = 1 THEN revents \ {i} ELSE revents
      /\ UNCHANGED <<backlog, clients, dropped, requests, hung_up>>
      /\ UNCHANGED <<pc, calls, took, told>>
      /\ send_line(c, Head(out))
  BY <1>a DEF Write, clientVars
<1>6. Serves(c) /\ \A d \in Clients : Serves(d) => d = c
  <2>1. Serves(c)
    BY <1>a, <1>1 DEF Serves
  <2> QED
    BY <1>a, <1>1, <2>1, OneServed DEF PInv, LInv
<1>7. /\ lines' \in [Clients -> Seq(Line)]
      /\ \A d \in Clients : d # c => lines'[d] = lines[d]
      /\ hung_up[c] => lines' = lines /\ process' \in {"running", "SIGPIPE"}
      /\ ~hung_up[c] => lines'[c] = Append(lines[c], Head(out)) /\ process' = process
  BY <1>3, <1>4, <1>5, LineWritten
<1>8. \A d \in Clients : Serves(d)' => d = c
  <2>1. CASE out' = <<>>
    BY <2>1, IdleServesNext
  <2>2. ASSUME out' # <<>>, Running' PROVE At(i)'
    <3>1. Len(out) # 1
      <4> SUFFICES ASSUME Len(out) = 1 PROVE FALSE
        OBVIOUS
      <4>1. Len(out') = 0
        BY <1>1, <1>4
      <4> QED
        BY <1>4, <2>2, <4>1, EmptySeq
    <3>2. revents' = revents
      BY <1>5, <3>1
    <3> QED
      BY <1>2, <2>2, <3>2 DEF At
  <2>3. CASE out' # <<>> /\ Running'
    BY <1>a, <1>5, <2>2, <2>3, OneServedNext DEF LInv
  <2>4. CASE ~Running'
    BY <2>4 DEF Serves, At
  <2> QED
    BY <2>1, <2>3, <2>4
<1>9. RestFacts /\ RestFacts'
  BY RestIs, RestIsNext DEF PInv
<1>10. \A d \in Clients : InBacklog(d)' <=> InBacklog(d)
  BY <1>5 DEF InBacklog
<1>11. ASSUME NEW d \in Clients, d # c PROVE CInv(d)'
  <2>1. Rest(d)' = Rest(d)
    BY <1>6, <1>7, <1>8, <1>9, <1>11 DEF RestFacts
  <2>2. ~Serves(d)'
    BY <1>8, <1>11
  <2> QED
    BY <1>1, <1>5, <1>7, <1>10, <1>11, <2>1, <2>2, Frame DEF PInv
<1>12. Told(c) /\ Talk(c) /\ Rest(c) # <<>> /\ Rest(c) = lines[c] \o out
  BY <1>3, <1>6, <1>9 DEF PInv, CInv, RestFacts
<1>13. CASE hung_up[c]
  <2>1. pc[c] = "killed"
    BY <1>1, <1>12, <1>13 DEF Told, Talk, Quiet
  <2>2. CInv(c)'
    BY <1>1, <1>3, <1>5, <1>6, <1>7, <1>10, <1>13, <2>1, Frame DEF PInv
  <2>3. SurvivesQuits'
    BY <1>3, <1>5, <2>1 DEF SurvivesQuits
  <2> QED
    BY <1>11, <2>2, <2>3
<1>14. CASE ~hung_up[c]
  <2>1. process' = process /\ lines'[c] = Append(lines[c], Head(out))
    BY <1>7, <1>14
  <2>2. Rest(c)' = Rest(c)
    <3>1. lines[c] \in Seq(Line)
      BY <1>3
    <3>2. Append(lines[c], Head(out)) \o Tail(out) = lines[c] \o out
      BY <1>1, <3>1, MoveHead
    <3>3. lines'[c] \o out' = Append(lines[c], Head(out)) \o Tail(out)
      BY <1>4, <2>1
    <3>5. lines'[c] \o out' = Rest(c)
      BY <1>12, <3>2, <3>3
    <3>6. Rest(c)' = lines'[c] \o out'
      <4>1. CASE out' = <<>>
        BY <4>1 DEF Rest
      <4>2. CASE out' # <<>>
        <5>1. Len(out) # 1
          <6> SUFFICES ASSUME Len(out) = 1 PROVE FALSE
            OBVIOUS
          <6>1. Len(out') = 0
            BY <1>1, <1>4
          <6> QED
            BY <1>4, <4>2, <6>1, EmptySeq
        <5>2. revents' = revents /\ Running'
          BY <1>1, <1>5, <2>1, <5>1 DEF Running
        <5>3. Serves(c)'
          BY <1>a, <1>2, <1>5, <4>2, <5>2 DEF Serves, At
        <5> QED
          BY <5>3 DEF Rest
      <4> QED
        BY <4>1, <4>2
    <3> QED
      BY <3>5, <3>6
  <2>3. CInv(c)'
    BY <1>1, <1>3, <1>5, <1>6, <1>10, <1>14, <2>2, Frame DEF PInv
  <2> QED
    BY <1>5, <1>11, <2>1, <2>3 DEF SurvivesQuits, PInv
<1> QED
  BY <1>13, <1>14

(***************************************************************************)
(* The steps of the clients.                                               *)
(***************************************************************************)

\* A step of client c leaves the conversations of the others.
LEMMA StepOfOne ==
  ASSUME PInv, LInv', NEW c \in Clients, pc[c] # "killed", CInv(c)',
         UNCHANGED <<process, clients, dropped, revents, out>>,
         \A d \in Clients : d # c =>
           /\ pc'[d] = pc[d] /\ calls'[d] = calls[d] /\ took'[d] = took[d] /\ told'[d] = told[d]
           /\ requests'[d] = requests[d] /\ lines'[d] = lines[d] /\ hung_up'[d] = hung_up[d]
           /\ InBacklog(d)' <=> InBacklog(d)
  PROVE  PInv'
<1>1. \A d \in Clients : (Serves(d)' <=> Serves(d)) /\ (Running' <=> Running)
  BY DEF Serves, At, Running
<1>2. ASSUME NEW d \in Clients, d # c PROVE CInv(d)'
  <2>1. Rest(d)' = Rest(d)
    BY <1>1, <1>2 DEF Rest
  <2> QED
    BY <1>1, <1>2, <2>1, Frame DEF PInv
<1>3. SurvivesQuits'
  BY DEF PInv, SurvivesQuits
<1> QED
  BY <1>2, <1>3 DEF PInv

\* What a step of client c that does not touch the server leaves.
LEMMA SameServer ==
  ASSUME NEW c \in Clients, UNCHANGED <<process, backlog, clients, dropped, revents, out>>
  PROVE  /\ Running' <=> Running
         /\ Serves(c)' <=> Serves(c)
         /\ \A d \in Clients : InBacklog(d)' <=> InBacklog(d)
BY DEF Serves, At, Running, InBacklog

LEMMA ConnectTalks ==
  ASSUME PInv, LInv', NEW c \in Clients, Connect(c)
  PROVE  PInv'
<1>1. /\ pc[c] = "start" /\ UNCHANGED <<calls, took, told>>
      /\ UNCHANGED <<process, clients, dropped, revents, out, requests, lines, hung_up>>
  BY DEF Connect
<1>2. /\ \A d \in Clients : d # c => pc'[d] = pc[d]
      /\ \/ Running /\ backlog' = Append(backlog, c) /\ pc'[c] = "ready"
         \/ ~Running /\ backlog' = backlog /\ pc'[c] = "gone"
  BY DEF Connect, Goto, PInv, LInv, ClientTypeOK
<1>3. c \notin dropped /\ Told(c) /\ Quiet(c)
  BY <1>1 DEF PInv, LInv, Once, CInv, Talk
<1>4. (Serves(c)' <=> Serves(c)) /\ (Running' <=> Running)
  BY <1>1 DEF Serves, At, Running
<1>5. /\ \A d \in Clients : d # c => (InBacklog(d)' <=> InBacklog(d))
      /\ Running => InBacklog(c)'
  <2>1. CASE backlog' = backlog
    BY <1>2, <2>1 DEF InBacklog
  <2>2. CASE backlog' = Append(backlog, c)
    <3>1. backlog \in Seq(Clients) /\ Len(backlog) \in Nat
      BY LenProperties DEF PInv, LInv, NetTypeOK
    <3>2. /\ Len(backlog') = Len(backlog) + 1
          /\ \A k \in 1 .. Len(backlog) : backlog'[k] = backlog[k]
          /\ backlog'[Len(backlog) + 1] = c
      BY <2>2, <3>1, AppendProperties
    <3>3. /\ \A k \in 1 .. Len(backlog') : k \in 1 .. Len(backlog) \/ k = Len(backlog) + 1
          /\ \A k \in 1 .. Len(backlog) : k \in 1 .. Len(backlog')
          /\ Len(backlog) + 1 \in 1 .. Len(backlog')
      BY <3>1, <3>2
    <3> QED
      BY <3>2, <3>3 DEF InBacklog
  <2> QED
    BY <1>2, <2>1, <2>2
<1>6. CInv(c)'
  <2>1. Told(c)'
    BY <1>1, <1>2, <1>3 DEF Told, Kinds
  <2>2. Quiet(c)'
    BY <1>1, <1>3, <1>4 DEF Quiet, Rest
  <2>3. Talk(c)'
    BY <1>2, <1>4, <1>5, <2>2 DEF Talk, Kinds
  <2> QED
    BY <2>1, <2>3 DEF CInv
<1> QED
  BY <1>1, <1>2, <1>5, <1>6, StepOfOne

\* A request is sent on a quiet connection (main_client.c:41).
LEMMA SendTalks ==
  ASSUME PInv, LInv', NEW c \in Clients, NEW kind \in Kinds, Send(c, kind)
  PROVE  PInv'
<1>1. /\ UNCHANGED <<process, backlog, clients, dropped, revents, out, lines, hung_up>>
      /\ Running /\ pc[c] \in {"first", "menu", "listed", "chosen"}
  BY DEF Send, MayFollow, Kinds
<1>2. PICK r : /\ r = [call |-> calls[c] + 1, kind |-> kind]
              /\ requests' = [requests EXCEPT ![c] = Append(@, r)]
  BY DEF Send
<1>3. /\ calls'[c] = calls[c] + 1 /\ took'[c] = <<>> /\ told'[c] = "-" /\ pc'[c] = kind
      /\ \A d \in Clients : d # c => /\ pc'[d] = pc[d] /\ calls'[d] = calls[d]
                                     /\ took'[d] = took[d] /\ told'[d] = told[d]
  BY DEF Send, Goto, PInv, LInv, ClientTypeOK
<1>4. /\ requests'[c] = Append(requests[c], r)
      /\ \A d \in Clients : d # c => requests'[d] = requests[d]
  BY <1>2 DEF PInv, LInv, NetTypeOK
<1>5. /\ (Serves(c)' <=> Serves(c))
      /\ \A d \in Clients : InBacklog(d)' <=> InBacklog(d)
  BY <1>1, SameServer
<1>6. Told(c)'
  <2>1. Len(<<>>) = 0 /\ Told(c)
    BY DEF PInv, CInv
  <2> QED
    BY <1>1, <1>3, <2>1 DEF Told, Kinds
<1>7. ASSUME c \notin dropped PROVE Talk(c)'
  <2>1. ~InBacklog(c) /\ Quiet(c)
    BY <1>1, <1>7 DEF PInv, CInv, Talk
  <2>2. requests'[c] = <<r>>
    BY <1>4, <2>1 DEF Quiet
  <2>3. Len(requests'[c]) = 1 /\ requests'[c][1] = [call |-> calls'[c], kind |-> pc'[c]]
    <3>1. Len(requests'[c]) = 1 /\ requests'[c][1] = r
      BY <2>2
    <3>2. r = [call |-> calls'[c], kind |-> pc'[c]]
      BY <1>2, <1>3
    <3> QED
      BY <3>1, <3>2
  <2>4. Rest(c)' = <<>>
    BY <1>1, <1>5, <2>1 DEF Quiet, Rest
  <2>5. Asked(c)'
    BY <1>3, <2>3, <2>4 DEF Asked
  <2> QED
    BY <1>3, <1>5, <2>1, <2>5 DEF Talk, Kinds
<1> QED
  BY <1>1, <1>3, <1>4, <1>5, <1>6, <1>7, StepOfOne DEF CInv

LEMMA TailOfConcat ==
  ASSUME NEW s \in Seq(Line), NEW t \in Seq(Line), s # <<>>
  PROVE  /\ Head(s \o t) = Head(s)
         /\ Tail(s \o t) = Tail(s) \o t
         /\ s \o t # <<>>
<1>1. Len(s) \in Nat /\ Len(s) >= 1 /\ Len(t) \in Nat
  BY EmptySeq, LenProperties
<1>2. /\ s \o t \in Seq(Line) /\ Len(s \o t) = Len(s) + Len(t)
      /\ \A i \in 1 .. Len(s) + Len(t) : (s \o t)[i] = IF i <= Len(s) THEN s[i] ELSE t[i - Len(s)]
  BY ConcatProperties
<1>3. s \o t # <<>>
  BY ConcatSimplifications
<1>4. Head(s \o t) = Head(s)
  BY <1>1, <1>2
<1> DEFINE u == s \o t
<1>5. /\ Tail(u) \in Seq(Line) /\ Len(Tail(u)) = Len(s) + Len(t) - 1
      /\ \A i \in 1 .. Len(Tail(u)) : Tail(u)[i] = u[i + 1]
  BY <1>2, <1>3, HeadTailProperties
<1>6. /\ Tail(s) \in Seq(Line) /\ Len(Tail(s)) = Len(s) - 1
      /\ \A i \in 1 .. Len(Tail(s)) : Tail(s)[i] = s[i + 1]
  BY HeadTailProperties
<1> DEFINE a == Tail(u)
           b == Tail(s)
<1>7. /\ b \o t \in Seq(Line) /\ Len(b \o t) = Len(b) + Len(t)
      /\ \A i \in 1 .. Len(b) + Len(t) : (b \o t)[i] = IF i <= Len(b) THEN b[i] ELSE t[i - Len(b)]
  BY <1>6, ConcatProperties
<1> HIDE DEF a, b, u
<1>8. Len(a) = Len(b \o t) /\ \A i \in 1 .. Len(a) : a[i] = (b \o t)[i]
  <2>1. Len(a) = Len(s) + Len(t) - 1 /\ Len(b) = Len(s) - 1
    BY <1>5, <1>6 DEF a, b
  <2>2. ASSUME NEW i \in 1 .. Len(a) PROVE a[i] = (b \o t)[i]
    <3>1. /\ i \in Nat /\ i \in 1 .. Len(b) + Len(t) /\ i + 1 \in 1 .. Len(s) + Len(t)
          /\ i + 1 <= Len(s) <=> i <= Len(b)
          /\ i + 1 - Len(s) = i - Len(b)
          /\ i <= Len(b) => i \in 1 .. Len(b)
      BY <1>1, <2>1
    <3>2. a[i] = u[i + 1]
      BY <1>5 DEF a
    <3>3. u[i + 1] = IF i + 1 <= Len(s) THEN s[i + 1] ELSE t[i + 1 - Len(s)]
      BY <1>2, <3>1 DEF u
    <3>4. i <= Len(b) => b[i] = s[i + 1]
      BY <1>6, <3>1 DEF b
    <3>5. (b \o t)[i] = IF i <= Len(b) THEN b[i] ELSE t[i - Len(b)]
      BY <1>7, <3>1
    <3> QED
      BY <3>1, <3>2, <3>3, <3>4, <3>5
  <2> QED
    BY <1>7, <2>1, <2>2
<1>9. a = b \o t
  BY <1>5, <1>7, <1>8, SeqEqual DEF a
<1> QED
  BY <1>3, <1>4, <1>9 DEF a, b, u

\* A line taken is the first of the rest.
LEMMA RestTaken ==
  ASSUME LInv, LInv', NEW c \in Clients, lines[c] # <<>>, lines'[c] = Tail(lines[c]),
         out' = out, Serves(c)' <=> Serves(c)
  PROVE  Head(Rest(c)) = Head(lines[c]) /\ Rest(c)' = Tail(Rest(c)) /\ Rest(c) # <<>>
<1>1. RestFacts /\ RestFacts'
  BY RestIs, RestIsNext
<1>2. lines[c] \in Seq(Line) /\ out \in Seq(Line)
  BY DEF LInv, NetTypeOK
<1>3. CASE Serves(c)
  <2>1. Rest(c) = lines[c] \o out /\ Rest(c)' = Tail(lines[c]) \o out
    BY <1>1, <1>3 DEF RestFacts
  <2> QED
    BY <1>2, <2>1, TailOfConcat
<1>4. CASE ~Serves(c)
  BY <1>1, <1>4 DEF RestFacts
<1> QED
  BY <1>3, <1>4

\* The end of an answer is not taken for less, nor anything else for it
\* (main_client.c:41, 175).
LEMMA ReceiveTalks ==
  ASSUME PInv, LInv', NEW c \in Clients, Receive(c)
  PROVE  PInv'
<1>1. /\ UNCHANGED <<process, backlog, clients, dropped, revents, out, requests, hung_up, calls>>
      /\ lines[c] # <<>> /\ lines' = [lines EXCEPT ![c] = Tail(@)]
      /\ pc[c] = "ready" \/ pc[c] \in Kinds
  BY DEF Receive, Waiting
<1>2. /\ lines'[c] = Tail(lines[c])
      /\ \A d \in Clients : d # c => lines'[d] = lines[d]
  BY <1>1 DEF PInv, LInv, NetTypeOK
<1>3. /\ (Serves(c)' <=> Serves(c)) /\ (Running' <=> Running)
      /\ \A d \in Clients : InBacklog(d)' <=> InBacklog(d)
  BY <1>1, SameServer
<1>4. Told(c) /\ Talk(c) /\ c \notin dropped
  BY <1>1 DEF PInv, CInv, Told
<1>5. /\ Head(Rest(c)) = Head(lines[c]) /\ Rest(c)' = Tail(Rest(c)) /\ Rest(c) # <<>>
      /\ Rest(c) \in Seq(Line)
  BY <1>1, <1>2, <1>3, RestTaken, RestIs DEF PInv, RestFacts
<1>6. \A d \in Clients : d # c => pc'[d] = pc[d] /\ took'[d] = took[d] /\ told'[d] = told[d]
  BY DEF Receive, Returns, Goto, PInv, LInv, ClientTypeOK
<1>7. CASE pc[c] = "ready"
  <2>1. pc'[c] = "first" /\ UNCHANGED <<took, told>>
    BY <1>7 DEF Receive, Goto, Waiting, Kinds, PInv, LInv, ClientTypeOK
  <2>2. ~InBacklog(c) /\ requests[c] = <<>> /\ Rest(c) = <<READY>>
    BY <1>4, <1>5, <1>7 DEF Talk, Quiet
  <2>3. Rest(c)' = <<>>
    BY <1>5, <2>2
  <2>4. Told(c)'
    BY <1>1, <1>4, <1>7, <2>1 DEF Told, Kinds
  <2>5. Talk(c)'
    BY <1>1, <1>3, <2>1, <2>2, <2>3 DEF Talk, Quiet, Kinds
  <2> QED
    BY <1>1, <1>2, <1>3, <1>6, <1>7, <2>4, <2>5, StepOfOne DEF CInv
<1>8. CASE pc[c] \in Kinds
  <2>1. PICK h \in Line : h = Head(lines[c])
    BY <1>1, HeadTailProperties DEF PInv, LInv, NetTypeOK
  <2>2. /\ took'[c] = Append(took[c], h)
        /\ \/ GoesOn(pc[c], h) /\ pc'[c] = pc[c] /\ told'[c] = told[c]
           \/ /\ ~GoesOn(pc[c], h)
              /\ pc'[c] \in {"menu", "listed", "chosen"}
    BY <1>8, <2>1 DEF Receive, Returns, Goto, Kinds, PInv, LInv, ClientTypeOK
  <2>3. ~InBacklog(c) /\ Answered(c)
    BY <1>4, <1>5, <1>8 DEF Talk, Asked, Taken, Quiet, Kinds
  <2>4. requests[c] = <<>> /\ Complete(pc[c], calls[c], Rest(c))
    BY <2>3 DEF Answered
  <2>5. /\ h.call = calls[c]
        /\ Tail(Rest(c)) = <<>> => h.last
        /\ Tail(Rest(c)) # <<>> => Complete(pc[c], calls[c], Tail(Rest(c)))
        /\ ~ GoesOn(pc[c], h) => Tail(Rest(c)) = <<>> /\ h.last
    <3>1. PICK g \in Seq(Line), k \in Places, m \in 0 .. MaxCalls :
           k = pc[c] /\ m = calls[c] /\ g = Rest(c)
      BY <1>5 DEF PInv, LInv, ClientTypeOK
    <3>2. Complete(k, m, g) /\ Head(g) = h
      BY <1>5, <2>1, <2>4, <3>1
    <3>3. /\ Head(g).call = m
          /\ Tail(g) = <<>> => Head(g).last
          /\ Tail(g) # <<>> => Complete(k, m, Tail(g))
          /\ ~ GoesOn(k, Head(g)) => Tail(g) = <<>> /\ Head(g).last
      BY <3>2, CompleteTail
    <3> QED
      BY <3>1, <3>2, <3>3
  <2>6. PICK t \in Seq(Line) : t = took[c]
    BY DEF PInv, LInv, ClientTypeOK
  <2>7. /\ took'[c] # <<>> /\ Len(t) \in Nat /\ Len(took'[c]) = Len(t) + 1
        /\ \A i \in 1 .. Len(t) : took'[c][i] = t[i]
        /\ took'[c][Len(t) + 1] = h
    BY <2>1, <2>2, <2>6, AppendProperties, LenProperties
  <2>8. \A k \in 1 .. Len(took'[c]) : took'[c][k].call = calls[c]
    <3>1. \A k \in 1 .. Len(took'[c]) : k \in 1 .. Len(t) \/ k = Len(t) + 1
      BY <2>7
    <3> QED
      BY <1>4, <2>5, <2>6, <2>7, <3>1 DEF Told
  <2>9. took'[c][Len(took'[c])] = h
    BY <2>7
  <2>10. CASE GoesOn(pc[c], h)
    <3>1. pc'[c] = pc[c] /\ told'[c] = "-" /\ hung_up'[c] = hung_up[c]
      BY <1>1, <1>4, <1>8, <2>2, <2>10 DEF Told
    <3>2. Told(c)'
      BY <1>1, <1>4, <1>8, <2>8, <3>1 DEF Told, Kinds
    <3>3. Answered(c)' \/ Taken(c)'
      BY <1>1, <1>5, <2>4, <2>5, <2>7, <2>9, <3>1 DEF Answered, Taken, Quiet
    <3>4. Talk(c)'
      BY <1>3, <1>8, <2>3, <3>1, <3>3 DEF Talk, Kinds
    <3> QED
      BY <1>1, <1>2, <1>3, <1>6, <1>8, <3>2, <3>4, StepOfOne DEF CInv, Kinds
  <2>11. CASE ~GoesOn(pc[c], h)
    <3>1. pc'[c] \in {"menu", "listed", "chosen"} /\ h.last /\ Rest(c)' = <<>>
      BY <1>5, <2>2, <2>5, <2>11
    <3>2. Told(c)'
      BY <1>1, <1>4, <1>8, <2>7, <2>8, <2>9, <3>1 DEF Told, Kinds
    <3>3. Talk(c)'
      BY <1>1, <1>3, <2>3, <2>4, <3>1 DEF Talk, Quiet, Kinds
    <3> QED
      BY <1>1, <1>2, <1>3, <1>6, <1>8, <3>2, <3>3, StepOfOne DEF CInv, Kinds
  <2> QED
    BY <2>10, <2>11
<1> QED
  BY <1>1, <1>7, <1>8

\* Under PromptSpec silence means that there are no more data, or that the server
\* never took the connection (main_client.c:41, net_client.c:40).
LEMMA TimeoutTalks ==
  ASSUME PInv, LInv', NEW c \in Clients, PromptTimeout(c)
  PROVE  PInv'
<1>1. /\ UNCHANGED <<process, backlog, clients, dropped, revents, out, requests, lines, hung_up>>
      /\ UNCHANGED <<calls, took>>
      /\ Running /\ lines[c] = <<>>
      /\ ~InBacklog(c) /\ ~Serves(c) /\ (c \in dropped \/ requests[c] = <<>>)
  BY DEF PromptTimeout, Timeout, Owes, InBacklog, serverVars
<1>2. /\ \/ pc[c] = "ready" /\ pc'[c] = "first" /\ told'[c] = told[c]
         \/ pc[c] \in Kinds /\ pc'[c] \in {"menu", "listed", "chosen"} /\ told'[c] = "ok"
      /\ \A d \in Clients : d # c => pc'[d] = pc[d] /\ told'[d] = told[d]
  BY DEF PromptTimeout, Timeout, Returns, Goto, Kinds, PInv, LInv, ClientTypeOK
<1>3. /\ (Serves(c)' <=> Serves(c)) /\ (Running' <=> Running)
      /\ \A d \in Clients : InBacklog(d)' <=> InBacklog(d)
  BY <1>1, SameServer
<1>4. Rest(c) = <<>> /\ Rest(c)' = Rest(c) /\ Told(c)
  BY <1>1, <1>3, RestIs DEF PInv, CInv, RestFacts, Rest
<1>5. ASSUME c \notin dropped
      PROVE  Quiet(c) /\ pc[c] \in Kinds /\ took[c] # <<>> /\ took[c][Len(took[c])].last
  <2>1. Talk(c) /\ requests[c] = <<>>
    BY <1>1, <1>5 DEF PInv, CInv
  <2>2. pc[c] \in Kinds
    BY <1>1, <1>2, <1>4, <2>1 DEF Talk
  <2>3. ~Asked(c) /\ ~Answered(c)
    BY <1>4, <2>1, EmptySeq DEF Asked, Answered, Complete
  <2> QED
    BY <2>1, <2>2, <2>3 DEF Talk, Taken
<1>6. Told(c)'
  BY <1>1, <1>2, <1>4, <1>5 DEF Told, Kinds
<1>7. ASSUME c \notin dropped PROVE Talk(c)'
  BY <1>1, <1>2, <1>3, <1>4, <1>5, <1>7 DEF Talk, Quiet, Kinds
<1> QED
  BY <1>1, <1>2, <1>3, <1>6, <1>7, StepOfOne DEF CInv, Kinds

\* Without the server nothing is left to say.
LEMMA DisconnectedTalks ==
  ASSUME PInv, LInv', NEW c \in Clients, Disconnected(c)
  PROVE  PInv'
<1>1. /\ UNCHANGED <<process, backlog, clients, dropped, revents, out, requests, lines, hung_up>>
      /\ UNCHANGED <<calls, took>>
      /\ ~Running
  BY DEF Disconnected, serverVars
<1>2. /\ \/ pc[c] = "ready" /\ pc'[c] = "first" /\ told'[c] = told[c]
         \/ pc[c] \in Kinds /\ pc'[c] \in {"menu", "listed", "chosen"} /\ told'[c] = "failed"
      /\ \A d \in Clients : d # c => pc'[d] = pc[d] /\ told'[d] = told[d]
  BY DEF Disconnected, Waiting, Returns, Goto, Kinds, PInv, LInv, ClientTypeOK
<1>3. /\ (Running' <=> Running)
      /\ \A d \in Clients : InBacklog(d)' <=> InBacklog(d)
  BY <1>1, SameServer
<1>4. Told(c)'
  BY <1>1, <1>2 DEF PInv, CInv, Told, Kinds
<1>5. Talk(c)'
  BY <1>1, <1>2, <1>3 DEF Talk, Kinds
<1> QED
  BY <1>1, <1>2, <1>3, <1>4, <1>5, StepOfOne DEF CInv, Kinds

LEMMA SendFailsTalks ==
  ASSUME PInv, LInv', NEW c \in Clients, SendFails(c)
  PROVE  PInv'
<1>1. /\ UNCHANGED <<process, backlog, clients, dropped, revents, out, requests, lines>>
      /\ UNCHANGED <<calls, took>>
      /\ ~Running /\ pc[c] \in {"first", "menu", "listed", "chosen"}
  BY DEF SendFails
<1>2. /\ \/ pc'[c] = "menu" /\ hung_up'[c] = hung_up[c]
         \/ pc'[c] = "gone"
      /\ told'[c] = "failed"
      /\ \A d \in Clients : d # c =>
           pc'[d] = pc[d] /\ told'[d] = told[d] /\ hung_up'[d] = hung_up[d]
  <2>1. /\ pc \in [Clients -> Places] /\ told \in [Clients -> {"-", "ok", "failed"}]
        /\ hung_up \in [Clients -> BOOLEAN]
    BY DEF PInv, LInv, ClientTypeOK, NetTypeOK
  <2> QED
    BY <2>1 DEF SendFails, Goto
<1>3. /\ (Running' <=> Running)
      /\ \A d \in Clients : InBacklog(d)' <=> InBacklog(d)
  BY <1>1, SameServer
<1>4. Told(c)'
  BY <1>1, <1>2 DEF PInv, CInv, Told, Kinds
<1>5. Talk(c)'
  BY <1>1, <1>2, <1>3 DEF Talk, Kinds
<1> QED
  BY <1>1, <1>2, <1>3, <1>4, <1>5, StepOfOne DEF CInv, Kinds

\* Who leaves by the menu leaves nothing behind that the server could still answer;
\* who is killed may.
LEMMA LeavingTalks ==
  ASSUME PInv, LInv', NEW c \in Clients, Quit(c) \/ Kill(c)
  PROVE  PInv'
<1>1. /\ UNCHANGED <<process, backlog, clients, dropped, revents, out, requests, calls>>
      /\ \/ pc[c] \in {"menu", "chosen"} /\ pc'[c] = "gone"
         \/ pc[c] \in {"ready", "first", "listed"} \cup Kinds /\ pc'[c] = "killed"
      /\ hung_up'[c] = TRUE /\ lines'[c] = <<>> /\ took'[c] = <<>> /\ told'[c] = "-"
      /\ \A d \in Clients : d # c =>
           /\ pc'[d] = pc[d] /\ took'[d] = took[d] /\ told'[d] = told[d]
           /\ lines'[d] = lines[d] /\ hung_up'[d] = hung_up[d]
  <2>1. /\ pc \in [Clients -> Places] /\ took \in [Clients -> Seq(Line)]
        /\ told \in [Clients -> {"-", "ok", "failed"}] /\ lines \in [Clients -> Seq(Line)]
        /\ hung_up \in [Clients -> BOOLEAN]
    BY DEF PInv, LInv, ClientTypeOK, NetTypeOK
  <2>2. CASE Quit(c)
    BY <2>1, <2>2 DEF Quit, Leaves, Goto
  <2>3. CASE Kill(c)
    BY <2>1, <2>3 DEF Kill, Leaves, Goto
  <2> QED
    BY <2>2, <2>3
<1>2. /\ (Serves(c)' <=> Serves(c)) /\ (Running' <=> Running)
      /\ \A d \in Clients : InBacklog(d)' <=> InBacklog(d)
  BY <1>1, SameServer
<1>3. RestFacts /\ RestFacts'
  BY RestIs, RestIsNext DEF PInv
<1>4. Told(c)'
  BY <1>1, EmptySeq DEF Told, Kinds
<1>5. ASSUME c \notin dropped PROVE Talk(c)'
  <2>1. Talk(c)
    BY <1>5 DEF PInv, CInv
  <2>2. ASSUME Running
        PROVE  \/ requests[c] = <<>>
               \/ pc'[c] = "killed" /\ Len(requests[c]) = 1 /\ ~Serves(c)
    BY <1>1, <1>3, <2>1, <2>2 DEF Talk, Quiet, Asked, Answered, Taken, RestFacts, Kinds
  <2>3. CASE pc'[c] = "killed"
    <3>1. ASSUME Running PROVE Len(requests[c]) <= 1 /\ (requests[c] # <<>> => ~Serves(c))
      <4>1. CASE requests[c] = <<>>
        BY <4>1, EmptySeq
      <4>2. CASE requests[c] # <<>>
        <5>1. Len(requests[c]) = 1 /\ ~Serves(c)
          BY <2>2, <3>1, <4>2
        <5> QED
          BY <5>1
      <4> QED
        BY <4>1, <4>2
    <3>2. requests'[c] = requests[c]
      BY <1>1
    <3> QED
      BY <1>2, <2>3, <3>1, <3>2 DEF Talk, Kinds
  <2>4. CASE pc'[c] = "gone"
    <3>1. ASSUME Running PROVE ~InBacklog(c) /\ Quiet(c)
      BY <1>1, <2>1, <2>4, <3>1 DEF Talk
    <3>2. ASSUME Running PROVE Quiet(c)'
      BY <1>1, <1>2, <1>3, <3>1, <3>2 DEF Quiet, RestFacts
    <3> QED
      BY <1>2, <2>4, <3>1, <3>2 DEF Talk, Kinds
  <2> QED
    BY <1>1, <2>3, <2>4
<1> QED
  BY <1>1, <1>2, <1>4, <1>5, StepOfOne DEF CInv, Kinds

(***************************************************************************)
(* The theorems.                                                           *)
(***************************************************************************)
LEMMA InitPrompt == Init => PInv
<1> SUFFICES ASSUME Init PROVE PInv
  OBVIOUS
<1>1. LInv
  BY InitLoop
<1>2. SurvivesQuits
  BY DEF Init, NetInit, SurvivesQuits
<1>3. ASSUME NEW c \in Clients PROVE CInv(c)
  <2>1. /\ pc[c] = "start" /\ took[c] = <<>> /\ told[c] = "-" /\ requests[c] = <<>>
        /\ lines[c] = <<>> /\ hung_up[c] = FALSE /\ out = <<>> /\ Len(<<>>) = 0
    BY EmptySeq DEF Init, NetInit
  <2>2. Rest(c) = <<>>
    BY <1>1, <2>1, RestIs DEF RestFacts, Serves
  <2> QED
    BY <2>1, <2>2 DEF CInv, Told, Talk, Quiet, Kinds
<1> QED
  BY <1>1, <1>2, <1>3 DEF PInv

LEMMA NextPrompt == PInv /\ [PromptNext]_vars => PInv'
<1> SUFFICES ASSUME PInv, [PromptNext]_vars PROVE PInv'
  OBVIOUS
<1>1. LInv'
  BY NextLoop DEF PInv, PromptNext, PromptTimeout, Next
<1>2. ASSUME ServerStep, UNCHANGED clientVars PROVE PInv'
  <2>1. CASE Poll
    <3>1. /\ out = <<>> /\ out' = <<>> /\ Running' = Running
          /\ UNCHANGED <<process, backlog, dropped, requests, lines, hung_up>>
      BY <2>1 DEF Poll, Running
    <3> QED
      BY <1>1, <1>2, <3>1, IdleStep DEF PInv, SurvivesQuits, clientVars
  <2>2. CASE Accept
    BY <1>1, <1>2, <2>2, AcceptTalks DEF PInv
  <2>3. ASSUME NEW i \in Slots, Close(i) PROVE PInv'
    <3>1. /\ out = <<>> /\ out' = <<>> /\ Running' = Running
          /\ UNCHANGED <<process, backlog, dropped, requests, lines, hung_up>>
      BY <2>3 DEF Close, Running
    <3> QED
      BY <1>1, <1>2, <3>1, IdleStep DEF PInv, SurvivesQuits, clientVars
  <2>4. ASSUME NEW i \in Slots, Read(i) PROVE PInv'
    BY <1>1, <1>2, <2>4, ReadTalks DEF PInv
  <2>5. ASSUME NEW i \in Slots, Write(i) PROVE PInv'
    BY <1>1, <1>2, <2>5, WriteTalks DEF PInv
  <2> QED
    BY <1>2, <2>1, <2>2, <2>3, <2>4, <2>5 DEF ServerStep
<1>3. ASSUME PollFails, UNCHANGED clientVars PROVE PInv'
  <2>1. /\ out = <<>> /\ out' = <<>> /\ Running /\ process' = "poll failed"
        /\ UNCHANGED <<backlog, dropped, requests, lines, hung_up>>
    BY <1>3 DEF PollFails
  <2> QED
    BY <1>1, <1>3, <2>1, IdleStep DEF PInv, SurvivesQuits
<1>4. ASSUME NEW c \in Clients, ClientStep(c) \/ PromptTimeout(c) PROVE PInv'
  BY <1>1, <1>4, ConnectTalks, SendTalks, SendFailsTalks, ReceiveTalks, DisconnectedTalks,
     LeavingTalks, TimeoutTalks DEF ClientStep
<1>5. CASE UNCHANGED vars
  <2>1. UNCHANGED <<process, backlog, clients, dropped, revents, out, requests, lines, hung_up,
                    pc, calls, took, told>>
    BY <1>5 DEF vars, serverVars, clientVars
  <2>2. ASSUME NEW d \in Clients PROVE CInv(d)'
    <3>1. /\ (Serves(d)' <=> Serves(d)) /\ (InBacklog(d)' <=> InBacklog(d))
          /\ Running' <=> Running
      BY <2>1, SameServer
    <3>2. Rest(d)' = Rest(d)
      BY <2>1, <3>1 DEF Rest
    <3> QED
      BY <2>1, <3>1, <3>2, Frame DEF PInv
  <2> QED
    BY <1>1, <2>1, <2>2 DEF PInv, SurvivesQuits
<1> QED
  BY <1>2, <1>3, <1>4, <1>5 DEF PromptNext, NetStep

LEMMA PromptStays == PromptSpec => []PInv
BY InitPrompt, NextPrompt, PTL DEF PromptSpec

\* A server that never lets a client wait for more than its timeouts never sees a
\* second request before it has answered the first and the answer was taken: the
\* assumption under which LineBufferProofs shows lines whole (net_server.c:140).
THEOREM OneRequestAhead == PromptSpec => []OneLineAhead
<1>1. PInv => OneLineAhead
  <2> SUFFICES ASSUME PInv, NEW c \in Clients, requests[c] # <<>>, c \notin dropped, Running
               PROVE  Len(requests[c]) = 1 /\ lines[c] = <<>> /\ ~Serves(c)
    BY DEF OneLineAhead
  <2>1. RestFacts /\ Told(c) /\ Talk(c) /\ pc[c] \in Places
    BY RestIs DEF PInv, CInv, LInv, ClientTypeOK
  <2>2. CASE pc[c] = "killed"
    <3>1. Len(requests[c]) <= 1 /\ Len(requests[c]) \in Nat \ {0}
      BY <2>1, <2>2, EmptySeq DEF Talk, PInv, LInv, NetTypeOK
    <3>2. PICK l \in Nat \ {0} : l = Len(requests[c])
      BY <3>1
    <3>3. l <= 1
      BY <3>1, <3>2
    <3>4. l = 1
      BY <3>3
    <3> QED
      BY <2>1, <2>2, <3>2, <3>4 DEF Told, Talk
  <2>3. CASE pc[c] # "killed"
    <3>1. Asked(c)
      BY <2>1, <2>3 DEF Talk, Quiet, Answered, Taken, Places
    <3> QED
      BY <2>1, <3>1 DEF Asked, RestFacts
  <2> QED
    BY <2>2, <2>3
<1> QED
  BY <1>1, PromptStays, PTL

\* Under the same assumption a request function takes no line of another answer, and
\* takes all of its own before it returns 0, for lists of any length
\* (main_client.c:41, 175).
THEOREM AnswersKeepStep == PromptSpec => []AnswersInStep
<1>1. PInv => AnswersInStep
  BY DEF PInv, CInv, Told, AnswersInStep
<1> QED
  BY <1>1, PromptStays, PTL

\* And only a client that was killed can end the server with SIGPIPE
\* (net_server.c:112).
THEOREM QuitsAreHarmless == PromptSpec => []SurvivesQuits
<1>1. PInv => SurvivesQuits
  BY DEF PInv
<1> QED
  BY <1>1, PromptStays, PTL
=============================================================================
