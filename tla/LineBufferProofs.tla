--------------------------- MODULE LineBufferProofs ---------------------------
(***************************************************************************)
(* The line framing of LineBuffer, for a buffer and lines of any size: its *)
(* types under every window; and, for a client that sends at most two      *)
(* lines ahead of the answers, that the lines handled are the lines sent   *)
(* and that memmove stays in the buffer.                                   *)
(***************************************************************************)
EXTENDS LineBuffer, SequenceTheorems, TLAPS

(***************************************************************************)
(* Type correctness, without any assumption on the window.                 *)
(***************************************************************************)
LEMMA InitType == Init => TypeOK
<1> SUFFICES ASSUME Init PROVE TypeOK
  OBVIOUS
<1>1. NL \in Bytes /\ 0 \in 0 .. Size - 1
  BY LineBufferAssumption DEF Bytes
<1>2. buffer \in [0 .. Size - 1 -> Bytes]
  BY <1>1 DEF Init
<1>3. <<>> \in Seq(Lengths) /\ <<>> \in Seq(Bytes)
  BY EmptySeq
<1> QED
  BY <1>1, <1>2, <1>3 DEF Init, TypeOK

\* A piece that was read, and what the loop leaves after a line, are bytes of the
\* buffer (net_server.c:140, 179).
LEMMA NextType == TypeOK /\ [Next]_vars => TypeOK'
<1> SUFFICES ASSUME TypeOK, [Next]_vars PROVE TypeOK'
  OBVIOUS
<1> USE DEF TypeOK
<1>1. Size \in Nat \ {0} /\ MaxLines \in Nat
  BY LineBufferAssumption
<1>2. ASSUME NEW n \in Lengths, SendLine(n) PROVE TypeOK'
  <2> DEFINE piece == [k \in 1 .. n |-> Len(sent) + 1]
  <2>1. n \in Nat /\ Len(sent) + 1 \in Bytes /\ NL \in Bytes
    BY <1>1, <1>2, LineBufferAssumption DEF SendLine, Bytes
  <2>2. piece \in Seq(Bytes)
    BY <2>1
  <2>3. wire' = wire \o Append(piece, NL) /\ sent' = Append(sent, n)
    BY <1>2 DEF SendLine
  <2> HIDE DEF piece
  <2>4. wire' \in Seq(Bytes) /\ sent' \in Seq(Lengths)
    BY <2>1, <2>2, <2>3
  <2> QED
    BY <1>2, <2>4 DEF SendLine
<1>3. CASE HangUp
  BY <1>3 DEF HangUp
<1>4. CASE Read
  <2>1. PICK n \in 1 .. Room(buf_pos) :
          /\ n <= Len(wire)
          /\ buffer' = [i \in 0 .. Size - 1 |->
                          CASE i \in buf_pos .. buf_pos + n - 1 -> wire[i - buf_pos + 1]
                            [] i = buf_pos + n -> NUL
                            [] OTHER -> buffer[i]]
          /\ buf_pos' = buf_pos + n
          /\ wire' = SubSeq(wire, n + 1, Len(wire))
    BY <1>4 DEF Read
  <2>2. buf_pos' \in 0 .. Size - 1
    BY <1>1, <2>1 DEF Room
  <2>3. wire' \in Seq(Bytes)
    BY <2>1
  <2>4. ASSUME NEW i \in 0 .. Size - 1 PROVE buffer'[i] \in Bytes
    <3>1. CASE i \in buf_pos .. buf_pos + n - 1
      <4>1. i - buf_pos + 1 \in 1 .. Len(wire)
        BY SMTT(60), <1>1, <2>1, <3>1
      <4> QED
        BY <2>1, <3>1, <4>1, ElementOfSeq
    <3>2. CASE i = buf_pos + n
      BY <1>1, <2>1, <3>2 DEF Bytes
    <3>3. CASE i \notin buf_pos .. buf_pos + n - 1 /\ i # buf_pos + n
      BY <2>1, <3>3
    <3> QED
      BY <3>1, <3>2, <3>3
  <2> QED
    BY <1>4, <2>1, <2>2, <2>3, <2>4 DEF Read
<1>5. CASE Close
  BY <1>5 DEF Close
<1>6. CASE HandleLine
  <2>1. PICK e \in 0 .. Size - 1 :
          IF buf_pos - e - 1 < 0
          THEN pc' = "crashed" /\ UNCHANGED <<buffer, buf_pos>>
          ELSE /\ buf_pos' = buf_pos - e - 1
               /\ buffer' = Shifted(e, buf_pos - e - 1)
               /\ pc' \in IF hung_up THEN {pc, "crashed"} ELSE {pc}
    BY <1>6 DEF HandleLine
  <2>2. CASE buf_pos - e - 1 < 0
    BY <1>6, <2>1, <2>2 DEF HandleLine
  <2>3. CASE buf_pos - e - 1 >= 0
    <3>1. buf_pos' \in 0 .. Size - 1
      BY <1>1, <2>1, <2>3
    <3>2. [buffer EXCEPT ![e] = NUL] \in [0 .. Size - 1 -> Bytes]
      BY DEF Bytes
    <3>3. Shifted(e, buf_pos - e - 1) \in [0 .. Size - 1 -> Bytes]
      BY <1>1, <2>3, <3>2 DEF Shifted
    <3> QED
      BY <1>1, <1>6, <2>1, <2>3, <3>1, <3>3 DEF HandleLine
  <2> QED
    BY <1>1, <2>2, <2>3
<1>7. CASE NoMoreLines
  BY <1>7 DEF NoMoreLines
<1>8. CASE UNCHANGED vars
  BY <1>8 DEF vars
<1> QED
  BY <1>2, <1>3, <1>4, <1>5, <1>6, <1>7, <1>8 DEF Next, Server

\* However the client sends and the bytes arrive, the buffer is written inside its
\* bounds by read and by its '\0' (net_server.c:140, 152).
THEOREM BufferTypes == Spec => []TypeOK
BY InitType, NextType, PTL DEF Spec

(***************************************************************************)
(* A client at most two lines ahead.  The bytes that are not handled yet,  *)
(* those in the buffer and then those on the wire, are the first lines of  *)
(* the client that are not handled: one, or one and part or all of the     *)
(* next.  Total is their number, and Byte the one at position p.           *)
(***************************************************************************)
Byte(s, h, p) ==
  CASE p < s[h + 1] -> h + 1
    [] p = s[h + 1] -> NL
    [] OTHER -> IF p < s[h + 1] + 1 + s[h + 2] THEN h + 2 ELSE NL

Total(s, h) ==
  CASE Len(s) = h -> 0
    [] Len(s) = h + 1 -> s[h + 1] + 1
    [] OTHER -> s[h + 1] + s[h + 2] + 2

Counted(s, h) == h <= Len(s) /\ Len(s) <= h + 2

Whole ==
  /\ handled \in Seq(Seq(Bytes))
  /\ Counted(sent, Len(handled))
  /\ \A i \in 1 .. Len(handled) : handled[i] = LineOf(i)

Stream ==
  /\ buf_pos + Len(wire) = Total(sent, Len(handled))
  /\ \A i \in 0 .. buf_pos - 1 : buffer[i] = Byte(sent, Len(handled), i)
  /\ \A k \in 1 .. Len(wire) : wire[k] = Byte(sent, Len(handled), buf_pos + k - 1)

\* strchr finds no newline left over from a line handled before: a '\0' comes first,
\* or the one line in the buffer ends at buf_pos.
Ended(b, pos, s, h) ==
  \/ \E j \in pos .. Size - 1 : b[j] = NUL /\ \A i \in pos .. j - 1 : b[i] # NL
  \/ h < Len(s) /\ pos = s[h + 1] + 1

Guarded == pc = "lines" => Ended(buffer, buf_pos, sent, Len(handled))

NoOverrun == pc = "crashed" => hung_up

IInv == TypeOK /\ Whole /\ Stream /\ Guarded /\ NoOverrun

\* The streams of zero, one and two lines.
LEMMA ByteFacts ==
  ASSUME NEW s \in Seq(Nat), NEW h \in Nat, Counted(s, h), NEW p \in Nat, p < Total(s, h)
  PROVE  /\ h < Len(s) /\ s[h + 1] \in Nat
         /\ p < s[h + 1] => Byte(s, h, p) = h + 1
         /\ p = s[h + 1] => Byte(s, h, p) = NL
         /\ p > s[h + 1] => /\ Len(s) = h + 2 /\ s[h + 2] \in Nat
                            /\ p < s[h + 1] + 1 + s[h + 2] => Byte(s, h, p) = h + 2
                            /\ p = s[h + 1] + 1 + s[h + 2] => Byte(s, h, p) = NL
                            /\ p <= s[h + 1] + 1 + s[h + 2]
<1>1. h < Len(s) /\ s[h + 1] \in Nat
  BY DEF Counted, Total
<1>2. CASE Len(s) = h + 1
  BY <1>1, <1>2 DEF Total, Byte
<1>3. CASE Len(s) = h + 2
  <2>1. s[h + 2] \in Nat
    BY <1>3
  <2> QED
    BY SMTT(60), <1>1, <1>3, <2>1 DEF Total, Byte
<1> QED
  BY <1>1, <1>2, <1>3 DEF Counted

\* Only the ends of lines are newlines.
LEMMA NewlineIsEnd ==
  ASSUME NEW s \in Seq(Nat), NEW h \in Nat, Counted(s, h), NEW p \in Nat, p < Total(s, h),
         Byte(s, h, p) = NL, \A i \in 0 .. p - 1 : Byte(s, h, i) # NL
  PROVE  p = s[h + 1]
<1>1. h < Len(s) /\ s[h + 1] \in Nat
  BY ByteFacts
<1>2. ~ (p < s[h + 1])
  BY ByteFacts DEF NL
<1>3. CASE p > s[h + 1]
  <2>1. s[h + 1] \in 0 .. p - 1 /\ s[h + 1] < Total(s, h)
    BY SMTT(60), <1>1, <1>3, LenProperties DEF Total, Counted
  <2>2. Byte(s, h, s[h + 1]) = NL
    BY <1>1, <2>1, ByteFacts
  <2> QED
    BY <2>1, <2>2
<1> QED
  BY <1>1, <1>2, <1>3

\* What a line more makes of the stream.
LEMMA LongerStream ==
  ASSUME NEW s \in Seq(Nat), NEW h \in Nat, Counted(s, h), Len(s) < h + 2, NEW n \in Nat
  PROVE  LET t == Append(s, n) IN
         /\ Counted(t, h)
         /\ Total(t, h) = Total(s, h) + n + 1
         /\ \A p \in Nat : p < Total(s, h) => Byte(t, h, p) = Byte(s, h, p)
         /\ \A k \in 1 .. n : Byte(t, h, Total(s, h) + k - 1) = Len(s) + 1
         /\ Byte(t, h, Total(s, h) + n) = NL
<1> DEFINE t == Append(s, n)
<1>1. /\ t \in Seq(Nat) /\ Len(t) = Len(s) + 1 /\ t[Len(s) + 1] = n
      /\ \A i \in 1 .. Len(s) : t[i] = s[i]
  OBVIOUS
<1> HIDE DEF t
<1>2. CASE Len(s) = h
  <2>1. Total(s, h) = 0 /\ Total(t, h) = n + 1 /\ Len(t) = h + 1 /\ t[h + 1] = n
    BY <1>1, <1>2 DEF Total
  <2> QED
    BY <1>1, <1>2, <2>1 DEF Byte, Counted, t
<1>3. CASE Len(s) = h + 1
  <2>1. s[h + 1] \in Nat /\ t[h + 1] = s[h + 1] /\ t[h + 2] = n /\ Len(t) = h + 2
    BY <1>1, <1>3
  <2>2. Total(s, h) = s[h + 1] + 1 /\ Total(t, h) = s[h + 1] + n + 2
    BY <1>3, <2>1 DEF Total
  <2>3. \A p \in Nat : p < Total(s, h) => Byte(t, h, p) = Byte(s, h, p)
    BY <2>1, <2>2 DEF Byte
  <2>4. \A p \in Nat : p >= Total(s, h) =>
          Byte(t, h, p) = IF p < Total(s, h) + n THEN h + 2 ELSE NL
    BY SMTT(60), <2>1, <2>2 DEF Byte
  <2> HIDE DEF Byte, Total
  <2>5. PICK T \in Nat : T = Total(s, h)
    BY <2>1, <2>2
  <2>6. ASSUME NEW k \in 1 .. n
        PROVE  Byte(t, h, Total(s, h) + k - 1) = Len(s) + 1
    <3>1. T + k - 1 \in Nat /\ T + k - 1 >= T /\ T + k - 1 < T + n
      OBVIOUS
    <3> QED
      BY <1>3, <2>4, <2>5, <3>1
  <2>7. Byte(t, h, Total(s, h) + n) = NL
    <3>1. T + n \in Nat /\ T + n >= T /\ ~ (T + n < T + n)
      OBVIOUS
    <3> QED
      BY <2>4, <2>5, <3>1
  <2> QED
    BY <1>3, <2>1, <2>2, <2>3, <2>6, <2>7 DEF Counted, t
<1> QED
  BY <1>2, <1>3 DEF Counted

\* What is left of the stream after the first line.
LEMMA ShorterStream ==
  ASSUME NEW s \in Seq(Nat), NEW h \in Nat, Counted(s, h), h < Len(s)
  PROVE  /\ Counted(s, h + 1)
         /\ Total(s, h + 1) = Total(s, h) - s[h + 1] - 1
         /\ \A p \in Nat : p < Total(s, h + 1) =>
              Byte(s, h + 1, p) = Byte(s, h, p + s[h + 1] + 1)
<1>1. s[h + 1] \in Nat
  BY LenProperties, ElementOfSeq
<1>2. CASE Len(s) = h + 1
  <2>1. Total(s, h + 1) = 0 /\ Total(s, h) = s[h + 1] + 1
    BY <1>1, <1>2 DEF Total
  <2> QED
    BY <1>1, <1>2, <2>1 DEF Counted
<1>3. CASE Len(s) = h + 2
  <2>1. s[h + 2] \in Nat
    BY <1>3
  <2>2. Total(s, h + 1) = s[h + 2] + 1 /\ Total(s, h) = s[h + 1] + s[h + 2] + 2
    BY SMTT(60), <1>1, <1>3, <2>1 DEF Total
  <2>3. ASSUME NEW p \in Nat, p < Total(s, h + 1)
        PROVE  Byte(s, h + 1, p) = Byte(s, h, p + s[h + 1] + 1)
    <3>1. PICK a \in Nat, b \in Nat : a = s[h + 1] /\ b = s[h + 2]
      BY <1>1, <2>1
    <3>2. Total(s, h + 1) = b + 1 /\ Total(s, h) = a + b + 2
      BY <2>2, <3>1
    <3>3. /\ p + a + 1 \in Nat /\ p + a + 1 < a + b + 2 /\ p + a + 1 > a /\ p <= b
          /\ p + a + 1 < a + 1 + b <=> p < b
          /\ p + a + 1 = a + 1 + b <=> p = b
      BY <2>3, <3>2
    <3>4. Byte(s, h, p + a + 1) = IF p < b THEN h + 2 ELSE NL
      <4> DEFINE q == p + a + 1
      <4>1. q \in Nat /\ q < Total(s, h) /\ q > s[h + 1]
        BY <3>1, <3>2, <3>3
      <4>2. /\ q < a + 1 + b <=> p < b
            /\ q = a + 1 + b <=> p = b
        BY <3>3
      <4> HIDE DEF q
      <4>3. /\ q < a + 1 + b => Byte(s, h, q) = h + 2
            /\ q = a + 1 + b => Byte(s, h, q) = NL
        BY <3>1, <4>1, ByteFacts
      <4>4. Byte(s, h, q) = IF p < b THEN h + 2 ELSE NL
        BY <3>3, <4>2, <4>3
      <4> QED
        BY <4>4 DEF q
    <3>5. Byte(s, h + 1, p) = IF p < b THEN h + 2 ELSE NL
      BY SMTT(60), <3>1, <3>3 DEF Byte
    <3> QED
      BY <3>1, <3>4, <3>5
  <2> QED
    BY SMTT(60), <1>1, <1>3, <2>1, <2>2, <2>3 DEF Counted
<1> QED
  BY <1>2, <1>3 DEF Counted

(***************************************************************************)
(* The steps.                                                              *)
(***************************************************************************)
LEMMA TypesOfIInv ==
  ASSUME IInv
  PROVE  /\ TypeOK /\ sent \in Seq(Nat) /\ Len(sent) \in Nat /\ Len(handled) \in Nat
         /\ Size \in Nat \ {0} /\ buf_pos \in 0 .. Size - 1 /\ Len(wire) \in Nat
         /\ handled \in Seq(Seq(Bytes)) /\ Counted(sent, Len(handled))
BY LineBufferAssumption, SeqMonotonic, LenProperties DEF IInv, TypeOK, Whole

\* A line more on the wire.
LEMMA SendKeeps ==
  ASSUME Window <= 2, IInv, NEW n \in Lengths, SendLine(n)
  PROVE  Whole' /\ Stream' /\ Guarded' /\ NoOverrun'
<1> DEFINE h == Len(handled)
           piece == [k \in 1 .. n |-> Len(sent) + 1]
<1>1. /\ sent \in Seq(Nat) /\ h \in Nat /\ Len(sent) \in Nat /\ wire \in Seq(Bytes)
      /\ buf_pos \in 0 .. Size - 1 /\ Counted(sent, h) /\ n \in Nat
  BY TypesOfIInv, LineBufferAssumption DEF TypeOK
<1>2. Len(sent) < h + 2
  BY <1>1, LineBufferAssumption DEF SendLine
<1>3. /\ sent' = Append(sent, n) /\ handled' = handled /\ buffer' = buffer
      /\ buf_pos' = buf_pos /\ pc' = pc /\ hung_up' = hung_up
      /\ wire' = wire \o Append(piece, NL)
  BY DEF SendLine
<1>4. /\ sent' \in Seq(Nat) /\ Len(sent') = Len(sent) + 1
      /\ \A i \in 1 .. Len(sent) : sent'[i] = sent[i]
  BY <1>1, <1>3
<1>5. /\ Counted(sent', h)
      /\ Total(sent', h) = Total(sent, h) + n + 1
      /\ \A p \in Nat : p < Total(sent, h) => Byte(sent', h, p) = Byte(sent, h, p)
      /\ \A k \in 1 .. n : Byte(sent', h, Total(sent, h) + k - 1) = Len(sent) + 1
      /\ Byte(sent', h, Total(sent, h) + n) = NL
  BY <1>1, <1>2, <1>3, LongerStream
<1>6. Whole'
  <2>1. \A i \in 1 .. h : handled'[i] = LineOf(i)'
    BY <1>1, <1>3, <1>4 DEF IInv, Whole, LineOf, Counted
  <2> QED
    BY <1>3, <1>5, <2>1 DEF IInv, Whole
<1>7. /\ wire' \in Seq(Int) /\ Len(wire') = Len(wire) + n + 1
      /\ \A k \in 1 .. Len(wire) : wire'[k] = wire[k]
      /\ \A k \in 1 .. n : wire'[Len(wire) + k] = Len(sent) + 1
      /\ wire'[Len(wire) + n + 1] = NL
  <2>1. /\ Append(piece, NL) \in Seq(Int) /\ Len(Append(piece, NL)) = n + 1
        /\ \A k \in 1 .. n : Append(piece, NL)[k] = Len(sent) + 1
        /\ Append(piece, NL)[n + 1] = NL
    BY <1>1 DEF NL
  <2>2. wire \in Seq(Int) /\ Len(wire) \in Nat
    BY <1>1, LineBufferAssumption, SeqMonotonic DEF Bytes, NL, NUL
  <2> HIDE DEF piece
  <2> QED
    BY SMTT(60), <1>1, <1>3, <2>1, <2>2, ConcatProperties
<1>8. Stream'
  <2>1. PICK T \in Nat, L \in Nat : T = Total(sent, h) /\ L = Len(wire) /\ buf_pos + L = T
    <3>1. Len(wire) \in Nat /\ buf_pos + Len(wire) = Total(sent, h)
      BY <1>1, LenProperties DEF IInv, Stream
    <3>2. buf_pos + Len(wire) \in Nat
      BY <1>1, <3>1
    <3> QED
      BY <3>1, <3>2
  <2>2. buf_pos' + Len(wire') = Total(sent', Len(handled'))
    BY <1>1, <1>3, <1>5, <1>7, <2>1
  <2>3. ASSUME NEW i \in 0 .. buf_pos - 1
        PROVE  buffer'[i] = Byte(sent', Len(handled'), i)
    <3>1. i \in Nat /\ i < Total(sent, h)
      BY <1>1, <2>1
    <3> QED
      BY <1>3, <1>5, <3>1 DEF IInv, Stream
  <2>4. ASSUME NEW k \in 1 .. Len(wire')
        PROVE  wire'[k] = Byte(sent', Len(handled'), buf_pos' + k - 1)
    <3>1. k \in 1 .. L + n + 1
      BY <1>7, <2>1
    <3>2. CASE k \in 1 .. L
      <4>1. buf_pos + k - 1 \in Nat /\ buf_pos + k - 1 < T
        BY <1>1, <2>1, <3>2
      <4>2. wire[k] = Byte(sent, h, buf_pos + k - 1)
        BY <2>1, <3>2 DEF IInv, Stream
      <4> QED
        BY <1>3, <1>5, <1>7, <2>1, <3>2, <4>1, <4>2
    <3>3. CASE k \in L + 1 .. L + n
      <4>1. PICK m \in 1 .. n : k = L + m
        <5>1. k - L \in 1 .. n /\ k = L + (k - L)
          BY <1>1, <2>1, <3>3
        <5> QED
          BY <5>1
      <4>2. buf_pos + k - 1 = T + m - 1
        BY <1>1, <2>1, <4>1
      <4>3. wire'[L + m] = Len(sent) + 1 /\ Byte(sent', h, T + m - 1) = Len(sent) + 1
        BY <1>5, <1>7, <2>1
      <4> QED
        BY <1>3, <4>1, <4>2, <4>3
    <3>4. CASE k = L + n + 1
      <4>1. buf_pos + k - 1 = T + n
        BY <1>1, <2>1, <3>4
      <4>2. wire'[L + n + 1] = NL /\ Byte(sent', h, T + n) = NL
        BY <1>5, <1>7, <2>1
      <4> QED
        BY <1>3, <3>4, <4>1, <4>2
    <3> QED
      BY SMTT(60), <1>1, <2>1, <3>1, <3>2, <3>3, <3>4
  <2> QED
    BY <1>3, <2>2, <2>3, <2>4 DEF Stream
<1>9. Guarded'
  <2>1. ASSUME pc = "lines"
        PROVE  Ended(buffer, buf_pos, sent', h)
    <3>1. Ended(buffer, buf_pos, sent, h)
      BY <2>1 DEF IInv, Guarded
    <3>2. h < Len(sent) => h < Len(sent') /\ sent'[h + 1] = sent[h + 1]
      <4> SUFFICES ASSUME h < Len(sent) PROVE h < Len(sent') /\ sent'[h + 1] = sent[h + 1]
        OBVIOUS
      <4> HIDE DEF h
      <4>1. h + 1 \in 1 .. Len(sent)
        BY <1>1
      <4> QED
        BY SMTT(60), <1>1, <1>4, <4>1
    <3> QED
      BY <3>1, <3>2 DEF Ended
  <2> QED
    BY <1>3, <2>1 DEF Guarded
<1> QED
  BY <1>3, <1>6, <1>8, <1>9 DEF IInv, NoOverrun

\* A piece moved from the wire to the buffer, with a '\0' behind it.
LEMMA ReadKeeps ==
  ASSUME IInv, Read
  PROVE  Whole' /\ Stream' /\ Guarded' /\ NoOverrun'
<1> DEFINE h == Len(handled)
<1>1. /\ sent \in Seq(Nat) /\ h \in Nat /\ Size \in Nat \ {0} /\ wire \in Seq(Bytes)
      /\ Len(wire) \in Nat /\ buf_pos \in 0 .. Size - 1
      /\ buffer \in [0 .. Size - 1 -> Bytes]
  BY TypesOfIInv DEF TypeOK
<1>2. sent' = sent /\ handled' = handled /\ hung_up' = hung_up /\ pc' = "lines" /\ pc = "poll"
  BY DEF Read
<1>3. PICK n \in 1 .. Room(buf_pos) :
        /\ n <= Len(wire)
        /\ buffer' = [i \in 0 .. Size - 1 |->
                        CASE i \in buf_pos .. buf_pos + n - 1 -> wire[i - buf_pos + 1]
                          [] i = buf_pos + n -> NUL
                          [] OTHER -> buffer[i]]
        /\ buf_pos' = buf_pos + n
        /\ wire' = SubSeq(wire, n + 1, Len(wire))
  BY DEF Read
<1>4. n \in Nat /\ n >= 1 /\ buf_pos + n <= Size - 1
  BY <1>1, <1>3 DEF Room
<1>5. Len(wire') = Len(wire) - n /\ \A k \in 1 .. Len(wire) - n : wire'[k] = wire[n + k]
  <2>1. \A i \in n + 1 .. Len(wire) : wire[i] \in Bytes
    BY <1>1, <1>4, ElementOfSeq
  <2>2. /\ Len(wire') = IF n + 1 <= Len(wire) THEN Len(wire) - (n + 1) + 1 ELSE 0
        /\ \A k \in 1 .. Len(wire) - (n + 1) + 1 : wire'[k] = wire[(n + 1) + k - 1]
    BY SMTT(60), <1>1, <1>3, <1>4, <2>1, SubSeqProperties
  <2>3. PICK L \in Nat : L = Len(wire) /\ n <= L
    BY <1>1, <1>3
  <2>4. Len(wire') = L - n
    BY <1>4, <2>2, <2>3
  <2>5. ASSUME NEW k \in 1 .. L - n
        PROVE  wire'[k] = wire[n + k]
    <3>1. k \in 1 .. L - (n + 1) + 1 /\ (n + 1) + k - 1 = n + k
      BY <1>4, <2>3
    <3>2. wire'[k] = wire[(n + 1) + k - 1]
      BY <2>2, <2>3, <3>1
    <3> QED
      BY <3>1, <3>2
  <2> QED
    BY <2>3, <2>4, <2>5
<1>6. Whole'
  BY <1>2 DEF IInv, Whole, LineOf
<1>7. Stream'
  <2>1. buf_pos' + Len(wire') = Total(sent', Len(handled'))
    BY <1>1, <1>2, <1>3, <1>4, <1>5 DEF IInv, Stream
  <2>2. ASSUME NEW i \in 0 .. buf_pos' - 1
        PROVE  buffer'[i] = Byte(sent', Len(handled'), i)
    <3>1. i \in 0 .. Size - 1
      BY <1>1, <1>3, <1>4
    <3>2. CASE i \in 0 .. buf_pos - 1
      BY SMTT(60), <1>1, <1>2, <1>3, <1>4, <3>1, <3>2 DEF IInv, Stream
    <3>3. CASE i \in buf_pos .. buf_pos + n - 1
      <4>1. i - buf_pos + 1 \in 1 .. Len(wire) /\ buf_pos + (i - buf_pos + 1) - 1 = i
        BY SMTT(60), <1>1, <1>3, <1>4, <3>3
      <4>2. buffer'[i] = wire[i - buf_pos + 1]
        BY <1>3, <3>1, <3>3
      <4> QED
        BY <1>2, <4>1, <4>2 DEF IInv, Stream
    <3> QED
      BY <1>1, <1>3, <1>4, <3>2, <3>3
  <2>3. ASSUME NEW k \in 1 .. Len(wire')
        PROVE  wire'[k] = Byte(sent', Len(handled'), buf_pos' + k - 1)
    <3>1. n + k \in 1 .. Len(wire) /\ k \in 1 .. Len(wire) - n
      BY <1>1, <1>4, <1>5
    <3>2. buf_pos + (n + k) - 1 = buf_pos' + k - 1
      BY <1>1, <1>3, <1>4
    <3>3. wire[n + k] = Byte(sent, h, buf_pos + (n + k) - 1)
      BY <3>1 DEF IInv, Stream
    <3> QED
      BY <1>2, <1>5, <3>1, <3>2, <3>3
  <2> QED
    BY <2>1, <2>2, <2>3 DEF Stream
<1>8. Ended(buffer', buf_pos', sent', Len(handled'))
  <2>1. /\ buf_pos' \in buf_pos' .. Size - 1 /\ buffer'[buf_pos'] = NUL
        /\ \A i \in buf_pos' .. buf_pos' - 1 : FALSE
    BY <1>1, <1>3, <1>4
  <2> QED
    BY <2>1 DEF Ended
<1> QED
  BY <1>2, <1>6, <1>7, <1>8 DEF Guarded, NoOverrun

\* strchr finds the end of the first line that is not handled, and nothing else
\* (net_server.c:154).
LEMMA FindsTheLine ==
  ASSUME IInv, pc = "lines", NEW e \in 0 .. Size - 1, IsLineEnd(e)
  PROVE  /\ e < buf_pos
         /\ Len(handled) < Len(sent)
         /\ e = sent[Len(handled) + 1]
<1> DEFINE h == Len(handled)
<1>1. /\ sent \in Seq(Nat) /\ h \in Nat /\ Size \in Nat \ {0} /\ Len(wire) \in Nat
      /\ buf_pos \in 0 .. Size - 1 /\ Counted(sent, h)
  BY TypesOfIInv
<1>2. buf_pos + Len(wire) = Total(sent, h) /\ \A i \in 0 .. buf_pos - 1 : buffer[i] = Byte(sent, h, i)
  BY DEF IInv, Stream
<1>3. buffer[e] = NL /\ \A i \in 0 .. e - 1 : buffer[i] # NL /\ buffer[i] # NUL
  BY DEF IsLineEnd
<1>4. Ended(buffer, buf_pos, sent, h)
  BY DEF IInv, Guarded
<1> HIDE DEF h
<1>5. ASSUME e >= buf_pos PROVE FALSE
  <2>1. ASSUME NEW j \in buf_pos .. Size - 1, buffer[j] = NUL,
               \A i \in buf_pos .. j - 1 : buffer[i] # NL
        PROVE  FALSE
    <3>1. CASE e < j
      BY <1>1, <1>3, <1>5, <2>1, <3>1
    <3>2. CASE e = j
      BY <1>3, <2>1, <3>2 DEF NL, NUL
    <3>3. CASE e > j
      <4>1. j \in 0 .. e - 1
        BY <1>1, <3>3
      <4> QED
        BY <1>3, <2>1, <4>1
    <3> QED
      BY <1>1, <3>1, <3>2, <3>3
  <2>2. ASSUME h < Len(sent), buf_pos = sent[h + 1] + 1
        PROVE  FALSE
    <3>1. sent[h + 1] \in Nat
      BY <1>1, <2>2
    <3>2. buf_pos - 1 \in Nat /\ buf_pos - 1 < Total(sent, h) /\ buf_pos - 1 = sent[h + 1]
      BY SMTT(60), <1>1, <1>2, <2>2, <3>1
    <3>3. Byte(sent, h, buf_pos - 1) = NL
      BY <1>1, <3>2, ByteFacts
    <3>4. buf_pos - 1 \in 0 .. buf_pos - 1 /\ buf_pos - 1 \in 0 .. e - 1
      BY <1>1, <1>5, <3>2
    <3> QED
      BY <1>2, <1>3, <3>3, <3>4
  <2> QED
    BY <1>4, <2>1, <2>2 DEF Ended
<1>6. e < buf_pos
  BY <1>1, <1>5
<1>7. /\ e \in Nat /\ e < Total(sent, h)
      /\ Byte(sent, h, e) = NL /\ \A i \in 0 .. e - 1 : Byte(sent, h, i) # NL
  <2>1. e \in 0 .. buf_pos - 1 /\ \A i \in 0 .. e - 1 : i \in 0 .. buf_pos - 1
    BY <1>1, <1>6
  <2> QED
    BY <1>1, <1>2, <1>3, <1>6, <2>1
<1>8. h < Len(sent)
  BY <1>1, <1>7, ByteFacts
<1>9. e = sent[h + 1]
  BY <1>1, <1>7, NewlineIsEnd
<1> QED
  BY <1>6, <1>8, <1>9 DEF h

\* The line taken is the line sent, and what follows it in the buffer is the next:
\* memmove has not gone beyond buf_pos (net_server.c:178).
LEMMA HandleKeeps ==
  ASSUME IInv, HandleLine
  PROVE  Whole' /\ Stream' /\ Guarded' /\ NoOverrun'
<1> DEFINE h == Len(handled)
<1>1. /\ sent \in Seq(Nat) /\ h \in Nat /\ Size \in Nat \ {0} /\ Len(wire) \in Nat
      /\ handled \in Seq(Seq(Bytes)) /\ Len(sent) \in Nat
      /\ buf_pos \in 0 .. Size - 1 /\ Counted(sent, h)
      /\ buffer \in [0 .. Size - 1 -> Bytes]
  BY TypesOfIInv DEF TypeOK
<1>2. pc = "lines" /\ sent' = sent /\ wire' = wire /\ hung_up' = hung_up
  BY DEF HandleLine
<1>3. PICK e \in 0 .. Size - 1 :
        /\ IsLineEnd(e)
        /\ handled' = Append(handled, [k \in 1 .. e |-> buffer[k - 1]])
        /\ IF buf_pos - e - 1 < 0
           THEN pc' = "crashed" /\ UNCHANGED <<buffer, buf_pos>>
           ELSE /\ buf_pos' = buf_pos - e - 1
                /\ buffer' = Shifted(e, buf_pos - e - 1)
                /\ pc' \in IF hung_up THEN {pc, "crashed"} ELSE {pc}
  BY DEF HandleLine
<1>4. e < buf_pos /\ h < Len(sent) /\ e = sent[h + 1]
  BY <1>2, <1>3, FindsTheLine
<1>5. PICK n \in Nat : n = buf_pos - e - 1
  BY <1>1, <1>4
<1>6. /\ buf_pos' = n /\ buf_pos = n + e + 1 /\ n + e + 1 <= Size - 1 /\ e \in Nat
      /\ buffer' = Shifted(e, n)
      /\ pc' \in IF hung_up THEN {pc, "crashed"} ELSE {pc}
  <2>1. e \in Nat /\ buf_pos = n + e + 1 /\ n + e + 1 <= Size - 1
    BY <1>1, <1>5
  <2>2. IF n < 0
        THEN pc' = "crashed" /\ UNCHANGED <<buffer, buf_pos>>
        ELSE /\ buf_pos' = n
             /\ buffer' = Shifted(e, n)
             /\ pc' \in IF hung_up THEN {pc, "crashed"} ELSE {pc}
    BY <1>3, <1>5
  <2> QED
    BY <2>1, <2>2
<1>7. \A i \in 0 .. Size - 1 :
        /\ i < n => buffer'[i] = buffer[i + e + 1]
        /\ i >= n /\ i # e => buffer'[i] = buffer[i]
        /\ i >= n /\ i = e => buffer'[i] = NUL
  <2>1. ASSUME NEW i \in 0 .. Size - 1, i < n
        PROVE  buffer'[i] = buffer[i + e + 1]
    <3>1. i + e + 1 \in 0 .. Size - 1 /\ i + e + 1 # e
      BY <1>1, <1>6, <2>1
    <3> QED
      BY <1>1, <1>6, <2>1, <3>1 DEF Shifted
  <2>2. ASSUME NEW i \in 0 .. Size - 1, i >= n
        PROVE  buffer'[i] = IF i = e THEN NUL ELSE buffer[i]
    BY <1>1, <1>6, <2>2 DEF Shifted
  <2> QED
    BY <2>1, <2>2
<1>8. /\ buf_pos + Len(wire) = Total(sent, h)
      /\ \A i \in 0 .. buf_pos - 1 : buffer[i] = Byte(sent, h, i)
      /\ \A k \in 1 .. Len(wire) : wire[k] = Byte(sent, h, buf_pos + k - 1)
  BY DEF IInv, Stream
<1> DEFINE line == [k \in 1 .. e |-> buffer[k - 1]]
<1>9. line = LineOf(h + 1) /\ line \in Seq(Bytes)
  <2>1. ASSUME NEW k \in 1 .. e
        PROVE  buffer[k - 1] = h + 1 /\ buffer[k - 1] \in Bytes
    <3>1. k - 1 \in Nat /\ k - 1 < e /\ k - 1 \in 0 .. buf_pos - 1 /\ k - 1 \in 0 .. Size - 1
      BY <1>1, <1>6
    <3>2. k - 1 < Total(sent, h)
      BY <1>1, <1>8, <3>1
    <3>3. Byte(sent, h, k - 1) = h + 1
      BY <1>1, <1>4, <3>1, <3>2, ByteFacts
    <3> QED
      BY <1>1, <1>8, <3>1, <3>3
  <2>2. line \in Seq(Bytes)
    BY <1>6, <2>1
  <2> QED
    BY <1>4, <2>1, <2>2 DEF LineOf
<1>10. /\ handled' \in Seq(Seq(Bytes)) /\ Len(handled') = h + 1 /\ handled'[h + 1] = line
       /\ \A i \in 1 .. h : handled'[i] = handled[i]
  <2> HIDE DEF line
  <2>1. line \in Seq(Bytes)
    BY <1>9
  <2>2. handled' = Append(handled, line)
    BY <1>3 DEF line
  <2> QED
    BY <1>1, <2>1, <2>2, AppendProperties
<1> HIDE DEF line, h
<1>11. /\ Counted(sent, h + 1)
       /\ Total(sent, h + 1) = Total(sent, h) - e - 1
       /\ \A p \in Nat : p < Total(sent, h + 1) =>
            Byte(sent, h + 1, p) = Byte(sent, h, p + e + 1)
  BY <1>1, <1>4, ShorterStream
<1>12. Whole'
  <2>1. \A i \in 1 .. h : handled[i] = LineOf(i)
    BY DEF IInv, Whole, h
  <2>2. ASSUME NEW i \in 1 .. h + 1
        PROVE  handled'[i] = LineOf(i)'
    <3>1. LineOf(i)' = LineOf(i)
      BY <1>2 DEF LineOf
    <3>2. CASE i \in 1 .. h
      BY <1>10, <2>1, <3>1, <3>2
    <3>3. CASE i = h + 1
      BY <1>9, <1>10, <3>1, <3>3
    <3> QED
      BY <1>1, <3>2, <3>3
  <2> QED
    BY <1>2, <1>10, <1>11, <2>2 DEF Whole
<1>13. PICK T \in Nat, L \in Nat :
         L = Len(wire) /\ T = Total(sent, h + 1) /\ n + L = T /\ Total(sent, h) = T + e + 1
  <2>1. n + Len(wire) \in Nat
    BY <1>1
  <2>2. n + Len(wire) = Total(sent, h + 1)
    BY <1>1, <1>6, <1>8, <1>11
  <2> QED
    BY <1>1, <1>6, <1>8, <2>1, <2>2
<1>14. Stream'
  <2>1. ASSUME NEW i \in 0 .. n - 1
        PROVE  buffer'[i] = Byte(sent, h + 1, i)
    <3>1. i \in Nat /\ i < T /\ i \in 0 .. Size - 1 /\ i < n /\ i + e + 1 \in 0 .. buf_pos - 1
      BY <1>1, <1>6, <1>13
    <3>2. Byte(sent, h + 1, i) = Byte(sent, h, i + e + 1)
      BY <1>11, <1>13, <3>1
    <3> QED
      BY <1>7, <1>8, <3>1, <3>2
  <2>2. ASSUME NEW k \in 1 .. L
        PROVE  wire[k] = Byte(sent, h + 1, n + k - 1)
    <3>1. n + k - 1 \in Nat /\ n + k - 1 < T /\ (n + k - 1) + e + 1 = buf_pos + k - 1
      BY <1>6, <1>13
    <3>2. Byte(sent, h + 1, n + k - 1) = Byte(sent, h, (n + k - 1) + e + 1)
      BY <1>11, <1>13, <3>1
    <3> QED
      BY <1>8, <1>13, <3>1, <3>2
  <2> QED
    BY <1>2, <1>6, <1>10, <1>13, <2>1, <2>2 DEF Stream
<1>15. Ended(buffer', n, sent, h + 1)
  <2>1. CASE n <= e
    <3>1. e \in n .. Size - 1 /\ buffer'[e] = NUL
      BY <1>1, <1>6, <1>7, <2>1
    <3>2. ASSUME NEW i \in n .. e - 1 PROVE buffer'[i] # NL
      <4>1. i \in 0 .. Size - 1 /\ i \in 0 .. e - 1 /\ i >= n /\ i # e
        BY <1>1, <1>6
      <4> QED
        BY <1>3, <1>7, <4>1 DEF IsLineEnd
    <3> QED
      BY <3>1, <3>2 DEF Ended
  <2>2. CASE n > e
    <3>1. buf_pos > e + 1
      BY <1>6, <2>2
    <3>2. \A p \in e + 1 .. buf_pos - 1 :
            /\ Len(sent) = h + 2 /\ sent[h + 2] \in Nat
            /\ p < e + 1 + sent[h + 2] => Byte(sent, h, p) = h + 2
            /\ p <= e + 1 + sent[h + 2]
      <4>1. ASSUME NEW p \in e + 1 .. buf_pos - 1
            PROVE  /\ Len(sent) = h + 2 /\ sent[h + 2] \in Nat
                   /\ p < e + 1 + sent[h + 2] => Byte(sent, h, p) = h + 2
                   /\ p <= e + 1 + sent[h + 2]
        <5>1. p \in Nat /\ p < Total(sent, h) /\ p > e
          BY <1>1, <1>6, <1>8
        <5> QED
          BY <1>1, <1>4, <5>1, ByteFacts
      <4> QED
        BY <4>1
    <3>3. Len(sent) = h + 2 /\ sent[h + 2] \in Nat /\ buf_pos - 1 <= e + 1 + sent[h + 2]
      <4>1. buf_pos - 1 \in e + 1 .. buf_pos - 1
        BY <1>1, <1>6, <3>1
      <4> QED
        BY <3>2, <4>1
    <3>4. CASE buf_pos = e + 2 + sent[h + 2]
      <4>1. n = sent[(h + 1) + 1] + 1 /\ h + 1 < Len(sent)
        <5>1. PICK z \in Nat : z = sent[h + 2] /\ buf_pos = e + 2 + z
          BY <3>3, <3>4
        <5>2. n \in Nat /\ e \in Nat /\ buf_pos = n + e + 1
          BY <1>6
        <5>3. n = z + 1
          BY <5>1, <5>2
        <5>4. h \in Nat /\ (h + 1) + 1 = h + 2 /\ h + 1 < h + 2
          BY <1>1
        <5> HIDE DEF h
        <5> QED
          BY <3>3, <5>1, <5>3, <5>4
      <4> QED
        BY <4>1 DEF Ended
    <3>5. CASE buf_pos < e + 2 + sent[h + 2]
      <4>1. \E j \in buf_pos .. Size - 1 :
              buffer[j] = NUL /\ \A i \in buf_pos .. j - 1 : buffer[i] # NL
        <5>1. Ended(buffer, buf_pos, sent, h)
          BY <1>2 DEF IInv, Guarded, h
        <5>2. buf_pos # sent[h + 1] + 1
          BY <1>1, <1>4, <3>1
        <5> QED
          BY <5>1, <5>2 DEF Ended
      <4>2. PICK j \in buf_pos .. Size - 1 :
              buffer[j] = NUL /\ \A i \in buf_pos .. j - 1 : buffer[i] # NL
        BY <4>1
      <4>3. j \in n .. Size - 1 /\ j \in 0 .. Size - 1 /\ j >= n /\ j # e
        BY <1>1, <1>6
      <4>4. buffer'[j] = NUL
        BY <1>7, <4>2, <4>3
      <4>5. ASSUME NEW i \in n .. j - 1 PROVE buffer'[i] # NL
        <5>1. i \in 0 .. Size - 1 /\ i >= n /\ i # e
          BY <1>1, <1>6, <2>2
        <5>2. buffer'[i] = buffer[i]
          BY <1>7, <5>1
        <5>3. CASE i < buf_pos
          <6>1. i \in e + 1 .. buf_pos - 1 /\ i \in 0 .. buf_pos - 1 /\ i < e + 1 + sent[h + 2]
            BY SMTT(60), <1>1, <1>6, <2>2, <3>3, <3>5, <5>1, <5>3
          <6>2. buffer[i] = h + 2
            BY <1>8, <3>2, <6>1
          <6> QED
            BY <1>1, <5>2, <6>2 DEF NL
        <5>4. CASE i >= buf_pos
          <6>1. i \in buf_pos .. j - 1
            BY <1>1, <5>1, <5>4
          <6> QED
            BY <4>2, <5>2, <6>1
        <5> QED
          BY <1>1, <5>1, <5>3, <5>4
      <4> QED
        BY <4>3, <4>4, <4>5 DEF Ended
    <3> QED
      <4>1. PICK b \in Nat : b = sent[h + 2]
        BY <3>3
      <4>2. buf_pos - 1 <= e + 1 + b
        BY <3>3, <4>1
      <4>3. buf_pos = e + 2 + b \/ buf_pos < e + 2 + b
        BY <1>1, <1>6, <4>2
      <4> QED
        BY <3>4, <3>5, <4>1, <4>3
  <2> QED
    BY <1>6, <2>1, <2>2
<1>16. Guarded' /\ NoOverrun'
  BY <1>2, <1>6, <1>10, <1>15 DEF Guarded, NoOverrun
<1> QED
  BY <1>12, <1>14, <1>16

LEMMA InitKeeps == Init => IInv
<1> SUFFICES ASSUME Init PROVE IInv
  OBVIOUS
<1>1. TypeOK /\ pc = "poll" /\ buf_pos = 0 /\ Len(wire) = 0 /\ Len(sent) = 0 /\ Len(handled) = 0
  BY InitType, EmptySeq DEF Init
<1>2. handled \in Seq(Seq(Bytes))
  BY EmptySeq DEF Init
<1>3. Total(sent, Len(handled)) = 0 /\ Counted(sent, Len(handled))
  BY <1>1 DEF Total, Counted
<1> QED
  BY <1>1, <1>2, <1>3 DEF IInv, Whole, Stream, Guarded, NoOverrun

LEMMA NextKeeps ==
  ASSUME Window <= 2
  PROVE  IInv /\ [Next]_vars => IInv'
<1> SUFFICES ASSUME IInv, [Next]_vars PROVE IInv'
  OBVIOUS
<1>1. TypeOK'
  BY NextType DEF IInv
<1>2. ASSUME NEW n \in Lengths, SendLine(n)
      PROVE  Whole' /\ Stream' /\ Guarded' /\ NoOverrun'
  BY <1>2, SendKeeps
<1>3. CASE Read
  BY <1>1, <1>3, ReadKeeps DEF IInv
<1>4. CASE HandleLine
  BY <1>1, <1>4, HandleKeeps DEF IInv
<1>5. ASSUME /\ UNCHANGED <<sent, wire, buffer, buf_pos, handled>>
             /\ pc' # "lines" \/ pc' = pc
             /\ pc' = "crashed" => hung_up'
      PROVE  Whole' /\ Stream' /\ Guarded' /\ NoOverrun'
  BY <1>5 DEF IInv, Whole, Stream, Guarded, NoOverrun, LineOf
<1>6. CASE HangUp
  BY <1>1, <1>5, <1>6 DEF HangUp, IInv
<1>7. CASE Close
  BY <1>1, <1>5, <1>7 DEF Close, IInv
<1>8. CASE NoMoreLines
  BY <1>1, <1>5, <1>8 DEF NoMoreLines, IInv
<1>9. CASE UNCHANGED vars
  BY <1>1, <1>5, <1>9 DEF vars, IInv, NoOverrun
<1> QED
  BY <1>1, <1>2, <1>3, <1>4, <1>6, <1>7, <1>8, <1>9 DEF Next, Server, IInv

\* However the bytes are cut up and however long the lines are, a client that is at
\* most two lines ahead of the answers has its lines handled whole, in order and once
\* (net_server.h:38).
THEOREM LinesWhole ==
  ASSUME Window <= 2
  PROVE  Spec => []Framing
<1>1. IInv => Framing
  <2> SUFFICES ASSUME IInv PROVE Framing
    OBVIOUS
  <2> DEFINE h == Len(handled)
  <2>1. /\ handled \in Seq(Seq(Bytes)) /\ h \in Nat /\ Len(sent) \in Nat /\ h <= Len(sent)
        /\ \A i \in 1 .. h : handled[i] = LineOf(i)
    BY TypesOfIInv DEF Counted, IInv, Whole
  <2>2. Len(LinesSent) = Len(sent) /\ \A i \in 1 .. Len(sent) : LinesSent[i] = LineOf(i)
    BY <2>1 DEF LinesSent
  <2> HIDE DEF h
  <2>3. ASSUME NEW t, \A i \in 1 .. h : t[i] = handled[i]
        PROVE  /\ SubSeq(t, 1, h) \in Seq(Seq(Bytes)) /\ Len(SubSeq(t, 1, h)) = h
               /\ \A i \in 1 .. h : SubSeq(t, 1, h)[i] = handled[i]
    <3>1. \A i \in 1 .. h : t[i] \in Seq(Bytes)
      BY <2>1, <2>3, ElementOfSeq DEF h
    <3>2. /\ SubSeq(t, 1, h) \in Seq(Seq(Bytes))
          /\ Len(SubSeq(t, 1, h)) = IF 1 <= h THEN h - 1 + 1 ELSE 0
          /\ \A i \in 1 .. h - 1 + 1 : SubSeq(t, 1, h)[i] = t[1 + i - 1]
      BY <2>1, <3>1, SubSeqProperties
    <3>3. ASSUME NEW i \in 1 .. h PROVE SubSeq(t, 1, h)[i] = handled[i]
      <4>1. i \in 1 .. h - 1 + 1 /\ 1 + i - 1 = i
        BY <2>1
      <4> QED
        BY <2>3, <3>2, <4>1
    <3> QED
      BY <2>1, <3>2, <3>3
  <2>4. \A i \in 1 .. h : LinesSent[i] = handled[i]
    BY <2>1, <2>2
  <2>5. SubSeq(handled, 1, h) = SubSeq(LinesSent, 1, h)
    BY <2>3, <2>4, SeqEqual
  <2> QED
    BY <2>1, <2>2, <2>5 DEF Framing, IsPrefix, h
<1> QED
  BY <1>1, InitKeeps, NextKeeps, PTL DEF Spec

\* Nor does such a client ever make memmove run out of the buffer: only a client that
\* has hung up can end the server, by SIGPIPE (net_server.c:178).
THEOREM NeverOverrun ==
  ASSUME Window <= 2
  PROVE  Spec => [](pc = "crashed" => hung_up)
<1>1. IInv => (pc = "crashed" => hung_up)
  BY DEF IInv, NoOverrun
<1> QED
  BY <1>1, InitKeeps, NextKeeps, PTL DEF Spec
=============================================================================
