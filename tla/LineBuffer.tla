----------------------------- MODULE LineBuffer -----------------------------
(***************************************************************************)
(* handle_client_line of server/net_server.c: how the bytes of one         *)
(* connection become lines.  TCP delivers the bytes in order, in pieces of *)
(* any size.  One call reads a piece, then handles every line it finds in  *)
(* the buffer; between the two it looks for '\n' with strchr, that is up   *)
(* to the first '\0' and not up to buf_pos.                                *)
(*                                                                         *)
(* A byte is NL, NUL, or the number of the line it belongs to.  Lines are   *)
(* single words, like SCAN: the '\0' that parse_cmd_line puts after the     *)
(* first word of a line is left out.                                       *)
(* A definition named X_y is X with a mistake y, for the mutation runs.    *)
(***************************************************************************)
EXTENDS Integers, Sequences, SequencesExt

CONSTANTS
  Size,        \* MAX_LINE_LEN: bytes in the buffer
  Lengths,     \* lengths of the lines the client sends, without the newline
  MaxLines,    \* bound: lines the client sends on this connection
  Window       \* lines the client sends ahead of the server's answers

ASSUME LineBufferAssumption ==
  /\ Size \in Nat \ {0}
  /\ Lengths \subseteq Nat
  /\ MaxLines \in Nat
  /\ Window \in Nat \ {0}

VARIABLES
  sent,      \* lengths of the lines the client has sent
  hung_up,   \* the client has closed its end
  wire,      \* bytes sent and not read yet
  buffer,    \* conn->buffer
  buf_pos,   \* conn->buf_pos
  pc,        \* "poll", "lines" in the while loop, "closed", "crashed"
  handled    \* the lines handled, each the bytes taken for it

vars == <<sent, hung_up, wire, buffer, buf_pos, pc, handled>>

NL == 0
NUL == -1
Bytes == {NL, NUL} \cup 1 .. MaxLines

LineOf(i) == [k \in 1 .. sent[i] |-> i]
LinesSent == [i \in 1 .. Len(sent) |-> LineOf(i)]

\* The buffer of a connection is not cleared when it is accepted; its bytes
\* are never looked at before a read has put a '\0' after the ones it stored.
Init ==
  /\ sent = <<>>
  /\ hung_up = FALSE
  /\ wire = <<>>
  /\ buffer = [i \in 0 .. Size - 1 |-> NL]
  /\ buf_pos = 0
  /\ pc = "poll"
  /\ handled = <<>>

\* A client that has fewer than Window answers outstanding sends a line.
SendLine(n) ==
  /\ ~hung_up
  /\ Len(sent) < MaxLines
  /\ Len(sent) - Len(handled) < Window
  /\ sent' = Append(sent, n)
  /\ wire' = wire \o Append([k \in 1 .. n |-> Len(sent) + 1], NL)
  /\ UNCHANGED <<hung_up, buffer, buf_pos, pc, handled>>

HangUp ==
  /\ ~hung_up
  /\ hung_up' = TRUE
  /\ UNCHANGED <<sent, wire, buffer, buf_pos, pc, handled>>

\* What the third argument of read() leaves for new bytes.
Room_noTerminator(pos) == Size - pos
Room_offByOne(pos) == Size - pos - 2
Room(pos) == Size - pos - 1

Read ==
  /\ pc = "poll"
  /\ \E n \in 1 .. Room(buf_pos) :
       /\ n <= Len(wire)
       /\ buffer' = [i \in 0 .. Size - 1 |->
                       CASE i \in buf_pos .. buf_pos + n - 1 -> wire[i - buf_pos + 1]
                         [] i = buf_pos + n -> NUL
                         [] OTHER -> buffer[i]]
       /\ buf_pos' = buf_pos + n
       /\ wire' = SubSeq(wire, n + 1, Len(wire))
  /\ pc' = "lines"
  /\ UNCHANGED <<sent, hung_up, handled>>

\* read() returns 0: the client has hung up, or there was no room to read into.
Close ==
  /\ pc = "poll"
  /\ \/ wire = <<>> /\ hung_up
     \/ wire # <<>> /\ Room(buf_pos) = 0
  /\ pc' = "closed"
  /\ UNCHANGED <<sent, hung_up, wire, buffer, buf_pos, handled>>

\* strchr(conn->buffer, '\n')
IsLineEnd(e) ==
  /\ buffer[e] = NL
  /\ \A i \in 0 .. e - 1 : buffer[i] \notin {NL, NUL}

\* memmove(conn->buffer, line_end + 1, n) after *line_end = '\0'; the bytes from
\* n on stay what they were.
Shifted_skipsTwo(e, n) ==
  LET cut == [buffer EXCEPT ![e] = NUL] IN
    [i \in 0 .. Size - 1 |-> IF i < n THEN cut[i + e + 2] ELSE cut[i]]
Shifted(e, n) ==
  LET cut == [buffer EXCEPT ![e] = NUL] IN
    [i \in 0 .. Size - 1 |-> IF i < n THEN cut[i + e + 1] ELSE cut[i]]

\* One turn of the loop.  When the newline found lies beyond buf_pos, shift_len
\* wraps around and memmove runs out of the buffer: the process dies.  It may
\* also die of SIGPIPE, which it does not ignore, when it answers a client that
\* has hung up.
HandleLine ==
  /\ pc = "lines"
  /\ \E e \in 0 .. Size - 1 :
       /\ IsLineEnd(e)
       /\ handled' = Append(handled, [k \in 1 .. e |-> buffer[k - 1]])
       /\ IF buf_pos - e - 1 < 0
          THEN pc' = "crashed" /\ UNCHANGED <<buffer, buf_pos>>
          ELSE /\ buf_pos' = buf_pos - e - 1
               /\ buffer' = Shifted(e, buf_pos - e - 1)
               /\ pc' \in IF hung_up THEN {pc, "crashed"} ELSE {pc}
  /\ UNCHANGED <<sent, hung_up, wire>>

NoMoreLines ==
  /\ pc = "lines"
  /\ ~ \E e \in 0 .. Size - 1 : IsLineEnd(e)
  /\ pc' = "poll"
  /\ UNCHANGED <<sent, hung_up, wire, buffer, buf_pos, handled>>

Server == Read \/ Close \/ HandleLine \/ NoMoreLines

Next == (\E n \in Lengths : SendLine(n)) \/ HangUp \/ Server

\* poll() reports a connection with unread bytes or a hang-up on every turn, and
\* the loop over the lines does not wait.
Spec == Init /\ [][Next]_vars /\ WF_vars(Server)

(***************************************************************************)
(* Properties.                                                             *)
(***************************************************************************)

\* The variables have their types, and the position is inside the buffer.
TypeOK ==
  /\ sent \in Seq(Lengths)
  /\ hung_up \in BOOLEAN
  /\ wire \in Seq(Bytes)
  /\ buffer \in [0 .. Size - 1 -> Bytes]
  /\ buf_pos \in 0 .. Size - 1
  /\ pc \in {"poll", "lines", "closed", "crashed"}

\* The lines handled are the lines sent, in order, each whole and once: the input
\* is split at newlines (net_server.h:38).
Framing == IsPrefix(handled, LinesSent)

\* Every line is handled, also one the client sends just before it hangs up and
\* however the bytes are cut up (net_server.c:154), unless one too long for the
\* buffer comes before it or the server dies answering a client that is gone.
EveryLineHandled ==
  \A i \in 1 .. MaxLines :
    Len(sent) >= i /\ (\A j \in 1 .. i : sent[j] <= Size - 2)
      ~> Len(handled) >= i \/ (hung_up /\ pc = "crashed")
=============================================================================
