---------------------------- MODULE MCLineBuffer ----------------------------
(***************************************************************************)
(* LineBuffer for TLC: a buffer of a few bytes; lines from the empty one   *)
(* to the longest that fits, with its newline and '\0'; and longer ones,   *)
(* which fill the buffer before their newline comes.                       *)
(***************************************************************************)
EXTENDS LineBuffer

Fitting == 0 .. Size - 2
AllLengths == 0 .. Size
=============================================================================
