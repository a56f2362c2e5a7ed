------------------------------- MODULE Tables -------------------------------
(***************************************************************************)
(* The fixed-size C arrays of the server, seen as what the server uses     *)
(* them for: finite tables from an identifier to an entry.  The order of   *)
(* an array is abstracted; where it decides the outcome (which of the      *)
(* entries offered to a nearly full table get a slot) the model allows     *)
(* every outcome.  Written without the function operators of TLC and of    *)
(* the community modules so that the proofs can expand the definitions.    *)
(***************************************************************************)
EXTENDS Integers, FiniteSets

EmptyTable == [x \in {} |-> x]

\* Table t with entry k set to v.
With(t, k, v) == [x \in DOMAIN t \cup {k} |-> IF x = k THEN v ELSE t[x]]

\* Table t with the entries of u that are in S appended; t wins.
Appended(t, u, S) ==
  [x \in DOMAIN t \cup S |-> IF x \in DOMAIN t THEN t[x] ELSE u[x]]

(***************************************************************************)
(* The sets of new entries that may be appended when the entries `offered' *)
(* are put, in some order, in a table of `max' slots that holds `have':    *)
(* all of them, or as many as fill the table.                              *)
(***************************************************************************)
Admitted(have, offered, max) ==
  {S \in SUBSET (offered \ have) :
     /\ Cardinality(have \cup S) <= max
     /\ S # offered \ have => Cardinality(have \cup S) = max}
=============================================================================
