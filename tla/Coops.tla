-------------------------------- MODULE Coops --------------------------------
(***************************************************************************)
(* server/coops.c: the table of coops.  A context is a record              *)
(*   name  the coops in the table, from id to name                         *)
(*   next  next_id, the id the next COOP_ADD will use                      *)
(* Names are strings; their length limit (MAX_COOP_NAME) is abstracted.    *)
(* A definition named X_y is X with a mistake y, for the mutation runs.     *)
(***************************************************************************)
EXTENDS Config, Tables, Sequences, TLC

CONSTANT Names    \* the names users give to coops, on the wire or in the file

ASSUME NamesAssumption == Names \subseteq STRING

\* "Chuong %d", the name the server gives to a coop that has none.
DefaultName(id) == "Chuong " \o ToString(id)

CoopIds == 1 .. IntMax
CoopNames == Names \cup {DefaultName(i) : i \in CoopIds}

\* c is a context: its ids, names and next_id are in range.
IsCoops(c) ==
  /\ c \in [name : [DOMAIN c.name -> CoopNames], next : IntMin .. IntMax]
  /\ DOMAIN c.name \subseteq CoopIds

coops_init == [name |-> EmptyTable, next |-> 1]

(***************************************************************************)
(* The effect of "if (id >= ctx->next_id) ctx->next_id = id + 1" for each  *)
(* id of a set, in some order.  id + 1 wraps at INT_MAX, and whatever is   *)
(* bumped after the wrap starts again from INT_MIN.                        *)
(***************************************************************************)
Bump_offByOne(next, ids) ==
  IF IntMax \in ids
  THEN {IntMin} \cup {i + 1 : i \in ids \ {IntMax}}
  ELSE {n \in {next} \cup ids : n >= next /\ \A i \in ids : n >= i}

Bump(next, ids) ==
  IF IntMax \in ids
  THEN {IntMin} \cup {i + 1 : i \in ids \ {IntMax}}
  ELSE {n \in {next} \cup {i + 1 : i \in ids} :
          n >= next /\ \A i \in ids : n > i}

(***************************************************************************)
(* coops_upsert for every entry of table t, in some order: a known id is   *)
(* renamed, a new one is appended while there is room.  The caller ignores *)
(* the entries that find no room.                                          *)
(***************************************************************************)
Upserted(ctx, t) ==
  UNION {{[name |-> [i \in DOMAIN ctx.name \cup S |->
                        IF i \in DOMAIN t THEN t[i] ELSE ctx.name[i]],
           next |-> n] : n \in Bump(ctx.next, (DOMAIN ctx.name \cap DOMAIN t) \cup S)}
         : S \in Admitted(DOMAIN ctx.name, DOMAIN t, MaxCoops)}

\* Whether coops_upsert succeeds.
CanUpsert(ctx, id, name) ==
  /\ id > 0 /\ name # ""
  /\ id \in DOMAIN ctx.name \/ Cardinality(DOMAIN ctx.name) < MaxCoops

\* The id coops_add uses.
new_coop_id(ctx) == IF ctx.next <= 0 THEN 1 ELSE ctx.next

\* Whether coops_add succeeds: it looks for room, and so does the upsert it calls.
CanAddCoop(ctx, name) ==
  /\ name # ""
  /\ Cardinality(DOMAIN ctx.name) < MaxCoops
  /\ CanUpsert(ctx, new_coop_id(ctx), name)

\* coops_add when it succeeds: an upsert of the new id.
coops_add(ctx, name) ==
  {[name |-> With(ctx.name, new_coop_id(ctx), name), next |-> n]
     : n \in Bump(ctx.next, {new_coop_id(ctx)})}
=============================================================================
