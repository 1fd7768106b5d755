-------------------------- MODULE MCCheckFindings --------------------------
(***************************************************************************)
(* Candidates for which a verdict does not hold.  The configuration        *)
(* MCDistinctOverJoin takes the first family.  In its place DistinctStar   *)
(* and DistinctOfOneRow violate RefutedMeansDifferentRows, and             *)
(* AcceptedValuesUntold, with 3 among the Values, RefutationIsSound.       *)
(***************************************************************************)
EXTENDS MCTables, EquivalenceCheck

Catalogs ==
  {("users" :> FullUsers) @@ ("orders" :> OrderTable({"id", "user_id"}, {Reference}))}
Databases ==
  {("users" :> u) @@ ("orders" :> o) :
     u \in Tables([id : {1, 2}, status : {1, 2, 3}]), o \in Tables([id : {1, 2}, user_id : {1, 2}])}

Dropping(q) ==
  <<[backends |-> {"builtin"}, catalogs |-> Catalogs, databases |-> Databases, originals |-> {q},
     candidates |-> {[q EXCEPT !.distinct = FALSE]}, sizes |-> 0 .. 2]>>

(* SELECT DISTINCT users.id FROM users JOIN orders ON ...: the join brings *)
(* a user back once per order.                                             *)
DistinctOverJoin ==
  Dropping([SelectFrom("users", <<Plain(Users("id"))>>)
              EXCEPT !.distinct = TRUE, !.joins = <<Join("INNER", "orders", OnUser)>>])

(* SELECT DISTINCT * FROM users, whose rows hold a non-null unique key. *)
DistinctStar == Dropping([SelectFrom("users", <<AllColumns>>) EXCEPT !.distinct = TRUE])

(* SELECT DISTINCT status FROM users WHERE id IN (1), of which the unique  *)
(* id leaves one row, as LIMIT 1 does.                                     *)
DistinctOfOneRow ==
  Dropping([SelectFrom("users", <<Plain(Status)>>)
              EXCEPT !.distinct = TRUE, !.predicates = <<In(Id, {1})>>])
  \o Dropping([SelectFrom("users", <<Plain(Status)>>) EXCEPT !.distinct = TRUE, !.limit = 1])

(* SELECT id FROM users against the same WHERE status IN (1, 2): the       *)
(* catalog says that status has no other value, the refuter is not told.   *)
AcceptedValuesUntold ==
  <<[backends |-> {"verieql", "sqlsolver"}, databases |-> Databases,
     catalogs |-> {("users" :> UserTable({"id", "status"}, StatusDomain, {{"id"}}))},
     originals |-> {SelectFrom("users", <<Plain(Id)>>)},
     candidates |-> {[SelectFrom("users", <<Plain(Id)>>) EXCEPT !.predicates = <<In(Status, {1, 2})>>]},
     sizes |-> 0 .. 2]>>
=============================================================================
