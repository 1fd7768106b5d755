------------------------------ MODULE MCTables ------------------------------
(***************************************************************************)
(* Small databases and catalogs for the model-checking instances: users    *)
(* (id, status) and orders (id, user_id), with at most two rows each.      *)
(***************************************************************************)
EXTENDS BuiltinVerifier

MaxRows == 2
Tables(rows) == UNION {[1 .. n -> rows] : n \in 0 .. MaxRows}

UserRows  == [id : {1, 2, Null}, status : {1, 2, Null}]
OrderRows == [id : {1, 2}, user_id : {1, 2, Null}]

UserTable(nonNull, accepted, unique) ==
  [non_null |-> nonNull, accepted |-> accepted, unique |-> unique, foreign |-> {}]

OrderTable(nonNull, foreign) ==
  [non_null |-> nonNull, accepted |-> <<>>, unique |-> {{"id"}}, foreign |-> foreign]

Reference == <<<<"user_id">>, "users", <<"id">>>>
StatusDomain == ("status" :> {1, 2})

(* Every column of users known, its key nullable, and nothing but a key.   *)
FullUsers     == UserTable({"id", "status"}, StatusDomain, {{"id"}})
NullableUsers == UserTable({"status"}, <<>>, {{"id"}})
LooseUsers    == UserTable({"id"}, StatusDomain, {{"id", "status"}})

(* A table nothing is known of, with rows that no catalog of users allows. *)
Accounts ==
  <<[id |-> 1, status |-> 1], [id |-> 1, status |-> 1], [id |-> Null, status |-> Null]>>

Id       == Column(None, "id")
Status   == Column(None, "status")
Users(n) == Column("users", n)
Orders(n) == Column("orders", n)
Plain(col) == Project("column", col, None)
As(kind, col, alias) == Project(kind, col, alias)
AllColumns == Project("star", Column(None, "*"), None)

OnUser == <<Condition(Orders("user_id"), Users("id"))>>
=============================================================================
