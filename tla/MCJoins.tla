------------------------------ MODULE MCJoins ------------------------------
(***************************************************************************)
(* Sessions over orders joined with users: LEFT JOIN removal, foreign key  *)
(* removal and JOIN to EXISTS, on every pair of small tables, with the     *)
(* filter and DISTINCT rules applying before and after.  The queries name  *)
(* their columns with qualifiers, carry no ORDER BY on the joined table,   *)
(* and a DISTINCT over an inner join projects a key of orders: the shapes  *)
(* for which the rules are sound.                                          *)
(***************************************************************************)
EXTENDS MCTables

UniqueUsers(unique) == UserTable({}, <<>>, unique)

JoinCatalogs ==
  {("users" :> UniqueUsers(unique)) @@ ("orders" :> orders) :
     unique \in {{{"id"}}, {{"id", "status"}}},
     orders \in {OrderTable({"user_id"}, {Reference}), OrderTable({"id"}, {Reference})}}

(* The status of a user plays no part in these queries but distinguishes   *)
(* two rows of one id.                                                     *)
JoinedUserRows == [id : {1, 2, Null}, status : {1, 2}]
JoinDatabases ==
  {("users" :> u) @@ ("orders" :> o) : u \in Tables(JoinedUserRows), o \in Tables(OrderRows)}

Joined(kind, on, ps) == [SelectFrom("orders", ps) EXCEPT !.joins = <<Join(kind, "users", on)>>]

TwoKeys == <<Condition(Users("id"), Orders("user_id")), Condition(Users("status"), Orders("id"))>>

OwnColumns == <<Plain(Orders("id")), Plain(Orders("user_id"))>>

LeftJoins ==
  {Joined("LEFT", OnUser, OwnColumns),
   Joined("LEFT", TwoKeys, OwnColumns),
   Joined("LEFT", OnUser, <<Plain(Orders("id")), As("opaque", Users("id"), "o")>>),
   Joined("LEFT", OnUser, <<As("opaque", Orders("user_id"), "o")>>),
   Joined("LEFT", OnUser, <<Project("star", Column("orders", "*"), None)>>),
   [Joined("LEFT", OnUser, OwnColumns) EXCEPT !.qualify = TRUE],
   [Joined("LEFT", OnUser, OwnColumns) EXCEPT !.distinct = TRUE],
   [Joined("LEFT", OnUser, OwnColumns) EXCEPT !.limit = 1],
   [Joined("LEFT", OnUser, <<Plain(Orders("user_id"))>>)
      EXCEPT !.predicates = <<NotNull(Orders("user_id"))>>],
   [Joined("LEFT", OnUser, OwnColumns) EXCEPT !.predicates = <<NotNull(Users("status"))>>]}

InnerJoins ==
  {Joined("INNER", OnUser, OwnColumns),
   Joined("INNER", OnUser, <<Plain(Column(None, "user_id"))>>),
   [Joined("INNER", OnUser, OwnColumns) EXCEPT !.qualify = TRUE],
   [Joined("INNER", OnUser, OwnColumns) EXCEPT !.predicates = <<In(Orders("id"), {1})>>],
   [Joined("INNER", OnUser, OwnColumns) EXCEPT !.alias = "o"],
   [Joined("INNER", <<Condition(Users("id"), Column("o", "user_id"))>>,
           <<Plain(Column("o", "id"))>>) EXCEPT !.alias = "o"]}

ExistsJoins ==
  {[Joined("INNER", OnUser, OwnColumns) EXCEPT !.distinct = TRUE],
   [Joined("INNER", OnUser, OwnColumns)
      EXCEPT !.distinct = TRUE, !.predicates = <<NotNull(Orders("user_id"))>>],
   [Joined("INNER", TwoKeys, OwnColumns) EXCEPT !.distinct = TRUE]}

JoinQueries == LeftJoins \cup InnerJoins \cup ExistsJoins

JoinSetting == [catalogs |-> JoinCatalogs, databases |-> JoinDatabases, asked |-> JoinQueries]
=============================================================================
