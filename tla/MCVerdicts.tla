----------------------------- MODULE MCVerdicts -----------------------------
(***************************************************************************)
(* Checks of hand-written candidates, most of which are wrong.             *)
(***************************************************************************)
EXTENDS MCTables, EquivalenceCheck

UserCatalogs == {("users" :> t) : t \in {FullUsers, NullableUsers, LooseUsers}} \cup {<<>>}
UserDatabases ==
  {("users" :> t) @@ ("accounts" :> Accounts) : t \in Tables(UserRows)}

Simple(ps, ws) == [SelectFrom("users", ps) EXCEPT !.predicates = ws]

(* Every query of a small family against every other one.  DISTINCT is     *)
(* dropped over direct columns of one table, without QUALIFY.              *)
Family ==
  {[Simple(ps, ws) EXCEPT !.distinct = d] :
     d \in BOOLEAN,
     ps \in {<<Plain(Id)>>, <<Plain(Id), Plain(Status)>>, <<Plain(Status)>>},
     ws \in {<<>>, <<NotNull(Id)>>, <<NotNull(Id), In(Status, {1, 2})>>}}
  \cup {[Simple(<<Plain(Status)>>, <<>>) EXCEPT !.group_by = <<Status>>],
        [Simple(<<Plain(Status)>>, <<>>) EXCEPT !.group_by = <<Status>>, !.distinct = TRUE],
        Simple(<<As("count", Id, "n")>>, <<>>),
        Simple(<<As("count_distinct", Id, "n")>>, <<>>),
        [Simple(<<As("max", Id, "n")>>, <<>>) EXCEPT !.distinct = TRUE],
        Simple(<<As("max", Id, "n")>>, <<>>),
        [Simple(<<Plain(Id)>>, <<>>) EXCEPT !.qualify = TRUE]}

OneTable ==
  [backends |-> {"builtin", "external"}, catalogs |-> UserCatalogs, databases |-> UserDatabases,
   originals |-> Family, candidates |-> Family, sizes |-> 0 .. 2]

(* A WITH clause in front of users, and candidates without it. *)
Bodies(table) ==
  {SelectFrom(table, <<AllColumns>>), SelectFrom(table, <<Plain(Id), Plain(Status)>>),
   SelectFrom(table, <<As("column", Status, "id"), As("column", Id, "status")>>),
   [SelectFrom(table, <<AllColumns>>) EXCEPT !.limit = 1],
   [SelectFrom(table, <<AllColumns>>) EXCEPT !.distinct = TRUE],
   [SelectFrom(table, <<Plain(Id), Plain(Status)>>) EXCEPT !.predicates = <<NotNull(Status)>>]}

Over(table, alias) ==
  {[[SelectFrom(table, <<Plain(Id)>>) EXCEPT !.alias = alias, !.distinct = d] EXCEPT !.predicates = ws] :
     d \in BOOLEAN, ws \in {<<>>, <<NotNull(Id)>>}}

Withs ==
  UNION {{[q EXCEPT !.with = Cte(n[1], <<body>>)] : q \in Over(n[1], None), body \in Bodies(n[2])} :
           n \in {<<"users", "accounts">>, <<"recent", "users">>}}

Hidden ==
  [backends |-> {"builtin"}, catalogs |-> UserCatalogs, databases |-> UserDatabases,
   originals |-> Withs,
   candidates |-> Withs \cup Over("users", None) \cup Over("users", "recent") \cup Over("accounts", "users"),
   sizes |-> 0 .. 2]

(* What solvers are asked about one table, directly or behind SELECT *.    *)
From(inner) == [SelectFrom(None, <<Plain(Id)>>) EXCEPT !.subquery = inner, !.alias = "s"]

Asked ==
  {[Simple(ps, ws) EXCEPT !.distinct = d] :
     d \in BOOLEAN, ps \in {<<Plain(Id)>>, <<Plain(Status)>>}, ws \in {<<>>, <<NotNull(Id)>>}}
  \cup {[From(SelectFrom("users", <<AllColumns>>)) EXCEPT !.distinct = TRUE],
        [Simple(<<Plain(Id)>>, <<>>) EXCEPT !.qualify = TRUE],
        [SelectFrom("recent", <<Plain(Id)>>) EXCEPT !.with = Cte("recent", <<SelectFrom("users", <<AllColumns>>)>>)]}

PairKeyUsers == UserTable({"id", "status"}, <<>>, {{"id", "status"}})

Solved ==
  [backends |-> {"sqlsolver", "qed", "verieql"},
   catalogs |-> UserCatalogs \cup {("users" :> t) : t \in {PairKeyUsers, UserTable({"id"}, <<>>, {{"id"}})}},
   databases |-> {("users" :> t) : t \in Tables(UserRows)},
   originals |-> Asked, candidates |-> Asked, sizes |-> 0 .. 2]

(* Orders and users, with columns that do not say whose they are.  An      *)
(* empty table cannot say which columns it has, so that none is.           *)
JoinedCatalogs ==
  {("users" :> u) @@ ("orders" :> o) :
     u \in {FullUsers, UserTable({"id", "status"}, <<>>, {{"id"}})},
     o \in {OrderTable({"id"}, {Reference}), OrderTable({"id", "user_id"}, {})}}
  \cup {("users" :> NullableUsers)}

NonEmpty(rows) == {t \in Tables(rows) : t # <<>>}

JoinedDatabases ==
  {("users" :> u) @@ ("orders" :> o) :
     u \in NonEmpty([id : {1, 2}, status : {1, Null}]), o \in NonEmpty(OrderRows)}

OrdersOfUsers(kind, ps, ws) ==
  [SelectFrom("orders", ps) EXCEPT !.joins = <<Join(kind, "users", OnUser)>>, !.predicates = ws]

JoinedAsked ==
  {OrdersOfUsers(kind, <<Plain(p)>>, ws) :
     kind \in {"INNER", "LEFT"}, p \in {Status, Column(None, "user_id")}, ws \in {<<>>, <<NotNull(Status)>>}}
  \cup {SelectFrom("orders", <<Plain(Column(None, "user_id"))>>)}

Joined ==
  [backends |-> {"sqlsolver", "qed", "verieql"}, catalogs |-> JoinedCatalogs,
   databases |-> JoinedDatabases, originals |-> JoinedAsked, candidates |-> JoinedAsked,
   sizes |-> 1 .. 2]

MCSettings == <<OneTable, Hidden, Solved, Joined>>
=============================================================================
