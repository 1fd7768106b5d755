----------------------------- MODULE MCFilters -----------------------------
(***************************************************************************)
(* Sessions over one table, on every users table of at most two rows:      *)
(* filters, DISTINCT, COUNT(DISTINCT), GROUP BY and CASE; then the same    *)
(* over a filtered subquery or a query with a WITH clause.                 *)
(***************************************************************************)
EXTENDS MCTables

FilterCatalogs ==
  {("users" :> t) : t \in {FullUsers, NullableUsers, LooseUsers}} \cup {<<>>}
FilterDatabases == {("users" :> t) : t \in Tables(UserRows)}

Filters ==
  {<<NotNull(Id), In(Status, {1, 2}), NotNull(Status)>>,
   <<NotNull(Users("status")), OrIsNull(Id, 1)>>,
   <<In(Status, {1}), NotNull(Users("id"))>>,
   <<NotIn(Status, {1, 2}), NotNull(Column("orders", "id"))>>,
   <<>>}

Projections ==
  {<<Plain(Id)>>, <<Plain(Users("id")), As("column", Status, "id2")>>,
   <<Plain(Status)>>, <<AllColumns>>}

CaseOfStatus(conditions) ==
  CaseOf([i \in DOMAIN conditions |-> [when |-> conditions[i], then |-> i]], 0, "c")

Simple(ps, ws) == [SelectFrom("users", ps) EXCEPT !.predicates = ws]

Distinct ==
  {[Simple(ps, ws) EXCEPT !.distinct = TRUE] :
     ps \in Projections, ws \in {<<>>, <<NotNull(Status), Equals(Id, 1)>>}}

Limited1 ==
  {[q EXCEPT !.limit = 1, !.order_by = <<Plain(Status)>>] :
     q \in {Simple(<<Plain(Id)>>, <<NotNull(Id)>>),
            [Simple(<<Plain(Id), Plain(Status)>>, <<>>) EXCEPT !.distinct = TRUE]}}

Qualified1 ==
  {[Simple(<<Plain(Id)>>, <<NotNull(Id), In(Id, {1})>>) EXCEPT !.qualify = TRUE, !.distinct = TRUE]}

Counted ==
  {Simple(<<As("count_distinct", Id, "n"), As("count_distinct", Status, "m")>>, ws) :
     ws \in {<<>>, <<NotNull(Status)>>}}
  \cup {[Simple(<<Plain(Status), As("count_distinct", Id, "n")>>, <<>>) EXCEPT !.group_by = <<Status>>],
        [Simple(<<As("count_distinct", Id, "n")>>, <<>>) EXCEPT !.having = TRUE]}

Grouped ==
  {[Simple(ps, <<NotNull(Status)>>) EXCEPT !.group_by = keys] :
     ps \in {<<Plain(Id), As("max", Status, "s")>>, <<As("max", Id, "i")>>},
     keys \in {<<Id>>, <<Id, Status>>}}
  \cup {[Simple(<<Plain(Id), As("max", Status, "s")>>, <<>>) EXCEPT !.group_by = <<Id>>, !.having = TRUE]}

Cases ==
  {Simple(<<Plain(Id), CaseOfStatus(conditions)>>, <<NotNull(Status)>>) :
     conditions \in {<<Equals(Status, 3), Equals(Status, 1)>>,
                     <<In(Status, {3, 4}), In(Status, {1, 2}), Equals(Status, 1)>>,
                     <<Equals(Status, 1), In(Status, {1, 2})>>,
                     <<NotNull(Status), Equals(Status, 5)>>,
                     <<Equals(Users("status"), 4)>>}}

FilterQueries ==
  {Simple(ps, ws) : ps \in Projections, ws \in Filters}
  \cup Distinct \cup Limited1 \cup Qualified1 \cup Counted \cup Grouped \cup Cases

FilterSetting == [catalogs |-> FilterCatalogs, databases |-> FilterDatabases, asked |-> FilterQueries]

-----------------------------------------------------------------------------
(* Neither level of a subquery is limited and the inner one does not       *)
(* rename its columns: the shapes for which the pushdown is sound.         *)
PushdownCatalogs == {("users" :> t) : t \in {FullUsers, NullableUsers}}
PushdownDatabases == {("users" :> t) @@ ("accounts" :> Accounts) : t \in Tables(UserRows)}

S(name) == Column("s", name)

From(inner, ps, ws) ==
  [SelectFrom(None, ps) EXCEPT !.subquery = inner, !.alias = "s", !.predicates = ws]

Both == <<Plain(Id), Plain(Status)>>
InnerFilters == {<<>>, <<NotNull(Status)>>, <<OrIsNull(Users("id"), 1), In(Status, {1})>>}
OuterFilters ==
  {<<Equals(Id, 1)>>, <<NotNull(S("status")), Equals(S("id"), 2)>>, <<In(S("id"), {1})>>, <<>>}

Inner(ws) == [SelectFrom("users", Both) EXCEPT !.predicates = ws]

Pushed ==
  {From(Inner(ws), ps, vs) :
     ws \in InnerFilters, vs \in OuterFilters,
     ps \in {Both, <<Plain(S("id")), As("column", S("status"), "st")>>, <<Plain(Status), Plain(Id)>>,
             <<Plain(Id)>>}}

(* One more clause in either level. *)
Guarded ==
  LET q == From(Inner(<<>>), Both, <<Equals(Id, 1)>>) IN
  {[q EXCEPT !.qualify = TRUE], [q EXCEPT !.distinct = TRUE],
   [q EXCEPT !.subquery.qualify = TRUE], [q EXCEPT !.subquery.distinct = TRUE],
   [q EXCEPT !.subquery.group_by = <<Id, Status>>],
   [q EXCEPT !.subquery.group_by = <<Id, Status>>, !.subquery.having = TRUE],
   [q EXCEPT !.predicates = <<Equals(Id, 1), Exists("users", <<Condition(S("id"), Users("id"))>>)>>],
   [q EXCEPT !.subquery.projections = <<As("column", Status, "id"), As("opaque", Id, "status")>>]}

(* A WITH clause stands in front of a table: the name "users" hides the    *)
(* constrained table behind the rows of accounts, the name "recent" gives  *)
(* users another name.                                                     *)
CteBodies(table) ==
  {SelectFrom(table, <<AllColumns>>), SelectFrom(table, Both),
   SelectFrom(table, <<As("column", Status, "id"), As("opaque", Id, "status")>>),
   [SelectFrom(table, Both) EXCEPT !.predicates = <<OrIsNull(Id, 1)>>],
   [SelectFrom(table, Both) EXCEPT !.distinct = TRUE],
   [SelectFrom(table, <<AllColumns>>) EXCEPT !.limit = 1]}

OverCte(name) ==
  {[SelectFrom(name, <<Plain(Id)>>) EXCEPT !.predicates = <<NotNull(Id)>>],
   [SelectFrom(name, <<Plain(Id), As("column", Status, "st")>>) EXCEPT !.distinct = TRUE],
   SelectFrom(name, <<As("count_distinct", Id, "n")>>),
   [SelectFrom(name, <<Plain(Id), As("max", Status, "s")>>) EXCEPT !.group_by = <<Id>>],
   From(SelectFrom(name, Both), Both, <<Equals(Id, 1)>>)}

Hidden ==
  UNION {{[q EXCEPT !.with = Cte(h[1], <<body>>)] : q \in OverCte(h[1]), body \in CteBodies(h[2])} :
           h \in {<<"users", "accounts">>, <<"recent", "users">>}}

PushdownQueries == Pushed \cup Guarded \cup Hidden

PushdownSetting == [catalogs |-> PushdownCatalogs, databases |-> PushdownDatabases, asked |-> PushdownQueries]
=============================================================================
