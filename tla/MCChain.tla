------------------------------ MODULE MCChain ------------------------------
(***************************************************************************)
(* Chains of up to four rewrites over one table, whole queries and         *)
(* fragments of a WITH query, on every small users table.  A budget of     *)
(* three stops the longest of them.                                        *)
(***************************************************************************)
EXTENDS MCTables, RewriteChain

MCCatalogs == {("users" :> t) : t \in {FullUsers, NullableUsers}} \cup {<<>>}
MCDatabases ==
  {("users" :> t) @@ ("accounts" :> Accounts) : t \in Tables([id : {1, 2, Null}, status : {1, 2, Null}])}

Simple(table, ps, ws) == [SelectFrom(table, ps) EXCEPT !.predicates = ws]

AllFilters == <<NotNull(Id), In(Status, {1, 2}), NotNull(Status), OrIsNull(Id, 1)>>
StatusCase ==
  CaseOf(<<[when |-> Equals(Status, 3), then |-> 1], [when |-> In(Status, {1, 2}), then |-> 2]>>, 0, "c")

Flat ==
  {Simple("users", <<Plain(Id)>>, AllFilters),
   [Simple("users", <<Plain(Id)>>, AllFilters) EXCEPT !.distinct = TRUE],
   [Simple("users", <<Plain(Id), Plain(Status)>>, <<NotNull(Id)>>) EXCEPT !.distinct = TRUE],
   Simple("users", <<Plain(Id), StatusCase, StatusCase>>, AllFilters),
   Simple("users", <<As("count_distinct", Id, "n"), As("count_distinct", Id, "m")>>, <<NotNull(Status)>>),
   [Simple("users", <<Plain(Id), As("max", Status, "s")>>, AllFilters) EXCEPT !.group_by = <<Id>>],
   [SelectFrom(None, <<Plain(Id), Plain(Status)>>)
      EXCEPT !.subquery = Simple("users", <<Plain(Id), Plain(Status)>>, <<NotNull(Status)>>),
             !.alias = "s", !.predicates = <<NotNull(Id), Equals(Status, 1)>>]}

Bodies(table) ==
  {Simple(table, <<Plain(Id), Plain(Status)>>, <<NotNull(Id), OrIsNull(Status, 1)>>),
   [Simple(table, <<Plain(Id), Plain(Status)>>, <<NotNull(Id), In(Status, {1, 2})>>)
      EXCEPT !.distinct = TRUE]}
PassThroughs(table) ==
  {SelectFrom(table, <<AllColumns>>), Simple(table, <<As("column", Id, "id")>>, <<>>)}

Outer(table) ==
  {Simple(table, <<Plain(Id)>>, <<NotNull(Id)>>),
   [Simple(table, <<Plain(Id)>>, <<>>) EXCEPT !.distinct = TRUE]}

(* The CTE has a name of its own, hides a table or, what does not parse,   *)
(* the very table it reads.                                                *)
Nested ==
  UNION {{[q EXCEPT !.with = Cte(n[1], <<body>>)] :
            q \in Outer(n[1]), body \in Bodies(n[2]) \cup PassThroughs(n[2])} :
           n \in {<<"recent", "users">>, <<"users", "accounts">>, <<"users", "users">>}}
Unions ==
  {[q EXCEPT !.with = Cte("recent", <<body, body>>)] :
     q \in Outer("users") \cup Outer("recent"), body \in Bodies("users")}

MCAsked == Flat \cup Nested \cup Unions

(* WITH users AS (... UNION ALL ...) SELECT DISTINCT id FROM users. *)
ShadowingUnion ==
  {[q EXCEPT !.with = Cte("users", <<body, body>>)] : q \in Outer("users"), body \in Bodies("users")}
=============================================================================
