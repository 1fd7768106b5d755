------------------------- MODULE MCSessionFindings -------------------------
(***************************************************************************)
(* Query shapes for which a rule's PROVEN_EQUIVALENT does not hold.  The   *)
(* configuration MCDuplicatedProjection takes the first family; each of the*)
(* others violates SameRows as well when its name takes the place of that. *)
(***************************************************************************)
EXTENDS MCTables, RewriteSession

OrderCatalogs ==
  {("users" :> FullUsers) @@ ("orders" :> OrderTable({"user_id"}, {Reference}))}
OrderDatabases ==
  {("users" :> u) @@ ("orders" :> o) :
     u \in Tables([id : {1, 2}, status : {1, 2}]), o \in Tables([id : {1, 2}, user_id : {1, 2}])}

About(queries) == {[catalogs |-> OrderCatalogs, databases |-> OrderDatabases, asked |-> queries]}

(* SELECT DISTINCT orders.user_id FROM orders JOIN users ON ...: the       *)
(* projection is not unique in orders.                                     *)
DuplicatedProjection == About(
  {[SelectFrom("orders", <<Plain(Orders("user_id"))>>)
      EXCEPT !.distinct = TRUE, !.joins = <<Join("INNER", "users", OnUser)>>]})

(* SELECT ... FROM orders LEFT JOIN users ON ... ORDER BY users.status. *)
OrderedByJoined == About(
  {[SelectFrom("orders", <<Plain(Orders("id"))>>)
      EXCEPT !.joins = <<Join("LEFT", "users", OnUser)>>, !.order_by = <<Plain(Users("status"))>>]})

(* SELECT id, MAX(status) AS s FROM users GROUP BY id ORDER BY MAX(status).*)
OrderedByAggregate == About(
  {[SelectFrom("users", <<Plain(Id), As("max", Status, "s")>>)
      EXCEPT !.group_by = <<Id>>, !.order_by = <<As("max", Status, None)>>]})

FilteredSubquery(inner) ==
  [SelectFrom(None, <<Plain(Id), Plain(Status)>>)
     EXCEPT !.subquery = inner, !.alias = "s", !.predicates = <<Equals(Status, 1)>>]

(* SELECT ... FROM (SELECT id, status FROM users LIMIT 1) s WHERE ... *)
LimitedSubquery == About(
  {FilteredSubquery([SelectFrom("users", <<Plain(Id), Plain(Status)>>) EXCEPT !.limit = 1])})

(* SELECT ... FROM (SELECT id AS status, status AS id FROM users) s WHERE  *)
(* ...: the source names agree in order only when aliases are ignored.     *)
RenamingSubquery == About(
  {FilteredSubquery(SelectFrom("users", <<As("column", Id, "status"), As("column", Status, "id")>>))})

(* WITH users AS (...) SELECT ... WHERE id IS NOT NULL AND EXISTS (SELECT  *)
(* 1 FROM users WHERE ...): the filter goes and the WITH goes with it.     *)
ExistsOverCte == About(
  {[SelectFrom("orders", <<Plain(Id)>>)
      EXCEPT !.predicates = <<NotNull(Column(None, "user_id")),
                              Exists("users", <<Condition(Users("id"), Orders("user_id"))>>)>>,
             !.with = Cte("users", <<[SelectFrom("users", <<Plain(Id)>>)
                                        EXCEPT !.predicates = <<Equals(Status, 1)>>]>>)]})

(* WITH recent AS (SELECT id FROM users) SELECT * FROM recent WHERE id IS  *)
(* NOT NULL: the star is read over users and shows its other columns.      *)
StarOverProjection == About(
  {[SelectFrom("recent", <<AllColumns>>)
      EXCEPT !.predicates = <<NotNull(Id)>>, !.with = Cte("recent", <<SelectFrom("users", <<Plain(Id)>>)>>)]})

(* CASE WHEN status IN (SELECT user_id FROM orders) THEN 1 ELSE 0 END. *)
CaseOverSubquery == About(
  {SelectFrom("users",
     <<Plain(Id),
       CaseOf(<<[when |-> InQuery(Status, "orders", "user_id"), then |-> 1]>>, 0, "c")>>)})
=============================================================================
