------------------------------ MODULE SqlQuery ------------------------------
(***************************************************************************)
(* The supported SQL subset: the intermediate representation of            *)
(* src/qseal/ir/model.py, the trusted constraints of                       *)
(* src/qseal/constraints/model.py, and what a database returns for a query.*)
(*                                                                         *)
(* A table is a function from row identities to rows, so that duplicate    *)
(* rows stay apart, and a result is compared as a bag.  LIMIT makes a      *)
(* result nondeterministic; a query that names something out of scope has  *)
(* no result at all.                                                       *)
(***************************************************************************)
EXTENDS Integers, FiniteSets, SequencesExt, Collections

CONSTANTS
  Null,    \* SQL's NULL
  Absent,  \* the missing partner of an outer join
  None     \* Python's None

-----------------------------------------------------------------------------
(* Names.  A column reference carries its qualifier or None.               *)
Column(table, name) == [table |-> table, name |-> name]

(* Projections: direct columns, stars, aggregates, opaque expressions and  *)
(* searched CASE expressions, each with its alias or None.                 *)
Project(kind, col, alias) == [kind |-> kind, col |-> col, alias |-> alias]
CaseOf(branches, default, alias) ==
  [kind |-> "case", branches |-> branches, default |-> default, alias |-> alias]

IsDirectColumn(p) == p.kind = "column"
IsAggregate(p) == p.kind \in {"count", "count_distinct", "max"}

(* The columns an expression mentions. *)
ColumnsOf(p) ==
  CASE p.kind = "star" -> {}
    [] p.kind = "case" -> {p.branches[i].when.left : i \in DOMAIN p.branches}
    [] OTHER -> {p.col}

(* ColumnRef.may_reference_relation: an opaque expression may use every    *)
(* relation as soon as one of its columns is unqualified.                  *)
MayReferenceRelation(p, relation) ==
  /\ p.kind \notin {"column", "star"}
  /\ \E c \in ColumnsOf(p) : c.table \in {None, relation}

OutputName(p) == IF p.alias # None THEN p.alias ELSE p.col.name

(* Predicates: simple ones, IN lists, EXISTS and verbatim ones. *)
NotNull(col)        == [op |-> "is_not_null", left |-> col]
Equals(col, v)      == [op |-> "=", left |-> col, values |-> {v}]
In(col, vs)         == [op |-> "in", left |-> col, values |-> vs]
NotIn(col, vs)      == [op |-> "not_in", left |-> col, values |-> vs]
InQuery(col, t, n)  == [op |-> "in_query", left |-> col, table |-> t, name |-> n]
OrIsNull(col, v)    == [op |-> "opaque", left |-> col, values |-> {v}]
Exists(table, on)   == [op |-> "exists", table |-> table, on |-> on]

IsPredicate(w)   == w.op \in {"is_not_null", "="}
IsInPredicate(w) == w.op \in {"in", "not_in"}

(* A join condition equates two columns; a join has one or more of them.   *)
Condition(left, right) == [left |-> left, right |-> right]
Join(kind, table, on)  == [kind |-> kind, table |-> table, on |-> on]

(* A query over one table; the setters below turn it into any other. *)
SelectFrom(table, projections) ==
  [table |-> table, alias |-> None, subquery |-> None, with |-> None,
   joins |-> <<>>, projections |-> projections, predicates |-> <<>>,
   group_by |-> <<>>, having |-> FALSE, qualify |-> FALSE,
   order_by |-> <<>>, limit |-> None, distinct |-> FALSE]

(* WITH name AS (bodies[1] UNION ALL bodies[2] ...).  The IR keeps no body, *)
(* only the table_is_cte marks of the relations that read the name.        *)
Cte(name, bodies) == [name |-> name, bodies |-> bodies]
IsCte(q, table) == q.with # None /\ q.with.name = table

(* SelectQuery.references_cte_relation. *)
ReferencesCte(q) ==
  \/ q.subquery = None /\ IsCte(q, q.table)
  \/ \E i \in DOMAIN q.joins : IsCte(q, q.joins[i].table)
  \/ \E i \in DOMAIN q.predicates :
       q.predicates[i].op = "exists" /\ IsCte(q, q.predicates[i].table)
  \/ q.subquery # None /\ IsCte(q, q.subquery.table)

IsDirectTable(q) == q.subquery = None
TableName(q) == IF IsDirectTable(q) /\ ~IsCte(q, q.table) THEN q.table ELSE None
BaseRelation(q) == IF q.alias # None THEN q.alias ELSE q.table

(* to_sql() followed by parse_select(): the text has no WITH clause, so the*)
(* names it bound mean base tables when the text is read again.            *)
Rendered(q) == [q EXCEPT !.with = None]

-----------------------------------------------------------------------------
(* Trusted constraints: [table -> [non_null, accepted, unique, foreign]].  *)
TableOf(catalog, name) == IF name # None /\ name \in DOMAIN catalog THEN catalog[name] ELSE None

IsNonNull(t, column) == column \in t.non_null

(* Mutant: a key that merely contains the columns. *)
PartOfUniqueKey(t, columns) == \E key \in t.unique : columns \subseteq key

HasUniqueKey(t, columns) == \E key \in t.unique : key \subseteq columns

(* Mutant: NULL keys forgotten. *)
UniqueKeyIn(t, columns) == HasUniqueKey(t, columns)

NonNullUniqueKeyIn(t, columns) ==
  \E key \in t.unique : key \subseteq columns /\ \A c \in key : IsNonNull(t, c)

HasForeignKey(t, columns, refTable, refColumns) ==
  <<columns, refTable, refColumns>> \in t.foreign

(* The values a column is known to take, {} when nothing is known. *)
AcceptedValues(t, column) ==
  IF column \in DOMAIN t.accepted THEN t.accepted[column] ELSE {}

(* What the declarations mean on a database (dbt test semantics): unique   *)
(* keys and accepted values exempt NULL, references need a partner.        *)
Satisfies(db, catalog) ==
  \A name \in DOMAIN catalog :
    LET t == catalog[name]  rows == db[name] IN
    /\ \A o \in DOMAIN rows, c \in t.non_null : rows[o][c] # Null
    /\ \A o \in DOMAIN rows, c \in DOMAIN t.accepted :
         rows[o][c] = Null \/ rows[o][c] \in t.accepted[c]
    /\ \A key \in t.unique : \A o, o2 \in DOMAIN rows :
         /\ o # o2
         /\ \A c \in key : rows[o][c] # Null
         => \E c \in key : rows[o][c] # rows[o2][c]
    /\ \A f \in t.foreign : \A o \in DOMAIN rows :
         (\A i \in DOMAIN f[1] : rows[o][f[1][i]] # Null) =>
           \E p \in DOMAIN db[f[2]] :
             \A i \in DOMAIN f[1] : db[f[2]][p][f[3][i]] = rows[o][f[1][i]]

-----------------------------------------------------------------------------
(* Scopes: the relations a query reads, by the name it reads them under.   *)
Scope(q, source, tables) ==
  [r \in {BaseRelation(q)} \cup {q.joins[i].table : i \in DOMAIN q.joins} |->
     IF r = BaseRelation(q) THEN source ELSE tables[r]]

HasColumn(table, name) == \A o \in DOMAIN table : name \in DOMAIN table[o]

Owners(col, scope) ==
  {r \in DOMAIN scope : col.table \in {None, r} /\ HasColumn(scope[r], col.name)}
Owner(col, scope) == CHOOSE r \in Owners(col, scope) : TRUE

(* A binding maps each relation of the scope to one of its rows. *)
Value(col, scope, b) ==
  LET r == Owner(col, scope) IN
  IF b[r] = Absent THEN Null ELSE scope[r][b[r]][col.name]

Meets(on, scope, b) ==
  \A i \in DOMAIN on :
    LET v == Value(on[i].left, scope, b) IN
    v # Null /\ v = Value(on[i].right, scope, b)

(* A predicate holds when it is TRUE: UNKNOWN filters a row out as well.   *)
Holds(w, scope, tables, b) ==
  CASE w.op = "is_not_null" -> Value(w.left, scope, b) # Null
    [] w.op \in {"=", "in"} -> Value(w.left, scope, b) \in w.values
    [] w.op = "not_in"      -> Value(w.left, scope, b) \notin w.values \cup {Null}
    [] w.op = "opaque"      -> Value(w.left, scope, b) \in w.values \cup {Null}
    [] w.op = "in_query"    ->
         Value(w.left, scope, b) \in {tables[w.table][o][w.name] : o \in DOMAIN tables[w.table]} \ {Null}
    [] w.op = "exists"      ->
         \E o \in DOMAIN tables[w.table] :
           Meets(w.on, (w.table :> tables[w.table]) @@ scope, (w.table :> o) @@ b)

(* FROM and the joins, left to right. *)
Bindings(q, scope) ==
  LET Partners(b, j) == {o \in DOMAIN scope[j.table] : Meets(j.on, scope, With(b, j.table, o))}
      Extended(b, j) ==
        {With(b, j.table, o) :
           o \in IF Partners(b, j) = {} /\ j.kind = "LEFT" THEN {Absent} ELSE Partners(b, j)}
      joined[i \in 0 .. Len(q.joins)] ==
        IF i = 0 THEN {[r \in {BaseRelation(q)} |-> o] : o \in DOMAIN scope[BaseRelation(q)]}
        ELSE UNION {Extended(b, q.joins[i]) : b \in joined[i - 1]}
  IN  joined[Len(q.joins)]

(* What one output column shows of a row, or of a group of rows. *)
OfRow(p, scope, tables, b) ==
  CASE p.kind = "column" -> Value(p.col, scope, b)
    [] p.kind = "opaque" -> IF Value(p.col, scope, b) = Null THEN Null ELSE 0
    [] p.kind = "star"   ->
         [r \in {x \in DOMAIN scope : p.col.table \in {None, x}} |->
            IF b[r] = Absent THEN Null ELSE scope[r][b[r]]]
    [] p.kind = "case"   ->
         LET taken == {i \in DOMAIN p.branches : Holds(p.branches[i].when, scope, tables, b)} IN
         IF taken = {} THEN p.default
         ELSE p.branches[CHOOSE i \in taken : \A j \in taken : i <= j].then

OfGroup(p, scope, g) ==
  LET shown == {Value(p.col, scope, b) : b \in g} \ {Null} IN
  CASE p.kind = "count"          -> Cardinality({b \in g : Value(p.col, scope, b) # Null})
    [] p.kind = "count_distinct" -> Cardinality(shown)
    [] p.kind = "max"            ->
         IF shown = {} THEN Null ELSE CHOOSE v \in shown : \A u \in shown : u <= v
    [] p.kind = "column"         -> Value(p.col, scope, CHOOSE b \in g : TRUE)

(* GROUP BY, or the single group of an aggregate without one. *)
IsGrouped(q) ==
  q.group_by # <<>> \/ \E i \in DOMAIN q.projections : IsAggregate(q.projections[i])

Groups(q, scope, rows) ==
  LET key(b) == [i \in DOMAIN q.group_by |-> Value(q.group_by[i], scope, b)]
      groups == IF q.group_by = <<>> THEN {rows}
                ELSE {{b \in rows : key(b) = k} : k \in {key(b) : b \in rows}}
  IN  {g \in groups : q.having => Cardinality(g) > 1}

(* The query before LIMIT: output rows by occurrence.  A true "qualify" is *)
(* the clause QUALIFY COUNT of all rows OVER () = 1, a true "having" is    *)
(* HAVING COUNT of all rows > 1.                                           *)
Qualified(q, rows) == IF q.qualify /\ Cardinality(rows) # 1 THEN {} ELSE rows

Shown(q, scope, tables, rows) ==
  IF IsGrouped(q)
  THEN [g \in Groups(q, scope, rows) |->
          [i \in DOMAIN q.projections |-> OfGroup(q.projections[i], scope, g)]]
  ELSE [b \in rows |->
          [i \in DOMAIN q.projections |-> OfRow(q.projections[i], scope, tables, b)]]

DistinctRows(q, shown) == IF q.distinct THEN [t \in Range(shown) |-> t] ELSE shown

Unlimited(q, scope, tables) ==
  LET filtered == {b \in Bindings(q, scope) :
                     \A i \in DOMAIN q.predicates : Holds(q.predicates[i], scope, tables, b)}
  IN  DistinctRows(q, Shown(q, scope, tables, Qualified(q, filtered)))

(* An aggregate, also one that only ORDER BY uses, forbids plain columns   *)
(* outside GROUP BY.                                                       *)
WellGrouped(q) ==
  LET shown == Range(q.projections) \cup Range(q.order_by) IN
  q.group_by # <<>> \/ (\E p \in shown : IsAggregate(p)) =>
    \A p \in shown : p.kind = "column" => \E g \in Range(q.group_by) : g.name = p.col.name

(* Every name resolves, to one relation. *)
Resolves(q, scope, tables) ==
  /\ WellGrouped(q)
  /\ \A i \in DOMAIN q.joins : q.joins[i].table \in DOMAIN tables
  /\ \A c \in (UNION {ColumnsOf(q.projections[i]) : i \in DOMAIN q.projections})
              \cup (UNION {ColumnsOf(q.order_by[i]) : i \in DOMAIN q.order_by})
              \cup Range(q.group_by)
              \cup {q.predicates[i].left :
                      i \in {k \in DOMAIN q.predicates : q.predicates[k].op # "exists"}} :
       Cardinality(Owners(c, scope)) = 1
  /\ \A i \in DOMAIN q.predicates :
       q.predicates[i].op = "exists" => q.predicates[i].table \in DOMAIN tables

(* LIMIT keeps as many rows as it says, whichever they are. *)
Limited(q, result) ==
  IF q.limit = None \/ Cardinality(DOMAIN result) <= q.limit THEN {result}
  ELSE {Restrict(result, kept) : kept \in {s \in SUBSET DOMAIN result : Cardinality(s) = q.limit}}

Outcomes(q, source, tables) ==
  LET scope == Scope(q, source, tables) IN
  IF Resolves(q, scope, tables) THEN Limited(q, Unlimited(q, scope, tables)) ELSE {}

(* A result as a table other queries can read; SELECT * over one relation  *)
(* has the columns of that.                                                *)
AsTable(q, result) ==
  [o \in DOMAIN result |->
     IF q.projections[1].kind = "star" THEN result[o][1][BaseRelation(q)] ELSE
     [n \in {OutputName(q.projections[i]) : i \in DOMAIN q.projections} |->
        result[o][CHOOSE i \in DOMAIN q.projections : OutputName(q.projections[i]) = n]]]

BagOf(result) == [row \in Range(result) |-> Cardinality({o \in DOMAIN result : result[o] = row})]

(* The tables a WITH clause may bind its name to. *)
CteTables(bodies, db) ==
  LET results(i) == {AsTable(bodies[i], r) : r \in Outcomes(bodies[i], db[bodies[i].table], db)}
      Append1(tables, i) ==
        {[o \in DOMAIN t \cup ({i} \X DOMAIN r) |-> IF o \in DOMAIN t THEN t[o] ELSE r[o[2]]] :
           t \in tables, r \in results(i)}
  IN  FoldLeft(Append1, {<<>>}, [i \in DOMAIN bodies |-> i])

(* What a database may return for a query with at most one CTE and one     *)
(* level of subqueries: a set of bags of rows.                             *)
Rows(q, db) ==
  LET withs   == IF q.with = None THEN {db}
                 ELSE {(q.with.name :> t) @@ db : t \in CteTables(q.with.bodies, db)}
      sources(tables) ==
        IF q.subquery = None
        THEN IF q.table \in DOMAIN tables THEN {tables[q.table]} ELSE {}
        ELSE {AsTable(q.subquery, r) : r \in Outcomes(q.subquery, tables[q.subquery.table], tables)}
  IN  UNION {UNION {{BagOf(r) : r \in Outcomes(q, source, tables)} : source \in sources(tables)}
              : tables \in withs}
=============================================================================
