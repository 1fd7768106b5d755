--------------------------- MODULE SolverBackends ---------------------------
(***************************************************************************)
(* The backends of src/qseal/verifier/backends/ that hand a pair of        *)
(* queries to an external solver: what each of them tells its solver of    *)
(* the tables and the trusted constraints, when it would rather abstain,   *)
(* and what it makes of the answer.                                        *)
(*                                                                         *)
(* A schema told to a solver is a catalog of its own: for each table the   *)
(* columns it has and the constraints on them.  The solvers are taken to   *)
(* be right about every database of that schema; column types, functions   *)
(* and qualified relation names are left out, and no query has a subquery  *)
(* in a predicate.                                                         *)
(***************************************************************************)
EXTENDS BuiltinVerifier

CONSTANT Values  \* what a column holds in the databases a solver looks at

(* The SELECTs of a text: the query, its subquery and the bodies of its    *)
(* WITH clause, each with the names in scope.                              *)
Selects(q) ==
  {q} \cup (IF q.subquery = None THEN {} ELSE {[q.subquery EXCEPT !.with = q.with]})
      \cup (IF q.with = None THEN {} ELSE Range(q.with.bodies))

JoinedTables(s) == {s.joins[i].table : i \in DOMAIN s.joins}

(* _selected_sources: what a SELECT reads, by the name it reads it under.  *)
Sources(s) == {BaseRelation(s)} \cup JoinedTables(s)
SourceTable(s, r) == IF r = BaseRelation(s) THEN s.table ELSE r

(* The SELECTs a source stands for, none for a base table. *)
SourceBodies(s, r) ==
  IF r = BaseRelation(s) /\ s.subquery # None THEN <<[s.subquery EXCEPT !.with = s.with]>>
  ELSE IF IsCte(s, SourceTable(s, r)) THEN s.with.bodies
  ELSE <<>>

BaseTables(q) ==
  UNION {{SourceTable(s, r) : r \in {x \in Sources(s) : SourceBodies(s, x) = <<>>}} : s \in Selects(q)}

(* _is_star_passthrough_body. *)
PassesThrough(s) == IsStarPassThrough(s) /\ s.subquery = None

(* From a source, a SELECT and a name in it, to the one its SELECT *       *)
(* reads.  The queries nest a subquery and a CTE, so that two steps reach  *)
(* the end.                                                                *)
Through(bodies, at) ==
  IF Len(bodies) = 1 /\ PassesThrough(bodies[1]) THEN <<bodies[1], BaseRelation(bodies[1])>> ELSE at

Follow(at) == Through(SourceBodies(at[1], at[2]), at)

(* _base_table: the table behind a source, or None. *)
TableAt(at) == IF SourceBodies(at[1], at[2]) = <<>> THEN SourceTable(at[1], at[2]) ELSE None

TableBehind(s, r) == TableAt(Follow(Follow(<<s, r>>)))

-----------------------------------------------------------------------------
(* TableConstraints.columns: the columns something is declared of. *)
Listed(t) == t.non_null \cup DOMAIN t.accepted

HasStar(s) == \E i \in DOMAIN s.projections : IsBareStar(s.projections[i])
SelectNames(s) == {OutputName(s.projections[i]) : i \in DOMAIN s.projections}

(* A table with declared columns has no others; a UNION, a star and a table*)
(* nothing is known of may have any.                                       *)
MayHold(t, name) == t = None \/ Listed(t) = {} \/ name \in Listed(t)

MayShow(bodies, name) ==
  Len(bodies) # 1 \/ HasStar(bodies[1]) \/ name \in SelectNames(bodies[1])

MayDefine(s, r, name, catalog) ==
  \E table \in {TableBehind(s, r)} :
    IF table # None THEN MayHold(TableOf(catalog, table), name) ELSE MayShow(SourceBodies(s, r), name)

Defines(s, r, name, catalog) ==
  \E bodies \in {SourceBodies(s, r)} :
    IF Len(bodies) = 1 /\ ~HasStar(bodies[1]) THEN name \in SelectNames(bodies[1])
    ELSE \E t \in {TableOf(catalog, TableBehind(s, r))} : t # None /\ name \in Listed(t)

(* _attribute_column: the one source a column belongs to, or no source.    *)
Only(S) == IF Cardinality(S) = 1 THEN S ELSE {}

Sure(may, s, col, catalog) ==
  IF Cardinality(may) = 1 THEN may ELSE Only({r \in may : Defines(s, r, col.name, catalog)})

Attributed(s, col, catalog) ==
  IF col.table # None THEN {col.table} \cap Sources(s)
  ELSE IF Cardinality(Sources(s)) = 1 THEN Sources(s)
  ELSE Sure({r \in Sources(s) : MayDefine(s, r, col.name, catalog)}, s, col, catalog)

(* scope.columns. *)
ColumnsIn(s) ==
  UNION ({ColumnsOf(s.projections[i]) : i \in DOMAIN s.projections}
         \cup {{s.predicates[i].left} : i \in DOMAIN s.predicates}
         \cup {Range(s.group_by)}
         \cup (UNION {{{s.joins[i].on[k].left, s.joins[i].on[k].right} : k \in DOMAIN s.joins[i].on} :
                        i \in DOMAIN s.joins}))

(* _attribute_to_source: for each column of a SELECT, the tables it may be *)
(* read from, one when its owner is sure.                                  *)
Reads(s, catalog) ==
  {{<<TableBehind(s, r), col.name>> : r \in Attributed(s, col, catalog)} : col \in ColumnsIn(s)}

(* collect_pair_schema: the base tables of both queries with the columns   *)
(* they are read for, or None when a column has no sure owner.             *)
SchemaOf(tables, reads) ==
  IF {} \in reads THEN None
  ELSE [table \in tables |-> {x[2] : x \in {y \in UNION reads : y[1] = table}}]

PairSchema(pair, catalog) ==
  SchemaOf(UNION {BaseTables(q) : q \in pair},
           UNION {Reads(s, catalog) : s \in UNION {Selects(q) : q \in pair}})

-----------------------------------------------------------------------------
(* CREATE TABLE wants a column. *)
OrSomeColumn(columns) == IF columns = {} THEN {"qseal_id"} ELSE columns

Declared(columns, nonNull, unique, foreign) ==
  [columns |-> OrSomeColumn(columns), non_null |-> nonNull, accepted |-> <<>>,
   unique |-> unique, foreign |-> foreign]

(* _referenced_tables: every name a FROM or a JOIN mentions. *)
Mentioned(pair) ==
  (UNION {UNION {{s.table} \cup JoinedTables(s) : s \in Selects(q)} : q \in pair}) \ {None}

(* Mutant: a key column is called PRIMARY KEY whether or not it may be NULL. *)
EveryKeyColumn(t) == {c \in UNION t.unique : {c} \in t.unique}

(* The columns _schema_sql calls PRIMARY KEY, which to SQL are NOT NULL.   *)
PrimaryKeys(t) == {c \in UNION t.unique : {c} \in t.unique /\ IsNonNull(t, c)}

(* SQLSolver is told of the mentioned tables the catalog knows: their      *)
(* declared columns, keys of one column, and references between them.      *)
SqlSolverTold(pair, catalog) ==
  LET told      == Mentioned(pair) \cap DOMAIN catalog
      kept(n)   == {f \in catalog[n].foreign : f[2] \in Mentioned(pair)}
      ends(n)   == UNION ({Range(f[1]) : f \in kept(n)}
                     \cup {UNION {Range(f[3]) : f \in {g \in kept(m) : g[2] = n}} : m \in told})
  IN  [n \in told |->
         Declared(Listed(catalog[n]) \cup ends(n) \cup (UNION catalog[n].unique),
                  catalog[n].non_null \cup PrimaryKeys(catalog[n]),
                  {{c} : c \in PrimaryKeys(catalog[n])}, kept(n))]

(* QED is told of the columns the pair reads, of all non-null columns and  *)
(* of the keys over such columns, and of no references.                    *)
FullyNonNull(t) == {key \in t.unique : key \subseteq t.non_null}

QedTold(schema, catalog) ==
  [n \in DOMAIN schema |->
     LET t == TableOf(catalog, n) IN
     IF t = None THEN Declared(schema[n], {}, {}, {})
     ELSE Declared(schema[n] \cup t.non_null \cup (UNION FullyNonNull(t)),
                   t.non_null, FullyNonNull(t), {})]

(* VeriEQL cannot be told of a reference between the tables, nor of a key  *)
(* that may be NULL.                                                       *)
CannotEncode(schema, catalog) ==
  \E n \in DOMAIN schema \cap DOMAIN catalog :
    \/ \E f \in catalog[n].foreign : f[2] \in DOMAIN schema
    \/ FullyNonNull(catalog[n]) # catalog[n].unique

(* Neither is asked when a column has no sure owner; VeriEQL's backend also*)
(* abstains rather than leave out a constraint it cannot encode or QUALIFY.*)
Abstains(backend, pair, schema, catalog) ==
  \/ schema = None
  \/ /\ backend = "verieql"
     /\ \/ \E q \in pair : \E s \in Selects(q) : s.qualify
        \/ CannotEncode(schema, catalog)

(* Beyond that VeriEQL is told the same as QED; accepted values are left   *)
(* out all the same.                                                       *)
ReadTold(backend, pair, schema, catalog) ==
  IF Abstains(backend, pair, schema, catalog) THEN None ELSE QedTold(schema, catalog)

(* What a backend tells its solver, None when it asks none. *)
Told(backend, pair, catalog) ==
  CASE backend = "sqlsolver"          -> SqlSolverTold(pair, catalog)
    [] backend \in {"qed", "verieql"} -> ReadTold(backend, pair, PairSchema(pair, catalog), catalog)
    [] OTHER                          -> None

-----------------------------------------------------------------------------
(* The databases of a told schema with the given numbers of rows. *)
ToldTables(t, sizes) ==
  {rows \in UNION {[1 .. n -> [t.columns -> Values \cup {Null}]] : n \in sizes} :
     Satisfies("t" :> rows, "t" :> [t EXCEPT !.foreign = {}])}

SolverDatabases(told, sizes) ==
  LET Add(dbs, n) == {(n :> rows) @@ db : rows \in ToldTables(told[n], sizes), db \in dbs} IN
  {db \in FoldSet(LAMBDA n, dbs : Add(dbs, n), {<<>>}, DOMAIN told) : Satisfies(db, told)}

(* A solver may always give up or fail.  When both queries mean something  *)
(* to it, it may find out whether they ever differ.                        *)
Answers(original, rewritten, told, sizes) ==
  LET rows == {<<Rows(original, db), Rows(rewritten, db)>> : db \in SolverDatabases(told, sizes)}
      found ==
        IF \/ ~(BaseTables(original) \cup BaseTables(rewritten) \subseteq DOMAIN told)
           \/ \E r \in rows : {} \in Range(r)
        THEN {}
        ELSE IF \A r \in rows : r[1] = r[2] THEN {"equal"} ELSE {"different"}
  IN  {"gave_up", "failed"} \cup found

SqlSolverVerdict(answer) ==
  CASE answer = "equal"     -> "proven"
    [] answer = "different" -> "not_equivalent"
    [] answer = "gave_up"   -> "unknown"
    [] OTHER                -> "unsupported"

(* A prover refutes nothing: NotProvable is no counterexample. *)
QedVerdict(answer) ==
  CASE answer = "equal"  -> "proven"
    [] answer = "failed" -> "unsupported"
    [] OTHER             -> "unknown"

(* A bounded refuter proves nothing. *)
VeriEqlVerdict(answer) ==
  CASE answer = "different" -> "not_equivalent"
    [] answer = "equal"     -> "unknown"
    [] OTHER                -> "unsupported"

VerdictOf(backend, answer) ==
  CASE backend = "sqlsolver" -> SqlSolverVerdict(answer)
    [] backend = "qed"       -> QedVerdict(answer)
    [] backend = "verieql"   -> VeriEqlVerdict(answer)

(* get_verifier_backend(...).verify, or refute for VeriEQL: the verdicts a *)
(* backend may come to.  The generic external one answers nothing.         *)
SolverVerdicts(backend, original, rewritten, told, sizes) ==
  IF told = None THEN {"unsupported"}
  ELSE {VerdictOf(backend, a) : a \in Answers(original, rewritten, told, sizes)}

BackendVerdicts(backend, original, rewritten, catalog, sizes) ==
  IF backend = "builtin" THEN {Verify(original, rewritten, catalog)}
  ELSE UNION {SolverVerdicts(backend, original, rewritten, told, sizes) :
                told \in {Told(backend, {original, rewritten}, catalog)}}
=============================================================================
