-------------------------- MODULE Rewriting_proofs --------------------------
(***************************************************************************)
(* Rewriting keeps the rows: for every catalog, every database that        *)
(* satisfies it and every query over one table that the database can       *)
(* answer, whatever its predicates and projections are and however many    *)
(* rewrites a session or a chain applies.  Then the same of the pairs the  *)
(* built-in verifier proves, what the solvers behind the other backends    *)
(* are told, that a chain ends where no rule has a match, and that every   *)
(* rewrite of a session leaves less to rewrite.                            *)
(***************************************************************************)
EXTENDS RewriteSession, RewriteChain, EquivalenceCheck, Collections_proofs, FunctionTheorems

-----------------------------------------------------------------------------
(* Results.                                                                *)
(* Two results are renamings of each other: each row of the one is a row   *)
(* of the other under another identity.                                    *)
IsRenaming(f, r1, r2) ==
  /\ f \in Bijection(DOMAIN r1, DOMAIN r2)
  /\ \A x \in DOMAIN r1 : r2[f[x]] = r1[x]

Renames(r1, r2) == \E f : IsRenaming(f, r1, r2)

LEMMA RenamingsAreSymmetric ==
  ASSUME NEW r1, NEW r2, Renames(r1, r2)
  PROVE  Renames(r2, r1)
<1>1. PICK f : IsRenaming(f, r1, r2)
  BY DEF Renames
<1> DEFINE g == Inverse(f, DOMAIN r1, DOMAIN r2)
<1>2. f \in Bijection(DOMAIN r1, DOMAIN r2)
  BY <1>1 DEF IsRenaming
<1>3. g \in Bijection(DOMAIN r2, DOMAIN r1) /\ \A x \in DOMAIN r1 : g[f[x]] = x
  BY <1>2, Fun_BijInverse
<1>4. \A y \in DOMAIN r2 : \E x \in DOMAIN r1 : f[x] = y
  BY <1>2, Fun_BijectionProperties
<1> HIDE DEF g
<1>5. \A y \in DOMAIN r2 : r1[g[y]] = r2[y]
  BY <1>1, <1>3, <1>4 DEF IsRenaming
<1> QED BY <1>3, <1>5 DEF Renames, IsRenaming

(* A part of a result and the rows it goes to.                             *)
LEMMA PartsAreRenamed ==
  ASSUME NEW r1, NEW r2, NEW f, IsRenaming(f, r1, r2), NEW s \in SUBSET DOMAIN r1
  PROVE  LET t == Range(Restrict(f, s)) IN
         /\ t \subseteq DOMAIN r2
         /\ Restrict(f, s) \in Bijection(s, t)
         /\ IsRenaming(Restrict(f, s), Restrict(r1, s), Restrict(r2, t))
<1> DEFINE g == Restrict(f, s)
           t == Range(g)
<1>1. f \in Bijection(DOMAIN r1, DOMAIN r2)
  BY DEF IsRenaming
<1>2. g \in Bijection(s, t)
  BY <1>1, Fun_BijRestrict
<1>3. \A x \in s : g[x] = f[x]
  BY DEF Restrict
<1>4. g \in [s -> t] /\ f \in [DOMAIN r1 -> DOMAIN r2]
  BY <1>1, <1>2, Fun_BijectionProperties
<1>5. t \subseteq DOMAIN r2
  <2>1. SUFFICES ASSUME NEW y \in t PROVE y \in DOMAIN r2
    OBVIOUS
  <2>2. \E x \in s : g[x] = y
    BY <1>4, Fun_RangeProperties
  <2> QED BY <2>2, <1>3, <1>4
<1>6. DOMAIN Restrict(r1, s) = s /\ DOMAIN Restrict(r2, t) = t
      /\ (\A x \in s : Restrict(r1, s)[x] = r1[x]) /\ \A y \in t : Restrict(r2, t)[y] = r2[y]
  BY DEF Restrict
<1> HIDE DEF g, t
<1>7. \A x \in s : Restrict(r2, t)[g[x]] = Restrict(r1, s)[x]
  BY <1>3, <1>4, <1>6 DEF IsRenaming
<1>8. IsRenaming(g, Restrict(r1, s), Restrict(r2, t))
  BY <1>2, <1>6, <1>7 DEF IsRenaming
<1> QED BY <1>2, <1>5, <1>8 DEF g, t

(* A renaming keeps the bag of rows.                                       *)
LEMMA RenamingKeepsBag ==
  ASSUME NEW r1, NEW r2, IsFiniteSet(DOMAIN r1), Renames(r1, r2)
  PROVE  BagOf(r1) = BagOf(r2)
<1>1. PICK f : IsRenaming(f, r1, r2)
  BY DEF Renames
<1>2. f \in Bijection(DOMAIN r1, DOMAIN r2)
  BY <1>1 DEF IsRenaming
<1>3. /\ f \in [DOMAIN r1 -> DOMAIN r2]
      /\ \A y \in DOMAIN r2 : \E x \in DOMAIN r1 : f[x] = y
  BY <1>2, Fun_BijectionProperties
<1>4. \A x \in DOMAIN r1 : r2[f[x]] = r1[x]
  BY <1>1 DEF IsRenaming
<1>5. Range(r1) = Range(r2)
  BY <1>3, <1>4 DEF Range
<1>6. ASSUME NEW row
      PROVE  Cardinality({o \in DOMAIN r1 : r1[o] = row}) = Cardinality({o \in DOMAIN r2 : r2[o] = row})
  <2> DEFINE s == {o \in DOMAIN r1 : r1[o] = row}
             t == {o \in DOMAIN r2 : r2[o] = row}
             g == Restrict(f, s)
  <2>1. g \in Bijection(s, Range(g)) /\ Range(g) \subseteq DOMAIN r2
    BY <1>1, PartsAreRenamed
  <2>2. \A x \in s : g[x] = f[x]
    BY DEF Restrict
  <2>3. Range(g) = {g[x] : x \in s}
    BY DEF Range, Restrict
  <2> HIDE DEF g
  <2>4. Range(g) = t
    BY <1>3, <1>4, <2>2, <2>3
  <2>5. IsFiniteSet(s)
    BY FS_Subset
  <2>6. ExistsBijection(s, t)
    BY <2>1, <2>4, Fun_ExistsBij
  <2> QED BY <2>5, <2>6, FS_Bijection
<1> QED BY <1>5, <1>6 DEF BagOf

(* LIMIT keeps what it keeps under either name.                            *)
LEMMA LimitedRenamings ==
  ASSUME NEW q, NEW p, q.limit = p.limit,
         NEW r1, NEW r2, IsFiniteSet(DOMAIN r1), Renames(r1, r2)
  PROVE  \A r \in Limited(q, r1) : \E u \in Limited(p, r2) : BagOf(r) = BagOf(u)
<1>1. PICK f : IsRenaming(f, r1, r2)
  BY DEF Renames
<1>2. ExistsBijection(DOMAIN r1, DOMAIN r2)
  BY <1>1, Fun_ExistsBij DEF IsRenaming
<1>3. Cardinality(DOMAIN r1) = Cardinality(DOMAIN r2)
  BY <1>2, FS_Bijection
<1>4. CASE q.limit = None \/ Cardinality(DOMAIN r1) <= q.limit
  <2>1. Limited(q, r1) = {r1} /\ Limited(p, r2) = {r2}
    BY <1>3, <1>4 DEF Limited
  <2> QED BY <2>1, RenamingKeepsBag
<1>5. CASE ~(q.limit = None \/ Cardinality(DOMAIN r1) <= q.limit)
  <2> SUFFICES ASSUME NEW r \in Limited(q, r1)
               PROVE  \E u \in Limited(p, r2) : BagOf(r) = BagOf(u)
    OBVIOUS
  <2>1. PICK s \in SUBSET DOMAIN r1 : Cardinality(s) = q.limit /\ r = Restrict(r1, s)
    BY <1>5 DEF Limited
  <2> DEFINE g == Restrict(f, s)
             t == Range(g)
  <2>2. t \subseteq DOMAIN r2 /\ g \in Bijection(s, t) /\ IsRenaming(g, Restrict(r1, s), Restrict(r2, t))
    BY <1>1, PartsAreRenamed
  <2>3. IsFiniteSet(s)
    BY FS_Subset
  <2> HIDE DEF g, t
  <2>4. Cardinality(t) = q.limit
    BY <2>1, <2>2, <2>3, Fun_ExistsBij, FS_Bijection
  <2>5. Restrict(r2, t) \in Limited(p, r2)
    BY <1>3, <1>5, <2>2, <2>4 DEF Limited
  <2>6. BagOf(Restrict(r1, s)) = BagOf(Restrict(r2, t))
    <3>1. DOMAIN Restrict(r1, s) = s
      BY DEF Restrict
    <3>2. Renames(Restrict(r1, s), Restrict(r2, t))
      BY <2>2 DEF Renames
    <3> QED BY <2>3, <3>1, <3>2, RenamingKeepsBag
  <2> QED BY <2>1, <2>5, <2>6
<1> QED BY <1>4, <1>5

LEMMA RenamedResults ==
  ASSUME NEW q, NEW p, q.limit = p.limit,
         NEW r1, NEW r2, IsFiniteSet(DOMAIN r1), Renames(r1, r2)
  PROVE  {BagOf(r) : r \in Limited(q, r1)} = {BagOf(r) : r \in Limited(p, r2)}
<1>1. PICK f : IsRenaming(f, r1, r2)
  BY DEF Renames
<1>2. IsFiniteSet(DOMAIN r2)
  BY <1>1, Fun_ExistsBij, FS_Bijection DEF IsRenaming
<1>3. \A r \in Limited(q, r1) : \E u \in Limited(p, r2) : BagOf(r) = BagOf(u)
  BY LimitedRenamings
<1>4. \A r \in Limited(p, r2) : \E u \in Limited(q, r1) : BagOf(r) = BagOf(u)
  BY <1>2, RenamingsAreSymmetric, LimitedRenamings
<1> QED BY <1>3, <1>4

-----------------------------------------------------------------------------
(* What a query is: a record with these fields, with lists in those that   *)
(* have several entries.                                                   *)
Fields ==
  {"table", "alias", "subquery", "with", "joins", "projections", "predicates",
   "group_by", "having", "qualify", "order_by", "limit", "distinct"}
IsQuery(q) ==
  /\ q = [f \in Fields |-> q[f]]
  /\ IsList(q.joins) /\ IsList(q.projections) /\ IsList(q.predicates)
  /\ IsList(q.group_by) /\ IsList(q.order_by)
  /\ q.having \in BOOLEAN /\ q.qualify \in BOOLEAN /\ q.distinct \in BOOLEAN

IsProjection(p) ==
  IF p.kind = "case" THEN p = CaseOf(p.branches, p.default, p.alias) /\ IsList(p.branches)
  ELSE p = Project(p.kind, p.col, p.alias)

(* The queries over one table.  A condition of a CASE compares a column    *)
(* with constants; an aggregate stands beside aggregates and columns only, *)
(* and not in ORDER BY.                                                    *)
IsFlat(q) ==
  /\ IsQuery(q)
  /\ q.with = None /\ q.subquery = None /\ q.joins = <<>>
  /\ \A p \in Range(q.projections) :
       /\ IsProjection(p)
       /\ p.kind = "case" => \A b \in Range(p.branches) : b.when.op # "in_query"
       /\ IsGrouped(q) => p.kind \in {"count", "count_distinct", "max", "column"}
  /\ \A p \in Range(q.order_by) : ~IsAggregate(p)

(* What a database is: finitely many rows, none of which stands for a      *)
(* missing one, of numbers or NULL.                                        *)
IsTable(t) ==
  /\ IsFiniteSet(DOMAIN t)
  /\ Absent \notin DOMAIN t
  /\ \A o \in DOMAIN t : \A c \in DOMAIN t[o] : t[o][c] \in Int \cup {Null}
IsDatabase(d) == \A n \in DOMAIN d : IsTable(d[n])

-----------------------------------------------------------------------------
(* Reading one table.                                                      *)
FlatScope(q, t) == [r \in {BaseRelation(q)} |-> t]
At(q, o)        == [r \in {BaseRelation(q)} |-> o]

LEMMA FlatScopeIs ==
  ASSUME NEW q, NEW t, NEW tables, q.joins = <<>>
  PROVE  Scope(q, t, tables) = FlatScope(q, t)
<1>1. {q.joins[i].table : i \in DOMAIN q.joins} = {}
  OBVIOUS
<1>2. {BaseRelation(q)} \cup {q.joins[i].table : i \in DOMAIN q.joins} = {BaseRelation(q)}
  BY <1>1
<1>3. Scope(q, t, tables) = [r \in {BaseRelation(q)} |-> IF r = BaseRelation(q) THEN t ELSE tables[r]]
  BY <1>2 DEF Scope
<1> QED BY <1>3 DEF FlatScope

LEMMA FlatBindingsAre ==
  ASSUME NEW q, NEW t, q.joins = <<>>
  PROVE  Bindings(q, FlatScope(q, t)) = {At(q, o) : o \in DOMAIN t}
<1> DEFINE base == {At(q, o) : o \in DOMAIN t}
           Joining(before, i) ==
             UNION {{With(b, q.joins[i].table, o) :
                       o \in IF {u \in DOMAIN FlatScope(q, t)[q.joins[i].table] :
                                   Meets(q.joins[i].on, FlatScope(q, t), With(b, q.joins[i].table, u))} = {}
                                /\ q.joins[i].kind = "LEFT"
                             THEN {Absent}
                             ELSE {u \in DOMAIN FlatScope(q, t)[q.joins[i].table] :
                                     Meets(q.joins[i].on, FlatScope(q, t), With(b, q.joins[i].table, u))}}
                    : b \in before}
           Joined(f) == f = [i \in 0 .. Len(q.joins) |-> IF i = 0 THEN base ELSE Joining(f[i - 1], i)]
           joined == CHOOSE f : Joined(f)
<1>1. FlatScope(q, t)[BaseRelation(q)] = t
  BY DEF FlatScope
<1>2. Bindings(q, FlatScope(q, t)) = joined[Len(q.joins)]
  BY <1>1 DEF Bindings, At
<1> HIDE DEF base, Joining
<1>3. Len(q.joins) = 0
  OBVIOUS
<1>4. \A i \in 0 .. Len(q.joins) : i = 0
  BY <1>3
<1>5. Joined([i \in 0 .. Len(q.joins) |-> base])
  BY <1>4
<1>6. Joined(joined)
  BY <1>5
<1>7. joined[0] = base
  BY <1>3, <1>6
<1> QED BY <1>2, <1>3, <1>7 DEF base

(* The columns a query mentions resolve to the one table.                  *)
LEMMA FlatOwner ==
  ASSUME NEW q, NEW t, NEW c, Cardinality(Owners(c, FlatScope(q, t))) = 1
  PROVE  /\ c.table \in {None, BaseRelation(q)}
         /\ HasColumn(t, c.name)
         /\ Owner(c, FlatScope(q, t)) = BaseRelation(q)
<1>1. Owners(c, FlatScope(q, t)) \subseteq {BaseRelation(q)}
  BY DEF Owners, FlatScope
<1>2. Owners(c, FlatScope(q, t)) # {}
  BY FS_EmptySet
<1>3. BaseRelation(q) \in Owners(c, FlatScope(q, t))
  BY <1>1, <1>2
<1>4. FlatScope(q, t)[BaseRelation(q)] = t
  BY DEF FlatScope
<1>5. Owner(c, FlatScope(q, t)) \in Owners(c, FlatScope(q, t))
  BY <1>3 DEF Owner
<1> QED BY <1>1, <1>3, <1>4, <1>5 DEF Owners

LEMMA FlatValue ==
  ASSUME NEW q, NEW t, IsTable(t), NEW c, Cardinality(Owners(c, FlatScope(q, t))) = 1,
         NEW o \in DOMAIN t
  PROVE  /\ Value(c, FlatScope(q, t), At(q, o)) = t[o][c.name]
         /\ t[o][c.name] \in Int \cup {Null}
<1>1. Owner(c, FlatScope(q, t)) = BaseRelation(q) /\ HasColumn(t, c.name)
  BY FlatOwner
<1>2. At(q, o)[BaseRelation(q)] = o /\ FlatScope(q, t)[BaseRelation(q)] = t
  BY DEF At, FlatScope
<1>3. o # Absent
  BY DEF IsTable
<1>4. Value(c, FlatScope(q, t), At(q, o)) = t[o][c.name]
  BY <1>1, <1>2, <1>3 DEF Value
<1> QED BY <1>1, <1>4 DEF IsTable, HasColumn

(* Two rows of the table are two bindings.                                 *)
LEMMA AtIsInjective ==
  ASSUME NEW q, NEW o, NEW o2, At(q, o) = At(q, o2)
  PROVE  o = o2
<1>1. At(q, o)[BaseRelation(q)] = o /\ At(q, o2)[BaseRelation(q)] = o2
  BY DEF At
<1> QED BY <1>1

LEMMA FlatBindingsAreFinite ==
  ASSUME NEW q, NEW t, IsTable(t)
  PROVE  IsFiniteSet({At(q, o) : o \in DOMAIN t})
<1> DEFINE S == {At(q, o) : o \in DOMAIN t}
           f == [o \in DOMAIN t |-> At(q, o)]
<1>1. f \in Surjection(DOMAIN t, S)
  <2>1. f \in [DOMAIN t -> S] /\ \A b \in S : \E o \in DOMAIN t : f[o] = b
    OBVIOUS
  <2> HIDE DEF f, S
  <2> QED BY <2>1, Fun_IsSurj
<1> QED BY <1>1, FS_Surjection DEF IsTable

-----------------------------------------------------------------------------
(* The answers to a query over one table.                                  *)

(* The columns that have to resolve.                                       *)
ColumnsAmong(ps)   == UNION {ColumnsOf(ps[i]) : i \in DOMAIN ps}
FilteredOn(ws)  == {ws[i].left : i \in {k \in DOMAIN ws : ws[k].op # "exists"}}
Used(q) ==
  ColumnsAmong(q.projections) \cup ColumnsAmong(q.order_by) \cup Range(q.group_by)
  \cup FilteredOn(q.predicates)

LEMMA FlatResolves ==
  ASSUME NEW q, NEW t, NEW tables, q.joins = <<>>
  PROVE  Resolves(q, FlatScope(q, t), tables) <=>
           /\ WellGrouped(q)
           /\ \A c \in Used(q) : Cardinality(Owners(c, FlatScope(q, t))) = 1
           /\ \A i \in DOMAIN q.predicates :
                q.predicates[i].op = "exists" => q.predicates[i].table \in DOMAIN tables
<1>1. \A i \in DOMAIN q.joins : q.joins[i].table \in DOMAIN tables
  OBVIOUS
<1> QED BY <1>1 DEF Resolves, Used, ColumnsAmong, FilteredOn

FlatKept(q, t, tables) ==
  {b \in {At(q, o) : o \in DOMAIN t} :
     \A i \in DOMAIN q.predicates : Holds(q.predicates[i], FlatScope(q, t), tables, b)}

LEMMA FlatUnlimited ==
  ASSUME NEW q, NEW t, NEW tables, q.joins = <<>>
  PROVE  Unlimited(q, FlatScope(q, t), tables) =
           DistinctRows(q, Shown(q, FlatScope(q, t), tables, Qualified(q, FlatKept(q, t, tables))))
BY FlatBindingsAre DEF Unlimited, FlatKept

LEMMA FlatRows ==
  ASSUME NEW q, NEW data, IsFlat(q)
  PROVE  Rows(q, data) = IF q.table \in DOMAIN data
                       THEN {BagOf(r) : r \in Outcomes(q, data[q.table], data)} ELSE {}
<1> DEFINE Source == IF q.table \in DOMAIN data THEN {data[q.table]} ELSE {}
           Bags(source) == {BagOf(r) : r \in Outcomes(q, source, data)}
<1>1. q.with = None /\ q.subquery = None
  BY DEF IsFlat
<1>2. Rows(q, data) = UNION {UNION {{BagOf(r) : r \in Outcomes(q, source, tables)} :
                              source \in IF q.table \in DOMAIN tables THEN {tables[q.table]} ELSE {}}
                           : tables \in {data}}
  BY <1>1 DEF Rows
<1>3. Rows(q, data) = UNION {Bags(source) : source \in Source}
  BY <1>2
<1>4. CASE q.table \in DOMAIN data
  <2>1. Source = {data[q.table]}
    BY <1>4
  <2> HIDE DEF Bags, Source
  <2>2. Rows(q, data) = Bags(data[q.table])
    BY <1>3, <2>1
  <2> QED BY <1>4, <2>2 DEF Bags
<1>5. CASE q.table \notin DOMAIN data
  <2>1. Source = {}
    BY <1>5
  <2> HIDE DEF Bags, Source
  <2> QED BY <1>3, <1>5, <2>1
<1> QED BY <1>4, <1>5

(* Queries over one table whose results before LIMIT are renamings of each *)
(* other have the same answers.                                            *)
SameTable(q, p) == p.table = q.table /\ p.alias = q.alias /\ p.limit = q.limit

SameBeforeLimit(q, p, scope, tables) ==
  /\ Resolves(p, scope, tables)
  /\ \/ Unlimited(p, scope, tables) = Unlimited(q, scope, tables)
     \/ /\ IsFiniteSet(DOMAIN Unlimited(q, scope, tables))
        /\ Renames(Unlimited(q, scope, tables), Unlimited(p, scope, tables))

LEMMA SameRowsIfRenamed ==
  ASSUME NEW q, NEW p, NEW data, IsFlat(q), IsFlat(p), SameTable(q, p), Rows(q, data) # {},
         q.table \in DOMAIN data /\ Resolves(q, FlatScope(q, data[q.table]), data) =>
           SameBeforeLimit(q, p, FlatScope(q, data[q.table]), data)
  PROVE  Rows(p, data) = Rows(q, data)
<1> DEFINE t == data[q.table]
           scope == FlatScope(q, t)
<1>1. q.table \in DOMAIN data
  BY FlatRows
<1>2. Rows(q, data) = {BagOf(r) : r \in Outcomes(q, t, data)}
  BY <1>1, FlatRows
<1>3. Scope(q, t, data) = scope /\ Scope(p, t, data) = scope
  <2>1. BaseRelation(p) = BaseRelation(q) /\ q.joins = <<>> /\ p.joins = <<>>
    BY DEF SameTable, BaseRelation, IsFlat
  <2>2. Scope(q, t, data) = FlatScope(q, t) /\ Scope(p, t, data) = FlatScope(p, t)
    BY <2>1, FlatScopeIs
  <2>3. FlatScope(p, t) = FlatScope(q, t)
    BY <2>1 DEF FlatScope
  <2> QED BY <2>2, <2>3
<1>4. Resolves(q, scope, data)
  BY <1>2, <1>3 DEF Outcomes
<1>5. SameBeforeLimit(q, p, scope, data)
  BY <1>1, <1>4
<1> HIDE DEF scope, t
<1>6. Outcomes(q, t, data) = Limited(q, Unlimited(q, scope, data))
  BY <1>3, <1>4 DEF Outcomes
<1>7. Outcomes(p, t, data) = Limited(p, Unlimited(p, scope, data))
  BY <1>3, <1>5 DEF Outcomes, SameBeforeLimit
<1>8. {BagOf(r) : r \in Limited(q, Unlimited(q, scope, data))}
      = {BagOf(r) : r \in Limited(p, Unlimited(p, scope, data))}
  <2>1. q.limit = p.limit
    BY DEF SameTable
  <2>2. CASE Unlimited(p, scope, data) = Unlimited(q, scope, data)
    BY <2>1, <2>2 DEF Limited
  <2>3. CASE /\ IsFiniteSet(DOMAIN Unlimited(q, scope, data))
             /\ Renames(Unlimited(q, scope, data), Unlimited(p, scope, data))
    BY <2>1, <2>3, RenamedResults
  <2> QED BY <1>5, <2>2, <2>3 DEF SameBeforeLimit
<1>9. Rows(p, data) = {BagOf(r) : r \in Outcomes(p, t, data)}
  <2>1. p.table \in DOMAIN data /\ data[p.table] = t
    BY <1>1 DEF SameTable, t
  <2> QED BY <2>1, FlatRows
<1> QED BY <1>2, <1>6, <1>7, <1>8, <1>9

-----------------------------------------------------------------------------
(* The two filter rules take predicates away that hold of every row.       *)
AgreeBut(field, q, p) == \A f \in Fields \ {field} : p[f] = q[f]

LEMMA ChangedPredicates ==
  ASSUME NEW q, IsQuery(q), NEW ws, IsList(ws)
  PROVE  LET p == [q EXCEPT !.predicates = ws] IN
         p.predicates = ws /\ AgreeBut("predicates", q, p) /\ IsQuery(p)
<1> DEFINE p == [q EXCEPT !.predicates = ws]
<1>1. q = [f \in Fields |-> q[f]] /\ "predicates" \in Fields
  BY DEF IsQuery, Fields
<1>2. p = [f \in Fields |-> IF f = "predicates" THEN ws ELSE q[f]]
  BY <1>1
<1> HIDE DEF p
<1>3. p.predicates = ws /\ \A f \in Fields \ {"predicates"} : p[f] = q[f]
  BY <1>1, <1>2
<1>4. p = [f \in Fields |-> p[f]]
  BY <1>2
<1>5. /\ p.joins = q.joins /\ p.projections = q.projections /\ p.group_by = q.group_by
      /\ p.order_by = q.order_by /\ p.having = q.having /\ p.qualify = q.qualify
      /\ p.distinct = q.distinct
  BY <1>3 DEF Fields
<1>6. IsQuery(p)
  BY <1>3, <1>4, <1>5 DEF IsQuery
<1> QED BY <1>3, <1>6 DEF AgreeBut, p

LEMMA FewerPredicates ==
  ASSUME NEW q, NEW ws, NEW data, IsFlat(q), Rows(q, data) # {},
         IsList(ws), Range(ws) \subseteq Range(q.predicates),
         q.table \in DOMAIN data /\ Resolves(q, FlatScope(q, data[q.table]), data) =>
           \A w \in Range(q.predicates) \ Range(ws) : \A o \in DOMAIN data[q.table] :
             Holds(w, FlatScope(q, data[q.table]), data, At(q, o))
  PROVE  LET p == [q EXCEPT !.predicates = ws] IN
         IsFlat(p) /\ Rows(p, data) = Rows(q, data)
<1> DEFINE p == [q EXCEPT !.predicates = ws]
<1>1. p.predicates = ws /\ AgreeBut("predicates", q, p) /\ IsQuery(p)
  BY ChangedPredicates DEF IsFlat
<1> HIDE DEF p
<1>2. /\ p.table = q.table /\ p.alias = q.alias /\ p.limit = q.limit /\ p.with = q.with
      /\ p.subquery = q.subquery /\ p.joins = q.joins /\ p.projections = q.projections
      /\ p.group_by = q.group_by /\ p.having = q.having /\ p.qualify = q.qualify
      /\ p.order_by = q.order_by /\ p.distinct = q.distinct
  BY <1>1 DEF AgreeBut, Fields
<1>3. IsGrouped(p) = IsGrouped(q)
  BY <1>2 DEF IsGrouped
<1>4. IsFlat(p)
  BY <1>1, <1>2, <1>3 DEF IsFlat
<1>5. ASSUME q.table \in DOMAIN data, Resolves(q, FlatScope(q, data[q.table]), data)
      PROVE  SameBeforeLimit(q, p, FlatScope(q, data[q.table]), data)
  <2> DEFINE t == data[q.table]
             scope == FlatScope(q, t)
  <2>0. q.joins = <<>> /\ p.joins = <<>>
    BY <1>2 DEF IsFlat
  <2>1. /\ WellGrouped(q)
        /\ \A c \in Used(q) : Cardinality(Owners(c, scope)) = 1
        /\ \A i \in DOMAIN q.predicates :
             q.predicates[i].op = "exists" => q.predicates[i].table \in DOMAIN data
    BY <1>5, <2>0, FlatResolves
  <2>2. FlatScope(p, t) = scope /\ \A o : At(p, o) = At(q, o)
    BY <1>2 DEF FlatScope, At, BaseRelation
  <2> HIDE DEF t, scope
  <2>3. \A i \in DOMAIN ws : \E k \in DOMAIN q.predicates : ws[i] = q.predicates[k]
    BY DEF Range
  <2>4. Used(p) \subseteq Used(q)
    <3>1. FilteredOn(ws) \subseteq FilteredOn(q.predicates)
      BY <2>3 DEF FilteredOn
    <3> QED BY <1>1, <1>2, <3>1 DEF Used
  <2>5. WellGrouped(p)
    BY <1>2, <2>1 DEF WellGrouped
  <2>6. \A i \in DOMAIN p.predicates :
          p.predicates[i].op = "exists" => p.predicates[i].table \in DOMAIN data
    BY <1>1, <2>1, <2>3
  <2>7. Resolves(p, scope, data)
    BY <2>0, <2>1, <2>2, <2>4, <2>5, <2>6, FlatResolves
  <2>8. FlatKept(p, t, data) = FlatKept(q, t, data)
    <3>1. ASSUME NEW o \in DOMAIN t
          PROVE  (\A i \in DOMAIN ws : Holds(ws[i], scope, data, At(q, o)))
                 <=> \A i \in DOMAIN q.predicates : Holds(q.predicates[i], scope, data, At(q, o))
      <4>1. ASSUME NEW i \in DOMAIN q.predicates, \A k \in DOMAIN ws : Holds(ws[k], scope, data, At(q, o))
            PROVE  Holds(q.predicates[i], scope, data, At(q, o))
        <5>1. CASE q.predicates[i] \in Range(ws)
          BY <4>1, <5>1 DEF Range
        <5>2. CASE q.predicates[i] \notin Range(ws)
          BY <1>5, <5>2 DEF Range, t, scope
        <5> QED BY <5>1, <5>2
      <4> QED BY <4>1, <2>3
    <3> QED BY <1>1, <2>2, <3>1 DEF FlatKept, scope
  <2>9. Unlimited(p, scope, data) = Unlimited(q, scope, data)
    <3>1. Unlimited(q, scope, data) = DistinctRows(q, Shown(q, scope, data, Qualified(q, FlatKept(q, t, data))))
      BY <2>0, FlatUnlimited DEF scope
    <3>2. Unlimited(p, scope, data) = DistinctRows(p, Shown(p, scope, data, Qualified(p, FlatKept(q, t, data))))
      BY <2>0, <2>2, <2>8, FlatUnlimited
    <3>3. \A rows : Qualified(p, rows) = Qualified(q, rows)
      BY <1>2 DEF Qualified
    <3>4. \A rows : Groups(p, scope, rows) = Groups(q, scope, rows)
      BY <1>2 DEF Groups
    <3>5. \A rows : Shown(p, scope, data, rows) = Shown(q, scope, data, rows)
      BY <1>2, <1>3, <3>4 DEF Shown
    <3>6. \A output : DistinctRows(p, output) = DistinctRows(q, output)
      BY <1>2 DEF DistinctRows
    <3> QED BY <3>1, <3>2, <3>3, <3>5, <3>6
  <2> QED BY <2>7, <2>9 DEF SameBeforeLimit, scope, t
<1>6. SameTable(q, p)
  BY <1>2 DEF SameTable
<1>7. Rows(p, data) = Rows(q, data)
  BY <1>4, <1>5, <1>6, SameRowsIfRenamed
<1> QED BY <1>4, <1>7 DEF p

(* A list without its i-th element.                                        *)
LEMMA ListWithout ==
  ASSUME NEW s, IsList(s), NEW i \in DOMAIN s
  PROVE  /\ IsList(RemoveAt(s, i)) /\ Range(RemoveAt(s, i)) \subseteq Range(s)
         /\ \A x \in Range(s) : x = s[i] \/ x \in Range(RemoveAt(s, i))
<1> DEFINE T == Range(s)
<1>1. s \in Seq(T) /\ DOMAIN s = 1 .. Len(s) /\ Len(s) \in Nat
  BY ListOf DEF IsList
<1> HIDE DEF T
<1> DEFINE a == SubSeq(s, 1, i - 1)
           b == SubSeq(s, i + 1, Len(s))
<1>2. /\ a \in Seq(T) /\ DOMAIN a = 1 .. i - 1 /\ \A k \in 1 .. i - 1 : a[k] = s[k]
  BY <1>1
<1>3. /\ b \in Seq(T) /\ DOMAIN b = 1 .. Len(s) - i /\ \A k \in 1 .. Len(s) - i : b[k] = s[i + k]
  BY <1>1
<1> HIDE DEF a, b
<1>4. IsList(a) /\ IsList(b) /\ Range(a) \subseteq T /\ Range(b) \subseteq T
  BY <1>2, <1>3, ListOf
<1>5. RemoveAt(s, i) = a \o b
  BY DEF RemoveAt, a, b
<1>6. IsList(RemoveAt(s, i)) /\ Range(RemoveAt(s, i)) = Range(a) \cup Range(b)
  BY <1>4, <1>5, ListsTogether
<1>7. ASSUME NEW x \in Range(s), x # s[i] PROVE x \in Range(a) \cup Range(b)
  <2>1. PICK k \in 1 .. Len(s) : s[k] = x
    BY <1>1, ListOf DEF IsList
  <2>2. k # i
    BY <1>7, <2>1
  <2>3. CASE k < i
    <3>1. k \in DOMAIN a /\ a[k] = x
      BY <1>1, <1>2, <2>1, <2>3
    <3> QED BY <3>1 DEF Range
  <2>4. CASE k > i
    <3>1. k - i \in DOMAIN b /\ i + (k - i) = k
      BY <1>1, <1>3, <2>1, <2>4
    <3>2. b[k - i] = x
      BY <1>3, <2>1, <3>1
    <3> QED BY <3>1, <3>2 DEF Range
  <2> QED BY <1>1, <2>1, <2>2, <2>3, <2>4
<1> QED BY <1>4, <1>6, <1>7 DEF T

(* What the catalog says of the table a query reads.                       *)
LEMMA FlatTableOf ==
  ASSUME NEW q, IsFlat(q), NEW cat, TableOf(cat, TableName(q)) # None
  PROVE  q.table \in DOMAIN cat /\ TableOf(cat, TableName(q)) = cat[q.table]
<1>1. q.subquery = None /\ q.with = None
  BY DEF IsFlat
<1>2. TableName(q) = q.table
  BY <1>1 DEF TableName, IsDirectTable, IsCte
<1> QED BY <1>2 DEF TableOf

LEMMA NonNullColumns ==
  ASSUME NEW data, NEW cat, Satisfies(data, cat), NEW name \in DOMAIN cat, NEW o \in DOMAIN data[name],
         NEW c \in cat[name].non_null
  PROVE  data[name][o][c] # Null
BY DEF Satisfies

LEMMA AcceptedColumns ==
  ASSUME NEW data, NEW cat, Satisfies(data, cat), NEW name \in DOMAIN cat, NEW o \in DOMAIN data[name],
         NEW c \in DOMAIN cat[name].accepted
  PROVE  data[name][o][c] = Null \/ data[name][o][c] \in cat[name].accepted[c]
BY DEF Satisfies

(* A filter the catalog answers lets every row through.                    *)
LEMMA TrustedFiltersHold ==
  ASSUME NEW q, NEW data, NEW cat, IsFlat(q), IsDatabase(data), Satisfies(data, cat),
         NEW rule, FilteredTable(q, cat) # None,
         NEW w \in Range(q.predicates), Trusted(rule, w, q, FilteredTable(q, cat)),
         q.table \in DOMAIN data, Resolves(q, FlatScope(q, data[q.table]), data),
         NEW o \in DOMAIN data[q.table]
  PROVE  Holds(w, FlatScope(q, data[q.table]), data, At(q, o))
<1> DEFINE t == FilteredTable(q, cat)
           scope == FlatScope(q, data[q.table])
           v == Value(w.left, scope, At(q, o))
<1>1. q.table \in DOMAIN cat /\ t = cat[q.table]
  <2>1. t = TableOf(cat, TableName(q))
    BY DEF FilteredTable
  <2> QED BY <2>1, FlatTableOf
<1>2. q.joins = <<>> /\ IsTable(data[q.table])
  BY DEF IsFlat, IsDatabase
<1>3. w.op \in {"is_not_null", "in"} /\ IsNonNull(t, w.left.name)
  BY DEF Trusted, TrustedNotNull, TrustedAcceptedValues
<1>4. w.left \in Used(q)
  <2>1. w.left \in FilteredOn(q.predicates)
    BY <1>3 DEF FilteredOn, Range
  <2> QED BY <2>1 DEF Used
<1>5. Cardinality(Owners(w.left, scope)) = 1
  BY <1>2, <1>4, FlatResolves
<1>6. v = data[q.table][o][w.left.name]
  BY <1>2, <1>5, FlatValue
<1>7. v # Null
  BY <1>1, <1>3, <1>6, NonNullColumns DEF IsNonNull
<1> HIDE DEF t, scope, v
<1>8. CASE w.op = "is_not_null"
  BY <1>7, <1>8 DEF Holds, v, scope
<1>9. CASE w.op = "in"
  <2>1. w.left.name \in DOMAIN t.accepted /\ t.accepted[w.left.name] = w.values
    BY <1>9 DEF Trusted, TrustedNotNull, TrustedAcceptedValues, AcceptedValues, t
  <2>2. v \in w.values
    BY <1>1, <1>6, <1>7, <2>1, AcceptedColumns
  <2> QED BY <1>9, <2>2 DEF Holds, v, scope
<1> QED BY <1>3, <1>8, <1>9

FilterRules == {"remove_redundant_not_null_filter", "remove_redundant_accepted_values_filter"}

(* The NOT NULL and accepted-values rules keep the rows: the match of one  *)
(* predicate, and apply(), which takes all of them                         *)
(* (src/qseal/rewrites/rules.py).                                          *)
LEMMA FilterRulesKeepRows ==
  ASSUME NEW q, NEW data, NEW cat, IsFlat(q), IsDatabase(data), Satisfies(data, cat), Rows(q, data) # {},
         NEW rule,
         NEW m \in RemoveRedundant(rule, q, cat) \cup RemoveAllRedundant(rule, q, cat)
  PROVE  IsFlat(m[2]) /\ Rows(m[2], data) = Rows(q, data)
<1> DEFINE t == FilteredTable(q, cat)
<1>0. IsList(q.predicates)
  BY DEF IsFlat, IsQuery
<1>1. PICK ws : /\ t # None /\ m[2] = [q EXCEPT !.predicates = ws]
                /\ IsList(ws) /\ Range(ws) \subseteq Range(q.predicates)
                /\ \A w \in Range(q.predicates) \ Range(ws) : Trusted(rule, w, q, t)
  <2>1. CASE m \in RemoveRedundant(rule, q, cat)
    <3>1. PICK i \in DOMAIN q.predicates :
            m \in Proven(t # None /\ Trusted(rule, q.predicates[i], q, t),
                         i, [q EXCEPT !.predicates = RemoveAt(@, i)])
      BY <2>1 DEF RemoveRedundant
    <3>2. /\ t # None /\ Trusted(rule, q.predicates[i], q, t)
          /\ m = <<i, [q EXCEPT !.predicates = RemoveAt(@, i)]>>
      BY <3>1 DEF Proven
    <3>3. m[2] = [q EXCEPT !.predicates = RemoveAt(q.predicates, i)]
      BY <3>2
    <3> HIDE DEF t
    <3> QED BY <1>0, <3>2, <3>3, ListWithout
  <2>2. CASE m \in RemoveAllRedundant(rule, q, cat)
    <3> DEFINE kept == {w \in Range(q.predicates) : ~Trusted(rule, w, q, t)}
    <3>1. t # None /\ m = <<1, [q EXCEPT !.predicates = Among(q.predicates, kept)]>>
      BY <2>2 DEF RemoveAllRedundant, Proven
    <3>2. m[2] = [q EXCEPT !.predicates = Among(q.predicates, kept)]
      BY <3>1
    <3>3. IsList(Among(q.predicates, kept)) /\ Range(Among(q.predicates, kept)) = Range(q.predicates) \cap kept
      BY <1>0, AmongRange
    <3>4. \A w \in Range(q.predicates) \ Range(Among(q.predicates, kept)) : Trusted(rule, w, q, t)
      BY <3>3
    <3> HIDE DEF kept, t
    <3> QED BY <3>1, <3>2, <3>3, <3>4
  <2> QED BY <2>1, <2>2
<1>2. ASSUME q.table \in DOMAIN data, Resolves(q, FlatScope(q, data[q.table]), data)
      PROVE  \A w \in Range(q.predicates) \ Range(ws) : \A o \in DOMAIN data[q.table] :
               Holds(w, FlatScope(q, data[q.table]), data, At(q, o))
  BY <1>1, <1>2, TrustedFiltersHold
<1> HIDE DEF t
<1> QED BY <1>1, <1>2, FewerPredicates

-----------------------------------------------------------------------------
(* Simplifying a CASE over accepted values.                                *)

(* A condition that the accepted values decide comes out as they say.      *)
LEMMA ConditionsAreDecided ==
  ASSUME NEW q, NEW data, NEW cat, IsFlat(q), IsDatabase(data), Satisfies(data, cat),
         TableOf(cat, TableName(q)) # None, q.table \in DOMAIN data,
         NEW o \in DOMAIN data[q.table],
         NEW w, w.op # "in_query",
         Cardinality(Owners(w.left, FlatScope(q, data[q.table]))) = 1
  PROVE  LET answer == ConditionVerdict(w, q, TableOf(cat, TableName(q)))
             holds   == Holds(w, FlatScope(q, data[q.table]), data, At(q, o))
         IN  (answer = "always_true" => holds) /\ (answer = "always_false" => ~holds)
<1> DEFINE t == TableOf(cat, TableName(q))
           scope == FlatScope(q, data[q.table])
           v == Value(w.left, scope, At(q, o))
           domain == IF OwnQualifier(q, w.left) /\ IsNonNull(t, w.left.name)
                     THEN AcceptedValues(t, w.left.name) ELSE {}
           values == IF w.op = "in_query" THEN {} ELSE w.values
           answer == ConditionVerdict(w, q, t)
<1>1. q.table \in DOMAIN cat /\ t = cat[q.table]
  BY FlatTableOf
<1>2. v = data[q.table][o][w.left.name]
  BY FlatValue DEF IsDatabase
<1>3. answer = IF w.op \notin {"=", "in", "in_query"} \/ domain = {} THEN "unknown"
                ELSE IF domain \subseteq values THEN "always_true"
                ELSE IF domain \cap values = {} THEN "always_false"
                ELSE "unknown"
  BY DEF ConditionVerdict
<1> HIDE DEF t, scope, v, answer
<1>4. SUFFICES ASSUME answer \in {"always_true", "always_false"}
               PROVE  (answer = "always_true" <=> Holds(w, scope, data, At(q, o)))
  BY DEF t, scope, answer
<1>5. w.op \in {"=", "in"} /\ domain # {}
  <2> HIDE DEF domain, values
  <2>1. ASSUME w.op \notin {"=", "in", "in_query"} \/ domain = {} PROVE FALSE
    <3>1. answer = "unknown"
      BY <1>3, <2>1
    <3> QED BY <1>4, <3>1
  <2> QED BY <2>1
<1>6. /\ values = w.values /\ IsNonNull(t, w.left.name)
      /\ w.left.name \in DOMAIN t.accepted /\ domain = t.accepted[w.left.name]
  BY <1>5 DEF AcceptedValues
<1>7. v # Null
  BY <1>1, <1>2, <1>6, NonNullColumns DEF IsNonNull
<1>8. v \in domain
  BY <1>1, <1>2, <1>6, <1>7, AcceptedColumns
<1>9. Holds(w, scope, data, At(q, o)) <=> v \in values
  BY <1>5, <1>6 DEF Holds, v
<1> HIDE DEF domain, values
<1>10. CASE domain \subseteq values
  BY <1>3, <1>5, <1>8, <1>9, <1>10
<1>11. CASE ~(domain \subseteq values)
  <2>1. domain \cap values = {} /\ answer = "always_false"
    BY <1>3, <1>4, <1>5, <1>11
  <2> QED BY <1>8, <1>9, <2>1
<1> QED BY <1>10, <1>11

(* What a CASE comes to in a row: the value of the first branch that holds.*)
CaseIs(p, Taken, v) ==
  \/ Taken = {} /\ v = p.default
  \/ \E i \in Taken : v = p.branches[i].then /\ \A j \in Taken : i <= j

LEMMA CaseOfRow ==
  ASSUME NEW p, p.kind = "case", IsList(p.branches), NEW scope, NEW tables, NEW b
  PROVE  /\ CaseIs(p, {i \in DOMAIN p.branches : Holds(p.branches[i].when, scope, tables, b)},
                   OfRow(p, scope, tables, b))
         /\ \A v : CaseIs(p, {i \in DOMAIN p.branches : Holds(p.branches[i].when, scope, tables, b)}, v)
                   => v = OfRow(p, scope, tables, b)
<1> DEFINE taken == {i \in DOMAIN p.branches : Holds(p.branches[i].when, scope, tables, b)}
           least == CHOOSE i \in taken : \A j \in taken : i <= j
<1>1. OfRow(p, scope, tables, b) = IF taken = {} THEN p.default ELSE p.branches[least].then
  BY DEF OfRow
<1>2. taken \subseteq Nat
  <2>1. DOMAIN p.branches = 1 .. Len(p.branches)
    BY ListOf DEF IsList
  <2> QED BY <2>1
<1> HIDE DEF taken
<1>3. taken # {} => \E i \in taken : \A j \in taken : i <= j
  BY <1>2, LeastNumber
<1>4. taken # {} => least \in taken /\ \A j \in taken : least <= j
  BY <1>3
<1>5. \A i, k \in taken : (\A j \in taken : i <= j) /\ (\A j \in taken : k <= j) => i = k
  BY <1>2
<1> HIDE DEF least
<1>6. CaseIs(p, taken, OfRow(p, scope, tables, b))
  BY <1>1, <1>4 DEF CaseIs
<1>7. ASSUME NEW v, CaseIs(p, taken, v) PROVE v = OfRow(p, scope, tables, b)
  BY <1>1, <1>4, <1>5, <1>7 DEF CaseIs
<1> QED BY <1>6, <1>7 DEF taken

LEMMA ConditionsOfCase ==
  ASSUME NEW q, NEW p \in Range(q.projections), p.kind = "case", NEW i \in DOMAIN p.branches
  PROVE  p.branches[i].when.left \in Used(q)
<1>1. p.branches[i].when.left \in ColumnsOf(p)
  BY DEF ColumnsOf
<1>2. p.branches[i].when.left \in ColumnsAmong(q.projections)
  BY <1>1 DEF ColumnsAmong, Range
<1> QED BY <1>2 DEF Used

(* The simplified CASE has the value of the original in every row.         *)
LEMMA SimplifiedCaseIsEqual ==
  ASSUME NEW q, NEW data, NEW cat, IsFlat(q), IsDatabase(data), Satisfies(data, cat),
         TableOf(cat, TableName(q)) # None, q.table \in DOMAIN data,
         NEW o \in DOMAIN data[q.table],
         NEW p \in Range(q.projections), p.kind = "case",
         \A c \in Used(q) : Cardinality(Owners(c, FlatScope(q, data[q.table]))) = 1
  PROVE  OfRow(SimplifiedCase(p, q, TableOf(cat, TableName(q))), FlatScope(q, data[q.table]), data, At(q, o))
           = OfRow(p, FlatScope(q, data[q.table]), data, At(q, o))
<1> DEFINE t == TableOf(cat, TableName(q))
           scope == FlatScope(q, data[q.table])
           b == At(q, o)
           answer(i) == ConditionVerdict(p.branches[i].when, q, t)
           holds(i) == Holds(p.branches[i].when, scope, data, b)
           taken == {i \in DOMAIN p.branches : holds(i)}
           first == {i \in DOMAIN p.branches : answer(i) = "always_true"
                       /\ \A j \in 1 .. i - 1 : answer(j) = "always_false"}
           kept  == {c \in Range(p.branches) : ConditionVerdict(c.when, q, t) # "always_false"}
           ks    == Among(p.branches, kept)
<1>1. IsList(p.branches) /\ \A i \in DOMAIN p.branches : p.branches[i].when.op # "in_query"
  BY DEF IsFlat, IsProjection, Range
<1>2. DOMAIN p.branches = 1 .. Len(p.branches) /\ Len(p.branches) \in Nat
  BY <1>1, ListOf DEF IsList
<1>3. \A i \in DOMAIN p.branches :
        (answer(i) = "always_true" => holds(i)) /\ (answer(i) = "always_false" => ~holds(i))
  BY <1>1, ConditionsOfCase, ConditionsAreDecided
<1>4. CaseIs(p, taken, OfRow(p, scope, data, b)) /\ \A v : CaseIs(p, taken, v) => v = OfRow(p, scope, data, b)
  BY <1>1, CaseOfRow
<1>5. CASE first # {}
  <2> DEFINE i == CHOOSE i \in first : TRUE
             r == CaseOf(<<>>, p.branches[i].then, p.alias)
  <2>1. SimplifiedCase(p, q, t) = r
    BY <1>5 DEF SimplifiedCase
  <2>2. i \in first
    BY <1>5
  <2> HIDE DEF i, answer, holds
  <2>3. i \in taken /\ \A j \in taken : i <= j
    <3>1. i \in DOMAIN p.branches /\ holds(i)
      BY <1>3, <2>2
    <3>2. ASSUME NEW j \in taken, ~(i <= j) PROVE FALSE
      <4>1. j \in 1 .. i - 1
        BY <1>2, <3>1, <3>2
      <4>2. answer(j) = "always_false"
        BY <2>2, <4>1
      <4> QED BY <1>3, <4>2
    <3> QED BY <3>1, <3>2
  <2> HIDE DEF taken
  <2>4. p.branches[i].then = OfRow(p, scope, data, b)
    <3>1. CaseIs(p, taken, p.branches[i].then)
      BY <2>3 DEF CaseIs
    <3> QED BY <1>4, <3>1
  <2>5. OfRow(r, scope, data, b) = p.branches[i].then
    <3>1. r.kind = "case" /\ r.branches = <<>> /\ r.default = p.branches[i].then
      BY DEF CaseOf
    <3> HIDE DEF r
    <3>2. {k \in DOMAIN r.branches : Holds(r.branches[k].when, scope, data, b)} = {}
      BY <3>1
    <3> QED BY <3>1, <3>2 DEF OfRow
  <2> QED BY <2>1, <2>4, <2>5
<1>6. CASE first = {}
  <2> DEFINE r == CaseOf(ks, p.default, p.alias)
             left == {k \in DOMAIN r.branches : Holds(r.branches[k].when, scope, data, b)}
  <2>1. SimplifiedCase(p, q, t) = r
    BY <1>6 DEF SimplifiedCase
  <2>2. r.kind = "case" /\ r.branches = ks /\ r.default = p.default
    BY DEF CaseOf
  <2>3. IsList(ks) /\ ks \in Seq(Range(p.branches))
    BY <1>1, AmongRange, AmongPlaces DEF IsList
  <2>4. PICK at : Places(p.branches, kept, Len(p.branches), ks, at)
    BY <1>1, AmongPlaces DEF IsList
  <2>5. DOMAIN ks = 1 .. Len(ks) /\ Len(ks) \in Nat
    BY <2>3
  <2>6. \A i \in taken : p.branches[i] \in kept
    BY <1>3 DEF Range
  <2> HIDE DEF r, ks, kept, answer
  <2>7. /\ at \in [1 .. Len(ks) -> 1 .. Len(p.branches)]
        /\ \A k \in 1 .. Len(ks) : ks[k] = p.branches[at[k]]
        /\ \A k, l \in 1 .. Len(ks) : k < l => at[k] < at[l]
        /\ \A i \in 1 .. Len(p.branches) : p.branches[i] \in kept => \E k \in 1 .. Len(ks) : at[k] = i
    BY <2>4 DEF Places
  <2>8. \A k \in left : at[k] \in taken /\ k \in 1 .. Len(ks) /\ r.branches[k].then = p.branches[at[k]].then
    BY <1>2, <2>2, <2>5, <2>7
  <2>9. \A i \in taken : \E k \in left : at[k] = i
    <3>1. TAKE i \in taken
    <3>2. i \in 1 .. Len(p.branches) /\ Holds(p.branches[i].when, scope, data, b)
      BY <1>2
    <3>3. PICK k \in 1 .. Len(ks) : at[k] = i
      BY <2>6, <2>7, <3>2
    <3>4. k \in DOMAIN r.branches /\ r.branches[k] = p.branches[i]
      BY <2>2, <2>5, <2>7, <3>3
    <3>5. k \in left
      BY <3>2, <3>4
    <3> QED BY <3>3, <3>5
  <2>10. CaseIs(r, left, OfRow(r, scope, data, b))
    BY <2>2, <2>3, CaseOfRow
  <2> HIDE DEF left, taken, holds
  <2>11. CaseIs(p, taken, OfRow(r, scope, data, b))
    <3>1. CASE left = {}
      <4>1. taken = {} /\ OfRow(r, scope, data, b) = p.default
        BY <2>2, <2>9, <2>10, <3>1 DEF CaseIs
      <4> QED BY <4>1 DEF CaseIs
    <3>2. CASE left # {}
      <4>1. PICK k \in left : OfRow(r, scope, data, b) = r.branches[k].then /\ \A l \in left : k <= l
        BY <2>10, <3>2 DEF CaseIs
      <4>2. \A j \in taken : at[k] <= j
        <5>1. TAKE j \in taken
        <5>2. PICK l \in left : at[l] = j
          BY <2>9
        <5>3. k <= l /\ k \in 1 .. Len(ks) /\ l \in 1 .. Len(ks)
          BY <2>8, <4>1
        <5>4. at[k] <= at[l]
          BY <2>5, <2>7, <5>3
        <5> QED BY <5>2, <5>4
      <4>3. at[k] \in taken /\ OfRow(r, scope, data, b) = p.branches[at[k]].then
        BY <2>8, <4>1
      <4> QED BY <4>2, <4>3 DEF CaseIs
    <3> QED BY <3>1, <3>2
  <2> QED BY <1>4, <2>1, <2>11
<1> QED BY <1>5, <1>6

-----------------------------------------------------------------------------
(* The rules that change what is shown of the rows.                        *)
Answered(q, data) == q.table \in DOMAIN data /\ Resolves(q, FlatScope(q, data[q.table]), data)

Output(q, scope, data, rows) == DistinctRows(q, Shown(q, scope, data, rows))

AlikeOn(q, p, scope, data, rows) ==
  \/ Output(p, scope, data, rows) = Output(q, scope, data, rows)
  \/ /\ IsFiniteSet(DOMAIN Output(q, scope, data, rows))
     /\ Renames(Output(q, scope, data, rows), Output(p, scope, data, rows))

LEMMA AnsweredIs ==
  ASSUME NEW q, NEW data, IsFlat(q), Answered(q, data)
  PROVE  /\ q.table \in DOMAIN data /\ WellGrouped(q)
         /\ \A c \in Used(q) : Cardinality(Owners(c, FlatScope(q, data[q.table]))) = 1
         /\ \A i \in DOMAIN q.predicates :
              q.predicates[i].op = "exists" => q.predicates[i].table \in DOMAIN data
<1>1. q.joins = <<>>
  BY DEF IsFlat
<1> QED BY <1>1, FlatResolves DEF Answered

LEMMA SameRowsIfAlike ==
  ASSUME NEW q, NEW p, NEW data, IsFlat(q), IsFlat(p), SameTable(q, p), Rows(q, data) # {},
         p.predicates = q.predicates, p.qualify = q.qualify,
         Used(p) \subseteq Used(q), WellGrouped(q) => WellGrouped(p),
         Answered(q, data) =>
           \A rows \in SUBSET {At(q, o) : o \in DOMAIN data[q.table]} :
             AlikeOn(q, p, FlatScope(q, data[q.table]), data, rows)
  PROVE  Rows(p, data) = Rows(q, data)
<1>1. ASSUME Answered(q, data) PROVE SameBeforeLimit(q, p, FlatScope(q, data[q.table]), data)
  <2> DEFINE t == data[q.table]
             scope == FlatScope(q, t)
             rows == Qualified(q, FlatKept(q, t, data))
  <2>1. /\ WellGrouped(q)
        /\ \A c \in Used(q) : Cardinality(Owners(c, scope)) = 1
        /\ \A i \in DOMAIN q.predicates :
             q.predicates[i].op = "exists" => q.predicates[i].table \in DOMAIN data
    BY <1>1, AnsweredIs
  <2>2. FlatScope(p, t) = scope /\ \A o : At(p, o) = At(q, o)
    BY DEF FlatScope, At, BaseRelation, SameTable
  <2>3. q.joins = <<>> /\ p.joins = <<>>
    BY DEF IsFlat
  <2>4. rows \in SUBSET {At(q, o) : o \in DOMAIN t}
    BY DEF Qualified, FlatKept
  <2> HIDE DEF scope, t
  <2>5. Resolves(p, scope, data)
    BY <2>1, <2>2, <2>3, FlatResolves
  <2>6. FlatKept(p, t, data) = FlatKept(q, t, data)
    BY <2>2 DEF FlatKept, scope
  <2>7. Qualified(p, FlatKept(p, t, data)) = rows
    BY <2>6 DEF Qualified
  <2>8. Unlimited(q, scope, data) = Output(q, scope, data, rows)
    BY <2>3, FlatUnlimited DEF Output, scope
  <2>9. Unlimited(p, scope, data) = Output(p, scope, data, rows)
    BY <2>2, <2>3, <2>7, FlatUnlimited DEF Output
  <2> HIDE DEF rows
  <2>10. AlikeOn(q, p, scope, data, rows)
    BY <1>1, <2>4 DEF t, scope
  <2>11. SameBeforeLimit(q, p, scope, data)
    BY <2>5, <2>8, <2>9, <2>10 DEF SameBeforeLimit, AlikeOn
  <2> QED BY <2>11 DEF scope, t
<1> QED BY <1>1, SameRowsIfRenamed DEF Answered

LEMMA ChangedProjections ==
  ASSUME NEW q, IsQuery(q), NEW ps, IsList(ps)
  PROVE  LET p == [q EXCEPT !.projections = ps] IN
         p.projections = ps /\ AgreeBut("projections", q, p) /\ IsQuery(p)
<1> DEFINE p == [q EXCEPT !.projections = ps]
<1>1. q = [f \in Fields |-> q[f]] /\ "projections" \in Fields
  BY DEF IsQuery, Fields
<1>2. p = [f \in Fields |-> IF f = "projections" THEN ps ELSE q[f]]
  BY <1>1
<1> HIDE DEF p
<1>3. p.projections = ps /\ \A f \in Fields \ {"projections"} : p[f] = q[f]
  BY <1>1, <1>2
<1>4. p = [f \in Fields |-> p[f]]
  BY <1>2
<1>5. /\ p.joins = q.joins /\ p.predicates = q.predicates /\ p.group_by = q.group_by
      /\ p.order_by = q.order_by /\ p.having = q.having /\ p.qualify = q.qualify
      /\ p.distinct = q.distinct
  BY <1>3 DEF Fields
<1>6. IsQuery(p)
  BY <1>3, <1>4, <1>5 DEF IsQuery
<1> QED BY <1>3, <1>6 DEF AgreeBut, p

(* One projection is replaced.                                             *)
LEMMA ListWithChange ==
  ASSUME NEW s, IsList(s), NEW i \in DOMAIN s, NEW x
  PROVE  LET u == [s EXCEPT ![i] = x] IN
         /\ IsList(u) /\ DOMAIN u = DOMAIN s /\ u[i] = x
         /\ \A k \in DOMAIN s : k # i => u[k] = s[k]
<1> DEFINE u == [s EXCEPT ![i] = x]
<1>1. u = [k \in DOMAIN s |-> u[k]]
  OBVIOUS
<1>2. u[i] = x /\ \A k \in DOMAIN s : k # i => u[k] = s[k]
  OBVIOUS
<1> HIDE DEF u
<1>3. IsList(u) /\ DOMAIN u = DOMAIN s
  BY <1>1, ListAlong
<1> QED BY <1>2, <1>3 DEF u

LEMMA SimplifiedCaseIs ==
  ASSUME NEW q, NEW p, NEW t, p.kind = "case", IsList(p.branches)
  PROVE  LET c == SimplifiedCase(p, q, t) IN
         /\ c.kind = "case" /\ IsProjection(c) /\ Range(c.branches) \subseteq Range(p.branches)
         /\ ColumnsOf(c) \subseteq ColumnsOf(p)
<1> DEFINE c == SimplifiedCase(p, q, t)
           kept == {b \in Range(p.branches) : ConditionVerdict(b.when, q, t) # "always_false"}
           ks == Among(p.branches, kept)
<1>1. IsList(ks) /\ Range(ks) = Range(p.branches) \cap kept
  BY AmongRange
<1> HIDE DEF ks, kept
<1>2. PICK bs, d : c = CaseOf(bs, d, p.alias) /\ bs \in {<<>>, ks}
  BY DEF SimplifiedCase, ks, kept
<1>3. IsList(bs) /\ Range(bs) \subseteq Range(p.branches)
  <2>1. IsList(<<>>) /\ Range(<<>>) = {}
    BY DEF IsList, Range
  <2> QED BY <1>1, <1>2, <2>1
<1> HIDE DEF c
<1>4. c.kind = "case" /\ c.branches = bs /\ c.default = d /\ c.alias = p.alias
  BY <1>2 DEF CaseOf
<1>5. IsProjection(c)
  BY <1>2, <1>3, <1>4 DEF IsProjection
<1>6. ColumnsOf(c) \subseteq ColumnsOf(p)
  <2>1. \A i \in DOMAIN bs : \E k \in DOMAIN p.branches : p.branches[k] = bs[i]
    BY <1>3 DEF Range
  <2> QED BY <1>4, <2>1 DEF ColumnsOf
<1> QED BY <1>3, <1>4, <1>5, <1>6 DEF c

(* The CASE rule keeps the rows.                                           *)
LEMMA CaseRuleKeepsRows ==
  ASSUME NEW q, NEW data, NEW cat, IsFlat(q), IsDatabase(data), Satisfies(data, cat), Rows(q, data) # {},
         NEW m \in SimplifyAcceptedValuesCase(q, cat)
  PROVE  IsFlat(m[2]) /\ Rows(m[2], data) = Rows(q, data)
<1> DEFINE t == TableOf(cat, TableName(q))
<1>1. PICK i \in DOMAIN q.projections :
        LET p == q.projections[i] IN
        m \in Proven(/\ p.kind = "case"
                     /\ q.joins = <<>> /\ q.group_by = <<>> /\ ~q.having /\ ~q.qualify
                     /\ ~ReferencesCte(q)
                     /\ t # None
                     /\ SimplifiedCase(p, q, t) # p,
                     i, [q EXCEPT !.projections[i] = SimplifiedCase(p, q, t)])
  BY DEF SimplifyAcceptedValuesCase
<1> DEFINE p == q.projections[i]
           c == SimplifiedCase(p, q, t)
           ps == [q.projections EXCEPT ![i] = c]
           r == [q EXCEPT !.projections = ps]
<1>2. /\ p.kind = "case" /\ q.group_by = <<>> /\ t # None
      /\ m[2] = [q EXCEPT !.projections[i] = c]
  BY <1>1 DEF Proven
<1>3. m[2] = r
  BY <1>2
<1>4. p \in Range(q.projections) /\ IsProjection(p) /\ IsQuery(q) /\ IsList(q.projections)
  BY DEF IsFlat, IsQuery, Range
<1>5. IsList(p.branches) /\ \A b \in Range(p.branches) : b.when.op # "in_query"
  BY <1>2, <1>4 DEF IsProjection, IsFlat
<1> HIDE DEF t
<1>6. /\ c.kind = "case" /\ IsProjection(c) /\ Range(c.branches) \subseteq Range(p.branches)
      /\ ColumnsOf(c) \subseteq ColumnsOf(p)
  BY <1>2, <1>5, SimplifiedCaseIs
<1> HIDE DEF c
<1>7. IsList(ps) /\ DOMAIN ps = DOMAIN q.projections /\ ps[i] = c
      /\ \A k \in DOMAIN q.projections : k # i => ps[k] = q.projections[k]
  BY <1>4, ListWithChange
<1> HIDE DEF ps
<1>8. r.projections = ps /\ AgreeBut("projections", q, r) /\ IsQuery(r)
  BY <1>4, <1>7, ChangedProjections
<1> HIDE DEF r
<1>9. /\ r.table = q.table /\ r.alias = q.alias /\ r.limit = q.limit /\ r.with = q.with
      /\ r.subquery = q.subquery /\ r.joins = q.joins /\ r.predicates = q.predicates
      /\ r.group_by = q.group_by /\ r.having = q.having /\ r.qualify = q.qualify
      /\ r.order_by = q.order_by /\ r.distinct = q.distinct
  BY <1>8 DEF AgreeBut, Fields
<1>10. \A k \in DOMAIN q.projections : IsAggregate(ps[k]) <=> IsAggregate(q.projections[k])
  <2>1. ~IsAggregate(c) /\ ~IsAggregate(p)
    BY <1>2, <1>6 DEF IsAggregate
  <2> QED BY <1>7, <2>1
<1>11. ~IsGrouped(q)
  BY <1>2, <1>4 DEF IsFlat
<1>12. ~IsGrouped(r)
  BY <1>7, <1>8, <1>9, <1>10, <1>11 DEF IsGrouped
<1>13. \A x \in Range(ps) : x = c \/ x \in Range(q.projections)
  BY <1>7 DEF Range
<1>14. IsFlat(r)
  BY <1>5, <1>6, <1>8, <1>9, <1>12, <1>13 DEF IsFlat
<1>15. Used(r) \subseteq Used(q)
  <2>1. ColumnsAmong(ps) \subseteq ColumnsAmong(q.projections)
    <3>1. \A k \in DOMAIN q.projections : ColumnsOf(ps[k]) \subseteq ColumnsOf(q.projections[k])
      BY <1>6, <1>7
    <3> QED BY <1>7, <3>1 DEF ColumnsAmong
  <2> QED BY <1>8, <1>9, <2>1 DEF Used
<1>16. WellGrouped(r)
  <2>1. \A x \in Range(ps) : ~IsAggregate(x)
    BY <1>7, <1>10, <1>11 DEF IsGrouped, Range
  <2>2. \A x \in Range(r.order_by) : ~IsAggregate(x)
    BY <1>9 DEF IsFlat
  <2> QED BY <1>2, <1>8, <1>9, <2>1, <2>2 DEF WellGrouped
<1>17. ASSUME Answered(q, data), NEW rows \in SUBSET {At(q, o) : o \in DOMAIN data[q.table]}
       PROVE  AlikeOn(q, r, FlatScope(q, data[q.table]), data, rows)
  <2> DEFINE scope == FlatScope(q, data[q.table])
  <2>1. q.table \in DOMAIN data /\ \A col \in Used(q) : Cardinality(Owners(col, scope)) = 1
    BY <1>17, AnsweredIs
  <2>2. \A b \in rows : OfRow(c, scope, data, b) = OfRow(p, scope, data, b)
    BY <1>2, <1>4, <2>1, SimplifiedCaseIsEqual DEF t, c
  <2> HIDE DEF scope
  <2>3. \A b \in rows : [k \in DOMAIN ps |-> OfRow(ps[k], scope, data, b)]
                        = [k \in DOMAIN q.projections |-> OfRow(q.projections[k], scope, data, b)]
    <3>1. \A b \in rows : \A k \in DOMAIN q.projections :
            OfRow(ps[k], scope, data, b) = OfRow(q.projections[k], scope, data, b)
      BY <1>7, <2>2
    <3> QED BY <1>7, <3>1
  <2>4. Shown(r, scope, data, rows) = Shown(q, scope, data, rows)
    BY <1>8, <1>11, <1>12, <2>3 DEF Shown
  <2>5. Output(r, scope, data, rows) = Output(q, scope, data, rows)
    BY <1>9, <2>4 DEF Output, DistinctRows
  <2> QED BY <2>5 DEF AlikeOn, scope
<1>18. SameTable(q, r)
  BY <1>9 DEF SameTable
<1>19. Rows(r, data) = Rows(q, data)
  BY <1>9, <1>14, <1>15, <1>16, <1>17, <1>18, SameRowsIfAlike
<1> QED BY <1>3, <1>14, <1>19

-----------------------------------------------------------------------------
(* The rules that rest on a key: two rows that agree on it are one.        *)
NamesOf(columns) == {c.name : c \in columns}

LEMMA KeysTellApart ==
  ASSUME NEW q, NEW data, NEW cat, IsFlat(q), IsDatabase(data), Satisfies(data, cat), Answered(q, data),
         TableOf(cat, TableName(q)) # None,
         NEW columns, NonNullUniqueKeyIn(TableOf(cat, TableName(q)), NamesOf(columns)),
         columns \subseteq Used(q),
         NEW b \in {At(q, o) : o \in DOMAIN data[q.table]},
         NEW b2 \in {At(q, o) : o \in DOMAIN data[q.table]},
         \A c \in columns : Value(c, FlatScope(q, data[q.table]), b) = Value(c, FlatScope(q, data[q.table]), b2)
  PROVE  b = b2
<1> DEFINE t == TableOf(cat, TableName(q))
           rows == data[q.table]
<1>1. q.table \in DOMAIN cat /\ t = cat[q.table]
  BY FlatTableOf
<1>2. PICK key \in t.unique : key \subseteq {c.name : c \in columns} /\ \A c \in key : IsNonNull(t, c)
  BY DEF NonNullUniqueKeyIn, NamesOf
<1>3. PICK o \in DOMAIN rows : b = At(q, o)
  OBVIOUS
<1>4. PICK o2 \in DOMAIN rows : b2 = At(q, o2)
  OBVIOUS
<1>5. IsTable(rows) /\ \A c \in columns : Cardinality(Owners(c, FlatScope(q, rows))) = 1
  BY AnsweredIs DEF IsDatabase
<1>6. \A c \in columns : rows[o][c.name] = rows[o2][c.name]
  BY <1>3, <1>4, <1>5, FlatValue
<1>7. \A c \in key : rows[o][c] = rows[o2][c] /\ rows[o][c] # Null
  BY <1>1, <1>2, <1>6, NonNullColumns DEF IsNonNull
<1>8. o # o2 /\ (\A c \in key : rows[o][c] # Null) => \E c \in key : rows[o][c] # rows[o2][c]
  BY <1>1, <1>2 DEF Satisfies
<1> QED BY <1>3, <1>4, <1>7, <1>8

LEMMA ChangedDistinct ==
  ASSUME NEW q, IsQuery(q), NEW d \in BOOLEAN
  PROVE  LET p == [q EXCEPT !.distinct = d] IN
         p.distinct = d /\ AgreeBut("distinct", q, p) /\ IsQuery(p)
<1> DEFINE p == [q EXCEPT !.distinct = d]
<1>1. q = [f \in Fields |-> q[f]] /\ "distinct" \in Fields
  BY DEF IsQuery, Fields
<1>2. p = [f \in Fields |-> IF f = "distinct" THEN d ELSE q[f]]
  BY <1>1
<1> HIDE DEF p
<1>3. p.distinct = d /\ \A f \in Fields \ {"distinct"} : p[f] = q[f]
  BY <1>1, <1>2
<1>4. p = [f \in Fields |-> p[f]]
  BY <1>2
<1>5. /\ p.joins = q.joins /\ p.predicates = q.predicates /\ p.group_by = q.group_by
      /\ p.order_by = q.order_by /\ p.having = q.having /\ p.qualify = q.qualify
      /\ p.projections = q.projections
  BY <1>3 DEF Fields
<1>6. IsQuery(p)
  BY <1>3, <1>4, <1>5 DEF IsQuery
<1> QED BY <1>3, <1>6 DEF AgreeBut, p

(* A list of columns: what it shows of a row.                              *)
LEMMA ColumnsShown ==
  ASSUME NEW q, ~IsGrouped(q), \A p \in Range(q.projections) : IsDirectColumn(p),
         NEW scope, NEW data, NEW rows
  PROVE  /\ DOMAIN Shown(q, scope, data, rows) = rows
         /\ \A b \in rows :
              Shown(q, scope, data, rows)[b]
                = [i \in DOMAIN q.projections |-> Value(q.projections[i].col, scope, b)]
<1>1. \A i \in DOMAIN q.projections : q.projections[i].kind = "column"
  BY DEF IsDirectColumn, Range
<1>2. \A b \in rows : \A i \in DOMAIN q.projections :
        OfRow(q.projections[i], scope, data, b) = Value(q.projections[i].col, scope, b)
  BY <1>1 DEF OfRow
<1>3. Shown(q, scope, data, rows)
      = [b \in rows |-> [i \in DOMAIN q.projections |-> OfRow(q.projections[i], scope, data, b)]]
  BY DEF Shown
<1> QED BY <1>2, <1>3

LEMMA ColumnsAreUsed ==
  ASSUME NEW q
  PROVE  /\ \A p \in Range(q.projections) : p.kind \notin {"star", "case"} => p.col \in Used(q)
         /\ Range(q.group_by) \subseteq Used(q)
<1>1. ASSUME NEW p \in Range(q.projections), p.kind \notin {"star", "case"} PROVE p.col \in Used(q)
  <2>1. p.col \in ColumnsOf(p)
    BY <1>1 DEF ColumnsOf
  <2>2. p.col \in ColumnsAmong(q.projections)
    BY <2>1 DEF ColumnsAmong, Range
  <2> QED BY <2>2 DEF Used
<1> QED BY <1>1 DEF Used

(* Rows that are all different are their own set.                          *)
LEMMA AllDifferent ==
  ASSUME NEW r, \A x, y \in DOMAIN r : r[x] = r[y] => x = y
  PROVE  Renames(r, [u \in Range(r) |-> u])
<1> DEFINE f == [x \in DOMAIN r |-> r[x]]
           s == [u \in Range(r) |-> u]
<1>1. f \in [DOMAIN r -> Range(r)] /\ DOMAIN s = Range(r)
  BY DEF Range
<1>2. \A x, y \in DOMAIN r : f[x] = f[y] => x = y
  OBVIOUS
<1>3. \A u \in Range(r) : \E x \in DOMAIN r : f[x] = u
  BY DEF Range
<1>4. \A x \in DOMAIN r : s[f[x]] = r[x]
  BY DEF Range
<1> HIDE DEF f, s
<1>5. f \in Bijection(DOMAIN r, Range(r))
  BY <1>1, <1>2, <1>3, Fun_IsBij
<1> QED BY <1>1, <1>4, <1>5 DEF Renames, IsRenaming, s

LEMMA DistinctRuleKeepsRows ==
  ASSUME NEW q, NEW data, NEW cat, IsFlat(q), IsDatabase(data), Satisfies(data, cat), Rows(q, data) # {},
         NEW m \in RemoveRedundantDistinct(q, cat)
  PROVE  IsFlat(m[2]) /\ Rows(m[2], data) = Rows(q, data)
<1> DEFINE t == TableOf(cat, TableName(q))
           r == [q EXCEPT !.distinct = FALSE]
           columns == {p.col : p \in Range(q.projections)}
<1>1. /\ m[2] = r /\ q.distinct /\ q.group_by = <<>> /\ t # None
      /\ \A p \in Range(q.projections) : IsDirectColumn(p)
      /\ NonNullUniqueKeyIn(t, {p.col.name : p \in Range(q.projections)})
  <2> DEFINE allowed == /\ q.distinct
                        /\ q.group_by = <<>> /\ ~q.having /\ q.joins = <<>>
                        /\ ~ReferencesCte(q)
                        /\ t # None
                        /\ \A p \in Range(q.projections) : IsDirectColumn(p)
                        /\ NonNullUniqueKeyIn(t, {p.col.name : p \in Range(q.projections)})
  <2>1. m \in Proven(allowed, 1, r)
    BY DEF RemoveRedundantDistinct
  <2> HIDE DEF allowed, r
  <2>2. allowed /\ m = <<1, r>>
    BY <2>1 DEF Proven
  <2>3. m[2] = r
    BY <2>2
  <2> QED BY <2>2, <2>3 DEF allowed
<1>2. {p.col.name : p \in Range(q.projections)} = NamesOf(columns)
  BY DEF NamesOf
<1>3. IsQuery(q)
  BY DEF IsFlat
<1> HIDE DEF t
<1>4. r.distinct = FALSE /\ AgreeBut("distinct", q, r) /\ IsQuery(r)
  BY <1>3, ChangedDistinct
<1> HIDE DEF r
<1>5. /\ r.table = q.table /\ r.alias = q.alias /\ r.limit = q.limit /\ r.with = q.with
      /\ r.subquery = q.subquery /\ r.joins = q.joins /\ r.predicates = q.predicates
      /\ r.group_by = q.group_by /\ r.having = q.having /\ r.qualify = q.qualify
      /\ r.order_by = q.order_by /\ r.projections = q.projections
  BY <1>4 DEF AgreeBut, Fields
<1>6. IsGrouped(r) = IsGrouped(q)
  BY <1>5 DEF IsGrouped
<1>7. IsFlat(r)
  BY <1>4, <1>5, <1>6 DEF IsFlat
<1>8. Used(r) = Used(q)
  BY <1>5 DEF Used
<1>9. \A p \in Range(q.projections) \cup Range(q.order_by) : ~IsAggregate(p)
  BY <1>1 DEF IsFlat, IsAggregate, IsDirectColumn
<1>10. WellGrouped(r)
  BY <1>1, <1>5, <1>9 DEF WellGrouped
<1>11. ~IsGrouped(q)
  BY <1>1, <1>9 DEF IsGrouped, Range
<1>12. columns \subseteq Used(q)
  BY <1>1, ColumnsAreUsed DEF IsDirectColumn
<1>13. ASSUME Answered(q, data), NEW rows \in SUBSET {At(q, o) : o \in DOMAIN data[q.table]}
       PROVE  AlikeOn(q, r, FlatScope(q, data[q.table]), data, rows)
  <2> DEFINE scope == FlatScope(q, data[q.table])
             output == Shown(q, scope, data, rows)
  <2>1. /\ DOMAIN output = rows
        /\ \A b \in rows :
             output[b] = [i \in DOMAIN q.projections |-> Value(q.projections[i].col, scope, b)]
    BY <1>1, <1>11, ColumnsShown
  <2>2. IsFiniteSet(rows)
    <3> DEFINE all == {At(q, o) : o \in DOMAIN data[q.table]}
    <3>1. IsTable(data[q.table])
      BY <1>13, AnsweredIs DEF IsDatabase
    <3>2. IsFiniteSet(all) /\ rows \subseteq all
      BY <3>1, <1>13, FlatBindingsAreFinite
    <3> HIDE DEF all
    <3> QED BY <3>2, FS_Subset
  <2> HIDE DEF output, scope
  <2>3. \A b, b2 \in rows : output[b] = output[b2] => b = b2
    <3>1. SUFFICES ASSUME NEW b \in rows, NEW b2 \in rows, output[b] = output[b2] PROVE b = b2
      OBVIOUS
    <3> HIDE DEF columns
    <3>2. \A i \in DOMAIN q.projections :
            Value(q.projections[i].col, scope, b) = Value(q.projections[i].col, scope, b2)
      <4>1. TAKE i \in DOMAIN q.projections
      <4>2. output[b][i] = Value(q.projections[i].col, scope, b)
            /\ output[b2][i] = Value(q.projections[i].col, scope, b2)
        BY <2>1
      <4> QED BY <3>1, <4>2
    <3>3. \A c \in columns : Value(c, scope, b) = Value(c, scope, b2)
      BY <3>2 DEF columns, Range
    <3>4. NonNullUniqueKeyIn(t, NamesOf(columns)) /\ columns \subseteq Used(q)
      BY <1>1, <1>2, <1>12 DEF columns
    <3>5. b \in {At(q, o) : o \in DOMAIN data[q.table]} /\ b2 \in {At(q, o) : o \in DOMAIN data[q.table]}
      BY <1>13, <3>1
    <3>6. TableOf(cat, TableName(q)) # None
          /\ NonNullUniqueKeyIn(TableOf(cat, TableName(q)), NamesOf(columns))
      BY <1>1, <3>4 DEF t
    <3>7. \A c \in columns : Value(c, FlatScope(q, data[q.table]), b) = Value(c, FlatScope(q, data[q.table]), b2)
      BY <3>3 DEF scope
    <3> QED BY <1>13, <3>4, <3>5, <3>6, <3>7, KeysTellApart
  <2>4. Renames(output, [u \in Range(output) |-> u])
    BY <2>1, <2>3, AllDifferent
  <2>5. Output(q, scope, data, rows) = [u \in Range(output) |-> u]
    BY <1>1 DEF Output, DistinctRows, output
  <2>6. Output(r, scope, data, rows) = output
    <3>1. Groups(r, scope, rows) = Groups(q, scope, rows)
      BY <1>5 DEF Groups
    <3>2. Shown(r, scope, data, rows) = output
      BY <1>5, <1>6, <3>1 DEF Shown, output
    <3> QED BY <1>4, <3>2 DEF Output, DistinctRows
  <2>7. Renames(Output(q, scope, data, rows), Output(r, scope, data, rows))
    BY <2>4, <2>5, <2>6, RenamingsAreSymmetric
  <2>8. IsFiniteSet(DOMAIN Output(q, scope, data, rows))
    <3>1. PICK f : IsRenaming(f, output, [u \in Range(output) |-> u])
      BY <2>4 DEF Renames
    <3>2. ExistsBijection(rows, Range(output))
      BY <2>1, <3>1, Fun_ExistsBij DEF IsRenaming
    <3> QED BY <2>2, <2>5, <3>2, FS_Bijection
  <2> QED BY <2>7, <2>8 DEF AlikeOn, scope
<1>14. SameTable(q, r)
  BY <1>5 DEF SameTable
<1>15. Rows(r, data) = Rows(q, data)
  BY <1>5, <1>7, <1>8, <1>10, <1>13, <1>14, SameRowsIfAlike
<1> QED BY <1>1, <1>7, <1>15

(* Distinct values are counted as the rows that have one, when no two rows *)
(* have the same.                                                          *)
LEMMA CountsAreDistinct ==
  ASSUME NEW col, NEW scope, NEW g, IsFiniteSet(g),
         \A b, b2 \in g : Value(col, scope, b) = Value(col, scope, b2) => b = b2
  PROVE  Cardinality({b \in g : Value(col, scope, b) # Null})
           = Cardinality({Value(col, scope, b) : b \in g} \ {Null})
<1> DEFINE s == {b \in g : Value(col, scope, b) # Null}
           u == {Value(col, scope, b) : b \in g} \ {Null}
           f == [b \in s |-> Value(col, scope, b)]
<1>1. f \in [s -> u]
  OBVIOUS
<1>2. \A b, b2 \in s : f[b] = f[b2] => b = b2
  OBVIOUS
<1>3. \A v \in u : \E b \in s : f[b] = v
  OBVIOUS
<1>4. IsFiniteSet(s)
  BY FS_Subset
<1> HIDE DEF f, s, u
<1>5. f \in Bijection(s, u)
  BY <1>1, <1>2, <1>3, Fun_IsBij
<1>6. ExistsBijection(s, u)
  BY <1>5, Fun_ExistsBij
<1> QED BY <1>4, <1>6, FS_Bijection DEF s, u

LEMMA GroupsAreParts ==
  ASSUME NEW q, NEW scope, NEW rows, NEW g \in Groups(q, scope, rows)
  PROVE  g \subseteq rows
BY DEF Groups

LEMMA CountDistinctRuleKeepsRows ==
  ASSUME NEW q, NEW data, NEW cat, IsFlat(q), IsDatabase(data), Satisfies(data, cat), Rows(q, data) # {},
         NEW m \in RemoveRedundantCountDistinct(q, cat)
  PROVE  IsFlat(m[2]) /\ Rows(m[2], data) = Rows(q, data)
<1> DEFINE t == TableOf(cat, TableName(q))
<1>1. PICK i \in DOMAIN q.projections :
        LET p == q.projections[i] IN
        m \in Proven(/\ p.kind = "count_distinct"
                     /\ ~q.distinct /\ q.joins = <<>> /\ ~q.having /\ ~q.qualify
                     /\ ~ReferencesCte(q)
                     /\ OwnQualifier(q, p.col)
                     /\ t # None
                     /\ NonNullUniqueKeyIn(t, {p.col.name}),
                     i, [q EXCEPT !.projections[i].kind = "count"])
  BY DEF RemoveRedundantCountDistinct
<1> DEFINE p == q.projections[i]
           c == Project("count", p.col, p.alias)
           ps == [q.projections EXCEPT ![i] = c]
           r == [q EXCEPT !.projections = ps]
<1>2. /\ p.kind = "count_distinct" /\ t # None /\ NonNullUniqueKeyIn(t, {p.col.name})
      /\ m[2] = [q EXCEPT !.projections[i].kind = "count"]
  BY <1>1 DEF Proven
<1>4. p \in Range(q.projections) /\ IsProjection(p) /\ IsQuery(q) /\ IsList(q.projections)
  BY DEF IsFlat, IsQuery, Range
<1>5. p = Project("count_distinct", p.col, p.alias)
  BY <1>2, <1>4 DEF IsProjection
<1>3. m[2] = r
  <2>1. [p EXCEPT !.kind = "count"] = c
    BY <1>5 DEF Project
  <2>2. m[2] = [q EXCEPT !.projections = [q.projections EXCEPT ![i] = [p EXCEPT !.kind = "count"]]]
    BY <1>2
  <2> HIDE DEF c, p
  <2> QED BY <2>1, <2>2
<1> HIDE DEF t
<1>6. /\ c.kind = "count" /\ c.col = p.col /\ IsProjection(c) /\ IsAggregate(c)
      /\ ColumnsOf(c) = {p.col}
  BY DEF Project, IsProjection, ColumnsOf, IsAggregate
<1>22. ColumnsOf(p) = {p.col} /\ IsAggregate(p)
  BY <1>2 DEF ColumnsOf, IsAggregate
<1> HIDE DEF c
<1>7. IsList(ps) /\ DOMAIN ps = DOMAIN q.projections /\ ps[i] = c
      /\ \A k \in DOMAIN q.projections : k # i => ps[k] = q.projections[k]
  BY <1>4, ListWithChange
<1> HIDE DEF ps
<1>8. r.projections = ps /\ AgreeBut("projections", q, r) /\ IsQuery(r)
  BY <1>4, <1>7, ChangedProjections
<1> HIDE DEF r
<1>9. /\ r.table = q.table /\ r.alias = q.alias /\ r.limit = q.limit /\ r.with = q.with
      /\ r.subquery = q.subquery /\ r.joins = q.joins /\ r.predicates = q.predicates
      /\ r.group_by = q.group_by /\ r.having = q.having /\ r.qualify = q.qualify
      /\ r.order_by = q.order_by /\ r.distinct = q.distinct
  BY <1>8 DEF AgreeBut, Fields
<1>11. IsGrouped(q) /\ IsGrouped(r)
  BY <1>6, <1>7, <1>8, <1>22 DEF IsGrouped
<1>13. \A x \in Range(ps) : x = c \/ x \in Range(q.projections)
  BY <1>7 DEF Range
<1>14. IsFlat(r)
  BY <1>6, <1>8, <1>9, <1>11, <1>13 DEF IsFlat
<1>15. Used(r) \subseteq Used(q)
  <2>1. ColumnsAmong(ps) \subseteq ColumnsAmong(q.projections)
    <3>1. \A k \in DOMAIN q.projections : ColumnsOf(ps[k]) \subseteq ColumnsOf(q.projections[k])
      BY <1>6, <1>7, <1>22
    <3> QED BY <1>7, <3>1 DEF ColumnsAmong
  <2> QED BY <1>8, <1>9, <2>1 DEF Used
<1>16. ASSUME WellGrouped(q) PROVE WellGrouped(r)
  <2>1. \A x \in Range(q.projections) \cup Range(q.order_by) :
          x.kind = "column" => \E g \in Range(q.group_by) : g.name = x.col.name
    BY <1>4, <1>16, <1>22 DEF WellGrouped
  <2>2. \A x \in Range(ps) \cup Range(q.order_by) :
          x.kind = "column" => \E g \in Range(q.group_by) : g.name = x.col.name
    BY <1>6, <1>13, <2>1
  <2> QED BY <1>8, <1>9, <2>2 DEF WellGrouped
<1>17. ASSUME Answered(q, data), NEW rows \in SUBSET {At(q, o) : o \in DOMAIN data[q.table]}
       PROVE  AlikeOn(q, r, FlatScope(q, data[q.table]), data, rows)
  <2> DEFINE scope == FlatScope(q, data[q.table])
             all == {At(q, o) : o \in DOMAIN data[q.table]}
  <2>1. IsFiniteSet(all) /\ rows \subseteq all
    <3>1. IsTable(data[q.table])
      BY <1>17, AnsweredIs DEF IsDatabase
    <3> QED BY <3>1, <1>17, FlatBindingsAreFinite
  <2>2. \A b, b2 \in all : Value(p.col, scope, b) = Value(p.col, scope, b2) => b = b2
    <3>1. SUFFICES ASSUME NEW b \in all, NEW b2 \in all, Value(p.col, scope, b) = Value(p.col, scope, b2)
                   PROVE  b = b2
      OBVIOUS
    <3>2. {p.col} \subseteq Used(q)
      BY <1>2, <1>4, ColumnsAreUsed
    <3>3. NamesOf({p.col}) = {p.col.name}
      BY DEF NamesOf
    <3>4. TableOf(cat, TableName(q)) # None
          /\ NonNullUniqueKeyIn(TableOf(cat, TableName(q)), NamesOf({p.col}))
      BY <1>2, <3>3 DEF t
    <3>5. b \in {At(q, o) : o \in DOMAIN data[q.table]} /\ b2 \in {At(q, o) : o \in DOMAIN data[q.table]}
      OBVIOUS
    <3>6. \A d \in {p.col} : Value(d, FlatScope(q, data[q.table]), b) = Value(d, FlatScope(q, data[q.table]), b2)
      BY <3>1
    <3> HIDE DEF p, all, scope
    <3> QED BY <1>17, <3>2, <3>4, <3>5, <3>6, KeysTellApart
  <2> HIDE DEF scope, all
  <2>3. ASSUME NEW g \in Groups(q, scope, rows)
        PROVE  OfGroup(c, scope, g) = OfGroup(p, scope, g)
    <3>1. g \subseteq all /\ IsFiniteSet(g)
      BY <2>1, GroupsAreParts, FS_Subset
    <3>2. \A b, b2 \in g : Value(p.col, scope, b) = Value(p.col, scope, b2) => b = b2
      BY <2>2, <3>1
    <3>3. Cardinality({b \in g : Value(p.col, scope, b) # Null})
            = Cardinality({Value(p.col, scope, b) : b \in g} \ {Null})
      BY <3>1, <3>2, CountsAreDistinct
    <3>4. OfGroup(c, scope, g) = Cardinality({b \in g : Value(p.col, scope, b) # Null})
      BY <1>6 DEF OfGroup
    <3>5. OfGroup(p, scope, g) = Cardinality({Value(p.col, scope, b) : b \in g} \ {Null})
      BY <1>2 DEF OfGroup
    <3> QED BY <3>3, <3>4, <3>5
  <2>4. Groups(r, scope, rows) = Groups(q, scope, rows)
    BY <1>9 DEF Groups
  <2>5. \A g \in Groups(q, scope, rows) :
          [k \in DOMAIN ps |-> OfGroup(ps[k], scope, g)]
          = [k \in DOMAIN q.projections |-> OfGroup(q.projections[k], scope, g)]
    <3>1. \A g \in Groups(q, scope, rows) : \A k \in DOMAIN q.projections :
            OfGroup(ps[k], scope, g) = OfGroup(q.projections[k], scope, g)
      BY <1>7, <2>3
    <3> QED BY <1>7, <3>1
  <2>6. Shown(r, scope, data, rows) = Shown(q, scope, data, rows)
    BY <1>8, <1>11, <2>4, <2>5 DEF Shown
  <2>7. Output(r, scope, data, rows) = Output(q, scope, data, rows)
    BY <1>9, <2>6 DEF Output, DistinctRows
  <2> QED BY <2>7 DEF AlikeOn, scope
<1>18. SameTable(q, r)
  BY <1>9 DEF SameTable
<1>19. Rows(r, data) = Rows(q, data)
  BY <1>9, <1>14, <1>15, <1>16, <1>17, <1>18, SameRowsIfAlike
<1> QED BY <1>3, <1>14, <1>19

LEMMA ChangedGrouping ==
  ASSUME NEW q, IsQuery(q), NEW ps, IsList(ps)
  PROVE  LET p == [q EXCEPT !.group_by = <<>>, !.projections = ps] IN
         /\ p.group_by = <<>> /\ p.projections = ps /\ IsQuery(p)
         /\ \A f \in Fields \ {"group_by", "projections"} : p[f] = q[f]
<1> DEFINE p == [q EXCEPT !.group_by = <<>>, !.projections = ps]
<1>1. q = [f \in Fields |-> q[f]] /\ "group_by" \in Fields /\ "projections" \in Fields
  BY DEF IsQuery, Fields
<1>2. p = [f \in Fields |-> IF f = "projections" THEN ps ELSE IF f = "group_by" THEN <<>> ELSE q[f]]
  BY <1>1
<1> HIDE DEF p
<1>3. p.group_by = <<>> /\ p.projections = ps /\ \A f \in Fields \ {"group_by", "projections"} : p[f] = q[f]
  BY <1>1, <1>2
<1>4. p = [f \in Fields |-> p[f]]
  BY <1>2
<1>5. /\ p.joins = q.joins /\ p.predicates = q.predicates
      /\ p.order_by = q.order_by /\ p.having = q.having /\ p.qualify = q.qualify
      /\ p.distinct = q.distinct
  BY <1>3 DEF Fields
<1>6. IsList(<<>>)
  BY DEF IsList
<1>7. IsQuery(p)
  BY <1>3, <1>4, <1>5, <1>6 DEF IsQuery
<1> QED BY <1>3, <1>7 DEF p

(* Grouped by a key, every group is one row.                               *)
LEMMA GroupsAreRows ==
  ASSUME NEW q, q.group_by # <<>>, ~q.having, NEW scope, NEW rows,
         \A b, b2 \in rows :
           (\A i \in DOMAIN q.group_by : Value(q.group_by[i], scope, b) = Value(q.group_by[i], scope, b2))
           => b = b2
  PROVE  Groups(q, scope, rows) = {{b} : b \in rows}
<1> DEFINE key(b) == [i \in DOMAIN q.group_by |-> Value(q.group_by[i], scope, b)]
<1>1. Groups(q, scope, rows) = {{b \in rows : key(b) = k} : k \in {key(b) : b \in rows}}
  BY DEF Groups
<1>2. \A b, b2 \in rows : key(b) = key(b2) => b = b2
  <2>1. SUFFICES ASSUME NEW b \in rows, NEW b2 \in rows, key(b) = key(b2) PROVE b = b2
    OBVIOUS
  <2>2. \A i \in DOMAIN q.group_by : Value(q.group_by[i], scope, b) = Value(q.group_by[i], scope, b2)
    <3>1. TAKE i \in DOMAIN q.group_by
    <3>2. key(b)[i] = Value(q.group_by[i], scope, b) /\ key(b2)[i] = Value(q.group_by[i], scope, b2)
      OBVIOUS
    <3> QED BY <2>1, <3>2
  <2> QED BY <2>2
<1> HIDE DEF key
<1>3. \A b \in rows : {b2 \in rows : key(b2) = key(b)} = {b}
  BY <1>2
<1> QED BY <1>1, <1>3

(* What a collapsed projection shows of a row.                             *)
LEMMA CollapsedShows ==
  ASSUME NEW p, IsProjection(p), p.kind \in {"column", "max"}, NEW scope, NEW data, NEW b,
         Value(p.col, scope, b) \in Int \cup {Null}
  PROVE  /\ Collapsed(p).kind = "column" /\ Collapsed(p).col = p.col /\ IsProjection(Collapsed(p))
         /\ OfRow(Collapsed(p), scope, data, b) = OfGroup(p, scope, {b})
<1> DEFINE c == Collapsed(p)
           v == Value(p.col, scope, b)
           output == {Value(p.col, scope, x) : x \in {b}} \ {Null}
<1>1. p = Project(p.kind, p.col, p.alias)
  BY DEF IsProjection
<1>2. c = Project("column", p.col, p.alias)
  BY <1>1 DEF Collapsed, Project
<1> HIDE DEF c
<1>3. c.kind = "column" /\ c.col = p.col /\ c.alias = p.alias
  BY <1>2 DEF Project
<1>4. IsProjection(c)
  BY <1>2, <1>3 DEF IsProjection
<1>5. OfRow(c, scope, data, b) = v
  BY <1>3 DEF OfRow
<1>6. ASSUME p.kind = "column" PROVE OfGroup(p, scope, {b}) = v
  <2>1. (CHOOSE x \in {b} : TRUE) = b
    OBVIOUS
  <2> QED BY <1>6, <2>1 DEF OfGroup
<1>7. ASSUME p.kind = "max" PROVE OfGroup(p, scope, {b}) = v
  <2>1. OfGroup(p, scope, {b})
        = IF output = {} THEN Null ELSE CHOOSE x \in output : \A u \in output : u <= x
    BY <1>7 DEF OfGroup
  <2>2. CASE v = Null
    <3>1. output = {}
      BY <2>2
    <3> HIDE DEF output, v
    <3> QED BY <2>1, <2>2, <3>1
  <2>3. CASE v # Null
    <3>1. output = {v}
      BY <2>3
    <3>2. v \in Int
      BY <2>3
    <3> HIDE DEF output, v
    <3>3. (CHOOSE x \in output : \A u \in output : u <= x) = v
      BY <3>1, <3>2
    <3> QED BY <2>1, <3>1, <3>3
  <2> QED BY <2>2, <2>3
<1> QED BY <1>3, <1>4, <1>5, <1>6, <1>7 DEF c

(* One row per group, or one row per row.                                  *)
Singletons(rows) == {{b} : b \in rows}

LEMMA SingletonsRename ==
  ASSUME NEW one, NEW all, DOMAIN all = Singletons(DOMAIN one),
         \A b \in DOMAIN one : all[{b}] = one[b]
  PROVE  Renames(one, all)
<1> DEFINE rows == DOMAIN one
           f == [b \in rows |-> {b}]
           s == {{b} : b \in rows}
<1>1. f \in [rows -> s] /\ (\A b, b2 \in rows : f[b] = f[b2] => b = b2)
      /\ \A g \in s : \E b \in rows : f[b] = g
  <2>1. \A b, b2 \in rows : {b} = {b2} => b = b2
    OBVIOUS
  <2> QED BY <2>1
<1>2. \A b \in rows : all[f[b]] = one[b]
  OBVIOUS
<1> HIDE DEF f, s
<1>3. f \in Bijection(rows, s)
  BY <1>1, Fun_IsBij
<1> QED BY <1>2, <1>3 DEF Renames, IsRenaming, s, Singletons

LEMMA CollapseRuleKeepsRows ==
  ASSUME NEW q, NEW data, NEW cat, IsFlat(q), IsDatabase(data), Satisfies(data, cat), Rows(q, data) # {},
         NEW m \in CollapseUniqueGroupBy(q, cat)
  PROVE  IsFlat(m[2]) /\ Rows(m[2], data) = Rows(q, data)
<1> DEFINE t == TableOf(cat, TableName(q))
           ps == [i \in DOMAIN q.projections |-> Collapsed(q.projections[i])]
           r == [q EXCEPT !.group_by = <<>>, !.projections = ps]
<1>1. /\ m[2] = r /\ q.group_by # <<>> /\ ~q.distinct /\ ~q.having /\ t # None
      /\ NonNullUniqueKeyIn(t, NamesOf(Range(q.group_by)))
      /\ \A p \in Range(q.projections) : p.kind \in {"column", "max"}
  <2> DEFINE allowed == /\ q.group_by # <<>>
                        /\ ~q.distinct /\ q.joins = <<>> /\ ~q.having /\ ~q.qualify
                        /\ ~ReferencesCte(q)
                        /\ t # None
                        /\ NonNullUniqueKeyIn(t, {g.name : g \in Range(q.group_by)})
                        /\ \A p \in Range(q.projections) :
                             p.kind \in {"column", "max"} /\ Collapses(p, q)
  <2>1. m \in Proven(allowed, 1, r)
    BY DEF CollapseUniqueGroupBy
  <2> HIDE DEF allowed, r
  <2>2. allowed /\ m = <<1, r>>
    BY <2>1 DEF Proven
  <2>3. m[2] = r
    BY <2>2
  <2> QED BY <2>2, <2>3 DEF allowed, NamesOf
<1> HIDE DEF t
<1>2. IsQuery(q) /\ IsList(q.projections)
  BY DEF IsFlat, IsQuery
<1>3. IsList(ps) /\ DOMAIN ps = DOMAIN q.projections
      /\ \A i \in DOMAIN q.projections : ps[i] = Collapsed(q.projections[i])
  <2>1. ps = [i \in DOMAIN q.projections |-> ps[i]]
    OBVIOUS
  <2> HIDE DEF ps
  <2>2. IsList(ps) /\ DOMAIN ps = DOMAIN q.projections
    BY <1>2, <2>1, ListAlong
  <2> QED BY <2>2 DEF ps
<1> HIDE DEF ps
<1>4. /\ r.group_by = <<>> /\ r.projections = ps /\ IsQuery(r)
      /\ \A f \in Fields \ {"group_by", "projections"} : r[f] = q[f]
  BY <1>2, <1>3, ChangedGrouping
<1> HIDE DEF r
<1>5. /\ r.table = q.table /\ r.alias = q.alias /\ r.limit = q.limit /\ r.with = q.with
      /\ r.subquery = q.subquery /\ r.joins = q.joins /\ r.predicates = q.predicates
      /\ r.having = q.having /\ r.qualify = q.qualify
      /\ r.order_by = q.order_by /\ r.distinct = q.distinct
  BY <1>4 DEF Fields
<1>6. \A i \in DOMAIN q.projections :
        /\ q.projections[i] \in Range(q.projections) /\ IsProjection(q.projections[i])
        /\ q.projections[i].kind \in {"column", "max"}
  BY <1>1 DEF IsFlat, Range
<1>7. \A i \in DOMAIN ps :
        /\ ps[i].kind = "column" /\ ps[i].col = q.projections[i].col /\ IsProjection(ps[i])
  <2>1. TAKE i \in DOMAIN ps
  <2>2. q.projections[i] = Project(q.projections[i].kind, q.projections[i].col, q.projections[i].alias)
    BY <1>3, <1>6 DEF IsProjection
  <2> DEFINE c == Project("column", q.projections[i].col, q.projections[i].alias)
  <2>3. ps[i] = c
    BY <1>3, <2>2 DEF Collapsed, Project
  <2>4. c.kind = "column" /\ c.col = q.projections[i].col /\ IsProjection(c)
    BY DEF IsProjection, Project
  <2> HIDE DEF c
  <2> QED BY <2>3, <2>4
<1>8. \A x \in Range(ps) : x.kind = "column" /\ IsProjection(x)
  BY <1>7 DEF Range
<1>9. IsGrouped(q) /\ ~IsGrouped(r)
  BY <1>1, <1>4, <1>7 DEF IsGrouped, IsAggregate
<1>10. IsFlat(r)
  BY <1>4, <1>5, <1>8, <1>9 DEF IsFlat
<1>11. Used(r) \subseteq Used(q)
  <2>1. ColumnsAmong(ps) \subseteq ColumnsAmong(q.projections)
    <3>1. \A k \in DOMAIN q.projections : ColumnsOf(ps[k]) \subseteq ColumnsOf(q.projections[k])
      BY <1>3, <1>6, <1>7 DEF ColumnsOf
    <3> QED BY <1>3, <3>1 DEF ColumnsAmong
  <2>2. Range(r.group_by) = {}
    BY <1>4 DEF Range
  <2> QED BY <1>4, <1>5, <2>1, <2>2 DEF Used
<1>12. WellGrouped(r)
  <2>1. \A x \in Range(ps) \cup Range(r.order_by) : ~IsAggregate(x)
    BY <1>5, <1>8 DEF IsFlat, IsAggregate
  <2> QED BY <1>4, <2>1 DEF WellGrouped
<1>13. ASSUME Answered(q, data), NEW rows \in SUBSET {At(q, o) : o \in DOMAIN data[q.table]}
       PROVE  AlikeOn(q, r, FlatScope(q, data[q.table]), data, rows)
  <2> DEFINE scope == FlatScope(q, data[q.table])
             all == {At(q, o) : o \in DOMAIN data[q.table]}
             one == Shown(r, scope, data, rows)
             groups == Shown(q, scope, data, rows)
  <2>0. IsTable(data[q.table]) /\ \A c \in Used(q) : Cardinality(Owners(c, scope)) = 1
    BY <1>13, AnsweredIs DEF IsDatabase
  <2>1. IsFiniteSet(rows) /\ rows \subseteq all
    <3>1. IsFiniteSet(all) /\ rows \subseteq all
      BY <1>13, <2>0, FlatBindingsAreFinite
    <3> HIDE DEF all
    <3> QED BY <3>1, FS_Subset
  <2>2. Groups(q, scope, rows) = {{b} : b \in rows}
    <3>1. ASSUME NEW b \in rows, NEW b2 \in rows,
                 \A i \in DOMAIN q.group_by : Value(q.group_by[i], scope, b) = Value(q.group_by[i], scope, b2)
          PROVE  b = b2
      <4>1. Range(q.group_by) \subseteq Used(q)
        BY ColumnsAreUsed
      <4>2. TableOf(cat, TableName(q)) # None
            /\ NonNullUniqueKeyIn(TableOf(cat, TableName(q)), NamesOf(Range(q.group_by)))
        BY <1>1 DEF t
      <4>3. b \in {At(q, o) : o \in DOMAIN data[q.table]} /\ b2 \in {At(q, o) : o \in DOMAIN data[q.table]}
        BY <2>1
      <4>4. \A c \in Range(q.group_by) :
              Value(c, FlatScope(q, data[q.table]), b) = Value(c, FlatScope(q, data[q.table]), b2)
        BY <3>1 DEF Range
      <4> QED BY <1>13, <4>1, <4>2, <4>3, <4>4, KeysTellApart
    <3> HIDE DEF scope
    <3> QED BY <1>1, <3>1, GroupsAreRows
  <2>3. \A b \in rows : \A i \in DOMAIN q.projections :
          OfRow(ps[i], scope, data, b) = OfGroup(q.projections[i], scope, {b})
    <3>1. TAKE b \in rows
    <3>2. TAKE i \in DOMAIN q.projections
    <3>3. PICK o \in DOMAIN data[q.table] : b = At(q, o)
      BY <2>1
    <3>4. q.projections[i].col \in Used(q)
      BY <1>6, ColumnsAreUsed
    <3>5. Value(q.projections[i].col, scope, b) \in Int \cup {Null}
      BY <2>0, <3>3, <3>4, FlatValue
    <3> HIDE DEF scope
    <3> QED BY <1>3, <1>6, <3>5, CollapsedShows
  <2> HIDE DEF scope, all
  <2>4. DOMAIN one = rows /\ \A b \in rows : one[b] = [i \in DOMAIN ps |-> OfRow(ps[i], scope, data, b)]
    BY <1>4, <1>9 DEF Shown
  <2>5. /\ DOMAIN groups = {{b} : b \in rows}
        /\ \A b \in rows : groups[{b}] = [i \in DOMAIN q.projections |-> OfGroup(q.projections[i], scope, {b})]
    BY <1>9, <2>2 DEF Shown
  <2> HIDE DEF one, groups
  <2>6. \A b \in rows : groups[{b}] = one[b]
    <3>1. TAKE b \in rows
    <3>2. [i \in DOMAIN ps |-> OfRow(ps[i], scope, data, b)]
          = [i \in DOMAIN q.projections |-> OfGroup(q.projections[i], scope, {b})]
      BY <1>3, <2>3
    <3> QED BY <2>4, <2>5, <3>2
  <2>7. Renames(one, groups)
    <3>1. DOMAIN groups = Singletons(DOMAIN one)
      BY <2>4, <2>5 DEF Singletons
    <3>2. \A b \in DOMAIN one : groups[{b}] = one[b]
      BY <2>4, <2>6
    <3> QED BY <3>1, <3>2, SingletonsRename
  <2>8. Output(q, scope, data, rows) = groups /\ Output(r, scope, data, rows) = one
    BY <1>1, <1>5 DEF Output, DistinctRows, one, groups
  <2>9. IsFiniteSet(DOMAIN groups)
    <3>1. PICK f : IsRenaming(f, one, groups)
      BY <2>7 DEF Renames
    <3>2. ExistsBijection(DOMAIN one, DOMAIN groups)
      BY <3>1, Fun_ExistsBij DEF IsRenaming
    <3> QED BY <2>1, <2>4, <3>2, FS_Bijection
  <2>10. Renames(groups, one)
    BY <2>7, RenamingsAreSymmetric
  <2> QED BY <2>8, <2>9, <2>10 DEF AlikeOn, scope
<1>14. SameTable(q, r)
  BY <1>5 DEF SameTable
<1>15. Rows(r, data) = Rows(q, data)
  BY <1>5, <1>10, <1>11, <1>12, <1>13, <1>14, SameRowsIfAlike
<1> QED BY <1>1, <1>10, <1>15

-----------------------------------------------------------------------------
(* All the rules.                                                          *)
RuleNames ==
  {"remove_unused_left_join", "remove_foreign_key_inner_join",
   "rewrite_join_distinct_to_exists", "remove_redundant_not_null_filter",
   "remove_redundant_accepted_values_filter", "simplify_accepted_values_case",
   "remove_redundant_distinct", "remove_redundant_count_distinct",
   "collapse_unique_group_by", "predicate_pushdown"}

LEMMA RulesAreTen ==
  Len(DefaultRules) = 10 /\ DOMAIN DefaultRules = 1 .. 10 /\ Range(DefaultRules) = RuleNames
<1>1. DOMAIN DefaultRules = 1 .. 10 /\ Len(DefaultRules) = 10
  BY DEF DefaultRules
<1>2. \A i \in 1 .. 10 : DefaultRules[i] \in RuleNames
  <2>1. \A i \in 1 .. 10 :
          i = 1 \/ i = 2 \/ i = 3 \/ i = 4 \/ i = 5 \/ i = 6 \/ i = 7 \/ i = 8 \/ i = 9 \/ i = 10
    OBVIOUS
  <2> QED BY <2>1 DEF DefaultRules, RuleNames
<1>3. \A rule \in RuleNames : \E i \in 1 .. 10 : DefaultRules[i] = rule
  BY DEF DefaultRules, RuleNames
<1> QED BY <1>1, <1>2, <1>3 DEF Range

(* A rule that needs a join or a derived table offers nothing here.        *)
LEMMA JoinRulesOfferNothing ==
  ASSUME NEW q, NEW cat, IsFlat(q)
  PROVE  /\ RemoveUnusedLeftJoin(q, cat) = {} /\ RemoveForeignKeyInnerJoin(q, cat) = {}
         /\ RewriteJoinDistinctToExists(q, cat) = {} /\ PredicatePushdown(q, cat) = {}
<1>1. q.joins = <<>> /\ q.subquery = None
  BY DEF IsFlat
<1>2. \A kind : ~OneJoin(q, kind)
  BY <1>1 DEF OneJoin
<1>3. RemoveUnusedLeftJoin(q, cat) = {}
  BY <1>2 DEF RemoveUnusedLeftJoin, Proven
<1>4. RemoveForeignKeyInnerJoin(q, cat) = {}
  BY <1>2 DEF RemoveForeignKeyInnerJoin, Proven
<1>5. RewriteJoinDistinctToExists(q, cat) = {}
  BY <1>2 DEF RewriteJoinDistinctToExists, Proven
<1>6. PredicatePushdown(q, cat) = {}
  BY <1>1 DEF PredicatePushdown, Proven
<1> QED BY <1>3, <1>4, <1>5, <1>6

(* matches() of every rule keeps the rows.                                 *)
LEMMA MatchesKeepRows ==
  ASSUME NEW q, NEW data, NEW cat, IsFlat(q), IsDatabase(data), Satisfies(data, cat), Rows(q, data) # {},
         NEW rule \in RuleNames, NEW m \in Matches(rule, q, cat)
  PROVE  IsFlat(m[2]) /\ Rows(m[2], data) = Rows(q, data)
<1>1. CASE rule \in {"remove_unused_left_join", "remove_foreign_key_inner_join",
                     "rewrite_join_distinct_to_exists", "predicate_pushdown"}
  BY <1>1, JoinRulesOfferNothing DEF Matches
<1>2. CASE rule = "remove_redundant_not_null_filter"
  <2>1. m \in RemoveRedundant("remove_redundant_not_null_filter", q, cat)
    BY <1>2 DEF Matches, RemoveRedundantNotNullFilter
  <2> QED BY <2>1, FilterRulesKeepRows
<1>3. CASE rule = "remove_redundant_accepted_values_filter"
  <2>1. m \in RemoveRedundant("remove_redundant_accepted_values_filter", q, cat)
    BY <1>3 DEF Matches, RemoveRedundantAcceptedValuesFilter
  <2> QED BY <2>1, FilterRulesKeepRows
<1>4. CASE rule = "simplify_accepted_values_case"
  <2>1. m \in SimplifyAcceptedValuesCase(q, cat)
    BY <1>4 DEF Matches
  <2> QED BY <2>1, CaseRuleKeepsRows
<1>5. CASE rule = "remove_redundant_distinct"
  <2>1. m \in RemoveRedundantDistinct(q, cat)
    BY <1>5 DEF Matches
  <2> QED BY <2>1, DistinctRuleKeepsRows
<1>6. CASE rule = "remove_redundant_count_distinct"
  <2>1. m \in RemoveRedundantCountDistinct(q, cat)
    BY <1>6 DEF Matches
  <2> QED BY <2>1, CountDistinctRuleKeepsRows
<1>7. CASE rule = "collapse_unique_group_by"
  <2>1. m \in CollapseUniqueGroupBy(q, cat)
    BY <1>7 DEF Matches
  <2> QED BY <2>1, CollapseRuleKeepsRows
<1> QED BY <1>1, <1>2, <1>3, <1>4, <1>5, <1>6, <1>7 DEF RuleNames

(* apply() of every rule keeps the rows.                                   *)
LEMMA ApplyKeepsRows ==
  ASSUME NEW q, NEW data, NEW cat, IsFlat(q), IsDatabase(data), Satisfies(data, cat), Rows(q, data) # {},
         NEW rule \in RuleNames, NEW m \in Apply(rule, q, cat)
  PROVE  IsFlat(m[2]) /\ Rows(m[2], data) = Rows(q, data)
<1>1. CASE rule \in {"remove_redundant_not_null_filter", "remove_redundant_accepted_values_filter"}
  <2>1. m \in RemoveAllRedundant(rule, q, cat)
    BY <1>1 DEF Apply
  <2> QED BY <2>1, FilterRulesKeepRows
<1>2. CASE rule \notin {"remove_redundant_not_null_filter", "remove_redundant_accepted_values_filter"}
  <2>1. m \in Foremost(Matches(rule, q, cat))
    BY <1>2 DEF Apply
  <2>2. m \in Matches(rule, q, cat)
    BY <2>1 DEF Foremost
  <2> QED BY <2>2, MatchesKeepRows
<1> QED BY <1>1, <1>2

LEMMA AvailableMatchesKeepRows ==
  ASSUME NEW q, NEW data, NEW cat, IsFlat(q), IsDatabase(data), Satisfies(data, cat), Rows(q, data) # {},
         NEW m \in AvailableMatches(q, cat)
  PROVE  IsFlat(m.query) /\ Rows(m.query, data) = Rows(q, data)
<1>1. PICK rule \in Range(DefaultRules) : \E n \in Matches(rule, q, cat) :
        m = [rule |-> rule, index |-> n[1], query |-> n[2]]
  BY DEF AvailableMatches
<1>2. PICK n \in Matches(rule, q, cat) : m = [rule |-> rule, index |-> n[1], query |-> n[2]]
  BY <1>1
<1>3. m.query = n[2] /\ rule \in RuleNames
  BY <1>2, RulesAreTen
<1> QED BY <1>3, MatchesKeepRows

(* suggest_rewrites(): the first proven suggestion.                        *)
LEMMA FirstSuggestionKeepsRows ==
  ASSUME NEW q, NEW data, NEW cat, IsFlat(q), IsDatabase(data), Satisfies(data, cat), Rows(q, data) # {},
         FirstSuggestion(q, cat) # None
  PROVE  IsFlat(FirstSuggestion(q, cat)) /\ Rows(FirstSuggestion(q, cat), data) = Rows(q, data)
<1> DEFINE offered == Suggestions(q, cat)
           proven == {i \in DOMAIN offered : offered[i] # {}}
           first == CHOOSE i \in proven : \A j \in proven : i <= j
           chosen == CHOOSE m \in offered[first] : TRUE
<1>1. FirstSuggestion(q, cat) = IF proven = {} THEN None ELSE chosen[2]
  BY DEF FirstSuggestion, FirstProven
<1>2. DOMAIN offered = 1 .. 10 /\ \A i \in 1 .. 10 : offered[i] = Apply(DefaultRules[i], q, cat)
  BY RulesAreTen DEF Suggestions
<1> HIDE DEF offered
<1>3. proven # {} /\ proven \subseteq Nat
  BY <1>1, <1>2
<1>4. first \in proven
  <2> HIDE DEF proven
  <2>1. \E i \in proven : \A j \in proven : i <= j
    BY <1>3, LeastNumber
  <2> QED BY <2>1
<1> HIDE DEF first
<1>5. chosen \in offered[first] /\ first \in 1 .. 10
  BY <1>2, <1>4
<1> HIDE DEF chosen
<1>6. chosen \in Apply(DefaultRules[first], q, cat) /\ DefaultRules[first] \in RuleNames
  BY <1>2, <1>5, RulesAreTen DEF Range
<1> HIDE DEF proven
<1> QED BY <1>1, <1>3, <1>6, ApplyKeepsRows

-----------------------------------------------------------------------------
(* Chains.                                                                 *)

(* A query over one table is its own text and its own parse.               *)
LEMMA FlatIsItsText ==
  ASSUME NEW q, IsFlat(q)
  PROVE  Parses(q) /\ Parsed(q) = q /\ Rendered(q) = q /\ [q EXCEPT !.with = None] = q
<1>1. q.with = None /\ q = [f \in Fields |-> q[f]] /\ "with" \in Fields
  BY DEF IsFlat, IsQuery, Fields
<1>2. [q EXCEPT !.with = None] = q
  BY <1>1
<1> QED BY <1>1, <1>2 DEF Parses, Parsed, Rendered

LEMMA NextStepKeepsRows ==
  ASSUME NEW q, NEW d, NEW cat, IsFlat(q), IsDatabase(d), Satisfies(d, cat), Rows(q, d) # {},
         NextProvenStep(q, cat) # None
  PROVE  IsFlat(NextProvenStep(q, cat)) /\ Rows(NextProvenStep(q, cat), d) = Rows(q, d)
<1> DEFINE whole == WholeRewrite(q, cat)
           s == FirstSuggestion(q, cat)
           options == <<whole>> \o SubtreeRewrites(q, cat)
           found == {i \in DOMAIN options : options[i] # None}
<1>1. q.with = None /\ Parses(q) /\ Parsed(q) = q /\ Rendered(q) = q
  BY FlatIsItsText DEF IsFlat
<1>2. options = <<whole>>
  <2>1. SubtreeRewrites(q, cat) = <<>>
    BY <1>1 DEF SubtreeRewrites
  <2> HIDE DEF whole
  <2> QED BY <2>1
<1>3. NextProvenStep(q, cat) = whole /\ whole # None
  <2>1. NextProvenStep(q, cat) = FirstRewrite(options)
    BY DEF NextProvenStep
  <2>2. DOMAIN options = {1} /\ options[1] = whole
    <3> HIDE DEF whole, options
    <3> QED BY <1>2
  <2>3. found # {} /\ FirstRewrite(options) = options[CHOOSE i \in found : \A j \in found : i <= j]
    BY <2>1 DEF FirstRewrite
  <2> HIDE DEF options, whole
  <2>4. found = {1}
    BY <2>2, <2>3
  <2> HIDE DEF found
  <2>5. (CHOOSE i \in found : \A j \in found : i <= j) = 1
    BY <2>4
  <2> QED BY <2>1, <2>2, <2>3, <2>5
<1>4. SuggestionFor(q, cat) = s
  <2>1. {FirstSuggestion(x, cat) : x \in {Parsed(q)}} = {s}
    BY <1>1
  <2> HIDE DEF s
  <2> QED BY <2>1 DEF SuggestionFor
<1>5. whole = WithOuter(q, s)
  BY <1>1, <1>4 DEF WholeRewrite
<1>6. s # None /\ whole = [s EXCEPT !.with = None]
  BY <1>1, <1>3, <1>5 DEF WithOuter
<1>7. IsFlat(s) /\ Rows(s, d) = Rows(q, d)
  BY <1>6, FirstSuggestionKeepsRows
<1>8. whole = s
  BY <1>6, <1>7, FlatIsItsText
<1> QED BY <1>3, <1>7, <1>8

(* The chain was asked for a query over one table that the database can    *)
(* answer.                                                                 *)
OverOneTable == IsFlat(asked) /\ IsDatabase(db) /\ Rows(asked, db) # {}

StaysOverOneTable ==
  /\ Satisfies(db, catalog)
  /\ OverOneTable => IsFlat(shown) /\ SameRows

LEMMA ChainStaysOverOneTable == ChainSpec => []StaysOverOneTable
<1>1. ChainInit => StaysOverOneTable
  BY DEF ChainInit, StaysOverOneTable, OverOneTable, SameRows
<1>2. StaysOverOneTable /\ [ChainNext]_chainVars => StaysOverOneTable'
  <2> SUFFICES ASSUME StaysOverOneTable, [ChainNext]_chainVars PROVE StaysOverOneTable'
    OBVIOUS
  <2>1. CASE UNCHANGED <<catalog, db, asked, shown>>
    BY <2>1 DEF StaysOverOneTable, OverOneTable, SameRows
  <2>2. CASE Advance /\ shown' # shown
    <3>1. /\ UNCHANGED <<catalog, db, asked>>
          /\ shown' = NextProvenStep(shown, catalog) /\ shown' # None
      BY <2>2 DEF Advance
    <3>2. ASSUME OverOneTable PROVE IsFlat(shown') /\ Rows(shown', db) = Rows(asked, db)
      BY <3>1, <3>2, NextStepKeepsRows DEF StaysOverOneTable, OverOneTable, SameRows
    <3> QED BY <3>1, <3>2 DEF StaysOverOneTable, OverOneTable, SameRows
  <2>3. CASE Advance /\ shown' = shown
    BY <2>1, <2>3 DEF Advance
  <2>4. CASE Settle
    BY <2>1, <2>4 DEF Settle
  <2>5. CASE Stop
    BY <2>1, <2>5 DEF Stop
  <2>6. CASE UNCHANGED chainVars
    BY <2>1, <2>6 DEF chainVars
  <2> QED BY <2>2, <2>3, <2>4, <2>5, <2>6 DEF ChainNext
<1> QED BY <1>1, <1>2, PTL DEF ChainSpec

(* However many rewrites a chain applies to a query over one table, and    *)
(* whatever the catalog and the database are, its final SQL returns the    *)
(* rows of the original (README.md:16, docs/scope.md:241).                 *)
THEOREM ChainsKeepRows == ChainSpec => [](OverOneTable => ChainSameRows)
<1>1. StaysOverOneTable => (OverOneTable => ChainSameRows)
  BY DEF StaysOverOneTable, ChainSameRows
<1> QED BY <1>1, ChainStaysOverOneTable, PTL

-----------------------------------------------------------------------------
(* Sessions.                                                               *)
NameShown(p) == IF p.kind = "case" THEN p.alias ELSE OutputName(p)

LEMMA NamesAlong ==
  ASSUME NEW q, NEW r, DOMAIN r.projections = DOMAIN q.projections,
         \A i \in DOMAIN q.projections : NameShown(r.projections[i]) = NameShown(q.projections[i])
  PROVE  OutputNames(r) = OutputNames(q)
<1>1. /\ OutputNames(q) = [i \in DOMAIN q.projections |-> NameShown(q.projections[i])]
      /\ OutputNames(r) = [i \in DOMAIN r.projections |-> NameShown(r.projections[i])]
  BY DEF OutputNames, NameShown
<1> QED BY <1>1

(* One projection is replaced by one of its name.                          *)
LEMMA NamesWithChange ==
  ASSUME NEW q, IsQuery(q), NEW i \in DOMAIN q.projections, NEW c,
         NameShown(c) = NameShown(q.projections[i])
  PROVE  OutputNames([q EXCEPT !.projections = [q.projections EXCEPT ![i] = c]]) = OutputNames(q)
<1> DEFINE ps == [q.projections EXCEPT ![i] = c]
           r == [q EXCEPT !.projections = ps]
<1>1. IsList(q.projections)
  BY DEF IsQuery
<1>2. IsList(ps) /\ DOMAIN ps = DOMAIN q.projections /\ ps[i] = c
      /\ \A k \in DOMAIN q.projections : k # i => ps[k] = q.projections[k]
  BY <1>1, ListWithChange
<1> HIDE DEF ps
<1>3. r.projections = ps
  BY <1>2, ChangedProjections
<1> HIDE DEF r
<1>4. \A k \in DOMAIN q.projections : NameShown(r.projections[k]) = NameShown(q.projections[k])
  BY <1>2, <1>3
<1>5. OutputNames(r) = OutputNames(q)
  BY <1>2, <1>3, <1>4, NamesAlong
<1> QED BY <1>5 DEF r, ps

LEMMA SameProjectionsSameNames ==
  ASSUME NEW q, NEW r, r.projections = q.projections
  PROVE  OutputNames(r) = OutputNames(q)
BY DEF OutputNames

LEMMA FilterRulesKeepNames ==
  ASSUME NEW q, NEW cat, IsFlat(q), NEW rule, NEW m \in RemoveRedundant(rule, q, cat)
  PROVE  OutputNames(m[2]) = OutputNames(q)
<1> DEFINE t == FilteredTable(q, cat)
<1>1. PICK i \in DOMAIN q.predicates :
        m \in Proven(t # None /\ Trusted(rule, q.predicates[i], q, t),
                     i, [q EXCEPT !.predicates = RemoveAt(@, i)])
  BY DEF RemoveRedundant
<1>2. m = <<i, [q EXCEPT !.predicates = RemoveAt(@, i)]>>
  BY <1>1 DEF Proven
<1> DEFINE ws == RemoveAt(q.predicates, i)
           r == [q EXCEPT !.predicates = ws]
<1>3. m[2] = r
  BY <1>2
<1>4. IsQuery(q) /\ IsList(q.predicates)
  BY DEF IsFlat, IsQuery
<1>5. IsList(ws)
  BY <1>4, ListWithout
<1> HIDE DEF ws
<1>6. AgreeBut("predicates", q, r)
  BY <1>4, <1>5, ChangedPredicates
<1> HIDE DEF r
<1>7. r.projections = q.projections
  BY <1>6 DEF AgreeBut, Fields
<1> QED BY <1>3, <1>7, SameProjectionsSameNames

LEMMA CaseRuleKeepsNames ==
  ASSUME NEW q, NEW cat, IsFlat(q), NEW m \in SimplifyAcceptedValuesCase(q, cat)
  PROVE  OutputNames(m[2]) = OutputNames(q)
<1> DEFINE t == TableOf(cat, TableName(q))
<1>1. PICK i \in DOMAIN q.projections :
        LET p == q.projections[i] IN
        m \in Proven(/\ p.kind = "case"
                     /\ q.joins = <<>> /\ q.group_by = <<>> /\ ~q.having /\ ~q.qualify
                     /\ ~ReferencesCte(q)
                     /\ t # None
                     /\ SimplifiedCase(p, q, t) # p,
                     i, [q EXCEPT !.projections[i] = SimplifiedCase(p, q, t)])
  BY DEF SimplifyAcceptedValuesCase
<1> DEFINE p == q.projections[i]
           c == SimplifiedCase(p, q, t)
<1>2. p.kind = "case" /\ m[2] = [q EXCEPT !.projections[i] = c]
  BY <1>1 DEF Proven
<1>3. m[2] = [q EXCEPT !.projections = [q.projections EXCEPT ![i] = c]]
  BY <1>2
<1>4. c.kind = "case" /\ c.alias = p.alias
  <2>1. PICK bs, e : c = CaseOf(bs, e, p.alias)
    BY DEF SimplifiedCase
  <2> HIDE DEF c, p
  <2> QED BY <2>1 DEF CaseOf
<1> HIDE DEF c
<1>5. NameShown(c) = NameShown(p)
  BY <1>2, <1>4 DEF NameShown
<1>6. IsQuery(q)
  BY DEF IsFlat
<1> QED BY <1>3, <1>5, <1>6, NamesWithChange

LEMMA DistinctRuleKeepsNames ==
  ASSUME NEW q, NEW cat, IsFlat(q), NEW m \in RemoveRedundantDistinct(q, cat)
  PROVE  OutputNames(m[2]) = OutputNames(q)
<1> DEFINE r == [q EXCEPT !.distinct = FALSE]
<1>1. \E allowed : m \in Proven(allowed, 1, r)
  BY DEF RemoveRedundantDistinct
<1> HIDE DEF r
<1>2. m[2] = r
  BY <1>1 DEF Proven
<1>3. AgreeBut("distinct", q, r)
  BY ChangedDistinct DEF IsFlat, r
<1>4. r.projections = q.projections
  BY <1>3 DEF AgreeBut, Fields
<1> QED BY <1>2, <1>4, SameProjectionsSameNames

LEMMA CountDistinctRuleKeepsNames ==
  ASSUME NEW q, NEW cat, IsFlat(q), NEW m \in RemoveRedundantCountDistinct(q, cat)
  PROVE  OutputNames(m[2]) = OutputNames(q)
<1> DEFINE t == TableOf(cat, TableName(q))
<1>1. PICK i \in DOMAIN q.projections :
        LET p == q.projections[i] IN
        m \in Proven(/\ p.kind = "count_distinct"
                     /\ ~q.distinct /\ q.joins = <<>> /\ ~q.having /\ ~q.qualify
                     /\ ~ReferencesCte(q)
                     /\ OwnQualifier(q, p.col)
                     /\ t # None
                     /\ NonNullUniqueKeyIn(t, {p.col.name}),
                     i, [q EXCEPT !.projections[i].kind = "count"])
  BY DEF RemoveRedundantCountDistinct
<1> DEFINE p == q.projections[i]
           c == [p EXCEPT !.kind = "count"]
<1>2. p.kind = "count_distinct" /\ m[2] = [q EXCEPT !.projections[i].kind = "count"]
  BY <1>1 DEF Proven
<1>3. m[2] = [q EXCEPT !.projections = [q.projections EXCEPT ![i] = c]]
  BY <1>2
<1>4. p = Project("count_distinct", p.col, p.alias)
  BY <1>2 DEF IsFlat, IsProjection, Range
<1> HIDE DEF p
<1>5. c.kind = "count" /\ c.col = p.col /\ c.alias = p.alias
  BY <1>4 DEF Project
<1> HIDE DEF c
<1>6. NameShown(c) = NameShown(p)
  BY <1>2, <1>5 DEF NameShown, OutputName
<1>7. IsQuery(q)
  BY DEF IsFlat
<1> QED BY <1>3, <1>6, <1>7, NamesWithChange DEF p

LEMMA CollapseRuleKeepsNames ==
  ASSUME NEW q, NEW cat, IsFlat(q), NEW m \in CollapseUniqueGroupBy(q, cat)
  PROVE  OutputNames(m[2]) = OutputNames(q)
<1> DEFINE t == TableOf(cat, TableName(q))
           ps == [i \in DOMAIN q.projections |-> Collapsed(q.projections[i])]
           r == [q EXCEPT !.group_by = <<>>, !.projections = ps]
           allowed == /\ q.group_by # <<>>
                      /\ ~q.distinct /\ q.joins = <<>> /\ ~q.having /\ ~q.qualify
                      /\ ~ReferencesCte(q)
                      /\ t # None
                      /\ NonNullUniqueKeyIn(t, {g.name : g \in Range(q.group_by)})
                      /\ \A p \in Range(q.projections) :
                           p.kind \in {"column", "max"} /\ Collapses(p, q)
<1>1. m \in Proven(allowed, 1, r)
  BY DEF CollapseUniqueGroupBy
<1> HIDE DEF allowed, r
<1>2. allowed /\ m[2] = r
  <2>1. allowed /\ m = <<1, r>>
    BY <1>1 DEF Proven
  <2> QED BY <2>1
<1>3. IsQuery(q) /\ IsList(q.projections)
  BY DEF IsFlat, IsQuery
<1>4. DOMAIN ps = DOMAIN q.projections /\ IsList(ps)
  <2>1. ps = [i \in DOMAIN q.projections |-> ps[i]]
    OBVIOUS
  <2> HIDE DEF ps
  <2> QED BY <1>3, <2>1, ListAlong
<1>5. \A i \in DOMAIN q.projections : NameShown(ps[i]) = NameShown(q.projections[i])
  <2>1. TAKE i \in DOMAIN q.projections
  <2> DEFINE p == q.projections[i]
  <2>2. p \in Range(q.projections)
    BY DEF Range
  <2>3. p.kind \in {"column", "max"} /\ IsProjection(p)
    BY <1>2, <2>2 DEF allowed, IsFlat
  <2>4. p = Project(p.kind, p.col, p.alias)
    BY <2>3 DEF IsProjection
  <2> HIDE DEF p
  <2>5. Collapsed(p).kind = "column" /\ Collapsed(p).col = p.col /\ Collapsed(p).alias = p.alias
    BY <2>4 DEF Collapsed, Project
  <2>6. NameShown(Collapsed(p)) = NameShown(p)
    BY <2>3, <2>5 DEF NameShown, OutputName
  <2> QED BY <2>6 DEF p
<1> HIDE DEF ps
<1>6. r.projections = ps
  BY <1>3, <1>4, ChangedGrouping DEF r
<1>7. OutputNames(r) = OutputNames(q)
  BY <1>4, <1>5, <1>6, NamesAlong
<1> QED BY <1>2, <1>7

LEMMA AvailableMatchesKeepNames ==
  ASSUME NEW q, NEW cat, IsFlat(q), NEW m \in AvailableMatches(q, cat)
  PROVE  OutputNames(m.query) = OutputNames(q)
<1>1. PICK rule \in Range(DefaultRules) : \E n \in Matches(rule, q, cat) :
        m = [rule |-> rule, index |-> n[1], query |-> n[2]]
  BY DEF AvailableMatches
<1>2. PICK n \in Matches(rule, q, cat) : m = [rule |-> rule, index |-> n[1], query |-> n[2]]
  BY <1>1
<1>3. m.query = n[2] /\ rule \in RuleNames
  BY <1>2, RulesAreTen
<1>4. CASE rule \in {"remove_unused_left_join", "remove_foreign_key_inner_join",
                     "rewrite_join_distinct_to_exists", "predicate_pushdown"}
  BY <1>2, <1>4, JoinRulesOfferNothing DEF Matches
<1>5. CASE rule = "remove_redundant_not_null_filter"
  <2>1. n \in RemoveRedundant("remove_redundant_not_null_filter", q, cat)
    BY <1>2, <1>5 DEF Matches, RemoveRedundantNotNullFilter
  <2> QED BY <1>3, <2>1, FilterRulesKeepNames
<1>6. CASE rule = "remove_redundant_accepted_values_filter"
  <2>1. n \in RemoveRedundant("remove_redundant_accepted_values_filter", q, cat)
    BY <1>2, <1>6 DEF Matches, RemoveRedundantAcceptedValuesFilter
  <2> QED BY <1>3, <2>1, FilterRulesKeepNames
<1>7. CASE rule = "simplify_accepted_values_case"
  <2>1. n \in SimplifyAcceptedValuesCase(q, cat)
    BY <1>2, <1>7 DEF Matches
  <2> QED BY <1>3, <2>1, CaseRuleKeepsNames
<1>8. CASE rule = "remove_redundant_distinct"
  <2>1. n \in RemoveRedundantDistinct(q, cat)
    BY <1>2, <1>8 DEF Matches
  <2> QED BY <1>3, <2>1, DistinctRuleKeepsNames
<1>9. CASE rule = "remove_redundant_count_distinct"
  <2>1. n \in RemoveRedundantCountDistinct(q, cat)
    BY <1>2, <1>9 DEF Matches
  <2> QED BY <1>3, <2>1, CountDistinctRuleKeepsNames
<1>10. CASE rule = "collapse_unique_group_by"
  <2>1. n \in CollapseUniqueGroupBy(q, cat)
    BY <1>2, <1>10 DEF Matches
  <2> QED BY <1>3, <2>1, CollapseRuleKeepsNames
<1> QED BY <1>3, <1>4, <1>5, <1>6, <1>7, <1>8, <1>9, <1>10 DEF RuleNames

ShowsTheResult ==
  /\ Satisfies(db, catalog)
  /\ OverOneTable => IsFlat(shown) /\ SameResult

LEMMA SessionShowsTheResult == SessionSpec => []ShowsTheResult
<1>1. SessionInit => ShowsTheResult
  BY DEF SessionInit, ShowsTheResult, OverOneTable, SameResult, SameRows, SameColumns
<1>2. ShowsTheResult /\ [SessionNext]_sessionVars => ShowsTheResult'
  <2> SUFFICES ASSUME ShowsTheResult, [SessionNext]_sessionVars PROVE ShowsTheResult'
    OBVIOUS
  <2>1. CASE UNCHANGED sessionVars
    BY <2>1 DEF ShowsTheResult, OverOneTable, SameResult, SameRows, SameColumns, sessionVars
  <2>2. ASSUME NEW match \in AvailableMatches(Parsed(shown), catalog), Step(match)
        PROVE  ShowsTheResult'
    <3>1. shown' = Rendered(match.query) /\ UNCHANGED <<catalog, db, asked>>
      BY <2>2 DEF Step
    <3>2. ASSUME OverOneTable
          PROVE  /\ IsFlat(shown') /\ Rows(shown', db) = Rows(asked, db)
                 /\ OutputNames(shown') = OutputNames(asked)
      <4>1. /\ IsFlat(shown) /\ IsDatabase(db) /\ Satisfies(db, catalog) /\ Rows(shown, db) # {}
            /\ Rows(shown, db) = Rows(asked, db) /\ OutputNames(shown) = OutputNames(asked)
        BY <3>2 DEF ShowsTheResult, OverOneTable, SameResult, SameRows, SameColumns
      <4>2. match \in AvailableMatches(shown, catalog)
        BY <2>2, <4>1, FlatIsItsText
      <4>3. /\ IsFlat(match.query) /\ Rows(match.query, db) = Rows(shown, db)
            /\ OutputNames(match.query) = OutputNames(shown)
        BY <4>1, <4>2, AvailableMatchesKeepRows, AvailableMatchesKeepNames
      <4>4. shown' = match.query
        BY <3>1, <4>3, FlatIsItsText
      <4> QED BY <4>1, <4>3, <4>4
    <3> QED BY <3>1, <3>2 DEF ShowsTheResult, OverOneTable, SameResult, SameRows, SameColumns
  <2> QED BY <2>1, <2>2 DEF SessionNext
<1> QED BY <1>1, <1>2, PTL DEF SessionSpec

(* Whichever of the offered rewrites a session takes, in whatever order,   *)
(* of a query over one table: what it shows has the rows and the columns   *)
(* of the original (README.md:16).                                         *)
THEOREM SessionsKeepResults == SessionSpec => [](OverOneTable => SameResult)
<1>1. ShowsTheResult => (OverOneTable => SameResult)
  BY DEF ShowsTheResult
<1> QED BY <1>1, SessionShowsTheResult, PTL

-----------------------------------------------------------------------------
(* Checks: what a solver is told is true, so that one that is right about  *)
(* every database of the schema it was told is right about every database  *)
(* that satisfies the trusted constraints.                                 *)

(* One told table is weaker than the trusted constraints on it. *)
IsWeaker(t, trusted) ==
  /\ t.non_null \subseteq trusted.non_null
  /\ t.accepted = <<>>
  /\ t.unique \subseteq trusted.unique
  /\ t.foreign \subseteq trusted.foreign

(* A told schema is weaker than a catalog: it says nothing of a table the  *)
(* catalog does not know.                                                  *)
IsTrueOf(told, catalogue) ==
  \A n \in DOMAIN told :
    \/ n \in DOMAIN catalogue /\ IsWeaker(told[n], catalogue[n])
    \/ told[n].non_null = {} /\ told[n].accepted = <<>> /\ told[n].unique = {} /\ told[n].foreign = {}

(* A database that satisfies the catalog satisfies a weaker schema, on the *)
(* tables it has.                                                          *)
LEMMA WeakerIsSatisfied ==
  ASSUME NEW d, NEW cat, NEW told, Satisfies(d, cat), IsTrueOf(told, cat)
  PROVE  Satisfies(d, [n \in DOMAIN told \cap DOMAIN d |-> told[n]])
<1> DEFINE schema == [n \in DOMAIN told \cap DOMAIN d |-> told[n]]
<1> SUFFICES ASSUME NEW name \in DOMAIN schema
             PROVE  /\ \A o \in DOMAIN d[name], c \in schema[name].non_null : d[name][o][c] # Null
                    /\ \A o \in DOMAIN d[name], c \in DOMAIN schema[name].accepted :
                         d[name][o][c] = Null \/ d[name][o][c] \in schema[name].accepted[c]
                    /\ \A key \in schema[name].unique : \A o, o2 \in DOMAIN d[name] :
                         /\ o # o2
                         /\ \A c \in key : d[name][o][c] # Null
                         => \E c \in key : d[name][o][c] # d[name][o2][c]
                    /\ \A f \in schema[name].foreign : \A o \in DOMAIN d[name] :
                         (\A i \in DOMAIN f[1] : d[name][o][f[1][i]] # Null) =>
                           \E p \in DOMAIN d[f[2]] :
                             \A i \in DOMAIN f[1] : d[f[2]][p][f[3][i]] = d[name][o][f[1][i]]
  BY DEF Satisfies
<1>1. schema[name] = told[name] /\ name \in DOMAIN told
  OBVIOUS
<1>2. DOMAIN schema[name].accepted = {}
  <2>1. schema[name].accepted = <<>>
    BY <1>1 DEF IsTrueOf, IsWeaker
  <2>2. DOMAIN <<>> = {}
    OBVIOUS
  <2> QED BY <2>1, <2>2
<1> HIDE DEF schema
<1>3. CASE name \in DOMAIN cat /\ IsWeaker(told[name], cat[name])
  <2>1. \A o \in DOMAIN d[name], c \in schema[name].non_null : d[name][o][c] # Null
    BY <1>1, <1>3 DEF Satisfies, IsWeaker
  <2>2. \A key \in schema[name].unique : \A o, o2 \in DOMAIN d[name] :
          /\ o # o2
          /\ \A c \in key : d[name][o][c] # Null
          => \E c \in key : d[name][o][c] # d[name][o2][c]
    BY <1>1, <1>3 DEF Satisfies, IsWeaker
  <2>3. \A f \in schema[name].foreign : \A o \in DOMAIN d[name] :
          (\A i \in DOMAIN f[1] : d[name][o][f[1][i]] # Null) =>
            \E p \in DOMAIN d[f[2]] :
              \A i \in DOMAIN f[1] : d[f[2]][p][f[3][i]] = d[name][o][f[1][i]]
    BY <1>1, <1>3 DEF Satisfies, IsWeaker
  <2> QED BY <1>2, <2>1, <2>2, <2>3
<1>4. CASE told[name].non_null = {} /\ told[name].unique = {} /\ told[name].foreign = {}
  BY <1>1, <1>2, <1>4
<1> QED BY <1>1, <1>3, <1>4 DEF IsTrueOf

-----------------------------------------------------------------------------
(* SQLSolver's PRIMARY KEY columns are non-null columns, each a trusted    *)
(* unique key (_schema_sql).                                               *)
LEMMA SqlSolverIsToldTheTruth ==
  ASSUME NEW pair, NEW cat
  PROVE  IsTrueOf(SqlSolverTold(pair, cat), cat)
<1> DEFINE told == SqlSolverTold(pair, cat)
<1> SUFFICES ASSUME NEW n \in DOMAIN told
             PROVE  n \in DOMAIN cat /\ IsWeaker(told[n], cat[n])
  BY DEF IsTrueOf
<1>1. n \in DOMAIN cat
  BY DEF SqlSolverTold
<1>2. /\ told[n].non_null = cat[n].non_null \cup PrimaryKeys(cat[n])
      /\ told[n].accepted = <<>>
      /\ told[n].unique = {{c} : c \in PrimaryKeys(cat[n])}
      /\ told[n].foreign = {f \in cat[n].foreign : f[2] \in Mentioned(pair)}
  BY DEF SqlSolverTold, Declared
<1>3. PrimaryKeys(cat[n]) \subseteq cat[n].non_null
  BY DEF PrimaryKeys, IsNonNull
<1>4. {{c} : c \in PrimaryKeys(cat[n])} \subseteq cat[n].unique
  BY DEF PrimaryKeys
<1> QED BY <1>1, <1>2, <1>3, <1>4 DEF IsWeaker

(* QED and VeriEQL are told of keys over non-null columns (_qed_case,      *)
(* _build_constraints).                                                    *)
LEMMA QedIsToldTheTruth ==
  ASSUME NEW schema, NEW cat
  PROVE  IsTrueOf(QedTold(schema, cat), cat)
<1> DEFINE told == QedTold(schema, cat)
<1>1. told = [n \in DOMAIN schema |->
                LET t == TableOf(cat, n) IN
                IF t = None THEN Declared(schema[n], {}, {}, {})
                ELSE Declared(schema[n] \cup t.non_null \cup (UNION FullyNonNull(t)),
                              t.non_null, FullyNonNull(t), {})]
  BY DEF QedTold
<1> SUFFICES ASSUME NEW n \in DOMAIN told
             PROVE  \/ n \in DOMAIN cat /\ IsWeaker(told[n], cat[n])
                    \/ /\ told[n].non_null = {} /\ told[n].accepted = <<>>
                       /\ told[n].unique = {} /\ told[n].foreign = {}
  BY DEF IsTrueOf
<1> HIDE DEF told
<1>2. n \in DOMAIN schema
  BY <1>1
<1>3. CASE TableOf(cat, n) = None
  <2>1. told[n] = Declared(schema[n], {}, {}, {})
    BY <1>1, <1>2, <1>3
  <2> QED BY <2>1 DEF Declared
<1>4. CASE TableOf(cat, n) # None
  <2>1. n \in DOMAIN cat /\ TableOf(cat, n) = cat[n]
    BY <1>4 DEF TableOf
  <2>2. told[n] = Declared(schema[n] \cup cat[n].non_null \cup (UNION FullyNonNull(cat[n])),
                           cat[n].non_null, FullyNonNull(cat[n]), {})
    BY <1>1, <1>2, <1>4, <2>1
  <2>3. /\ told[n].non_null = cat[n].non_null /\ told[n].accepted = <<>>
        /\ told[n].unique = FullyNonNull(cat[n]) /\ told[n].foreign = {}
    BY <2>2 DEF Declared
  <2>4. FullyNonNull(cat[n]) \subseteq cat[n].unique
    BY DEF FullyNonNull
  <2> QED BY <2>1, <2>3, <2>4 DEF IsWeaker
<1> QED BY <1>3, <1>4

(* Whichever backend is asked. *)
LEMMA ToldTheTruth ==
  ASSUME NEW name, NEW pair, NEW cat, Told(name, pair, cat) # None
  PROVE  IsTrueOf(Told(name, pair, cat), cat)
<1>1. CASE name = "sqlsolver"
  BY <1>1, SqlSolverIsToldTheTruth DEF Told
<1>2. CASE name \in {"qed", "verieql"}
  <2>1. Told(name, pair, cat) = ReadTold(name, pair, PairSchema(pair, cat), cat)
    BY <1>2 DEF Told
  <2>2. ReadTold(name, pair, PairSchema(pair, cat), cat) = QedTold(PairSchema(pair, cat), cat)
    BY <2>1 DEF ReadTold
  <2> QED BY <2>1, <2>2, QedIsToldTheTruth
<1>3. CASE name \notin {"sqlsolver", "qed", "verieql"}
  <2>1. Told(name, pair, cat) = None
    BY <1>3 DEF Told
  <2> QED BY <2>1
<1> QED BY <1>1, <1>2, <1>3

(* In every check the solver is told nothing that a database satisfying    *)
(* the constraints could break (sqlsolver.py:248, qed.py:159).             *)
THEOREM ToldIsAlwaysTrue == CheckSpec => []ToldIsTrue
<1>1. ToldIsTrue
  <2> DEFINE told == Told(backend, {original, candidate}, constraints)
  <2> SUFFICES ASSUME told # None, NEW d \in Legal
               PROVE  Satisfies(d, [n \in DOMAIN told \cap DOMAIN d |-> told[n]])
    BY DEF ToldIsTrue
  <2>1. Satisfies(d, constraints)
    BY DEF Legal
  <2>2. IsTrueOf(told, constraints)
    BY ToldTheTruth
  <2> QED BY <2>1, <2>2, WeakerIsSatisfied
<1> QED BY <1>1, PTL

-----------------------------------------------------------------------------
(* Checks by the built-in verifier.                                        *)

LEMMA FlatIsNormalized ==
  ASSUME NEW q, IsFlat(q)
  PROVE  Normalized(q) = q
<1>1. q.with = None /\ [q EXCEPT !.with = None] = q
  BY FlatIsItsText DEF IsFlat
<1>2. ~ReferencesCte(q)
  BY <1>1 DEF ReferencesCte, IsCte
<1> QED BY <1>1, <1>2 DEF Normalized

LEMMA ExpectedIsCandidate ==
  ASSUME NEW q, NEW p, IsFlat(q), IsFlat(p), Expects(q, p)
  PROVE  p = q
BY FlatIsNormalized, FlatIsItsText DEF Expects, SameNormalizedQuery

(* The verifier's own test for a removed DISTINCT, on a list of columns.   *)
LEMMA DistinctRemovalIsTheRule ==
  ASSUME NEW q, NEW p, NEW cat, IsFlat(q), IsFlat(p), \A x \in Range(q.projections) : IsDirectColumn(x),
         IsDistinctRemoval(q, p), CheckDistinctRemoval(q, cat) = "proven"
  PROVE  <<1, p>> \in RemoveRedundantDistinct(q, cat)
<1> DEFINE t == TableOf(cat, TableName(q))
           r == [q EXCEPT !.distinct = FALSE]
<1>1. q.group_by = <<>> /\ ~q.having /\ t # None
      /\ NonNullUniqueKeyIn(t, {ProjectedName(x) : x \in Range(q.projections)})
  BY DEF CheckDistinctRemoval
<1>2. {ProjectedName(x) : x \in Range(q.projections)} = {x.col.name : x \in Range(q.projections)}
  <2>1. \A x \in Range(q.projections) : ProjectedName(x) = x.col.name
    BY DEF ProjectedName
  <2> QED BY <2>1
<1>3. q.with = None /\ q.joins = <<>> /\ IsQuery(q)
  BY DEF IsFlat
<1>4. ~ReferencesCte(q)
  BY <1>3 DEF ReferencesCte, IsCte
<1>5. q.distinct
  BY DEF IsDistinctRemoval
<1>6. p = r
  <2>1. r.distinct = FALSE /\ AgreeBut("distinct", q, r) /\ IsQuery(r)
    BY <1>3, ChangedDistinct
  <2>2. SameNormalizedQuery(r, p)
    BY DEF IsDistinctRemoval
  <2>3. [r EXCEPT !.with = None] = r /\ r.with = None
    <3>1. r.with = None /\ r = [f \in Fields |-> r[f]] /\ "with" \in Fields
      BY <1>3, <2>1 DEF AgreeBut, Fields, IsQuery
    <3> HIDE DEF r
    <3> QED BY <3>1
  <2>4. ~ReferencesCte(r)
    BY <2>3 DEF ReferencesCte, IsCte
  <2>5. Normalized(r) = r
    BY <2>3, <2>4 DEF Normalized
  <2> QED BY <2>2, <2>5, FlatIsNormalized DEF SameNormalizedQuery
<1> HIDE DEF r
<1> QED BY <1>1, <1>2, <1>3, <1>4, <1>5, <1>6 DEF RemoveRedundantDistinct, Proven, r

LEMMA ProvenKeepsRows ==
  ASSUME NEW q, NEW p, NEW cat, NEW d, IsFlat(q), IsFlat(p),
         q.distinct => \A x \in Range(q.projections) : IsDirectColumn(x),
         IsDatabase(d), Satisfies(d, cat), Rows(q, d) # {},
         Verify(q, p, cat) = "proven"
  PROVE  Rows(q, d) = Rows(p, d)
<1>1. Parses(q) /\ Parses(p) /\ Parsed(q) = q /\ Parsed(p) = p
  BY FlatIsItsText
<1>2. CASE q = p
  BY <1>2
<1>3. CASE CheckEquivalence(q, p, cat) = "proven"
  <2>1. CASE \E m \in AvailableMatches(q, cat) : Expects(m.query, p)
    <3>1. PICK m \in AvailableMatches(q, cat) : Expects(m.query, p)
      BY <2>1
    <3>2. IsFlat(m.query) /\ Rows(m.query, d) = Rows(q, d)
      BY AvailableMatchesKeepRows
    <3> QED BY <3>1, <3>2, ExpectedIsCandidate
  <2>2. CASE IsDistinctRemoval(q, p) /\ CheckDistinctRemoval(q, cat) = "proven"
    <3>1. q.distinct
      BY <2>2 DEF IsDistinctRemoval
    <3>2. <<1, p>> \in RemoveRedundantDistinct(q, cat)
      BY <2>2, <3>1, DistinctRemovalIsTheRule
    <3>3. Rows(<<1, p>>[2], d) = Rows(q, d)
      BY <3>2, DistinctRuleKeepsRows
    <3> QED BY <3>3
  <2>3. CASE \E rule \in {"remove_redundant_not_null_filter", "remove_unused_left_join",
                          "rewrite_join_distinct_to_exists", "predicate_pushdown"} :
               \E m \in Apply(rule, q, cat) : Expects(m[2], p)
    <3>1. PICK rule \in {"remove_redundant_not_null_filter", "remove_unused_left_join",
                         "rewrite_join_distinct_to_exists", "predicate_pushdown"} :
            \E m \in Apply(rule, q, cat) : Expects(m[2], p)
      BY <2>3
    <3>2. PICK m \in Apply(rule, q, cat) : Expects(m[2], p)
      BY <3>1
    <3>3. rule \in RuleNames
      BY DEF RuleNames
    <3>4. IsFlat(m[2]) /\ Rows(m[2], d) = Rows(q, d)
      BY <3>3, ApplyKeepsRows
    <3> QED BY <3>2, <3>4, ExpectedIsCandidate
  <2> QED BY <1>3, <2>1, <2>2, <2>3 DEF CheckEquivalence
<1> QED BY <1>1, <1>2, <1>3 DEF Verify

(* The built-in verifier is asked about two queries over one table, which  *)
(* every database that satisfies the constraints can answer.  Under        *)
(* DISTINCT there are columns only: the verifier takes the alias of an     *)
(* expression for a column name.                                           *)
BuiltinOverOneTable ==
  /\ backend = "builtin"
  /\ IsFlat(original) /\ IsFlat(candidate)
  /\ original.distinct => \A x \in Range(original.projections) : IsDirectColumn(x)
  /\ \A d \in Legal : IsDatabase(d) /\ Rows(original, d) # {}

VerdictIsGiven ==
  verdict = None \/ verdict \in BackendVerdicts(backend, original, candidate, constraints,
                                                CheckSettings[setting].sizes)

LEMMA VerdictIsAlwaysGiven == CheckSpec => []VerdictIsGiven
<1>1. CheckInit => VerdictIsGiven
  BY DEF CheckInit, VerdictIsGiven
<1>2. VerdictIsGiven /\ [CheckNext]_checkVars => VerdictIsGiven'
  BY DEF VerdictIsGiven, CheckNext, Check, checkVars
<1> QED BY <1>1, <1>2, PTL DEF CheckSpec

(* A candidate the built-in verifier certifies returns the rows of the     *)
(* original on every database that satisfies the constraints, whoever      *)
(* wrote it (README.md:16).                                                *)
THEOREM BuiltinProofsAreSound == CheckSpec => [](BuiltinOverOneTable => ProvenMeansSameRows)
<1>1. VerdictIsGiven => (BuiltinOverOneTable => ProvenMeansSameRows)
  <2> SUFFICES ASSUME VerdictIsGiven, BuiltinOverOneTable, verdict = "proven", NEW d \in Legal
               PROVE  Rows(original, d) = Rows(candidate, d)
    BY DEF ProvenMeansSameRows
  <2>1. verdict # None
    BY VerdictAssumption
  <2>2. Verify(original, candidate, constraints) = "proven"
    BY <2>1 DEF VerdictIsGiven, BackendVerdicts, BuiltinOverOneTable
  <2>3. Satisfies(d, constraints)
    BY DEF Legal
  <2> QED BY <2>2, <2>3, ProvenKeepsRows DEF BuiltinOverOneTable
<1> QED BY <1>1, VerdictIsAlwaysGiven, PTL

-----------------------------------------------------------------------------
(* Any query: with joins, one level of subqueries, one CTE.                *)
IsSelect(q) ==
  /\ IsQuery(q)
  /\ \A i \in DOMAIN q.predicates : "op" \in DOMAIN q.predicates[i]
  /\ q.subquery # None =>
       /\ IsQuery(q.subquery)
       /\ \A i \in DOMAIN q.subquery.predicates : "op" \in DOMAIN q.subquery.predicates[i]

(* No join and no EXISTS reads the name n.                                 *)
Avoids(q, n) ==
  /\ \A i \in DOMAIN q.joins : q.joins[i].table # n
  /\ \A i \in DOMAIN q.predicates : q.predicates[i].op = "exists" => q.predicates[i].table # n
AvoidsAll(q, n) == Avoids(q, n) /\ (q.subquery # None => Avoids(q.subquery, n))

(* What a rule makes of a query.                                           *)
Follows(q, r) ==
  /\ IsSelect(r)
  /\ r.with \in {q.with, None}
  /\ \A n : AvoidsAll(q, n) => AvoidsAll(r, n)

LEMMA ChangedField ==
  ASSUME NEW q, IsQuery(q), NEW f \in Fields, NEW x, NEW p, p = [q EXCEPT ![f] = x]
  PROVE  /\ p = [g \in Fields |-> p[g]] /\ p[f] = x
         /\ \A g \in Fields \ {f} : p[g] = q[g]
<1>1. q = [g \in Fields |-> q[g]]
  BY DEF IsQuery
<1>2. p = [g \in Fields |-> IF g = f THEN x ELSE q[g]]
  BY <1>1
<1> QED BY <1>2

(* A query of which joins, predicates and subquery stay.                   *)
LEMMA FollowsIfAlike ==
  ASSUME NEW q, NEW r, IsSelect(q), IsQuery(r), r.with = q.with, r.joins = q.joins,
         r.predicates = q.predicates, r.subquery = q.subquery
  PROVE  Follows(q, r)
BY DEF Follows, IsSelect, AvoidsAll, Avoids

(* The join goes.                                                          *)
LEMMA JoinRemovalFollows ==
  ASSUME NEW q, IsSelect(q), NEW r, r = [q EXCEPT !.joins = <<>>]
  PROVE  Follows(q, r)
<1>1. IsQuery(q) /\ "joins" \in Fields
  BY DEF IsSelect, Fields
<1>2. r.joins = <<>> /\ r = [g \in Fields |-> r[g]] /\ \A g \in Fields \ {"joins"} : r[g] = q[g]
  BY <1>1, ChangedField
<1>3. /\ r.predicates = q.predicates /\ r.projections = q.projections /\ r.group_by = q.group_by
      /\ r.order_by = q.order_by /\ r.having = q.having /\ r.qualify = q.qualify
      /\ r.distinct = q.distinct /\ r.with = q.with /\ r.subquery = q.subquery
  BY <1>2 DEF Fields
<1>4. IsList(<<>>)
  BY DEF IsList
<1>5. IsQuery(r)
  BY <1>1, <1>2, <1>3, <1>4 DEF IsQuery
<1>6. IsSelect(r)
  BY <1>3, <1>5 DEF IsSelect
<1>7. \A n : AvoidsAll(q, n) => AvoidsAll(r, n)
  BY <1>2, <1>3 DEF AvoidsAll, Avoids
<1> QED BY <1>3, <1>6, <1>7 DEF Follows

(* The join becomes an EXISTS over the same table.                         *)
LEMMA ExistsFollows ==
  ASSUME NEW q, IsSelect(q), Len(q.joins) = 1, NEW r, r = ExistsForJoin(q, q.joins[1])
  PROVE  Follows(q, r)
<1> DEFINE w == Exists(q.joins[1].table, q.joins[1].on)
           ws == Append(q.predicates, w)
<1>1. IsQuery(q) /\ IsList(q.predicates) /\ IsList(q.joins)
  BY DEF IsSelect, IsQuery
<1>2. w.op = "exists" /\ w.table = q.joins[1].table /\ "op" \in DOMAIN w
  BY DEF Exists
<1> HIDE DEF w
<1>3. IsList(ws) /\ Range(ws) = Range(q.predicates) \cup {w}
  BY <1>1, OneMore
<1>4. r = [q EXCEPT !.distinct = FALSE, !.joins = <<>>, !.predicates = ws]
  BY DEF ExistsForJoin, w
<1> HIDE DEF ws
<1>5. q = [f \in Fields |-> q[f]]
  BY <1>1 DEF IsQuery
<1>6. r = [f \in Fields |-> IF f = "predicates" THEN ws ELSE IF f = "joins" THEN <<>>
                            ELSE IF f = "distinct" THEN FALSE ELSE q[f]]
  BY <1>4, <1>5 DEF Fields
<1>7. /\ r = [f \in Fields |-> r[f]]
      /\ r.predicates = ws /\ r.joins = <<>> /\ r.distinct = FALSE
      /\ r.projections = q.projections /\ r.group_by = q.group_by /\ r.order_by = q.order_by
      /\ r.having = q.having /\ r.qualify = q.qualify /\ r.with = q.with
      /\ r.subquery = q.subquery
  BY <1>6 DEF Fields
<1>8. IsList(<<>>)
  BY DEF IsList
<1>9. IsQuery(r)
  BY <1>1, <1>3, <1>7, <1>8 DEF IsQuery
<1>10. \A i \in DOMAIN ws : ws[i] = w \/ \E k \in DOMAIN q.predicates : ws[i] = q.predicates[k]
  <2>1. \A i \in DOMAIN ws : ws[i] \in Range(ws)
    BY DEF Range
  <2> QED BY <1>3, <2>1 DEF Range
<1>11. IsSelect(r)
  BY <1>2, <1>7, <1>9, <1>10 DEF IsSelect
<1>12. 1 \in DOMAIN q.joins
  BY <1>1 DEF IsList
<1>13. \A n : AvoidsAll(q, n) => AvoidsAll(r, n)
  <2>1. TAKE n
  <2>2. HAVE AvoidsAll(q, n)
  <2>3. w.table # n
    BY <1>2, <1>12, <2>2 DEF AvoidsAll, Avoids
  <2>4. \A i \in DOMAIN ws : ws[i].op = "exists" => ws[i].table # n
    BY <1>10, <2>2, <2>3 DEF AvoidsAll, Avoids
  <2>5. Avoids(r, n)
    BY <1>7, <2>4 DEF Avoids
  <2> QED BY <1>7, <2>2, <2>5 DEF AvoidsAll
<1> QED BY <1>7, <1>11, <1>13 DEF Follows

(* Predicates go.                                                          *)
LEMMA FewerPredicatesFollow ==
  ASSUME NEW q, IsSelect(q), NEW ws, IsList(ws), Range(ws) \subseteq Range(q.predicates),
         NEW r, r = [q EXCEPT !.predicates = ws]
  PROVE  Follows(q, r)
<1>1. IsQuery(q)
  BY DEF IsSelect
<1>2. r.predicates = ws /\ AgreeBut("predicates", q, r) /\ IsQuery(r)
  BY <1>1, ChangedPredicates
<1>3. r.joins = q.joins /\ r.with = q.with /\ r.subquery = q.subquery
  BY <1>2 DEF AgreeBut, Fields
<1>4. \A i \in DOMAIN ws : \E k \in DOMAIN q.predicates : ws[i] = q.predicates[k]
  BY DEF Range
<1>5. IsSelect(r)
  BY <1>2, <1>3, <1>4 DEF IsSelect
<1>6. \A n : AvoidsAll(q, n) => AvoidsAll(r, n)
  BY <1>2, <1>3, <1>4 DEF AvoidsAll, Avoids
<1> QED BY <1>3, <1>5, <1>6 DEF Follows

(* Other projections.                                                      *)
LEMMA OtherProjectionsFollow ==
  ASSUME NEW q, IsSelect(q), NEW ps, IsList(ps), NEW r, r = [q EXCEPT !.projections = ps]
  PROVE  Follows(q, r)
<1>1. IsQuery(q)
  BY DEF IsSelect
<1>2. r.projections = ps /\ AgreeBut("projections", q, r) /\ IsQuery(r)
  BY <1>1, ChangedProjections
<1>3. r.joins = q.joins /\ r.with = q.with /\ r.subquery = q.subquery /\ r.predicates = q.predicates
  BY <1>2 DEF AgreeBut, Fields
<1> QED BY <1>2, <1>3, FollowsIfAlike

LEMMA DistinctRemovalFollows ==
  ASSUME NEW q, IsSelect(q), NEW r, r = [q EXCEPT !.distinct = FALSE]
  PROVE  Follows(q, r)
<1>1. IsQuery(q)
  BY DEF IsSelect
<1>2. AgreeBut("distinct", q, r) /\ IsQuery(r)
  BY <1>1, ChangedDistinct
<1>3. r.joins = q.joins /\ r.with = q.with /\ r.subquery = q.subquery /\ r.predicates = q.predicates
  BY <1>2 DEF AgreeBut, Fields
<1> QED BY <1>2, <1>3, FollowsIfAlike

LEMMA CollapseFollows ==
  ASSUME NEW q, IsSelect(q), NEW ps, IsList(ps), NEW r,
         r = [q EXCEPT !.group_by = <<>>, !.projections = ps]
  PROVE  Follows(q, r)
<1>1. IsQuery(q) /\ IsQuery(r)
  BY ChangedGrouping DEF IsSelect
<1>2. q = [f \in Fields |-> q[f]]
  BY <1>1 DEF IsQuery
<1>3. r.joins = q.joins /\ r.with = q.with /\ r.subquery = q.subquery /\ r.predicates = q.predicates
  BY <1>2 DEF Fields
<1> QED BY <1>1, <1>3, FollowsIfAlike

(* The pushed query has the predicates of both levels.                     *)
LEMMA PushdownFollows ==
  ASSUME NEW q, NEW cat, IsSelect(q), NEW m \in PredicatePushdown(q, cat)
  PROVE  Follows(q, m[2]) /\ m[1] = 1
<1> DEFINE inner == q.subquery
           names(ps) == [i \in DOMAIN ps |-> ps[i].col.name]
           outer == [i \in DOMAIN q.predicates |->
                       [q.predicates[i] EXCEPT !.left = Unqualified(@)]]
           ps == PushedProjections(q)
           ws == inner.predicates \o outer
           r == [SelectFrom(inner.table, ps) EXCEPT !.alias = inner.alias, !.predicates = ws]
           allowed == /\ inner # None
                      /\ q.predicates # <<>>
                      /\ ~ReferencesCte(q)
                      /\ IsPlain(q) /\ IsPlain(inner)
                      /\ \A w \in Range(q.predicates) : IsPredicate(w)
                      /\ IsDirectTable(inner)
                      /\ \A p \in Range(q.projections) \cup Range(inner.projections) : IsDirectColumn(p)
                      /\ names(q.projections) = names(inner.projections)
                      /\ \A w \in Range(q.predicates) :
                           /\ w.left.name \in Range(names(inner.projections))
                           /\ w.left.table \in {None, q.alias}
<1>1. m \in Proven(allowed, 1, r)
  BY DEF PredicatePushdown
<1>2. allowed /\ m = <<1, r>>
  <2> HIDE DEF allowed, r
  <2> QED BY <1>1 DEF Proven
<1>3. inner # None /\ \A i \in DOMAIN q.predicates : q.predicates[i].op # "exists"
  BY <1>2 DEF Range, IsPredicate
<1> HIDE DEF allowed
<1>4. m[1] = 1 /\ m[2] = r
  <2> HIDE DEF r
  <2> QED BY <1>2
<1>5. /\ IsQuery(q) /\ IsQuery(inner) /\ IsList(q.predicates) /\ IsList(inner.predicates)
      /\ IsList(q.projections)
      /\ \A i \in DOMAIN q.predicates : "op" \in DOMAIN q.predicates[i]
      /\ \A i \in DOMAIN inner.predicates : "op" \in DOMAIN inner.predicates[i]
  BY <1>3 DEF IsSelect, IsQuery
<1>6. IsList(outer) /\ DOMAIN outer = DOMAIN q.predicates
  <2>1. outer = [i \in DOMAIN q.predicates |-> outer[i]]
    OBVIOUS
  <2> HIDE DEF outer
  <2> QED BY <1>5, <2>1, ListAlong
<1>7. \A i \in DOMAIN outer : "op" \in DOMAIN outer[i] /\ outer[i].op # "exists"
  BY <1>3, <1>5
<1>8. IsList(ps)
  <2>1. ps = [i \in DOMAIN q.projections |-> ps[i]]
    BY DEF PushedProjections
  <2> HIDE DEF ps
  <2> QED BY <1>5, <2>1, ListAlong
<1> HIDE DEF outer, ps, inner
<1>9. IsList(ws) /\ Range(ws) = Range(inner.predicates) \cup Range(outer)
  BY <1>5, <1>6, ListsTogether
<1> HIDE DEF ws
<1>10. /\ r = [f \in Fields |-> r[f]]
       /\ r.predicates = ws /\ r.joins = <<>> /\ r.projections = ps /\ r.with = None
       /\ r.subquery = None /\ r.group_by = <<>> /\ r.order_by = <<>>
       /\ r.having = FALSE /\ r.qualify = FALSE /\ r.distinct = FALSE
  <2>1. r = [f \in Fields |->
               IF f = "predicates" THEN ws ELSE IF f = "alias" THEN inner.alias
               ELSE SelectFrom(inner.table, ps)[f]]
    BY DEF SelectFrom, Fields
  <2> HIDE DEF r
  <2>2. r = [f \in Fields |-> r[f]]
    BY <2>1
  <2>3. \A f \in Fields \ {"predicates", "alias"} : r[f] = SelectFrom(inner.table, ps)[f]
    BY <2>1
  <2>4. r.predicates = ws
    BY <2>1 DEF Fields
  <2> QED BY <2>2, <2>3, <2>4 DEF SelectFrom, Fields
<1> HIDE DEF r
<1>11. IsList(<<>>)
  BY DEF IsList
<1>12. IsQuery(r)
  BY <1>8, <1>9, <1>10, <1>11 DEF IsQuery
<1>13. \A i \in DOMAIN ws : \/ \E k \in DOMAIN outer : ws[i] = outer[k]
                            \/ \E k \in DOMAIN inner.predicates : ws[i] = inner.predicates[k]
  <2>1. \A i \in DOMAIN ws : ws[i] \in Range(ws)
    BY DEF Range
  <2> QED BY <1>9, <2>1 DEF Range
<1>14. IsSelect(r)
  BY <1>5, <1>7, <1>10, <1>12, <1>13 DEF IsSelect
<1>15. ASSUME NEW n, AvoidsAll(q, n) PROVE AvoidsAll(r, n)
  <2>1. \A k \in DOMAIN inner.predicates :
          inner.predicates[k].op = "exists" => inner.predicates[k].table # n
    BY <1>3, <1>15 DEF AvoidsAll, Avoids, inner
  <2>2. \A i \in DOMAIN ws : ws[i].op = "exists" => ws[i].table # n
    BY <1>7, <1>13, <2>1
  <2>3. Avoids(r, n)
    BY <1>10, <2>2 DEF Avoids
  <2> QED BY <1>10, <2>3 DEF AvoidsAll
<1>16. Follows(q, r)
  BY <1>10, <1>14, <1>15 DEF Follows
<1> QED BY <1>4, <1>16

(* A rule of one target per predicate or projection offers its number.     *)
LEMMA FilterRulesFollow ==
  ASSUME NEW q, NEW cat, IsSelect(q), NEW rule, NEW m \in RemoveRedundant(rule, q, cat)
  PROVE  Follows(q, m[2]) /\ m[1] \in Nat
<1> DEFINE t == FilteredTable(q, cat)
<1>1. PICK i \in DOMAIN q.predicates :
        m \in Proven(t # None /\ Trusted(rule, q.predicates[i], q, t),
                     i, [q EXCEPT !.predicates = RemoveAt(@, i)])
  BY DEF RemoveRedundant
<1> DEFINE ws == RemoveAt(q.predicates, i)
           r == [q EXCEPT !.predicates = ws]
<1>2. m = <<i, r>>
  BY <1>1 DEF Proven
<1>3. IsList(q.predicates)
  BY DEF IsSelect, IsQuery
<1>4. IsList(ws) /\ Range(ws) \subseteq Range(q.predicates)
  BY <1>3, ListWithout
<1> HIDE DEF ws
<1>5. Follows(q, r)
  BY <1>4, FewerPredicatesFollow
<1>6. i \in Nat
  BY <1>3, ListOf DEF IsList
<1> HIDE DEF r
<1> QED BY <1>2, <1>5, <1>6

LEMMA AllFiltersFollow ==
  ASSUME NEW q, NEW cat, IsSelect(q), NEW rule, NEW m \in RemoveAllRedundant(rule, q, cat)
  PROVE  Follows(q, m[2])
<1> DEFINE t == FilteredTable(q, cat)
           kept == {w \in Range(q.predicates) : ~Trusted(rule, w, q, t)}
           ws == Among(q.predicates, kept)
           r == [q EXCEPT !.predicates = ws]
<1>1. \E allowed : m \in Proven(allowed, 1, r)
  BY DEF RemoveAllRedundant
<1> HIDE DEF r
<1>2. m[2] = r
  BY <1>1 DEF Proven
<1>3. IsList(q.predicates)
  BY DEF IsSelect, IsQuery
<1>4. IsList(ws) /\ Range(ws) \subseteq Range(q.predicates)
  <2> HIDE DEF kept
  <2> QED BY <1>3, AmongRange
<1> HIDE DEF ws
<1> QED BY <1>2, <1>4, FewerPredicatesFollow DEF r

LEMMA CaseRuleFollows ==
  ASSUME NEW q, NEW cat, IsSelect(q), NEW m \in SimplifyAcceptedValuesCase(q, cat)
  PROVE  Follows(q, m[2]) /\ m[1] \in Nat
<1> DEFINE t == TableOf(cat, TableName(q))
<1>1. PICK i \in DOMAIN q.projections : \E allowed :
        m \in Proven(allowed, i, [q EXCEPT !.projections[i] = SimplifiedCase(q.projections[i], q, t)])
  BY DEF SimplifyAcceptedValuesCase
<1> DEFINE c == SimplifiedCase(q.projections[i], q, t)
           ps == [q.projections EXCEPT ![i] = c]
           r == [q EXCEPT !.projections = ps]
<1>2. \E allowed : m \in Proven(allowed, i, r)
  BY <1>1
<1> HIDE DEF r
<1>3. m[1] = i /\ m[2] = r
  BY <1>2 DEF Proven
<1>4. IsList(q.projections)
  BY DEF IsSelect, IsQuery
<1> HIDE DEF c
<1>5. IsList(ps)
  BY <1>4, ListWithChange
<1> HIDE DEF ps
<1>6. Follows(q, r)
  BY <1>5, OtherProjectionsFollow DEF r
<1>7. i \in Nat
  BY <1>4, ListOf DEF IsList
<1> QED BY <1>3, <1>6, <1>7

LEMMA CountDistinctRuleFollows ==
  ASSUME NEW q, NEW cat, IsSelect(q), NEW m \in RemoveRedundantCountDistinct(q, cat)
  PROVE  Follows(q, m[2]) /\ m[1] \in Nat
<1>1. PICK i \in DOMAIN q.projections : \E allowed :
        m \in Proven(allowed, i, [q EXCEPT !.projections[i].kind = "count"])
  BY DEF RemoveRedundantCountDistinct
<1> DEFINE c == [q.projections[i] EXCEPT !.kind = "count"]
           ps == [q.projections EXCEPT ![i] = c]
           r == [q EXCEPT !.projections = ps]
<1>2. \E allowed : m \in Proven(allowed, i, r)
  BY <1>1
<1> HIDE DEF r
<1>3. m[1] = i /\ m[2] = r
  BY <1>2 DEF Proven
<1>4. IsList(q.projections)
  BY DEF IsSelect, IsQuery
<1> HIDE DEF c
<1>5. IsList(ps)
  BY <1>4, ListWithChange
<1> HIDE DEF ps
<1>6. Follows(q, r)
  BY <1>5, OtherProjectionsFollow DEF r
<1>7. i \in Nat
  BY <1>4, ListOf DEF IsList
<1> QED BY <1>3, <1>6, <1>7

LEMMA CollapseRuleFollows ==
  ASSUME NEW q, NEW cat, IsSelect(q), NEW m \in CollapseUniqueGroupBy(q, cat)
  PROVE  Follows(q, m[2]) /\ m[1] = 1
<1> DEFINE ps == [i \in DOMAIN q.projections |-> Collapsed(q.projections[i])]
           r == [q EXCEPT !.group_by = <<>>, !.projections = ps]
<1>1. \E allowed : m \in Proven(allowed, 1, r)
  BY DEF CollapseUniqueGroupBy
<1> HIDE DEF r
<1>2. m[1] = 1 /\ m[2] = r
  BY <1>1 DEF Proven
<1>3. IsList(q.projections)
  BY DEF IsSelect, IsQuery
<1>4. ps = [i \in DOMAIN q.projections |-> ps[i]]
  OBVIOUS
<1> HIDE DEF ps
<1>5. IsList(ps)
  BY <1>3, <1>4, ListAlong
<1>6. Follows(q, r)
  BY <1>5, CollapseFollows DEF r
<1> QED BY <1>2, <1>6

LEMMA DistinctRuleFollows ==
  ASSUME NEW q, NEW cat, IsSelect(q), NEW m \in RemoveRedundantDistinct(q, cat)
  PROVE  Follows(q, m[2]) /\ m[1] = 1
<1> DEFINE r == [q EXCEPT !.distinct = FALSE]
<1>1. \E allowed : m \in Proven(allowed, 1, r)
  BY DEF RemoveRedundantDistinct
<1> HIDE DEF r
<1>2. m[1] = 1 /\ m[2] = r
  BY <1>1 DEF Proven
<1>3. Follows(q, r)
  BY DistinctRemovalFollows DEF r
<1> QED BY <1>2, <1>3

LEMMA JoinRulesFollow ==
  ASSUME NEW q, NEW cat, IsSelect(q),
         NEW m \in RemoveUnusedLeftJoin(q, cat) \cup RemoveForeignKeyInnerJoin(q, cat)
                   \cup RewriteJoinDistinctToExists(q, cat)
  PROVE  Follows(q, m[2]) /\ m[1] = 1
<1> DEFINE r == [q EXCEPT !.joins = <<>>]
           s == ExistsForJoin(q, q.joins[1])
<1>1. CASE m \in RemoveUnusedLeftJoin(q, cat) \cup RemoveForeignKeyInnerJoin(q, cat)
  <2>1. \E allowed : m \in Proven(allowed, 1, r)
    BY <1>1 DEF RemoveUnusedLeftJoin, RemoveForeignKeyInnerJoin
  <2>2. Follows(q, r)
    BY JoinRemovalFollows
  <2> HIDE DEF r
  <2>3. m[1] = 1 /\ m[2] = r
    BY <2>1 DEF Proven
  <2> QED BY <2>2, <2>3
<1>2. CASE m \in RewriteJoinDistinctToExists(q, cat)
  <2>1. \E allowed : m \in Proven(allowed, 1, s) /\ (allowed => Len(q.joins) = 1)
    <3> HIDE DEF s
    <3>1. OneJoin(q, "INNER") => Len(q.joins) = 1
      BY DEF OneJoin
    <3> QED BY <1>2, <3>1 DEF RewriteJoinDistinctToExists, s
  <2> HIDE DEF s
  <2>2. m[1] = 1 /\ m[2] = s /\ Len(q.joins) = 1
    BY <2>1 DEF Proven
  <2>3. Follows(q, s)
    BY <2>2, ExistsFollows DEF s
  <2> QED BY <2>2, <2>3
<1> QED BY <1>1, <1>2

(* matches() and apply() of every rule.                                    *)
LEMMA MatchesFollow ==
  ASSUME NEW q, NEW cat, IsSelect(q), NEW rule \in RuleNames, NEW m \in Matches(rule, q, cat)
  PROVE  Follows(q, m[2]) /\ m[1] \in Nat
<1>1. CASE rule \in {"remove_unused_left_join", "remove_foreign_key_inner_join",
                     "rewrite_join_distinct_to_exists"}
  <2>1. m \in RemoveUnusedLeftJoin(q, cat) \cup RemoveForeignKeyInnerJoin(q, cat)
              \cup RewriteJoinDistinctToExists(q, cat)
    BY <1>1 DEF Matches
  <2> QED BY <2>1, JoinRulesFollow
<1>2. CASE rule \in {"remove_redundant_not_null_filter", "remove_redundant_accepted_values_filter"}
  <2>1. m \in RemoveRedundant(rule, q, cat)
    BY <1>2 DEF Matches, RemoveRedundantNotNullFilter, RemoveRedundantAcceptedValuesFilter
  <2> QED BY <2>1, FilterRulesFollow
<1>3. CASE rule = "simplify_accepted_values_case"
  <2>1. m \in SimplifyAcceptedValuesCase(q, cat)
    BY <1>3 DEF Matches
  <2> QED BY <2>1, CaseRuleFollows
<1>4. CASE rule = "remove_redundant_distinct"
  <2>1. m \in RemoveRedundantDistinct(q, cat)
    BY <1>4 DEF Matches
  <2> QED BY <2>1, DistinctRuleFollows
<1>5. CASE rule = "remove_redundant_count_distinct"
  <2>1. m \in RemoveRedundantCountDistinct(q, cat)
    BY <1>5 DEF Matches
  <2> QED BY <2>1, CountDistinctRuleFollows
<1>6. CASE rule = "collapse_unique_group_by"
  <2>1. m \in CollapseUniqueGroupBy(q, cat)
    BY <1>6 DEF Matches
  <2> QED BY <2>1, CollapseRuleFollows
<1>7. CASE rule = "predicate_pushdown"
  <2>1. m \in PredicatePushdown(q, cat)
    BY <1>7 DEF Matches
  <2> QED BY <2>1, PushdownFollows
<1> QED BY <1>1, <1>2, <1>3, <1>4, <1>5, <1>6, <1>7 DEF RuleNames

LEMMA ApplyFollows ==
  ASSUME NEW q, NEW cat, IsSelect(q), NEW rule \in RuleNames, NEW m \in Apply(rule, q, cat)
  PROVE  Follows(q, m[2])
<1>1. CASE rule \in {"remove_redundant_not_null_filter", "remove_redundant_accepted_values_filter"}
  <2>1. m \in RemoveAllRedundant(rule, q, cat)
    BY <1>1 DEF Apply
  <2> QED BY <2>1, AllFiltersFollow
<1>2. CASE rule \notin {"remove_redundant_not_null_filter", "remove_redundant_accepted_values_filter"}
  <2>1. m \in Foremost(Matches(rule, q, cat))
    BY <1>2 DEF Apply
  <2>2. m \in Matches(rule, q, cat)
    BY <2>1 DEF Foremost
  <2> QED BY <2>2, MatchesFollow
<1> QED BY <1>1, <1>2

(* matches() has nothing where apply() has nothing, unless an EXISTS or a  *)
(* join reads the CTE: the filter rules look for those in apply() only.    *)
LEMMA ApplyMissesNothing ==
  ASSUME NEW q, NEW cat, IsSelect(q), q.with # None => AvoidsAll(q, q.with.name),
         NEW rule \in RuleNames, Apply(rule, q, cat) = {}
  PROVE  Matches(rule, q, cat) = {}
<1>1. CASE rule \in {"remove_redundant_not_null_filter", "remove_redundant_accepted_values_filter"}
  <2> DEFINE t == FilteredTable(q, cat)
             kept == {w \in Range(q.predicates) : ~Trusted(rule, w, q, t)}
             r == [q EXCEPT !.predicates = Among(q.predicates, kept)]
             some == \E w \in Range(q.predicates) : Trusted(rule, w, q, t)
  <2>1. Matches(rule, q, cat) = RemoveRedundant(rule, q, cat)
    BY <1>1 DEF Matches, RemoveRedundantNotNullFilter, RemoveRedundantAcceptedValuesFilter
  <2>2. Apply(rule, q, cat) = Proven(~ReferencesCte(q) /\ t # None /\ some, 1, r)
    BY <1>1 DEF Apply, RemoveAllRedundant
  <2> HIDE DEF r
  <2>3. ReferencesCte(q) \/ t = None \/ ~some
    <3> HIDE DEF some, t
    <3> QED BY <2>2 DEF Proven
  <2>4. ASSUME t # None PROVE ~ReferencesCte(q)
    <3>1. q.subquery = None /\ q.joins = <<>> /\ TableOf(cat, TableName(q)) # None
      BY <2>4 DEF FilteredTable, IsDirectTable
    <3>2. ~IsCte(q, q.table)
      BY <3>1 DEF TableOf, TableName
    <3>3. \A i \in DOMAIN q.predicates :
            q.predicates[i].op = "exists" => ~IsCte(q, q.predicates[i].table)
      BY DEF IsCte, AvoidsAll, Avoids
    <3>4. DOMAIN q.joins = {}
      BY <3>1
    <3> QED BY <3>1, <3>2, <3>3, <3>4 DEF ReferencesCte
  <2>5. \A i \in DOMAIN q.predicates : ~(t # None /\ Trusted(rule, q.predicates[i], q, t))
    BY <2>3, <2>4 DEF Range
  <2> HIDE DEF t
  <2>6. RemoveRedundant(rule, q, cat) = {}
    BY <2>5 DEF RemoveRedundant, Proven, t
  <2> QED BY <2>1, <2>6
<1>2. CASE rule \notin {"remove_redundant_not_null_filter", "remove_redundant_accepted_values_filter"}
  <2> DEFINE ms == Matches(rule, q, cat)
             S == {m[1] : m \in ms}
  <2>1. Foremost(ms) = {}
    BY <1>2 DEF Apply
  <2>2. \A m \in ms : m[1] \in Nat
    BY MatchesFollow
  <2> HIDE DEF ms
  <2>3. SUFFICES ASSUME ms # {} PROVE FALSE
    BY DEF ms
  <2>4. S \subseteq Nat /\ S # {}
    BY <2>2, <2>3
  <2>5. PICK n \in S : \A k \in S : n <= k
    BY <2>4, LeastNumber
  <2>6. PICK m \in ms : m[1] = n
    BY <2>5
  <2>7. m \in Foremost(ms)
    BY <2>5, <2>6 DEF Foremost
  <2> QED BY <2>1, <2>7
<1> QED BY <1>1, <1>2

(* The first suggestion, or none where no rule applies.                    *)
LEMMA SuggestionIs ==
  ASSUME NEW q, NEW cat, IsSelect(q)
  PROVE  \/ FirstSuggestion(q, cat) = None /\ \A rule \in RuleNames : Apply(rule, q, cat) = {}
         \/ Follows(q, FirstSuggestion(q, cat))
<1> DEFINE offered == Suggestions(q, cat)
           proven == {i \in DOMAIN offered : offered[i] # {}}
           first == CHOOSE i \in proven : \A j \in proven : i <= j
           chosen == CHOOSE m \in offered[first] : TRUE
<1>1. FirstSuggestion(q, cat) = IF proven = {} THEN None ELSE chosen[2]
  BY DEF FirstSuggestion, FirstProven
<1>2. DOMAIN offered = 1 .. 10 /\ \A i \in 1 .. 10 : offered[i] = Apply(DefaultRules[i], q, cat)
  BY RulesAreTen DEF Suggestions
<1> HIDE DEF offered
<1>3. CASE proven = {}
  <2>1. \A i \in 1 .. 10 : Apply(DefaultRules[i], q, cat) = {}
    BY <1>2, <1>3
  <2>2. \A rule \in RuleNames : \E i \in 1 .. 10 : DefaultRules[i] = rule
    BY RulesAreTen DEF Range
  <2> QED BY <1>1, <1>3, <2>1, <2>2
<1>4. CASE proven # {}
  <2>1. proven \subseteq Nat
    BY <1>2
  <2>2. first \in proven
    <3> HIDE DEF proven
    <3>1. \E i \in proven : \A j \in proven : i <= j
      BY <1>4, <2>1, LeastNumber
    <3> QED BY <3>1
  <2> HIDE DEF first
  <2>3. chosen \in offered[first] /\ first \in 1 .. 10
    BY <1>2, <2>2
  <2> HIDE DEF chosen
  <2>4. chosen \in Apply(DefaultRules[first], q, cat) /\ DefaultRules[first] \in RuleNames
    BY <1>2, <2>3, RulesAreTen DEF Range
  <2> HIDE DEF proven
  <2> QED BY <1>1, <1>4, <2>4, ApplyFollows
<1> QED BY <1>3, <1>4

LEMMA NoSuggestionNoMatch ==
  ASSUME NEW q, NEW cat, IsSelect(q), q.with # None => AvoidsAll(q, q.with.name),
         ~IsQuery(None), FirstSuggestion(q, cat) = None
  PROVE  AvailableMatches(q, cat) = {}
<1>1. \A rule \in RuleNames : Apply(rule, q, cat) = {}
  BY SuggestionIs DEF Follows, IsSelect
<1>2. \A rule \in RuleNames : Matches(rule, q, cat) = {}
  BY <1>1, ApplyMissesNothing
<1> QED BY <1>2, RulesAreTen DEF AvailableMatches

-----------------------------------------------------------------------------
(* Texts.  A WITH clause in front has one name and bodies without one.     *)
IsText(q) ==
  /\ IsSelect(q)
  /\ q.with # None =>
       /\ q.with = Cte(q.with.name, q.with.bodies)
       /\ IsList(q.with.bodies)
       /\ AvoidsAll(q, q.with.name)
       /\ \A b \in Range(q.with.bodies) : IsSelect(b) /\ b.with = None /\ AvoidsAll(b, q.with.name)

LEMMA ResolvedIs ==
  ASSUME NEW s, NEW with, IsQuery(s), IsQuery(Body(with)), NEW r, r = Resolved(s, with)
  PROVE  /\ IsQuery(r)
         /\ \/ r.subquery = s.subquery /\ r.joins = s.joins /\ r.predicates = s.predicates
            \/ r.subquery = Body(with).subquery /\ r.joins = Body(with).joins
               /\ r.predicates = Body(with).predicates
<1> DEFINE body == Body(with)
<1> HIDE DEF body
<1>1. r \in {s, body, Inlined(s, body), ReadsTableOf(s, body)}
  BY DEF Resolved, body
<1>2. CASE r \in {s, body}
  BY <1>2 DEF body
<1>3. CASE r = Inlined(s, body)
  <2> DEFINE parts == [i \in DOMAIN s.projections |-> InlinedProjection(s.projections[i], body)]
             ps == FlattenSeq(parts)
             p == [body EXCEPT !.projections = ps, !.distinct = s.distinct]
  <2>1. IsList(parts) /\ DOMAIN parts = DOMAIN s.projections
    <3>1. parts = [i \in DOMAIN s.projections |-> parts[i]] /\ IsList(s.projections)
      BY DEF IsQuery
    <3> HIDE DEF parts
    <3> QED BY <3>1, ListAlong
  <2>2. \A i \in DOMAIN parts : IsList(parts[i])
    <3>1. IsList(body.projections)
      BY DEF IsQuery, body
    <3>2. \A x : IsList(<<x>>)
      BY DEF IsList, Range
    <3> QED BY <3>1, <3>2 DEF InlinedProjection
  <2> HIDE DEF parts
  <2>3. IsList(ps)
    BY <2>1, <2>2, FlattenRange
  <2> HIDE DEF ps
  <2>4. r = p
    BY <1>3 DEF Inlined, ps, parts
  <2>5. IsQuery(body) /\ body = [f \in Fields |-> body[f]] /\ s.distinct \in BOOLEAN
    BY DEF IsQuery, body
  <2>6. p = [f \in Fields |-> IF f = "distinct" THEN s.distinct
                              ELSE IF f = "projections" THEN ps ELSE body[f]]
    BY <2>5 DEF Fields
  <2> HIDE DEF p
  <2>7. /\ p = [f \in Fields |-> p[f]] /\ p.projections = ps /\ p.distinct = s.distinct
        /\ p.joins = body.joins /\ p.predicates = body.predicates /\ p.group_by = body.group_by
        /\ p.order_by = body.order_by /\ p.having = body.having /\ p.qualify = body.qualify
        /\ p.subquery = body.subquery
    BY <2>6 DEF Fields
  <2>8. IsQuery(p)
    BY <2>3, <2>5, <2>7 DEF IsQuery
  <2> QED BY <2>4, <2>7, <2>8 DEF body
<1>4. CASE r = ReadsTableOf(s, body)
  <2> DEFINE p == [s EXCEPT !.table = body.table, !.alias = BaseRelation(s)]
  <2>1. s = [f \in Fields |-> s[f]]
    BY DEF IsQuery
  <2>2. p = [f \in Fields |-> IF f = "alias" THEN BaseRelation(s)
                              ELSE IF f = "table" THEN body.table ELSE s[f]]
    BY <2>1 DEF Fields
  <2>3. r = p
    BY <1>4 DEF ReadsTableOf
  <2> HIDE DEF p
  <2>4. /\ p = [f \in Fields |-> p[f]] /\ p.projections = s.projections /\ p.distinct = s.distinct
        /\ p.joins = s.joins /\ p.predicates = s.predicates /\ p.group_by = s.group_by
        /\ p.order_by = s.order_by /\ p.having = s.having /\ p.qualify = s.qualify
        /\ p.subquery = s.subquery
    BY <2>2 DEF Fields
  <2>5. IsQuery(p)
    BY <2>4 DEF IsQuery
  <2> QED BY <2>3, <2>4, <2>5
<1> QED BY <1>1, <1>2, <1>3, <1>4

LEMMA OtherWith ==
  ASSUME NEW s, NEW x, IsSelect(s), NEW r, r = [s EXCEPT !.with = x]
  PROVE  /\ IsSelect(r) /\ r.with = x /\ r.subquery = s.subquery
         /\ \A n : AvoidsAll(s, n) => AvoidsAll(r, n)
<1>1. IsQuery(s) /\ "with" \in Fields
  BY DEF IsSelect, Fields
<1>2. r.with = x /\ r = [g \in Fields |-> r[g]] /\ \A g \in Fields \ {"with"} : r[g] = s[g]
  BY <1>1, ChangedField
<1>3. /\ r.joins = s.joins /\ r.predicates = s.predicates /\ r.projections = s.projections
      /\ r.group_by = s.group_by /\ r.order_by = s.order_by /\ r.having = s.having
      /\ r.qualify = s.qualify /\ r.distinct = s.distinct /\ r.subquery = s.subquery
  BY <1>2 DEF Fields
<1>4. IsQuery(r)
  BY <1>1, <1>2, <1>3 DEF IsQuery
<1>5. IsSelect(r)
  BY <1>3, <1>4 DEF IsSelect
<1> QED BY <1>2, <1>3, <1>5 DEF AvoidsAll, Avoids

LEMMA OtherSubquery ==
  ASSUME NEW s, NEW u, IsSelect(s), IsQuery(u),
         \A i \in DOMAIN u.predicates : "op" \in DOMAIN u.predicates[i],
         NEW r, r = [s EXCEPT !.subquery = u]
  PROVE  /\ IsSelect(r) /\ r.with = s.with /\ r.subquery = u
         /\ \A n : AvoidsAll(s, n) /\ Avoids(u, n) => AvoidsAll(r, n)
<1>1. IsQuery(s) /\ "subquery" \in Fields
  BY DEF IsSelect, Fields
<1>2. r.subquery = u /\ r = [g \in Fields |-> r[g]] /\ \A g \in Fields \ {"subquery"} : r[g] = s[g]
  BY <1>1, ChangedField
<1>3. /\ r.joins = s.joins /\ r.predicates = s.predicates /\ r.projections = s.projections
      /\ r.group_by = s.group_by /\ r.order_by = s.order_by /\ r.having = s.having
      /\ r.qualify = s.qualify /\ r.distinct = s.distinct /\ r.with = s.with
  BY <1>2 DEF Fields
<1>4. IsQuery(r)
  BY <1>1, <1>2, <1>3 DEF IsQuery
<1>5. IsSelect(r)
  BY <1>2, <1>3, <1>4 DEF IsSelect
<1>6. ASSUME NEW n, AvoidsAll(s, n), Avoids(u, n) PROVE AvoidsAll(r, n)
  <2>1. Avoids(r, n)
    BY <1>3, <1>6 DEF AvoidsAll, Avoids
  <2> QED BY <1>2, <1>6, <2>1 DEF AvoidsAll
<1> QED BY <1>2, <1>3, <1>5, <1>6

(* The parse of a text reads the CTE in its FROM clauses only, too.        *)
LEMMA ParsedIs ==
  ASSUME NEW q, IsText(q), Parses(q)
  PROVE  /\ IsSelect(Parsed(q)) /\ Parsed(q).with = q.with
         /\ q.with # None => AvoidsAll(Parsed(q), q.with.name)
<1>1. CASE q.with = None
  <2>1. Parsed(q) = q
    BY <1>1 DEF Parsed
  <2> QED BY <1>1, <2>1 DEF IsText
<1>2. CASE q.with # None
  <2> DEFINE with == q.with
             n == q.with.name
             body == Body(with)
             found == Resolved(q, with)
             top == [found EXCEPT !.with = with]
             inner == Resolved(top.subquery, with)
             whole == [top EXCEPT !.subquery = inner]
  <2>1. body \in Range(with.bodies)
    <3>1. Len(with.bodies) = 1 /\ IsList(with.bodies)
      BY <1>2 DEF Parses, IsText
    <3>2. 1 \in DOMAIN with.bodies
      BY <3>1 DEF IsList
    <3> QED BY <3>2 DEF Body, Range
  <2>2. IsSelect(body) /\ AvoidsAll(body, n) /\ IsSelect(q) /\ AvoidsAll(q, n)
    BY <1>2, <2>1 DEF IsText
  <2>3. IsQuery(q) /\ IsQuery(Body(with))
    BY <2>2 DEF IsSelect
  <2>4. Parsed(q) = IF top.subquery = None THEN top ELSE whole
    BY <1>2 DEF Parsed
  <2> HIDE DEF n
  <2>5. /\ IsQuery(found)
        /\ \/ found.subquery = q.subquery /\ found.joins = q.joins /\ found.predicates = q.predicates
           \/ found.subquery = body.subquery /\ found.joins = body.joins
              /\ found.predicates = body.predicates
    <3> HIDE DEF with
    <3> QED BY <2>3, ResolvedIs
  <2> HIDE DEF found, body, with
  <2>6. IsSelect(found) /\ AvoidsAll(found, n)
    BY <2>2, <2>5 DEF IsSelect, AvoidsAll, Avoids
  <2>7. IsSelect(top) /\ top.with = with /\ AvoidsAll(top, n)
    BY <2>6, OtherWith
  <2> HIDE DEF top
  <2>8. CASE top.subquery = None
    BY <2>4, <2>7, <2>8 DEF with, n
  <2>9. CASE top.subquery # None
    <3>1. IsQuery(top.subquery)
      BY <2>7, <2>9 DEF IsSelect
    <3>2. /\ IsQuery(inner)
          /\ \/ inner.joins = top.subquery.joins /\ inner.predicates = top.subquery.predicates
             \/ inner.joins = body.joins /\ inner.predicates = body.predicates
      BY <2>3, <3>1, ResolvedIs DEF body
    <3> HIDE DEF inner
    <3>3. \A i \in DOMAIN inner.predicates : "op" \in DOMAIN inner.predicates[i]
      BY <2>2, <2>7, <2>9, <3>2 DEF IsSelect
    <3>4. Avoids(inner, n)
      BY <2>2, <2>7, <2>9, <3>2 DEF AvoidsAll, Avoids
    <3>5. IsSelect(whole) /\ whole.with = top.with /\ AvoidsAll(whole, n)
      BY <2>7, <3>2, <3>3, <3>4, OtherSubquery
    <3> HIDE DEF whole
    <3> QED BY <2>4, <2>7, <2>9, <3>5 DEF with, n
  <2> QED BY <2>8, <2>9
<1> QED BY <1>1, <1>2

LEMMA SuggestionForIs ==
  ASSUME NEW text, NEW cat
  PROVE  SuggestionFor(text, cat) = FirstSuggestion(Parsed(text), cat)
<1> DEFINE s == FirstSuggestion(Parsed(text), cat)
<1>1. {FirstSuggestion(q, cat) : q \in {Parsed(text)}} = {s}
  OBVIOUS
<1> HIDE DEF s
<1> QED BY <1>1 DEF SuggestionFor, s

(* Each way of a step leads from a text to a text.                         *)
LEMMA WholeRewriteIsText ==
  ASSUME NEW q, NEW cat, IsText(q), WholeRewrite(q, cat) # None
  PROVE  IsText(WholeRewrite(q, cat))
<1> DEFINE s == FirstSuggestion(Parsed(q), cat)
           r == [s EXCEPT !.with = Rendered(q).with]
<1>1. Parses(q) /\ s # None /\ WholeRewrite(q, cat) = r
  BY SuggestionForIs DEF WholeRewrite, WithOuter
<1>2. IsSelect(Parsed(q))
  BY <1>1, ParsedIs
<1>3. IsSelect(s)
  BY <1>1, <1>2, SuggestionIs DEF Follows
<1>4. Rendered(q).with = None
  <2>1. IsQuery(q) /\ "with" \in Fields
    BY DEF IsText, IsSelect, Fields
  <2> QED BY <2>1, ChangedField DEF Rendered
<1> HIDE DEF s
<1>5. IsSelect(r) /\ r.with = None
  BY <1>3, <1>4, OtherWith
<1> HIDE DEF r
<1> QED BY <1>1, <1>5 DEF IsText

LEMMA OuterIsText ==
  ASSUME NEW q, NEW cat, IsText(q), q.with # None, WithOuter(q, OuterSuggestion(q, cat)) # None
  PROVE  IsText(WithOuter(q, OuterSuggestion(q, cat)))
<1> DEFINE text == OuterInScope(q)
           s == FirstSuggestion(Parsed(text), cat)
           n == q.with.name
           r == [s EXCEPT !.with = q.with]
<1>1. Parses(text) /\ s # None /\ WithOuter(q, OuterSuggestion(q, cat)) = r
  BY SuggestionForIs DEF OuterSuggestion, WithOuter
<1>2. IsSelect(q) /\ AvoidsAll(q, n)
  BY DEF IsText
<1>3. IsSelect(Parsed(text)) /\ AvoidsAll(Parsed(text), n)
  <2>1. CASE text = q
    BY <1>1, <2>1, ParsedIs
  <2>2. CASE text = Rendered(q)
    <3>1. IsSelect(text) /\ text.with = None /\ AvoidsAll(text, n)
      BY <1>2, <2>2, OtherWith DEF Rendered
    <3>2. Parsed(text) = text
      BY <3>1 DEF Parsed
    <3> QED BY <3>1, <3>2
  <2> QED BY <2>1, <2>2 DEF OuterInScope
<1>4. IsSelect(s) /\ AvoidsAll(s, n)
  <2> HIDE DEF text, n
  <2> QED BY <1>1, <1>3, SuggestionIs DEF Follows
<1> HIDE DEF s
<1>5. IsSelect(r) /\ r.with = q.with /\ AvoidsAll(r, n)
  BY <1>4, OtherWith
<1> HIDE DEF r
<1> QED BY <1>1, <1>5 DEF IsText

LEMMA BodyIsText ==
  ASSUME NEW q, NEW cat, IsText(q), q.with # None, WithBody(q, CteSuggestion(q, cat)) # None
  PROVE  IsText(WithBody(q, CteSuggestion(q, cat)))
<1> DEFINE body == Body(q.with)
           n == q.with.name
           s == FirstSuggestion(Parsed(body), cat)
           with == Cte(n, <<s>>)
           r == [q EXCEPT !.with = with]
<1>1. Len(q.with.bodies) = 1 /\ s # None /\ WithBody(q, CteSuggestion(q, cat)) = [q EXCEPT !.with.bodies = <<s>>]
  BY SuggestionForIs DEF CteSuggestion, WithBody
<1>2. q.with = Cte(n, q.with.bodies) /\ IsList(q.with.bodies) /\ IsSelect(q) /\ AvoidsAll(q, n)
  BY DEF IsText
<1>3. body \in Range(q.with.bodies)
  <2>1. 1 \in DOMAIN q.with.bodies
    BY <1>1, <1>2 DEF IsList
  <2> QED BY <2>1 DEF Body, Range
<1>4. IsSelect(body) /\ body.with = None /\ AvoidsAll(body, n)
  BY <1>3 DEF IsText
<1>5. IsSelect(s) /\ s.with = None /\ AvoidsAll(s, n)
  <2>1. Parsed(body) = body
    BY <1>4 DEF Parsed
  <2> HIDE DEF body, n
  <2> QED BY <1>1, <1>4, <2>1, SuggestionIs DEF Follows
<1> HIDE DEF s
<1>6. [q EXCEPT !.with.bodies = <<s>>] = r
  <2>1. [q.with EXCEPT !.bodies = <<s>>] = with
    BY <1>2 DEF Cte
  <2>2. [q EXCEPT !.with.bodies = <<s>>] = [q EXCEPT !.with = [q.with EXCEPT !.bodies = <<s>>]]
    OBVIOUS
  <2> QED BY <2>1, <2>2
<1>7. with.name = n /\ with.bodies = <<s>> /\ IsList(<<s>>) /\ Range(<<s>>) = {s}
  BY DEF Cte, IsList, Range
<1> HIDE DEF with, n
<1>8. IsSelect(r) /\ r.with = with /\ AvoidsAll(r, n)
  BY <1>2, OtherWith
<1> HIDE DEF r
<1>9. with = Cte(with.name, with.bodies)
  BY <1>7 DEF with
<1>10. IsList(with.bodies) /\ \A b \in Range(with.bodies) : b = s
  BY <1>7
<1>11. IsText(r)
  BY <1>5, <1>7, <1>8, <1>9, <1>10 DEF IsText
<1> QED BY <1>1, <1>6, <1>11

(* The next step of a chain is one of the three.                           *)
LEMMA FirstRewriteIs ==
  ASSUME NEW options, IsList(options)
  PROVE  /\ FirstRewrite(options) # None => FirstRewrite(options) \in Range(options)
         /\ FirstRewrite(options) = None => \A i \in DOMAIN options : options[i] = None
<1> DEFINE found == {i \in DOMAIN options : options[i] # None}
           first == CHOOSE i \in found : \A j \in found : i <= j
<1>1. FirstRewrite(options) = IF found = {} THEN None ELSE options[first]
  BY DEF FirstRewrite
<1>2. found \subseteq Nat
  BY ListOf DEF IsList
<1>3. found # {} => first \in found
  <2> HIDE DEF found
  <2>1. found # {} => \E i \in found : \A j \in found : i <= j
    BY <1>2, LeastNumber
  <2> QED BY <2>1
<1> HIDE DEF first
<1> QED BY <1>1, <1>3 DEF Range

LEMMA NextStepIs ==
  ASSUME NEW q, NEW cat, IsText(q)
  PROVE  /\ NextProvenStep(q, cat) # None => IsText(NextProvenStep(q, cat))
         /\ NextProvenStep(q, cat) = None => WholeRewrite(q, cat) = None
<1> DEFINE whole == WholeRewrite(q, cat)
           fragments == SubtreeRewrites(q, cat)
           options == <<whole>> \o fragments
           r == FirstRewrite(options)
<1>1. /\ IsList(fragments)
      /\ \A x \in Range(fragments) :
           /\ q.with # None
           /\ x \in {WithBody(q, CteSuggestion(q, cat)), WithOuter(q, OuterSuggestion(q, cat))}
  <2>1. IsList(<<>>) /\ Range(<<>>) = {}
    BY DEF IsList, Range
  <2>2. \A x, y : IsList(<<x, y>>) /\ Range(<<x, y>>) = {x, y}
    <3>1. TAKE x, y
    <3>2. <<x, y>> \in Seq({x, y}) /\ DOMAIN <<x, y>> = {1, 2}
      OBVIOUS
    <3>3. Range(<<x, y>>) = {x, y}
      BY <3>2 DEF Range
    <3> QED BY <3>2, <3>3 DEF IsList
  <2> QED BY <2>1, <2>2 DEF SubtreeRewrites
<1>2. IsList(<<whole>>) /\ Range(<<whole>>) = {whole}
  <2> HIDE DEF whole
  <2> QED BY DEF IsList, Range
<1> HIDE DEF whole, fragments
<1>3. IsList(options) /\ Range(options) = {whole} \cup Range(fragments)
  BY <1>1, <1>2, ListsTogether
<1>4. NextProvenStep(q, cat) = r
  BY DEF NextProvenStep, whole, fragments
<1> HIDE DEF options
<1>5. /\ r # None => r \in Range(options)
      /\ r = None => \A i \in DOMAIN options : options[i] = None
  BY <1>3, FirstRewriteIs
<1> HIDE DEF r
<1>6. ASSUME r # None PROVE IsText(r)
  <2>1. \/ r = WholeRewrite(q, cat)
        \/ q.with # None /\ r = WithBody(q, CteSuggestion(q, cat))
        \/ q.with # None /\ r = WithOuter(q, OuterSuggestion(q, cat))
    BY <1>1, <1>3, <1>5, <1>6 DEF whole
  <2> QED BY <1>6, <2>1, WholeRewriteIsText, BodyIsText, OuterIsText
<1>7. ASSUME r = None PROVE whole = None
  <2>1. whole \in Range(options)
    BY <1>3
  <2> QED BY <1>5, <1>7, <2>1 DEF Range
<1> QED BY <1>4, <1>6, <1>7 DEF whole

(* Where the whole query has no rewrite, none of its matches is left.      *)
LEMMA NoStepNoMatch ==
  ASSUME NEW q, NEW cat, IsText(q), Parses(q), ~IsQuery(None), WholeRewrite(q, cat) = None
  PROVE  AvailableMatches(Parsed(q), cat) = {}
<1> DEFINE s == FirstSuggestion(Parsed(q), cat)
           r == [s EXCEPT !.with = Rendered(q).with]
<1>1. IsSelect(Parsed(q)) /\ (Parsed(q).with # None => AvoidsAll(Parsed(q), Parsed(q).with.name))
  BY ParsedIs
<1>2. s = None
  <2>1. SUFFICES ASSUME s # None PROVE FALSE
    OBVIOUS
  <2>2. IsSelect(s)
    BY <1>1, <2>1, SuggestionIs DEF Follows
  <2>3. r = None
    BY <2>1, SuggestionForIs DEF WholeRewrite, WithOuter
  <2> HIDE DEF s
  <2>4. IsSelect(r)
    BY <2>2, OtherWith
  <2> QED BY <2>3, <2>4 DEF IsSelect
<1> QED BY <1>1, <1>2, NoSuggestionNoMatch

StaysText ==
  IsText(asked) =>
    IsText(shown) /\ (status = "FIXED_POINT" => WholeRewrite(shown, catalog) = None)

LEMMA ChainStaysText == ChainSpec => []StaysText
<1>1. ChainInit => StaysText
  BY DEF ChainInit, StaysText
<1>2. StaysText /\ [ChainNext]_chainVars => StaysText'
  <2> SUFFICES ASSUME StaysText, [ChainNext]_chainVars PROVE StaysText'
    OBVIOUS
  <2>1. CASE Advance
    <3> DEFINE r == NextProvenStep(shown, catalog)
    <3>1. /\ r # None /\ status = "running" /\ UNCHANGED <<asked, catalog>>
          /\ \/ status' = "CYCLE" /\ UNCHANGED shown
             \/ shown' = r /\ UNCHANGED status
      BY <2>1 DEF Advance
    <3> HIDE DEF r
    <3>2. status' # "FIXED_POINT" /\ (shown' = shown \/ (shown' = r /\ r # None))
      BY <3>1
    <3> QED BY <3>1, <3>2, NextStepIs DEF StaysText, r
  <2>2. CASE Settle
    <3>1. UNCHANGED <<asked, shown, catalog>> /\ NextProvenStep(shown, catalog) = None
      BY <2>2 DEF Settle
    <3> QED BY <3>1, NextStepIs DEF StaysText
  <2>3. CASE Stop
    <3>1. UNCHANGED <<asked, shown, catalog>> /\ status' # "FIXED_POINT"
      BY <2>3 DEF Stop
    <3> QED BY <3>1 DEF StaysText
  <2>4. CASE UNCHANGED chainVars
    BY <2>4 DEF chainVars, StaysText
  <2> QED BY <2>1, <2>2, <2>3, <2>4 DEF ChainNext
<1> QED BY <1>1, <1>2, PTL DEF ChainSpec

(* Whatever the text of a chain, with joins, a subquery and a CTE, no rule *)
(* has a match where the chain reports a fixed point, although the chain   *)
(* looks for rewrites with apply() and the environment with matches().     *)
(* The text may not read its CTE in a join or an EXISTS: in an EXISTS the  *)
(* filter rules would match what they do not apply                         *)
(* (not_null_filter.py:85, :149).                                          *)
THEOREM FixedPointsAreFinal ==
  ASSUME ~IsQuery(None)
  PROVE  ChainSpec => [](IsText(asked) => FixedPointOffersNothing)
<1>1. StaysText => (IsText(asked) => FixedPointOffersNothing)
  BY NoStepNoMatch DEF StaysText, FixedPointOffersNothing
<1> QED BY <1>1, ChainStaysText, PTL

-----------------------------------------------------------------------------
(* What there is left to remove.                                           *)
HasProjections(q) == \A i \in DOMAIN q.projections : IsProjection(q.projections[i])

(* What the parser makes of a text.                                        *)
IsIR(q) ==
  /\ IsSelect(q) /\ HasProjections(q)
  /\ q.subquery # None => HasProjections(q.subquery)

Pieces(ps) == [i \in DOMAIN ps |-> Branches(ps[i])]

LEMMA BranchesAreCounted ==
  ASSUME NEW p, IsProjection(p)
  PROVE  Branches(p) \in Nat
<1>1. CASE p.kind = "case"
  <2>1. Len(p.branches) \in Nat
    BY <1>1 DEF IsProjection, IsList
  <2> QED BY <1>1, <2>1 DEF Branches
<1>2. CASE p.kind # "case"
  BY <1>2 DEF Branches
<1> QED BY <1>1, <1>2

LEMMA PiecesAre ==
  ASSUME NEW ps, IsList(ps), \A i \in DOMAIN ps : IsProjection(ps[i])
  PROVE  /\ DOMAIN ps = 1 .. Len(ps) /\ Len(ps) \in Nat
         /\ Pieces(ps) \in [1 .. Len(ps) -> Int]
         /\ \A i \in DOMAIN ps : Pieces(ps)[i] = Branches(ps[i]) /\ Branches(ps[i]) \in Nat
         /\ Total(Pieces(ps)) \in Nat
<1> DEFINE n == Len(ps)
           zeros == [i \in 1 .. n |-> 0]
<1>1. DOMAIN ps = 1 .. n /\ n \in Nat
  BY ListOf DEF IsList
<1>2. \A i \in DOMAIN ps : Branches(ps[i]) \in Nat
  BY BranchesAreCounted
<1>3. \A i \in DOMAIN ps : Pieces(ps)[i] = Branches(ps[i])
  BY DEF Pieces
<1>4. Pieces(ps) \in [1 .. n -> Int]
  BY <1>1, <1>2 DEF Pieces
<1>5. zeros \in [1 .. n -> Int] /\ \A i \in 1 .. n : zeros[i] = 0
  OBVIOUS
<1> HIDE DEF zeros, n
<1>6. Total(zeros) = 0
  BY <1>1, <1>5, TotalOfZeros
<1>7. \A i \in 1 .. n : zeros[i] <= Pieces(ps)[i]
  BY <1>1, <1>2, <1>3, <1>5
<1>8. Total(Pieces(ps)) \in Int /\ Total(zeros) <= Total(Pieces(ps))
  BY <1>1, <1>4, <1>5, <1>7, TotalOfLess
<1>9. Total(Pieces(ps)) \in Nat
  BY <1>6, <1>8
<1> QED BY <1>1, <1>2, <1>3, <1>4, <1>9 DEF n

LEMMA OwnIs ==
  ASSUME NEW q, IsQuery(q), HasProjections(q)
  PROVE  /\ Own(q) = 3 * Len(q.joins) + Len(q.predicates) + (IF q.distinct THEN 1 ELSE 0)
                     + Len(q.group_by) + Total(Pieces(q.projections))
         /\ Len(q.joins) \in Nat /\ Len(q.predicates) \in Nat /\ Len(q.group_by) \in Nat
         /\ Total(Pieces(q.projections)) \in Nat /\ q.distinct \in BOOLEAN
         /\ Own(q) \in Nat
<1>1. /\ Len(q.joins) \in Nat /\ Len(q.predicates) \in Nat /\ Len(q.group_by) \in Nat
      /\ q.distinct \in BOOLEAN
  BY DEF IsQuery, IsList
<1>2. Total(Pieces(q.projections)) \in Nat
  BY PiecesAre DEF IsQuery, HasProjections
<1>3. Own(q) = 3 * Len(q.joins) + Len(q.predicates) + (IF q.distinct THEN 1 ELSE 0)
               + Len(q.group_by) + Total(Pieces(q.projections))
  BY DEF Own, Pieces
<1>4. Own(q) \in Nat
  <2> DEFINE j == Len(q.joins)
             w == Len(q.predicates)
             d == IF q.distinct THEN 1 ELSE 0
             g == Len(q.group_by)
             t == Total(Pieces(q.projections))
  <2>1. j \in Nat /\ w \in Nat /\ d \in Nat /\ g \in Nat /\ t \in Nat /\ Own(q) = 3 * j + w + d + g + t
    BY <1>1, <1>2, <1>3
  <2> HIDE DEF j, w, d, g, t
  <2> QED BY <2>1
<1> QED BY <1>1, <1>2, <1>3, <1>4

(* Something went and nothing came, but for a predicate in place of a join.*)
IsLess(r, q) ==
  /\ Len(r.joins) <= Len(q.joins)
  /\ Len(r.predicates) + Len(r.joins) <= Len(q.predicates) + Len(q.joins)
  /\ r.distinct => q.distinct
  /\ Len(r.group_by) <= Len(q.group_by)
  /\ Total(Pieces(r.projections)) <= Total(Pieces(q.projections))
  /\ \/ Len(r.joins) < Len(q.joins)
     \/ Len(r.predicates) < Len(q.predicates)
     \/ q.distinct /\ ~r.distinct
     \/ Len(r.group_by) < Len(q.group_by)
     \/ Total(Pieces(r.projections)) < Total(Pieces(q.projections))

LEMMA LessWeighsLess ==
  ASSUME NEW q, NEW r, IsIR(q), IsSelect(r), HasProjections(r), r.subquery = q.subquery, IsLess(r, q)
  PROVE  IsIR(r) /\ Weight(r) < Weight(q)
<1> DEFINE rest == IF q.subquery = None THEN 0 ELSE 1 + Own(q.subquery)
<1>1. IsQuery(q) /\ IsQuery(r) /\ HasProjections(q)
  BY DEF IsIR, IsSelect
<1>2. rest \in Nat
  <2>1. CASE q.subquery = None
    BY <2>1
  <2>2. CASE q.subquery # None
    <3>1. IsQuery(q.subquery) /\ HasProjections(q.subquery)
      BY <2>2 DEF IsIR, IsSelect
    <3>2. Own(q.subquery) \in Nat
      BY <3>1, OwnIs
    <3> QED BY <2>2, <3>2
  <2> QED BY <2>1, <2>2
<1>3. Weight(q) = Own(q) + rest /\ Weight(r) = Own(r) + rest
  BY DEF Weight
<1>4. Own(q) \in Nat /\ Own(r) \in Nat
  BY <1>1, OwnIs
<1>5. Own(r) < Own(q)
  <2> DEFINE jq == Len(q.joins)
             jr == Len(r.joins)
             wq == Len(q.predicates)
             wr == Len(r.predicates)
             gq == Len(q.group_by)
             gr == Len(r.group_by)
             tq == Total(Pieces(q.projections))
             tr == Total(Pieces(r.projections))
             dq == IF q.distinct THEN 1 ELSE 0
             dr == IF r.distinct THEN 1 ELSE 0
  <2>1. /\ Own(q) = 3 * jq + wq + dq + gq + tq /\ jq \in Nat /\ wq \in Nat /\ gq \in Nat /\ tq \in Nat
        /\ Own(r) = 3 * jr + wr + dr + gr + tr /\ jr \in Nat /\ wr \in Nat /\ gr \in Nat /\ tr \in Nat
    BY <1>1, OwnIs
  <2>2. dq \in {0, 1} /\ dr \in {0, 1} /\ dr <= dq /\ (q.distinct /\ ~r.distinct => dr < dq)
    BY DEF IsLess
  <2>3. /\ jr <= jq /\ wr + jr <= wq + jq /\ gr <= gq /\ tr <= tq
        /\ jr < jq \/ wr < wq \/ dr < dq \/ gr < gq \/ tr < tq
    BY <2>2 DEF IsLess
  <2> HIDE DEF jq, jr, wq, wr, gq, gr, tq, tr, dq, dr
  <2> QED BY <2>1, <2>2, <2>3
<1> HIDE DEF rest
<1> QED BY <1>2, <1>3, <1>4, <1>5 DEF IsIR

(* Rule by rule.                                                           *)
LEMMA JoinRulesShrink ==
  ASSUME NEW q, NEW cat, IsIR(q),
         NEW m \in RemoveUnusedLeftJoin(q, cat) \cup RemoveForeignKeyInnerJoin(q, cat)
  PROVE  IsIR(m[2]) /\ Weight(m[2]) < Weight(q)
<1> DEFINE r == [q EXCEPT !.joins = <<>>]
<1>1. \E allowed : m \in Proven(allowed, 1, r) /\ (allowed => Len(q.joins) = 1)
  <2> HIDE DEF r
  <2>1. \A kind : OneJoin(q, kind) => Len(q.joins) = 1
    BY DEF OneJoin
  <2> QED BY <2>1 DEF RemoveUnusedLeftJoin, RemoveForeignKeyInnerJoin, r
<1>2. IsSelect(q) /\ IsQuery(q) /\ HasProjections(q)
  BY DEF IsIR, IsSelect
<1>3. Follows(q, r)
  BY <1>2, JoinRemovalFollows
<1>4. r.joins = <<>> /\ \A g \in Fields \ {"joins"} : r[g] = q[g]
  BY <1>2, ChangedField DEF Fields
<1> HIDE DEF r
<1>5. m[2] = r /\ Len(q.joins) = 1
  BY <1>1 DEF Proven
<1>6. /\ r.predicates = q.predicates /\ r.distinct = q.distinct /\ r.group_by = q.group_by
      /\ r.projections = q.projections /\ r.subquery = q.subquery
  BY <1>4 DEF Fields
<1>7. IsSelect(r) /\ HasProjections(r)
  BY <1>2, <1>3, <1>6 DEF Follows, HasProjections
<1>8. IsLess(r, q)
  <2>1. /\ Len(q.predicates) \in Nat /\ Len(q.group_by) \in Nat
        /\ Total(Pieces(q.projections)) \in Nat
    BY <1>2, OwnIs
  <2>2. Len(r.joins) = 0
    BY <1>4
  <2> QED BY <1>5, <1>6, <2>1, <2>2 DEF IsLess
<1> QED BY <1>5, <1>6, <1>7, <1>8, LessWeighsLess

LEMMA ExistsRuleShrinks ==
  ASSUME NEW q, NEW cat, IsIR(q), NEW m \in RewriteJoinDistinctToExists(q, cat)
  PROVE  IsIR(m[2]) /\ Weight(m[2]) < Weight(q)
<1> DEFINE r == ExistsForJoin(q, q.joins[1])
           w == Exists(q.joins[1].table, q.joins[1].on)
           ws == Append(q.predicates, w)
<1>1. \E allowed : m \in Proven(allowed, 1, r) /\ (allowed => Len(q.joins) = 1 /\ q.distinct)
  <2> HIDE DEF r
  <2>1. OneJoin(q, "INNER") => Len(q.joins) = 1
    BY DEF OneJoin
  <2> QED BY <2>1 DEF RewriteJoinDistinctToExists, r
<1>2. IsSelect(q) /\ IsQuery(q) /\ HasProjections(q) /\ IsList(q.predicates)
  BY DEF IsIR, IsSelect, IsQuery
<1>3. Len(q.joins) = 1 => Follows(q, r)
  BY <1>2, ExistsFollows
<1>4. r = [q EXCEPT !.distinct = FALSE, !.joins = <<>>, !.predicates = ws]
  BY DEF ExistsForJoin
<1> HIDE DEF w
<1>5. Len(ws) = Len(q.predicates) + 1
  BY <1>2 DEF IsList
<1> HIDE DEF ws, r
<1>6. q = [f \in Fields |-> q[f]]
  BY <1>2 DEF IsQuery
<1>7. r = [f \in Fields |-> IF f = "predicates" THEN ws ELSE IF f = "joins" THEN <<>>
                            ELSE IF f = "distinct" THEN FALSE ELSE q[f]]
  BY <1>4, <1>6 DEF Fields
<1>8. m[2] = r /\ Len(q.joins) = 1 /\ q.distinct
  BY <1>1 DEF Proven
<1>9. /\ r.predicates = ws /\ r.joins = <<>> /\ ~r.distinct /\ r.group_by = q.group_by
      /\ r.projections = q.projections /\ r.subquery = q.subquery
  BY <1>7 DEF Fields
<1>10. IsSelect(r) /\ HasProjections(r)
  BY <1>2, <1>3, <1>8, <1>9 DEF Follows, HasProjections
<1>11. IsLess(r, q)
  <2>1. /\ Len(q.predicates) \in Nat /\ Len(q.group_by) \in Nat
        /\ Total(Pieces(q.projections)) \in Nat
    BY <1>2, OwnIs
  <2>2. Len(r.joins) = 0 /\ Len(r.predicates) = Len(q.predicates) + 1
    BY <1>5, <1>9
  <2> QED BY <1>8, <1>9, <2>1, <2>2 DEF IsLess
<1> QED BY <1>8, <1>9, <1>10, <1>11, LessWeighsLess

LEMMA WithoutIsShorter ==
  ASSUME NEW s, IsList(s), NEW i \in DOMAIN s
  PROVE  Len(RemoveAt(s, i)) < Len(s) /\ Len(RemoveAt(s, i)) \in Nat
<1> DEFINE T == Range(s)
           a == SubSeq(s, 1, i - 1)
           b == SubSeq(s, i + 1, Len(s))
<1>1. s \in Seq(T) /\ i \in 1 .. Len(s) /\ Len(s) \in Nat
  BY ListOf DEF IsList
<1> HIDE DEF T
<1>2. a \in Seq(T) /\ Len(a) = i - 1 /\ b \in Seq(T) /\ Len(b) = Len(s) - i
  BY <1>1
<1>3. RemoveAt(s, i) = a \o b
  BY DEF RemoveAt
<1> HIDE DEF a, b
<1>4. Len(a \o b) = Len(a) + Len(b)
  BY <1>2
<1> QED BY <1>1, <1>2, <1>3, <1>4

LEMMA FilterRulesShrink ==
  ASSUME NEW q, NEW cat, IsIR(q), NEW rule, NEW m \in RemoveRedundant(rule, q, cat)
  PROVE  IsIR(m[2]) /\ Weight(m[2]) < Weight(q)
<1> DEFINE t == FilteredTable(q, cat)
<1>1. PICK i \in DOMAIN q.predicates :
        m \in Proven(t # None /\ Trusted(rule, q.predicates[i], q, t),
                     i, [q EXCEPT !.predicates = RemoveAt(@, i)])
  BY DEF RemoveRedundant
<1> DEFINE ws == RemoveAt(q.predicates, i)
           r == [q EXCEPT !.predicates = ws]
<1>2. m[2] = r
  BY <1>1 DEF Proven
<1>3. IsSelect(q) /\ IsQuery(q) /\ HasProjections(q) /\ IsList(q.predicates)
  BY DEF IsIR, IsSelect, IsQuery
<1>4. IsList(ws) /\ Range(ws) \subseteq Range(q.predicates)
  BY <1>3, ListWithout
<1>5. Len(ws) < Len(q.predicates) /\ Len(ws) \in Nat
  BY <1>3, WithoutIsShorter
<1> HIDE DEF ws
<1>6. Follows(q, r)
  BY <1>3, <1>4, FewerPredicatesFollow
<1>7. r.predicates = ws /\ AgreeBut("predicates", q, r)
  BY <1>3, <1>4, ChangedPredicates
<1> HIDE DEF r
<1>8. /\ r.joins = q.joins /\ r.distinct = q.distinct /\ r.group_by = q.group_by
      /\ r.projections = q.projections /\ r.subquery = q.subquery
  BY <1>7 DEF AgreeBut, Fields
<1>9. IsSelect(r) /\ HasProjections(r)
  BY <1>3, <1>6, <1>8 DEF Follows, HasProjections
<1>10. IsLess(r, q)
  <2>1. /\ Len(q.predicates) \in Nat /\ Len(q.group_by) \in Nat /\ Len(q.joins) \in Nat
        /\ Total(Pieces(q.projections)) \in Nat
    BY <1>3, OwnIs
  <2>2. Len(r.predicates) < Len(q.predicates) /\ Len(r.predicates) \in Nat
    BY <1>5, <1>7
  <2> QED BY <1>8, <2>1, <2>2 DEF IsLess
<1> QED BY <1>2, <1>8, <1>9, <1>10, LessWeighsLess

LEMMA DistinctRuleShrinks ==
  ASSUME NEW q, NEW cat, IsIR(q), NEW m \in RemoveRedundantDistinct(q, cat)
  PROVE  IsIR(m[2]) /\ Weight(m[2]) < Weight(q)
<1> DEFINE r == [q EXCEPT !.distinct = FALSE]
<1>1. \E allowed : m \in Proven(allowed, 1, r) /\ (allowed => q.distinct)
  <2> HIDE DEF r
  <2> QED BY DEF RemoveRedundantDistinct, r
<1>2. IsSelect(q) /\ IsQuery(q) /\ HasProjections(q)
  BY DEF IsIR, IsSelect
<1>3. Follows(q, r)
  BY <1>2, DistinctRemovalFollows
<1>4. r.distinct = FALSE /\ AgreeBut("distinct", q, r)
  BY <1>2, ChangedDistinct
<1> HIDE DEF r
<1>5. m[2] = r /\ q.distinct
  BY <1>1 DEF Proven
<1>6. /\ r.predicates = q.predicates /\ r.joins = q.joins /\ r.group_by = q.group_by
      /\ r.projections = q.projections /\ r.subquery = q.subquery
  BY <1>4 DEF AgreeBut, Fields
<1>7. IsSelect(r) /\ HasProjections(r)
  BY <1>2, <1>3, <1>6 DEF Follows, HasProjections
<1>8. IsLess(r, q)
  <2>1. /\ Len(q.predicates) \in Nat /\ Len(q.group_by) \in Nat /\ Len(q.joins) \in Nat
        /\ Total(Pieces(q.projections)) \in Nat
    BY <1>2, OwnIs
  <2> QED BY <1>4, <1>5, <1>6, <2>1 DEF IsLess
<1> QED BY <1>5, <1>6, <1>7, <1>8, LessWeighsLess

(* One projection becomes a lighter one.                                   *)
LEMMA LighterProjectionShrinks ==
  ASSUME NEW q, IsIR(q), NEW i \in DOMAIN q.projections, NEW c, IsProjection(c),
         Branches(c) < Branches(q.projections[i]),
         NEW r, r = [q EXCEPT !.projections = [q.projections EXCEPT ![i] = c]]
  PROVE  IsIR(r) /\ Weight(r) < Weight(q)
<1> DEFINE old == q.projections
           ps == [old EXCEPT ![i] = c]
           n == Len(old)
           d == Branches(c) - Branches(old[i])
<1>1. IsSelect(q) /\ IsQuery(q) /\ HasProjections(q) /\ IsList(old)
  BY DEF IsIR, IsSelect, IsQuery
<1>2. /\ IsList(ps) /\ DOMAIN ps = DOMAIN old /\ ps[i] = c
      /\ \A k \in DOMAIN old : k # i => ps[k] = old[k]
  BY <1>1, ListWithChange
<1> HIDE DEF ps
<1>3. r = [q EXCEPT !.projections = ps]
  BY DEF ps
<1>4. r.projections = ps /\ AgreeBut("projections", q, r) /\ Follows(q, r)
  <2>1. Follows(q, r)
    BY <1>1, <1>2, <1>3, OtherProjectionsFollow
  <2>2. "projections" \in Fields
    BY DEF Fields
  <2>3. /\ r["projections"] = ps
        /\ \A f \in Fields \ {"projections"} : r[f] = q[f]
    BY <1>1, <1>3, <2>2, ChangedField
  <2> QED BY <2>1, <2>3 DEF AgreeBut
<1>5. \A k \in DOMAIN old : IsProjection(old[k])
  BY <1>1 DEF HasProjections
<1>6. \A k \in DOMAIN ps : IsProjection(ps[k])
  BY <1>2, <1>5
<1>7. /\ DOMAIN old = 1 .. n /\ n \in Nat /\ Pieces(old) \in [1 .. n -> Int]
      /\ \A k \in DOMAIN old : Pieces(old)[k] = Branches(old[k]) /\ Branches(old[k]) \in Nat
      /\ Total(Pieces(old)) \in Nat
  BY <1>1, <1>5, PiecesAre
<1>8. /\ DOMAIN ps = 1 .. Len(ps) /\ Len(ps) \in Nat /\ Pieces(ps) \in [1 .. Len(ps) -> Int]
      /\ \A k \in DOMAIN ps : Pieces(ps)[k] = Branches(ps[k]) /\ Branches(ps[k]) \in Nat
      /\ Total(Pieces(ps)) \in Nat
  BY <1>2, <1>6, PiecesAre
<1>9. /\ r.predicates = q.predicates /\ r.joins = q.joins /\ r.group_by = q.group_by
      /\ r.distinct = q.distinct /\ r.subquery = q.subquery
  BY <1>4 DEF AgreeBut, Fields
<1> HIDE DEF old
<1>10. Total(Pieces(ps)) < Total(Pieces(old))
  <2> DEFINE a == Pieces(old)
             b == Pieces(ps)
  <2>1. Len(ps) = n
    BY <1>2, <1>7, <1>8
  <2>2. i \in 1 .. n /\ d \in Int /\ d < 0 /\ b[i] = a[i] + d
    <3>1. i \in DOMAIN old /\ Branches(c) < Branches(old[i])
      BY DEF old
    <3>2. a[i] = Branches(old[i]) /\ b[i] = Branches(c) /\ Branches(c) \in Nat /\ Branches(old[i]) \in Nat
      BY <1>2, <1>7, <1>8, <3>1
    <3> HIDE DEF a, b
    <3> QED BY <1>7, <3>1, <3>2
  <2>3. \A k \in 1 .. n : k # i => b[k] = a[k]
    BY <1>2, <1>7, <1>8
  <2>4. a \in [1 .. n -> Int] /\ b \in [1 .. n -> Int]
    BY <1>7, <1>8, <2>1
  <2> HIDE DEF a, b, n, d
  <2>5. ChangedAt(a, b, n, i, d)
    BY <1>7, <2>2, <2>3, <2>4 DEF ChangedAt
  <2>6. Total(b) = Total(a) + d
    BY <2>5, TotalOfChange
  <2>7. Total(a) \in Nat
    BY <1>7 DEF a
  <2>8. Total(b) < Total(a)
    BY <2>2, <2>6, <2>7
  <2> QED BY <2>8 DEF a, b
<1>11. IsSelect(r) /\ HasProjections(r)
  BY <1>4, <1>6 DEF Follows, HasProjections
<1>12. IsLess(r, q)
  <2>1. Len(q.predicates) \in Nat /\ Len(q.group_by) \in Nat /\ Len(q.joins) \in Nat
    BY <1>1, OwnIs
  <2>2. Total(Pieces(r.projections)) < Total(Pieces(q.projections))
    BY <1>4, <1>10 DEF old
  <2>3. Total(Pieces(r.projections)) \in Nat /\ Total(Pieces(q.projections)) \in Nat
    BY <1>4, <1>7, <1>8 DEF old
  <2> QED BY <1>9, <2>1, <2>2, <2>3 DEF IsLess
<1> QED BY <1>9, <1>11, <1>12, LessWeighsLess

LEMMA SimplifiedCaseIsLighter ==
  ASSUME NEW q, NEW p, NEW t, IsProjection(p), p.kind = "case", SimplifiedCase(p, q, t) # p
  PROVE  /\ IsProjection(SimplifiedCase(p, q, t))
         /\ Branches(SimplifiedCase(p, q, t)) < Branches(p)
<1> DEFINE c == SimplifiedCase(p, q, t)
           outcome(i) == ConditionVerdict(p.branches[i].when, q, t)
           first == {i \in DOMAIN p.branches : outcome(i) = "always_true"
                       /\ \A j \in 1 .. i - 1 : outcome(j) = "always_false"}
           kept == {b \in Range(p.branches) : ConditionVerdict(b.when, q, t) # "always_false"}
           ks == Among(p.branches, kept)
           d == p.branches[CHOOSE i \in first : TRUE].then
<1>1. p = CaseOf(p.branches, p.default, p.alias) /\ IsList(p.branches)
  BY DEF IsProjection
<1>2. c.kind = "case" /\ IsProjection(c)
  BY <1>1, SimplifiedCaseIs
<1>3. c = IF first # {} THEN CaseOf(<<>>, d, p.alias) ELSE CaseOf(ks, p.default, p.alias)
  BY DEF SimplifiedCase
<1>4. first # {} => p.branches # <<>>
  BY <1>1
<1>5. Len(ks) \in Nat /\ (ks # p.branches => Len(ks) < Len(p.branches))
  BY <1>1, AmongIsShorter
<1>6. Len(p.branches) \in Nat /\ (p.branches # <<>> => Len(p.branches) > 0)
  BY <1>1 DEF IsList
<1> HIDE DEF c, first, ks, d
<1>7. Len(c.branches) < Len(p.branches) /\ Len(c.branches) \in Nat
  <2>1. CASE first # {}
    <3>1. c.branches = <<>>
      BY <1>3, <2>1 DEF CaseOf
    <3> QED BY <1>4, <1>6, <2>1, <3>1
  <2>2. CASE first = {}
    <3>1. c = CaseOf(ks, p.default, p.alias) /\ c # p
      BY <1>3, <2>2 DEF c
    <3>2. c.branches = ks
      BY <3>1 DEF CaseOf
    <3>3. ks # p.branches
      BY <1>1, <3>1
    <3> QED BY <1>5, <3>2, <3>3
  <2> QED BY <2>1, <2>2
<1>8. Branches(c) = 1 + Len(c.branches) /\ Branches(p) = 1 + Len(p.branches)
  BY <1>2, <1>6, <1>7 DEF Branches
<1>9. Branches(c) < Branches(p)
  BY <1>6, <1>7, <1>8
<1> QED BY <1>2, <1>9 DEF c

LEMMA CaseRuleShrinks ==
  ASSUME NEW q, NEW cat, IsIR(q), NEW m \in SimplifyAcceptedValuesCase(q, cat)
  PROVE  IsIR(m[2]) /\ Weight(m[2]) < Weight(q)
<1> DEFINE t == TableOf(cat, TableName(q))
<1>1. PICK i \in DOMAIN q.projections : \E allowed :
        /\ m \in Proven(allowed, i, [q EXCEPT !.projections[i] = SimplifiedCase(q.projections[i], q, t)])
        /\ allowed => q.projections[i].kind = "case"
                      /\ SimplifiedCase(q.projections[i], q, t) # q.projections[i]
  <2>1. PICK i \in DOMAIN q.projections :
          LET p == q.projections[i] IN
          m \in Proven(/\ p.kind = "case"
                       /\ q.joins = <<>> /\ q.group_by = <<>> /\ ~q.having /\ ~q.qualify
                       /\ ~ReferencesCte(q)
                       /\ t # None
                       /\ SimplifiedCase(p, q, t) # p,
                       i, [q EXCEPT !.projections[i] = SimplifiedCase(p, q, t)])
    BY DEF SimplifyAcceptedValuesCase
  <2> QED BY <2>1
<1> DEFINE p == q.projections[i]
           c == SimplifiedCase(p, q, t)
           r == [q EXCEPT !.projections = [q.projections EXCEPT ![i] = c]]
<1>2. \E allowed : m \in Proven(allowed, i, r) /\ (allowed => p.kind = "case" /\ c # p)
  BY <1>1
<1> HIDE DEF r
<1>3. m[2] = r /\ p.kind = "case" /\ c # p
  BY <1>2 DEF Proven
<1>4. IsProjection(p)
  BY DEF IsIR, HasProjections
<1>5. IsProjection(c) /\ Branches(c) < Branches(p)
  BY <1>3, <1>4, SimplifiedCaseIsLighter
<1> HIDE DEF c
<1>6. IsIR(r) /\ Weight(r) < Weight(q)
  BY <1>5, LighterProjectionShrinks DEF r
<1> QED BY <1>3, <1>6

LEMMA CountDistinctRuleShrinks ==
  ASSUME NEW q, NEW cat, IsIR(q), NEW m \in RemoveRedundantCountDistinct(q, cat)
  PROVE  IsIR(m[2]) /\ Weight(m[2]) < Weight(q)
<1>1. PICK i \in DOMAIN q.projections : \E allowed :
        /\ m \in Proven(allowed, i, [q EXCEPT !.projections[i].kind = "count"])
        /\ allowed => q.projections[i].kind = "count_distinct"
  BY DEF RemoveRedundantCountDistinct
<1> DEFINE p == q.projections[i]
           c == [p EXCEPT !.kind = "count"]
           r == [q EXCEPT !.projections = [q.projections EXCEPT ![i] = c]]
<1>2. \E allowed : m \in Proven(allowed, i, r) /\ (allowed => p.kind = "count_distinct")
  BY <1>1
<1> HIDE DEF r
<1>3. m[2] = r /\ p.kind = "count_distinct"
  BY <1>2 DEF Proven
<1>4. IsProjection(p)
  BY DEF IsIR, HasProjections
<1>5. p = Project(p.kind, p.col, p.alias)
  BY <1>3, <1>4 DEF IsProjection
<1>6. c = Project("count", p.col, p.alias)
  BY <1>5 DEF Project
<1>7. c.kind = "count" /\ c.col = p.col /\ c.alias = p.alias
  BY <1>6 DEF Project
<1> HIDE DEF c, p
<1>8. IsProjection(c) /\ Branches(c) < Branches(p)
  <2>1. IsProjection(c)
    BY <1>6, <1>7 DEF IsProjection
  <2>2. Branches(c) = 0 /\ Branches(p) = 1
    BY <1>3, <1>7 DEF Branches
  <2> QED BY <2>1, <2>2
<1>9. IsIR(r) /\ Weight(r) < Weight(q)
  BY <1>8, LighterProjectionShrinks DEF r, p
<1> QED BY <1>3, <1>9

LEMMA CollapseRuleShrinks ==
  ASSUME NEW q, NEW cat, IsIR(q), NEW m \in CollapseUniqueGroupBy(q, cat)
  PROVE  IsIR(m[2]) /\ Weight(m[2]) < Weight(q)
<1> DEFINE ps == [i \in DOMAIN q.projections |-> Collapsed(q.projections[i])]
           r == [q EXCEPT !.group_by = <<>>, !.projections = ps]
<1>1. \E allowed :
        /\ m \in Proven(allowed, 1, r)
        /\ allowed => /\ q.group_by # <<>>
                      /\ \A p \in Range(q.projections) : p.kind \in {"column", "max"}
  <2> DEFINE allowed == /\ q.group_by # <<>>
                        /\ ~q.distinct /\ q.joins = <<>> /\ ~q.having /\ ~q.qualify
                        /\ ~ReferencesCte(q)
                        /\ TableOf(cat, TableName(q)) # None
                        /\ NonNullUniqueKeyIn(TableOf(cat, TableName(q)), {g.name : g \in Range(q.group_by)})
                        /\ \A p \in Range(q.projections) :
                             p.kind \in {"column", "max"} /\ Collapses(p, q)
  <2>1. m \in Proven(allowed, 1, r)
    BY DEF CollapseUniqueGroupBy
  <2>2. allowed => /\ q.group_by # <<>>
                   /\ \A p \in Range(q.projections) : p.kind \in {"column", "max"}
    OBVIOUS
  <2> HIDE DEF allowed, r
  <2> QED BY <2>1, <2>2
<1>2. m[2] = r /\ q.group_by # <<>> /\ \A p \in Range(q.projections) : p.kind \in {"column", "max"}
  <2> HIDE DEF r
  <2> QED BY <1>1 DEF Proven
<1>3. IsSelect(q) /\ IsQuery(q) /\ HasProjections(q) /\ IsList(q.projections) /\ IsList(q.group_by)
  BY DEF IsIR, IsSelect, IsQuery
<1>4. IsList(ps) /\ DOMAIN ps = DOMAIN q.projections
      /\ \A i \in DOMAIN q.projections : ps[i] = Collapsed(q.projections[i])
  <2>1. ps = [i \in DOMAIN q.projections |-> ps[i]]
    OBVIOUS
  <2> HIDE DEF ps
  <2>2. IsList(ps) /\ DOMAIN ps = DOMAIN q.projections
    BY <1>3, <2>1, ListAlong
  <2> QED BY <2>2 DEF ps
<1> HIDE DEF ps
<1>5. Follows(q, r)
  BY <1>3, <1>4, CollapseFollows
<1>6. /\ r.group_by = <<>> /\ r.projections = ps /\ IsQuery(r)
      /\ \A f \in Fields \ {"group_by", "projections"} : r[f] = q[f]
  BY <1>3, <1>4, ChangedGrouping
<1> HIDE DEF r
<1>7. /\ r.predicates = q.predicates /\ r.joins = q.joins /\ r.distinct = q.distinct
      /\ r.subquery = q.subquery
  BY <1>6 DEF Fields
<1>8. \A i \in DOMAIN ps : IsProjection(ps[i]) /\ Branches(ps[i]) = 0
  <2>1. TAKE i \in DOMAIN ps
  <2> DEFINE p == q.projections[i]
             c == Project("column", p.col, p.alias)
  <2>2. p \in Range(q.projections) /\ IsProjection(p)
    BY <1>3, <1>4 DEF HasProjections, Range
  <2>3. p = Project(p.kind, p.col, p.alias)
    BY <1>2, <2>2 DEF IsProjection
  <2>4. ps[i] = c
    BY <1>4, <2>3 DEF Collapsed, Project
  <2>5. c.kind = "column" /\ IsProjection(c)
    BY DEF IsProjection, Project
  <2> HIDE DEF c
  <2> QED BY <2>4, <2>5 DEF Branches
<1>9. IsSelect(r) /\ HasProjections(r)
  BY <1>5, <1>6, <1>8 DEF Follows, HasProjections
<1>10. Total(Pieces(ps)) = 0
  <2>1. /\ DOMAIN ps = 1 .. Len(ps) /\ Len(ps) \in Nat /\ Pieces(ps) \in [1 .. Len(ps) -> Int]
        /\ \A k \in DOMAIN ps : Pieces(ps)[k] = Branches(ps[k])
    BY <1>4, <1>8, PiecesAre
  <2>2. \A k \in 1 .. Len(ps) : Pieces(ps)[k] = 0
    BY <1>8, <2>1
  <2> QED BY <2>1, <2>2, TotalOfZeros
<1>11. IsLess(r, q)
  <2>1. /\ Len(q.predicates) \in Nat /\ Len(q.joins) \in Nat /\ Total(Pieces(q.projections)) \in Nat
    BY <1>3, OwnIs
  <2>2. Len(q.group_by) \in Nat /\ Len(q.group_by) > 0
    BY <1>2, <1>3 DEF IsList
  <2>3. Len(r.group_by) = 0 /\ Total(Pieces(r.projections)) = 0
    BY <1>6, <1>10
  <2> QED BY <1>7, <2>1, <2>2, <2>3 DEF IsLess
<1> QED BY <1>2, <1>7, <1>9, <1>11, LessWeighsLess

(* The pushed query has the predicates of both levels, and one level.      *)
LEMMA PushdownShrinks ==
  ASSUME NEW q, NEW cat, IsIR(q), NEW m \in PredicatePushdown(q, cat)
  PROVE  IsIR(m[2]) /\ Weight(m[2]) < Weight(q)
<1> DEFINE inner == q.subquery
           names(ps) == [i \in DOMAIN ps |-> ps[i].col.name]
           outer == [i \in DOMAIN q.predicates |->
                       [q.predicates[i] EXCEPT !.left = Unqualified(@)]]
           ps == PushedProjections(q)
           ws == inner.predicates \o outer
           r == [SelectFrom(inner.table, ps) EXCEPT !.alias = inner.alias, !.predicates = ws]
           allowed == /\ inner # None
                      /\ q.predicates # <<>>
                      /\ ~ReferencesCte(q)
                      /\ IsPlain(q) /\ IsPlain(inner)
                      /\ \A w \in Range(q.predicates) : IsPredicate(w)
                      /\ IsDirectTable(inner)
                      /\ \A p \in Range(q.projections) \cup Range(inner.projections) : IsDirectColumn(p)
                      /\ names(q.projections) = names(inner.projections)
                      /\ \A w \in Range(q.predicates) :
                           /\ w.left.name \in Range(names(inner.projections))
                           /\ w.left.table \in {None, q.alias}
<1>1. m \in Proven(allowed, 1, r)
  BY DEF PredicatePushdown
<1>2. allowed /\ m = <<1, r>>
  <2> HIDE DEF allowed, r
  <2> QED BY <1>1 DEF Proven
<1>3. inner # None /\ \A p \in Range(q.projections) \cup Range(inner.projections) : p.kind = "column"
  BY <1>2 DEF IsDirectColumn
<1> HIDE DEF allowed
<1>4. m[2] = r
  <2> HIDE DEF r
  <2> QED BY <1>2
<1>5. /\ IsSelect(q) /\ IsQuery(q) /\ IsQuery(inner) /\ HasProjections(q) /\ HasProjections(inner)
      /\ IsList(q.predicates) /\ IsList(inner.predicates) /\ IsList(q.projections)
  BY <1>3 DEF IsIR, IsSelect, IsQuery
<1>6. Len(ws) = Len(inner.predicates) + Len(q.predicates)
  <2>1. outer = [i \in DOMAIN q.predicates |-> outer[i]]
    OBVIOUS
  <2> HIDE DEF outer
  <2>2. IsList(outer) /\ DOMAIN outer = DOMAIN q.predicates
    BY <1>5, <2>1, ListAlong
  <2>3. Len(outer) = Len(q.predicates)
    BY <1>5, <2>2 DEF IsList
  <2>4. Len(ws) = Len(inner.predicates) + Len(outer)
    BY <1>5, <2>2 DEF IsList
  <2> QED BY <2>3, <2>4
<1>7. \A i \in DOMAIN ps : IsProjection(ps[i]) /\ Branches(ps[i]) = 0
  <2>1. TAKE i \in DOMAIN ps
  <2> DEFINE p == q.projections[i]
             c == Project("column", Unqualified(p.col), p.alias)
  <2>2. i \in DOMAIN q.projections /\ ps[i] = [p EXCEPT !.col = Unqualified(@)]
    BY DEF PushedProjections
  <2>3. p \in Range(q.projections) /\ IsProjection(p) /\ p.kind = "column"
    BY <1>3, <1>5, <2>2 DEF HasProjections, Range
  <2>4. p = Project("column", p.col, p.alias)
    BY <2>3 DEF IsProjection
  <2>5. ps[i] = c
    BY <2>2, <2>4 DEF Project
  <2>6. c.kind = "column" /\ IsProjection(c)
    BY DEF IsProjection, Project
  <2> HIDE DEF c
  <2> QED BY <2>5, <2>6 DEF Branches
<1>8. IsList(ps)
  <2>1. ps = [i \in DOMAIN q.projections |-> ps[i]]
    BY DEF PushedProjections
  <2> HIDE DEF ps
  <2> QED BY <1>5, <2>1, ListAlong
<1> HIDE DEF outer, ps, inner, ws
<1>9. /\ r.predicates = ws /\ r.joins = <<>> /\ r.projections = ps /\ r.subquery = None
      /\ r.group_by = <<>> /\ r.distinct = FALSE
  <2>1. r = [f \in Fields |->
               IF f = "predicates" THEN ws ELSE IF f = "alias" THEN inner.alias
               ELSE SelectFrom(inner.table, ps)[f]]
    BY DEF SelectFrom, Fields
  <2> HIDE DEF r
  <2>2. \A f \in Fields \ {"predicates", "alias"} : r[f] = SelectFrom(inner.table, ps)[f]
    BY <2>1
  <2>3. r.predicates = ws
    BY <2>1 DEF Fields
  <2> QED BY <2>2, <2>3 DEF SelectFrom, Fields
<1> HIDE DEF r
<1>10. Follows(q, r)
  BY <1>4, <1>5, PushdownFollows
<1>11. IsIR(r) /\ IsQuery(r) /\ HasProjections(r)
  BY <1>7, <1>9, <1>10 DEF IsIR, Follows, HasProjections, IsSelect
<1>12. Total(Pieces(ps)) = 0
  <2>1. /\ DOMAIN ps = 1 .. Len(ps) /\ Len(ps) \in Nat /\ Pieces(ps) \in [1 .. Len(ps) -> Int]
        /\ \A k \in DOMAIN ps : Pieces(ps)[k] = Branches(ps[k])
    BY <1>7, <1>8, PiecesAre
  <2>2. \A k \in 1 .. Len(ps) : Pieces(ps)[k] = 0
    BY <1>7, <2>1
  <2> QED BY <2>1, <2>2, TotalOfZeros
<1>13. ASSUME NEW s, IsQuery(s), HasProjections(s)
       PROVE  Own(s) >= Len(s.predicates) /\ Own(s) \in Nat /\ Len(s.predicates) \in Nat
  <2> DEFINE j == Len(s.joins)
             w == Len(s.predicates)
             d == IF s.distinct THEN 1 ELSE 0
             g == Len(s.group_by)
             t == Total(Pieces(s.projections))
  <2>1. j \in Nat /\ w \in Nat /\ d \in Nat /\ g \in Nat /\ t \in Nat /\ Own(s) = 3 * j + w + d + g + t
    BY <1>13, OwnIs
  <2>2. w = Len(s.predicates)
    OBVIOUS
  <2> HIDE DEF j, w, d, g, t
  <2>3. Own(s) >= w /\ Own(s) \in Nat
    BY <2>1
  <2> QED BY <2>1, <2>2, <2>3
<1>14. Own(r) = Len(inner.predicates) + Len(q.predicates)
  <2> DEFINE j == Len(r.joins)
             w == Len(r.predicates)
             d == IF r.distinct THEN 1 ELSE 0
             g == Len(r.group_by)
             t == Total(Pieces(r.projections))
  <2>1. w \in Nat /\ Own(r) = 3 * j + w + d + g + t
    BY <1>11, OwnIs
  <2>2. j = 0 /\ d = 0 /\ g = 0 /\ t = 0
    BY <1>9, <1>12
  <2>3. w = Len(inner.predicates) + Len(q.predicates)
    BY <1>6, <1>9
  <2> HIDE DEF j, w, d, g, t
  <2>4. Own(r) = w
    BY <2>1, <2>2
  <2> QED BY <2>3, <2>4
<1>15. Weight(r) = Own(r) /\ Weight(q) = Own(q) + 1 + Own(inner)
  <2>1. Own(q) \in Nat /\ Own(inner) \in Nat /\ Own(r) \in Nat
    BY <1>5, <1>11, <1>13
  <2> QED BY <1>3, <1>9, <2>1 DEF Weight, inner
<1>16. Own(q) >= Len(q.predicates) /\ Own(inner) >= Len(inner.predicates)
       /\ Own(q) \in Nat /\ Own(inner) \in Nat /\ Len(q.predicates) \in Nat /\ Len(inner.predicates) \in Nat
  BY <1>5, <1>13
<1>17. Weight(r) < Weight(q)
  <2> DEFINE a == Own(q)
             b == Own(inner)
             v == Len(q.predicates)
             w == Len(inner.predicates)
  <2>1. a \in Nat /\ b \in Nat /\ v \in Nat /\ w \in Nat /\ a >= v /\ b >= w
    BY <1>16
  <2>2. Weight(r) = w + v /\ Weight(q) = a + 1 + b
    BY <1>14, <1>15
  <2> HIDE DEF a, b, v, w
  <2> QED BY <2>1, <2>2
<1> QED BY <1>4, <1>11, <1>17

LEMMA MatchesShrink ==
  ASSUME NEW q, NEW cat, IsIR(q), NEW rule \in RuleNames, NEW m \in Matches(rule, q, cat)
  PROVE  IsIR(m[2]) /\ Weight(m[2]) < Weight(q)
<1>1. CASE rule \in {"remove_unused_left_join", "remove_foreign_key_inner_join"}
  <2>1. m \in RemoveUnusedLeftJoin(q, cat) \cup RemoveForeignKeyInnerJoin(q, cat)
    BY <1>1 DEF Matches
  <2> QED BY <2>1, JoinRulesShrink
<1>2. CASE rule = "rewrite_join_distinct_to_exists"
  <2>1. m \in RewriteJoinDistinctToExists(q, cat)
    BY <1>2 DEF Matches
  <2> QED BY <2>1, ExistsRuleShrinks
<1>3. CASE rule \in {"remove_redundant_not_null_filter", "remove_redundant_accepted_values_filter"}
  <2>1. m \in RemoveRedundant(rule, q, cat)
    BY <1>3 DEF Matches, RemoveRedundantNotNullFilter, RemoveRedundantAcceptedValuesFilter
  <2> QED BY <2>1, FilterRulesShrink
<1>4. CASE rule = "simplify_accepted_values_case"
  <2>1. m \in SimplifyAcceptedValuesCase(q, cat)
    BY <1>4 DEF Matches
  <2> QED BY <2>1, CaseRuleShrinks
<1>5. CASE rule = "remove_redundant_distinct"
  <2>1. m \in RemoveRedundantDistinct(q, cat)
    BY <1>5 DEF Matches
  <2> QED BY <2>1, DistinctRuleShrinks
<1>6. CASE rule = "remove_redundant_count_distinct"
  <2>1. m \in RemoveRedundantCountDistinct(q, cat)
    BY <1>6 DEF Matches
  <2> QED BY <2>1, CountDistinctRuleShrinks
<1>7. CASE rule = "collapse_unique_group_by"
  <2>1. m \in CollapseUniqueGroupBy(q, cat)
    BY <1>7 DEF Matches
  <2> QED BY <2>1, CollapseRuleShrinks
<1>8. CASE rule = "predicate_pushdown"
  <2>1. m \in PredicatePushdown(q, cat)
    BY <1>8 DEF Matches
  <2> QED BY <2>1, PushdownShrinks
<1> QED BY <1>1, <1>2, <1>3, <1>4, <1>5, <1>6, <1>7, <1>8 DEF RuleNames

LEMMA AvailableMatchesShrink ==
  ASSUME NEW q, NEW cat, IsIR(q), NEW m \in AvailableMatches(q, cat)
  PROVE  IsIR(m.query) /\ Weight(m.query) < Weight(q)
<1>1. PICK rule \in Range(DefaultRules) : \E n \in Matches(rule, q, cat) :
        m = [rule |-> rule, index |-> n[1], query |-> n[2]]
  BY DEF AvailableMatches
<1>2. PICK n \in Matches(rule, q, cat) : m = [rule |-> rule, index |-> n[1], query |-> n[2]]
  BY <1>1
<1>3. m.query = n[2] /\ rule \in RuleNames
  BY <1>2, RulesAreTen
<1> QED BY <1>3, MatchesShrink

(* The text of a query record has no CTE, and is parsed as it stands.      *)
LEMMA RenderedIs ==
  ASSUME NEW q, IsIR(q), NEW r, r = Rendered(q)
  PROVE  IsIR(r) /\ Weight(r) = Weight(q) /\ Parsed(r) = r
<1>1. IsSelect(q) /\ IsQuery(q) /\ "with" \in Fields
  BY DEF IsIR, IsSelect, Fields
<1>2. r = [q EXCEPT !.with = None]
  BY DEF Rendered
<1>3. IsSelect(r) /\ r.with = None
  BY <1>1, <1>2, OtherWith
<1>4. \A f \in Fields \ {"with"} : r[f] = q[f]
  BY <1>1, <1>2, ChangedField
<1>5. /\ r.joins = q.joins /\ r.predicates = q.predicates /\ r.distinct = q.distinct
      /\ r.group_by = q.group_by /\ r.projections = q.projections /\ r.subquery = q.subquery
  BY <1>4 DEF Fields
<1>6. IsIR(r)
  BY <1>3, <1>5 DEF IsIR, HasProjections
<1>7. Weight(r) = Weight(q)
  BY <1>5 DEF Weight, Own
<1>8. Parsed(r) = r
  BY <1>3 DEF Parsed
<1> QED BY <1>6, <1>7, <1>8

(* A text whose projections are of the known kinds, in its CTE too.        *)
HasKnownProjections(q) ==
  /\ IsIR(q)
  /\ q.with # None => \A b \in Range(q.with.bodies) : IsIR(b)

(* The projection an outer column stands for is one of the body's, under   *)
(* the alias the outer query gives it.                                     *)
LEMMA InlinedAreProjections ==
  ASSUME NEW s, NEW body, HasProjections(body), IsList(body.projections),
         NEW p \in Range(s.projections), CanInline(s, body),
         NEW x \in Range(InlinedProjection(p, body))
  PROVE  IsProjection(x)
<1>1. CASE IsBareStar(p)
  BY <1>1 DEF InlinedProjection, HasProjections, Range
<1>2. CASE ~IsBareStar(p)
  <2> DEFINE named == Named(body, p.col.name)
             last == CHOOSE i \in named : \A j \in named : j <= i
             inner == LastNamed(body, p.col.name)
  <2>1. named # {} /\ named \subseteq DOMAIN body.projections
    BY <1>2 DEF CanInline, Named, Range
  <2>2. DOMAIN body.projections = 1 .. Len(body.projections) /\ Len(body.projections) \in Nat
    BY DEF IsList
  <2>3. last \in named
    <3>1. named \subseteq Nat /\ \A j \in named : j <= Len(body.projections)
      BY <2>1, <2>2
    <3> HIDE DEF named
    <3>2. \E i \in named : \A j \in named : j <= i
      BY <2>1, <2>2, <3>1, GreatestNumber
    <3> QED BY <3>2
  <2>4. inner = body.projections[last]
    BY DEF LastNamed
  <2>5. IsProjection(inner)
    BY <2>1, <2>3, <2>4 DEF HasProjections
  <2> HIDE DEF inner
  <2>6. x = inner \/ x = [inner EXCEPT !.alias = p.alias]
    BY <1>2 DEF InlinedProjection, Range, inner
  <2>7. IsProjection([inner EXCEPT !.alias = p.alias])
    <3> DEFINE y == [inner EXCEPT !.alias = p.alias]
    <3>1. CASE inner.kind = "case"
      <4>1. inner = CaseOf(inner.branches, inner.default, inner.alias) /\ IsList(inner.branches)
        BY <2>5, <3>1 DEF IsProjection
      <4>2. y = CaseOf(inner.branches, inner.default, p.alias)
        BY <4>1 DEF CaseOf
      <4> HIDE DEF y
      <4>3. y.kind = "case" /\ y.branches = inner.branches /\ y.default = inner.default /\ y.alias = p.alias
        BY <4>2 DEF CaseOf
      <4>4. IsProjection(y)
        BY <4>1, <4>2, <4>3 DEF IsProjection
      <4> QED BY <4>4 DEF y
    <3>2. CASE inner.kind # "case"
      <4>1. inner = Project(inner.kind, inner.col, inner.alias)
        BY <2>5, <3>2 DEF IsProjection
      <4>2. y = Project(inner.kind, inner.col, p.alias)
        BY <4>1 DEF Project
      <4> HIDE DEF y
      <4>3. y.kind = inner.kind /\ y.col = inner.col /\ y.alias = p.alias
        BY <4>2 DEF Project
      <4>4. IsProjection(y)
        BY <3>2, <4>2, <4>3 DEF IsProjection
      <4> QED BY <4>4 DEF y
    <3> QED BY <3>1, <3>2
  <2> QED BY <2>5, <2>6, <2>7
<1> QED BY <1>1, <1>2

LEMMA ResolvedHasProjections ==
  ASSUME NEW s, NEW with, IsQuery(s), HasProjections(s), IsQuery(Body(with)), HasProjections(Body(with)),
         NEW r, r = Resolved(s, with)
  PROVE  HasProjections(r)
<1> DEFINE body == Body(with)
<1>1. IsQuery(body) /\ HasProjections(body) /\ IsList(body.projections) /\ IsList(s.projections)
  BY DEF IsQuery
<1>2. r \in {s, body, ReadsTableOf(s, body)} \/ (CanInline(s, body) /\ r = Inlined(s, body))
  BY DEF Resolved
<1> HIDE DEF body
<1>3. CASE r \in {s, body}
  BY <1>1, <1>3
<1>4. CASE r = ReadsTableOf(s, body)
  <2> DEFINE p == [s EXCEPT !.table = body.table, !.alias = BaseRelation(s)]
  <2>1. s = [f \in Fields |-> s[f]]
    BY DEF IsQuery
  <2>2. p = [f \in Fields |-> IF f = "alias" THEN BaseRelation(s)
                              ELSE IF f = "table" THEN body.table ELSE s[f]]
    BY <2>1 DEF Fields
  <2>3. r = p
    BY <1>4 DEF ReadsTableOf
  <2> HIDE DEF p
  <2>4. r.projections = s.projections
    BY <2>2, <2>3 DEF Fields
  <2> QED BY <2>4 DEF HasProjections
<1>5. CASE CanInline(s, body) /\ r = Inlined(s, body)
  <2> DEFINE parts == [i \in DOMAIN s.projections |-> InlinedProjection(s.projections[i], body)]
             ps == FlattenSeq(parts)
             p == [body EXCEPT !.projections = ps, !.distinct = s.distinct]
  <2>1. \A i \in DOMAIN s.projections : parts[i] = InlinedProjection(s.projections[i], body)
    OBVIOUS
  <2>2. IsList(parts) /\ DOMAIN parts = DOMAIN s.projections
    <3>1. parts = [i \in DOMAIN s.projections |-> parts[i]]
      OBVIOUS
    <3> HIDE DEF parts
    <3> QED BY <1>1, <3>1, ListAlong
  <2>3. \A x : IsList(<<x>>)
    BY DEF IsList, Range
  <2>4. r = p
    BY <1>5 DEF Inlined
  <2> HIDE DEF parts
  <2>5. \A i \in DOMAIN parts : IsList(parts[i])
    BY <1>1, <2>1, <2>2, <2>3 DEF InlinedProjection
  <2>6. IsList(ps) /\ \A x \in Range(ps) : \E i \in DOMAIN parts : x \in Range(parts[i])
    BY <2>2, <2>5, FlattenRange
  <2> HIDE DEF ps
  <2>7. \A x \in Range(ps) : IsProjection(x)
    <3>1. TAKE x \in Range(ps)
    <3>2. PICK i \in DOMAIN s.projections : x \in Range(InlinedProjection(s.projections[i], body))
      BY <2>1, <2>2, <2>6
    <3>3. s.projections[i] \in Range(s.projections)
      BY DEF Range
    <3> QED BY <1>1, <1>5, <3>2, <3>3, InlinedAreProjections
  <2>8. p = [f \in Fields |-> IF f = "distinct" THEN s.distinct
                              ELSE IF f = "projections" THEN ps ELSE body[f]]
    BY <1>1 DEF IsQuery, Fields
  <2> HIDE DEF p
  <2>9. r.projections = ps
    BY <2>4, <2>8 DEF Fields
  <2> QED BY <2>7, <2>9 DEF HasProjections, Range
<1> QED BY <1>2, <1>3, <1>4, <1>5

LEMMA WithIsApart ==
  ASSUME NEW s, IsQuery(s), NEW x, NEW r, r = [s EXCEPT !.with = x]
  PROVE  IsQuery(r) /\ r.subquery = s.subquery /\ r.projections = s.projections
<1>1. "with" \in Fields
  BY DEF Fields
<1>2. r = [g \in Fields |-> r[g]] /\ \A g \in Fields \ {"with"} : r[g] = s[g]
  BY <1>1, ChangedField
<1>3. /\ r.joins = s.joins /\ r.predicates = s.predicates /\ r.projections = s.projections
      /\ r.group_by = s.group_by /\ r.order_by = s.order_by /\ r.having = s.having
      /\ r.qualify = s.qualify /\ r.distinct = s.distinct /\ r.subquery = s.subquery
  BY <1>2 DEF Fields
<1> QED BY <1>2, <1>3 DEF IsQuery

(* So is the parse of a text a query record.                               *)
LEMMA ParsedIsIR ==
  ASSUME NEW q, IsText(q), HasKnownProjections(q), Parses(q)
  PROVE  IsIR(Parsed(q))
<1>1. IsSelect(Parsed(q))
  BY ParsedIs
<1>2. CASE q.with = None
  BY <1>2 DEF Parsed, HasKnownProjections
<1>3. CASE q.with # None
  <2> DEFINE with == q.with
             body == Body(with)
             found == Resolved(q, with)
             top == [found EXCEPT !.with = with]
             inner == Resolved(top.subquery, with)
             whole == [top EXCEPT !.subquery = inner]
  <2>1. Parsed(q) = IF top.subquery = None THEN top ELSE whole
    BY <1>3 DEF Parsed
  <2>2. IsIR(body) /\ IsIR(q)
    <3>1. Len(with.bodies) = 1 /\ IsList(with.bodies)
      BY <1>3 DEF Parses, IsText
    <3>2. 1 \in DOMAIN with.bodies
      BY <3>1 DEF IsList
    <3> QED BY <1>3, <3>2 DEF HasKnownProjections, Body, Range
  <2>3. IsQuery(q) /\ IsQuery(Body(with)) /\ HasProjections(q) /\ HasProjections(Body(with))
    BY <2>2 DEF IsIR, IsSelect
  <2> HIDE DEF with
  <2>4. /\ IsQuery(found) /\ HasProjections(found)
        /\ found.subquery \in {q.subquery, body.subquery}
    BY <2>3, ResolvedIs, ResolvedHasProjections
  <2>5. found.subquery # None => IsQuery(found.subquery) /\ HasProjections(found.subquery)
    BY <2>2, <2>4 DEF IsIR, IsSelect
  <2> HIDE DEF found
  <2>6. top.subquery = found.subquery /\ top.projections = found.projections /\ IsQuery(top)
    BY <2>4, WithIsApart
  <2> HIDE DEF top
  <2>7. CASE top.subquery = None
    BY <1>1, <2>1, <2>4, <2>6, <2>7 DEF IsIR, HasProjections
  <2>8. CASE top.subquery # None
    <3>1. HasProjections(inner)
      BY <2>3, <2>5, <2>6, <2>8, ResolvedHasProjections
    <3> HIDE DEF inner
    <3>2. "subquery" \in Fields
      BY DEF Fields
    <3>3. whole.subquery = inner /\ \A g \in Fields \ {"subquery"} : whole[g] = top[g]
      BY <2>6, <3>2, ChangedField
    <3> HIDE DEF whole
    <3>4. whole.projections = top.projections
      BY <3>3 DEF Fields
    <3> QED BY <1>1, <2>1, <2>4, <2>6, <2>8, <3>1, <3>3, <3>4 DEF IsIR, HasProjections
  <2> QED BY <2>7, <2>8
<1> QED BY <1>2, <1>3

LEMMA SessionShowsIR ==
  ASSUME \A s \in SessionSettings : \A q \in s.asked : IsText(q) /\ HasKnownProjections(q)
  PROVE  SessionSpec => []IsIR(Parsed(shown))
<1>1. SessionInit => IsIR(Parsed(shown))
  BY ParsedIsIR DEF SessionInit
<1>2. IsIR(Parsed(shown)) /\ [SessionNext]_sessionVars => IsIR(Parsed(shown))'
  <2> SUFFICES ASSUME IsIR(Parsed(shown)), [SessionNext]_sessionVars PROVE IsIR(Parsed(shown'))
    OBVIOUS
  <2>1. CASE UNCHANGED sessionVars
    BY <2>1 DEF sessionVars
  <2>2. ASSUME NEW match \in AvailableMatches(Parsed(shown), catalog), Step(match)
        PROVE  IsIR(Parsed(shown'))
    BY <2>2, AvailableMatchesShrink, RenderedIs DEF Step
  <2> QED BY <2>1, <2>2 DEF SessionNext
<1> QED BY <1>1, <1>2, PTL DEF SessionSpec

(* Whichever of the offered rewrites a session takes, it leaves less to    *)
(* remove than there was: no rule undoes another, and the matches run out  *)
(* (registry.DEFAULT_RULES).  The texts asked about read their CTE in FROM *)
(* clauses only, and their projections are of the kinds the parser knows.  *)
THEOREM SessionsShrink ==
  ASSUME \A s \in SessionSettings : \A q \in s.asked : IsText(q) /\ HasKnownProjections(q)
  PROVE  SessionSpec => RewritesShrink
<1>1. IsIR(Parsed(shown)) /\ [SessionNext]_sessionVars
      => [Weight(Parsed(shown')) < Weight(Parsed(shown))]_shown
  <2> SUFFICES ASSUME IsIR(Parsed(shown)), [SessionNext]_sessionVars, shown' # shown
               PROVE  Weight(Parsed(shown')) < Weight(Parsed(shown))
    OBVIOUS
  <2>1. PICK match \in AvailableMatches(Parsed(shown), catalog) : Step(match)
    BY DEF SessionNext, sessionVars
  <2>2. IsIR(match.query) /\ Weight(match.query) < Weight(Parsed(shown))
    BY <2>1, AvailableMatchesShrink
  <2>3. shown' = Rendered(match.query)
    BY <2>1 DEF Step
  <2>4. Parsed(shown') = shown' /\ Weight(shown') = Weight(match.query)
    BY <2>2, <2>3, RenderedIs
  <2> QED BY <2>2, <2>4
<1> QED BY <1>1, SessionShowsIR, PTL DEF SessionSpec, RewritesShrink
=============================================================================
