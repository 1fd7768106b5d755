---------------------------- MODULE RewriteRules ----------------------------
(***************************************************************************)
(* The ten rewrite rules of src/qseal/rewrites/.  A rule is the set of     *)
(* what its matches() offers and apply_match() builds: pairs of a target   *)
(* index and a rewritten query.  A rule that reports anything but          *)
(* PROVEN_EQUIVALENT is the empty set; which of the other statuses it      *)
(* reports is left out.                                                    *)
(***************************************************************************)
EXTENDS SqlQuery

Proven(condition, index, rewritten) == IF condition THEN {<<index, rewritten>>} ELSE {}

(* query.table_alias or query.table, which a derived table does not have. *)
LeftRelation(q) == IF IsDirectTable(q) THEN BaseRelation(q) ELSE None

(* A qualifier that can only mean the one relation of the query. *)
OwnQualifier(q, col) == col.table \in {None, BaseRelation(q)}

-----------------------------------------------------------------------------
(* What an ON condition equates: a column of the base relation with one of *)
(* the joined relation, or None when it does anything else.                *)
KeyPair(on, left, joined) ==
  IF on.left.table = left /\ on.right.table = joined THEN <<on.left.name, on.right.name>>
  ELSE IF on.right.table = left /\ on.left.table = joined THEN <<on.right.name, on.left.name>>
  ELSE None

Connects(join, left) ==
  \A i \in DOMAIN join.on : KeyPair(join.on[i], left, join.table) # None

LeftKey(join, left)   == [i \in DOMAIN join.on |-> KeyPair(join.on[i], left, join.table)[1]]
JoinedKey(join, left) == [i \in DOMAIN join.on |-> KeyPair(join.on[i], left, join.table)[2]]

(* Uses of the joined relation a LEFT JOIN removal looks for: ORDER BY and *)
(* unqualified columns are not among them.                                 *)
UsesJoinedRelation(q, joined) ==
  \/ \E p \in Range(q.projections) :
       \/ p.kind = "star" /\ p.col.table \in {None, joined}
       \/ p.kind = "column" /\ p.col.table = joined
       \/ MayReferenceRelation(p, joined)
  \/ \E w \in Range(q.predicates) :
       IF IsPredicate(w) \/ IsInPredicate(w) THEN w.left.table = joined ELSE TRUE

(* The foreign key rule also counts every unqualified column as a use. *)
MayUseRelation(q, joined) ==
  \/ \E p \in Range(q.projections) :
       IF p.kind \in {"star", "column"} THEN p.col.table \in {None, joined}
       ELSE TRUE
  \/ \E w \in Range(q.predicates) :
       IF IsPredicate(w) \/ IsInPredicate(w) THEN w.left.table \in {None, joined} ELSE TRUE

OneJoin(q, kind) ==
  Len(q.joins) = 1 /\ q.group_by = <<>> /\ ~q.having /\ q.joins[1].kind = kind

RemoveUnusedLeftJoin(q, catalog) ==
  LET join == q.joins[1]
      left == LeftRelation(q)
      t    == TableOf(catalog, join.table)
  IN  Proven(/\ OneJoin(q, "LEFT")
             /\ ~ReferencesCte(q)
             /\ ~UsesJoinedRelation(q, join.table)
             /\ left # None
             /\ Connects(join, left)
             /\ IsInjective(JoinedKey(join, left))
             /\ t # None
             /\ HasUniqueKey(t, Range(JoinedKey(join, left))),
             1, [q EXCEPT !.joins = <<>>])

RemoveForeignKeyInnerJoin(q, catalog) ==
  LET join  == q.joins[1]
      left  == LeftRelation(q)
      child == TableOf(catalog, q.table)
      t     == TableOf(catalog, join.table)
  IN  Proven(/\ OneJoin(q, "INNER")
             /\ ~ReferencesCte(q)
             /\ left # None
             /\ ~MayUseRelation(q, join.table)
             /\ Connects(join, left)
             /\ IsInjective(LeftKey(join, left))
             /\ IsInjective(JoinedKey(join, left))
             /\ child # None
             /\ HasForeignKey(child, LeftKey(join, left), join.table, JoinedKey(join, left))
             /\ \A c \in Range(LeftKey(join, left)) : IsNonNull(child, c)
             /\ t # None
             /\ HasUniqueKey(t, Range(JoinedKey(join, left))),
             1, [q EXCEPT !.joins = <<>>])

(* Mutant: the join stays beside the EXISTS. *)
ExistsBesideJoin(q, join) ==
  [q EXCEPT !.distinct = FALSE, !.predicates = Append(@, Exists(join.table, join.on))]

ExistsForJoin(q, join) ==
  [q EXCEPT !.distinct = FALSE, !.joins = <<>>,
            !.predicates = Append(@, Exists(join.table, join.on))]

(* DISTINCT goes with the join, whatever the projected columns are. *)
RewriteJoinDistinctToExists(q, catalog) ==
  LET join == q.joins[1]
      left == LeftRelation(q)
  IN  Proven(/\ q.distinct
             /\ OneJoin(q, "INNER")
             /\ ~q.qualify
             /\ Len(join.on) = 1
             /\ ~ReferencesCte(q)
             /\ left # None
             /\ \A w \in Range(q.predicates) :
                  (IsPredicate(w) \/ IsInPredicate(w)) /\ w.left.table = left
             /\ \A p \in Range(q.projections) : IsDirectColumn(p) /\ p.col.table = left
             /\ {join.on[1].left.table, join.on[1].right.table} = {left, join.table},
             1, ExistsForJoin(q, join))

-----------------------------------------------------------------------------
(* The filter rules match per predicate.  matches() and apply_match() go   *)
(* through _redundant_predicate_context, which does not look for CTEs;     *)
(* apply() does, and removes every redundant predicate at once.            *)
FilteredTable(q, catalog) ==
  IF IsDirectTable(q) /\ q.joins = <<>> THEN TableOf(catalog, TableName(q)) ELSE None

TrustedNotNull(w, q, t) ==
  w.op = "is_not_null" /\ OwnQualifier(q, w.left) /\ IsNonNull(t, w.left.name)

TrustedAcceptedValues(w, q, t) ==
  /\ w.op = "in"
  /\ OwnQualifier(q, w.left)
  /\ IsNonNull(t, w.left.name)
  /\ AcceptedValues(t, w.left.name) # {}
  /\ AcceptedValues(t, w.left.name) = w.values

Trusted(rule, w, q, t) ==
  IF rule = "remove_redundant_not_null_filter" THEN TrustedNotNull(w, q, t)
  ELSE TrustedAcceptedValues(w, q, t)

(* Mutant: the redundant predicate moves to the end. *)
MoveRedundant(rule, q, catalog) ==
  LET t == FilteredTable(q, catalog) IN
  UNION {Proven(t # None /\ Trusted(rule, q.predicates[i], q, t),
                i, [q EXCEPT !.predicates = Append(RemoveAt(@, i), @[i])]) : i \in DOMAIN q.predicates}

RemoveRedundant(rule, q, catalog) ==
  LET t == FilteredTable(q, catalog) IN
  UNION {Proven(t # None /\ Trusted(rule, q.predicates[i], q, t),
                i, [q EXCEPT !.predicates = RemoveAt(@, i)]) : i \in DOMAIN q.predicates}

RemoveAllRedundant(rule, q, catalog) ==
  LET t == FilteredTable(q, catalog)
      kept == {w \in Range(q.predicates) : ~Trusted(rule, w, q, t)}
  IN  Proven(/\ ~ReferencesCte(q)
             /\ t # None
             /\ \E w \in Range(q.predicates) : Trusted(rule, w, q, t),
             1, [q EXCEPT !.predicates = Among(@, kept)])

RemoveRedundantNotNullFilter(q, catalog) ==
  RemoveRedundant("remove_redundant_not_null_filter", q, catalog)
RemoveRedundantAcceptedValuesFilter(q, catalog) ==
  RemoveRedundant("remove_redundant_accepted_values_filter", q, catalog)

-----------------------------------------------------------------------------
(* What an accepted, non-null domain says of a CASE condition.  IN over a  *)
(* subquery lists no literals, so that every domain is disjoint from it.   *)
ConditionVerdict(w, q, t) ==
  LET domain == IF OwnQualifier(q, w.left) /\ IsNonNull(t, w.left.name)
                THEN AcceptedValues(t, w.left.name) ELSE {}
      values == IF w.op = "in_query" THEN {} ELSE w.values
  IN  IF w.op \notin {"=", "in", "in_query"} \/ domain = {} THEN "unknown"
      ELSE IF domain \subseteq values THEN "always_true"
      ELSE IF domain \cap values = {} THEN "always_false"
      ELSE "unknown"

(* A branch that is always taken wins when nothing stands before it; the   *)
(* branches never taken go.  A constant is a CASE without branches.        *)
SimplifiedCase(p, q, t) ==
  LET verdict(i) == ConditionVerdict(p.branches[i].when, q, t)
      first == {i \in DOMAIN p.branches : verdict(i) = "always_true"
                  /\ \A j \in 1 .. i - 1 : verdict(j) = "always_false"}
      kept == {b \in Range(p.branches) : ConditionVerdict(b.when, q, t) # "always_false"}
  IN  IF first # {}
      THEN CaseOf(<<>>, p.branches[CHOOSE i \in first : TRUE].then, p.alias)
      ELSE CaseOf(Among(p.branches, kept), p.default, p.alias)

SimplifyAcceptedValuesCase(q, catalog) ==
  LET t == TableOf(catalog, TableName(q)) IN
  UNION {LET p == q.projections[i] IN
         Proven(/\ p.kind = "case"
                /\ q.joins = <<>> /\ q.group_by = <<>> /\ ~q.having /\ ~q.qualify
                /\ ~ReferencesCte(q)
                /\ t # None
                /\ SimplifiedCase(p, q, t) # p,
                i, [q EXCEPT !.projections[i] = SimplifiedCase(p, q, t)])
         : i \in DOMAIN q.projections}

-----------------------------------------------------------------------------
RemoveRedundantDistinct(q, catalog) ==
  LET t == TableOf(catalog, TableName(q)) IN
  Proven(/\ q.distinct
         /\ q.group_by = <<>> /\ ~q.having /\ q.joins = <<>>
         /\ ~ReferencesCte(q)
         /\ t # None
         /\ \A p \in Range(q.projections) : IsDirectColumn(p)
         /\ NonNullUniqueKeyIn(t, {p.col.name : p \in Range(q.projections)}),
         1, [q EXCEPT !.distinct = FALSE])

RemoveRedundantCountDistinct(q, catalog) ==
  LET t == TableOf(catalog, TableName(q)) IN
  UNION {LET p == q.projections[i] IN
         Proven(/\ p.kind = "count_distinct"
                /\ ~q.distinct /\ q.joins = <<>> /\ ~q.having /\ ~q.qualify
                /\ ~ReferencesCte(q)
                /\ OwnQualifier(q, p.col)
                /\ t # None
                /\ NonNullUniqueKeyIn(t, {p.col.name}),
                i, [q EXCEPT !.projections[i].kind = "count"])
         : i \in DOMAIN q.projections}

(* A grouped column stays, MAX of a column becomes the column. *)
Collapses(p, q) ==
  /\ OwnQualifier(q, p.col)
  /\ \/ IsDirectColumn(p) /\ \E g \in Range(q.group_by) : g.name = p.col.name
     \/ p.kind = "max" /\ p.alias # None

(* Mutant: the alias of the aggregate is lost. *)
CollapsedUnnamed(p) == Project("column", p.col, None)

Collapsed(p) == [p EXCEPT !.kind = "column"]

CollapseUniqueGroupBy(q, catalog) ==
  LET t == TableOf(catalog, TableName(q)) IN
  Proven(/\ q.group_by # <<>>
         /\ ~q.distinct /\ q.joins = <<>> /\ ~q.having /\ ~q.qualify
         /\ ~ReferencesCte(q)
         /\ t # None
         /\ NonNullUniqueKeyIn(t, {g.name : g \in Range(q.group_by)})
         /\ \A p \in Range(q.projections) :
              p.kind \in {"column", "max"} /\ Collapses(p, q),
         1, [q EXCEPT !.group_by = <<>>,
                      !.projections = [i \in DOMAIN q.projections |-> Collapsed(q.projections[i])]])

-----------------------------------------------------------------------------
Unqualified(col) == Column(None, col.name)

(* Mutant: QUALIFY forgotten. *)
IsPlainUpToQualify(q) == q.group_by = <<>> /\ ~q.having /\ q.joins = <<>> /\ ~q.distinct

IsPlain(q) == ~q.qualify /\ q.group_by = <<>> /\ ~q.having /\ q.joins = <<>> /\ ~q.distinct

(* Mutant: the columns of the inner query, without the outer aliases. *)
InnerProjections(q) == q.subquery.projections

PushedProjections(q) ==
  [i \in DOMAIN q.projections |-> [q.projections[i] EXCEPT !.col = Unqualified(@)]]

(* The pushed query is built afresh: it keeps no ORDER BY and no LIMIT. *)
PredicatePushdown(q, catalog) ==
  LET inner == q.subquery
      names(ps) == [i \in DOMAIN ps |-> ps[i].col.name]
      outer == [i \in DOMAIN q.predicates |->
                  [q.predicates[i] EXCEPT !.left = Unqualified(@)]]
  IN  Proven(/\ inner # None
             /\ q.predicates # <<>>
             /\ ~ReferencesCte(q)
             /\ IsPlain(q) /\ IsPlain(inner)
             /\ \A w \in Range(q.predicates) : IsPredicate(w)
             /\ IsDirectTable(inner)
             /\ \A p \in Range(q.projections) \cup Range(inner.projections) : IsDirectColumn(p)
             /\ names(q.projections) = names(inner.projections)
             /\ \A w \in Range(q.predicates) :
                  /\ w.left.name \in Range(names(inner.projections))
                  /\ w.left.table \in {None, q.alias},
             1, [SelectFrom(inner.table, PushedProjections(q)) EXCEPT
                 !.alias = inner.alias, !.predicates = inner.predicates \o outer])

-----------------------------------------------------------------------------
(* registry.DEFAULT_RULES, in order. *)
DefaultRules ==
  <<"remove_unused_left_join", "remove_foreign_key_inner_join",
    "rewrite_join_distinct_to_exists", "remove_redundant_not_null_filter",
    "remove_redundant_accepted_values_filter", "simplify_accepted_values_case",
    "remove_redundant_distinct", "remove_redundant_count_distinct",
    "collapse_unique_group_by", "predicate_pushdown">>

(* rule.matches() with the outcome of rule.apply_match(). *)
Matches(rule, q, catalog) ==
  CASE rule = "remove_unused_left_join"         -> RemoveUnusedLeftJoin(q, catalog)
    [] rule = "remove_foreign_key_inner_join"   -> RemoveForeignKeyInnerJoin(q, catalog)
    [] rule = "rewrite_join_distinct_to_exists" -> RewriteJoinDistinctToExists(q, catalog)
    [] rule = "remove_redundant_not_null_filter" -> RemoveRedundantNotNullFilter(q, catalog)
    [] rule = "remove_redundant_accepted_values_filter" ->
         RemoveRedundantAcceptedValuesFilter(q, catalog)
    [] rule = "simplify_accepted_values_case"   -> SimplifyAcceptedValuesCase(q, catalog)
    [] rule = "remove_redundant_distinct"       -> RemoveRedundantDistinct(q, catalog)
    [] rule = "remove_redundant_count_distinct" -> RemoveRedundantCountDistinct(q, catalog)
    [] rule = "collapse_unique_group_by"        -> CollapseUniqueGroupBy(q, catalog)
    [] rule = "predicate_pushdown"              -> PredicatePushdown(q, catalog)

AvailableMatches(q, catalog) ==
  UNION {{[rule |-> rule, index |-> m[1], query |-> m[2]] : m \in Matches(rule, q, catalog)}
         : rule \in Range(DefaultRules)}

(* Mutant: only the first target is looked at. *)
ApplyAtFirst(rule, q, catalog) == {m \in Matches(rule, q, catalog) : m[1] = 1}

(* rule.apply(): the first match of a rule that has several, except for    *)
(* the filters.                                                            *)
Foremost(ms) == {m \in ms : \A n \in ms : m[1] <= n[1]}

Apply(rule, q, catalog) ==
  CASE rule \in {"remove_redundant_not_null_filter",
                 "remove_redundant_accepted_values_filter"} ->
         RemoveAllRedundant(rule, q, catalog)
    [] OTHER -> Foremost(Matches(rule, q, catalog))

(* suggest_rewrites(), and the query of its first proven suggestion.       *)
Suggestions(q, catalog) ==
  [i \in DOMAIN DefaultRules |-> Apply(DefaultRules[i], q, catalog)]

FirstProven(suggestions) ==
  LET proven == {i \in DOMAIN suggestions : suggestions[i] # {}} IN
  IF proven = {} THEN None
  ELSE (CHOOSE m \in suggestions[CHOOSE i \in proven : \A j \in proven : i <= j] : TRUE)[2]

FirstSuggestion(q, catalog) == FirstProven(Suggestions(q, catalog))
=============================================================================
