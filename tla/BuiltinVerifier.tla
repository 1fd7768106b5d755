-------------------------- MODULE BuiltinVerifier --------------------------
(***************************************************************************)
(* check_equivalence of src/qseal/verifier/check.py: which pairs of        *)
(* queries the built-in verifier certifies, refutes or leaves open.        *)
(***************************************************************************)
EXTENDS RewriteRules, SelectParser

(* The IR of a text keeps the mark of a relation that reads a CTE and      *)
(* forgets the CTE's body; _same_normalized_query compares that.           *)
Normalized(q) ==
  [q EXCEPT !.with = IF ReferencesCte(q) THEN [name |-> q.with.name] ELSE None]

(* Mutant: a comparison field by field that leaves QUALIFY out. *)
SameButQualify(p, r) ==
  Normalized([p EXCEPT !.qualify = FALSE]) = Normalized([r EXCEPT !.qualify = FALSE])

SameNormalizedQuery(p, r) == Normalized(p) = Normalized(r)

(* The rewritten SQL of a suggestion, parsed again, is the candidate. *)
Expects(rewritten, candidate) == SameNormalizedQuery(Rendered(rewritten), candidate)

IsDistinctRemoval(p, r) ==
  p.distinct /\ ~r.distinct /\ SameNormalizedQuery([p EXCEPT !.distinct = FALSE], r)

(* A projection counts by its name: "*" for a star, and for an expression  *)
(* the name the parser gives it, which is its alias or its text.           *)
ProjectedName(p) == IF IsDirectColumn(p) THEN p.col.name
                    ELSE IF p.kind = "star" THEN "*"
                    ELSE IF p.alias # None THEN p.alias ELSE "expression"

(* Mutant: without the guard for aggregates over the whole table. *)
RefuteAggregates(p, catalog) ==
  LET t     == TableOf(catalog, TableName(p))
      names == {ProjectedName(x) : x \in Range(p.projections)}
  IN  IF p.group_by # <<>> \/ p.having THEN "unknown"
      ELSE IF TableName(p) = None THEN "unsupported"
      ELSE IF t # None /\ NonNullUniqueKeyIn(t, names) THEN "proven"
      ELSE IF t # None /\ HasUniqueKey(t, names) THEN "unknown"
      ELSE "not_equivalent"

CheckDistinctRemoval(p, catalog) ==
  LET t     == TableOf(catalog, TableName(p))
      names == {ProjectedName(x) : x \in Range(p.projections)}
  IN  IF p.group_by # <<>> \/ p.having THEN "unknown"
      ELSE IF TableName(p) = None THEN "unsupported"
      ELSE IF \E x \in Range(p.projections) : IsAggregate(x) THEN "unknown"
      ELSE IF t # None /\ NonNullUniqueKeyIn(t, names) THEN "proven"
      ELSE IF t # None /\ HasUniqueKey(t, names) THEN "unknown"
      ELSE "not_equivalent"

(* What decides for two texts that differ: the first test that applies.    *)
CheckEquivalence(original, rewritten, catalog) ==
  IF \E m \in AvailableMatches(original, catalog) : Expects(m.query, rewritten) THEN "proven"
  ELSE IF IsDistinctRemoval(original, rewritten) THEN CheckDistinctRemoval(original, catalog)
  ELSE IF \E rule \in {"remove_redundant_not_null_filter", "remove_unused_left_join",
                       "rewrite_join_distinct_to_exists", "predicate_pushdown"} :
            \E m \in Apply(rule, original, catalog) : Expects(m[2], rewritten)
  THEN "proven"
  ELSE "unknown"

(* BuiltinVerifierBackend.verify: both texts have to parse, and one text   *)
(* is equivalent to itself.                                                *)
Verify(original, rewritten, catalog) ==
  IF ~Parses(original) \/ ~Parses(rewritten) THEN "unsupported"
  ELSE IF original = rewritten THEN "proven"
  ELSE CheckEquivalence(Parsed(original), Parsed(rewritten), catalog)
=============================================================================
