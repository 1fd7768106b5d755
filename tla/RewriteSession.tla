--------------------------- MODULE RewriteSession ---------------------------
(***************************************************************************)
(* A rewriting session over concrete queries: the caller picks one of the  *)
(* matches the registry offers for the query it is shown, the rule builds  *)
(* the rewritten SQL, the built-in verifier checks the pair, and a proven  *)
(* rewrite becomes the query the next matches are computed from.  This is  *)
(* the accepted step of RewriteEnvironment with queries, rules and the     *)
(* verifier given content, observed on one database.                       *)
(***************************************************************************)
EXTENDS Rewriting

CONSTANTS
  SessionSettings  \* what goes together: [catalogs, databases, asked], three sets
                   \* of constraint catalogs, databases and queries to start from

sessionVars == <<catalog, db, asked, shown>>

SessionInit ==
  /\ \E s \in SessionSettings :
       /\ catalog \in s.catalogs
       /\ db \in {d \in s.databases : Satisfies(d, catalog)}
       /\ asked \in {q \in s.asked : Parses(q)}
  /\ shown = asked

(* step(): the action is one of the matches, and the rewritten SQL has to  *)
(* be proven before it replaces the current one.                           *)
Step(match) ==
  /\ match \in AvailableMatches(Parsed(shown), catalog)
  /\ Verify(shown, Rendered(match.query), catalog) = "proven"
  /\ shown' = Rendered(match.query)
  /\ UNCHANGED <<catalog, db, asked>>

SessionNext == \E match \in AvailableMatches(Parsed(shown), catalog) : Step(match)

SessionSpec == SessionInit /\ [][SessionNext]_sessionVars

-----------------------------------------------------------------------------
(* The rows the caller sees come in the same columns: a rewrite neither    *)
(* renames a column nor moves one (to_sql of each rewritten query).        *)
OutputNames(q) ==
  [i \in DOMAIN q.projections |->
     IF q.projections[i].kind = "case" THEN q.projections[i].alias ELSE OutputName(q.projections[i])]
SameColumns == OutputNames(shown) = OutputNames(asked)

(* A session keeps the whole result: rows and columns. *)
SameResult == SameRows /\ SameColumns

(* Joins, DISTINCTs, groupings, nestings, filters and CASE branches: what  *)
(* rewrites take away.  A join may leave an EXISTS behind.                 *)
Branches(p) == (IF p.kind = "case" THEN 1 + Len(p.branches) ELSE 0)
               + (IF p.kind \in {"count_distinct", "max"} THEN 1 ELSE 0)
Own(q) == 3 * Len(q.joins) + Len(q.predicates) + (IF q.distinct THEN 1 ELSE 0) + Len(q.group_by)
          + Total([i \in DOMAIN q.projections |-> Branches(q.projections[i])])
Weight(q) == Own(q) + (IF q.subquery = None THEN 0 ELSE 1 + Own(q.subquery))

(* No session goes round in circles: each accepted rewrite leaves a query  *)
(* with less left to remove, in which the CTEs are inlined that the parser *)
(* inlines, so that the matches run out (registry.DEFAULT_RULES).          *)
RewritesShrink == [][Weight(Parsed(shown')) < Weight(Parsed(shown))]_shown
=============================================================================
