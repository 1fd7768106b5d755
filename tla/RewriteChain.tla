---------------------------- MODULE RewriteChain ----------------------------
(***************************************************************************)
(* suggest_rewrite_chain of src/qseal/rewrites/chain.py: apply the first   *)
(* proven rewrite of the whole query or, failing that, of one fragment of  *)
(* a WITH query, until nothing applies, a text comes back, or the budget   *)
(* is used up.  The chain trusts the rules: no verifier looks at a step.   *)
(***************************************************************************)
EXTENDS Rewriting

CONSTANTS
  Catalogs,   \* constraint catalogs
  Databases,  \* databases
  Asked,      \* the queries a chain may start from
  MaxSteps    \* max_steps, 8 unless the caller says otherwise

ASSUME MaxStepsAssumption == MaxSteps \in Nat \ {0}

VARIABLES
  seen,     \* seen: the texts so far, up to case and white space
  steps,    \* len(steps)
  status    \* "running", or the status of the result

chainVars == <<catalog, db, asked, shown, seen, steps, status>>

-----------------------------------------------------------------------------
(* The first suggestion for a text that parses, computed once. *)
SuggestionFor(text, cat) == CHOOSE s \in {FirstSuggestion(q, cat) : q \in {Parsed(text)}} : TRUE

(* The fragments of a WITH query.  A CTE body is parsed on its own; the    *)
(* outer query is parsed with the CTEs in scope whose body is a SELECT, so *)
(* that the name of a skipped CTE means a base table again.  A fragment    *)
(* that does not parse has no suggestion.                                  *)
CteSuggestion(q, cat) ==
  IF Len(q.with.bodies) = 1 THEN SuggestionFor(Body(q.with), cat) ELSE None
OuterInScope(q) == IF Len(q.with.bodies) = 1 THEN q ELSE Rendered(q)
OuterSuggestion(q, cat) ==
  IF Parses(OuterInScope(q)) THEN SuggestionFor(OuterInScope(q), cat) ELSE None

(* suggest_subtree_rewrites()[0]: the fragment's rewrite, spliced back.    *)
WithBody(q, body)   == IF body = None THEN None ELSE [q EXCEPT !.with.bodies = <<body>>]
WithOuter(q, outer) == IF outer = None THEN None ELSE [outer EXCEPT !.with = q.with]

SubtreeRewrites(q, cat) ==
  IF q.with = None THEN <<>>
  ELSE <<WithBody(q, CteSuggestion(q, cat)), WithOuter(q, OuterSuggestion(q, cat))>>

(* _next_proven_step: the whole query first.  Its rewritten SQL has no     *)
(* WITH clause.                                                            *)
WholeRewrite(q, cat) ==
  IF Parses(q) THEN WithOuter(Rendered(q), SuggestionFor(q, cat)) ELSE None

FirstRewrite(options) ==
  LET found == {i \in DOMAIN options : options[i] # None} IN
  IF found = {} THEN None ELSE options[CHOOSE i \in found : \A j \in found : i <= j]

NextProvenStep(q, cat) ==
  FirstRewrite(<<WholeRewrite(q, cat)>> \o SubtreeRewrites(q, cat))

-----------------------------------------------------------------------------
ChainInit ==
  /\ catalog \in Catalogs
  /\ db \in {d \in Databases : Satisfies(d, catalog)}
  /\ asked \in Asked
  /\ shown = asked
  /\ seen = {asked}
  /\ steps = 0
  /\ status = "running"

(* One turn of the loop that finds a rewrite: a text seen before ends it.  *)
Advance ==
  /\ status = "running"
  /\ steps < MaxSteps
  /\ \E r \in {NextProvenStep(shown, catalog)} \ {None} :
       \/ r \in seen /\ status' = "CYCLE" /\ UNCHANGED <<shown, seen, steps>>
       \/ /\ r \notin seen
          /\ shown' = r
          /\ seen' = seen \cup {r}
          /\ steps' = steps + 1
          /\ UNCHANGED status
  /\ UNCHANGED <<catalog, db, asked>>

(* Mutant: a text that does not parse is tried again. *)
SettleParsed ==
  /\ status = "running"
  /\ steps < MaxSteps
  /\ Parses(shown)
  /\ NextProvenStep(shown, catalog) = None
  /\ status' = "FIXED_POINT"
  /\ UNCHANGED <<catalog, db, asked, shown, seen, steps>>

(* Nothing applies.  Only a first turn reports a text that does not parse. *)
Settle ==
  /\ status = "running"
  /\ steps < MaxSteps
  /\ NextProvenStep(shown, catalog) = None
  /\ status' = IF ~Parses(shown) /\ steps = 0 THEN "UNSUPPORTED" ELSE "FIXED_POINT"
  /\ UNCHANGED <<catalog, db, asked, shown, seen, steps>>

(* The loop is over. *)
Stop ==
  /\ status = "running"
  /\ steps = MaxSteps
  /\ status' = "MAX_STEPS"
  /\ UNCHANGED <<catalog, db, asked, shown, seen, steps>>

ChainNext == Advance \/ Settle \/ Stop

(* The loop runs in one call: nothing keeps it from taking its next turn.  *)
ChainSpec == ChainInit /\ [][ChainNext]_chainVars /\ WF_chainVars(ChainNext)

-----------------------------------------------------------------------------
(* The final SQL of a chain returns the rows of the original, whatever it  *)
(* was composed of (README.md:16, docs/scope.md:241).                      *)
ChainSameRows == SameRows

(* A chain that reports a fixed point left nothing behind: what the        *)
(* environment would still offer for its final SQL is nothing, although    *)
(* the chain asks apply() and the environment asks matches().              *)
FixedPointOffersNothing ==
  status = "FIXED_POINT" /\ Parses(shown) => AvailableMatches(Parsed(shown), catalog) = {}

(* Every chain ends. *)
ChainEnds == <>(status # "running")
=============================================================================
