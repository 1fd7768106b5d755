------------------------------ MODULE CorpusRun -----------------------------
(***************************************************************************)
(* One task of a corpus run (research/corpus/runner.py): the strategies of *)
(* the configuration, one after the other, over one pair of caching        *)
(* oracles.  The oracles answer an edge in the same way whenever they are  *)
(* asked, because what they said first is cached.                          *)
(***************************************************************************)
EXTENDS Search

CONSTANTS
  Strategies,   \* the configured strategies, in order
  Outcomes,     \* what the oracles may say of all the edges
  Settings      \* steps, margins and tie policies

ASSUME CorpusAssumption ==
  /\ Strategies \in Seq(Rollouts \cup Selective)
  /\ Outcomes \subseteq [Edges -> Outcome]
  /\ Settings \subseteq [maxSteps : Nat \ {0}, margin : Nat, tie : {"shorter", "endpoint"}]

VARIABLES
  results,   \* the strategy results so far, in order
  cached     \* the edges whose verdict and measurement are in the cache

corpusVars == <<outcome, setting, search, results, cached>>

CorpusInit ==
  /\ outcome \in Outcomes
  /\ setting \in Settings
  /\ search = Nothing
  /\ results = <<>>
  /\ cached = {}

Start ==
  /\ search = Nothing
  /\ Len(results) < Len(Strategies)
  /\ search' = Started(Strategies[Len(results) + 1])
  /\ UNCHANGED <<outcome, setting, results, cached>>

Step == SearchStep /\ UNCHANGED <<outcome, setting, results, cached>>

(* The verifier calls of a search that the cache did not answer; a call    *)
(* that raises is a miss and leaves nothing in the cache.                  *)
AskedBy(s) == UNION {Asked(n) : n \in s.tried}

(* Mutants: the counter itself in place of the difference, and an          *)
(* exception that nobody catches.                                          *)
AllCalls(s)        == Cardinality(AskedBy(s))
EndedWell(s)       == s.answer \notin {Nothing, Failed}

CacheMisses(s) == Cardinality(AskedBy(s) \ cached)

Ended(s) == s.answer # Nothing

(* _run_strategy: a result, or an error that ends this strategy only.  The *)
(* oracles' counters go on from strategy to strategy, and _metrics_delta   *)
(* gives each its own part.                                                *)
Report ==
  /\ search # Nothing /\ Ended(search)
  /\ results' = Append(results,
       [strategy |-> search.strategy,
        status   |-> IF search.answer = Failed THEN "ERROR" ELSE "COMPLETED",
        misses   |-> CacheMisses(search)])
  /\ cached' = cached \cup {x \in AskedBy(search) : outcome[x].kind # "raises"}
  /\ search' = Nothing
  /\ UNCHANGED <<outcome, setting>>

CorpusNext == Start \/ Step \/ Report

CorpusSpec == CorpusInit /\ [][CorpusNext]_corpusVars /\ WF_corpusVars(CorpusNext)

-----------------------------------------------------------------------------
Answered(strategies) ==
  search # Nothing /\ search.strategy \in strategies /\ search.answer \notin {Nothing, Failed}

(* No path that a strategy evaluated is better than the one it returns by  *)
(* more than two margins, although candidates are dropped on the way:      *)
(* ranked out of the beam, or known by their SQL.  One margin is the       *)
(* choice, one the comparison that dropped the path; in a beam such        *)
(* comparisons follow each other, so there it is said for no margin only.  *)
NoTriedPathIsBetter ==
  Answered(Selective) /\ (search.strategy = "beam" => setting.margin = 0) =>
    \A n \in search.tried : n.reward <= search.answer.reward + 2 * setting.margin

(* Exhaustive search that was not cut off by its node limit finds the best *)
(* of all paths, up to one margin per step and one for the choice, although*)
(* it expands a query only for paths that improve on those before          *)
(* (algorithms.py:281-300).                                                *)
Walks ==
  LET walks[n \in 0..setting.maxSteps] ==
        IF n = 0 THEN {RootNode}
        ELSE UNION {ToSet(Children(w)) : w \in {w \in walks[n - 1] : Active(w)}}
  IN  UNION {walks[n] : n \in 0..setting.maxSteps}
ExhaustiveFindsTheBest ==
  Answered({"exhaustive"}) /\ ~search.cut =>
    \A n \in Walks :
      ~Raised(n) =>
        n.reward - search.answer.reward <= (setting.maxSteps + 1) * setting.margin

(* What a strategy returns, paths that scored no worse being dropped on    *)
(* the way, is near the best it saw or, in full, near the best there is.   *)
NothingBetterIsMissed == NoTriedPathIsBetter /\ ExhaustiveFindsTheBest

(* Every node a strategy evaluates is a new one, the node limit bounds     *)
(* them, and a search says so when it stopped at the limit                 *)
(* (docs/search-baselines.md:73-75).                                       *)
NodesAreCounted ==
  /\ Answered(Selective) =>
       search.explored = Cardinality(search.tried)
  /\ Answered({"exhaustive"}) =>
       search.explored <= MaxNodes /\ (search.cut => search.explored = MaxNodes)

(* Each transition is verified once for all strategies, and one more time  *)
(* for each strategy it was the end of (docs/task-corpus.md:225-231).      *)
Errors == {i \in DOMAIN results : results[i].status = "ERROR"}
MissesAreUniqueEdges ==
  Total([i \in DOMAIN results |-> results[i].misses]) = Cardinality(cached) + Cardinality(Errors)

(* What a result reports as explored and as missed in the cache is exact.  *)
CountersAreExact == NodesAreCounted /\ MissesAreUniqueEdges

(* Each strategy gets its result, whatever the ones before it ran into     *)
(* (docs/task-corpus.md:233).                                              *)
EveryStrategyReports == <>(Len(results) = Len(Strategies))
=============================================================================
