# QuerySeal in TLA+

QuerySeal proposes rewrites of SQL queries, proves for some of them that the
result is unchanged under declared constraints, and measures whether they pay
off. What makes it useful is one promise (README.md:16): *"A proven rewrite
means: for the supported SQL subset, the rewritten query returns the same rows
as the original under the declared assumptions."* This directory says what the
code does about that promise, piece by piece, and checks it.

Run everything from this directory: `tlc -config MCChain.cfg MCChain` for a
model, `tlapm Research_proofs.tla` for the proofs.

## 1. The system

| part | state it keeps | operations | hard behaviour |
|---|---|---|---|
| IR and parser (`ir/`, `parser/`) | none; a query is a value | parse, render, fragments of a WITH query | rendering forgets WITH; a name may be a table or a CTE |
| constraints (`constraints/`) | a catalog of keys, non-null columns, accepted values, foreign keys | load, look up | keys exempt NULL |
| rules and registry (`rewrites/`) | none | `matches`, `apply_match`, `apply`, in registry order | each premise of each rule; rules feed one another |
| chain (`rewrites/chain.py`, `subtree.py`) | current SQL, texts seen, steps | one loop | termination, cycles, CTE scopes |
| verifier (`verifier/`) | none for the built-in one; subprocesses for solvers | `verify` | what a solver is told of a catalog; timeouts, disagreement, false refutations |
| environment (`research/environment/`) | task, observation, done, trajectory file, cache | `reset`, `step` | failures part-way through a step, stale actions, rewards over cached measurements |
| search (`research/search/`) | frontier, paths | seven strategies | replay of paths, ranking with a margin |
| corpus (`research/corpus/`) | results per task and strategy | run, repeat, aggregate | one strategy failing, shared cache |
| policy (`research/policy/`) | weights | train, score | leakage between splits |
| candidates (`candidates/`, `cli/llm.py`, `cli/candidates.py`) | directories of bundles, partial reports, a snapshot of the catalog | generate, verify, benchmark, explain, merge, run, check, evidence | directories shared by runs and models, files read twice, partial reports, conflicts |
| dbt (`dbt/`, `report/patch.py`, `cli/dbt.py`) | a project's files, patch files, reports | scan, apply, patches, intake, crosscheck | constraint merge by name, which suggestion is shown, files edited while a command runs |
| benchmark (`benchmark/`) | a connection, a watchdog thread | measure, measure a pair | interrupts racing the statement |
| cache (`cache.py`, `environment/cache.py`) | JSON files | load, store | crashes, concurrent processes |

How they interact. The environment is the centre: `step` calls the registry
for the rewritten SQL, the verifier for the verdict, the performance evaluator
for the reward, the parser and the registry again for the next actions, and
the recorder last. Search strategies and the corpus runner drive environments;
policies score their actions. `qseal suggest --chain` and the dbt scan call the chain and the
registry directly, without a verifier. All calls are synchronous within one
process; processes meet in the cache directory, in trajectory files, in the directories
of candidates and in the files of a dbt project, where a developer, dbt itself
and several commands of qseal read and write with no lock between them.

What makes each part correct: rules and verifier certify only queries with
the same rows and columns; a session or chain of certified rewrites stays
equivalent to where it started, and ends; the environment never shows an
uncertified query nor offers a stale action, whatever fails; rewards of an
episode depend on its end points; reports and caches survive crashes; search
returns the best of what it has seen; a candidate lies beside the query it was
asked for; a patch is only written over the text that was scanned; and an exit
code or a report says what happened.

## 2. Modules

| module | models | composed from |
|---|---|---|
| `Collections` | list comprehensions, sums and dictionary assignment, written so that they can be reasoned about | |
| `Collections_proofs` | induction over the natural numbers, and what it gives for those operators and for finite sets | `Collections`, `TLAPS` |
| `CertifiedRewriting` | abstract: a driver that shows only queries equivalent to the one asked | |
| `RewriteEnvironment` | `research/environment/core.py`, with the recorder and the caches as it sees them | implements `CertifiedRewriting` |
| `Research_proofs` | theorems about it and about `CorpusRun` | `RewriteEnvironment`, `CorpusRun`, `Collections_proofs` |
| `SqlQuery` | the IR, the constraint catalog, and what a database returns | |
| `RewriteRules` | the ten rules and the registry | `SqlQuery` |
| `SelectParser` | how the parser resolves and inlines CTEs, and what it refuses | `SqlQuery` |
| `BuiltinVerifier` | `verifier/check.py` | `RewriteRules`, `SelectParser` |
| `SolverBackends` | what SQLSolver, QED and VeriEQL are told and what becomes of their answers | `BuiltinVerifier` |
| `Rewriting` | what a session and a chain share: the query asked for, the one shown, the catalog, one database | `BuiltinVerifier` |
| `RewriteSession` | `step`'s accepted path over concrete queries, with the rules and the built-in verifier | `Rewriting` |
| `EquivalenceCheck` | one `qseal check` or `qseal refute` of a hand-written candidate | `SolverBackends` |
| `RewriteChain` | `suggest_rewrite_chain` with fragments | `Rewriting` |
| `Rewriting_proofs` | theorems about the rules, and with them about sessions, chains and checks | `RewriteSession`, `RewriteChain`, `EquivalenceCheck`, `Collections_proofs` |
| `EntryStore` | abstract: a store whose entries appear whole | |
| `JsonFileCache` | `cache.py`: one directory of files, its processes and the file system below | implements `EntryStore` |
| `StateMeasurements` | `CachedPerformanceEvaluator` with interleaved pairs, several corpus runs on one directory | `JsonFileCache` |
| `StateMeasurements_proofs` | theorems about both | `StateMeasurements`, `Collections_proofs` |
| `Search` | `research/search/algorithms.py`, all strategies | |
| `CorpusRun` | one task of `research/corpus/runner.py`: every strategy over one cache | `Search` |
| `CandidateVerification` | `candidates/verification.py`: the cascade, the reports, their merge | |
| `CandidateVerification_proofs` | theorems about it | `CandidateVerification`, `TLAPS` |
| `DbtProject` | the files of a dbt project, their discovery, the merge of their constraints; a developer who edits | |
| `DbtScan` | `dbt/scan.py`, `dbt/intake.py`, `report/patch.py`, `cli/dbt.py` | `DbtProject` |
| `DbtScan_proofs` | theorems about it | `DbtScan`, `Collections_proofs` |
| `CandidateBundles` | `candidates/generation.py`, `benchmarking.py`, `cli/llm.py` | `DbtProject` |
| `CandidateCommands` | `cli/candidates.py`, `candidates/evidence.py`, `report/guards.py` | `CandidateBundles` |
| `CandidateCommands_proofs` | theorems about both | `CandidateCommands`, `Collections_proofs` |
| `DuckdbBenchmark` | `benchmark/duckdb.py`: one benchmark of a query or a pair, with its watchdog threads | |
| `DuckdbBenchmark_proofs` | theorems about it | `DuckdbBenchmark`, `Collections_proofs` |
| `MCTables` | small databases and catalogs shared by the instances | `BuiltinVerifier` |
| `MC*` | instances, one per configuration or family of them | |

### RewriteEnvironment

`task`, `obs` and `done` are `_task`, `_observation` and `_done`. `measured` is
what a caching evaluator holds per query and `log` what the trajectory file
holds of the episode. `Reset` is `reset()`; a task whose SQL does not parse is
refused before any assignment, so it is no action. `step()` has three
outcomes. `StepRejected`: the verdict is not a proof, the episode ends on the
query it has. `StepAccepted`: measured, parsed, observed, assigned, recorded.
`StepRaises`: something between verdict and assignment raises (the rewritten
text does not parse, the evaluator fails), and only what the evaluator stored
stays. The recorder writes last: it may raise after the episode has moved on,
which is the second disjunct of `Record`. Every condition of
`_active_episode()` guards every step.

Queries, rewrites, matches and equivalence are constants. A verifier is any
function that certifies only equivalent pairs; it may always fail to. A cached
verdict is one of those, because its key holds the pair, the constraints and
the backend. A query's measurement is the logarithm of a median (whole numbers
stand for them, rewards count in hundredths), or `Unsure` for everything that
earns zero: a failure, a timeout, a low-confidence timing. With
`RewardModel = "state"` an entry, once there, is reused.

### SqlQuery, RewriteRules, BuiltinVerifier

A query is a record with the fields of `SelectQuery`; a text is identified
with the record it parses to, so that "same text" is equality and `Rendered`
is what is lost by `to_sql()` and parsing again: the WITH clause. A rule is a
set of pairs (target index, rewritten query), empty when the rule does not
report a proof. The semantics in the second half of `SqlQuery` is the
reference the rules are judged by, and is not code of the repository: it is
marked external in the map. A table maps row identities to rows, `Rows` is the
set of bags of rows a database may return (LIMIT chooses rows, so there may be
several), and a query with a name that does not resolve returns none.

What is abstracted: literals are small integers; MAX stands for MAX, MIN and
ANY_VALUE; `HAVING` is `COUNT(*) > 1` and `QUALIFY` is
`COUNT(*) OVER () = 1`, the two being clauses no rule looks into; an opaque
predicate is `c IS NULL OR c = v`; ORDER BY only has to resolve, because LIMIT
without it is already free to keep any rows. Left out: OFFSET, set operations,
GROUP BY expressions, aliases of joined tables, derived tables in joins.

### SelectParser

A WITH clause has one CTE. A read CTE that only passes rows through is replaced
by its table, one that only projects columns is inlined into the query that
reads it, and every other one stays a relation of its own, marked by its name;
`Parsed` is the result, `Parses` what the parser refuses (a UNION as a body, a
CTE whose body reads its own name). Rules, chains and checks see a query only
through these two. The parser's test for a pass-through body does not look for
OFFSET (sqlglot_parser.py:386-398), so a query over `SELECT * FROM t OFFSET 1`
is treated as one over `t`; the queries here have no OFFSET, and that is no
claim of the models.

### RewriteSession, EquivalenceCheck, RewriteChain

A session picks any match of the registry whose pair the built-in verifier
certifies, any number of times. A check gives one verdict on one pair by one of the
backends. A chain
takes the first proven suggestion of the whole query, else of a fragment
(`SubtreeRewrite`), until nothing applies, a text comes back or `MaxSteps` is
reached. Each observes one database that satisfies the constraints, chosen
initially, so that TLC visits them all. Sessions and chains share the variables
and `SameRows` of `Rewriting`. As one module of proofs is about all three, their
specifications are called `SessionSpec`, `ChainSpec` and `CheckSpec`.

### SolverBackends

`Told` is the schema a backend hands its solver: tables, their columns, and
those of the declared constraints that the solver can be told. SQLSolver gets
the tables a query mentions and the catalog knows, keys of one non-null column
as PRIMARY KEY, and foreign keys between such tables; QED the columns a pair
reads, attributed to their tables, non-null columns, and keys over those;
VeriEQL the same, or nothing at all (`CannotEncode`) when a foreign key or a
nullable key is declared, or QUALIFY is used. A column whose owner is not sure
makes QED and VeriEQL abstain. The solvers are external: each is right about
the databases of the schema it was told that have `Values` in their columns
and as many rows as `sizes` says, or it gives up, or fails. `BackendVerdicts`
are the verdicts the backend may make of that: QED never refutes and VeriEQL
never proves. Processes and their time limits, the syntax of the encodings,
column types, qualified relation names, predicates with subqueries and QED's
and VeriEQL's own expansion of `*` at the top of a query (over the declared
columns only) are left out.

### JsonFileCache, StateMeasurements

`disk` is what a name in the directory holds: nothing, a whole value, or a
torn one. A store is the code's sequence: write a temporary file (`Write`),
flush and fsync it (`Sync`), `os.replace` it over the entry (`Replace`); on an
exception the temporary file is removed (`Abandon`). POSIX is taken at its
word and no further: a rename is atomic for readers, but until the directory
reaches the disk (`Settle`) a power failure may undo it, and what was written
but not synced may come back torn. A killed process simply stops.

`StateMeasurements` puts `evaluate_query_pair` on top, line by line: both
lookups, one measurement for what is missing, normalisation onto the scale of
the entry that was there, the stores in order, the return. A call for a single
query (`evaluate_query`) is the pair `<<q, q>>`, which is what line 126 makes
of an equal pair. A measurement session has a scale of its own (a slower
machine, a colder cache); a value is a query's cost on a scale, or `Failed`.
A pair fails as a whole. The processes are corpus runs, each of which walks
from the task's root and follows what it measured (`Ask`); `Raise`, `Kill` and
`PowerFails` may come at any step. `Flush` bounds how many renames are
unsettled.

Two runs that overlap on one directory, or a power failure that undoes a
rename, let two scales into one cache. That is what the code does, so the parts
of `EntriesAreSound` and `EntriesStand` are stated for directories without
either; only wholeness is claimed for all.

### Search, CorpusRun

A task is a graph: the actions offered for each query and the query each leads
to. `outcome` is what the oracles say of an edge: proven with a reward,
refused with a penalty, or an exception. A node is what `_run_sequence`
returns, with the pairs it asked the verifier about in place of the
transitions. A replay of a path gets the answers of the first time because the
oracles cache them, so the child of a node is one step from it; what the
replay costs is counted in `AskedBy`. `search` holds the variables of all
strategies, of which each uses its own. One action is one evaluated node
(rollouts, abstaining and exhaustive search) or one round of `_expand_node`
(greedy and beam search), whose nodes are evaluated in order up to one that
raises. A random choice or a model's score is any action. `CorpusRun` starts
the strategies in order, and reports a result or an error for each, with the
part of the counters that is its own. Its constants and its specification have
names of their own (`Sql`, `Nothing`, `CorpusSpec`) beside those of
`RewriteEnvironment`, since one module proves about both.

### CandidateVerification

A candidate and its original are queries: CTEs, each with a name, the columns
it is read by, and a body, and the outer query. `Reduces` is `reduce_pair`, test
by test: where everything but one body is the same, the provers are asked about
the two bodies (`Asked`). What cannot be told from the text is given with a
pair: whether it parses, whether the queries are equivalent, whether the bodies
are, and whether the built-in verifier certifies what it is asked. Of these
`FactsAssumption` demands that a congruence is one: queries that are the same
but for one body, *read by the same columns*, are equivalent if the bodies are.
The converse is not assumed, nor that what reduces is congruent: `reduce_pair`
compares the name and the body of a CTE, never its columns
(pair_reduction.py:53-55). `facts` holds this truth and which backend errs, if
any; a backend that does not err says what is so of what it was asked, or
nothing. So `BucketsAreTrue` says of a proven row that what was asked is so,
and that the whole pair is equivalent where this carries over (`CarriesOver`: it
was not reduced, or its CTEs are read by the same columns); and `NoFalseAlarms`
that alarms and conflicts are over other pairs, or mean a backend that errs.
`call` is a phase of
`verify_bundles`: one `Verify` per candidate, and two steps per report,
because `write_text` empties the file before it fills it. `Interrupt` is a
kill, or an exception out of a backend. `merge` is `merge_reports`, row by row, over
whatever the files hold, an earlier call's partial rows included; `seen` is a
history of the buckets read for each candidate. A file that is empty makes
`json.loads` raise. A merge starts when no phase runs and only once, since
merges change no report; rows that a merge would find beside a running phase
are those an interrupted one leaves.

### DbtProject, DbtScan

`DbtProject` is what lies on disk: model files (`source`), schema files
(`schema`), compiled SQL (`target`), with `Edit`, a developer who saves,
reverts or deletes a file at any moment. A text is a model value, and `About`
says what Jinja makes of it and what the rules say of the result, each finding
with the tests it needs. Everything else is the code's: which directory of
`target/compiled/` is taken, which file of it stands for a model, what has
changed against git, which constraint each test becomes, and how relations and
files are merged under an unqualified name, column by column and key by key.

`DbtScan` runs the commands on it. `phase` is where a command is: it discovers
the models (`Discover`), reads one schema file after the other (`LoadSchema`),
then each model twice, once to scan it (`Scan`) and once for what its result
quotes (`ReadAgain`), and reports. A scan then writes patch files
(`WritePatch`) or applies what is ready: compare (`ApplyCheck`), empty the file
(`OpenModel`), fill it (`FillModel`), three steps because a save or a kill may
come in between. `Intake` counts; crosscheck reads the schema files again and
lets the refuter refute any pair that needs more than it is told (`Refute`).
`Kill` may come at any step. `Truth` and `Meaning` are the warehouse: the tests
declared hold, and a rewrite whose tests hold keeps the meaning of its text,
which two assumptions of the module (`RulesAreSoundAssumption`,
`TestsHoldAssumption`) state and every run checks.

### CandidateBundles, CandidateCommands

On the same files, `CandidateBundles` adds `qseal llm generate` (select,
ask one by one or as a batch, write `original.sql`, candidates and metadata
file by file, then the snapshot of the catalog) beside `verify`, `benchmark`
and `explain`, which read the directories and each other's reports.
`CandidateCommands` adds `qseal candidates generate`, `run`, `check` and
`evidence`, which work on one of these directories; their variables are
`step`, `checks` and `evidence`. The service is external: it offers any of the
`Answers` of a text, or fails, per request or for the batch. Directories are
named by the stem of the model file (generation.py:195), so two models may
share one, and nothing is deleted by a later run. Each process goes one file
at a time, so that an edit, another process or a kill (`KillGenerate`,
`KillReading`, `KillJob`) falls between any two. `answered`, `unfinished` and
`disturbed` are history variables.

`llm verify` reads the metadata of a directory (`OpenBundle`), then its original
(`OpenOriginal`), then one candidate after the other, each as it is by then; a
row keeps the pair that was read and verified. `benchmark` takes the proven rows
of the report and reads their files once more. What it measures may differ in
its row counts (`MeasureOutcomes`) unless it is one query twice, or a sound rule
leads from one to the other and the synthetic data has what that rule rests on
(`Synthesized`). `Unsound` is a constant: pairs that a rule takes for one
although their rows may differ on data that keeps every test; the runs
`duplicated_projection` and `distinct_over_join` show that there are some.

### DuckdbBenchmark

A benchmark is one list of tasks, counted from 0: the warm-ups, the plans, one
calibration per query if there is a minimum duration, and the samples, of which
each is a batch of executions. `at` is the task under way; a pair alternates
which query goes first. Every execution is one `_execute_with_timeout`, whose
steps are actions of two threads: the measuring thread starts a watchdog
(`StartWatchdog`), starts the statement (`Begin`), gets rows or an exception
(`Return`, `Raise`), waits for the watchdog and goes on (`Continue`, `GiveUp`);
the watchdog waits for the event (`Leave`) or gives up (`Expire`) and then
interrupts the connection (`Interrupt`), with any of the other thread's steps
in between. The wait may give up although the event is set by the time it
does, so `Expire` does not look at the event. Calls are numbered, and `finished`
and `timed_out` say which of them have their events set. DuckDB is external: a statement
that begins clears an interrupt that came before it. `endless` says which
queries only an interrupt can stop. `calibrated`, `steady`, `stopped` and
`missed` are history variables.

Left out are deviations and the speedup, the wording of reasons, the check of
the arguments, and a database that cannot be opened: `duckdb.connect` is called
outside the `try`, so that failure raises to the caller.

## 3. Runs

| run | what it asks | instance |
|---|---|---|
| `environment` | certified, current, replayable, telescoping episodes; refinement of `CertifiedRewriting` | three tasks over a diamond of four queries and two texts that do not parse; budgets 2 and 3; measurements {0, 1, Unsure} |
| `sessions` | rows, columns and shrinking for sessions of any rewrites | three families: one-table queries (`MCFilters`) on all users tables of at most two rows over {1, 2, NULL}, four catalogs; joins (`MCJoins`) on all pairs of such tables, four catalogs; subqueries and CTEs (also `MCFilters`), two catalogs, with CTEs that hide a table under another's name |
| `verdicts` | soundness of both definite verdicts, and truth of what solvers are told | `OneTable`: every pair of 25 queries, four catalogs, every users table, built-in; `Hidden`: queries over CTEs of six bodies, one of which hides a table, against each other and without the CTE; `Solved` and `Joined`: one and two tables for each of the three solvers, whose tables have at most two rows over {1, 2, NULL} |
| `chain` | chains end, agree with the matches, keep rows | seven flat queries, WITH queries whose CTE hides a table or not, shadowing and self-shadowing names, UNION bodies; budget 3, so that the longest chain is cut |
| `cache` | whole and stable entries, one scale, answers that are entries, misses that count them; refinement of `EntryStore` | one process following the three edges of a triangle of queries, one measuring the root alone; two scales; one exception, kill or power failure, anywhere |
| `corpus` | what strategies return against what they tried and what exists, limits, counters, isolation of errors | the diamond a-b-d, a-d with a dead end and a tail; rewards -1 and 1 on each edge, at most one edge refused or raising; budgets 2 and 3, margins 0 and 1, both tie policies, five nodes, beams of two |
| `candidates` | truth of rows, alarms, completeness of final reports, best verdict of a merge, reasons to fail | a candidate of any of fifteen kinds (equivalent or not, as a whole or in one body, certified or not, differing in the columns of one CTE or another, a name, the outer query, the number of CTEs) next to one of mere layout; the refuter's phase and the solvers'; a report after every row; nobody, the built-in verifier, SQLSolver or VeriEQL errs; merges of two and three reports, also one twice |
| `benchmark` | interrupts that hit their own statement, timeouts told from errors, threads that end, confident timings, benchmarks that end | pairs with and without warm-ups, single queries with two and three samples; executions take 0, 1 or 3; a minimum of 4 or none; a cap of three executions per sample |
| `dbt` | findings rest on tests of their table, files keep their meaning, what is ready is applied, what is silent has a reason, crosscheck blames the right thing, reports add up | five projects of two models (no compiled SQL, one's own, two packages', one under another name; a WITH, a UNION, Jinja that renders and that does not), four contents of each of two schema files; fourteen command lines, two one after the other; one edit and kills anywhere; chains of two steps |
| `candidate_files` | candidates beside their original, accounted runs, suspects with a cause, success that is proof, evidence of what was proven | three projects of three models, two of one stem; two catalogs; one rule that is unsound; answers right, wrong, missing and unreadable; four ways to generate, four to read, seven jobs, at most two of a kind; one edit and kills anywhere |

A property of a run may be the conjunction of two: `SameResult` is `SameRows`
and `SameColumns`, `EntriesAreSound` one scale (`DriftFree`) and exact misses
(`MissesAreEntries`), `EntriesStand` `EntriesAreStable` and
`ReturnsTheEntries`, `NothingBetterIsMissed` and `CountersAreExact` two each
about a strategy's answer and its counters, `ReportsAddUp` patches and intake,
`EvidenceIsSound` what evidence shows and what it asks to keep.

The bounds of `candidate_files` that are no constants are in `Running`: runs of
llm generate follow each other, or one of them, or candidates commands, goes on
beside the readers. In `verdicts`, the tables of `Joined` have a row at least,
since an empty table does not say which columns it has and names of columns are
what that family is about; no join reads a CTE.

Why the bounds are enough. Every rule is about one table or two, and each of
its premises is refuted by at most two rows: a duplicate, a NULL, a missing
partner. The catalogs hold each premise and its absence. The longest session
any of the queries allows is explored to its end. In the environment, two
routes to one query, a route back, a pair that is equivalent for one task
only, a text that cannot be parsed and a budget that is met by either task are
all present. In the cache, three queries give an anchor, a query measured against
it and one measured against that; two processes and one failure give every
overlap of one store with another. In the search, two routes of different
length to one query, whichever is better, differ by less and by more than the
margin, the shorter route or the longer is cut off by the budget, the node
limit falls inside a node's actions, and action identifiers sort differently
from their order in the registry. In candidate verification, three reports are
the fewest in which one follows a conflict, and two candidates the fewest that
make a report partial. In a benchmark, each kind of task occurs, an even and an
odd number of samples have their median taken, and the minimum is met below the
cap, at the cap, and not at all; threads only ever meet at two calls in a row.
In a dbt project, each hazard needs two models or two schema files, one edit,
and a second command that finds what the first has left; the texts include one
with two rules of which the unproven comes first, one whose rewrite is
rewritten again, and one rule that rewrites two fragments. Of candidates, two
models that share a directory, one run after another and one reader are the
fewest that can mix up whose candidate is whose.

The runs that expect a violation each check one property that the repository
states and the code breaks:

| run | the code |
|---|---|
| `duplicated_projection` | JOIN to EXISTS drops DISTINCT without a key in the projection (join_distinct_exists.py:150) |
| `distinct_over_join` | a check certifies dropping DISTINCT over a join from the key of one table (check.py:178) |

Three more are one edit of a configuration away:

| edit | violated | the code |
|---|---|---|
| in MCChain.cfg, `Asked <- ShadowingUnion` | `ChainSameRows` | a skipped UNION CTE gets the constraints of the table it hides (fragments.py:44; its comment says that no premises are attached) |
| in MCCandidateVerification.cfg, the invariant | `DisagreementsAreReported` | a third report after a conflict makes the merge raise (verification.py:213; its docstring says that the conflict wins) |
| in MCCandidateVerification.cfg, the invariant | `ProofsCarryOver` | two queries that read a CTE by other columns, `WITH t(a, b) AS (...)` and `WITH t(b, a) AS (...)`, are reduced to its bodies, whose proof is taken for one of the whole (pair_reduction.py:53; its docstring says that every later reference sees the same relation) |

`MCSessionFindings` and `MCCheckFindings` hold more shapes of queries for which
a certificate or a refutation does not hold; putting the name of a family in
the `Settings` line of MCDuplicatedProjection.cfg (or of
MCDistinctOverJoin.cfg, with the invariant named here) shows each of them:

| family | the code |
|---|---|
| `OrderedByJoined` | a LEFT JOIN goes although ORDER BY uses it (join_elimination.py:287) |
| `OrderedByAggregate` | GROUP BY goes although ORDER BY aggregates (group_by_unique.py:138) |
| `LimitedSubquery` | pushdown loses the subquery's LIMIT (predicate_pushdown.py:139) |
| `RenamingSubquery` | pushdown ignores the subquery's aliases (predicate_pushdown.py:168) |
| `ExistsOverCte` | filter rules miss a CTE and lose its WITH (not_null_filter.py:149) |
| `CaseOverSubquery` | IN over a subquery is taken for an empty list (accepted_values_case.py:261) |
| `StarOverProjection` | a CTE that projects columns is inlined under `SELECT *`, which then shows the table's other columns (sqlglot_parser.py:357) |
| `DistinctStar`, `RefutedMeansDifferentRows` | a check refutes dropping DISTINCT from SELECT * over a key (check.py:253) |
| `DistinctOfOneRow`, `RefutedMeansDifferentRows` | a check refutes dropping DISTINCT although a filter on a key, or LIMIT 1, leaves one row (check.py:253) |
| `AcceptedValuesUntold` with `Values = {1, 2, 3}`, `RefutationIsSound` | accepted values are neither told to VeriEQL and SQLSolver nor a reason to abstain, and a pair that needs them is refuted (verieql.py:404-448); docs/verieql-spike.md:94 says that unsupported premises make it abstain |

The passing runs `sessions`, `verdicts` and `chain` therefore take queries
outside these shapes; the modules themselves are the same in both.

Four passing properties are weaker than what the documents say, because the code
is. docs/rewrite-environment.md:63 says that state rewards remove the dependence
on the order of rewrites: an edge with a low-confidence end earns zero
(core.py:383), so two routes to one query may differ, and
`ConfidentReturnIsStateDifference` is about episodes without such an edge.
docs/task-corpus.md:79 says that a query is repeated often enough to reach the
target duration: the number of executions comes from a single calibrating one,
and below the cap nobody looks at what the batches took (duckdb.py:411), so
`ConfidentIsLongEnough` is about executions no faster than that one.
cli/dbt.py:415 says that a refutation in crosscheck is a bug or an untrue
constraint: it is also what an edit of a schema file, or accepted values, lead
to, and `CrosscheckBlamesRightly` names both. docs/scope.md:238 says that a scan
reports the proven rewrites: a rule that applies but is not proven hides one that is
(scan.py:282), and `SilentOnlyBehindAnother` says that nothing else does. For
the same reason `RefutedMeansDifferentRows` has `ToldEverything` as its
premise: docs/llm-candidates.md:56 takes SQLSolver's NEQ for a refutation,
which the constraints it was not told of may forbid.

Other places where code and documents differ, met while modelling and not
stated as properties: of two rewrites of one rule in one model only the later
keeps its patch file (patch.py:46-53; docs/scope.md:276 has one per proven
rewrite); `--apply-patches` compares the scanned text with the file after
stripping both, so edits of outer blanks are lost (patch.py:88); a CTE that
shadows the table it reads is refused as recursive (sqlglot_parser.py), which
SQL accepts; the comment at benchmarking.py:136 does not count with a directory
written, or a catalog changed, between verification and benchmark, nor with a
rule that is unsound, and each of the three disjuncts of
`SuspectMeansUnmetPremise` that name them is needed: without it the run
`candidate_files` ends in a violation; and the guards of a row ask for `not_null` and `unique` on every column of a key
(guards.py:22-32), which is enough, and more than the proof needs.

## 4. Fairness

`RewriteChain` claims that chains end (`ChainEnds`) and `CorpusRun` that every
strategy reports (`EveryStrategyReports`), each under weak fairness of its
next step: the loop runs inside one call on one thread, nothing else is
needed for it to go on. A verifier that never answers is outside the second
claim: solvers run with timeouts, which are exceptions or verdicts there.
`DuckdbBenchmark` is weakly fair to both threads, which the operating system
runs, and to the exception in a statement that was interrupted, which is what
DuckDB promises; a statement that was not need not fail, nor ever return.
`EndsUnlessMissed` holds under that fairness, with its premise: the watchdog is started
before the statement (duckdb.py:355-357) and interrupts once, so with a timeout short
enough the interrupt may come first, be forgotten, and leave an endless
statement running.
Measurements, scans and commands on candidates claim no liveness, since
processes may be killed. Sessions, checks and environments are driven by a
caller who may stop at any time; they claim no liveness. Where the caller
stops or nothing applies, the system rests, so deadlock is not checked for
sessions, checks, chains, benchmarks and commands, whose number is bounded. The environment can always be reset, and there
deadlock is checked.

## 5. Proofs

The proofs are about every value of the constants that the `ASSUME`s of the
modules admit: any number of processes, queries, files, commands and reports,
of any size. What each `ASSUME` demands is the shape of the data, and where it
demands more that is said below; TLC evaluates all of them on the instances.
The library's induction theorems take an operator as a parameter, which the
provers cannot instantiate; `Collections_proofs` proves from the
well-foundedness of the natural numbers that a set with 0 and all successors
holds them all (`Induction`), and from that what `Among` keeps, how `Total`
changes when one number does, and that finite sets can be listed. Everything
below that goes over a list rests on it.

`Research_proofs`, first of environments, from `EnvironmentAssumption` (the shape of the
tasks and matches, and that `Equiv` is reflexive and transitive):

- `TypeCorrect`: types, including that task and observation are set together.
  This and `OpenEpisodeSteps` are proved and in no run: the proof covers the
  instance;
- `EpisodeSound`, `EpisodeShowsEquivalent`: the inductive invariant
  `EpisodeInv` is the conjunction of `CurrentMeansInitial` and
  `ActionsAreCurrent`. Equivalence alone is not inductive: an accepted step
  extends the chain of equivalences from the *task's* SQL, and the
  observation has to be known to start there (`obs.initial`), while the
  rewritten text is known to be a query only because the action was offered.
  Transitivity closes the accepted step, reflexivity the reset;
- `OpenEpisodeSteps`: the budget and the action list of an open episode;
- `TrajectoryCertified`: what the file holds is certified, lost lines
  included; uses `EpisodeSound` for the state a step starts from;
- `TrajectoryReplays`: `ReplayInv` adds that the lines of an open episode are
  all of earlier steps, and that an episode that has made no step stands where
  its task began. A line that is lost leaves the step number, so the next line
  is not mistaken for its successor;
- `ReturnTelescopes`: `TelescopeInv` says of a fully recorded and measured
  episode that its rewards so far sum to the difference between the first and
  the current entry of the measurements. The sum is a recursion over the log,
  and that entries stay (`EntryStays`) is what lets the middle ones cancel;
- `EnvironmentIsCertified`: refinement. Resets map to `Start`, accepted steps
  to `Rewrite`, which needs `CurrentMeansInitial`; rejected and raising steps
  stutter.

Then of searches, for any queries, actions, answers of the oracles, strategies
and limits. `SearchAssumption` says that the actions of a query are distinct
and the limits positive, as the code checks; `CorpusAssumption` that a rejected
edge never pays, which is `_verification_failure_reward`. The invariant of both
theorems is `CorpusInv`, whose part `SearchInv` was first checked by TLC on
every state of the run `corpus`:

- `CountersAlwaysExact`: counters are exact if no node is tried twice, and
  each strategy has its own reason (`Counted`). The greedy ones only go deeper
  (`WalksAhead`). A beam holds one node per query, so the children of one round
  differ in their last edge (`LooksAhead`). Exhaustive search queues a child's
  actions once, when the child is tried, and what is queued was not tried
  (`QueuesAhead`). That all nodes are walks in the graph (`HoldsWalks`) is what
  makes a trail name its node. For the misses, `RaisesOnce`: an exception ends
  the search, so just one edge was asked about and is not in the cache;
- `NothingBetterMissed`: of tried paths, `Near` says that what is kept is worth
  as much up to a margin, and the choice costs another. A beam would lose one
  per round, so it is stated for margin 0. Of all paths, `Covers` says of each
  action of each node seen that it is queued, or fails, or leads to a query for
  which something seen stands: no longer, and no worse up to a margin. It needs
  `InTurn`, that the queue is in the order of length: what is known of a query
  when a child is turned away must be no longer than the child, or the step
  limit could end the known path where the child would have gone on. And it
  needs `KnowsTheBest`, because a child is compared with the best of its query
  known so far. When the queue is empty, `WalksAreMatched` follows any path
  step by step, with one margin lost at each.

The choices of the code that go over a list (`_best_node`,
`_deduplicate_nodes`, the ranking of a beam) are recursive functions; lemmas by
`Induction` give what each returns.

`StateMeasurements_proofs`, from `FileAssumption` and `MeasurementAssumption`
(costs and scales are whole numbers, `Failed` is none of them, and processes
are finitely many):

- `FilesTypeCorrect`, `FilesKeepEntriesWhole`: the inductive invariant
  `FileInv` says that every name of the directory holds nothing or a whole
  value whose contents are synced, as readers see it and as the disk is sure
  to have it. That nothing torn is read is not inductive by itself: it is the
  syncing that survives `PowerFailure`;
- `MeasuringInvariant`: every value stored, found or answered for a query is
  that query's cost on some scale, or a failure; a temporary file exists only
  while a store is due;
- `MeasurementsUseFiles`, `MeasurementsKeepEntriesWhole`: each step of the
  evaluator is a step of the files or leaves them alone, so the refinement of
  `EntryStore` carries over;
- `EntriesAlwaysStand`: `CallsInv` adds what a call under way knows. A
  temporary file holds what is due next (`TempInv`); without overlap there is
  one call (`SoleInv`), and what it found, answered and has stored agrees with
  the directory (`AgreesInv`);
- `EntriesAlwaysAreSound`: an entry that was just stored is measured against
  one that a whole chain of calls has led to, so the invariant follows a run
  back to its root. `AnchorInv`: where an episode stands there is an entry, an
  empty root means an empty directory, and the root is stored first. So a call
  that finds nothing may choose the scale, and any other one has an entry to
  be moved onto. `ScaleInv`: the entries *and those a call is about to store*
  are on one scale. `CountedInv`: the entries with those to come are as many
  as the misses. Between the two stores of one call the directory alone
  satisfies neither. Both are stated of `Coming`, the
  directory as it will be, which storing does not change.

`CandidateVerification_proofs`, for any queries, phases, backends and facts of
which equal bodies make congruent queries equal (`FactsAssumption`): every
property its run checks, and its types:

- `TypeCorrect`, which includes that the files of a merge exist;
- `BucketsTrue`: inductive with the types. `CascadeTrue` is its core: a proof is
  of what was asked, a refutation is only taken of a whole pair; and what was
  asked carries over where the columns agree, because what `reduce_pair` does
  compare makes the queries congruent then (`ReducedIsCongruent`);
- `NoAlarmWithoutError`, over every candidate whose proof carries over:
  `AlarmInv` adds the call under way, and `BucketsTrue`
  is needed so that a merge never finds a true proof beside a true refutation;
- `FinalComplete`: `FinalInv` adds that a report opened while no partial one
  is due has all rows to get;
- `MergedBest`: `HeldIsBest` says of each candidate that what is held was read
  and precedes all that was read, or both a proof and a refutation were read
  and it is a conflict. The best verdict alone is not inductive: that a proof
  and a refutation never both go unnoticed has to be kept with it, and needs
  that the two come first in the precedence.

`DbtScan_proofs`, for any project, texts, rules and command lines. Beside shapes
(`TextsAssumption`, `ProjectsAssumption`, `CommandsAssumption`) and a positive
`--max-steps` (`MaxChainStepsAssumption`: the command line refuses another) it takes
`RulesAreSoundAssumption`, that a rewrite whose tests hold keeps the meaning of
its text (what `sessions` and `chain` are about), and `TestsHoldAssumption`,
that the warehouse passes the tests a schema file declares:

- `ScanInvHolds`: the inductive invariant `ScanInv`. `SchemaInv`: a payload for
  every schema file once all are read; `FoundInv`: what the scan calls proven
  is sound under what it *read*, which an edit does not change; `ApplyInv`: of
  a file that is open, or emptied already, either the text that was compared
  is what its developer left, or the save in between is remembered as lost;
  `RefuteInv`: crosscheck asks about proven pairs only;
- `PatchesKeepMeaning` and `CrosscheckIsRight` are its last two parts. The
  first needs `ApplyInv` across three steps between which anybody may save;
- `ScanRestsOnTests`: a fact about every catalog the merge can yield. Merging
  relations of several files under one name makes up no test
  (`MergeColumn`, `MergeCatalogs`, a fold over the files), so what a rule may
  assume some file declares;
- `ReadyRewritesAreApplied`: `AloneInv` follows a scan that is left alone from
  its question to its end. While it scans, a finding starts from what its file
  holds (`ScanAlone`: nothing was rendered, and no file is scanned twice); once
  it applies, each result that is ready waits in the list with its file
  untouched, is the one being written, or is written and no longer in the list
  (`ApplyAlone`). That a directory lists a file once is the assumption it needs,
  and that compiled SQL is never ready;
- `ScanIsSilentOnlyBehindAnother`: a fact about every text and catalog, by the
  order in which suggestions are looked at.
- `ReportsAlwaysAddUp`: `CountInv` says that every result is a finding with a
  list of suggestions, that a chain holds proven steps only (`ChainIsProven`:
  the recursion of `ChainOf`, unfolded) and that results and models left are
  never more than there were models; `PatchInv` that, while patches are
  written, those listed followed by those to do are `Diffs`, and that each one
  listed is in its file or followed by a later one with its path and rule. The
  rows are as many as the suggestions because what alone has elements of a set
  is what is left of a flattened list (`OnlyPart`); families and blockers
  partition the findings because the fold that counts them is taken apart
  (`FoldingExists`, `SizesAddUp`, `FamiliesAddUp`).

`CandidateCommands_proofs`, for any models, answers and commands
(`AnswersAssumption`, `TornAssumption`: what the service offers is a list of
texts; `JobsAssumption`, `NeedsAssumption`: a command names a model and a
directory, and a proof needs finitely many tests), six theorems from one
invariant, `CandidatesInv`, of all processes together:

- `SuccessAlwaysIsProof`: `JobInv` says of what is verified that the verdict is
  of the query that was read, and that a check has a candidate left to verify
  or has verified one, at every point where it could end;
- `EvidenceAlwaysIsOfTheProof`: `UndisturbedInv`, as long as no other process
  wrote to the query or the directory, ties each row to the files as they are;
- `EvidenceAlwaysIsSound`: `EvidenceInv` ties a row to the check it is about,
  and `GuardsAreEnough`, of any catalog, gives that the guards
  entail what the proof trusted;
- `FinishedBundlesAnswer`, `EveryRunIsAccounted`: `GenerateInv`. Requests are a
  list of which those dealt with are a beginning; the last answer under a name
  is the one that is kept; a directory being written holds the files before the
  one that is next, and is known as unfinished until its metadata is there.
  Files that `candidates generate` writes there too are its own (`OffersInv`);
- `SuspectAlwaysHasUnmetPremise`: `ReadingInv` follows a proof from the
  verification to the measurement: what a row of `verify` calls proven is proven
  from the catalog in use, a report keeps it with the catalog behind it, and
  only such rows are read again and measured. Where the files and the catalog
  are still the same and the rule is sound, the proof is one of the pair
  measured, and a premise of it is one the data ignores.

`DuckdbBenchmark_proofs`, for any settings, durations and statements,
and any number of them, every safety property of its run:

- `InterruptsHit`, `TimeoutsReported` and `NoneOutlives`: the inductive
  invariant `ThreadInv` has three parts. `CallInv`: only the call under way has
  a watchdog, none between calls, and one that gave up has said so.
  `TimeoutInv`: only the call under way can have timed out, and an interrupt of
  the connection is its own. `OutcomeInv`: a statement stopped by an interrupt
  is on its way to a timeout. The last needs that the event is set before the
  interrupt is sent, the second that the thread is joined before the next call;
- `ConfidentTimingsAreLong`: `TimingInv`. By the task number, a query is
  calibrated before it is sampled and sampled before the end (`CalibratedInv`);
  a batch is as long as its executions times the calibrating one, as long as
  none was faster (`BatchInv`), and enough of them make the minimum by the
  ceiling (`CeilDivIsEnough`), unless the cap cuts them (`SampledInv`). That
  the median of long times is long (`MedianIsLong`) closes it.

`Rewriting_proofs`, of concrete queries, rules and rows. Three theorems are for
any catalog, any database that satisfies it and any *flat* query it can answer
(`OverOneTable`: one table, no join, subquery or CTE, any predicates but those
with a subquery in a CASE, any projections):

- `ChainsKeepRows`, `SessionsKeepResults`: whatever rewrites are taken, in
  whatever order and however many, the rows (and the columns) are those of the
  query asked for. The invariant is that the query shown is flat too and has
  these rows. Its content is a lemma for each of the rules that apply to a flat
  query: `FilterRulesKeepRows` (a predicate that holds in every row of the table
  may go), `CaseRuleKeepsRows` (a branch that is never taken may go; the value of
  `SimplifiedCase` in each row), `DistinctRuleKeepsRows` (no two rows agree in a
  shown key: `KeysTellApart`), `CountDistinctRuleKeepsRows`,
  `CollapseRuleKeepsRows` (groups by a key are single rows);
  `JoinRulesOfferNothing` disposes of the others. A database answers a bag of
  rows, and any that LIMIT allows, so that two queries have the same rows means
  a renaming of the identities of result rows (`RenamedResults`,
  `SameRowsIfAlike`);
- `BuiltinProofsAreSound`: what the built-in verifier calls proven has the rows
  of the original, also when the candidate was written by hand: a proof is an
  identity, a replay of one of those rules, or a DISTINCT that is redundant
  (`DistinctRemovalIsTheRule`).

The hypotheses exclude what the models leave to TLC or what the code does not
get right. Flat queries exclude joins, whose two known divergences are runs of
section 3. `Rows(asked, db) # {}` says that the query has an answer: one that
names no column of its table fails, before and after. Two are not about rows
but names: ORDER BY must not aggregate (collapsing a GROUP BY leaves such an
aggregate behind), and the original of a hand-written DISTINCT removal shows
plain columns. `VerdictAssumption` says that `None`, no verdict yet, is none.

`FixedPointsAreFinal` is about every query a text can be, with joins, a
subquery and a CTE: where a chain reports a fixed point, `matches()` offers
nothing. Chains ask `apply()`, rule by rule, and `AvailableMatches` asks
`matches()`; that both come to the same is `ApplyMissesNothing` for the ten
rules. `StaysText` follows the shape of the text from rewrite to rewrite
(`Follows`: the rules make no new join, CTE or name) and back through the splice
of a fragment. It needs `IsText(asked)`: no join and no EXISTS reads the
CTE itself. Over an EXISTS that does, `matches()` of the two filter rules offers
what `apply()` refuses (not_null_filter.py:85 against :149,
accepted_values_filter.py:68), so the hypothesis is not for convenience.

`SessionsShrink` is `RewritesShrink` for any settings whose texts are as above
and have projections of the kinds the parser knows (`HasKnownProjections`):
every accepted rewrite leaves a parse of smaller `Weight`, a number, so that no
rule undoes another and no session is endless. Predicates, DISTINCT, grouping
columns, CASE branches, DISTINCT counts and MAX weigh one, a join three, since
`rewrite_join_distinct_to_exists` makes a predicate of it, and a subquery one
more than what is in it, since pushdown merges the levels. The weight is of the
parse and not of the text: a CTE the parser inlines becomes part of the query
that reads it, and what it holds would count only then. The invariant is that the parse is a query record (`IsIR`). `ParsedIsIR`
starts it, for whatever CTE is resolved or inlined; `RenderedIs` carries it over
the text between two steps; and there is one lemma for each kind of rule, up to
`MatchesShrink`. They rest on `TotalOfLess` and `AmongIsShorter` of
`Collections_proofs`.

`ToldIsAlwaysTrue`, for any settings, queries, catalogs and databases: what a
backend tells its solver holds on every database that satisfies the
constraints. It is a fact about every pair and catalog, reached or not, and
needs no induction; its content is in the lemmas. `WeakerIsSatisfied`: a table
satisfies whatever is declared with fewer non-null columns, keys and references
and no accepted values. `SqlSolverIsToldTheTruth`: a key column that is called
PRIMARY KEY is non-null because `IsNonNull` says so, which is where the mutant
`EveryKeyColumn` fails. `QedIsToldTheTruth`: keys are those over non-null
columns, and a table nothing is declared of is told nothing; VeriEQL is told
the same or nothing.

Only model-checked: that a benchmark ends, that chains end and every strategy
reports (liveness under fairness is beyond the prover); what queries with
joins, subqueries and CTEs return (`SameResult`, `ChainSameRows` and
`ProvenMeansSameRows` beyond flat queries), and that a refutation is right
(`RefutedMeansDifferentRows`). The last takes a database that shows the
difference, and does not hold of every query: check.py:253 refutes dropping
DISTINCT wherever no key is projected, also where no two rows are left to tell
apart (`DistinctOfOneRow` in section 3), a shape the queries of `verdicts` do
not have.

## 6. Not modelled, and the plan

The order of what follows, most important first:

1. Proofs: that the rules over joins and subqueries keep the rows of any
   tables, under conditions that exclude the divergences of section 3.
2. OFFSET, set operations and WITH clauses of several CTEs in `SqlQuery`.
3. Corpus summaries and repeated runs on top of `CorpusRun`; transition rewards
   and single measurements in `StateMeasurements`.
4. `SnowflakeBenchmark`: the server's own timeout, and what a suite makes of its cases.

Not modelled, and why: the policies (training and scoring are arithmetic over
feature counts, and their files are written once); corpus reports (read-only
statistics); the Snowflake benchmark (a remote warehouse whose answers decide
everything; its suite is in the plan); fixtures and evaluation (random data,
counting); the compatibility packages (re-exports); and data shipped with the
corpus, scripts and containers.

Partly modelled, and what is left out: of the parser, walking and normalising
the syntax tree of an external library; of the loaders, YAML itself; of Jinja,
the substitutions; of the reports and the command line, layout, wording and
arguments; of the solvers, anything but what they are told and may answer.
