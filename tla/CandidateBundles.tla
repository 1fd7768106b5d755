-------------------------- MODULE CandidateBundles --------------------------
(***************************************************************************)
(* qseal llm generate, verify and benchmark: candidates/generation.py,     *)
(* candidates/benchmarking.py and cli/llm.py.  One process asks a model    *)
(* for candidates and writes one directory per request, file by file.      *)
(* Another reads the directories: it verifies what they list, then         *)
(* measures what its report calls proven, from the files as they are then. *)
(* Both go on while the developer edits, and either may be killed.         *)
(***************************************************************************)
EXTENDS DbtProject

CONSTANTS
  Generations,   \* command lines of llm generate
  Readings,      \* command lines of llm verify and llm benchmark
  Answers,       \* per text, the lists of candidates a model may answer
  MaxGenerations, MaxReadings,  \* bounds: commands of either kind
  Plans,         \* what a plan may have of each group of operators
  Unsound,       \* pairs of texts that a rule takes for one, but whose rows
                 \* may differ although all it rests on holds
  Torn           \* a file whose writer was killed

(* A model answers with lists of texts, of which some may be blank; the    *)
(* rules do not take the name of the candidates it suggests; and nothing   *)
(* else is called None or Torn.                                            *)
ASSUME AnswersAssumption ==
  /\ Torn # None /\ None # "suspect"
  /\ \A g \in Generations : g.limit = None \/ g.limit \in Nat
  /\ \A t \in Text :
       /\ \A r \in RulesOf(t) : r.rule # "llm"
       /\ \A a \in Answers[t] : IsList(a) /\ Range(a) \subseteq Text \cup {None}

VARIABLES
  genPhase,    \* where llm generate is; "idle" when it does not run
  generation,  \* its command line
  constraints, \* the catalog it read
  unselected,  \* models still to read
  requests,    \* what it asks, in order
  pending,     \* requests still to ask, or to write down
  responses,   \* what came back, by name
  writes,      \* files still to write for the current request
  summary,     \* bundles, candidates and errors so far
  bundles,     \* the directories by name: the SQL files, of which one is the
               \* original, and the metadata, which lists others
  snapshot,    \* constraints.json
  generations, \* how many were started
  answered,    \* history: questions and the answers given to them
  unfinished   \* history: directories a run has begun and not finished

genCommand == <<generation, constraints, generations>>
genAsking  == <<unselected, requests, pending, responses>>
genWriting == <<writes, summary, bundles, snapshot>>
genPast    == <<answered, unfinished>>

VARIABLES
  reading,    \* the command line of llm verify, benchmark or explain, or None
  trusted,    \* the catalog it uses
  unread,     \* directories to verify, or rows of the report to measure
  opened,     \* the directory or row it is at, with what it read of it
  rows,       \* what llm verify has found so far
  report,     \* its report, with the catalog (history) behind it
  records,    \* what llm benchmark or explain has found so far
  readings    \* how many were started

readVars == <<reading, trusted, unread, opened, rows, report, records, readings>>

-----------------------------------------------------------------------------
(* premises_for: the keys and the non-null columns of the tables a text    *)
(* reads.                                                                  *)
PremisesFor(catalog, sql) ==
  UNION {{[table |-> n, unique |-> key] : key \in catalog[n].unique}
         \cup {[table |-> n, never_null |-> c] :
                 c \in {d \in DOMAIN catalog[n].columns : catalog[n].columns[d].non_null}}
         : n \in About[sql].tables \cap DOMAIN catalog}

(* A directory is named for the file alone, wherever the model is.         *)
Stem(m) == Last(m)

(* select_targets: what can be parsed, whole or in part, and has premises. *)
Selected(m, t) ==
  LET sql == Preprocess(t).sql IN
  IF /\ Preprocess(t).supported
     /\ About[sql].parses \/ About[sql].fragments
     /\ PremisesFor(constraints, sql) # {}
  THEN <<[name |-> Stem(m), path |-> m, sql |-> sql, premises |-> PremisesFor(constraints, sql)]>>
  ELSE <<>>

NoSummary == [bundles |-> 0, candidates |-> 0, errors |-> 0]

BundlesInit ==
  /\ genPhase = "idle" /\ generation = None /\ constraints = <<>> /\ generations = 0
  /\ unselected = <<>> /\ requests = <<>> /\ pending = <<>> /\ responses = <<>>
  /\ writes = <<>> /\ summary = NoSummary /\ snapshot = None
  /\ bundles = [n \in {Stem(m) : m \in Model} |->
                  [files |-> <<>>, metadata |-> None]]
  /\ answered = {} /\ unfinished = {}
  /\ reading = None /\ trusted = <<>> /\ unread = {} /\ opened = None /\ rows = {}
  /\ report = None /\ records = {} /\ readings = 0

-----------------------------------------------------------------------------
(* generate_candidates.  The catalog is read at the start, then the models *)
(* one by one; a file that is gone raises.                                 *)
Generate(g) ==
  /\ genPhase = "idle" /\ generations < MaxGenerations
  /\ generations' = generations + 1 /\ generation' = g
  /\ constraints' = LoadProjectConstraints(schema)
  /\ genPhase' = "select"
  /\ unselected' = DiscoverModels(None)
  /\ requests' = <<>> /\ pending' = <<>> /\ responses' = <<>>
  /\ writes' = <<>> /\ summary' = NoSummary
  /\ UNCHANGED <<bundles, snapshot, genPast>>

(* The process ends, and what it held in memory is gone.                   *)
GenerateEnds ==
  /\ genPhase' = "idle" /\ generation' = None /\ constraints' = <<>>
  /\ unselected' = <<>> /\ requests' = <<>> /\ pending' = <<>> /\ responses' = <<>>
  /\ writes' = <<>> /\ summary' = NoSummary
  /\ UNCHANGED <<generations, genPast>>

Select ==
  /\ genPhase = "select" /\ unselected # <<>>
  /\ LET m == Head(unselected) IN
     \/ source[m] = None /\ GenerateEnds /\ UNCHANGED <<bundles, snapshot>>
     \/ /\ source[m] # None
        /\ requests' = requests \o Selected(m, source[m])
        /\ unselected' = Tail(unselected)
        /\ UNCHANGED <<genPhase, genCommand, pending, responses, genWriting, genPast>>

(* A dry run ends with the prompts.  The service refuses a batch that is   *)
(* empty or names a request twice, and then the run ends too.              *)
Asked == IF generation.limit = None THEN requests
         ELSE SubSeq(requests, 1, Min({generation.limit, Len(requests)}))
BatchRefused == Asked = <<>> \/ ~IsInjective([i \in DOMAIN Asked |-> Asked[i].name])

Ask ==
  /\ genPhase = "select" /\ unselected = <<>>
  /\ IF generation.dry \/ (generation.batch /\ BatchRefused) THEN GenerateEnds
     ELSE /\ requests' = Asked /\ pending' = Asked
          /\ genPhase' = IF generation.batch THEN "poll" ELSE "direct"
          /\ UNCHANGED <<genCommand, unselected, responses, writes, summary, genPast>>
  /\ UNCHANGED <<bundles, snapshot>>

(* What may come back of a request: a list of candidates, of which some    *)
(* may be blank, or an error, an unreadable answer included.               *)
Responses(r) == {[error |-> FALSE, candidates |-> a] : a \in Answers[r.sql]}
                \cup {[error |-> TRUE, candidates |-> <<>>]}
Pairs(r, response) == {<<r.sql, c>> : c \in Range(response.candidates) \ {None}}

StartWriting == genPhase' = "write" /\ pending' = requests

(* run_direct: one call per request, the responses by name.                *)
Direct ==
  /\ genPhase = "direct"
  /\ \/ pending = <<>> /\ StartWriting /\ UNCHANGED <<responses, answered>>
     \/ /\ pending # <<>>
        /\ \E response \in Responses(Head(pending)) :
             /\ responses' = With(responses, Head(pending).name, response)
             /\ answered' = answered \cup Pairs(Head(pending), response)
        /\ pending' = Tail(pending)
        /\ UNCHANGED genPhase
  /\ UNCHANGED <<genCommand, unselected, requests, genWriting, unfinished>>

(* run_batched: the batch has ended, and of each request there is a        *)
(* result or none.                                                         *)
Poll ==
  /\ genPhase = "poll"
  /\ \E came \in SUBSET Range(requests) :
       \E r \in [came -> UNION {Responses(q) : q \in came}] :
         /\ \A q \in came : r[q] \in Responses(q)
         /\ responses' = [n \in {q.name : q \in came} |-> r[CHOOSE q \in came : q.name = n]]
         /\ answered' = answered \cup UNION {Pairs(q, r[q]) : q \in came}
  /\ StartWriting
  /\ UNCHANGED <<genCommand, unselected, requests, genWriting, unfinished>>

-----------------------------------------------------------------------------
(* write_bundle: the original, the candidates that are not blank under     *)
(* their numbers, and the metadata that lists these.                       *)
Original == <<0, "original">>
Metadata == <<0, "metadata">>

Listed(candidates) ==
  Among([i \in DOMAIN candidates |-> <<i, "llm">>],
        {<<i, "llm">> : i \in {j \in DOMAIN candidates : candidates[j] # None}})

(* A list is neither a torn file nor no file. *)
ASSUME TornAssumption ==
  \A t \in Text : \A a \in Answers[t] : Listed(a) \notin {None, Torn}

BundleFiles(r, candidates, entries) ==
  <<[file |-> Original, text |-> r.sql]>>
  \o [n \in DOMAIN Listed(candidates) |->
        [file |-> Listed(candidates)[n], text |-> candidates[Listed(candidates)[n][1]]]]
  \o <<[file |-> Metadata, entries |-> entries]>>

(* Mutant: the metadata lists what the directory holds. *)
WritesKeepingFiles(r, candidates) ==
  BundleFiles(r, candidates,
    SetToSeq((DOMAIN bundles[r.name].files \ {Original}) \cup Range(Listed(candidates))))

BundleWrites(r, candidates) == BundleFiles(r, candidates, Listed(candidates))

Put(bundle, w, torn) ==
  IF w.file = Metadata THEN [bundle EXCEPT !.metadata = IF torn THEN Torn ELSE w.entries]
  ELSE [bundle EXCEPT !.files = With(@, w.file, IF torn THEN Empty ELSE w.text)]

(* The next request: without an answer it counts as an error.              *)
NextBundle ==
  /\ genPhase = "write" /\ writes = <<>> /\ pending # <<>>
  /\ LET r == Head(pending) IN
     IF r.name \notin DOMAIN responses \/ responses[r.name].error
     THEN /\ summary' = [summary EXCEPT !.errors = @ + 1]
          /\ pending' = Tail(pending)
          /\ UNCHANGED <<writes, unfinished>>
     ELSE /\ writes' = BundleWrites(r, responses[r.name].candidates)
          /\ unfinished' = unfinished \cup {r.name}
          /\ UNCHANGED <<summary, pending>>
  /\ UNCHANGED <<genPhase, genCommand, unselected, requests, responses, bundles, snapshot, answered>>

(* One file.  With the metadata the directory is complete, unless a later  *)
(* request has its name.                                                   *)
WriteFile ==
  /\ genPhase = "write" /\ writes # <<>>
  /\ LET r == Head(pending)
         w == Head(writes)
     IN  /\ bundles' = [bundles EXCEPT ![r.name] = Put(@, w, FALSE)]
         /\ writes' = Tail(writes)
         /\ IF w.file = Metadata
            THEN /\ summary' = [summary EXCEPT !.bundles = @ + 1,
                                               !.candidates = @ + Len(w.entries)]
                 /\ pending' = Tail(pending)
                 /\ unfinished' = unfinished \ ({r.name} \ {q.name : q \in Range(Tail(pending))})
            ELSE UNCHANGED <<summary, pending, unfinished>>
  /\ UNCHANGED <<genPhase, genCommand, unselected, requests, responses, snapshot, answered>>

(* Mutant: the snapshot is taken of the project as it is by then. *)
SnapshotNow == LoadProjectConstraints(schema)

(* The snapshot of the catalog comes last, before the summary of the run.  *)
Snapshot == constraints

WriteSnapshot ==
  /\ genPhase = "write" /\ writes = <<>> /\ pending = <<>>
  /\ snapshot' = Snapshot
  /\ genPhase' = "done"
  /\ UNCHANGED <<genCommand, genAsking, writes, summary, bundles, genPast>>

FinishGenerate == genPhase = "done" /\ GenerateEnds /\ UNCHANGED <<bundles, snapshot>>

(* A signal.  The file that is being written is lost.                      *)
KillGenerate ==
  /\ genPhase # "idle"
  /\ GenerateEnds
  /\ \/ UNCHANGED <<bundles, snapshot>>
     \/ /\ genPhase = "write" /\ writes # <<>>
        /\ bundles' = [bundles EXCEPT ![Head(pending).name] = Put(@, Head(writes), TRUE)]
        /\ UNCHANGED snapshot
     \/ /\ genPhase = "write" /\ writes = <<>> /\ pending = <<>>
        /\ snapshot' = Torn
        /\ UNCHANGED bundles

GenerateStep ==
  \/ \E g \in Generations : Generate(g)
  \/ Select \/ Ask \/ Direct \/ Poll \/ NextBundle \/ WriteFile \/ WriteSnapshot
  \/ FinishGenerate \/ KillGenerate

-----------------------------------------------------------------------------
(* What a proof from one text to another may rest on, and what reaches the *)
(* built-in verifier: some rule leads from the original to the candidate.  *)
Proofs(o, c) == {r \in RulesOf(o) : r.to = c}

(* verify_candidate, without the external backends: the cascade of         *)
(* CandidateVerification with the built-in verifier alone.                 *)
Bucket(o, c) ==
  IF ~About[o].readable \/ ~About[c].readable THEN "invalid"
  ELSE IF o = c THEN "identity"
  ELSE IF \E r \in Proofs(o, c) : TrustsAll(trusted, r.needs) THEN "proven"
  ELSE "unknown"

ReadingEnds ==
  /\ reading' = None /\ trusted' = <<>> /\ unread' = {} /\ opened' = None
  /\ rows' = {} /\ records' = {} /\ UNCHANGED readings

(* llm verify: the catalog of the project, or the snapshot.                *)
StartVerify(c) ==
  /\ c.kind = "verify"
  /\ c.project \/ snapshot \notin {None, Torn}
  /\ reading' = c
  /\ trusted' = IF c.project THEN LoadProjectConstraints(schema) ELSE snapshot
  /\ unread' = {n \in DOMAIN bundles : /\ bundles[n].metadata # None
                                       /\ c.only # None => n \in c.only}
  /\ rows' = {} /\ opened' = None
  /\ UNCHANGED <<report, records>>

(* Mutant: every row of the report is measured.                            *)
AnyRows == report.rows

ProvenRows == {r \in report.rows : r.bucket = "proven"}

(* llm benchmark and explain: the rows of the report that are proven.      *)
StartMeasure(c) ==
  /\ c.kind # "verify"
  /\ report \notin {None, Torn} /\ snapshot \notin {None, Torn}
  /\ reading' = c
  /\ trusted' = snapshot
  /\ unread' = {r \in ProvenRows : c.only # None => r.name \in c.only}
  /\ records' = {} /\ opened' = None
  /\ UNCHANGED <<rows, report>>

(* A command that finds no catalog, or no report, fails at once.           *)
StartReading(c) ==
  /\ reading = None /\ readings < MaxReadings
  /\ readings' = readings + 1
  /\ StartVerify(c) \/ StartMeasure(c)

(* The metadata of a directory, then its original, which llm generate may  *)
(* have replaced in between.  The order of the directories is that of      *)
(* their names, here any.  A torn metadata file ends the command.          *)
OpenBundle ==
  /\ reading # None /\ reading.kind = "verify" /\ opened = None
  /\ \E n \in unread :
       \/ bundles[n].metadata = Torn /\ ReadingEnds /\ UNCHANGED report
       \/ /\ bundles[n].metadata # Torn
          /\ opened' = [name |-> n, original |-> None, entries |-> bundles[n].metadata]
          /\ unread' = unread \ {n}
          /\ UNCHANGED <<reading, trusted, rows, report, records, readings>>

OpenOriginal ==
  /\ reading # None /\ reading.kind = "verify" /\ opened # None /\ opened.original = None
  /\ opened' = [opened EXCEPT !.original = bundles[opened.name].files[Original]]
  /\ UNCHANGED <<reading, trusted, unread, rows, report, records, readings>>

(* One entry: its file is read now, the original was read before.          *)
VerifyEntry ==
  /\ reading # None /\ reading.kind = "verify" /\ opened # None /\ opened.original # None
  /\ \/ opened.entries = <<>> /\ opened' = None /\ UNCHANGED rows
     \/ /\ opened.entries # <<>>
        /\ LET file == Head(opened.entries)
               text == bundles[opened.name].files[file]
           IN  rows' = rows \cup {[name |-> opened.name, file |-> file,
                                   pair |-> <<opened.original, text>>,
                                   bucket |-> Bucket(opened.original, text)]}
        /\ opened' = [opened EXCEPT !.entries = Tail(@)]
  /\ UNCHANGED <<reading, trusted, unread, report, records, readings>>

WriteVerification ==
  /\ reading # None /\ reading.kind = "verify" /\ opened = None /\ unread = {}
  /\ report' = [rows |-> rows, under |-> trusted]
  /\ ReadingEnds

(* benchmark_proven and explain_proven: the original of a row ...          *)
OpenRow ==
  /\ reading # None /\ reading.kind # "verify" /\ opened = None
  /\ \E r \in unread :
       /\ opened' = [row |-> r, original |-> bundles[r.name].files[Original]]
       /\ unread' = unread \ {r}
  /\ UNCHANGED <<reading, trusted, rows, report, records, readings>>

(* ... and its candidate, as they are now.                                 *)
Measured(outcome) ==
  LET r == opened.row IN
  [row |-> r, pair |-> <<opened.original, bundles[r.name].files[r.file]>>, outcome |-> outcome]

(* Mutant: columns get NULLs unless they are keys. *)
SynthesizedKeys(catalog, p) ==
  /\ p.test \in {"unique", "key"}
  /\ Trusts(catalog, [table |-> p.table, test |-> "key", columns |-> p.columns])

(* _setup_sql: the synthetic tables respect non-null columns, and keys all *)
(* of whose columns are non-null.  Foreign keys, accepted values and keys  *)
(* with a nullable column are ignored.                                     *)
Synthesized(catalog, p) ==
  CASE p.test = "not_null" -> Trusts(catalog, p)
    [] p.test \in {"unique", "key"} ->
         Trusts(catalog, [table |-> p.table, test |-> "key", columns |-> p.columns])
    [] OTHER -> FALSE

(* benchmark_pair compares the row counts of any two queries.  They are    *)
(* the same for one and the same query, and where a sound rule leads from  *)
(* one to the other and the synthetic data has what the rule rests on.     *)
SameCounts(catalog, o, c) ==
  \/ o = c
  \/ /\ <<o, c>> \notin Unsound
     /\ \E r \in Proofs(o, c) : \A p \in r.needs : Synthesized(catalog, p)

MeasureOutcomes(catalog, o, c) ==
  {"error", "failed", "timed"} \cup (IF SameCounts(catalog, o, c) THEN {} ELSE {"suspect"})

Measure ==
  /\ reading # None /\ reading.kind = "benchmark" /\ opened # None
  /\ LET candidate == bundles[opened.row.name].files[opened.row.file] IN
     \E outcome \in MeasureOutcomes(trusted, opened.original, candidate) :
       records' = records \cup {Measured(outcome)}
  /\ opened' = None
  /\ UNCHANGED <<reading, trusted, unread, rows, report, readings>>

(* explain_pair compares the plans of the two, group by group.             *)
DiffPlans(before, after) ==
  LET changed == {g \in DOMAIN before : before[g] # after[g]} IN
  IF changed = {} THEN "no_plan_change"
  ELSE IF \A g \in changed : after[g] < before[g] THEN "work_eliminated"
  ELSE IF \A g \in changed : after[g] > before[g] THEN "work_added"
  ELSE "mixed_change"

Explain ==
  /\ reading # None /\ reading.kind = "explain" /\ opened # None
  /\ \E outcome \in {"error"} \cup {DiffPlans(before, after) : before, after \in Plans} :
       records' = records \cup {Measured(outcome)}
  /\ opened' = None
  /\ UNCHANGED <<reading, trusted, unread, rows, report, readings>>

FinishMeasure ==
  /\ reading # None /\ reading.kind # "verify" /\ opened = None /\ unread = {}
  /\ ReadingEnds /\ UNCHANGED report

(* A signal, or a backend that raises; the report may be half written.     *)
KillReading ==
  /\ reading # None
  /\ ReadingEnds
  /\ \/ UNCHANGED report
     \/ /\ reading.kind = "verify" /\ opened = None /\ unread = {}
        /\ report' = Torn

ReadStep ==
  \/ \E c \in Readings : StartReading(c)
  \/ OpenBundle \/ OpenOriginal \/ VerifyEntry \/ WriteVerification
  \/ OpenRow \/ Measure \/ Explain \/ FinishMeasure \/ KillReading

-----------------------------------------------------------------------------
(* What the metadata of a directory lists was answered to the very         *)
(* original that lies beside it, whatever run wrote the directory last and *)
(* wherever others were killed: no candidate of an earlier run, or of      *)
(* another model with the same file name (generation.py:195, 255), is      *)
(* taken for a rewriting of this one.  Only a directory that a run has     *)
(* begun and not finished may mix them (generation.py:402-420).            *)
BundlesAnswerTheirOriginal ==
  \A n \in DOMAIN bundles \ unfinished :
    bundles[n].metadata # None =>
      /\ bundles[n].metadata # Torn
      /\ \A f \in Range(bundles[n].metadata) :
           <<bundles[n].files[Original], bundles[n].files[f]>> \in answered

(* The summary of a run accounts for every request it asked, answered or   *)
(* not; what was answered is in its directory; and the catalog it leaves   *)
(* for llm verify promises what the prompts promised, though the schema    *)
(* files may have changed during the run (generation.py:194-228).          *)
RunIsAccounted ==
  genPhase = "done" =>
    /\ summary.bundles + summary.errors = Len(requests)
    /\ \A r \in Range(requests) :
         /\ r.premises = PremisesFor(snapshot, r.sql)
         /\ (r.name \in DOMAIN responses /\ ~responses[r.name].error) =>
              bundles[r.name].metadata = Listed(responses[r.name].candidates)

(* The data does not respect foreign keys, accepted values and keys with a *)
(* nullable column.                                                        *)
Unmet(p) == p.test \in {"relationships", "accepted_values", "unique"}

(* "The pair is proven equivalent, so differing row counts can only mean   *)
(* the synthetic data violated the trusted premises" (benchmarking.py:136): *)
(* a suspect pair is proven from the catalog in use, and a premise of the  *)
(* proof is one that the data does not respect.  Three things the comment  *)
(* does not count with: the directory was written again since it was       *)
(* verified, the snapshot is not the catalog of the verification, and the  *)
(* rule that proved the pair is unsound.                                   *)
SuspectMeansUnmetPremise ==
  \A r \in records : r.outcome = "suspect" =>
    \/ r.pair # r.row.pair
    \/ trusted # report.under
    \/ r.pair \in Unsound
    \/ \E proof \in Proofs(r.pair[1], r.pair[2]) :
         TrustsAll(trusted, proof.needs) /\ \E p \in proof.needs : Unmet(p)
=============================================================================
