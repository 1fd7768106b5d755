------------------------- MODULE CandidateCommands --------------------------
(***************************************************************************)
(* qseal candidates generate, run, check and evidence: cli/candidates.py,  *)
(* cli/common.py and candidates/evidence.py.  One query, one schema file,  *)
(* and a directory of candidates, which may be one that qseal llm generate *)
(* writes at the same time, while the developer edits the query.           *)
(***************************************************************************)
EXTENDS CandidateBundles

CONSTANTS
  Jobs,    \* command lines: kind, query, schema file, directory and flags
  MaxJobs  \* bound: commands one after the other

(* A command is about a model of the project and a directory; generate has *)
(* no --fail-on.                                                           *)
ASSUME JobsAssumption ==
  \A j \in Jobs :
    /\ j.kind \in {"generate", "run", "check", "evidence"}
    /\ j.model \in Model /\ j.schema \in SchemaFile /\ j.dir \in {Stem(m) : m \in Model}
    /\ j.kind = "generate" => ~j.fail_on

(* A rule needs finitely many tests, of finitely many columns. *)
ASSUME NeedsAssumption ==
  \A t \in Text : \A r \in RulesOf(t) :
    /\ IsFiniteSet(r.needs)
    /\ \A p \in r.needs : p.test \in {"unique", "key"} => IsFiniteSet(p.columns)

VARIABLES
  job,       \* the command line that runs or ran
  step,      \* where it is; "idle" when none runs
  query,     \* the query it read
  premises,  \* the catalog it read
  offers,    \* suggestions still to write, with their numbers
  made,      \* the files it wrote
  named,     \* files still to verify
  checks,    \* the verifications
  again,     \* the query as the evidence is gathered
  evidence,  \* the rows of the evidence
  exit,      \* how the last command ended
  jobs,      \* how many were started
  disturbed  \* history: query or directory changed by another since the start

jobVars == <<job, step, query, premises, offers, made, named, checks, again, evidence, exit, jobs>>

JobsInit ==
  /\ job = None /\ step = "idle" /\ query = None /\ premises = <<>> /\ offers = <<>>
  /\ made = {} /\ named = {} /\ checks = {} /\ again = None /\ evidence = {}
  /\ exit = None /\ jobs = 0 /\ disturbed = FALSE

Files == bundles[job.dir].files

EndJob(how) ==
  /\ step' = "ended" /\ exit' = how
  /\ UNCHANGED <<job, query, premises, offers, made, named, checks, again, evidence, jobs>>

(* The query is read, and the directory listed: every SQL file in it is a  *)
(* candidate, the original included.  Without one there is nothing to do.  *)
StartJob(j) ==
  /\ step = "idle" /\ jobs < MaxJobs /\ source[j.model] # None
  /\ jobs' = jobs + 1 /\ job' = j
  /\ query' = source[j.model]
  /\ LET found == IF j.kind \in {"check", "evidence"} THEN DOMAIN bundles[j.dir].files ELSE {}
         unfit == IF j.kind \in {"check", "evidence"} THEN found = {}
                  ELSE ~About[source[j.model]].parses
     IN  /\ named' = found
         /\ step' = IF unfit THEN "ended" ELSE "schema"
         /\ exit' = IF unfit THEN "error" ELSE None
  /\ UNCHANGED <<premises, offers, made, checks, again, evidence, bundles>>

(* What is written: the proven suggestions, or all that apply.             *)
CandidateSuggestions(suggestions) ==
  IF job.all THEN Applicable(suggestions) ELSE Proven(suggestions)

LoadConstraints ==
  /\ step = "schema"
  /\ LET catalog     == LoadDbtConstraints(schema[job.schema])
         suggestions == CandidateSuggestions(SuggestRewrites(catalog, query))
     IN  /\ premises' = catalog
         /\ IF job.kind \in {"check", "evidence"} THEN step' = "verify" /\ UNCHANGED offers
            ELSE /\ step' = "write"
                 /\ offers' = [i \in DOMAIN suggestions |->
                                 [file |-> <<i, suggestions[i].rule>>, text |-> suggestions[i].to]]
  /\ UNCHANGED <<job, query, made, named, checks, again, evidence, exit, jobs, bundles>>

(* One suggestion.  Without SQL it is skipped; a file that is there raises *)
(* unless --force was given, and the files before it stay.                 *)
WriteCandidate ==
  /\ step = "write" /\ offers # <<>>
  /\ LET w == Head(offers) IN
     \/ /\ w.text # None /\ w.file \in DOMAIN Files /\ ~job.force
        /\ EndJob("error") /\ UNCHANGED bundles
     \/ /\ w.text # None /\ (w.file \in DOMAIN Files => job.force)
        /\ bundles' = [bundles EXCEPT ![job.dir] = Put(@, w, FALSE)]
        /\ made' = made \cup {w.file}
        /\ offers' = Tail(offers)
        /\ UNCHANGED <<job, step, query, premises, named, checks, again, evidence, exit, jobs>>
     \/ /\ w.text = None
        /\ offers' = Tail(offers)
        /\ UNCHANGED <<job, step, query, premises, made, named, checks, again, evidence, exit,
                       jobs, bundles>>

(* generate is done; run goes on to verify what it has written.            *)
Written ==
  /\ step = "write" /\ offers = <<>>
  /\ IF job.kind = "generate" THEN EndJob("ok")
     ELSE /\ step' = "verify" /\ named' = made
          /\ UNCHANGED <<job, query, premises, offers, made, checks, again, evidence, exit, jobs>>
  /\ UNCHANGED bundles

(* The built-in verifier: both must parse; a query proves itself, and else *)
(* a rule must lead from one to the other.                                 *)
Verification(o, c) ==
  LET proofs == {r \in Range(About[o].whole) : r.to = c /\ TrustsAll(premises, r.needs)} IN
  IF ~About[o].parses \/ ~About[c].parses THEN [proven |-> FALSE, needs |-> {}]
  ELSE IF o = c THEN [proven |-> TRUE, needs |-> {}]
  ELSE IF proofs = {} THEN [proven |-> FALSE, needs |-> {}]
  ELSE [proven |-> TRUE, needs |-> (CHOOSE r \in proofs : TRUE).needs]

(* The files are verified in the order of their names, here any.           *)
VerifyFile ==
  /\ step = "verify"
  /\ \E f \in named :
       /\ checks' = checks \cup {[file |-> f, pair |-> <<query, Files[f]>>,
                                 result |-> Verification(query, Files[f])]}
       /\ named' = named \ {f}
  /\ UNCHANGED <<job, step, query, premises, offers, made, again, evidence, exit, jobs, bundles>>

(* Mutant: a run that proved nothing fails nothing. *)
UnprovenOnly == job.fail_on /\ \E c \in checks : ~c.result.proven

(* --fail-on unproven.  A run without results fails too.                   *)
Fails ==
  job.fail_on /\ (\/ job.kind = "run" /\ checks = {}
                  \/ \E c \in checks : ~c.result.proven)
ExitCode == IF Fails THEN "unproven" ELSE "ok"

(* Mutant: the evidence takes the original from the directory. *)
OriginalBeside == IF Original \in DOMAIN Files THEN Files[Original] ELSE source[job.model]

QueryAgain == source[job.model]

(* The metadata is read last, by check and evidence; if it is torn they    *)
(* fail.  build_candidate_evidence reads the query again.                  *)
Verified ==
  /\ step = "verify" /\ named = {}
  /\ LET unreadable == job.kind # "run" /\ bundles[job.dir].metadata = Torn IN
     \/ job.kind # "evidence" /\ EndJob(IF unreadable THEN "error" ELSE ExitCode)
     \/ /\ job.kind = "evidence"
        /\ unreadable \/ QueryAgain = None
        /\ EndJob("error")
     \/ /\ job.kind = "evidence" /\ ~unreadable /\ QueryAgain # None
        /\ step' = "evidence" /\ again' = QueryAgain
        /\ UNCHANGED <<job, query, premises, offers, made, named, checks, evidence, exit, jobs>>
  /\ UNCHANGED bundles

(* required_guarding_tests: the tests a reviewer is told to keep, as a     *)
(* schema file would declare them.                                         *)
Declared(name, tests, columns) == [name |-> name, tests |-> tests, columns |-> columns]
Tested(column, tests) == [name |-> column, tests |-> tests]

(* Mutant: of a key only the uniqueness is to be tested. *)
GuardsUnique(p) ==
  IF p.test \in {"key", "unique"}
  THEN {Declared(Last(p.table), <<[test |-> "unique_combination_of_columns", columns |-> p.columns]>>,
                 <<>>)}
  ELSE {}

Guards(p) ==
  LET name   == Last(p.table)
      combination == [test |-> "unique_combination_of_columns", columns |-> p.columns]
  IN  CASE p.test = "not_null" ->
             {Declared(name, <<>>, <<Tested(p.column, <<[test |-> "not_null"]>>)>>)}
        [] p.test = "accepted_values" ->
             {Declared(name, <<>>, <<Tested(p.column,
                <<[test |-> "accepted_values", values |-> premises[name].columns[p.column].accepted]>>)>>)}
        [] p.test = "relationships" ->
             {Declared(name, <<>>, <<Tested(p.column,
                <<[test |-> "relationships", to |-> <<p.ref>>, field |-> p.field]>>)>>)}
        [] p.test = "unique" -> {Declared(name, <<combination>>, <<>>)}
        [] p.test = "key" ->
             {Declared(name, <<combination>>, <<>>)}
             \cup {Declared(name, <<>>, <<Tested(c, <<[test |-> "not_null"]>>)>>) : c \in p.columns}

(* A row: the candidate is read again; what is proven is measured, and its *)
(* difference to the query shown.                                          *)
ReviewSection(proven, outcome) ==
  IF ~proven THEN "rejected_unproven"
  ELSE IF outcome = "timed" THEN "safe" ELSE "needs_review"

GatherRow ==
  /\ step = "evidence"
  /\ \E c \in {x \in checks : x.file \notin {r.check.file : r \in evidence}} :
       \E outcome \in IF c.result.proven THEN MeasureOutcomes(premises, again, Files[c.file])
                      ELSE {None} :
         evidence' = evidence \cup
           {[check |-> c, shown |-> <<again, Files[c.file]>>, outcome |-> outcome,
             section |-> ReviewSection(c.result.proven, outcome),
             tests |-> UNION {Guards(p) : p \in c.result.needs}]}
  /\ UNCHANGED <<job, step, query, premises, offers, made, named, checks, again, exit, jobs, bundles>>

Gathered ==
  /\ step = "evidence"
  /\ {r.check : r \in evidence} = checks
  /\ EndJob(ExitCode)
  /\ UNCHANGED bundles

(* The process is gone, and what it held in memory.                        *)
LeaveJob ==
  /\ step = "ended"
  /\ step' = "idle" /\ job' = None /\ query' = None /\ premises' = <<>> /\ offers' = <<>>
  /\ made' = {} /\ named' = {} /\ checks' = {} /\ again' = None /\ evidence' = {}
  /\ exit' = None
  /\ UNCHANGED <<jobs, bundles>>

(* A signal; a candidate that is being written is lost.                    *)
KillJob ==
  /\ step \notin {"idle", "ended"}
  /\ EndJob("killed")
  /\ \/ UNCHANGED bundles
     \/ /\ step = "write" /\ offers # <<>> /\ Head(offers).text # None
        /\ Head(offers).file \in DOMAIN Files => job.force
        /\ bundles' = [bundles EXCEPT ![job.dir] = Put(@, Head(offers), TRUE)]

JobStep ==
  \/ \E j \in Jobs : StartJob(j)
  \/ LoadConstraints \/ WriteCandidate \/ Written \/ VerifyFile \/ Verified
  \/ GatherRow \/ Gathered \/ LeaveJob \/ KillJob

-----------------------------------------------------------------------------
vars == <<projectVars, genCommand, genPhase, genAsking, genWriting, genPast, readVars, jobVars,
          disturbed>>

Init == ProjectInit /\ BundlesInit /\ JobsInit

(* A change by somebody else while a command runs. *)
Disturbs ==
  disturbed' = (/\ step # "idle"
                /\ \/ disturbed
                   \/ source'[job.model] # source[job.model]
                   \/ bundles'[job.dir] # bundles[job.dir])

Next ==
  \/ /\ Edit
     /\ UNCHANGED <<genCommand, genPhase, genAsking, genWriting, genPast, readVars, jobVars>>
     /\ Disturbs
  \/ /\ GenerateStep
     /\ UNCHANGED <<projectVars, readVars, jobVars>>
     /\ Disturbs
  \/ /\ ReadStep
     /\ UNCHANGED <<projectVars, genCommand, genPhase, genAsking, genWriting, genPast>>
     /\ UNCHANGED <<jobVars, disturbed>>
  \/ /\ JobStep
     /\ UNCHANGED <<projectVars, genCommand, genPhase, genAsking, writes, summary, snapshot>>
     /\ UNCHANGED <<genPast, readVars>>
     /\ disturbed' = (disturbed /\ step' # "idle")

Spec == Init /\ [][Next]_vars

-----------------------------------------------------------------------------
(* A command with --fail-on unproven that succeeds has candidates, and     *)
(* each of them is proven of the query it read, however files were added   *)
(* to the directory, or were left there by earlier commands.  Proving      *)
(* nothing is no success (candidates.py:315).                              *)
SuccessIsProof ==
  (step = "ended" /\ exit = "ok" /\ job.fail_on) =>
    /\ checks # {}
    /\ \A c \in checks :
         \/ c.pair[2] = query
         \/ \E r \in Proofs(query, c.pair[2]) : TrustsAll(premises, r.needs)

(* What the evidence calls safe, or asks to review, is the rewriting that  *)
(* was verified: query and candidate are read a second time for the diff   *)
(* (evidence.py:84-87), so it only differs when they have changed since.   *)
(* And where the row counts differ, a premise is one that the synthetic    *)
(* data does not respect, or the rule that proved the pair is unsound.     *)
EvidenceIsOfTheProof ==
  ~disturbed =>
    \A r \in evidence :
      /\ r.shown = r.check.pair
      /\ r.outcome = "suspect" =>
           \/ r.shown \in Unsound
           \/ \E p \in r.check.result.needs : Unmet(p)

(* The tests a row asks a reviewer to keep are enough: in a project that   *)
(* declares them and nothing else the pair is proven again (guards.py).    *)
GuardsSuffice ==
  \A r \in evidence :
    TrustsAll(LoadDbtConstraints(SetToSeq(r.tests)), r.check.result.needs)

(* A reviewer who reads the evidence sees what was proven, and what it     *)
(* would take to keep it so.                                               *)
EvidenceIsSound == EvidenceIsOfTheProof /\ GuardsSuffice
=============================================================================
