------------------------------ MODULE DbtScan ------------------------------
(***************************************************************************)
(* qseal dbt scan, intake and crosscheck: dbt/scan.py, dbt/intake.py,      *)
(* report/patch.py, report/json.py and cli/dbt.py.  A command discovers    *)
(* the project, reads the schema files one after the other, reads and      *)
(* rewrites each model, and reports; a scan may then write patches or      *)
(* apply them.  Meanwhile the developer edits, and the command may be      *)
(* killed.                                                                 *)
(***************************************************************************)
EXTENDS DbtProject, FiniteSetsExt

CONSTANTS
  Commands,      \* the command lines to try
  MaxChainSteps, \* --max-steps
  MaxCommands,   \* bound: commands one after the other
  Truth,         \* the tests that hold in the warehouse
  Meaning        \* what each text means there

(* Tests are declared only where they hold, and rules are sound: a rewrite *)
(* whose premises hold keeps the meaning of the text.                      *)
Holds(p) == [p EXCEPT !.table = <<Last(p.table)>>] \in Truth
RulesAreSound ==
  \A t \in Text : \A r \in RulesOf(t) :
    (\A p \in r.needs : Holds(p)) => Meaning[r.to] = Meaning[t]
TestsHold ==
  \A said \in [SchemaFile -> Payloads] : \A t \in Text :
    \A p \in UNION {r.needs : r \in RulesOf(t)} :
      Trusts(LoadProjectConstraints(said), p) => Holds(p)
IsCommand(c) ==
  c = [kind |-> c.kind, all |-> c.all, chain |-> c.chain, dir |-> c.dir, auto |-> c.auto,
       changed |-> c.changed, then |-> c.then, fail_on |-> c.fail_on]
ASSUME CommandsAssumption ==
  \A c \in Commands : IsCommand(c) /\ (c.then = "apply" => c.kind = "scan")
ASSUME MaxChainStepsAssumption == MaxChainSteps \in Nat \ {0}
ASSUME RulesAreSoundAssumption == RulesAreSound
ASSUME TestsHoldAssumption == TestsHold

VARIABLES
  command,   \* the command line that runs or ran
  phase,     \* where it is; "idle" when none runs
  only,      \* only_paths, None for all
  unread,    \* schema files still to read
  payloads,  \* what the schema files read said
  left,      \* models still to scan
  looked,    \* what the scan of a model found, before the file is read again
  models,    \* model_count
  results,   \* the results so far
  todo,      \* what is left to write, apply or refute
  listed,    \* patches reported as written
  patchDir,  \* the patch files: path and rule to diff
  report,    \* the artifact, None before it is written
  applied,   \* per result treated, the path and whether it was applied
  reread,    \* what the schema files said when crosscheck read them again
  refuted,   \* suggestions the refuter refuted
  outcome,   \* how the last command ended
  commands,  \* how many were started
  compared,  \* history: the text a file had when it was compared, or was given
             \* since, and what its developer had last left in it
  lost       \* history: saves overwritten by a patch

asking   == <<command, only, commands>>
reading  == <<unread, payloads, reread>>
scanning == <<left, looked, models, results>>
writing  == <<todo, listed, patchDir, report, applied, refuted>>
past     == <<compared, lost>>
scanVars == <<asking, phase, reading, scanning, writing, outcome, past>>

-----------------------------------------------------------------------------
(* One model.  What cannot be read is a row of its own. *)
Unsupported(t) == [rule |-> "dbt_scan", status |-> "UNSUPPORTED",
                   from |-> t, to |-> None, needs |-> {}]

Visible(suggestions, all) ==
  IF all THEN Applicable(suggestions) ELSE Proven(suggestions)

(* The steps of a chain: the first proof of the whole text, else of its    *)
(* fragments, until a text comes back.                                     *)
ChainOf(catalog, t) ==
  LET Proofs(u) == (IF About[u].parses THEN Proven(SuggestRewrites(catalog, u))
                    ELSE <<>>) \o SuggestSubtree(catalog, u)
      steps[n \in 0 .. MaxChainSteps] ==
        IF n = 0 THEN <<>>
        ELSE LET before == steps[n - 1]
                 found  == Proofs(IF before = <<>> THEN t ELSE Last(before).to)
             IN  IF found = <<>> \/ Head(found).to \in {t} \cup {s.to : s \in Range(before)}
                 THEN before ELSE Append(before, Head(found))
  IN  steps[MaxChainSteps]

(* Mutant: the first rule stands for the model, whether it applies or not. *)
ShownFirst(suggestions, subtree) ==
  IF subtree # <<>> THEN <<Head(subtree)>>
  ELSE IF suggestions # <<>> /\ IsProven(Head(suggestions)) THEN <<Head(suggestions)>> ELSE <<>>

(* The default scan shows one finding: the first of the fragments when the *)
(* whole query proves nothing, else the first suggestion that applies, if  *)
(* it is proven.                                                           *)
Shown(suggestions, subtree) ==
  IF subtree # <<>> THEN <<Head(subtree)>>
  ELSE LET applicable == Applicable(suggestions) IN
       IF applicable # <<>> /\ IsProven(Head(applicable)) THEN <<Head(applicable)>> ELSE <<>>

ScanSuggestions(catalog, t, all) ==
  LET sql         == Preprocess(t).sql
      subtree     == SuggestSubtree(catalog, sql)
      suggestions == SuggestRewrites(catalog, sql)
  IN  IF ~Preprocess(t).supported THEN Visible(<<Unsupported(t)>>, all)
      ELSE IF ~About[sql].parses
           THEN IF subtree = <<>> THEN Visible(<<Unsupported(t)>>, all)
                ELSE IF all THEN subtree ELSE <<Head(subtree)>>
      ELSE LET fragments == IF \E i \in DOMAIN suggestions : IsProven(suggestions[i]) THEN <<>>
                            ELSE subtree
           IN  IF all THEN fragments \o Applicable(suggestions) ELSE Shown(suggestions, fragments)

(* _scan_model.  A chain without steps leaves at most a row that says the  *)
(* SQL is unsupported.                                                     *)
ScanModel(catalog, t, c) ==
  IF c.chain /\ Preprocess(t).supported
  THEN LET sql == Preprocess(t).sql IN
       IF ChainOf(catalog, sql) # <<>>
       THEN [suggestions |-> <<>>, chain |-> ChainOf(catalog, sql)]
       ELSE [suggestions |-> IF c.all /\ ~About[sql].parses THEN <<Unsupported(t)>> ELSE <<>>,
             chain |-> None]
  ELSE [suggestions |-> ScanSuggestions(catalog, t, c.all), chain |-> None]

-----------------------------------------------------------------------------
(* DbtModelScanResult. *)
HasProven(r) == r.chain # None \/ \E i \in DOMAIN r.suggestions : IsProven(r.suggestions[i])
MetricSuggestions(r) == IF r.chain # None THEN r.chain ELSE r.suggestions
DisplayPath(r) == IF r.source # None THEN r.source ELSE r.path

(* The scanned path is the source path: a compiled file lies elsewhere.    *)
FromSource(r) == ~r.compiled /\ r.source = r.path
ApplyReady(r) == HasProven(r) /\ FromSource(r) /\ ~r.preprocessed

ApplyBlocker(r) ==
  IF ApplyReady(r) THEN "none"
  ELSE IF ~HasProven(r) THEN "no_proven_rewrite"
  ELSE IF r.preprocessed THEN "source_sql_normalized"
  ELSE IF r.source = None THEN "no_matching_source_model"
  ELSE "compiled_sql_not_directly_applicable"

(* render_dbt_scan_json: the patches are those written for the same path.  *)
ScanArtifact ==
  [rows |-> [i \in DOMAIN results |->
               [path |-> DisplayPath(results[i]), blocker |-> ApplyBlocker(results[i]),
                patches |-> Among(listed, {p \in Range(listed) : p.model = DisplayPath(results[i])})]]]

(* build_dbt_intake_report: counts, no names.                              *)
Metrics(Keep(_)) == FlattenSeq([i \in DOMAIN results |->
                      IF Keep(results[i]) THEN MetricSuggestions(results[i]) ELSE <<>>])

(* Mutant: what a chain found is in no family. *)
FamiliesUnchained ==
  LET all   == FlattenSeq([i \in DOMAIN results |-> results[i].suggestions])
      Of(rule) == Among(all, {s \in Range(all) : s.rule = rule})
  IN  [rule \in {s.rule : s \in Range(all)} |->
         [count |-> Len(Of(rule)), proven |-> Len(Proven(Of(rule))),
          ready |-> Quantify(DOMAIN results, LAMBDA i : ApplyReady(results[i]))]]

(* A rule's family counts its findings, those proven, and of these the     *)
(* ones in a model that is ready.                                          *)
Families ==
  LET all   == Metrics(LAMBDA r : TRUE)
      ready == Metrics(ApplyReady)
      Of(found, rule) == Among(found, {s \in Range(found) : s.rule = rule})
  IN  [rule \in {s.rule : s \in Range(all)} |->
         [count  |-> Len(Of(all, rule)),
          proven |-> Len(Proven(Of(all, rule))),
          ready  |-> Len(Proven(Of(ready, rule)))]]

Intake ==
  LET Count(Pred(_)) == Quantify(DOMAIN results, LAMBDA i : Pred(results[i])) IN
  [models   |-> models,
   silent   |-> models - Len(results),
   proven   |-> Count(HasProven),
   findings |-> Len(Proven(Metrics(LAMBDA r : TRUE))),
   ready    |-> Count(ApplyReady),
   blocked  |-> [b \in {"source_sql_normalized", "no_matching_source_model",
                        "compiled_sql_not_directly_applicable"} |->
                   Count(LAMBDA r : HasProven(r) /\ ApplyBlocker(r) = b)],
   chained  |-> Count(LAMBDA r : r.chain # None),
   families |-> Families]

-----------------------------------------------------------------------------
(* The command line: what may not be combined. *)
Refused(c) ==
  \/ c.then = "apply" /\ c.all
  \/ c.dir # None /\ c.auto
  \/ c.changed /\ (c.auto \/ c.dir # None)
  \/ c.chain /\ c.then \in {"patches", "apply"}

Result(m, found, rendered) ==
  [path        |-> m,
   source      |-> IF command.dir = None THEN m
                   ELSE LET relative == CompiledRelativePath(command.dir, m) IN
                        IF source[relative] # None THEN relative ELSE None,
   compiled     |-> command.dir # None,
   preprocessed |-> rendered /\ command.dir = None,
   suggestions |-> found.suggestions,
   chain       |-> found.chain]

ContentsOf(m) == IF command.dir = None THEN source[m] ELSE target.text[m]

End(how) ==
  /\ phase' = "idle" /\ outcome' = how
  /\ UNCHANGED <<asking, reading, scanning, writing, past>>

(* What the end of a scan says: a patch not applied is an error, and a     *)
(* finding fails the command when asked to.                                *)
ExitCode ==
  IF \E i \in DOMAIN applied : ~applied[i].applied THEN "error"
  ELSE IF command.fail_on /\ \E i \in DOMAIN results : HasProven(results[i]) THEN "findings"
  ELSE "ok"

ScanInit ==
  /\ command = None /\ phase = "idle" /\ only = None /\ unread = <<>> /\ payloads = <<>>
  /\ left = <<>> /\ looked = None /\ models = 0 /\ results = <<>> /\ todo = <<>>
  /\ listed = <<>> /\ patchDir = <<>> /\ report = None /\ applied = <<>>
  /\ reread = <<>> /\ refuted = {} /\ outcome = None /\ commands = 0
  /\ compared = None /\ lost = {}

(* The command starts; a path given by hand is compiled SQL.  git may      *)
(* fail, and then so does the command.                                     *)
Start(c) ==
  /\ phase = "idle" /\ commands < MaxCommands
  /\ commands' = commands + 1
  /\ command' = c
  /\ \/ /\ Refused(c) \/ c.changed
        /\ phase' = "idle" /\ outcome' = "error" /\ UNCHANGED only
     \/ /\ ~Refused(c)
        /\ phase' = "discover" /\ outcome' = None
        /\ only' = IF c.changed THEN ChangedModels ELSE None
  /\ unread' = <<>> /\ payloads' = <<>> /\ left' = <<>> /\ looked' = None /\ models' = 0
  /\ results' = <<>> /\ todo' = <<>> /\ listed' = <<>> /\ report' = None /\ applied' = <<>>
  /\ reread' = <<>> /\ refuted' = {}
  /\ UNCHANGED <<patchDir, past>>

(* discover_dbt_project, after discover_compiled_sql_path if asked for.    *)
Discover ==
  /\ phase = "discover"
  /\ \/ /\ command.auto /\ Cardinality(DiscoverCompiled) # 1
        /\ End("error")
     \/ /\ command.auto => Cardinality(DiscoverCompiled) = 1
        /\ LET dir    == IF command.auto THEN CHOOSE d \in DiscoverCompiled : TRUE ELSE command.dir
               wanted == IF only = None THEN DiscoverModels(dir) ELSE Among(DiscoverModels(dir), only)
           IN  /\ command' = [command EXCEPT !.dir = dir]
               /\ left' = wanted /\ models' = Len(wanted)
        /\ unread' = SchemaFiles
        /\ phase' = "schema"
        /\ UNCHANGED <<writing, only, payloads, looked, results,
                       reread, outcome, commands, past>>

LoadSchema ==
  /\ phase = "schema"
  /\ IF unread = <<>> THEN phase' = "model" /\ UNCHANGED <<unread, payloads>>
     ELSE /\ payloads' = With(payloads, Head(unread), schema[Head(unread)])
          /\ unread' = Tail(unread)
          /\ UNCHANGED phase
  /\ UNCHANGED <<asking, scanning, writing, reread, outcome, past>>

(* One turn of the loop over the models: a file that is gone raises.  What *)
(* is found is kept until the file was read a second time.                 *)
Scan ==
  /\ phase = "model" /\ left # <<>> /\ looked = None
  /\ LET m == Head(left) IN
     \/ ContentsOf(m) = None /\ End("error")
     \/ /\ ContentsOf(m) # None
        /\ LET found == ScanModel(LoadProjectConstraints(payloads), ContentsOf(m), command) IN
           IF found.suggestions = <<>> /\ found.chain = None
           THEN left' = Tail(left) /\ UNCHANGED looked
           ELSE looked' = found /\ UNCHANGED left
        /\ UNCHANGED <<asking, reading, writing, phase, models, results, outcome, past>>

(* The second reading tells whether the source is what was verified.       *)
ReadAgain ==
  /\ phase = "model" /\ looked # None
  /\ LET m == Head(left) IN
     \/ ContentsOf(m) = None /\ End("error")
     \/ /\ ContentsOf(m) # None
        /\ LET p == Preprocess(ContentsOf(m)) IN
           results' = Append(results, Result(m, looked, p.changed \/ About[p.sql].with))
        /\ left' = Tail(left) /\ looked' = None
        /\ UNCHANGED <<asking, reading, writing, phase, models, outcome, past>>

(* All models are scanned: what comes next depends on the command.         *)
Diffs == FlattenSeq([i \in DOMAIN results |->
           LET proven == Proven(results[i].suggestions) IN
           [j \in DOMAIN proven |->
              [model |-> DisplayPath(results[i]), rule |-> proven[j].rule,
               diff |-> <<proven[j].from, proven[j].to>>]]])

Scanned ==
  /\ phase = "model" /\ left = <<>>
  /\ \/ /\ command.kind = "scan" /\ command.then = "patches"
        /\ phase' = "patches" /\ todo' = Diffs /\ UNCHANGED <<unread, report>>
     \/ /\ command.kind = "scan" /\ command.then # "patches"
        /\ phase' = "report" /\ UNCHANGED <<todo, unread, report>>
     \/ /\ command.kind = "intake"
        /\ phase' = "finish" /\ report' = Intake /\ UNCHANGED <<todo, unread>>
     \/ /\ command.kind = "crosscheck"
        /\ phase' = "reread" /\ unread' = SchemaFiles /\ UNCHANGED <<todo, report>>
  /\ UNCHANGED <<asking, scanning, payloads, listed, patchDir, applied,
                 reread, refuted, outcome, past>>

(* Mutant: a patch file that exists is kept. *)
WritePatchOnce ==
  /\ phase = "patches"
  /\ IF todo = <<>> THEN phase' = "report" /\ UNCHANGED <<todo, listed, patchDir>>
     ELSE LET p == Head(todo) IN
          /\ patchDir' = IF <<p.model, p.rule>> \in DOMAIN patchDir THEN patchDir
                          ELSE With(patchDir, <<p.model, p.rule>>, p.diff)
          /\ listed' = Append(listed, p)
          /\ todo' = Tail(todo)
          /\ UNCHANGED phase
  /\ UNCHANGED <<asking, reading, scanning, report, applied, refuted, outcome, past>>

(* write_dbt_scan_patch_results: one file per path and rule. *)
WritePatch ==
  /\ phase = "patches"
  /\ IF todo = <<>> THEN phase' = "report" /\ UNCHANGED <<todo, listed, patchDir>>
     ELSE LET p == Head(todo) IN
          /\ patchDir' = With(patchDir, <<p.model, p.rule>>, p.diff)
          /\ listed' = Append(listed, p)
          /\ todo' = Tail(todo)
          /\ UNCHANGED phase
  /\ UNCHANGED <<asking, reading, scanning, report, applied, refuted, outcome, past>>

WriteReport ==
  /\ phase = "report"
  /\ report' = ScanArtifact
  /\ \/ /\ command.then = "apply"
        /\ phase' = "apply"
        /\ todo' = Among(results, {r \in Range(results) : Proven(r.suggestions) # <<>>})
     \/ command.then # "apply" /\ phase' = "finish" /\ UNCHANGED todo
  /\ UNCHANGED <<asking, reading, scanning, listed, patchDir,
                 applied, refuted, outcome, past>>

-----------------------------------------------------------------------------
(* apply_dbt_scan_patches: the file is read and compared, then opened for  *)
(* writing, which empties it, then filled.                                 *)
FirstProven(r) == Head(Proven(r.suggestions))
Outcome(r, done) == [path |-> DisplayPath(r), rule |-> FirstProven(r).rule, applied |-> done]

(* Mutant: the file is not compared with what was verified. *)
StillMatchesAnything(r) == TRUE

StillMatches(r) == source[DisplayPath(r)] = FirstProven(r).from

(* Mutant: the first rewrite that cannot be applied ends the loop. *)
SkipRest(r) ==
  /\ applied' = Append(applied, Outcome(r, FALSE))
  /\ todo' = <<>>
  /\ UNCHANGED <<asking, reading, scanning, phase, listed, patchDir,
                 report, refuted, outcome, past>>

Skip(r) ==
  /\ applied' = Append(applied, Outcome(r, FALSE))
  /\ todo' = Tail(todo)
  /\ UNCHANGED <<asking, reading, scanning, phase, listed, patchDir,
                 report, refuted, outcome, past>>

ApplyCheck ==
  /\ phase = "apply" /\ todo # <<>>
  /\ LET r == Head(todo) IN
     \/ ~ApplyReady(r) /\ Skip(r)
     \/ /\ ApplyReady(r)
        /\ \/ source[DisplayPath(r)] = None /\ End("error")
           \/ source[DisplayPath(r)] # None /\ ~StillMatches(r) /\ Skip(r)
           \/ /\ source[DisplayPath(r)] # None /\ StillMatches(r)
              /\ phase' = "open" /\ compared' = <<source[DisplayPath(r)], saved[DisplayPath(r)]>>
              /\ UNCHANGED <<asking, reading, scanning, writing, outcome, lost>>
  /\ UNCHANGED projectVars

Overwrite(m, t) ==
  /\ source' = [source EXCEPT ![m] = t]
  /\ compared' = <<t, saved[m]>>
  /\ lost' = IF <<source[m], saved[m]>> = compared THEN lost ELSE lost \cup {<<m, saved[m]>>}
  /\ UNCHANGED <<target, schema, saved, saves>>

OpenModel ==
  /\ phase = "open"
  /\ Overwrite(DisplayPath(Head(todo)), Empty)
  /\ phase' = "fill"
  /\ UNCHANGED <<asking, reading, scanning, writing, outcome>>

FillModel ==
  /\ phase = "fill"
  /\ LET r == Head(todo) IN
     /\ Overwrite(DisplayPath(r), FirstProven(r).to)
     /\ applied' = Append(applied, Outcome(r, TRUE))
  /\ todo' = Tail(todo)
  /\ phase' = "apply"
  /\ UNCHANGED <<asking, reading, scanning, listed, patchDir, report, refuted, outcome>>

-----------------------------------------------------------------------------
(* crosscheck reads the schema files a second time and asks the refuter    *)
(* about each pair that was proven.  The refuter knows of keys and         *)
(* non-null columns only: it may refute a pair that needs anything else.   *)
LoadSchemaAgain ==
  /\ phase = "reread"
  /\ IF unread = <<>>
     THEN /\ phase' = "refute"
          /\ todo' = FlattenSeq([i \in DOMAIN results |->
                                   Proven(results[i].suggestions)])
          /\ UNCHANGED <<unread, reread>>
     ELSE /\ reread' = With(reread, Head(unread), schema[Head(unread)])
          /\ unread' = Tail(unread)
          /\ UNCHANGED <<phase, todo>>
  /\ UNCHANGED <<asking, scanning, payloads, listed, patchDir, report,
                 applied, refuted, outcome, past>>

(* Mutant: the refuter is told nothing. *)
MayRefuteUntold(catalog, s) == s.needs # {}

(* The refuter is told of keys and non-null columns, abstains where there  *)
(* is a foreign key or a key that may be NULL, and never hears of accepted *)
(* values.                                                                 *)
MayRefute(catalog, s) ==
  \E p \in s.needs : p.test = "accepted_values" \/ ~Trusts(catalog, p)

Refute ==
  /\ phase = "refute" /\ todo # <<>>
  /\ \/ UNCHANGED refuted
     \/ /\ MayRefute(LoadProjectConstraints(reread), Head(todo))
        /\ refuted' = refuted \cup {Head(todo)}
  /\ todo' = Tail(todo)
  /\ UNCHANGED <<asking, reading, scanning, phase, listed, patchDir,
                 report, applied, outcome, past>>

Finish ==
  \/ phase = "finish" /\ End(IF command.kind = "scan" THEN ExitCode ELSE "ok")
  \/ phase = "apply" /\ todo = <<>> /\ End(ExitCode)
  \/ phase = "refute" /\ todo = <<>> /\ End(IF refuted = {} THEN "ok" ELSE "findings")

(* A signal, at any step: between the emptying of a file and its filling   *)
(* it leaves the file empty.                                               *)
Kill ==
  /\ phase # "idle"
  /\ phase' = "idle" /\ outcome' = "killed" /\ UNCHANGED compared
  /\ lost' = IF phase = "fill"
             THEN lost \cup {<<DisplayPath(Head(todo)), saved[DisplayPath(Head(todo))]>>}
             ELSE lost
  /\ UNCHANGED <<asking, reading, scanning, writing>>

ScanStep ==
  \/ /\ \/ \E c \in Commands : Start(c)
        \/ Discover \/ LoadSchema \/ Scan \/ ReadAgain \/ Scanned \/ WritePatch \/ WriteReport
        \/ LoadSchemaAgain \/ Refute \/ Finish \/ Kill
     /\ UNCHANGED projectVars
  \/ ApplyCheck \/ OpenModel \/ FillModel

vars == <<projectVars, scanVars>>
Init == ProjectInit /\ ScanInit
Next == ScanStep \/ (Edit /\ UNCHANGED scanVars)
Spec == Init /\ [][Next]_vars

-----------------------------------------------------------------------------
(* Every rewrite a scan calls proven rests on declared tests: each premise *)
(* of it is a test, in a schema file as it was read, of a relation with    *)
(* the name the query uses.  Merging files and declarations must not make  *)
(* up a test, nor pair a key with another column's (scan.py:341-388).      *)
Said(name) ==
  UNION {{r \in Range(payloads[f]) : r.name = name} : f \in DOMAIN payloads}

ColumnsOf(relations) == UNION {Range(r.columns) : r \in relations}

TestsOn(relations, column, test) ==
  {t \in UNION {Range(c.tests) : c \in {d \in ColumnsOf(relations) : d.name = column}} :
     t.test = test}

KeysOf(relations) ==
  {{c.name} : c \in {d \in ColumnsOf(relations) : TestsOn(relations, d.name, "unique") # {}}}
  \cup {t.columns : t \in {u \in UNION {Range(r.tests) : r \in relations} :
                             u.test = "unique_combination_of_columns"}}

DeclaredOn(relations, p) ==
  CASE p.test = "not_null"        -> TestsOn(relations, p.column, "not_null") # {}
    [] p.test = "accepted_values" -> \E t \in TestsOn(relations, p.column, "accepted_values") :
                                       t.values \subseteq p.values
    [] p.test = "unique"          -> \E key \in KeysOf(relations) : key \subseteq p.columns
    [] p.test = "key"             -> \E key \in KeysOf(relations) :
                                       /\ key \subseteq p.columns
                                       /\ \A c \in key : TestsOn(relations, c, "not_null") # {}
    [] p.test = "relationships"   -> \E t \in TestsOn(relations, p.column, "relationships") :
                                       Last(t.to) = p.ref /\ t.field = p.field

FindingsRestOnTests ==
  \A i \in DOMAIN results : \A s \in Range(results[i].suggestions) :
    IsProven(s) => \A p \in s.needs : DeclaredOn(Said(Last(p.table)), p)

(* However the developer edits meanwhile, and wherever a command is        *)
(* killed, a model file means what its developer last saved: nothing       *)
(* rendered, normalised or verified from other text is written over it.    *)
(* Only two things are lost: a save between the comparison and the write   *)
(* (patch.py:88-100), and, when the write is killed, the whole file.       *)
ModelFilesKeepMeaning ==
  \A m \in Model :
    \/ <<m, saved[m]>> \in lost
    \/ source[m] = saved[m]
    \/ source[m] = Empty /\ phase = "fill" /\ DisplayPath(Head(todo)) = m
    \/ source[m] # None /\ saved[m] # None /\ Meaning[source[m]] = Meaning[saved[m]]

(* Left alone, a scan with --apply-patches that ends has written every     *)
(* rewrite that was ready, and says so (patch.py:65-109); a report lists   *)
(* what blocks the others.                                                 *)
ReadyIsApplied ==
  (phase = "idle" /\ outcome \in {"ok", "findings", "error"} /\ report # None
   /\ command.then = "apply" /\ saves = 0) =>
     \A i \in DOMAIN results : ApplyReady(results[i]) =>
       /\ \E j \in DOMAIN applied : applied[j].path = DisplayPath(results[i]) /\ applied[j].applied
       /\ source[results[i].path] = FirstProven(results[i]).to

(* A default scan is silent about a model it could read only if no rule    *)
(* proves anything of it, or one that applies without a proof comes before *)
(* those that do (scan.py:282): what the scan leaves out of its default    *)
(* output is never just lost.                                              *)
SilentOnlyBehindAnother ==
  LET catalog == LoadProjectConstraints(payloads)
      Plain   == {t \in Text : About[t].jinja = "none" /\ About[t].parses}
      Open(s) == s.status \in {"UNKNOWN", "UNSUPPORTED"}
  IN  (phase = "model" /\ ~command.all) =>
        \A t \in Plain :
          LET found  == SuggestRewrites(catalog, t)
              proven == {i \in DOMAIN found : IsProven(found[i])}
          IN  ScanSuggestions(catalog, t, FALSE) = <<>> =>
                /\ SuggestSubtree(catalog, t) = <<>> \/ proven # {}
                /\ proven # {} => \E i \in DOMAIN found : Open(found[i]) /\ \A j \in proven : i < j

(* The patches a report lists with a row are the row's proven rewrites,    *)
(* and each is in its file, whatever files an earlier or a killed command  *)
(* left there (patch.py:40-60, json.py:184).  Two rewrites have one file,  *)
(* and only the later is in it, when one rule rewrites two fragments of a  *)
(* model; two rows share their patches when compiled files of two packages *)
(* have one source path.                                                   *)
RowsHaveTheirPatches ==
  (phase = "finish" /\ command.kind = "scan" /\ command.then = "patches") =>
    \A i \in DOMAIN results :
      LET r      == results[i]
          mine   == report.rows[i].patches
          proven == Proven(r.suggestions)
      IN  (\A j \in DOMAIN results \ {i} : DisplayPath(results[j]) # DisplayPath(r)) =>
            /\ Len(mine) = Len(proven)
            /\ \A n \in DOMAIN mine :
                 /\ mine[n].diff = <<proven[n].from, proven[n].to>>
                 /\ \/ patchDir[<<mine[n].model, mine[n].rule>>] = mine[n].diff
                    \/ \E k \in DOMAIN mine : k > n /\ mine[k].rule = mine[n].rule

(* crosscheck exits nonzero only for "a soundness bug in QuerySeal or an   *)
(* untrue trusted constraint" (cli/dbt.py:415).  Neither exists here: a    *)
(* refutation is due to a schema file changed between the two readings, or *)
(* to accepted values, which the refuter is not told of (verieql.py:425).  *)
CrosscheckBlamesRightly ==
  \A s \in refuted : \/ reread # payloads
                     \/ \E p \in s.needs : p.test = "accepted_values"

(* The aggregate of an intake accounts for every model and every finding:  *)
(* a model is silent, unproven, ready, or blocked for a reason that has a  *)
(* category, and the families hold the findings, chained or not, each once *)
(* (intake.py:13-276).                                                     *)
IntakeAddsUp ==
  (command # None /\ command.kind = "intake" /\ report # None) =>
    LET InAll(f)  == FoldFunction(LAMBDA x, y : x + y, 0, f)
        Of(field) == InAll([rule \in DOMAIN report.families |-> report.families[rule][field]])
    IN  /\ report.ready + InAll(report.blocked) = report.proven
        /\ report.silent >= 0 /\ report.silent + report.proven <= report.models
        /\ Of("proven") = report.findings /\ report.findings >= report.proven
        /\ Of("ready") <= report.findings /\ (report.ready = 0 <=> Of("ready") = 0)

(* Neither report of a scan loses a finding or counts one twice. *)
ReportsAddUp == RowsHaveTheirPatches /\ IntakeAddsUp
=============================================================================
