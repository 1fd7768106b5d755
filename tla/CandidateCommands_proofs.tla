---------------------- MODULE CandidateCommands_proofs ----------------------
(***************************************************************************)
(* What holds of qseal llm and qseal candidates for every project, every   *)
(* set of rules, every model that answers and every command line, however  *)
(* the commands interleave with each other and with the developer.         *)
(***************************************************************************)
EXTENDS CandidateCommands, Collections_proofs, FiniteSetTheorems

-----------------------------------------------------------------------------
(* The project. *)
ProjectInv ==
  /\ source \in [Model -> Text \cup {None}]
  /\ schema \in [SchemaFile -> Payloads]

LEMMA ProjectInvKept ==
  ASSUME ProjectInv, [Next]_vars
  PROVE  ProjectInv'
<1>1. CASE UNCHANGED projectVars
  BY <1>1 DEF ProjectInv, projectVars
<1>2. CASE Edit
  <2>1. ASSUME NEW m \in Model, NEW t \in Saves, Save(m, t) PROVE ProjectInv'
    BY <2>1, TextsAssumption DEF Save, ProjectInv
  <2>2. ASSUME NEW f \in SchemaFile, NEW payload \in Payloads, EditSchema(f, payload)
        PROVE  ProjectInv'
    BY <2>2 DEF EditSchema, ProjectInv
  <2> QED BY <1>2, <2>1, <2>2 DEF Edit
<1> QED BY <1>1, <1>2 DEF Next, vars

-----------------------------------------------------------------------------
(* A command of qseal candidates: what it has verified is what the         *)
(* built-in verifier says of the query it read, and it does not come to an *)
(* end with nothing verified.                                              *)
Looking == job.kind \in {"check", "evidence"}

(* Verification, of a catalog that is named. *)
VerificationUnder(catalog, o, c) ==
  LET proofs == {r \in Range(About[o].whole) : r.to = c /\ TrustsAll(catalog, r.needs)} IN
  IF ~About[o].parses \/ ~About[c].parses THEN [proven |-> FALSE, needs |-> {}]
  ELSE IF o = c THEN [proven |-> TRUE, needs |-> {}]
  ELSE IF proofs = {} THEN [proven |-> FALSE, needs |-> {}]
  ELSE [proven |-> TRUE, needs |-> (CHOOSE r \in proofs : TRUE).needs]

(* What is proven is proven by a rule whose needs the catalog meets. *)
LEMMA ProvenByRule ==
  ASSUME NEW catalog, NEW o, NEW c, VerificationUnder(catalog, o, c).proven, o # c
  PROVE  \E r \in Proofs(o, c) : /\ TrustsAll(catalog, r.needs)
                                 /\ VerificationUnder(catalog, o, c).needs = r.needs
<1> DEFINE proofs == {r \in Range(About[o].whole) : r.to = c /\ TrustsAll(catalog, r.needs)}
<1>1. /\ proofs # {}
      /\ VerificationUnder(catalog, o, c).needs = (CHOOSE r \in proofs : TRUE).needs
  BY DEF VerificationUnder
<1>2. (CHOOSE r \in proofs : TRUE) \in proofs
  BY <1>1
<1> QED BY <1>1, <1>2 DEF Proofs, RulesOf

JobInv ==
  /\ step \in {"idle", "schema", "write", "verify", "evidence", "ended"}
  /\ step # "idle" => job \in Jobs /\ query \in Text
  /\ step \in {"idle", "schema", "write"} => checks = {}
  /\ step # "ended" => exit = None
  /\ step \in {"idle", "schema", "write", "verify"} => evidence = {}
  /\ step = "write" => ~Looking
  /\ step \in {"schema", "verify"} /\ Looking => named # {} \/ checks # {}
  /\ step = "verify" => job.kind # "generate"
  /\ step = "evidence" => checks # {} /\ job.kind = "evidence"
  /\ \A c \in checks : /\ c.pair[1] = query
                       /\ c.result = VerificationUnder(premises, query, c.pair[2])
  /\ (step = "ended" /\ exit = "ok" /\ job.fail_on) =>
       checks # {} /\ \A c \in checks : c.result.proven

(* What every step of another process leaves alone of a command. *)
LEMMA JobInvOfOthers ==
  ASSUME JobInv, UNCHANGED jobVars
  PROVE  JobInv'
  BY DEF JobInv, jobVars, Looking

LEMMA EndingKeeps ==
  ASSUME JobInv, step # "idle", NEW how, EndJob(how),
         (how = "ok" /\ job.fail_on) => checks # {} /\ \A c \in checks : c.result.proven
  PROVE  JobInv'
<1>1. /\ step' = "ended" /\ exit' = how
      /\ UNCHANGED <<job, query, premises, checks, named, evidence>>
  BY DEF EndJob
<1> QED BY <1>1 DEF JobInv, Looking

LEMMA JobInvKept ==
  ASSUME JobInv, ProjectInv, JobStep
  PROVE  JobInv'
<1>1. ASSUME NEW j \in Jobs, StartJob(j) PROVE JobInv'
  <2>1. source[j.model] \in Text
    BY <1>1, JobsAssumption DEF StartJob, ProjectInv
  <2>2. j.kind \in {"check", "evidence"} /\ step' = "schema" => named' # {}
    BY <1>1 DEF StartJob
  <2>3. /\ step = "idle" /\ job' = j /\ query' = source[j.model] /\ step' \in {"schema", "ended"}
        /\ exit' = IF step' = "schema" THEN None ELSE "error"
        /\ UNCHANGED <<checks, evidence>>
    BY <1>1 DEF StartJob
  <2> QED BY <2>1, <2>2, <2>3 DEF JobInv, Looking
<1>2. CASE LoadConstraints
  <2>1. /\ step = "schema" /\ step' \in {"verify", "write"}
        /\ step' = IF Looking THEN "verify" ELSE "write"
        /\ UNCHANGED <<job, query, named, checks, again, evidence, exit>>
    BY <1>2 DEF LoadConstraints, Looking
  <2> QED BY <2>1 DEF JobInv, Looking
<1>3. CASE WriteCandidate
  <2>1. CASE EndJob("error")
    BY <1>3, <2>1, EndingKeeps DEF WriteCandidate
  <2>2. CASE UNCHANGED <<job, step, query, premises, named, checks, evidence, exit>>
    BY <2>2 DEF JobInv, Looking
  <2> QED BY <1>3, <2>1, <2>2 DEF WriteCandidate
<1>4. CASE Written
  <2>1. CASE EndJob("ok")
    <3>1. ~ job.fail_on /\ step = "write"
      BY <1>4, <2>1, JobsAssumption DEF Written, JobInv, EndJob
    <3> QED BY <2>1, <3>1, EndingKeeps
  <2>2. CASE /\ step' = "verify" /\ job.kind # "generate"
             /\ UNCHANGED <<job, query, premises, checks, evidence, exit>>
    BY <1>4, <2>2 DEF Written, JobInv, Looking
  <2> QED BY <1>4, <2>1, <2>2 DEF Written
<1>5. CASE VerifyFile
  <2>1. PICK f \in named :
          /\ checks' = checks \cup {[file |-> f, pair |-> <<query, Files[f]>>,
                                     result |-> Verification(query, Files[f])]}
          /\ named' = named \ {f}
    BY <1>5 DEF VerifyFile
  <2>2. Verification(query, Files[f]) = VerificationUnder(premises, query, Files[f])
    BY DEF Verification, VerificationUnder
  <2>3. step = "verify" /\ UNCHANGED <<job, step, query, premises, evidence, exit>>
    BY <1>5 DEF VerifyFile
  <2>4. checks' # {}
    BY <2>1
  <2>5. \A c \in checks' : /\ c.pair[1] = query
                          /\ c.result = VerificationUnder(premises, query, c.pair[2])
    BY <2>1, <2>2 DEF JobInv
  <2> QED BY <2>3, <2>4, <2>5 DEF JobInv, Looking
<1>6. CASE Verified
  <2>1. CASE EndJob("error")
    BY <1>6, <2>1, EndingKeeps DEF Verified
  <2>2. CASE job.kind # "evidence" /\ EndJob(ExitCode)
    <3>1. step = "verify" /\ named = {} /\ job.kind \in {"run", "check"}
      BY <1>6, <2>2, JobsAssumption DEF Verified, JobInv
    <3>2. job.kind = "check" => checks # {}
      BY <3>1 DEF JobInv, Looking
    <3> QED BY <2>2, <3>1, <3>2, EndingKeeps DEF ExitCode, Fails
  <2>3. CASE /\ job.kind = "evidence" /\ step' = "evidence" /\ named = {}
             /\ UNCHANGED <<job, query, premises, named, checks, evidence, exit>>
    BY <1>6, <2>3 DEF Verified, JobInv, Looking
  <2> QED BY <1>6, <2>1, <2>2, <2>3 DEF Verified
<1>7. CASE GatherRow
  BY <1>7 DEF GatherRow, JobInv, Looking
<1>8. CASE Gathered
  BY <1>8, EndingKeeps DEF Gathered, ExitCode, Fails, JobInv
<1>9. CASE LeaveJob
  BY <1>9 DEF LeaveJob, JobInv, Looking
<1>10. CASE KillJob
  BY <1>10, EndingKeeps DEF KillJob
<1> QED BY <1>1, <1>2, <1>3, <1>4, <1>5, <1>6, <1>7, <1>8, <1>9, <1>10 DEF JobStep

(* With --fail-on unproven no command ends well unless it has verified     *)
(* something, and all of it is proven of the query it read.                *)
LEMMA ProvenIsSuccess ==
  ASSUME JobInv
  PROVE  SuccessIsProof
<1> SUFFICES ASSUME step = "ended", exit = "ok", job.fail_on
             PROVE  /\ checks # {}
                    /\ \A c \in checks :
                         \/ c.pair[2] = query
                         \/ \E r \in Proofs(query, c.pair[2]) : TrustsAll(premises, r.needs)
  BY DEF SuccessIsProof
<1>1. checks # {} /\ \A c \in checks : c.result.proven
  BY DEF JobInv
<1>2. ASSUME NEW c \in checks, c.pair[2] # query
      PROVE  \E r \in Proofs(query, c.pair[2]) : TrustsAll(premises, r.needs)
  <2>1. VerificationUnder(premises, query, c.pair[2]).proven
    BY <1>1 DEF JobInv
  <2> QED BY <1>2, <2>1, ProvenByRule
<1> QED BY <1>1, <1>2

-----------------------------------------------------------------------------
(* The evidence shows what was verified, as long as nobody else touches    *)
(* the query or the directory.                                             *)
(* The rows of a soundly proven pair only differ on synthetic data if a    *)
(* premise of every proof is one that the data does not respect.           *)
LEMMA SuspectHasUnmetPremise ==
  ASSUME NEW catalog, NEW o \in Text, NEW c, "suspect" \in MeasureOutcomes(catalog, o, c),
         <<o, c>> \notin Unsound, NEW r \in Proofs(o, c), TrustsAll(catalog, r.needs)
  PROVE  \E p \in r.needs : Unmet(p)
<1>1. PICK p \in r.needs : ~ Synthesized(catalog, p)
  BY DEF MeasureOutcomes, SameCounts
<1>2. Trusts(catalog, p)
  BY DEF TrustsAll
<1>3. p.test \in {"not_null", "accepted_values", "unique", "key", "relationships"}
  BY TextsAssumption DEF Proofs
<1>4. p.test # "not_null"
  BY <1>1, <1>2 DEF Synthesized
<1>5. p.test # "key"
  <2> SUFFICES ASSUME p.test = "key" PROVE FALSE
    OBVIOUS
  <2> DEFINE q == [table |-> p.table, test |-> "key", columns |-> p.columns]
  <2>1. Synthesized(catalog, p) = Trusts(catalog, q)
    BY DEF Synthesized
  <2>2. q.table = p.table /\ q.test = "key" /\ q.columns = p.columns
    OBVIOUS
  <2> HIDE DEF q
  <2>3. Trusts(catalog, q) <=> Trusts(catalog, p)
    BY <2>2 DEF Trusts
  <2> QED BY <1>1, <1>2, <2>1, <2>3
<1> QED BY <1>3, <1>4, <1>5 DEF Unmet

(* What is known of a row of the evidence. *)
RowOfProof(r) ==
  /\ r.shown = r.check.pair
  /\ r.outcome = "suspect" => r.shown \in Unsound \/ \E p \in r.check.result.needs : Unmet(p)

UndisturbedInv ==
  /\ disturbed \in BOOLEAN
  /\ step = "idle" => ~disturbed
  /\ (step # "idle" /\ ~disturbed) =>
       /\ source[job.model] = query
       /\ \A c \in checks : c.pair = <<query, Files[c.file]>>
       /\ step = "evidence" => again = query
       /\ \A r \in evidence : RowOfProof(r)

LEMMA UndisturbedByOthers ==
  ASSUME UndisturbedInv, UNCHANGED jobVars,
         \/ Disturbs
         \/ UNCHANGED disturbed /\ UNCHANGED <<source, bundles>>
  PROVE  UndisturbedInv'
<1>1. CASE step = "idle"
  <2>1. disturbed' = FALSE
    BY <1>1 DEF UndisturbedInv, Disturbs
  <2> QED BY <1>1, <2>1 DEF UndisturbedInv, jobVars
<1>2. CASE step # "idle"
  <2>1. disturbed' \in BOOLEAN
    BY DEF UndisturbedInv, Disturbs
  <2>2. ASSUME ~ disturbed'
        PROVE  ~ disturbed /\ source'[job.model] = source[job.model]
               /\ bundles'[job.dir] = bundles[job.dir]
    BY <1>2, <2>2 DEF UndisturbedInv, Disturbs
  <2> QED BY <1>2, <2>1, <2>2 DEF UndisturbedInv, jobVars, Files
<1> QED BY <1>1, <1>2

LEMMA UndisturbedKept ==
  ASSUME UndisturbedInv, JobInv, JobStep, disturbed' = (disturbed /\ step' # "idle"),
         UNCHANGED source
  PROVE  UndisturbedInv'
<1>1. disturbed' \in BOOLEAN /\ (step' = "idle" => ~disturbed')
  BY DEF UndisturbedInv
<1> SUFFICES ASSUME step' # "idle", ~ disturbed'
             PROVE  /\ source[job'.model] = query'
                    /\ \A c \in checks' : c.pair = <<query', bundles'[job'.dir].files[c.file]>>
                    /\ step' = "evidence" => again' = query'
                    /\ \A r \in evidence' : RowOfProof(r)
  BY <1>1 DEF UndisturbedInv, Files
<1>2. ~ disturbed
  OBVIOUS
<1>3. ASSUME NEW j \in Jobs, StartJob(j)
      PROVE  /\ source[j.model] = query' /\ job' = j /\ checks' = {} /\ evidence' = {}
             /\ step' # "evidence"
  BY <1>3 DEF StartJob, JobInv
<1>4. CASE step # "idle" /\ UNCHANGED <<job, query, checks, evidence>>
           /\ (UNCHANGED bundles \/ checks = {})
           /\ (step' = "evidence" => again' = query)
  BY <1>2, <1>4 DEF UndisturbedInv, Files
<1>5. CASE VerifyFile
  <2>1. PICK f \in named :
          checks' = checks \cup {[file |-> f, pair |-> <<query, Files[f]>>,
                                  result |-> Verification(query, Files[f])]}
    BY <1>5 DEF VerifyFile
  <2>2. step = "verify" /\ UNCHANGED <<job, step, query, evidence, bundles>>
    BY <1>5 DEF VerifyFile
  <2> QED BY <1>2, <2>1, <2>2 DEF UndisturbedInv, Files
<1>6. CASE GatherRow
  <2>1. PICK c \in checks :
          \E outcome \in IF c.result.proven THEN MeasureOutcomes(premises, again, Files[c.file])
                         ELSE {None} :
            evidence' = evidence \cup
              {[check |-> c, shown |-> <<again, Files[c.file]>>, outcome |-> outcome,
                section |-> ReviewSection(c.result.proven, outcome),
                tests |-> UNION {Guards(p) : p \in c.result.needs}]}
    BY <1>6 DEF GatherRow
  <2>2. PICK outcome \in IF c.result.proven THEN MeasureOutcomes(premises, again, Files[c.file])
                         ELSE {None} :
          evidence' = evidence \cup
            {[check |-> c, shown |-> <<again, Files[c.file]>>, outcome |-> outcome,
              section |-> ReviewSection(c.result.proven, outcome),
              tests |-> UNION {Guards(p) : p \in c.result.needs}]}
    BY <2>1
  <2>3. /\ step = "evidence" /\ step' = step
        /\ UNCHANGED <<job, query, checks, again, bundles>>
    BY <1>6 DEF GatherRow
  <2>4. /\ again = query /\ c.pair = <<query, Files[c.file]>> /\ source[job.model] = query
        /\ \A x \in checks : x.pair = <<query, Files[x.file]>>
        /\ \A r \in evidence : RowOfProof(r)
    BY <1>2, <2>3 DEF UndisturbedInv
  <2>5. /\ query \in Text /\ c.pair[2] = Files[c.file]
        /\ c.result = VerificationUnder(premises, query, Files[c.file])
    BY <2>3, <2>4 DEF JobInv
  <2>6. ASSUME outcome = "suspect", <<query, Files[c.file]>> \notin Unsound
        PROVE  \E p \in c.result.needs : Unmet(p)
    <3>1. c.result.proven
      BY <2>2, <2>6, AnswersAssumption
    <3>2. "suspect" \in MeasureOutcomes(premises, query, Files[c.file])
      BY <2>2, <2>4, <2>6, <3>1
    <3>3. query # Files[c.file]
      BY <3>2 DEF MeasureOutcomes, SameCounts
    <3>4. PICK r \in Proofs(query, Files[c.file]) :
            TrustsAll(premises, r.needs) /\ c.result.needs = r.needs
      BY <2>5, <3>1, <3>3, ProvenByRule
    <3> QED BY <2>5, <2>6, <3>2, <3>4, SuspectHasUnmetPremise
  <2>7. \A r \in evidence' : RowOfProof(r)
    BY <2>2, <2>4, <2>6 DEF RowOfProof
  <2> QED BY <2>3, <2>4, <2>7 DEF Files
<1>7. CASE Verified
  <2>1. CASE step' = "ended"
    BY <1>4, <1>7, <2>1 DEF Verified, EndJob
  <2>2. CASE step' = "evidence" /\ again' = source[job.model]
    <3>1. again' = query
      BY <1>2, <1>7, <2>2 DEF UndisturbedInv, Verified
    <3> QED BY <1>4, <1>7, <2>2, <3>1 DEF Verified, EndJob
  <2> QED BY <1>7, <2>1, <2>2 DEF Verified, EndJob, QueryAgain
<1>8. CASE KillJob
  BY <1>4, <1>8 DEF KillJob, EndJob, JobInv
<1>9. CASE WriteCandidate
  BY <1>4, <1>9 DEF WriteCandidate, EndJob, JobInv
<1>10. CASE LoadConstraints \/ Written \/ Gathered
  BY <1>4, <1>10 DEF LoadConstraints, Written, Gathered, EndJob
<1>11. CASE LeaveJob
  BY <1>11 DEF LeaveJob
<1> QED BY <1>3, <1>5, <1>6, <1>7, <1>8, <1>9, <1>10, <1>11 DEF JobStep

-----------------------------------------------------------------------------
(* What qseal llm generate writes into a directory: the metadata last, and *)
(* before it the files it lists, each with the text of its number.         *)
FileText(r, candidates, f) == IF f = Original THEN r.sql ELSE candidates[f[1]]

LEMMA ListedCandidates ==
  ASSUME NEW candidates, IsList(candidates)
  PROVE  /\ IsList(Listed(candidates))
         /\ \A f \in Range(Listed(candidates)) :
              /\ f = <<f[1], "llm">> /\ f[1] \in DOMAIN candidates /\ f[1] # 0
              /\ candidates[f[1]] # None
<1> DEFINE all  == [i \in DOMAIN candidates |-> <<i, "llm">>]
           some == {<<i, "llm">> : i \in {j \in DOMAIN candidates : candidates[j] # None}}
<1>1. IsList(all)
  BY ListAlong
<1>2. DOMAIN candidates = 1 .. Len(candidates) /\ Len(candidates) \in Nat
  BY ListOf DEF IsList
<1>3. Listed(candidates) = Among(all, some)
  BY DEF Listed
<1>4. \A f \in some : /\ f = <<f[1], "llm">> /\ f[1] \in DOMAIN candidates /\ f[1] # 0
                      /\ candidates[f[1]] # None
  BY <1>2
<1> HIDE DEF all, some
<1>5. IsList(Listed(candidates)) /\ Range(Listed(candidates)) \subseteq some
  BY <1>1, <1>3, AmongRange
<1> QED BY <1>4, <1>5

WritesOf(r, candidates, all) ==
  /\ IsList(all) /\ Len(all) \in Nat /\ 1 < Len(all)
  /\ all[1].file = Original
  /\ all[Len(all)] = [file |-> Metadata, entries |-> Listed(candidates)]
  /\ \A i \in 1 .. Len(all) - 1 :
       /\ all[i].file # Metadata /\ all[i].text \in Text
       /\ all[i].text = FileText(r, candidates, all[i].file)
       /\ all[i].file = Original \/ all[i].file = <<all[i].file[1], "llm">>
  /\ \A f \in Range(Listed(candidates)) : \E i \in 1 .. Len(all) - 1 : all[i].file = f

LEMMA BundleWritten ==
  ASSUME NEW r, NEW candidates, IsList(candidates), r.sql \in Text,
         Range(candidates) \subseteq Text \cup {None}
  PROVE  WritesOf(r, candidates, BundleWrites(r, candidates))
<1> DEFINE files == Listed(candidates)
           first == [file |-> Original, text |-> r.sql]
           last  == [file |-> Metadata, entries |-> files]
           rest  == [n \in DOMAIN files |-> [file |-> files[n], text |-> candidates[files[n][1]]]]
           size  == Len(files)
           all   == BundleWrites(r, candidates)
<1>1. /\ IsList(files) /\ DOMAIN files = 1 .. size /\ size \in Nat
      /\ \A n \in DOMAIN files : files[n] \in Range(files)
      /\ \A f \in Range(files) : \E n \in DOMAIN files : files[n] = f
  BY ListedCandidates, ListOf DEF IsList
<1>2. \A f \in Range(files) : /\ f[1] # 0 /\ f[2] = "llm" /\ f = <<f[1], "llm">>
                              /\ candidates[f[1]] \in Text
  <2>1. \A i \in DOMAIN candidates : candidates[i] \in Range(candidates)
    BY DEF Range
  <2>2. ASSUME NEW f \in Range(files)
        PROVE  f[1] # 0 /\ f[2] = "llm" /\ f = <<f[1], "llm">> /\ candidates[f[1]] \in Text
    <3>1. /\ f = <<f[1], "llm">> /\ f[1] \in DOMAIN candidates /\ f[1] # 0
          /\ candidates[f[1]] # None
      BY <2>2, ListedCandidates
    <3> QED BY <2>1, <3>1
  <2> QED BY <2>2
<1>3. all = <<first>> \o rest \o <<last>>
  BY DEF BundleWrites, BundleFiles
<1>4. /\ IsList(rest) /\ DOMAIN rest = 1 .. size
      /\ \A n \in 1 .. size : rest[n].file = files[n] /\ rest[n].text = candidates[files[n][1]]
  BY <1>1, ListAlong
<1>5. first.file = Original /\ first.text = r.sql /\ last = [file |-> Metadata, entries |-> Listed(candidates)]
  OBVIOUS
<1> DEFINE T == {first} \cup Range(rest) \cup {last}
<1>6. <<first>> \in Seq(T) /\ rest \in Seq(T) /\ <<last>> \in Seq(T) /\ Len(rest) = size
  BY <1>1, <1>4 DEF IsList
<1> HIDE DEF files, first, last, rest, size, T, all
<1>7. /\ all \in Seq(T) /\ Len(all) = size + 2
      /\ all[1] = first /\ all[size + 2] = last
      /\ \A n \in 1 .. size : all[n + 1] = rest[n]
  BY <1>1, <1>3, <1>6
<1>8. ASSUME NEW i \in 1 .. Len(all) - 1
      PROVE  /\ all[i].file # Metadata /\ all[i].text \in Text
             /\ all[i].text = FileText(r, candidates, all[i].file)
             /\ all[i].file = Original \/ all[i].file = <<all[i].file[1], "llm">>
  <2>1. CASE i = 1
    BY <1>5, <1>7, <2>1 DEF FileText, Original, Metadata
  <2>2. CASE i # 1
    <3>1. i - 1 \in 1 .. size /\ i - 1 + 1 = i
      BY <1>1, <1>7, <2>2
    <3>2. all[i] = rest[i - 1] /\ files[i - 1] \in Range(files)
      BY <1>1, <1>7, <3>1
    <3>3. all[i].file = files[i - 1] /\ all[i].text = candidates[files[i - 1][1]]
      BY <1>4, <3>1, <3>2
    <3>4. /\ files[i - 1] # Original /\ files[i - 1] # Metadata
          /\ files[i - 1] = <<files[i - 1][1], "llm">>
      BY <1>2, <3>2 DEF Original, Metadata
    <3> QED BY <1>2, <3>2, <3>3, <3>4 DEF FileText
  <2> QED BY <2>1, <2>2
<1>9. ASSUME NEW f \in Range(files) PROVE \E i \in 1 .. Len(all) - 1 : all[i].file = f
  <2>1. PICK n \in 1 .. size : files[n] = f
    BY <1>1
  <2>2. n + 1 \in 1 .. Len(all) - 1 /\ all[n + 1].file = f
    BY <1>1, <1>4, <1>7, <2>1
  <2> QED BY <2>2
<1>10. IsList(all) /\ Len(all) \in Nat /\ 1 < Len(all) /\ all[Len(all)] = last
  BY <1>1, <1>7, ListOf
<1> QED BY <1>5, <1>7, <1>8, <1>9, <1>10 DEF files, all, WritesOf

-----------------------------------------------------------------------------
(* A run of qseal llm generate.  Its requests are those it has dealt with, *)
(* by their number, and then those that are pending.                       *)
Names == {Stem(m) : m \in Model}
Done  == Len(requests) - Len(pending)

RequestsInv ==
  /\ genPhase \in {"idle", "select", "poll", "direct", "write", "done"}
  /\ genPhase = "idle" \/ generation \in Generations
  /\ IsList(requests)
  /\ \A r \in Range(requests) : /\ r.name \in Names /\ r.sql \in Text
                                /\ r.premises = PremisesFor(constraints, r.sql)
  /\ genPhase = "select" => /\ IsList(unselected) /\ Range(unselected) \subseteq Model
                            /\ summary = NoSummary
  /\ genPhase = "poll" => /\ \A i, j \in DOMAIN requests : requests[i].name = requests[j].name => i = j
                          /\ summary = NoSummary
  /\ genPhase \in {"direct", "write", "done"} => IsEnd(pending, requests, Done)
  /\ genPhase = "direct" => summary = NoSummary
  /\ genPhase = "done" => pending = <<>> /\ snapshot = constraints
  /\ genPhase \in {"write", "done"} =>
       /\ summary = [bundles |-> summary.bundles, candidates |-> summary.candidates,
                     errors |-> summary.errors]
       /\ summary.bundles \in Nat /\ summary.errors \in Nat
       /\ summary.bundles + summary.errors = Done

(* The answer to the k-th of n requests is kept under its name unless a    *)
(* later one has the same name.                                            *)
Kept(k, n) == \A j \in k + 1 .. n : requests[j].name # requests[k].name
AnswersUpTo(n) ==
  \A k \in 1 .. n : Kept(k, n) /\ requests[k].name \in DOMAIN responses =>
    Pairs(requests[k], responses[requests[k].name]) \subseteq answered

IsResponse(x) ==
  /\ x.error \in BOOLEAN
  /\ IsList(x.candidates) /\ Range(x.candidates) \subseteq Text \cup {None}
  /\ Listed(x.candidates) \notin {None, Torn} \/ x.error

ResponsesInv ==
  /\ \A n \in DOMAIN responses : IsResponse(responses[n])
  /\ genPhase = "direct" => AnswersUpTo(Done)
  /\ genPhase \in {"write", "done"} => AnswersUpTo(Len(requests))

(* Where the run is in a directory: the files before this one are there.   *)
FilesSoFar(r, all) ==
  /\ 0 < Len(writes) /\ Len(writes) <= Len(all)
  /\ \A i \in 1 .. Len(writes) : writes[i] = all[Len(all) - Len(writes) + i]
  /\ \A i \in 1 .. Len(all) - Len(writes) :
       /\ all[i].file \in DOMAIN bundles[r.name].files
       /\ bundles[r.name].files[all[i].file] = all[i].text

Answered(name) == name \in DOMAIN responses /\ ~responses[name].error

WritingInv ==
  /\ IsList(writes)
  /\ writes # <<>> =>
       /\ genPhase = "write" /\ pending # <<>>
       /\ Answered(Head(pending).name) /\ Head(pending).name \in unfinished
       /\ FilesSoFar(Head(pending),
                     BundleWrites(Head(pending), responses[Head(pending).name].candidates))

(* What was answered is in its directory as soon as it is dealt with. *)
MetadataInv ==
  genPhase \in {"write", "done"} =>
    \A k \in 1 .. Done : Answered(requests[k].name) =>
      bundles[requests[k].name].metadata = Listed(responses[requests[k].name].candidates)

(* The directories. *)
IsBundle(b) ==
  /\ b = [files |-> b.files, metadata |-> b.metadata]
  /\ \A f \in DOMAIN b.files : b.files[f] \in Text
  /\ b.metadata \notin {None, Torn} =>
       /\ IsList(b.metadata) /\ Original \in DOMAIN b.files
       /\ \A f \in Range(b.metadata) : f \in DOMAIN b.files /\ f = <<f[1], "llm">> /\ f[1] # 0

AnswersItsOriginal(b) ==
  b.metadata # None =>
    /\ b.metadata # Torn
    /\ \A f \in Range(b.metadata) : <<b.files[Original], b.files[f]>> \in answered

BundlesInv ==
  /\ bundles = [n \in Names |-> bundles[n]]
  /\ \A n \in Names : IsBundle(bundles[n])
  /\ \A n \in Names \ unfinished : AnswersItsOriginal(bundles[n])

GenerateInv == RequestsInv /\ ResponsesInv /\ WritingInv /\ MetadataInv /\ BundlesInv

(* The files that qseal candidates generate writes are its own. *)
OffersInv ==
  step = "write" =>
    /\ IsList(offers)
    /\ \A w \in Range(offers) : /\ w.file = <<w.file[1], w.file[2]>>
                                /\ w.file[1] # 0 /\ w.file[2] # "llm"
                                /\ w.text \in Text \cup {None}

WithFile(b, file, value) == [b EXCEPT !.files = With(@, file, value)]
WithMetadata(b, value) == [b EXCEPT !.metadata = value]

LEMMA FileReplaced ==
  ASSUME NEW b, IsBundle(b), NEW file, NEW value \in Text,
         NEW c, c = WithFile(b, file, value)
  PROVE  /\ IsBundle(c) /\ c.metadata = b.metadata
         /\ DOMAIN c.files = DOMAIN b.files \cup {file}
         /\ c.files[file] = value
         /\ \A f \in DOMAIN b.files : f # file => c.files[f] = b.files[f]
<1> DEFINE files    == b.files
           metadata == b.metadata
<1>1. b = [files |-> files, metadata |-> metadata]
  BY DEF IsBundle
<1>2. c = [files |-> With(files, file, value), metadata |-> metadata]
  BY <1>1 DEF WithFile
<1>3. /\ \A f \in DOMAIN files : files[f] \in Text
      /\ metadata \notin {None, Torn} =>
           /\ IsList(metadata) /\ Original \in DOMAIN files
           /\ \A f \in Range(metadata) : f \in DOMAIN files /\ f = <<f[1], "llm">> /\ f[1] # 0
  BY DEF IsBundle
<1> HIDE DEF files, metadata
<1>4. c.files = With(files, file, value) /\ c.metadata = metadata
      /\ c = [files |-> c.files, metadata |-> c.metadata]
  BY <1>2
<1>5. /\ DOMAIN c.files = DOMAIN files \cup {file}
      /\ c.files[file] = value
      /\ \A f \in DOMAIN files : f # file => c.files[f] = files[f]
  BY <1>4 DEF With
<1>6. \A f \in DOMAIN c.files : c.files[f] \in Text
  BY <1>3, <1>5
<1>7. IsBundle(c)
  BY <1>3, <1>4, <1>5, <1>6 DEF IsBundle
<1> QED BY <1>4, <1>5, <1>7 DEF files, metadata

LEMMA MetadataReplaced ==
  ASSUME NEW b, IsBundle(b), NEW value, NEW c, c = WithMetadata(b, value),
         value \notin {None, Torn} =>
           /\ IsList(value) /\ Original \in DOMAIN b.files
           /\ \A f \in Range(value) : f \in DOMAIN b.files /\ f = <<f[1], "llm">> /\ f[1] # 0
  PROVE  IsBundle(c) /\ c.files = b.files /\ c.metadata = value
<1> DEFINE files    == b.files
           metadata == b.metadata
<1>1. b = [files |-> files, metadata |-> metadata] /\ \A f \in DOMAIN files : files[f] \in Text
  BY DEF IsBundle
<1>2. c = [files |-> files, metadata |-> value]
  BY <1>1 DEF WithMetadata
<1>3. value \notin {None, Torn} =>
        /\ IsList(value) /\ Original \in DOMAIN files
        /\ \A f \in Range(value) : f \in DOMAIN files /\ f = <<f[1], "llm">> /\ f[1] # 0
  OBVIOUS
<1> HIDE DEF files, metadata
<1>4. c.files = files /\ c.metadata = value /\ c = [files |-> c.files, metadata |-> c.metadata]
  BY <1>2
<1>5. IsBundle(c)
  BY <1>1, <1>3, <1>4 DEF IsBundle
<1> QED BY <1>4, <1>5 DEF files

(* A file that is put, whole or torn. *)
LEMMA FileIsPut ==
  ASSUME NEW b, IsBundle(b), NEW w, w.file # Metadata, w.text \in Text, NEW torn \in BOOLEAN,
         NEW c, c = Put(b, w, torn)
  PROVE  /\ IsBundle(c) /\ c.metadata = b.metadata
         /\ DOMAIN c.files = DOMAIN b.files \cup {w.file}
         /\ \A f \in DOMAIN b.files : f # w.file => c.files[f] = b.files[f]
<1> DEFINE value == IF torn THEN Empty ELSE w.text
<1>1. value \in Text
  BY TextsAssumption
<1>2. c = WithFile(b, w.file, value)
  BY DEF Put, WithFile
<1> HIDE DEF value
<1> QED BY <1>1, <1>2, FileReplaced

PutWhole(b, w) == Put(b, w, FALSE)

LEMMA WholeFileIsPut ==
  ASSUME NEW b, IsBundle(b), NEW w, w.file # Metadata, w.text \in Text, NEW c, c = PutWhole(b, w)
  PROVE  /\ IsBundle(c) /\ c.metadata = b.metadata
         /\ DOMAIN c.files = DOMAIN b.files \cup {w.file}
         /\ c.files[w.file] = w.text
         /\ \A f \in DOMAIN b.files : f # w.file => c.files[f] = b.files[f]
<1>1. c = WithFile(b, w.file, w.text)
  BY DEF PutWhole, Put, WithFile
<1> QED BY <1>1, FileReplaced

LEMMA MetadataIsPut ==
  ASSUME NEW b, IsBundle(b), NEW w, w.file = Metadata, NEW torn \in BOOLEAN,
         NEW c, c = Put(b, w, torn),
         /\ IsList(w.entries) /\ Original \in DOMAIN b.files
         /\ \A f \in Range(w.entries) : f \in DOMAIN b.files /\ f = <<f[1], "llm">> /\ f[1] # 0
  PROVE  IsBundle(c)
<1> DEFINE value == IF torn THEN Torn ELSE w.entries
<1>1. c = WithMetadata(b, value)
  BY DEF Put, WithMetadata
<1>2. value = Torn \/ value = w.entries
  OBVIOUS
<1> HIDE DEF value
<1>3. value \notin {None, Torn} =>
        /\ IsList(value) /\ Original \in DOMAIN b.files
        /\ \A f \in Range(value) : f \in DOMAIN b.files /\ f = <<f[1], "llm">> /\ f[1] # 0
  BY <1>2
<1> QED BY <1>1, <1>3, MetadataReplaced

LEMMA WholeMetadataIsPut ==
  ASSUME NEW b, IsBundle(b), NEW w, w.file = Metadata, NEW c, c = PutWhole(b, w),
         /\ IsList(w.entries) /\ Original \in DOMAIN b.files
         /\ \A f \in Range(w.entries) : f \in DOMAIN b.files /\ f = <<f[1], "llm">> /\ f[1] # 0
  PROVE  IsBundle(c) /\ c.files = b.files /\ c.metadata = w.entries
<1>1. c = WithMetadata(b, w.entries)
  BY DEF PutWhole, Put, WithMetadata
<1> QED BY <1>1, MetadataReplaced

(* The command of qseal candidates leaves what was answered as it is. *)
LEMMA OwnFileKeeps ==
  ASSUME NEW b, IsBundle(b), NEW w, w.file = <<w.file[1], w.file[2]>>, w.file[1] # 0,
         w.file[2] # "llm", w.text \in Text, NEW torn \in BOOLEAN, NEW c, c = Put(b, w, torn)
  PROVE  /\ IsBundle(c) /\ c.metadata = b.metadata
         /\ \A f \in DOMAIN b.files :
              f \in DOMAIN c.files
              /\ (f = Original \/ f = <<f[1], "llm">> => c.files[f] = b.files[f])
         /\ AnswersItsOriginal(b) => AnswersItsOriginal(c)
<1>1. w.file # Metadata /\ w.file # Original
  BY DEF Metadata, Original
<1>2. /\ IsBundle(c) /\ c.metadata = b.metadata
      /\ DOMAIN c.files = DOMAIN b.files \cup {w.file}
      /\ \A f \in DOMAIN b.files : f # w.file => c.files[f] = b.files[f]
  BY <1>1, FileIsPut
<1>3. \A f \in DOMAIN b.files : f = Original \/ f = <<f[1], "llm">> => f # w.file
  <2>1. ASSUME NEW f, f = <<f[1], "llm">> PROVE f # w.file
    <3>1. f[2] = "llm"
      BY <2>1
    <3> QED BY <3>1
  <2> QED BY <1>1, <2>1
<1>4. \A f \in DOMAIN b.files :
        f \in DOMAIN c.files
        /\ (f = Original \/ f = <<f[1], "llm">> => c.files[f] = b.files[f])
  BY <1>2, <1>3
<1>5. ASSUME AnswersItsOriginal(b) PROVE AnswersItsOriginal(c)
  <2> SUFFICES ASSUME c.metadata # None
               PROVE  /\ c.metadata # Torn
                      /\ \A f \in Range(c.metadata) : <<c.files[Original], c.files[f]>> \in answered
    BY DEF AnswersItsOriginal
  <2>1. /\ b.metadata \notin {None, Torn}
        /\ \A f \in Range(b.metadata) : <<b.files[Original], b.files[f]>> \in answered
    BY <1>2, <1>5 DEF AnswersItsOriginal
  <2>2. /\ Original \in DOMAIN b.files
        /\ \A f \in Range(b.metadata) : f \in DOMAIN b.files /\ f = <<f[1], "llm">>
    BY <2>1 DEF IsBundle
  <2>3. /\ c.files[Original] = b.files[Original]
        /\ \A f \in Range(b.metadata) : c.files[f] = b.files[f]
    BY <1>4, <2>2
  <2> QED BY <1>2, <2>1, <2>3
<1> QED BY <1>2, <1>4, <1>5

-----------------------------------------------------------------------------
(* The request that is next. *)
LEMMA NextOfRequests ==
  ASSUME RequestsInv, genPhase \in {"direct", "write", "done"}, pending # <<>>
  PROVE  /\ Done \in Nat /\ Done + 1 \in 1 .. Len(requests) /\ Len(requests) \in Nat
         /\ Head(pending) = requests[Done + 1] /\ Head(pending) \in Range(requests)
         /\ IsEnd(Tail(pending), requests, Done + 1)
<1>1. IsEnd(pending, requests, Done)
  BY DEF RequestsInv
<1> QED BY <1>1, EndAdvances

LEMMA RequestsAdvance ==
  ASSUME RequestsInv, genPhase \in {"direct", "write", "done"}, pending # <<>>,
         UNCHANGED requests, pending' = Tail(pending)
  PROVE  Done' = Done + 1 /\ IsEnd(pending', requests', Done')
<1>1. IsEnd(Tail(pending), requests, Done + 1)
  BY NextOfRequests
<1>2. Done + 1 = Len(requests) - Len(Tail(pending))
  BY <1>1, EndLengths
<1> QED BY <1>1, <1>2 DEF Done

-----------------------------------------------------------------------------
(* The steps of the other processes. *)
LEMMA GenerateInvOfOthers ==
  ASSUME GenerateInv, UNCHANGED <<genCommand, genPhase, genAsking, genWriting, genPast>>
  PROVE  GenerateInv'
<1> USE DEF genCommand, genAsking, genWriting, genPast
<1>1. RequestsInv'
  BY DEF GenerateInv, RequestsInv, Done
<1>2. ResponsesInv'
  BY DEF GenerateInv, ResponsesInv, AnswersUpTo, Kept, Done
<1>3. WritingInv'
  BY DEF GenerateInv, WritingInv, Answered, FilesSoFar
<1>4. MetadataInv'
  BY DEF GenerateInv, MetadataInv, Done, Answered
<1>5. BundlesInv'
  BY DEF GenerateInv, BundlesInv, AnswersItsOriginal
<1> QED BY <1>1, <1>2, <1>3, <1>4, <1>5 DEF GenerateInv

LEMMA GenerateInvOfJobs ==
  ASSUME GenerateInv, UNCHANGED <<genCommand, genPhase, genAsking, writes, summary, snapshot, genPast>>,
         NEW d \in Names, NEW w, w.file = <<w.file[1], w.file[2]>>, w.file[1] # 0,
         w.file[2] # "llm", w.text \in Text, NEW torn \in BOOLEAN,
         bundles' = [bundles EXCEPT ![d] = Put(@, w, torn)]
  PROVE  GenerateInv'
<1>1. /\ bundles = [n \in Names |-> bundles[n]] /\ \A n \in Names : IsBundle(bundles[n])
      /\ \A n \in Names \ unfinished : AnswersItsOriginal(bundles[n])
  BY DEF GenerateInv, BundlesInv
<1>2. /\ bundles'[d] = Put(bundles[d], w, torn)
      /\ \A n \in Names : n # d => bundles'[n] = bundles[n]
      /\ bundles' = [n \in Names |-> bundles'[n]]
  BY <1>1
<1>3. \A n \in Names :
        /\ IsBundle(bundles'[n]) /\ bundles'[n].metadata = bundles[n].metadata
        /\ \A f \in DOMAIN bundles[n].files :
             f \in DOMAIN bundles'[n].files
             /\ (f = Original \/ f = <<f[1], "llm">> => bundles'[n].files[f] = bundles[n].files[f])
        /\ AnswersItsOriginal(bundles[n]) => AnswersItsOriginal(bundles'[n])
  <2> TAKE n \in Names
  <2>1. CASE n = d
    BY <1>1, <1>2, <2>1, OwnFileKeeps
  <2>2. CASE n # d
    BY <1>1, <1>2, <2>2
  <2> QED BY <2>1, <2>2
<1>4. BundlesInv'
  BY <1>1, <1>2, <1>3 DEF BundlesInv, AnswersItsOriginal, genPast
<1>5. RequestsInv' /\ ResponsesInv'
  BY DEF GenerateInv, RequestsInv, ResponsesInv, AnswersUpTo, Kept, Done, genCommand, genAsking,
         genPast
<1>6. MetadataInv'
  <2> SUFFICES ASSUME genPhase \in {"write", "done"}, NEW k \in 1 .. Done, Answered(requests[k].name)
               PROVE  bundles'[requests[k].name].metadata
                        = Listed(responses[requests[k].name].candidates)
    BY DEF MetadataInv, Done, Answered, genAsking
  <2>1. k \in 1 .. Len(requests) /\ requests \in Seq(Range(requests))
    BY DEF GenerateInv, RequestsInv, Done, IsList
  <2>2. requests[k].name \in Names
    BY <2>1 DEF GenerateInv, RequestsInv
  <2> QED BY <1>3, <2>2 DEF GenerateInv, MetadataInv
<1>7. WritingInv'
  <2> SUFFICES ASSUME writes # <<>>
               PROVE  FilesSoFar(Head(pending), BundleWrites(Head(pending),
                                   responses[Head(pending).name].candidates))'
    BY DEF GenerateInv, WritingInv, Answered, genAsking, genPast
  <2> DEFINE r   == Head(pending)
             c   == responses[r.name].candidates
             all == BundleWrites(r, c)
  <2>1. /\ genPhase = "write" /\ pending # <<>> /\ Answered(r.name) /\ IsList(writes)
        /\ FilesSoFar(r, all)
    BY DEF GenerateInv, WritingInv
  <2>2. r \in Range(requests)
    BY <2>1, NextOfRequests DEF GenerateInv
  <2>3. r.name \in Names /\ r.sql \in Text
    BY <2>2 DEF GenerateInv, RequestsInv
  <2>4. IsList(c) /\ Range(c) \subseteq Text \cup {None}
    BY <2>1 DEF GenerateInv, ResponsesInv, IsResponse, Answered
  <2>5. all = BundleWrites(r, c)
    OBVIOUS
  <2>6. UNCHANGED <<writes, pending, responses>> /\ r' = r /\ all' = all
    BY DEF genAsking
  <2> HIDE DEF r, c, all
  <2>7. /\ Len(all) \in Nat
        /\ \A i \in 1 .. Len(all) - 1 :
             all[i].file = Original \/ all[i].file = <<all[i].file[1], "llm">>
    <3>1. WritesOf(r, c, all)
      BY <2>3, <2>4, <2>5, BundleWritten
    <3> QED BY <3>1 DEF WritesOf
  <2>8. Len(writes) \in Nat
    BY <2>1, ListOf DEF IsList
  <2>9. \A i \in 1 .. Len(all) - Len(writes) : i \in 1 .. Len(all) - 1
    BY <2>1, <2>7, <2>8 DEF FilesSoFar
  <2>10. ASSUME NEW i \in 1 .. Len(all) - Len(writes)
         PROVE  /\ all[i].file \in DOMAIN bundles'[r.name].files
                /\ bundles'[r.name].files[all[i].file] = all[i].text
    <3>1. /\ all[i].file \in DOMAIN bundles[r.name].files
          /\ bundles[r.name].files[all[i].file] = all[i].text
      BY <2>1 DEF FilesSoFar
    <3> QED BY <1>3, <2>3, <2>7, <2>9, <3>1
  <2>11. FilesSoFar(r, all)'
    BY <2>1, <2>6, <2>10 DEF FilesSoFar
  <2> QED BY <2>11 DEF r, c, all
<1> QED BY <1>4, <1>5, <1>6, <1>7 DEF GenerateInv

-----------------------------------------------------------------------------
(* The steps of qseal llm generate.  The process ends: nothing is left of  *)
(* it but the directories.                                                 *)
LEMMA EndOfRunKeeps ==
  ASSUME GenerateInv, GenerateEnds, BundlesInv'
  PROVE  GenerateInv'
<1>1. /\ genPhase' = "idle" /\ requests' = <<>> /\ pending' = <<>> /\ responses' = <<>>
      /\ writes' = <<>>
  BY DEF GenerateEnds
<1>2. IsList(<<>>) /\ Range(<<>>) = {}
  BY DEF IsList, Range
<1>3. RequestsInv' /\ ResponsesInv' /\ WritingInv' /\ MetadataInv'
  BY <1>1, <1>2 DEF RequestsInv, ResponsesInv, WritingInv, MetadataInv
<1> QED BY <1>3 DEF GenerateInv

(* Directories that are not touched. *)
LEMMA BundlesStay ==
  ASSUME GenerateInv, UNCHANGED bundles, answered \subseteq answered', unfinished \subseteq unfinished'
  PROVE  BundlesInv'
<1>1. \A n \in Names : AnswersItsOriginal(bundles[n]) => AnswersItsOriginal(bundles[n])'
  BY DEF AnswersItsOriginal
<1> QED BY <1>1 DEF GenerateInv, BundlesInv

LEMMA StartKeeps ==
  ASSUME GenerateInv, NEW g \in Generations, Generate(g)
  PROVE  GenerateInv'
<1>1. /\ genPhase' = "select" /\ generation' = g /\ requests' = <<>> /\ pending' = <<>>
      /\ responses' = <<>> /\ writes' = <<>> /\ summary' = NoSummary
      /\ unselected' = DiscoverModels(None) /\ UNCHANGED <<bundles, answered, unfinished>>
  BY DEF Generate, genPast
<1>2. IsList(<<>>) /\ Range(<<>>) = {}
  BY DEF IsList, Range
<1>3. IsList(DiscoverModels(None)) /\ Range(DiscoverModels(None)) \subseteq Model
  BY ProjectsAssumption, AmongRange DEF DiscoverModels, Model
<1>4. RequestsInv' /\ ResponsesInv' /\ WritingInv' /\ MetadataInv'
  BY <1>1, <1>2, <1>3 DEF RequestsInv, ResponsesInv, WritingInv, MetadataInv
<1>5. BundlesInv'
  BY <1>1, BundlesStay
<1> QED BY <1>4, <1>5 DEF GenerateInv

LEMMA SelectedRequests ==
  ASSUME NEW m \in Model, NEW t \in Text
  PROVE  /\ IsList(Selected(m, t))
         /\ \A r \in Range(Selected(m, t)) : /\ r.name \in Names /\ r.sql \in Text
                                             /\ r.premises = PremisesFor(constraints, r.sql)
<1> DEFINE sql == Preprocess(t).sql
           r   == [name |-> Stem(m), path |-> m, sql |-> sql,
                   premises |-> PremisesFor(constraints, sql)]
<1>1. sql \in Text /\ Stem(m) \in Names
  BY TextsAssumption DEF Preprocess, Names
<1>2. Selected(m, t) \in {<<r>>, <<>>}
  BY DEF Selected
<1>3. r.name \in Names /\ r.sql \in Text /\ r.premises = PremisesFor(constraints, r.sql)
  BY <1>1
<1> HIDE DEF r
<1>4. IsList(<<r>>) /\ Range(<<r>>) = {r} /\ IsList(<<>>) /\ Range(<<>>) = {}
  BY DEF IsList, Range
<1> QED BY <1>2, <1>3, <1>4

LEMMA SelectKeeps ==
  ASSUME GenerateInv, ProjectInv, Select
  PROVE  GenerateInv'
<1> DEFINE m == Head(unselected)
<1>1. genPhase = "select" /\ unselected # <<>>
  BY DEF Select
<1>2. CASE GenerateEnds /\ UNCHANGED bundles
  BY <1>2, EndOfRunKeeps, BundlesStay DEF GenerateEnds, genPast
<1>3. CASE /\ source[m] # None
           /\ requests' = requests \o Selected(m, source[m])
           /\ unselected' = Tail(unselected)
           /\ UNCHANGED <<genPhase, genCommand, pending, responses, genWriting, genPast>>
  <2>1. /\ UNCHANGED <<genPhase, generation, constraints, responses, writes, summary, bundles,
                       answered, unfinished>>
        /\ genPhase' = "select"
    BY <1>1, <1>3 DEF genCommand, genWriting, genPast
  <2>2. m \in Model /\ IsList(Tail(unselected)) /\ Range(Tail(unselected)) \subseteq Model
    BY <1>1, EndsOfList DEF GenerateInv, RequestsInv
  <2>3. source[m] \in Text
    BY <1>3, <2>2 DEF ProjectInv
  <2> DEFINE more == Selected(m, source[m])
  <2>4. /\ IsList(more)
        /\ \A r \in Range(more) : /\ r.name \in Names /\ r.sql \in Text
                                  /\ r.premises = PremisesFor(constraints, r.sql)
    BY <2>2, <2>3, SelectedRequests
  <2>5. requests' = requests \o more
    BY <1>3
  <2> HIDE DEF more
  <2>6. IsList(requests') /\ Range(requests') = Range(requests) \cup Range(more)
    BY <2>4, <2>5, ListsTogether DEF GenerateInv, RequestsInv
  <2>7. RequestsInv'
    BY <1>1, <1>3, <2>1, <2>2, <2>4, <2>6 DEF GenerateInv, RequestsInv
  <2>8. ResponsesInv' /\ WritingInv' /\ MetadataInv'
    BY <1>1, <2>1 DEF GenerateInv, ResponsesInv, WritingInv, MetadataInv
  <2> QED BY <2>1, <2>7, <2>8, BundlesStay DEF GenerateInv
<1> QED BY <1>2, <1>3 DEF Select

LEMMA AskedRequests ==
  ASSUME GenerateInv, genPhase # "idle"
  PROVE  /\ IsList(Asked) /\ Range(Asked) \subseteq Range(requests)
         /\ DOMAIN Asked = 1 .. Len(Asked) /\ Len(Asked) \in Nat
<1>1. /\ requests \in Seq(Range(requests)) /\ Len(requests) \in Nat /\ IsList(requests)
      /\ generation \in Generations
  BY DEF GenerateInv, RequestsInv, IsList
<1>2. CASE generation.limit = None
  BY <1>1, <1>2, ListOf DEF Asked
<1>3. CASE generation.limit # None
  <2> DEFINE n == Min({generation.limit, Len(requests)})
  <2>1. generation.limit \in Nat
    BY <1>1, <1>3, AnswersAssumption
  <2>2. n \in Nat /\ n <= Len(requests)
    BY <1>1, <2>1 DEF Min
  <2>3. Asked = SubSeq(requests, 1, n)
    BY <1>3 DEF Asked
  <2> HIDE DEF n
  <2>4. Asked \in Seq(Range(requests))
    BY <1>1, <2>2, <2>3
  <2> QED BY <2>4, ListOf
<1> QED BY <1>2, <1>3

LEMMA AskKeeps ==
  ASSUME GenerateInv, Ask
  PROVE  GenerateInv'
<1>1. CASE GenerateEnds
  BY <1>1, EndOfRunKeeps, BundlesStay DEF GenerateEnds, genPast, Ask
<1>2. CASE /\ requests' = Asked /\ pending' = Asked
           /\ genPhase' = IF generation.batch THEN "poll" ELSE "direct"
           /\ ~ (generation.dry \/ (generation.batch /\ BatchRefused))
           /\ UNCHANGED <<genCommand, unselected, responses, writes, summary, genPast>>
  <2>1. genPhase = "select" /\ UNCHANGED <<generation, constraints, answered, unfinished, bundles>>
    BY <1>2 DEF genCommand, genPast, Ask
  <2>2. /\ IsList(Asked) /\ Range(Asked) \subseteq Range(requests)
        /\ DOMAIN Asked = 1 .. Len(Asked) /\ Len(Asked) \in Nat
    BY <2>1, AskedRequests
  <2>3. ASSUME genPhase' = "poll", NEW i \in DOMAIN Asked, NEW j \in DOMAIN Asked,
               Asked[i].name = Asked[j].name
        PROVE  i = j
    <3>1. generation.batch
      BY <1>2, <2>3
    <3>2. IsInjective([k \in DOMAIN Asked |-> Asked[k].name])
      BY <1>2, <3>1 DEF BatchRefused
    <3> QED BY <2>3, <3>2 DEF IsInjective
  <2>4. Done' = 0 /\ IsEnd(Asked, Asked, 0)
    BY <1>2, <2>2, WholeIsEnd DEF Done
  <2>5. RequestsInv'
    BY <1>2, <2>1, <2>2, <2>3, <2>4 DEF GenerateInv, RequestsInv
  <2>6. ResponsesInv'
    BY <1>2, <2>1, <2>4 DEF GenerateInv, ResponsesInv, AnswersUpTo
  <2>7. WritingInv' /\ MetadataInv'
    BY <1>2, <2>1 DEF GenerateInv, WritingInv, MetadataInv
  <2> QED BY <2>1, <2>5, <2>6, <2>7, BundlesStay DEF GenerateInv
<1> QED BY <1>1, <1>2 DEF Ask

LEMMA ResponseIsList ==
  ASSUME NEW r, r.sql \in Text, NEW response \in Responses(r)
  PROVE  IsResponse(response)
<1>1. IsList(<<>>) /\ Range(<<>>) = {}
  BY DEF IsList, Range
<1>2. CASE response = [error |-> TRUE, candidates |-> <<>>]
  BY <1>1, <1>2 DEF IsResponse
<1>3. CASE \E a \in Answers[r.sql] : response = [error |-> FALSE, candidates |-> a]
  BY <1>3, AnswersAssumption, TornAssumption DEF IsResponse
<1> QED BY <1>2, <1>3 DEF Responses

LEMMA DirectKeeps ==
  ASSUME GenerateInv, Direct
  PROVE  GenerateInv'
<1> DEFINE r == Head(pending)
<1>1. /\ genPhase = "direct"
      /\ UNCHANGED <<generation, constraints, requests, writes, summary, bundles, snapshot,
                     unfinished, unselected>>
  BY DEF Direct, genCommand, genWriting
<1>2. IsList(requests) /\ IsEnd(pending, requests, Done) /\ IsEnd(requests, requests, 0)
  BY <1>1, WholeIsEnd DEF GenerateInv, RequestsInv
<1>3. CASE pending = <<>> /\ StartWriting /\ UNCHANGED <<responses, answered>>
  <2>1. genPhase' = "write" /\ pending' = requests /\ Done' = 0 /\ Done = Len(requests)
    <3>1. Len(requests) \in Nat
      BY <1>2, EndLengths
    <3> QED BY <1>1, <1>3, <3>1 DEF StartWriting, Done
  <2>2. RequestsInv'
    <3>1. IsEnd(pending', requests', Done')
      BY <1>1, <1>2, <2>1
    <3>2. summary = [bundles |-> 0, candidates |-> 0, errors |-> 0]
      BY <1>1 DEF GenerateInv, RequestsInv, NoSummary
    <3>3. /\ summary = [bundles |-> summary.bundles, candidates |-> summary.candidates,
                        errors |-> summary.errors]
          /\ summary.bundles \in Nat /\ summary.errors \in Nat
          /\ summary.bundles + summary.errors = 0
      BY <3>2
    <3> QED BY <1>1, <2>1, <3>1, <3>3 DEF GenerateInv, RequestsInv
  <2>3. ResponsesInv'
    BY <1>1, <1>3, <2>1 DEF GenerateInv, ResponsesInv, AnswersUpTo, Kept
  <2>4. WritingInv' /\ MetadataInv'
    BY <1>1, <2>1 DEF GenerateInv, WritingInv, MetadataInv
  <2> QED BY <1>1, <1>3, <2>2, <2>3, <2>4, BundlesStay DEF GenerateInv
<1>4. CASE /\ pending # <<>>
           /\ \E response \in Responses(r) :
                /\ responses' = With(responses, r.name, response)
                /\ answered' = answered \cup Pairs(r, response)
           /\ pending' = Tail(pending) /\ UNCHANGED genPhase
  <2>1. PICK response \in Responses(r) : /\ responses' = With(responses, r.name, response)
                                         /\ answered' = answered \cup Pairs(r, response)
    BY <1>4
  <2>2. /\ Done \in Nat /\ Done + 1 \in 1 .. Len(requests)
        /\ r = requests[Done + 1] /\ r \in Range(requests)
        /\ IsEnd(Tail(pending), requests, Done + 1)
    BY <1>1, <1>4, NextOfRequests DEF GenerateInv
  <2>3. Done' = Done + 1 /\ IsEnd(pending', requests', Done')
    BY <1>1, <1>4, RequestsAdvance DEF GenerateInv
  <2>4. RequestsInv'
    BY <1>1, <1>4, <2>3 DEF GenerateInv, RequestsInv
  <2>5. IsResponse(response)
    BY <2>2, ResponseIsList DEF GenerateInv, RequestsInv
  <2>6. /\ DOMAIN responses' = DOMAIN responses \cup {r.name}
        /\ responses'[r.name] = response
        /\ \A n \in DOMAIN responses : n # r.name => responses'[n] = responses[n]
    BY <2>1 DEF With
  <2> HIDE DEF r
  <2>7. ASSUME NEW k \in 1 .. Done + 1, Kept(k, Done + 1),
               requests[k].name \in DOMAIN responses'
        PROVE  Pairs(requests[k], responses'[requests[k].name]) \subseteq answered'
    <3>1. CASE k = Done + 1
      BY <2>1, <2>2, <2>6, <3>1
    <3>2. CASE k # Done + 1
      <4>1. k \in 1 .. Done /\ Done + 1 \in k + 1 .. Done + 1
        BY <2>2, <3>2
      <4>2. requests[k].name # r.name
        BY <2>2, <2>7, <4>1 DEF Kept
      <4>3. Kept(k, Done)
        BY <2>2, <2>7 DEF Kept
      <4>4. requests[k].name \in DOMAIN responses
            /\ responses'[requests[k].name] = responses[requests[k].name]
        BY <2>6, <2>7, <4>2
      <4>5. Pairs(requests[k], responses[requests[k].name]) \subseteq answered
        BY <1>1, <4>1, <4>3, <4>4 DEF GenerateInv, ResponsesInv, AnswersUpTo
      <4> QED BY <2>1, <4>4, <4>5
    <3> QED BY <3>1, <3>2
  <2>8. AnswersUpTo(Done)'
    BY <1>1, <2>3, <2>7 DEF AnswersUpTo, Kept
  <2>9. ResponsesInv'
    <3>1. \A n \in DOMAIN responses' : IsResponse(responses'[n])
      BY <2>5, <2>6 DEF GenerateInv, ResponsesInv
    <3> QED BY <1>1, <1>4, <2>8, <3>1 DEF ResponsesInv
  <2>10. WritingInv' /\ MetadataInv'
    BY <1>1, <1>4 DEF GenerateInv, WritingInv, MetadataInv
  <2>11. answered \subseteq answered'
    BY <2>1
  <2> QED BY <1>1, <2>4, <2>9, <2>10, <2>11, BundlesStay DEF GenerateInv
<1> QED BY <1>3, <1>4 DEF Direct

LEMMA PollKeeps ==
  ASSUME GenerateInv, Poll
  PROVE  GenerateInv'
<1>1. /\ genPhase = "poll" /\ genPhase' = "write" /\ pending' = requests
      /\ UNCHANGED <<generation, constraints, requests, writes, summary, bundles, snapshot,
                     unfinished, unselected>>
  BY DEF Poll, StartWriting, genCommand, genWriting
<1>2. /\ requests \in Seq(Range(requests)) /\ IsList(requests)
      /\ \A i, j \in DOMAIN requests : requests[i].name = requests[j].name => i = j
      /\ \A q \in Range(requests) : q.sql \in Text
  BY <1>1 DEF GenerateInv, RequestsInv, IsList
<1>3. Len(requests) \in Nat /\ DOMAIN requests = 1 .. Len(requests)
      /\ \A q \in Range(requests) : \E i \in DOMAIN requests : requests[i] = q
  BY <1>2, ListOf
<1>4. PICK came \in SUBSET Range(requests) :
        \E r \in [came -> UNION {Responses(q) : q \in came}] :
          /\ \A q \in came : r[q] \in Responses(q)
          /\ responses' = [n \in {q.name : q \in came} |-> r[CHOOSE q \in came : q.name = n]]
          /\ answered' = answered \cup UNION {Pairs(q, r[q]) : q \in came}
  BY DEF Poll
<1>5. PICK r \in [came -> UNION {Responses(q) : q \in came}] :
        /\ \A q \in came : r[q] \in Responses(q)
        /\ responses' = [n \in {q.name : q \in came} |-> r[CHOOSE q \in came : q.name = n]]
        /\ answered' = answered \cup UNION {Pairs(q, r[q]) : q \in came}
  BY <1>4
<1>6. \A p, q \in came : p.name = q.name => p = q
  BY <1>2, <1>3
<1>7. /\ DOMAIN responses' = {q.name : q \in came}
      /\ \A q \in came : responses'[q.name] = r[q]
  <2>1. DOMAIN responses' = {q.name : q \in came}
    BY <1>5
  <2>2. ASSUME NEW q \in came PROVE responses'[q.name] = r[q]
    <3>1. (CHOOSE p \in came : p.name = q.name) = q
      BY <1>6
    <3> QED BY <1>5, <3>1
  <2> QED BY <2>1, <2>2
<1>8. Done' = 0
  BY <1>1, <1>3 DEF Done
<1>9. RequestsInv'
  <2>1. IsList(requests) /\ IsEnd(requests, requests, 0)
    BY <1>2, WholeIsEnd
  <2>2. /\ summary = [bundles |-> 0, candidates |-> 0, errors |-> 0]
        /\ generation \in Generations
        /\ \A q \in Range(requests) : /\ q.name \in Names /\ q.sql \in Text
                                      /\ q.premises = PremisesFor(constraints, q.sql)
    BY <1>1 DEF GenerateInv, RequestsInv, NoSummary
  <2>3. /\ summary = [bundles |-> summary.bundles, candidates |-> summary.candidates,
                      errors |-> summary.errors]
        /\ summary.bundles \in Nat /\ summary.errors \in Nat /\ summary.bundles + summary.errors = 0
    BY <2>2
  <2> QED BY <1>1, <1>8, <2>1, <2>2, <2>3 DEF RequestsInv
<1>10. \A n \in DOMAIN responses' : IsResponse(responses'[n])
  <2>1. ASSUME NEW q \in came PROVE IsResponse(r[q])
    BY <1>2, <1>5, ResponseIsList
  <2> QED BY <1>7, <2>1
<1>11. ASSUME NEW k \in 1 .. Len(requests), requests[k].name \in DOMAIN responses'
       PROVE  Pairs(requests[k], responses'[requests[k].name]) \subseteq answered'
  <2>1. PICK q \in came : q.name = requests[k].name
    BY <1>7, <1>11
  <2>2. q = requests[k]
    BY <1>2, <1>3, <2>1
  <2>3. Pairs(q, r[q]) \subseteq UNION {Pairs(x, r[x]) : x \in came}
    BY <2>1
  <2>4. responses'[requests[k].name] = r[q]
    BY <1>7, <2>1
  <2>5. Pairs(q, r[q]) \subseteq answered'
    BY <1>5, <2>3
  <2> QED BY <2>2, <2>4, <2>5
<1>12. ResponsesInv'
  BY <1>1, <1>10, <1>11 DEF ResponsesInv, AnswersUpTo
<1>13. WritingInv' /\ MetadataInv'
  BY <1>1, <1>8 DEF GenerateInv, WritingInv, MetadataInv
<1>14. answered \subseteq answered'
  BY <1>5
<1> QED BY <1>1, <1>9, <1>12, <1>13, <1>14, BundlesStay DEF GenerateInv

(* One request is dealt with: the summary counts it. *)
LEMMA SummaryCounts ==
  ASSUME NEW s, s = [bundles |-> s.bundles, candidates |-> s.candidates, errors |-> s.errors],
         s.bundles \in Nat, s.errors \in Nat, NEW c, NEW t,
         t = [s EXCEPT !.errors = @ + 1] \/ t = [s EXCEPT !.bundles = @ + 1, !.candidates = c]
  PROVE  /\ t = [bundles |-> t.bundles, candidates |-> t.candidates, errors |-> t.errors]
         /\ t.bundles \in Nat /\ t.errors \in Nat
         /\ t.bundles + t.errors = s.bundles + s.errors + 1
<1>1. CASE t = [s EXCEPT !.errors = @ + 1]
  <2>1. t = [bundles |-> s.bundles, candidates |-> s.candidates, errors |-> s.errors + 1]
    BY <1>1
  <2>2. t.bundles = s.bundles /\ t.candidates = s.candidates /\ t.errors = s.errors + 1
    BY <2>1
  <2> QED BY <2>1, <2>2
<1>2. CASE t = [s EXCEPT !.bundles = @ + 1, !.candidates = c]
  <2>1. t = [bundles |-> s.bundles + 1, candidates |-> c, errors |-> s.errors]
    BY <1>2
  <2>2. t.bundles = s.bundles + 1 /\ t.candidates = c /\ t.errors = s.errors
    BY <2>1
  <2> QED BY <2>1, <2>2
<1> QED BY <1>1, <1>2

LEMMA RequestDealtWith ==
  ASSUME GenerateInv, genPhase = "write", pending # <<>>, NEW more \in {"bundles", "errors"},
         NEW entries, summary' = IF more = "errors" THEN [summary EXCEPT !.errors = @ + 1]
                                 ELSE [summary EXCEPT !.bundles = @ + 1, !.candidates = entries],
         pending' = Tail(pending), UNCHANGED <<genPhase, generation, constraints, requests, snapshot>>
  PROVE  RequestsInv' /\ Done' = Done + 1
<1>3. Done' = Done + 1 /\ IsEnd(pending', requests', Done')
  BY RequestsAdvance DEF GenerateInv
<1>4. /\ summary' = [bundles |-> summary'.bundles, candidates |-> summary'.candidates,
                     errors |-> summary'.errors]
      /\ summary'.bundles \in Nat /\ summary'.errors \in Nat
      /\ summary'.bundles + summary'.errors = Done + 1
  <2>1. /\ summary = [bundles |-> summary.bundles, candidates |-> summary.candidates,
                      errors |-> summary.errors]
        /\ summary.bundles \in Nat /\ summary.errors \in Nat
        /\ summary.bundles + summary.errors = Done
    BY DEF GenerateInv, RequestsInv
  <2> DEFINE s == summary
             t == summary'
  <2>2. \/ t = [s EXCEPT !.errors = s.errors + 1]
        \/ t = [s EXCEPT !.bundles = s.bundles + 1, !.candidates = entries]
    OBVIOUS
  <2>3. s = [bundles |-> s.bundles, candidates |-> s.candidates, errors |-> s.errors]
        /\ s.bundles \in Nat /\ s.errors \in Nat /\ s.bundles + s.errors = Done
    BY <2>1
  <2> HIDE DEF s, t
  <2>4. /\ t = [bundles |-> t.bundles, candidates |-> t.candidates, errors |-> t.errors]
        /\ t.bundles \in Nat /\ t.errors \in Nat
        /\ t.bundles + t.errors = s.bundles + s.errors + 1
    BY <2>2, <2>3, SummaryCounts
  <2> QED BY <2>3, <2>4 DEF t
<1>6. /\ IsList(requests) /\ generation \in Generations
      /\ \A q \in Range(requests) : /\ q.name \in Names /\ q.sql \in Text
                                    /\ q.premises = PremisesFor(constraints, q.sql)
  BY DEF GenerateInv, RequestsInv
<1>7. RequestsInv'
  BY <1>3, <1>4, <1>6 DEF RequestsInv
<1> QED BY <1>3, <1>7

LEMMA NextBundleKeeps ==
  ASSUME GenerateInv, NextBundle
  PROVE  GenerateInv'
<1> DEFINE r == Head(pending)
           c == responses[r.name].candidates
<1>1. /\ genPhase = "write" /\ writes = <<>> /\ pending # <<>>
      /\ UNCHANGED <<genPhase, generation, constraints, unselected, requests, responses, bundles,
                     snapshot, answered>>
  BY DEF NextBundle, genCommand
<1>2. r = requests[Done + 1] /\ r \in Range(requests) /\ Done \in Nat
  BY <1>1, NextOfRequests DEF GenerateInv
<1>3. CASE /\ r.name \notin DOMAIN responses \/ responses[r.name].error
           /\ summary' = [summary EXCEPT !.errors = @ + 1]
           /\ pending' = Tail(pending)
           /\ UNCHANGED <<writes, unfinished>>
  <2>1. RequestsInv' /\ Done' = Done + 1
    BY <1>1, <1>3, RequestDealtWith
  <2>2. ResponsesInv'
    BY <1>1 DEF GenerateInv, ResponsesInv, AnswersUpTo, Kept
  <2>3. WritingInv'
    BY <1>1, <1>3 DEF GenerateInv, WritingInv
  <2>4. ~ Answered(requests[Done + 1].name)
    BY <1>2, <1>3 DEF Answered
  <2>5. \A k \in 1 .. Done + 1 : k = Done + 1 \/ k \in 1 .. Done
    BY <1>2
  <2>6. MetadataInv'
    BY <1>1, <2>1, <2>4, <2>5 DEF GenerateInv, MetadataInv, Answered
  <2> QED BY <1>1, <1>3, <2>1, <2>2, <2>3, <2>6, BundlesStay DEF GenerateInv
<1>4. CASE /\ ~ (r.name \notin DOMAIN responses \/ responses[r.name].error)
           /\ writes' = BundleWrites(r, c)
           /\ unfinished' = unfinished \cup {r.name}
           /\ UNCHANGED <<summary, pending>>
  <2>1. RequestsInv'
    BY <1>1, <1>4 DEF GenerateInv, RequestsInv, Done
  <2>2. ResponsesInv'
    BY <1>1 DEF GenerateInv, ResponsesInv, AnswersUpTo, Kept
  <2>3. MetadataInv'
    BY <1>1, <1>4 DEF GenerateInv, MetadataInv, Answered, Done
  <2>4. Answered(r.name) /\ r.sql \in Text
    BY <1>2, <1>4 DEF Answered, GenerateInv, RequestsInv
  <2>5. IsList(c) /\ Range(c) \subseteq Text \cup {None}
    BY <2>4 DEF GenerateInv, ResponsesInv, IsResponse, Answered
  <2> DEFINE all == BundleWrites(r, c)
  <2>6. all = BundleWrites(r, c) /\ all' = all /\ r' = r /\ r.name' = r.name /\ writes' = all
        /\ UNCHANGED bundles
    BY <1>1, <1>4
  <2> HIDE DEF r, c, all
  <2>7. WritesOf(r, c, all)
    BY <2>4, <2>5, <2>6, BundleWritten
  <2>8. FilesSoFar(r, all)'
    BY <2>6, <2>7 DEF FilesSoFar, WritesOf
  <2>9. WritingInv'
    BY <1>1, <1>4, <2>4, <2>6, <2>7, <2>8 DEF WritingInv, WritesOf, Answered, r, c, all
  <2> QED BY <1>1, <1>4, <2>1, <2>2, <2>3, <2>9, BundlesStay DEF GenerateInv
<1> QED BY <1>3, <1>4 DEF NextBundle

(* What a run that is in a directory writes next. *)
Writing(r, c, all, d) ==
  /\ Answered(r.name) /\ r.name \in unfinished /\ r.name \in Names /\ IsList(c)
  /\ WritesOf(r, c, all) /\ IsEnd(writes, all, d) /\ d + 1 \in 1 .. Len(all)
  /\ Head(writes) = all[d + 1]
  /\ \A i \in 1 .. d : /\ all[i].file \in DOMAIN bundles[r.name].files
                       /\ bundles[r.name].files[all[i].file] = all[i].text
  /\ Head(writes).file = Metadata => d + 1 = Len(all)

LEMMA NextFile ==
  ASSUME GenerateInv, genPhase = "write", writes # <<>>,
         NEW r, r = Head(pending), NEW c, c = responses[r.name].candidates
  PROVE  pending # <<>> /\ \E d \in Nat : Writing(r, c, BundleWrites(r, c), d)
<1> DEFINE all == BundleWrites(r, c)
           d   == Len(all) - Len(writes)
<1>1. /\ pending # <<>> /\ Answered(r.name) /\ r.name \in unfinished /\ IsList(writes)
      /\ FilesSoFar(r, all)
  BY DEF GenerateInv, WritingInv
<1>2. r \in Range(requests)
  BY <1>1, NextOfRequests DEF GenerateInv
<1>3. r.name \in Names /\ r.sql \in Text
  BY <1>2 DEF GenerateInv, RequestsInv
<1>4. IsList(c) /\ Range(c) \subseteq Text \cup {None}
  BY <1>1 DEF GenerateInv, ResponsesInv, IsResponse, Answered
<1>5. WritesOf(r, c, all)
  BY <1>3, <1>4, BundleWritten
<1> HIDE DEF all
<1>6. Len(all) \in Nat /\ IsList(all) /\ Len(writes) \in Nat
  BY <1>1, <1>5, ListOf DEF WritesOf, IsList
<1>7. d \in Nat /\ d + Len(writes) = Len(all)
  BY <1>1, <1>6 DEF FilesSoFar
<1>8. /\ \A i \in 1 .. Len(writes) : writes[i] = all[d + i]
      /\ \A i \in 1 .. d : /\ all[i].file \in DOMAIN bundles[r.name].files
                           /\ bundles[r.name].files[all[i].file] = all[i].text
  BY <1>1 DEF FilesSoFar
<1> HIDE DEF d
<1>9. IsEnd(writes, all, d)
  BY <1>1, <1>6, <1>7, <1>8 DEF IsEnd
<1>10. d + 1 \in 1 .. Len(all) /\ Head(writes) = all[d + 1]
  BY <1>9, EndAdvances
<1>11. Head(writes).file = Metadata => d + 1 = Len(all)
  <2>1. \A i \in 1 .. Len(all) - 1 : all[i].file # Metadata
    BY <1>5 DEF WritesOf
  <2>2. d + 1 \in 1 .. Len(all) - 1 \/ d + 1 = Len(all)
    BY <1>6, <1>7, <1>10
  <2> QED BY <1>10, <2>1, <2>2
<1>12. Writing(r, c, all, d)
  BY <1>1, <1>3, <1>4, <1>5, <1>8, <1>9, <1>10, <1>11 DEF Writing
<1> QED BY <1>1, <1>7, <1>12 DEF all

(* A file of the directory that is being written, maybe torn. *)
LEMMA FileOfRun ==
  ASSUME GenerateInv, genPhase = "write", writes # <<>>, NEW torn \in BOOLEAN,
         NEW r, r = Head(pending), bundles' = [bundles EXCEPT ![r.name] = Put(@, Head(writes), torn)]
  PROVE  /\ \A n \in Names : IsBundle(bundles'[n]) /\ (n # r.name => bundles'[n] = bundles[n])
         /\ bundles' = [n \in Names |-> bundles'[n]]
         /\ bundles'[r.name] = Put(bundles[r.name], Head(writes), torn)
<1> DEFINE c   == responses[r.name].candidates
           all == BundleWrites(r, c)
           w   == Head(writes)
<1>1. PICK d \in Nat : Writing(r, c, all, d)
  BY NextFile
<1>2. w = Head(writes)
  OBVIOUS
<1>3. bundles = [n \in Names |-> bundles[n]] /\ \A n \in Names : IsBundle(bundles[n])
  BY DEF GenerateInv, BundlesInv
<1> HIDE DEF c, all, w
<1>4. /\ r.name \in Names /\ IsList(c) /\ WritesOf(r, c, all)
      /\ d \in Nat /\ d + 1 \in 1 .. Len(all) /\ w = all[d + 1]
      /\ \A i \in 1 .. d : all[i].file \in DOMAIN bundles[r.name].files
      /\ w.file = Metadata => d + 1 = Len(all)
  BY <1>1, <1>2 DEF Writing
<1>5. /\ bundles'[r.name] = Put(bundles[r.name], w, torn)
      /\ \A n \in Names : n # r.name => bundles'[n] = bundles[n]
      /\ bundles' = [n \in Names |-> bundles'[n]]
  BY <1>2, <1>3, <1>4
<1>6. IsBundle(bundles'[r.name])
  <2>1. CASE w.file # Metadata
    <3>1. d + 1 \in 1 .. Len(all) - 1
      BY <1>4, <2>1 DEF WritesOf
    <3>2. w.text \in Text
      BY <1>4, <3>1 DEF WritesOf
    <3> QED BY <1>3, <1>4, <1>5, <2>1, <3>2, FileIsPut
  <2>2. CASE w.file = Metadata
    <3>1. /\ w.entries = Listed(c) /\ Original \in DOMAIN bundles[r.name].files
          /\ \A f \in Range(Listed(c)) : f \in DOMAIN bundles[r.name].files
      <4>1. d + 1 = Len(all) /\ 1 \in 1 .. d /\ \A i \in 1 .. Len(all) - 1 : i \in 1 .. d
        BY <1>4, <2>2 DEF WritesOf
      <4> QED BY <1>4, <4>1 DEF WritesOf
    <3>2. IsList(w.entries) /\ \A f \in Range(w.entries) : f = <<f[1], "llm">> /\ f[1] # 0
      BY <1>4, <3>1, ListedCandidates
    <3> QED BY <1>3, <1>4, <1>5, <2>2, <3>1, <3>2, MetadataIsPut
  <2> QED BY <2>1, <2>2
<1> QED BY <1>2, <1>3, <1>5, <1>6

LEMMA WriteFileKeeps ==
  ASSUME GenerateInv, WriteFile
  PROVE  GenerateInv'
<1> DEFINE r   == Head(pending)
           c   == responses[r.name].candidates
           all == BundleWrites(r, c)
           w   == Head(writes)
<1>1. /\ genPhase = "write" /\ writes # <<>>
      /\ bundles' = [bundles EXCEPT ![r.name] = Put(@, w, FALSE)]
      /\ writes' = Tail(writes)
      /\ IF w.file = Metadata
         THEN /\ summary' = [summary EXCEPT !.bundles = @ + 1,
                                            !.candidates = @ + Len(w.entries)]
              /\ pending' = Tail(pending)
              /\ unfinished' = unfinished \ ({r.name} \ {q.name : q \in Range(Tail(pending))})
         ELSE UNCHANGED <<summary, pending, unfinished>>
      /\ UNCHANGED <<genPhase, generation, constraints, unselected, requests, responses, snapshot,
                     answered>>
  BY DEF WriteFile, genCommand
<1>2. pending # <<>> /\ \E d \in Nat : Writing(r, c, all, d)
  BY <1>1, NextFile
<1>3. PICK d \in Nat : Writing(r, c, all, d)
  BY <1>2
<1>4. /\ \A n \in Names : IsBundle(bundles'[n]) /\ (n # r.name => bundles'[n] = bundles[n])
      /\ bundles' = [n \in Names |-> bundles'[n]]
      /\ bundles'[r.name] = PutWhole(bundles[r.name], w)
  BY <1>1, FileOfRun DEF PutWhole
<1>5. IsBundle(bundles[r.name]) /\ \A n \in Names \ unfinished : AnswersItsOriginal(bundles[n])
  BY <1>3 DEF Writing, GenerateInv, BundlesInv
<1>6. r = requests[Done + 1] /\ Done + 1 \in 1 .. Len(requests) /\ r \in Range(requests)
      /\ Len(requests) \in Nat /\ Done \in Nat /\ IsEnd(Tail(pending), requests, Done + 1)
  BY <1>1, <1>2, NextOfRequests DEF GenerateInv
<1>7. \A k \in 1 .. Done : requests[k].name \in Names
  <2>1. requests \in Seq(Range(requests)) /\ \A q \in Range(requests) : q.name \in Names
    BY DEF GenerateInv, RequestsInv, IsList
  <2>2. \A k \in 1 .. Done : k \in 1 .. Len(requests)
    BY <1>6
  <2> QED BY <2>1, <2>2
<1>8. r' = Head(pending') /\ c = responses[r.name].candidates /\ w = Head(writes)
      /\ r = Head(pending) /\ all = BundleWrites(r, c)
  OBVIOUS
<1>9. ResponsesInv'
  BY <1>1 DEF GenerateInv, ResponsesInv, AnswersUpTo, Kept
<1> HIDE DEF r, c, all, w
<1>12. /\ IsList(c) /\ Len(all) \in Nat /\ 1 < Len(all) /\ w = all[d + 1] /\ d + 1 \in 1 .. Len(all)
       /\ all[Len(all)] = [file |-> Metadata, entries |-> Listed(c)]
       /\ all[1].file = Original
       /\ \A i \in 1 .. Len(all) - 1 : all[i].text \in Text
       /\ \A f \in Range(Listed(c)) : \E i \in 1 .. Len(all) - 1 : all[i].file = f
       /\ w.file = Metadata => d + 1 = Len(all)
       /\ \A i \in 1 .. d : /\ all[i].file \in DOMAIN bundles[r.name].files
                            /\ bundles[r.name].files[all[i].file] = all[i].text
       /\ Listed(c) # Torn
  BY <1>3, <1>8 DEF Writing, WritesOf, GenerateInv, ResponsesInv, IsResponse, Answered
<1>13. d + 1 = Len(all) => w.file = Metadata /\ w.entries = Listed(c)
  BY <1>12
<1>10. CASE w.file # Metadata
  <2>1. UNCHANGED <<summary, pending, unfinished>>
    BY <1>1, <1>10
  <2>2. d + 1 \in 1 .. Len(all) - 1 /\ Len(all) \in Nat
    BY <1>10, <1>12, <1>13
  <2>3. w.text \in Text /\ w = all[d + 1]
    BY <1>12, <2>2
  <2>4. /\ bundles'[r.name].metadata = bundles[r.name].metadata
        /\ DOMAIN bundles'[r.name].files = DOMAIN bundles[r.name].files \cup {w.file}
        /\ bundles'[r.name].files[w.file] = w.text
        /\ \A f \in DOMAIN bundles[r.name].files :
             f # w.file => bundles'[r.name].files[f] = bundles[r.name].files[f]
    <3> DEFINE b == bundles[r.name]
               t == bundles'[r.name]
    <3>1. IsBundle(b) /\ t = PutWhole(b, w)
      BY <1>4, <1>5
    <3> HIDE DEF b, t
    <3>2. /\ t.metadata = b.metadata /\ DOMAIN t.files = DOMAIN b.files \cup {w.file}
          /\ t.files[w.file] = w.text
          /\ \A f \in DOMAIN b.files : f # w.file => t.files[f] = b.files[f]
      BY <1>10, <2>3, <3>1, WholeFileIsPut
    <3> QED BY <3>2 DEF b, t
  <2>5. RequestsInv'
    BY <1>1, <2>1 DEF GenerateInv, RequestsInv, Done
  <2>6. MetadataInv'
    <3>1. \A n \in Names : bundles'[n].metadata = bundles[n].metadata
      BY <1>4, <2>4
    <3> QED BY <1>1, <1>7, <2>1, <3>1 DEF GenerateInv, MetadataInv, Answered, Done
  <2>7. \A n \in Names : AnswersItsOriginal(bundles[n]) => AnswersItsOriginal(bundles[n])'
                         \/ n = r.name
    BY <1>1, <1>4 DEF AnswersItsOriginal
  <2>8. BundlesInv'
    BY <1>3, <1>4, <1>5, <2>1, <2>7 DEF BundlesInv, Writing
  <2>9. IsEnd(writes', all, d + 1)
    BY <1>1, <1>3, EndAdvances DEF Writing
  <2>10. \A i \in 1 .. d + 1 : /\ all[i].file \in DOMAIN bundles'[r.name].files
                               /\ bundles'[r.name].files[all[i].file] = all[i].text
    <3> TAKE i \in 1 .. d + 1
    <3>1. i \in 1 .. Len(all) - 1
      BY <2>2
    <3>2. CASE all[i].file = w.file
      <4>1. all[i].text = FileText(r, c, all[i].file) /\ w.text = FileText(r, c, w.file)
        BY <1>3, <2>2, <2>3, <3>1 DEF Writing, WritesOf
      <4> QED BY <2>4, <3>2, <4>1
    <3>3. CASE all[i].file # w.file
      <4>1. i \in 1 .. d
        BY <2>3, <3>3
      <4> QED BY <1>3, <2>4, <3>3, <4>1 DEF Writing
    <3> QED BY <3>2, <3>3
  <2>11. FilesSoFar(r, all)' \/ writes' = <<>>
    <3>1. /\ Len(writes') \in Nat /\ Len(all) - Len(writes') = d + 1 /\ IsList(writes')
          /\ Len(writes') <= Len(all)
          /\ \A i \in 1 .. Len(writes') : writes'[i] = all[d + 1 + i]
      BY <1>1, <2>2, <2>9, EndLengths DEF IsEnd
    <3>2. 0 < Len(writes') \/ writes' = <<>>
      BY <3>1 DEF IsList
    <3>3. r' = r /\ all' = all
      BY <1>1, <2>1 DEF r, c, all
    <3> QED BY <2>10, <3>1, <3>2, <3>3 DEF FilesSoFar
  <2>12. WritingInv'
    <3>1. r' = r /\ c' = c /\ all' = all
      BY <1>1, <2>1 DEF r, c, all
    <3>3. IsList(writes')
      BY <2>9 DEF IsEnd
    <3>2. Answered(r.name)' /\ r.name \in unfinished' /\ genPhase' = "write" /\ pending' # <<>>
      <4>1. Answered(r.name) /\ r.name \in unfinished
        BY <1>3 DEF Writing
      <4>2. Answered(r.name)'
        <5>1. r' = r
          BY <3>1
        <5> QED BY <1>1, <4>1, <5>1 DEF Answered
      <4> QED BY <1>1, <1>2, <2>1, <4>1, <4>2
    <3> QED BY <2>11, <3>1, <3>2, <3>3 DEF WritingInv, r, c, all
  <2> QED BY <1>9, <2>5, <2>6, <2>8, <2>12 DEF GenerateInv
<1>11. CASE w.file = Metadata
  <2>1. /\ summary' = [summary EXCEPT !.bundles = @ + 1, !.candidates = @ + Len(w.entries)]
        /\ pending' = Tail(pending)
        /\ \A n \in unfinished : n \in unfinished' \/ n = r.name
        /\ r.name \in unfinished' \/ \A q \in Range(Tail(pending)) : q.name # r.name
    BY <1>1, <1>3, <1>11 DEF Writing
  <2>2. d + 1 = Len(all) /\ Len(all) \in Nat /\ w.entries = Listed(c)
    BY <1>11, <1>12, <1>13
  <2>3. /\ bundles'[r.name].metadata = Listed(c) /\ bundles'[r.name].files = bundles[r.name].files
    <3>1. /\ IsList(w.entries) /\ Original \in DOMAIN bundles[r.name].files
          /\ \A f \in Range(w.entries) :
               f \in DOMAIN bundles[r.name].files /\ f = <<f[1], "llm">> /\ f[1] # 0
      <4>1. 1 \in 1 .. d /\ \A i \in 1 .. Len(all) - 1 : i \in 1 .. d
        BY <1>12, <2>2
      <4>2. IsList(Listed(c)) /\ \A f \in Range(Listed(c)) : f = <<f[1], "llm">> /\ f[1] # 0
        BY <1>12, ListedCandidates
      <4> QED BY <1>12, <2>2, <4>1, <4>2
    <3> DEFINE b == bundles[r.name]
               t == bundles'[r.name]
    <3>2. IsBundle(b) /\ t = PutWhole(b, w)
      BY <1>4, <1>5
    <3>3. /\ IsList(w.entries) /\ Original \in DOMAIN b.files
          /\ \A f \in Range(w.entries) : f \in DOMAIN b.files /\ f = <<f[1], "llm">> /\ f[1] # 0
      BY <3>1
    <3> HIDE DEF b, t
    <3>4. t.metadata = w.entries /\ t.files = b.files
      BY <1>11, <3>2, <3>3, WholeMetadataIsPut
    <3> QED BY <2>2, <3>4 DEF b, t
  <2>4. RequestsInv' /\ Done' = Done + 1
    BY <1>1, <1>2, <2>1, RequestDealtWith
  <2>5. writes' = <<>>
    <3>1. IsEnd(writes', all, d + 1)
      BY <1>1, <1>3, EndAdvances DEF Writing
    <3>2. Len(writes') = 0 /\ IsList(writes')
      BY <2>2, <3>1, EndLengths DEF IsEnd
    <3> QED BY <3>2 DEF IsList
  <2>6. WritingInv'
    <3>1. IsList(<<>>)
      BY DEF IsList
    <3> QED BY <2>5, <3>1 DEF WritingInv
  <2>7. MetadataInv'
    <3> SUFFICES ASSUME NEW k \in 1 .. Done + 1, Answered(requests[k].name)
                 PROVE  bundles'[requests[k].name].metadata
                          = Listed(responses[requests[k].name].candidates)
      BY <1>1, <2>4 DEF MetadataInv, Answered
    <3>1. CASE requests[k].name = r.name
      BY <1>8, <2>3, <3>1
    <3>2. CASE requests[k].name # r.name
      <4>1. k \in 1 .. Done
        BY <1>6, <3>2
      <4> QED BY <1>1, <1>4, <1>7, <3>2, <4>1 DEF GenerateInv, MetadataInv
    <3> QED BY <3>1, <3>2
  <2>8. ASSUME r.name \notin unfinished'
        PROVE  \A f \in Range(Listed(c)) :
                 <<bundles[r.name].files[Original], bundles[r.name].files[f]>> \in answered
    <3>1. Kept(Done + 1, Len(requests))
      <4>1. \A i \in Done + 1 + 1 .. Len(requests) : requests[i] \in Range(Tail(pending))
        BY <1>6, EndHasRest
      <4> QED BY <1>6, <2>1, <2>8, <4>1 DEF Kept
    <3>2. Pairs(r, responses[r.name]) \subseteq answered
      BY <1>1, <1>3, <1>6, <3>1 DEF GenerateInv, ResponsesInv, AnswersUpTo, Writing, Answered
    <3> TAKE f \in Range(Listed(c))
    <3>3. f = <<f[1], "llm">> /\ f[1] \in DOMAIN c /\ f[1] # 0 /\ c[f[1]] # None
      BY <1>3, ListedCandidates DEF Writing
    <3>4. PICK i \in 1 .. Len(all) - 1 : all[i].file = f
      BY <1>3 DEF Writing, WritesOf
    <3>5. i \in 1 .. d /\ 1 \in 1 .. d /\ 1 \in 1 .. Len(all) - 1
      BY <2>2, <3>4
    <3>6. f # Original
      BY <3>3 DEF Original
    <3>7. bundles[r.name].files[f] = c[f[1]]
      BY <1>3, <3>4, <3>5, <3>6 DEF Writing, WritesOf, FileText
    <3>8. bundles[r.name].files[Original] = r.sql
      BY <1>3, <3>5 DEF Writing, WritesOf, FileText
    <3>9. <<r.sql, c[f[1]]>> \in Pairs(r, responses[r.name])
      BY <1>8, <3>3 DEF Pairs, Range
    <3> QED BY <3>2, <3>7, <3>8, <3>9
  <2>9. BundlesInv'
    <3>1. ASSUME NEW n \in Names \ unfinished' PROVE AnswersItsOriginal(bundles[n])'
      <4>1. CASE n = r.name
        <5>1. \A f \in Range(Listed(c)) :
                <<bundles'[r.name].files[Original], bundles'[r.name].files[f]>> \in answered
          BY <2>3, <2>8, <3>1, <4>1
        <5>2. bundles'[r.name].metadata = Listed(c) /\ Listed(c) # Torn
          BY <1>12, <2>3
        <5>3. UNCHANGED answered
          BY <1>1
        <5> QED BY <4>1, <5>1, <5>2, <5>3 DEF AnswersItsOriginal
      <4>2. CASE n # r.name
        <5>1. AnswersItsOriginal(bundles[n])
          BY <1>5, <2>1, <3>1, <4>2
        <5> QED BY <1>1, <1>4, <4>2, <5>1 DEF AnswersItsOriginal
      <4> QED BY <4>1, <4>2
    <3> QED BY <1>4, <3>1 DEF BundlesInv
  <2> QED BY <1>9, <2>4, <2>6, <2>7, <2>9 DEF GenerateInv
<1> QED BY <1>10, <1>11

LEMMA SnapshotKeeps ==
  ASSUME GenerateInv, WriteSnapshot
  PROVE  GenerateInv'
<1>1. /\ genPhase = "write" /\ writes = <<>> /\ pending = <<>> /\ genPhase' = "done"
      /\ snapshot' = constraints
      /\ UNCHANGED <<generation, constraints, unselected, requests, pending, responses, writes,
                     summary, bundles, answered, unfinished>>
  BY DEF WriteSnapshot, Snapshot, genCommand, genAsking, genPast
<1>2. RequestsInv'
  BY <1>1 DEF GenerateInv, RequestsInv, Done
<1>3. ResponsesInv'
  BY <1>1 DEF GenerateInv, ResponsesInv, AnswersUpTo, Kept
<1>4. WritingInv' /\ MetadataInv'
  BY <1>1 DEF GenerateInv, WritingInv, MetadataInv, Answered, Done
<1> QED BY <1>1, <1>2, <1>3, <1>4, BundlesStay DEF GenerateInv

(* A file that is torn is in a directory that is unfinished. *)
LEMMA TornFileKeeps ==
  ASSUME GenerateInv, genPhase = "write", writes # <<>>, NEW torn \in BOOLEAN,
         bundles' = [bundles EXCEPT ![Head(pending).name] = Put(@, Head(writes), torn)],
         UNCHANGED <<answered, unfinished>>
  PROVE  BundlesInv'
<1> DEFINE r == Head(pending)
<1>1. r.name \in unfinished
  BY DEF GenerateInv, WritingInv
<1>2. /\ \A n \in Names : IsBundle(bundles'[n]) /\ (n # r.name => bundles'[n] = bundles[n])
      /\ bundles' = [n \in Names |-> bundles'[n]]
  BY FileOfRun
<1> HIDE DEF r
<1>3. ASSUME NEW n \in Names \ unfinished PROVE AnswersItsOriginal(bundles[n])'
  <2>1. bundles'[n] = bundles[n] /\ AnswersItsOriginal(bundles[n])
    BY <1>1, <1>2 DEF GenerateInv, BundlesInv
  <2> QED BY <2>1 DEF AnswersItsOriginal
<1> QED BY <1>2, <1>3 DEF BundlesInv

LEMMA KillKeeps ==
  ASSUME GenerateInv, KillGenerate
  PROVE  GenerateInv'
<1>1. GenerateEnds /\ UNCHANGED <<answered, unfinished>>
  BY DEF KillGenerate, GenerateEnds, genPast
<1>2. CASE UNCHANGED bundles
  BY <1>1, <1>2, BundlesStay, EndOfRunKeeps
<1>3. CASE \E torn \in BOOLEAN :
             /\ genPhase = "write" /\ writes # <<>>
             /\ bundles' = [bundles EXCEPT ![Head(pending).name] = Put(@, Head(writes), torn)]
  BY <1>1, <1>3, TornFileKeeps, EndOfRunKeeps
<1> QED BY <1>2, <1>3 DEF KillGenerate

LEMMA GenerateStepKeeps ==
  ASSUME GenerateInv, ProjectInv, GenerateStep
  PROVE  GenerateInv'
<1>1. CASE FinishGenerate
  BY <1>1, EndOfRunKeeps, BundlesStay DEF FinishGenerate, GenerateEnds, genPast
<1> QED BY <1>1, StartKeeps, SelectKeeps, AskKeeps, DirectKeeps, PollKeeps, NextBundleKeeps,
           WriteFileKeeps, SnapshotKeeps, KillKeeps DEF GenerateStep

-----------------------------------------------------------------------------
(* What qseal candidates generate is about to write. *)
IsOffer(w) ==
  /\ w.file = <<w.file[1], w.file[2]>> /\ w.file[1] # 0 /\ w.file[2] # "llm"
  /\ w.text \in Text \cup {None}

LEMMA SuggestionsOf ==
  ASSUME NEW catalog, NEW t \in Text, NEW suggestions,
         suggestions = CandidateSuggestions(SuggestRewrites(catalog, t))
  PROVE  /\ IsList(suggestions)
         /\ \A s \in Range(suggestions) : s.rule # "llm" /\ s.to \in Text \cup {None}
<1> DEFINE all == SuggestRewrites(catalog, t)
<1>1. IsList(About[t].whole) /\ \A i \in DOMAIN About[t].whole : About[t].whole[i] \in RulesOf(t)
  BY TextsAssumption DEF RulesOf, Range
<1>2. IsList(all) /\ \A s \in Range(all) : \E i \in DOMAIN About[t].whole : all[i] = s
  BY <1>1, ListAlong DEF SuggestRewrites
<1>3. \A i \in DOMAIN About[t].whole : all[i] = Suggestion(catalog, t, About[t].whole[i])
  BY DEF SuggestRewrites
<1>4. \A r \in RulesOf(t) : Suggestion(catalog, t, r).rule # "llm"
                            /\ Suggestion(catalog, t, r).to \in Text \cup {None}
  <2> TAKE r \in RulesOf(t)
  <2>1. r.rule # "llm" /\ r.to \in Text
    BY TextsAssumption, AnswersAssumption
  <2>2. Suggestion(catalog, t, r).rule = r.rule /\ Suggestion(catalog, t, r).to \in {r.to, None}
    BY DEF Suggestion
  <2> QED BY <2>1, <2>2
<1>5. \A s \in Range(all) : s.rule # "llm" /\ s.to \in Text \cup {None}
  BY <1>1, <1>2, <1>3, <1>4
<1> HIDE DEF all
<1>6. \E S : suggestions = Among(all, S)
  BY DEF CandidateSuggestions, Applicable, Proven, all
<1>7. IsList(suggestions) /\ Range(suggestions) \subseteq Range(all)
  BY <1>2, <1>6, AmongRange
<1> QED BY <1>5, <1>7

LEMMA OffersKept ==
  ASSUME OffersInv, JobInv, JobStep
  PROVE  OffersInv'
<1> SUFFICES ASSUME step' = "write"
             PROVE  IsList(offers') /\ \A w \in Range(offers') : IsOffer(w)
  BY DEF OffersInv, IsOffer
<1>1. CASE LoadConstraints
  <2> DEFINE catalog     == LoadDbtConstraints(schema[job.schema])
             suggestions == CandidateSuggestions(SuggestRewrites(catalog, query))
  <2>1. /\ query \in Text
        /\ offers' = [i \in DOMAIN suggestions |->
                        [file |-> <<i, suggestions[i].rule>>, text |-> suggestions[i].to]]
    BY <1>1 DEF LoadConstraints, JobInv
  <2>2. /\ IsList(suggestions)
        /\ \A s \in Range(suggestions) : s.rule # "llm" /\ s.to \in Text \cup {None}
    BY <2>1, SuggestionsOf
  <2> HIDE DEF catalog, suggestions
  <2>3. DOMAIN suggestions = 1 .. Len(suggestions) /\ Len(suggestions) \in Nat
        /\ \A i \in DOMAIN suggestions : suggestions[i] \in Range(suggestions)
    BY <2>2, ListOf DEF IsList
  <2>4. IsList(offers') /\ \A w \in Range(offers') : \E i \in DOMAIN suggestions : offers'[i] = w
    BY <2>1, <2>2, ListAlong
  <2>5. ASSUME NEW i \in DOMAIN suggestions PROVE IsOffer(offers'[i])
    <3>1. offers'[i] = [file |-> <<i, suggestions[i].rule>>, text |-> suggestions[i].to] /\ i # 0
      BY <2>1, <2>3
    <3>2. suggestions[i].rule # "llm" /\ suggestions[i].to \in Text \cup {None}
      BY <2>2, <2>3
    <3> QED BY <3>1, <3>2 DEF IsOffer
  <2> QED BY <2>4, <2>5
<1>2. CASE WriteCandidate
  <2>1. step = "write" /\ offers # <<>> /\ offers' = Tail(offers)
    BY <1>2 DEF WriteCandidate, EndJob
  <2> QED BY <2>1, EndsOfList DEF OffersInv, IsOffer
<1>3. CASE VerifyFile \/ GatherRow
  BY <1>3 DEF VerifyFile, GatherRow
<1>4. CASE Written \/ Verified \/ Gathered \/ LeaveJob \/ KillJob
  BY <1>4 DEF Written, Verified, Gathered, LeaveJob, KillJob, EndJob
<1>5. CASE \E j \in Jobs : StartJob(j)
  BY <1>5 DEF StartJob
<1> QED BY <1>1, <1>2, <1>3, <1>4, <1>5 DEF JobStep

(* The only file of a directory it touches is the one it is writing. *)
LEMMA JobStepKeeps ==
  ASSUME GenerateInv, OffersInv, JobInv, JobStep,
         UNCHANGED <<genCommand, genPhase, genAsking, writes, summary, snapshot, genPast>>
  PROVE  GenerateInv'
<1>1. CASE UNCHANGED bundles
  BY <1>1, GenerateInvOfOthers DEF genWriting
<1>2. CASE \E torn \in BOOLEAN :
             /\ step = "write" /\ offers # <<>> /\ Head(offers).text # None
             /\ bundles' = [bundles EXCEPT ![job.dir] = Put(@, Head(offers), torn)]
  <2> DEFINE w == Head(offers)
  <2>1. PICK torn \in BOOLEAN : bundles' = [bundles EXCEPT ![job.dir] = Put(@, w, torn)]
    BY <1>2
  <2>2. w \in Range(offers) /\ job.dir \in Names
    BY <1>2, EndsOfList, JobsAssumption DEF OffersInv, JobInv, Names
  <2>3. w.file = <<w.file[1], w.file[2]>> /\ w.file[1] # 0 /\ w.file[2] # "llm" /\ w.text \in Text
    BY <1>2, <2>2 DEF OffersInv
  <2> QED BY <2>1, <2>2, <2>3, GenerateInvOfJobs
<1>3. CASE WriteCandidate
  BY <1>1, <1>2, <1>3 DEF WriteCandidate
<1>4. CASE KillJob
  BY <1>1, <1>2, <1>4 DEF KillJob
<1>5. CASE ~ WriteCandidate /\ ~ KillJob
  <2>1. UNCHANGED bundles
    BY <1>5 DEF JobStep, StartJob, LoadConstraints, Written, VerifyFile, Verified, GatherRow,
                Gathered, LeaveJob
  <2> QED BY <1>1, <2>1
<1> QED BY <1>3, <1>4, <1>5

-----------------------------------------------------------------------------
(* llm verify, benchmark and explain read the directories while they are   *)
(* written.  Files are replaced, but none goes away.                       *)
HasOriginal(n) == n \in Names /\ Original \in DOMAIN bundles[n].files
HasMetadata(n) == n \in Names /\ bundles[n].metadata # None

LEMMA PutGrows ==
  ASSUME NEW b, IsBundle(b), NEW w, NEW torn \in BOOLEAN, w.file = Metadata => w.entries # None,
         NEW c, c = Put(b, w, torn)
  PROVE  DOMAIN b.files \subseteq DOMAIN c.files /\ (b.metadata # None => c.metadata # None)
<1> DEFINE files    == b.files
           metadata == b.metadata
<1>1. b = [files |-> files, metadata |-> metadata]
  BY DEF IsBundle
<1>2. CASE w.file = Metadata
  <2> DEFINE value == IF torn THEN Torn ELSE w.entries
  <2>1. c = WithMetadata(b, value)
    BY <1>2 DEF Put, WithMetadata
  <2>2. value # None
    BY <1>2, AnswersAssumption
  <2> HIDE DEF files, metadata, value
  <2>3. c = [files |-> files, metadata |-> value]
    BY <1>1, <2>1 DEF WithMetadata
  <2>4. c.files = files /\ c.metadata = value
    BY <2>3
  <2> QED BY <2>2, <2>4 DEF files
<1>3. CASE w.file # Metadata
  <2> DEFINE value == IF torn THEN Empty ELSE w.text
  <2>1. c = WithFile(b, w.file, value)
    BY <1>3 DEF Put, WithFile
  <2> HIDE DEF files, metadata, value
  <2>2. c = [files |-> With(files, w.file, value), metadata |-> metadata]
    BY <1>1, <2>1 DEF WithFile
  <2>3. c.files = With(files, w.file, value) /\ c.metadata = metadata
    BY <2>2
  <2>4. DOMAIN With(files, w.file, value) = DOMAIN files \cup {w.file}
    BY DEF With
  <2> QED BY <2>3, <2>4 DEF files, metadata
<1> QED BY <1>2, <1>3

LEMMA PutInDirectory ==
  ASSUME GenerateInv, NEW d, NEW w, NEW torn \in BOOLEAN, w.file = Metadata => w.entries # None,
         bundles' = [bundles EXCEPT ![d] = Put(@, w, torn)]
  PROVE  \A n \in Names : (HasOriginal(n) => HasOriginal(n)') /\ (HasMetadata(n) => HasMetadata(n)')
<1> TAKE n \in Names
<1>1. bundles = [m \in Names |-> bundles[m]] /\ IsBundle(bundles[n])
  BY DEF GenerateInv, BundlesInv
<1>2. bundles'[n] = IF n = d THEN Put(bundles[n], w, torn) ELSE bundles[n]
  BY <1>1
<1>3. CASE n = d
  BY <1>1, <1>2, <1>3, PutGrows DEF HasOriginal, HasMetadata
<1>4. CASE n # d
  BY <1>2, <1>4 DEF HasOriginal, HasMetadata
<1> QED BY <1>3, <1>4

(* What the run writes as metadata is a list. *)
LEMMA EntriesAreListed ==
  ASSUME GenerateInv, genPhase = "write", writes # <<>>, Head(writes).file = Metadata
  PROVE  Head(writes).entries # None
<1> DEFINE r == Head(pending)
           c == responses[r.name].candidates
           all == BundleWrites(r, c)
           w == Head(writes)
<1>1. PICK d \in Nat : Writing(r, c, all, d)
  BY NextFile
<1>2. Answered(r.name)
  BY DEF GenerateInv, WritingInv
<1>3. Listed(c) # None
  BY <1>2 DEF GenerateInv, ResponsesInv, IsResponse, Answered
<1>4. w.file = Metadata /\ w = Head(writes)
  OBVIOUS
<1> HIDE DEF r, c, all, w
<1>5. w = all[Len(all)] /\ all[Len(all)] = [file |-> Metadata, entries |-> Listed(c)]
  BY <1>1, <1>4 DEF Writing, WritesOf
<1>6. w.entries = Listed(c)
  BY <1>5
<1> QED BY <1>3, <1>4, <1>6

LEMMA DirectoriesGrow ==
  ASSUME GenerateInv, OffersInv, GenerateStep \/ JobStep
  PROVE  \A n \in Names : (HasOriginal(n) => HasOriginal(n)') /\ (HasMetadata(n) => HasMetadata(n)')
<1>1. CASE UNCHANGED bundles
  BY <1>1 DEF HasOriginal, HasMetadata
<1>2. CASE \E torn \in BOOLEAN :
             /\ genPhase = "write" /\ writes # <<>>
             /\ bundles' = [bundles EXCEPT ![Head(pending).name] = Put(@, Head(writes), torn)]
  BY <1>2, PutInDirectory, EntriesAreListed
<1>3. CASE \E torn \in BOOLEAN :
             /\ step = "write" /\ offers # <<>>
             /\ bundles' = [bundles EXCEPT ![job.dir] = Put(@, Head(offers), torn)]
  <2>1. Head(offers) \in Range(offers)
    BY <1>3, EndsOfList DEF OffersInv
  <2>2. Head(offers).file # Metadata
    BY <1>3, <2>1 DEF OffersInv, Metadata
  <2> QED BY <1>3, <2>2, PutInDirectory
<1>4. CASE WriteFile
  BY <1>2, <1>4 DEF WriteFile
<1>5. CASE KillGenerate
  BY <1>1, <1>2, <1>5 DEF KillGenerate
<1>6. CASE WriteCandidate
  BY <1>1, <1>3, <1>6 DEF WriteCandidate
<1>7. CASE KillJob
  BY <1>1, <1>3, <1>7 DEF KillJob
<1>8. CASE (GenerateStep /\ ~ WriteFile /\ ~ KillGenerate)
           \/ (JobStep /\ ~ WriteCandidate /\ ~ KillJob)
  <2>1. UNCHANGED bundles
    BY <1>8 DEF GenerateStep, Generate, Select, Ask, Direct, Poll, NextBundle, WriteSnapshot,
                FinishGenerate, genWriting, JobStep, StartJob, LoadConstraints, Written, VerifyFile,
                Verified, GatherRow, Gathered, LeaveJob
  <2> QED BY <1>1, <2>1
<1> QED BY <1>4, <1>5, <1>6, <1>7, <1>8

(* A pair is proven from a catalog by a rule whose needs the catalog meets. *)
ProvenUnder(pair, catalog) ==
  \E proof \in Proofs(pair[1], pair[2]) : TrustsAll(catalog, proof.needs)

(* A row is of a directory that has an original, so what is measured is a  *)
(* text; and what it calls proven is proven from the catalog behind it.    *)
RowHolds(r, catalog) ==
  HasOriginal(r.name) /\ (r.bucket = "proven" => ProvenUnder(r.pair, catalog))

(* A row that is measured is a proven one of the report. *)
RowIsMeasured(r) == HasOriginal(r.name) /\ ProvenUnder(r.pair, report.under)

(* A record of a pair that is still the proven one, under the catalog it   *)
(* was proven from, by a sound rule: if it is suspect, the data is.        *)
Suspected(r) ==
  (/\ r.outcome = "suspect"
   /\ r.pair = r.row.pair /\ trusted = report.under /\ r.pair \notin Unsound) =>
    \E proof \in Proofs(r.pair[1], r.pair[2]) :
      TrustsAll(trusted, proof.needs) /\ \E p \in proof.needs : Unmet(p)

ReportInv ==
  /\ \A r \in rows : RowHolds(r, trusted)
  /\ report \notin {None, Torn} => \A r \in report.rows : RowHolds(r, report.under)

OpenedInv ==
  reading # None =>
    IF reading.kind = "verify"
    THEN /\ \A n \in unread : HasMetadata(n)
         /\ opened # None => HasOriginal(opened.name)
    ELSE /\ \A r \in unread : RowIsMeasured(r)
         /\ opened # None => opened.original \in Text /\ RowIsMeasured(opened.row)

RecordsInv ==
  /\ reading = None => records = {} /\ rows = {}
  /\ \A r \in records : Suspected(r)

ReadingInv == ReportInv /\ OpenedInv /\ RecordsInv

LEMMA ReadingInvOfOthers ==
  ASSUME ReadingInv, UNCHANGED readVars,
         \A n \in Names : (HasOriginal(n) => HasOriginal(n)') /\ (HasMetadata(n) => HasMetadata(n)')
  PROVE  ReadingInv'
<1>1. \A n : (HasOriginal(n) => HasOriginal(n)') /\ (HasMetadata(n) => HasMetadata(n)')
  BY DEF HasOriginal, HasMetadata
<1>2. ReportInv'
  BY <1>1 DEF ReadingInv, ReportInv, RowHolds, readVars
<1>3. OpenedInv'
  BY <1>1 DEF ReadingInv, OpenedInv, RowIsMeasured, readVars
<1>4. RecordsInv'
  BY DEF ReadingInv, RecordsInv, Suspected, readVars
<1> QED BY <1>2, <1>3, <1>4 DEF ReadingInv

LEMMA OriginalIsText ==
  ASSUME GenerateInv, NEW n, HasOriginal(n)
  PROVE  bundles[n].files[Original] \in Text
  BY DEF GenerateInv, BundlesInv, IsBundle, HasOriginal

(* The end of a reading, with a report that is new, torn or as it was. *)
LEMMA ReadingEndsKeeps ==
  ASSUME ReadingInv, ReadingEnds, UNCHANGED bundles,
         report' \in {report, Torn} \/ report' = [rows |-> rows, under |-> trusted]
  PROVE  ReadingInv'
<1>1. reading' = None /\ records' = {} /\ rows' = {}
  BY DEF ReadingEnds
<1>2. \A n : HasOriginal(n) => HasOriginal(n)'
  BY DEF HasOriginal
<1>3. \A r, catalog : RowHolds(r, catalog) => RowHolds(r, catalog)'
  BY <1>2 DEF RowHolds
<1>4. report' \notin {None, Torn} => \A r \in report'.rows : RowHolds(r, report.under)'
  <2>1. CASE report' = report
    BY <1>2, <2>1 DEF ReadingInv, ReportInv, RowHolds
  <2>2. CASE report' = [rows |-> rows, under |-> trusted]
    BY <1>2, <2>2 DEF ReadingInv, ReportInv, RowHolds
  <2> QED BY <2>1, <2>2
<1> QED BY <1>1, <1>4 DEF ReadingInv, ReportInv, OpenedInv, RecordsInv

(* A step that changes neither the catalog, the report nor the directories *)
(* keeps what is known of rows and records.                                *)
LEMMA RowsStay ==
  ASSUME UNCHANGED <<bundles, trusted, report>>
  PROVE  /\ \A n : HasOriginal(n)' = HasOriginal(n) /\ HasMetadata(n)' = HasMetadata(n)
         /\ \A r : RowHolds(r, trusted)' = RowHolds(r, trusted)
         /\ \A r : RowHolds(r, report.under)' = RowHolds(r, report.under)
         /\ \A r : RowIsMeasured(r)' = RowIsMeasured(r)
         /\ \A r : Suspected(r)' = Suspected(r)
  BY DEF HasOriginal, HasMetadata, RowHolds, RowIsMeasured, Suspected

LEMMA StartReadingKeeps ==
  ASSUME ReadingInv, GenerateInv, NEW c \in Readings, StartReading(c), UNCHANGED bundles
  PROVE  ReadingInv'
<1>1. reading = None /\ records = {} /\ rows = {}
  BY DEF StartReading, ReadingInv, RecordsInv
<1>2. \A n : (HasOriginal(n) => HasOriginal(n)') /\ (HasMetadata(n) => HasMetadata(n)')
  BY DEF HasOriginal, HasMetadata
<1>3. /\ reading' = c /\ opened' = None /\ rows' = {} /\ records' = {} /\ report' = report
  BY <1>1 DEF StartReading, StartVerify, StartMeasure
<1>4. ReportInv'
  BY <1>2, <1>3 DEF ReadingInv, ReportInv, RowHolds
<1>5. RecordsInv'
  BY <1>3 DEF RecordsInv
<1>6. CASE StartVerify(c)
  <2>1. DOMAIN bundles = Names
    BY DEF GenerateInv, BundlesInv
  <2>2. c.kind = "verify" /\ \A n \in unread' : HasMetadata(n)
    BY <1>6, <2>1 DEF StartVerify, HasMetadata
  <2>3. OpenedInv'
    BY <1>2, <1>3, <2>2 DEF OpenedInv
  <2> QED BY <1>4, <1>5, <2>3 DEF ReadingInv
<1>7. CASE StartMeasure(c)
  <2>1. c.kind # "verify" /\ report \notin {None, Torn} /\ unread' \subseteq ProvenRows
    BY <1>7 DEF StartMeasure
  <2>2. \A r \in unread' : RowIsMeasured(r)
    BY <2>1 DEF ProvenRows, ReadingInv, ReportInv, RowHolds, RowIsMeasured
  <2>3. \A r \in unread' : RowIsMeasured(r)'
    BY <1>2, <1>3, <2>2 DEF RowIsMeasured
  <2>4. OpenedInv'
    BY <1>3, <2>1, <2>3 DEF OpenedInv
  <2> QED BY <1>4, <1>5, <2>4 DEF ReadingInv
<1> QED BY <1>6, <1>7 DEF StartReading

LEMMA VerifyingKeeps ==
  ASSUME ReadingInv, GenerateInv, OpenBundle \/ OpenOriginal \/ VerifyEntry, UNCHANGED bundles
  PROVE  ReadingInv'
<1>1. CASE OpenBundle
  <2>1. CASE ReadingEnds /\ UNCHANGED report
    BY <2>1, ReadingEndsKeeps
  <2>2. CASE \E n \in unread :
               /\ bundles[n].metadata # Torn
               /\ opened' = [name |-> n, original |-> None, entries |-> bundles[n].metadata]
               /\ unread' = unread \ {n}
               /\ UNCHANGED <<reading, trusted, rows, report, records, readings>>
    <3>1. PICK n \in unread :
            /\ bundles[n].metadata # Torn
            /\ opened' = [name |-> n, original |-> None, entries |-> bundles[n].metadata]
            /\ unread' = unread \ {n}
            /\ UNCHANGED <<reading, trusted, rows, report, records, readings>>
      BY <2>2
    <3>2. reading # None /\ reading.kind = "verify" /\ HasMetadata(n)
      BY <1>1 DEF OpenBundle, ReadingInv, OpenedInv
    <3>3. HasOriginal(n)
      BY <3>1, <3>2 DEF HasMetadata, HasOriginal, GenerateInv, BundlesInv, IsBundle
    <3>4. opened'.name = n
      BY <3>1
    <3> QED BY <3>1, <3>2, <3>3, <3>4, RowsStay DEF ReadingInv, ReportInv, OpenedInv, RecordsInv
  <2> QED BY <1>1, <2>1, <2>2 DEF OpenBundle
<1>2. CASE OpenOriginal
  <2>1. /\ reading # None /\ reading.kind = "verify" /\ HasOriginal(opened.name)
        /\ opened'.name = opened.name
        /\ UNCHANGED <<reading, trusted, unread, rows, report, records>>
    BY <1>2 DEF OpenOriginal, ReadingInv, OpenedInv
  <2> QED BY <2>1, RowsStay DEF ReadingInv, ReportInv, OpenedInv, RecordsInv
<1>3. CASE VerifyEntry
  <2>1. /\ reading # None /\ reading.kind = "verify" /\ opened # None /\ HasOriginal(opened.name)
        /\ UNCHANGED <<reading, trusted, unread, report, records>>
    BY <1>3 DEF VerifyEntry, ReadingInv, OpenedInv
  <2>2. CASE opened' = None /\ UNCHANGED rows
    BY <2>1, <2>2, RowsStay DEF ReadingInv, ReportInv, OpenedInv, RecordsInv
  <2>3. CASE opened' = [opened EXCEPT !.entries = Tail(@)] /\ opened.entries # <<>>
    <3> DEFINE text == bundles[opened.name].files[Head(opened.entries)]
               row  == [name |-> opened.name, file |-> Head(opened.entries),
                        pair |-> <<opened.original, text>>,
                        bucket |-> Bucket(opened.original, text)]
    <3>1. opened'.name = opened.name
      BY <2>3
    <3>2. rows' = rows \cup {row}
      BY <1>3, <2>3 DEF VerifyEntry
    <3>3. row.bucket = "proven" => ProvenUnder(row.pair, trusted)
      BY DEF Bucket, ProvenUnder
    <3>4. RowHolds(row, trusted)
      BY <2>1, <3>3 DEF RowHolds
    <3> HIDE DEF row
    <3> QED BY <2>1, <3>1, <3>2, <3>4, RowsStay DEF ReadingInv, ReportInv, OpenedInv, RecordsInv
  <2> QED BY <1>3, <2>2, <2>3 DEF VerifyEntry
<1> QED BY <1>1, <1>2, <1>3

LEMMA MeasuringKeeps ==
  ASSUME ReadingInv, GenerateInv, OpenRow \/ Measure \/ Explain, UNCHANGED bundles
  PROVE  ReadingInv'
<1>1. CASE OpenRow
  <2>1. PICK r \in unread : /\ opened' = [row |-> r, original |-> bundles[r.name].files[Original]]
                            /\ unread' = unread \ {r}
    BY <1>1 DEF OpenRow
  <2>2. /\ reading # None /\ reading.kind # "verify" /\ RowIsMeasured(r)
        /\ UNCHANGED <<reading, trusted, rows, report, records>>
    BY <1>1 DEF OpenRow, ReadingInv, OpenedInv
  <2>3. opened'.original \in Text /\ opened'.row = r
    BY <2>1, <2>2, OriginalIsText DEF RowIsMeasured
  <2> QED BY <2>1, <2>2, <2>3, RowsStay DEF ReadingInv, ReportInv, OpenedInv, RecordsInv
<1>2. CASE Measure \/ Explain
  <2> DEFINE candidate == bundles[opened.row.name].files[opened.row.file]
  <2>1. /\ reading # None /\ reading.kind # "verify" /\ opened # None /\ opened' = None
        /\ UNCHANGED <<reading, trusted, unread, rows, report>>
    BY <1>2 DEF Measure, Explain
  <2>2. opened.original \in Text /\ ProvenUnder(opened.row.pair, report.under)
    BY <2>1 DEF ReadingInv, OpenedInv, RowIsMeasured
  <2>3. PICK outcome : /\ records' = records \cup {Measured(outcome)}
                       /\ outcome = "suspect" =>
                            "suspect" \in MeasureOutcomes(trusted, opened.original, candidate)
    <3>1. CASE Measure
      BY <3>1 DEF Measure
    <3>2. CASE Explain
      <4>1. PICK outcome \in {"error"} \cup {DiffPlans(before, after) : before, after \in Plans} :
              records' = records \cup {Measured(outcome)}
        BY <3>2 DEF Explain
      <4>2. outcome # "suspect"
        BY <4>1 DEF DiffPlans
      <4> QED BY <4>1, <4>2
    <3> QED BY <1>2, <3>1, <3>2
  <2>4. Suspected(Measured(outcome))
    <3> DEFINE m == Measured(outcome)
    <3>1. /\ m.outcome = outcome /\ m.row = opened.row /\ m.pair = <<opened.original, candidate>>
          /\ m.pair[1] = opened.original /\ m.pair[2] = candidate
      BY DEF Measured
    <3> HIDE DEF m, candidate
    <3> SUFFICES ASSUME outcome = "suspect", m.pair = opened.row.pair, trusted = report.under,
                        m.pair \notin Unsound
                 PROVE  \E proof \in Proofs(opened.original, candidate) :
                          TrustsAll(trusted, proof.needs) /\ \E p \in proof.needs : Unmet(p)
      BY <3>1 DEF Suspected, m
    <3>2. "suspect" \in MeasureOutcomes(trusted, opened.original, candidate)
      BY <2>3
    <3>3. PICK proof \in Proofs(opened.original, candidate) : TrustsAll(trusted, proof.needs)
      BY <2>2, <3>1 DEF ProvenUnder
    <3>4. <<opened.original, candidate>> \notin Unsound
      BY <3>1
    <3> QED BY <2>2, <3>2, <3>3, <3>4, SuspectHasUnmetPremise
  <2>5. \A r \in records' : Suspected(r)
    BY <2>3, <2>4 DEF ReadingInv, RecordsInv
  <2> QED BY <2>1, <2>5, RowsStay DEF ReadingInv, ReportInv, OpenedInv, RecordsInv
<1> QED BY <1>1, <1>2

LEMMA ReadStepKeeps ==
  ASSUME ReadingInv, GenerateInv, ReadStep, UNCHANGED bundles
  PROVE  ReadingInv'
<1>1. ASSUME NEW c \in Readings, StartReading(c) PROVE ReadingInv'
  BY <1>1, StartReadingKeeps
<1>2. CASE OpenBundle \/ OpenOriginal \/ VerifyEntry
  BY <1>2, VerifyingKeeps
<1>3. CASE OpenRow \/ Measure \/ Explain
  BY <1>3, MeasuringKeeps
<1>4. CASE WriteVerification
  BY <1>4, ReadingEndsKeeps DEF WriteVerification
<1>5. CASE FinishMeasure
  BY <1>5, ReadingEndsKeeps DEF FinishMeasure
<1>6. CASE KillReading
  BY <1>6, ReadingEndsKeeps DEF KillReading
<1> QED BY <1>1, <1>2, <1>3, <1>4, <1>5, <1>6 DEF ReadStep

-----------------------------------------------------------------------------
(* The tests that a reviewer is told to keep.  In a catalog t is promised  *)
(* by u when what t says of a table u says too.                            *)
Promised(t, u) ==
  /\ \A c \in DOMAIN t.columns :
       /\ c \in DOMAIN u.columns
       /\ t.columns[c].non_null => u.columns[c].non_null
       /\ t.columns[c].accepted # {} => u.columns[c].accepted # {}
  /\ t.unique \subseteq u.unique
  /\ t.foreign \subseteq u.foreign

(* Each column accepts the values that the catalog accepts, or says nothing.*)
AcceptsAs(catalog, name, t) ==
  \A c \in DOMAIN t.columns : t.columns[c].accepted \in {{}, catalog[name].columns[c].accepted}

LEMMA PromisedOnwards ==
  ASSUME NEW t, NEW u, NEW v, Promised(t, u), Promised(u, v)
  PROVE  Promised(t, v)
<1>1. \A c \in DOMAIN t.columns :
        /\ c \in DOMAIN v.columns
        /\ t.columns[c].non_null => v.columns[c].non_null
        /\ t.columns[c].accepted # {} => v.columns[c].accepted # {}
  BY DEF Promised
<1> QED BY <1>1 DEF Promised

LEMMA MergePromises ==
  ASSUME NEW l, NEW r, NEW m, m = MergeTableConstraints(l, r), NEW catalog, NEW name,
         AcceptsAs(catalog, name, l), AcceptsAs(catalog, name, r)
  PROVE  Promised(l, m) /\ Promised(r, m) /\ AcceptsAs(catalog, name, m)
<1>1. /\ DOMAIN m.columns = DOMAIN l.columns \cup DOMAIN r.columns
      /\ m.unique = l.unique \cup r.unique /\ m.foreign = l.foreign \cup r.foreign
      /\ \A c \in DOMAIN l.columns \cup DOMAIN r.columns :
           m.columns[c] = MergeColumn(l.columns, r.columns, c)
  BY DEF MergeTableConstraints
<1>2. ASSUME NEW c \in DOMAIN l.columns \cup DOMAIN r.columns
      PROVE  /\ m.columns[c].non_null <=> \/ c \in DOMAIN l.columns /\ l.columns[c].non_null
                                          \/ c \in DOMAIN r.columns /\ r.columns[c].non_null
             /\ m.columns[c].accepted
                  = IF c \in DOMAIN r.columns /\ r.columns[c].accepted # {} THEN r.columns[c].accepted
                    ELSE IF c \in DOMAIN l.columns THEN l.columns[c].accepted ELSE {}
  <2>1. m.columns[c] = MergeColumn(l.columns, r.columns, c)
    BY <1>1
  <2>2. MergeColumn(l.columns, r.columns, c).non_null
          <=> \/ c \in DOMAIN l.columns /\ l.columns[c].non_null
              \/ c \in DOMAIN r.columns /\ r.columns[c].non_null
    BY DEF MergeColumn
  <2>3. MergeColumn(l.columns, r.columns, c).accepted
          = IF c \in DOMAIN r.columns /\ r.columns[c].accepted # {} THEN r.columns[c].accepted
            ELSE IF c \in DOMAIN l.columns THEN l.columns[c].accepted ELSE {}
    BY DEF MergeColumn
  <2> QED BY <2>1, <2>2, <2>3
<1>3. Promised(l, m) /\ Promised(r, m)
  BY <1>1, <1>2 DEF Promised
<1>4. AcceptsAs(catalog, name, m)
  BY <1>1, <1>2 DEF AcceptsAs
<1> QED BY <1>3, <1>4

(* One schema file: its relations are added one after the other.           *)
Adding(payload, tables, n) ==
  tables = [i \in 0 .. n |->
              IF i = 0 THEN <<>>
              ELSE AddTable(tables[i - 1], payload[i].name, ConstraintsForRelation(payload[i]))]

LEMMA AddingExists ==
  ASSUME NEW payload, NEW n \in Nat
  PROVE  \E tables : Adding(payload, tables, n)
<1> DEFINE Good == {m \in Nat : \E tables : Adding(payload, tables, m)}
           Next1(i, before) == AddTable(before, payload[i].name, ConstraintsForRelation(payload[i]))
<1> HIDE DEF Next1
<1>1. 0 \in Good
  <2>1. Adding(payload, [i \in 0 .. 0 |-> <<>>], 0)
    BY DEF Adding
  <2> QED BY <2>1
<1>2. ASSUME NEW m \in Nat, m \in Good PROVE m + 1 \in Good
  <2>1. PICK tables : Adding(payload, tables, m)
    BY <1>2
  <2> DEFINE more == [i \in 0 .. m + 1 |-> IF i <= m THEN tables[i] ELSE Next1(i, tables[i - 1])]
  <2>2. \A i \in 0 .. m : tables[i] = IF i = 0 THEN <<>> ELSE Next1(i, tables[i - 1])
    BY <2>1 DEF Adding, Next1
  <2>3. \A i \in 0 .. m : more[i] = tables[i]
    OBVIOUS
  <2>4. more[m + 1] = Next1(m + 1, more[m])
    BY <2>3
  <2>5. more = [i \in 0 .. m + 1 |-> more[i]]
    OBVIOUS
  <2> HIDE DEF more
  <2>6. \A i \in 0 .. m + 1 : more[i] = IF i = 0 THEN <<>> ELSE Next1(i, more[i - 1])
    <3> TAKE i \in 0 .. m + 1
    <3>1. CASE i = m + 1
      BY <3>1, <2>4
    <3>2. CASE i \in 0 .. m
      <4>1. i = 0 \/ i - 1 \in 0 .. m
        BY <3>2
      <4> QED BY <3>2, <4>1, <2>2, <2>3
    <3> QED BY <3>1, <3>2
  <2>7. Adding(payload, more, m + 1)
    BY <2>5, <2>6 DEF Adding, Next1
  <2> QED BY <2>7
<1> HIDE DEF Good
<1>3. Nat \subseteq Good
  BY <1>1, <1>2, Induction
<1> QED BY <1>3 DEF Good

(* What every relation of a schema file says is in the catalog.            *)
LEMMA CatalogPromises ==
  ASSUME NEW payload, IsList(payload), NEW catalog,
         \A r \in Range(payload) : AcceptsAs(catalog, r.name, ConstraintsForRelation(r))
  PROVE  /\ \A r \in Range(payload) :
              /\ r.name \in DOMAIN LoadDbtConstraints(payload)
              /\ Promised(ConstraintsForRelation(r), LoadDbtConstraints(payload)[r.name])
         /\ \A name \in DOMAIN LoadDbtConstraints(payload) :
              AcceptsAs(catalog, name, LoadDbtConstraints(payload)[name])
<1> DEFINE tables    == CHOOSE tables : Adding(payload, tables, Len(payload))
           Has(i)    == \A k \in 1 .. i :
                          /\ payload[k].name \in DOMAIN tables[i]
                          /\ Promised(ConstraintsForRelation(payload[k]), tables[i][payload[k].name])
           Values(i) == \A name \in DOMAIN tables[i] : AcceptsAs(catalog, name, tables[i][name])
           Good      == {i \in Nat : i <= Len(payload) => Has(i) /\ Values(i)}
<1>1. payload \in Seq(Range(payload)) /\ Len(payload) \in Nat /\ DOMAIN payload = 1 .. Len(payload)
      /\ (\A i \in DOMAIN payload : payload[i] \in Range(payload))
      /\ \A r \in Range(payload) : \E i \in DOMAIN payload : payload[i] = r
  BY ListOf DEF IsList
<1>2. Adding(payload, tables, Len(payload))
  BY <1>1, AddingExists
<1>3. LoadDbtConstraints(payload) = tables[Len(payload)]
  BY DEF LoadDbtConstraints, Adding
<1> HIDE DEF tables
<1>4. /\ tables[0] = <<>>
      /\ \A i \in 1 .. Len(payload) :
           tables[i] = AddTable(tables[i - 1], payload[i].name, ConstraintsForRelation(payload[i]))
  BY <1>1, <1>2 DEF Adding
<1>5. 0 \in Good
  BY <1>4
<1>6. ASSUME NEW i \in Nat, i \in Good PROVE i + 1 \in Good
  <2> SUFFICES ASSUME i + 1 <= Len(payload) PROVE Has(i + 1) /\ Values(i + 1)
    OBVIOUS
  <2> DEFINE r == payload[i + 1]
             t == ConstraintsForRelation(r)
  <2>1. i + 1 \in 1 .. Len(payload) /\ i + 1 - 1 = i /\ i <= Len(payload)
    BY <1>1
  <2>2. tables[i + 1] = AddTable(tables[i], r.name, t)
    <3>1. \A k \in 1 .. Len(payload) : k - 1 = i =>
            tables[k] = AddTable(tables[i], payload[k].name, ConstraintsForRelation(payload[k]))
      BY <1>1, <1>4
    <3> QED BY <2>1, <3>1
  <2>3. AcceptsAs(catalog, r.name, t)
    BY <1>1, <2>1
  <2>4. Has(i) /\ Values(i)
    BY <1>6, <2>1
  <2>5. payload[i + 1] = r /\ ConstraintsForRelation(payload[i + 1]) = t
        /\ \A k \in 1 .. i + 1 : k \in 1 .. i \/ k = i + 1
    OBVIOUS
  <2> DEFINE before == tables[i]
             after  == tables[i + 1]
  <2>6. after = [n \in DOMAIN before \cup {r.name} |->
                   IF n = r.name
                   THEN IF r.name \in DOMAIN before THEN MergeTableConstraints(before[r.name], t) ELSE t
                   ELSE before[n]]
    BY <2>2 DEF AddTable, With
  <2>7. /\ \A n \in DOMAIN before : AcceptsAs(catalog, n, before[n])
        /\ \A k \in 1 .. i : /\ payload[k].name \in DOMAIN before
                             /\ Promised(ConstraintsForRelation(payload[k]), before[payload[k].name])
    BY <2>4
  <2> HIDE DEF r, t, before, after, Good
  <2>8. /\ DOMAIN after = DOMAIN before \cup {r.name}
        /\ \A n \in DOMAIN before : n # r.name => after[n] = before[n]
    BY <2>6
  <2>9. /\ Promised(t, after[r.name]) /\ AcceptsAs(catalog, r.name, after[r.name])
        /\ r.name \in DOMAIN before => Promised(before[r.name], after[r.name])
    <3>1. CASE r.name \in DOMAIN before
      <4>1. after[r.name] = MergeTableConstraints(before[r.name], t)
        BY <2>6, <3>1
      <4> QED BY <2>3, <2>7, <3>1, <4>1, MergePromises
    <3>2. CASE r.name \notin DOMAIN before
      <4>1. after[r.name] = t
        BY <2>6, <3>2
      <4>2. Promised(t, t)
        BY DEF Promised
      <4> QED BY <2>3, <3>2, <4>1, <4>2
    <3> QED BY <3>1, <3>2
  <2>10. \A n \in DOMAIN after : AcceptsAs(catalog, n, after[n])
    BY <2>7, <2>8, <2>9
  <2>11. \A n \in DOMAIN before : Promised(before[n], after[n])
    <3>1. \A n : Promised(before[n], before[n])
      BY DEF Promised
    <3> QED BY <2>8, <2>9, <3>1
  <2>12. ASSUME NEW k \in 1 .. i + 1
         PROVE  /\ payload[k].name \in DOMAIN after
                /\ Promised(ConstraintsForRelation(payload[k]), after[payload[k].name])
    <3>1. CASE k = i + 1
      BY <2>5, <2>8, <2>9, <3>1
    <3>2. CASE k \in 1 .. i
      BY <2>7, <2>8, <2>11, <3>2, PromisedOnwards
    <3> QED BY <2>5, <3>1, <3>2
  <2> QED BY <2>10, <2>12 DEF after
<1> HIDE DEF Good
<1>7. Len(payload) \in Good
  BY <1>1, <1>5, <1>6, Induction
<1>8. Has(Len(payload)) /\ Values(Len(payload))
  <2>1. Len(payload) <= Len(payload)
    BY <1>1
  <2> QED BY <1>7, <2>1 DEF Good
<1> QED BY <1>1, <1>3, <1>8

(* What the loader makes of one declared test. *)
ColumnGuard(name, column, u) == Declared(name, <<>>, <<Tested(column, <<u>>)>>)

LEMMA OneTestedColumn ==
  ASSUME NEW name, NEW column, NEW u, NEW t,
         t = ConstraintsForRelation(ColumnGuard(name, column, u))
  PROVE  /\ DOMAIN t.columns = {column}
         /\ t.columns[column].non_null <=> u.test = "not_null"
         /\ t.columns[column].accepted = IF u.test = "accepted_values" THEN u.values ELSE {}
         /\ u.test = "relationships" => <<column, Last(u.to), u.field>> \in t.foreign
<1> DEFINE r     == ColumnGuard(name, column, u)
           c     == Tested(column, <<u>>)
           tests == c.tests
           Last1(x) == CHOOSE i \in DOMAIN r.columns :
                         r.columns[i].name = x /\ \A j \in DOMAIN r.columns :
                                                    r.columns[j].name = x => j <= i
<1>1. /\ r.columns = <<c>> /\ Range(r.columns) = {c} /\ DOMAIN r.columns = {1} /\ r.columns[1] = c
      /\ c.name = column /\ tests = <<u>> /\ Range(tests) = {u} /\ IsList(tests)
      /\ DOMAIN tests = {1} /\ tests[1] = u
  BY DEF ColumnGuard, Declared, Tested, Range, IsList
<1>2. /\ t.columns = [x \in {d.name : d \in Range(r.columns)} |-> ColumnConstraint(r.columns[Last1(x)])]
      /\ t.foreign = UNION {{<<d.name, RelationshipTable(v.to), v.field>> :
                               v \in {w \in Range(d.tests) : w.test = "relationships"}}
                            : d \in Range(r.columns)}
  BY DEF ConstraintsForRelation
<1>3. Last1(column) = 1
  BY <1>1
<1>4. DOMAIN t.columns = {column} /\ t.columns[column] = ColumnConstraint(c)
  <2> DEFINE names == {d.name : d \in Range(r.columns)}
  <2>1. names = {column}
    BY <1>1
  <2>2. t.columns = [x \in names |-> ColumnConstraint(r.columns[Last1(x)])]
    BY <1>2
  <2> HIDE DEF names, r, c, tests, Last1
  <2>3. t.columns[column] = ColumnConstraint(r.columns[Last1(column)])
    BY <2>1, <2>2
  <2> QED BY <1>1, <1>3, <2>1, <2>2, <2>3
<1>5. ColumnConstraint(c).non_null <=> u.test = "not_null"
  <2>1. TestNames(tests) = {u.test}
    BY <1>1 DEF TestNames
  <2>2. ColumnConstraint(c).non_null <=> "not_null" \in TestNames(tests)
    BY DEF ColumnConstraint
  <2> QED BY <2>1, <2>2
<1>6. ColumnConstraint(c).accepted = IF u.test = "accepted_values" THEN u.values ELSE {}
  <2> DEFINE S      == {v \in Range(tests) : v.test = "accepted_values"}
             listed == Among(tests, S)
  <2>1. IsList(listed) /\ Range(listed) = Range(tests) \cap S
    BY <1>1, AmongRange
  <2>2. ColumnConstraint(c).accepted = IF listed = <<>> THEN {} ELSE Head(listed).values
    BY DEF ColumnConstraint, ColumnAccepted
  <2>3. S = IF u.test = "accepted_values" THEN {u} ELSE {}
    BY <1>1
  <2>4. Range(listed) = S
    BY <1>1, <2>1, <2>3
  <2> HIDE DEF listed, S
  <2>5. CASE u.test = "accepted_values"
    <3>1. listed # <<>>
      BY <2>3, <2>4, <2>5 DEF Range
    <3>2. Head(listed) = u
      BY <2>1, <2>3, <2>4, <2>5, <3>1, EndsOfList
    <3> QED BY <2>2, <2>5, <3>1, <3>2
  <2>6. CASE u.test # "accepted_values"
    <3>1. listed = <<>>
      BY <2>1, <2>3, <2>4, <2>6, EndsOfList
    <3> QED BY <2>2, <2>6, <3>1
  <2> QED BY <2>5, <2>6
<1>7. ASSUME u.test = "relationships" PROVE <<column, Last(u.to), u.field>> \in t.foreign
  <2>1. u \in {w \in Range(c.tests) : w.test = "relationships"}
    BY <1>1, <1>7
  <2>2. <<c.name, RelationshipTable(u.to), u.field>>
          \in {<<c.name, RelationshipTable(v.to), v.field>> :
                 v \in {w \in Range(c.tests) : w.test = "relationships"}}
    BY <2>1
  <2> QED BY <1>1, <1>2, <2>2 DEF RelationshipTable
<1> QED BY <1>4, <1>5, <1>6, <1>7

(* The same, one saying at a time. *)
TableOf(name, column, u) == ConstraintsForRelation(ColumnGuard(name, column, u))

LEMMA GuardIsOfColumn ==
  ASSUME NEW name, NEW column, NEW u
  PROVE  DOMAIN TableOf(name, column, u).columns = {column}
<1> DEFINE r == ColumnGuard(name, column, u)
           c == Tested(column, <<u>>)
<1>1. Range(r.columns) = {c} /\ c.name = column
  BY DEF ColumnGuard, Declared, Tested, Range
<1>2. DOMAIN ConstraintsForRelation(r).columns = {d.name : d \in Range(r.columns)}
  BY DEF ConstraintsForRelation
<1> HIDE DEF r, c
<1>3. DOMAIN ConstraintsForRelation(r).columns = {column}
  BY <1>1, <1>2
<1> QED BY <1>3 DEF TableOf, r

LEMMA GuardForbidsNull ==
  ASSUME NEW name, NEW column, NEW u
  PROVE  TableOf(name, column, u).columns[column].non_null <=> u.test = "not_null"
<1> DEFINE t == TableOf(name, column, u)
<1>1. t = ConstraintsForRelation(ColumnGuard(name, column, u))
  BY DEF TableOf
<1> HIDE DEF t
<1>2. t.columns[column].non_null <=> u.test = "not_null"
  BY <1>1, OneTestedColumn, Zenon
<1> QED BY <1>2 DEF t

LEMMA GuardAccepts ==
  ASSUME NEW name, NEW column, NEW u
  PROVE  TableOf(name, column, u).columns[column].accepted
           = IF u.test = "accepted_values" THEN u.values ELSE {}
<1> DEFINE t == TableOf(name, column, u)
<1>1. t = ConstraintsForRelation(ColumnGuard(name, column, u))
  BY DEF TableOf
<1> HIDE DEF t
<1>2. t.columns[column].accepted = IF u.test = "accepted_values" THEN u.values ELSE {}
  BY <1>1, OneTestedColumn, Zenon
<1> QED BY <1>2 DEF t

LEMMA OneTestedKey ==
  ASSUME NEW name, NEW key, NEW t,
         t = ConstraintsForRelation(Declared(name,
               <<[test |-> "unique_combination_of_columns", columns |-> key]>>, <<>>))
  PROVE  DOMAIN t.columns = {} /\ key \in t.unique
<1> DEFINE u == [test |-> "unique_combination_of_columns", columns |-> key]
           r == Declared(name, <<u>>, <<>>)
<1>1. r.columns = <<>> /\ Range(r.columns) = {} /\ Range(r.tests) = {u}
      /\ u.test = "unique_combination_of_columns" /\ u.columns = key
  BY DEF Declared, Range
<1> HIDE DEF u
<1>2. /\ DOMAIN t.columns = {d.name : d \in Range(r.columns)}
      /\ t.unique = {{d.name} : d \in {x \in Range(r.columns) : "unique" \in TestNames(x.tests)}}
                    \cup {v.columns : v \in {w \in Range(r.tests) :
                                               w.test = "unique_combination_of_columns"}}
  BY DEF ConstraintsForRelation, u
<1> HIDE DEF r
<1>3. key \in {v.columns : v \in {w \in Range(r.tests) : w.test = "unique_combination_of_columns"}}
  BY <1>1
<1>4. DOMAIN t.columns = {}
  BY <1>1, <1>2
<1>5. key \in t.unique
  BY <1>2, <1>3
<1> QED BY <1>4, <1>5

(* Guards, of a catalog that is named. *)
NotNullGuard(name, column) == ColumnGuard(name, column, [test |-> "not_null"])
AcceptedGuard(name, column, values) ==
  ColumnGuard(name, column, [test |-> "accepted_values", values |-> values])
ReferenceGuard(name, column, ref, field) ==
  ColumnGuard(name, column, [test |-> "relationships", to |-> <<ref>>, field |-> field])
KeyGuard(name, columns) ==
  Declared(name, <<[test |-> "unique_combination_of_columns", columns |-> columns]>>, <<>>)

GuardsUnder(catalog, p) ==
  LET name == Last(p.table) IN
  CASE p.test = "not_null" -> {NotNullGuard(name, p.column)}
    [] p.test = "accepted_values" ->
         {AcceptedGuard(name, p.column, catalog[name].columns[p.column].accepted)}
    [] p.test = "relationships" -> {ReferenceGuard(name, p.column, p.ref, p.field)}
    [] p.test = "unique" -> {KeyGuard(name, p.columns)}
    [] p.test = "key" ->
         {KeyGuard(name, p.columns)} \cup {NotNullGuard(name, c) : c \in p.columns}

LEMMA GuardsAreUnder == \A p : Guards(p) = GuardsUnder(premises, p)
  BY DEF Guards, GuardsUnder, NotNullGuard, AcceptedGuard, ReferenceGuard, KeyGuard,
         ColumnGuard

IsPremise(p) ==
  /\ p.test \in {"not_null", "accepted_values", "unique", "key", "relationships"}
  /\ p.test \in {"unique", "key"} => IsFiniteSet(p.columns)

LEMMA GuardsAreFinite ==
  ASSUME NEW catalog, NEW p, IsPremise(p)
  PROVE  IsFiniteSet(GuardsUnder(catalog, p))
<1> DEFINE name == Last(p.table)
<1>1. CASE p.test # "key"
  <2>1. \E x : GuardsUnder(catalog, p) = {x}
    BY <1>1 DEF IsPremise, GuardsUnder
  <2> QED BY <2>1, FS_Singleton
<1>2. CASE p.test = "key"
  <2> DEFINE f == [c \in p.columns |-> NotNullGuard(name, c)]
             T == {NotNullGuard(name, c) : c \in p.columns}
  <2>1. f \in Surjection(p.columns, T)
    BY DEF Surjection
  <2>2. IsFiniteSet(p.columns)
    BY <1>2 DEF IsPremise
  <2> HIDE DEF f
  <2>3. IsFiniteSet(T)
    BY <2>1, <2>2, FS_Surjection
  <2>4. GuardsUnder(catalog, p) = {KeyGuard(name, p.columns)} \cup T
    BY <1>2 DEF GuardsUnder
  <2> HIDE DEF T
  <2>5. IsFiniteSet({KeyGuard(name, p.columns)})
    BY FS_Singleton
  <2> QED BY <2>3, <2>4, <2>5, FS_Union
<1> QED BY <1>1, <1>2

LEMMA GuardsAccept ==
  ASSUME NEW catalog, NEW p, IsPremise(p), NEW r \in GuardsUnder(catalog, p)
  PROVE  AcceptsAs(catalog, r.name, ConstraintsForRelation(r))
<1> DEFINE name == Last(p.table)
<1>1. ASSUME NEW column, r = NotNullGuard(name, column)
      PROVE  AcceptsAs(catalog, r.name, ConstraintsForRelation(r))
  <2> DEFINE u == [test |-> "not_null"]
  <2>1. r = ColumnGuard(name, column, u) /\ u.test # "accepted_values"
    BY <1>1 DEF NotNullGuard
  <2> HIDE DEF u
  <2>2. /\ DOMAIN ConstraintsForRelation(r).columns = {column}
        /\ ConstraintsForRelation(r).columns[column].accepted = {}
    BY <2>1, GuardIsOfColumn, GuardAccepts DEF TableOf
  <2> QED BY <2>2 DEF AcceptsAs
<1>2. ASSUME p.test = "accepted_values",
             r = AcceptedGuard(name, p.column, catalog[name].columns[p.column].accepted)
      PROVE  AcceptsAs(catalog, r.name, ConstraintsForRelation(r))
  <2> DEFINE u == [test |-> "accepted_values", values |-> catalog[name].columns[p.column].accepted]
  <2>1. r = ColumnGuard(name, p.column, u) /\ u.test = "accepted_values"
        /\ u.values = catalog[name].columns[p.column].accepted /\ r.name = name
    BY <1>2 DEF AcceptedGuard, ColumnGuard, Declared
  <2> HIDE DEF u, name
  <2>2. /\ DOMAIN ConstraintsForRelation(r).columns = {p.column}
        /\ ConstraintsForRelation(r).columns[p.column].accepted
             = catalog[name].columns[p.column].accepted
    BY <2>1, GuardIsOfColumn, GuardAccepts DEF TableOf
  <2> QED BY <2>1, <2>2 DEF AcceptsAs
<1>3. ASSUME r = ReferenceGuard(name, p.column, p.ref, p.field)
      PROVE  AcceptsAs(catalog, r.name, ConstraintsForRelation(r))
  <2> DEFINE u == [test |-> "relationships", to |-> <<p.ref>>, field |-> p.field]
  <2>1. r = ColumnGuard(name, p.column, u) /\ u.test # "accepted_values"
    BY <1>3 DEF ReferenceGuard
  <2> HIDE DEF u
  <2>2. /\ DOMAIN ConstraintsForRelation(r).columns = {p.column}
        /\ ConstraintsForRelation(r).columns[p.column].accepted = {}
    BY <2>1, GuardIsOfColumn, GuardAccepts DEF TableOf
  <2> QED BY <2>2 DEF AcceptsAs
<1>4. ASSUME r = KeyGuard(name, p.columns)
      PROVE  AcceptsAs(catalog, r.name, ConstraintsForRelation(r))
  BY <1>4, OneTestedKey DEF AcceptsAs, KeyGuard
<1> HIDE DEF name
<1>5. \/ \E column : r = NotNullGuard(name, column)
      \/ p.test = "accepted_values"
         /\ r = AcceptedGuard(name, p.column, catalog[name].columns[p.column].accepted)
      \/ r = ReferenceGuard(name, p.column, p.ref, p.field)
      \/ r = KeyGuard(name, p.columns)
  BY DEF IsPremise, GuardsUnder, name
<1> QED BY <1>1, <1>2, <1>3, <1>4, <1>5

(* A schema file that declares the guards of some premises and nothing     *)
(* else promises these premises.                                           *)
LEMMA GuardsAreEnough ==
  ASSUME NEW catalog, NEW needs, IsFiniteSet(needs), \A p \in needs : IsPremise(p),
         TrustsAll(catalog, needs),
         NEW tests, tests = UNION {GuardsUnder(catalog, p) : p \in needs}
  PROVE  TrustsAll(LoadDbtConstraints(SetToSeq(tests)), needs)
<1> DEFINE all    == {GuardsUnder(catalog, p) : p \in needs}
           f      == [p \in needs |-> GuardsUnder(catalog, p)]
           loaded == LoadDbtConstraints(SetToSeq(tests))
<1>1. f \in Surjection(needs, all)
  BY DEF Surjection
<1> HIDE DEF f
<1>2. IsFiniteSet(all)
  BY <1>1, FS_Surjection
<1>3. \A T \in all : IsFiniteSet(T)
  BY GuardsAreFinite
<1>4. IsFiniteSet(tests)
  BY <1>2, <1>3, FS_UNION
<1>5. IsList(SetToSeq(tests)) /\ Range(SetToSeq(tests)) = tests
  BY <1>4, ListOfSet
<1>6. \A r \in tests : AcceptsAs(catalog, r.name, ConstraintsForRelation(r))
  BY GuardsAccept
<1>7. /\ \A r \in tests : /\ r.name \in DOMAIN loaded
                          /\ Promised(ConstraintsForRelation(r), loaded[r.name])
      /\ \A name \in DOMAIN loaded : AcceptsAs(catalog, name, loaded[name])
  BY <1>5, <1>6, CatalogPromises
<1> HIDE DEF loaded, all
<1> SUFFICES ASSUME NEW p \in needs PROVE Trusts(loaded, p)
  BY DEF TrustsAll, loaded
<1> DEFINE name == Last(p.table)
<1>8. GuardsUnder(catalog, p) \subseteq tests /\ Trusts(catalog, p) /\ IsPremise(p)
  BY DEF TrustsAll
<1>9. \A r \in GuardsUnder(catalog, p) : r.name = name
  BY <1>8 DEF GuardsUnder, IsPremise, NotNullGuard, AcceptedGuard, ReferenceGuard, KeyGuard,
                ColumnGuard, Declared
<1>10. \A r \in GuardsUnder(catalog, p) :
         name \in DOMAIN loaded /\ Promised(ConstraintsForRelation(r), loaded[name])
  BY <1>7, <1>8, <1>9
<1>11. ASSUME NEW column, NotNullGuard(name, column) \in GuardsUnder(catalog, p)
       PROVE  column \in DOMAIN loaded[name].columns /\ loaded[name].columns[column].non_null
  <2> DEFINE u == [test |-> "not_null"]
             r == NotNullGuard(name, column)
             t == ConstraintsForRelation(r)
  <2>1. r = ColumnGuard(name, column, u) /\ u.test = "not_null"
    BY DEF NotNullGuard
  <2>2. Promised(t, loaded[name])
    BY <1>10, <1>11
  <2> HIDE DEF u, r
  <2>3. column \in DOMAIN t.columns /\ t.columns[column].non_null
    BY <2>1, GuardIsOfColumn, GuardForbidsNull DEF TableOf
  <2> QED BY <2>2, <2>3 DEF Promised
<1>12. ASSUME KeyGuard(name, p.columns) \in GuardsUnder(catalog, p)
       PROVE  p.columns \in loaded[name].unique
  <2> DEFINE r == KeyGuard(name, p.columns)
             t == ConstraintsForRelation(r)
  <2>1. Promised(t, loaded[name])
    BY <1>10, <1>12
  <2>2. p.columns \in t.unique
    BY OneTestedKey DEF KeyGuard
  <2> QED BY <2>1, <2>2 DEF Promised
<1>13. CASE p.test = "not_null"
  <2>1. NotNullGuard(name, p.column) \in GuardsUnder(catalog, p)
    BY <1>13 DEF GuardsUnder
  <2> QED BY <1>10, <1>11, <1>13, <2>1 DEF Trusts
<1>14. CASE p.test = "accepted_values"
  <2> DEFINE values == catalog[name].columns[p.column].accepted
             u == [test |-> "accepted_values", values |-> values]
             r == AcceptedGuard(name, p.column, values)
             t == ConstraintsForRelation(r)
  <2>1. values # {} /\ values \subseteq p.values
    BY <1>8, <1>14 DEF Trusts
  <2>2. r \in GuardsUnder(catalog, p)
    BY <1>14 DEF GuardsUnder
  <2>3. r = ColumnGuard(name, p.column, u) /\ u.test = "accepted_values"
        /\ u.values = values
    BY DEF AcceptedGuard
  <2>4. Promised(t, loaded[name]) /\ name \in DOMAIN loaded
    BY <1>10, <2>2
  <2>5. AcceptsAs(catalog, name, loaded[name])
    BY <1>7, <2>4
  <2> HIDE DEF u, r
  <2>6. p.column \in DOMAIN t.columns /\ t.columns[p.column].accepted = values
    BY <2>3, GuardIsOfColumn, GuardAccepts DEF TableOf
  <2> HIDE DEF t
  <2>7. p.column \in DOMAIN loaded[name].columns /\ loaded[name].columns[p.column].accepted # {}
    BY <2>1, <2>4, <2>6 DEF Promised
  <2>8. loaded[name].columns[p.column].accepted = values
    BY <2>5, <2>7 DEF AcceptsAs
  <2> QED BY <1>14, <2>1, <2>4, <2>7, <2>8 DEF Trusts
<1>15. CASE p.test = "relationships"
  <2> DEFINE u == [test |-> "relationships", to |-> <<p.ref>>, field |-> p.field]
             r == ReferenceGuard(name, p.column, p.ref, p.field)
             t == ConstraintsForRelation(r)
  <2>1. r \in GuardsUnder(catalog, p)
    BY <1>15 DEF GuardsUnder
  <2>2. r = ColumnGuard(name, p.column, u) /\ u.test = "relationships"
        /\ Last(u.to) = p.ref /\ u.field = p.field
    BY DEF ReferenceGuard, Last
  <2>3. Promised(t, loaded[name]) /\ name \in DOMAIN loaded
    BY <1>10, <2>1
  <2> HIDE DEF u, r
  <2>4. <<p.column, p.ref, p.field>> \in t.foreign
    BY <2>2, OneTestedColumn
  <2> QED BY <1>15, <2>3, <2>4 DEF Trusts, Promised
<1>16. CASE p.test = "unique"
  <2>1. KeyGuard(name, p.columns) \in GuardsUnder(catalog, p)
    BY <1>16 DEF GuardsUnder
  <2> QED BY <1>10, <1>12, <1>16, <2>1 DEF Trusts
<1>17. CASE p.test = "key"
  <2>1. /\ KeyGuard(name, p.columns) \in GuardsUnder(catalog, p)
        /\ \A c \in p.columns : NotNullGuard(name, c) \in GuardsUnder(catalog, p)
    BY <1>17 DEF GuardsUnder
  <2>2. \A c \in p.columns : c \in DOMAIN loaded[name].columns /\ loaded[name].columns[c].non_null
    BY <1>11, <2>1
  <2> QED BY <1>10, <1>12, <1>17, <2>1, <2>2 DEF Trusts
<1> QED BY <1>8, <1>13, <1>14, <1>15, <1>16, <1>17 DEF IsPremise

(* A row of the evidence is of something that was verified, and its tests  *)
(* are the guards of the premises that the proof needed.                   *)
RowOfCheck(r) ==
  /\ r.check \in checks
  /\ r.tests = UNION {GuardsUnder(premises, p) : p \in r.check.result.needs}

EvidenceInv == \A r \in evidence : RowOfCheck(r)

LEMMA EvidenceOfOthers ==
  ASSUME EvidenceInv, UNCHANGED jobVars
  PROVE  EvidenceInv'
  BY DEF EvidenceInv, RowOfCheck, jobVars

LEMMA EvidenceKept ==
  ASSUME EvidenceInv, JobInv, JobStep
  PROVE  EvidenceInv'
<1>1. CASE evidence' = {}
  BY <1>1 DEF EvidenceInv
<1>2. CASE UNCHANGED <<premises, evidence>> /\ checks \subseteq checks'
  BY <1>2 DEF EvidenceInv, RowOfCheck
<1>3. CASE GatherRow
  <2>1. PICK c \in checks :
          \E outcome \in IF c.result.proven THEN MeasureOutcomes(premises, again, Files[c.file])
                         ELSE {None} :
            evidence' = evidence \cup
              {[check |-> c, shown |-> <<again, Files[c.file]>>, outcome |-> outcome,
                section |-> ReviewSection(c.result.proven, outcome),
                tests |-> UNION {Guards(p) : p \in c.result.needs}]}
    BY <1>3 DEF GatherRow
  <2> DEFINE tests == UNION {Guards(p) : p \in c.result.needs}
  <2>2. PICK row : evidence' = evidence \cup {row} /\ row.check = c /\ row.tests = tests
    <3> HIDE DEF tests
    <3>1. PICK outcome : evidence' = evidence \cup
            {[check |-> c, shown |-> <<again, Files[c.file]>>, outcome |-> outcome,
              section |-> ReviewSection(c.result.proven, outcome), tests |-> tests]}
      BY <2>1 DEF tests
    <3> DEFINE new == [check |-> c, shown |-> <<again, Files[c.file]>>, outcome |-> outcome,
                       section |-> ReviewSection(c.result.proven, outcome), tests |-> tests]
    <3>2. new.check = c /\ new.tests = tests
      OBVIOUS
    <3> QED BY <3>1, <3>2
  <2>3. tests = UNION {GuardsUnder(premises, p) : p \in c.result.needs}
    BY GuardsAreUnder
  <2> HIDE DEF tests
  <2>4. UNCHANGED <<premises, checks>>
    BY <1>3 DEF GatherRow
  <2>5. RowOfCheck(row)
    BY <2>1, <2>2, <2>3 DEF RowOfCheck
  <2>6. \A r \in evidence' : RowOfCheck(r)
    BY <2>2, <2>5 DEF EvidenceInv
  <2> QED BY <2>4, <2>6 DEF EvidenceInv, RowOfCheck
<1>4. CASE (\E j \in Jobs : StartJob(j)) \/ LoadConstraints
  BY <1>1, <1>4 DEF StartJob, LoadConstraints, JobInv
<1>5. CASE WriteCandidate \/ Written \/ VerifyFile
  BY <1>2, <1>5 DEF WriteCandidate, Written, VerifyFile, EndJob
<1>6. CASE Verified \/ Gathered \/ KillJob
  BY <1>2, <1>6 DEF Verified, Gathered, KillJob, EndJob
<1>7. CASE LeaveJob
  BY <1>1, <1>7 DEF LeaveJob
<1> QED BY <1>3, <1>4, <1>5, <1>6, <1>7 DEF JobStep

(* What a pair was proven from is met by the catalog, and all of it is of  *)
(* the five kinds of premise that a test can declare.                      *)
LEMMA NeedsOfTheProof ==
  ASSUME NEW catalog, NEW o \in Text, NEW c,
         NEW needs, needs = VerificationUnder(catalog, o, c).needs
  PROVE  /\ IsFiniteSet(needs)
         /\ \A p \in needs : IsPremise(p)
         /\ TrustsAll(catalog, needs)
<1>1. CASE needs = {}
  BY <1>1, FS_EmptySet DEF TrustsAll
<1>2. CASE needs # {}
  <2>1. VerificationUnder(catalog, o, c).proven /\ o # c
    BY <1>2 DEF VerificationUnder
  <2>2. PICK r \in Proofs(o, c) : TrustsAll(catalog, r.needs) /\ needs = r.needs
    BY <2>1, ProvenByRule
  <2>3. r \in RulesOf(o)
    BY <2>2 DEF Proofs
  <2>4. IsFiniteSet(needs)
    BY <2>2, <2>3, NeedsAssumption
  <2>5. \A p \in needs : IsPremise(p)
    BY <2>2, <2>3, TextsAssumption, NeedsAssumption DEF IsPremise
  <2> QED BY <2>2, <2>4, <2>5
<1> QED BY <1>1, <1>2

LEMMA EvidenceGuards ==
  ASSUME EvidenceInv, JobInv
  PROVE  GuardsSuffice
<1> SUFFICES ASSUME NEW r \in evidence
             PROVE  TrustsAll(LoadDbtConstraints(SetToSeq(r.tests)), r.check.result.needs)
  BY DEF GuardsSuffice
<1> DEFINE c     == r.check
           needs == c.result.needs
           tests == r.tests
<1>1. c \in checks /\ tests = UNION {GuardsUnder(premises, p) : p \in needs}
  BY DEF EvidenceInv, RowOfCheck
<1>2. c.result = VerificationUnder(premises, query, c.pair[2]) /\ query \in Text
  BY <1>1 DEF JobInv
<1>3. needs = VerificationUnder(premises, query, c.pair[2]).needs
  BY <1>2
<1> HIDE DEF needs, tests
<1>4. IsFiniteSet(needs) /\ (\A p \in needs : IsPremise(p)) /\ TrustsAll(premises, needs)
  BY <1>2, <1>3, NeedsOfTheProof
<1>5. TrustsAll(LoadDbtConstraints(SetToSeq(tests)), needs)
  BY <1>1, <1>4, GuardsAreEnough
<1> QED BY <1>5 DEF tests, needs

-----------------------------------------------------------------------------
(* Everything together. *)
CandidatesInv ==
  /\ ProjectInv /\ JobInv /\ UndisturbedInv /\ EvidenceInv
  /\ OffersInv /\ GenerateInv /\ ReadingInv

LEMMA CandidatesInvAtFirst ==
  ASSUME Init
  PROVE  CandidatesInv
<1>1. ProjectInv
  BY ProjectsAssumption DEF Init, ProjectInit, ProjectInv
<1>2. JobInv /\ UndisturbedInv /\ OffersInv /\ EvidenceInv
  BY DEF Init, JobsInit, JobInv, UndisturbedInv, OffersInv, EvidenceInv, Looking
<1>3. IsList(<<>>) /\ Range(<<>>) = {}
  BY DEF IsList, Range
<1>4. /\ genPhase = "idle" /\ requests = <<>> /\ writes = <<>> /\ responses = <<>>
      /\ bundles = [n \in Names |-> [files |-> <<>>, metadata |-> None]]
      /\ reading = None /\ records = {} /\ rows = {} /\ report = None
  BY DEF Init, BundlesInit, Names
<1>5. RequestsInv /\ ResponsesInv /\ WritingInv /\ MetadataInv
  BY <1>3, <1>4 DEF RequestsInv, ResponsesInv, WritingInv, MetadataInv
<1>6. BundlesInv
  <2>1. ASSUME NEW n \in Names PROVE IsBundle(bundles[n]) /\ AnswersItsOriginal(bundles[n])
    <3>1. bundles[n] = [files |-> <<>>, metadata |-> None]
      BY <1>4, <2>1
    <3>2. bundles[n].files = <<>> /\ bundles[n].metadata = None
          /\ bundles[n] = [files |-> bundles[n].files, metadata |-> bundles[n].metadata]
      BY <3>1
    <3> QED BY <3>2 DEF IsBundle, AnswersItsOriginal
  <2> QED BY <1>4, <2>1 DEF BundlesInv
<1>7. ReadingInv
  BY <1>4 DEF ReadingInv, ReportInv, OpenedInv, RecordsInv
<1> QED BY <1>1, <1>2, <1>5, <1>6, <1>7 DEF CandidatesInv, GenerateInv

LEMMA CandidatesInvKept ==
  ASSUME CandidatesInv, [Next]_vars
  PROVE  CandidatesInv'
<1>1. ProjectInv'
  BY ProjectInvKept DEF CandidatesInv
<1>2. CASE UNCHANGED vars
  <2>1. /\ UNCHANGED <<source, bundles, disturbed, offers, step>> /\ UNCHANGED jobVars
        /\ UNCHANGED <<genCommand, genPhase, genAsking, genWriting, genPast>> /\ UNCHANGED readVars
    BY <1>2 DEF vars, projectVars, genWriting, jobVars
  <2>2. JobInv' /\ UndisturbedInv' /\ EvidenceInv'
    BY <2>1, JobInvOfOthers, UndisturbedByOthers, EvidenceOfOthers DEF CandidatesInv
  <2>3. OffersInv' /\ GenerateInv'
    BY <2>1, GenerateInvOfOthers DEF CandidatesInv, OffersInv
  <2>4. ReadingInv'
    BY <2>1, ReadingInvOfOthers DEF CandidatesInv, HasOriginal, HasMetadata
  <2> QED BY <1>1, <2>2, <2>3, <2>4 DEF CandidatesInv
<1>3. CASE /\ Edit /\ Disturbs
           /\ UNCHANGED <<genCommand, genPhase, genAsking, genWriting, genPast, readVars, jobVars>>
  <2>1. UNCHANGED <<bundles, offers, step>>
    BY <1>3 DEF genWriting, jobVars
  <2>2. JobInv' /\ UndisturbedInv' /\ EvidenceInv'
    BY <1>3, JobInvOfOthers, UndisturbedByOthers, EvidenceOfOthers DEF CandidatesInv
  <2>3. OffersInv' /\ GenerateInv'
    BY <1>3, <2>1, GenerateInvOfOthers DEF CandidatesInv, OffersInv
  <2>4. ReadingInv'
    BY <1>3, <2>1, ReadingInvOfOthers DEF CandidatesInv, HasOriginal, HasMetadata
  <2> QED BY <1>1, <2>2, <2>3, <2>4 DEF CandidatesInv
<1>4. CASE GenerateStep /\ UNCHANGED <<projectVars, readVars, jobVars>> /\ Disturbs
  <2>1. UNCHANGED <<offers, step>>
    BY <1>4 DEF jobVars
  <2>2. JobInv' /\ UndisturbedInv' /\ EvidenceInv'
    BY <1>4, JobInvOfOthers, UndisturbedByOthers, EvidenceOfOthers DEF CandidatesInv
  <2>3. OffersInv' /\ GenerateInv'
    BY <1>4, <2>1, GenerateStepKeeps DEF CandidatesInv, OffersInv
  <2>4. ReadingInv'
    BY <1>4, ReadingInvOfOthers, DirectoriesGrow DEF CandidatesInv
  <2> QED BY <1>1, <2>2, <2>3, <2>4 DEF CandidatesInv
<1>5. CASE /\ ReadStep
           /\ UNCHANGED <<projectVars, genCommand, genPhase, genAsking, genWriting, genPast>>
           /\ UNCHANGED <<jobVars, disturbed>>
  <2>1. UNCHANGED <<source, bundles, offers, step>>
    BY <1>5 DEF projectVars, genWriting, jobVars
  <2>2. JobInv' /\ UndisturbedInv' /\ EvidenceInv'
    BY <1>5, <2>1, JobInvOfOthers, UndisturbedByOthers, EvidenceOfOthers DEF CandidatesInv
  <2>3. OffersInv' /\ GenerateInv'
    BY <1>5, <2>1, GenerateInvOfOthers DEF CandidatesInv, OffersInv
  <2>4. ReadingInv'
    BY <1>5, <2>1, ReadStepKeeps DEF CandidatesInv
  <2> QED BY <1>1, <2>2, <2>3, <2>4 DEF CandidatesInv
<1>6. CASE /\ JobStep /\ disturbed' = (disturbed /\ step' # "idle")
           /\ UNCHANGED <<projectVars, genCommand, genPhase, genAsking, writes, summary, snapshot>>
           /\ UNCHANGED <<genPast, readVars>>
  <2>1. UNCHANGED source
    BY <1>6 DEF projectVars
  <2>2. JobInv' /\ UndisturbedInv' /\ EvidenceInv'
    BY <1>6, <2>1, JobInvKept, UndisturbedKept, EvidenceKept DEF CandidatesInv
  <2>3. OffersInv' /\ GenerateInv'
    BY <1>6, OffersKept, JobStepKeeps DEF CandidatesInv
  <2>4. ReadingInv'
    BY <1>6, ReadingInvOfOthers, DirectoriesGrow DEF CandidatesInv
  <2> QED BY <1>1, <2>2, <2>3, <2>4 DEF CandidatesInv
<1> QED BY <1>2, <1>3, <1>4, <1>5, <1>6 DEF Next

(* The invariant of all commands together: of every reachable state. *)
THEOREM CandidatesInvHolds == Spec => []CandidatesInv
<1>1. Init => CandidatesInv
  BY CandidatesInvAtFirst
<1>2. CandidatesInv /\ [Next]_vars => CandidatesInv'
  BY CandidatesInvKept
<1> QED BY <1>1, <1>2, PTL DEF Spec

(* A command with --fail-on unproven that ends well has verified something *)
(* and proven all of it, whatever the directory held and whoever wrote     *)
(* into it (candidates.py:315).                                            *)
THEOREM SuccessAlwaysIsProof == Spec => []SuccessIsProof
<1>1. CandidatesInv => SuccessIsProof
  BY ProvenIsSuccess DEF CandidatesInv
<1> QED BY <1>1, CandidatesInvHolds, PTL

(* While nobody else touches the query or the directory, the evidence      *)
(* shows the very pair that was verified (evidence.py:84-87).              *)
THEOREM EvidenceAlwaysIsOfTheProof == Spec => []EvidenceIsOfTheProof
<1>1. CandidatesInv => EvidenceIsOfTheProof
  <2> SUFFICES ASSUME CandidatesInv, ~ disturbed PROVE \A r \in evidence : RowOfProof(r)
    BY DEF EvidenceIsOfTheProof, RowOfProof, Unmet
  <2>1. CASE step = "idle"
    BY <2>1 DEF CandidatesInv, JobInv
  <2>2. CASE step # "idle"
    BY <2>2 DEF CandidatesInv, UndisturbedInv
  <2> QED BY <2>1, <2>2
<1> QED BY <1>1, CandidatesInvHolds, PTL

(* Evidence that says proven is of what was proven, and the tests it asks  *)
(* to keep are enough to keep the proof (evidence.py:84, guards.py).       *)
THEOREM EvidenceAlwaysIsSound == Spec => []EvidenceIsSound
<1>1. CandidatesInv => GuardsSuffice
  BY EvidenceGuards DEF CandidatesInv
<1>2. EvidenceIsSound <=> EvidenceIsOfTheProof /\ GuardsSuffice
  BY DEF EvidenceIsSound
<1> QED BY <1>1, <1>2, CandidatesInvHolds, EvidenceAlwaysIsOfTheProof, PTL

(* What a finished directory lists was answered to the original beside it, *)
(* wherever earlier runs were killed (generation.py:402-420).              *)
THEOREM FinishedBundlesAnswer == Spec => []BundlesAnswerTheirOriginal
<1>1. CandidatesInv => BundlesAnswerTheirOriginal
  <2> SUFFICES ASSUME CandidatesInv, NEW n \in DOMAIN bundles \ unfinished,
                      bundles[n].metadata # None
               PROVE  /\ bundles[n].metadata # Torn
                      /\ \A f \in Range(bundles[n].metadata) :
                           <<bundles[n].files[Original], bundles[n].files[f]>> \in answered
    BY DEF BundlesAnswerTheirOriginal
  <2>1. n \in Names \ unfinished
    BY DEF CandidatesInv, GenerateInv, BundlesInv
  <2>2. AnswersItsOriginal(bundles[n])
    BY <2>1 DEF CandidatesInv, GenerateInv, BundlesInv
  <2> QED BY <2>2 DEF AnswersItsOriginal
<1> QED BY <1>1, CandidatesInvHolds, PTL

(* The summary of a run accounts for every request, what was answered is   *)
(* in its directory, and the snapshot promises what the prompts promised   *)
(* (generation.py:194-228).                                                *)
THEOREM EveryRunIsAccounted == Spec => []RunIsAccounted
<1>1. CandidatesInv => RunIsAccounted
  <2> SUFFICES ASSUME CandidatesInv, genPhase = "done"
               PROVE  /\ summary.bundles + summary.errors = Len(requests)
                      /\ \A r \in Range(requests) :
                           /\ r.premises = PremisesFor(snapshot, r.sql)
                           /\ (r.name \in DOMAIN responses /\ ~responses[r.name].error) =>
                                bundles[r.name].metadata = Listed(responses[r.name].candidates)
    BY DEF RunIsAccounted
  <2>1. /\ pending = <<>> /\ snapshot = constraints /\ IsList(requests)
        /\ summary.bundles + summary.errors = Done
        /\ \A r \in Range(requests) : r.premises = PremisesFor(constraints, r.sql)
    BY DEF CandidatesInv, GenerateInv, RequestsInv
  <2>2. DOMAIN requests = 1 .. Len(requests) /\ Len(requests) \in Nat
        /\ \A r \in Range(requests) : \E k \in DOMAIN requests : requests[k] = r
    BY <2>1, ListOf DEF IsList
  <2>3. Done = Len(requests)
    BY <2>1, <2>2 DEF Done
  <2>4. ASSUME NEW r \in Range(requests), r.name \in DOMAIN responses, ~responses[r.name].error
        PROVE  bundles[r.name].metadata = Listed(responses[r.name].candidates)
    BY <2>2, <2>3, <2>4 DEF CandidatesInv, GenerateInv, MetadataInv, Answered
  <2> QED BY <2>1, <2>3, <2>4
<1> QED BY <1>1, CandidatesInvHolds, PTL

(* A suspect pair whose directory and catalog are those of the report is   *)
(* one that the report proved, from a premise that the synthetic data does *)
(* not respect, unless the rule is unsound (benchmarking.py:57-64, 136).   *)
THEOREM SuspectAlwaysHasUnmetPremise == Spec => []SuspectMeansUnmetPremise
<1>1. CandidatesInv => SuspectMeansUnmetPremise
  BY DEF CandidatesInv, ReadingInv, RecordsInv, Suspected, SuspectMeansUnmetPremise
<1> QED BY <1>1, CandidatesInvHolds, PTL
=============================================================================
