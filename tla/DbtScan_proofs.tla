--------------------------- MODULE DbtScan_proofs ---------------------------
(***************************************************************************)
(* What holds of qseal dbt for every project, every set of rules and every *)
(* developer.                                                              *)
(***************************************************************************)
EXTENDS DbtScan, Collections_proofs

-----------------------------------------------------------------------------
(* The lists of suggestions. *)
LEMMA ProvenRange ==
  ASSUME NEW s, IsList(s)
  PROVE  IsList(Proven(s)) /\ Range(Proven(s)) = {x \in Range(s) : IsProven(x)}
  BY AmongRange DEF Proven

LEMMA ApplicableRange ==
  ASSUME NEW s, IsList(s)
  PROVE  IsList(Applicable(s))
         /\ Range(Applicable(s)) = {x \in Range(s) : x.status # "NOT_APPLICABLE"}
  BY AmongRange DEF Applicable

(* What a scan finds of a text by the rules of a list. *)
LEMMA SuggestionsOfRules ==
  ASSUME NEW catalog, NEW t, NEW rules, IsList(rules),
         NEW found, found = [i \in DOMAIN rules |-> Suggestion(catalog, t, rules[i])]
  PROVE  /\ IsList(found) /\ DOMAIN found = DOMAIN rules
         /\ \A s \in Range(found) : \E r \in Range(rules) : s = Suggestion(catalog, t, r)
<1> DEFINE S == {Suggestion(catalog, t, r) : r \in Range(rules)}
<1>1. DOMAIN rules = 1 .. Len(rules) /\ Len(rules) \in Nat
      /\ \A i \in DOMAIN rules : rules[i] \in Range(rules)
  BY ListOf DEF IsList
<1>2. \A i \in DOMAIN rules : found[i] = Suggestion(catalog, t, rules[i])
  OBVIOUS
<1>3. \A i \in DOMAIN rules : found[i] \in S
  BY <1>1, <1>2
<1>4. found = [i \in 1 .. Len(rules) |-> found[i]]
  BY <1>1
<1> HIDE DEF S
<1>5. found \in Seq(S)
  BY <1>1, <1>3, <1>4
<1>6. IsList(found) /\ Range(found) \subseteq S
  BY <1>5, ListOf
<1> QED BY <1>6 DEF S

-----------------------------------------------------------------------------
(* A default scan says nothing of a text although some rule proves a       *)
(* rewriting of it only when a rule that applies without a proof comes     *)
(* before.                                                                 *)
LEMMA SilenceHasAReason ==
  ASSUME NEW catalog, NEW t \in Text, About[t].jinja = "none", About[t].parses,
         ScanSuggestions(catalog, t, FALSE) = <<>>,
         NEW found, found = SuggestRewrites(catalog, t),
         NEW proven, proven = {i \in DOMAIN found : IsProven(found[i])}
  PROVE  /\ SuggestSubtree(catalog, t) = <<>> \/ proven # {}
         /\ proven # {} => \E i \in DOMAIN found :
                             /\ found[i].status \in {"UNKNOWN", "UNSUPPORTED"}
                             /\ \A j \in proven : i < j
<1>1. Preprocess(t).sql = t /\ Preprocess(t).supported
  BY DEF Preprocess
<1> DEFINE fragments == IF \E i \in DOMAIN found : IsProven(found[i]) THEN <<>>
                        ELSE SuggestSubtree(catalog, t)
<1>2. Shown(found, fragments) = <<>>
  BY <1>1 DEF ScanSuggestions
<1>3. fragments = <<>>
  BY <1>2 DEF Shown
<1>4. SuggestSubtree(catalog, t) = <<>> \/ proven # {}
  BY <1>3
<1>5. ASSUME proven # {}
      PROVE  \E i \in DOMAIN found : /\ found[i].status \in {"UNKNOWN", "UNSUPPORTED"}
                                     /\ \A j \in proven : i < j
  <2> DEFINE S == {s \in Range(found) : s.status # "NOT_APPLICABLE"}
  <2>1. IsList(About[t].whole) /\ \A r \in Range(About[t].whole) :
          r.otherwise \in {"UNKNOWN", "UNSUPPORTED", "NOT_APPLICABLE"}
    BY TextsAssumption DEF RulesOf
  <2>2. IsList(found) /\ \A s \in Range(found) :
          \E r \in Range(About[t].whole) : s = Suggestion(catalog, t, r)
    BY <2>1, SuggestionsOfRules DEF SuggestRewrites
  <2>3. found \in Seq(Range(found)) /\ DOMAIN found = 1 .. Len(found)
        /\ \A i \in DOMAIN found : found[i] \in Range(found)
    BY <2>2, ListOf DEF IsList
  <2>4. PICK p \in proven : p \in DOMAIN found /\ IsProven(found[p])
    BY <1>5
  <2>5. found[p] \in Range(Applicable(found))
    BY <2>2, <2>3, <2>4, ApplicableRange DEF IsProven
  <2>6. Applicable(found) # <<>>
    BY <2>5 DEF Range
  <2>7. ~ IsProven(Head(Applicable(found)))
    BY <1>2, <1>3, <2>6 DEF Shown
  <2>8. Among(found, S) # <<>> /\ Head(Among(found, S)) = Head(Applicable(found))
    BY <2>6 DEF Applicable
  <2> HIDE DEF S
  <2>9. PICK i \in DOMAIN found : /\ found[i] = Head(Applicable(found)) /\ found[i] \in S
                                  /\ \A j \in DOMAIN found : found[j] \in S => i <= j
    BY <2>3, <2>8, AmongHead
  <2>10. found[i].status \in {"UNKNOWN", "UNSUPPORTED"}
    <3>1. PICK r \in Range(About[t].whole) : found[i] = Suggestion(catalog, t, r)
      BY <2>2, <2>3
    <3>2. found[i].status \in {"PROVEN_EQUIVALENT", r.otherwise}
      BY <3>1 DEF Suggestion
    <3>3. found[i].status # "NOT_APPLICABLE" /\ found[i].status # "PROVEN_EQUIVALENT"
      BY <2>7, <2>9 DEF S, IsProven
    <3> QED BY <2>1, <3>2, <3>3
  <2>11. ASSUME NEW j \in proven PROVE i < j
    <3>1. j \in DOMAIN found /\ IsProven(found[j]) /\ found[j] \in S
      BY <2>3 DEF S, IsProven
    <3>2. i # j
      BY <2>7, <2>9, <3>1
    <3> QED BY <2>3, <2>9, <3>1, <3>2
  <2> QED BY <2>10, <2>11
<1> QED BY <1>4, <1>5

(* A default scan is silent about a model it could read only if no rule    *)
(* proves anything of it, or one that applies without a proof comes before *)
(* those that do: whatever the catalog is, so in every state.              *)
THEOREM ScanIsSilentOnlyBehindAnother == Spec => []SilentOnlyBehindAnother
<1>1. SilentOnlyBehindAnother
  BY SilenceHasAReason DEF SilentOnlyBehindAnother
<1> QED BY <1>1, PTL

-----------------------------------------------------------------------------
(* A finding that is called proven rests on tests of the catalog and, as   *)
(* the rules are sound, means what it is found in.                         *)
Tests == {"not_null", "accepted_values", "unique", "key", "relationships"}

SoundFor(catalog, s) ==
  IsProven(s) => /\ s.from \in Text /\ s.to \in Text
                 /\ Meaning[s.to] = Meaning[s.from]
                 /\ TrustsAll(catalog, s.needs)
                 /\ \A p \in s.needs : p.test \in Tests

AllSound(catalog, suggestions) ==
  IsList(suggestions) /\ \A s \in Range(suggestions) : SoundFor(catalog, s)

LEMMA PreprocessIsText ==
  ASSUME NEW t \in Text
  PROVE  Preprocess(t).sql \in Text
  BY TextsAssumption DEF Preprocess

LEMMA SuggestionIsSound ==
  ASSUME NEW said \in [SchemaFile -> Payloads], NEW t \in Text, NEW r \in RulesOf(t)
  PROVE  SoundFor(LoadProjectConstraints(said), Suggestion(LoadProjectConstraints(said), t, r))
<1> DEFINE catalog == LoadProjectConstraints(said)
           s       == Suggestion(catalog, t, r)
<1>1. SUFFICES ASSUME IsProven(s) PROVE SoundFor(catalog, s)
  BY DEF SoundFor
<1>2. /\ r.to \in Text /\ r.otherwise # "PROVEN_EQUIVALENT"
      /\ \A p \in r.needs : p.test \in Tests
  BY TextsAssumption DEF Tests
<1>3. TrustsAll(catalog, r.needs)
  BY <1>1, <1>2 DEF Suggestion, IsProven
<1>4. s.from = t /\ s.to = r.to /\ s.needs = r.needs
  BY <1>3 DEF Suggestion
<1>5. \A p \in r.needs : Trusts(catalog, p)
  BY <1>3 DEF TrustsAll
<1>6. \A p \in r.needs : p \in UNION {q.needs : q \in RulesOf(t)}
  OBVIOUS
<1>7. \A p \in r.needs : Holds(p)
  BY <1>5, <1>6, TestsHoldAssumption DEF TestsHold
<1>8. Meaning[r.to] = Meaning[t]
  BY <1>7, RulesAreSoundAssumption DEF RulesAreSound
<1> QED BY <1>2, <1>3, <1>4, <1>8 DEF SoundFor

LEMMA RulesAreSuggested ==
  ASSUME NEW said \in [SchemaFile -> Payloads], NEW t \in Text
  PROVE  /\ AllSound(LoadProjectConstraints(said), SuggestRewrites(LoadProjectConstraints(said), t))
         /\ AllSound(LoadProjectConstraints(said), SuggestSubtree(LoadProjectConstraints(said), t))
<1> DEFINE catalog == LoadProjectConstraints(said)
           whole   == SuggestRewrites(catalog, t)
           parts   == [i \in DOMAIN About[t].parts |-> Suggestion(catalog, t, About[t].parts[i])]
<1>1. IsList(About[t].whole) /\ IsList(About[t].parts)
  BY TextsAssumption
<1> HIDE DEF catalog
<1>2. IsList(whole) /\ \A s \in Range(whole) :
        \E r \in Range(About[t].whole) : s = Suggestion(catalog, t, r)
  BY <1>1, SuggestionsOfRules DEF SuggestRewrites
<1>3. IsList(parts) /\ \A s \in Range(parts) :
        \E r \in Range(About[t].parts) : s = Suggestion(catalog, t, r)
  <2>1. parts = [i \in DOMAIN About[t].parts |-> Suggestion(catalog, t, About[t].parts[i])]
    OBVIOUS
  <2> HIDE DEF parts
  <2> QED BY <1>1, <2>1, SuggestionsOfRules
<1>4. \A r \in RulesOf(t) : SoundFor(catalog, Suggestion(catalog, t, r))
  BY SuggestionIsSound DEF catalog
<1>5. AllSound(catalog, whole)
  BY <1>2, <1>4 DEF AllSound, RulesOf
<1>6. AllSound(catalog, parts)
  BY <1>3, <1>4 DEF AllSound, RulesOf
<1>7. AllSound(catalog, SuggestSubtree(catalog, t))
  BY <1>6, ProvenRange DEF AllSound, SuggestSubtree
<1> QED BY <1>5, <1>7 DEF catalog

(* Of the lists a scan shows, what is proven is in Q. *)
ProvenIn(Q, s) == IsList(s) /\ \A x \in Range(s) : IsProven(x) => x \in Q

LEMMA SelectionsAreIn ==
  ASSUME NEW Q, NEW s, ProvenIn(Q, s)
  PROVE  /\ ProvenIn(Q, Proven(s)) /\ ProvenIn(Q, Applicable(s))
         /\ \A all : ProvenIn(Q, Visible(s, all))
         /\ s # <<>> => ProvenIn(Q, <<Head(s)>>)
<1>1. ProvenIn(Q, Proven(s)) /\ ProvenIn(Q, Applicable(s))
  BY ProvenRange, ApplicableRange DEF ProvenIn
<1>2. ASSUME s # <<>> PROVE ProvenIn(Q, <<Head(s)>>)
  <2>1. Head(s) \in Range(s)
    BY <1>2, EndsOfList DEF ProvenIn
  <2>2. <<Head(s)>> \in Seq(Range(s))
    BY <2>1
  <2>3. IsList(<<Head(s)>>) /\ Range(<<Head(s)>>) \subseteq Range(s)
    BY <2>2, ListOf
  <2> QED BY <2>3 DEF ProvenIn
<1> QED BY <1>1, <1>2 DEF Visible

LEMMA UnsupportedIsIn ==
  ASSUME NEW Q, NEW t
  PROVE  ProvenIn(Q, <<Unsupported(t)>>) /\ ProvenIn(Q, <<>>)
<1>1. ~ IsProven(Unsupported(t))
  BY DEF IsProven, Unsupported
<1>2. IsList(<<Unsupported(t)>>) /\ Range(<<Unsupported(t)>>) = {Unsupported(t)}
  BY DEF IsList, Range
<1>3. IsList(<<>>) /\ Range(<<>>) = {}
  BY DEF IsList, Range
<1> QED BY <1>1, <1>2, <1>3 DEF ProvenIn

(* One model, whatever the flags: what the scan calls proven is what the   *)
(* rules prove of the whole text or of its fragments.                      *)
LEMMA ScanSelects ==
  ASSUME NEW catalog, NEW t, NEW c, NEW Q,
         ProvenIn(Q, SuggestRewrites(catalog, Preprocess(t).sql)),
         ProvenIn(Q, SuggestSubtree(catalog, Preprocess(t).sql))
  PROVE  ProvenIn(Q, ScanModel(catalog, t, c).suggestions)
<1> DEFINE sql     == Preprocess(t).sql
           whole   == SuggestRewrites(catalog, sql)
           subtree == SuggestSubtree(catalog, sql)
<1>1. ProvenIn(Q, whole) /\ ProvenIn(Q, subtree)
  OBVIOUS
<1>2. ProvenIn(Q, ScanSuggestions(catalog, t, c.all))
  <2> DEFINE fragments == IF \E i \in DOMAIN whole : IsProven(whole[i]) THEN <<>> ELSE subtree
  <2>1. ProvenIn(Q, fragments)
    BY <1>1, UnsupportedIsIn
  <2>2. ProvenIn(Q, Applicable(whole))
    BY <1>1, SelectionsAreIn
  <2>3. ProvenIn(Q, Visible(<<Unsupported(t)>>, c.all))
    BY UnsupportedIsIn, SelectionsAreIn
  <2>4. ProvenIn(Q, fragments \o Applicable(whole))
    BY <2>1, <2>2, ListsTogether DEF ProvenIn
  <2> HIDE DEF fragments
  <2>5. ProvenIn(Q, Shown(whole, fragments))
    BY <2>1, <2>2, SelectionsAreIn, UnsupportedIsIn DEF Shown
  <2>6. subtree # <<>> => ProvenIn(Q, <<Head(subtree)>>)
    BY <1>1, SelectionsAreIn
  <2> HIDE DEF whole, subtree, sql
  <2>7. CASE ~ Preprocess(t).supported
    BY <2>3, <2>7 DEF ScanSuggestions
  <2>8. CASE Preprocess(t).supported /\ ~ About[sql].parses
    BY <1>1, <2>3, <2>6, <2>8 DEF ScanSuggestions, sql, subtree
  <2>9. CASE Preprocess(t).supported /\ About[sql].parses
    <3>1. ScanSuggestions(catalog, t, c.all)
            = IF c.all THEN fragments \o Applicable(whole) ELSE Shown(whole, fragments)
      BY <2>9 DEF ScanSuggestions, sql, whole, subtree, fragments
    <3> QED BY <2>4, <2>5, <3>1
  <2> QED BY <2>7, <2>8, <2>9
<1>3. ProvenIn(Q, <<Unsupported(t)>>) /\ ProvenIn(Q, <<>>)
  BY UnsupportedIsIn
<1> QED BY <1>2, <1>3 DEF ScanModel

(* What the scan calls proven is sound.                                    *)
LEMMA ScanIsSound ==
  ASSUME NEW said \in [SchemaFile -> Payloads], NEW t \in Text, NEW c
  PROVE  AllSound(LoadProjectConstraints(said),
                  ScanModel(LoadProjectConstraints(said), t, c).suggestions)
<1> DEFINE catalog == LoadProjectConstraints(said)
           whole   == SuggestRewrites(catalog, Preprocess(t).sql)
           subtree == SuggestSubtree(catalog, Preprocess(t).sql)
           Q       == Range(whole) \cup Range(subtree)
<1>1. AllSound(catalog, whole) /\ AllSound(catalog, subtree)
  BY PreprocessIsText, RulesAreSuggested
<1> HIDE DEF catalog
<1>2. ProvenIn(Q, whole) /\ ProvenIn(Q, subtree)
  BY <1>1 DEF AllSound, ProvenIn
<1>3. \A s \in Q : SoundFor(catalog, s)
  BY <1>1 DEF AllSound
<1> HIDE DEF Q
<1>4. ProvenIn(Q, ScanModel(catalog, t, c).suggestions)
  BY <1>2, ScanSelects
<1> QED BY <1>3, <1>4 DEF ProvenIn, AllSound, SoundFor, catalog

(* What the scan calls proven is found in the text the scan made of t.     *)
LEMMA ScanIsOfText ==
  ASSUME NEW catalog, NEW t \in Text, NEW c,
         NEW s \in Range(ScanModel(catalog, t, c).suggestions), IsProven(s)
  PROVE  s.from = Preprocess(t).sql
<1> DEFINE u       == Preprocess(t).sql
           whole   == SuggestRewrites(catalog, u)
           parts   == [i \in DOMAIN About[u].parts |-> Suggestion(catalog, u, About[u].parts[i])]
           subtree == SuggestSubtree(catalog, u)
           Q       == Range(whole) \cup Range(subtree)
<1>1. u \in Text /\ IsList(About[u].whole) /\ IsList(About[u].parts)
  BY PreprocessIsText, TextsAssumption
<1> HIDE DEF u
<1>2. IsList(whole) /\ \A x \in Range(whole) : x.from = u
  <2>1. whole = [i \in DOMAIN About[u].whole |-> Suggestion(catalog, u, About[u].whole[i])]
    BY DEF SuggestRewrites
  <2> HIDE DEF whole
  <2>2. IsList(whole) /\ \A x \in Range(whole) :
          \E r \in Range(About[u].whole) : x = Suggestion(catalog, u, r)
    BY <1>1, <2>1, SuggestionsOfRules
  <2> QED BY <2>2 DEF Suggestion
<1>3. IsList(parts) /\ \A x \in Range(parts) : x.from = u
  <2>1. parts = [i \in DOMAIN About[u].parts |-> Suggestion(catalog, u, About[u].parts[i])]
    OBVIOUS
  <2> HIDE DEF parts
  <2>2. IsList(parts) /\ \A x \in Range(parts) :
          \E r \in Range(About[u].parts) : x = Suggestion(catalog, u, r)
    BY <1>1, <2>1, SuggestionsOfRules
  <2> QED BY <2>2 DEF Suggestion
<1>4. IsList(subtree) /\ \A x \in Range(subtree) : x.from = u
  BY <1>3, ProvenRange DEF SuggestSubtree
<1> HIDE DEF parts, whole, subtree
<1>5. ProvenIn(Q, whole) /\ ProvenIn(Q, subtree)
  BY <1>2, <1>4 DEF ProvenIn
<1>6. \A x \in Q : x.from = u
  BY <1>2, <1>4
<1> HIDE DEF Q
<1>7. ProvenIn(Q, ScanModel(catalog, t, c).suggestions)
  BY <1>5, ScanSelects DEF whole, subtree, u
<1> QED BY <1>6, <1>7 DEF ProvenIn, u

-----------------------------------------------------------------------------
(* The inductive invariant.  The project: files hold texts, and what a     *)
(* dbt run left behind stays.                                              *)
ProjectInv ==
  /\ source \in [Model -> Text \cup {None}] /\ saved \in [Model -> Text \cup {None}]
  /\ schema \in [SchemaFile -> Payloads]
  /\ IsList(target.files) /\ None \notin Range(target.files)
  /\ \A f \in Range(target.files) : target.text[f] \in Text

(* The catalog: a payload per schema file, once all are read.              *)
HaveRead == {"model", "patches", "report", "apply", "open", "fill", "finish", "reread", "refute"}

SchemaInv ==
  /\ phase # "idle" => IsCommand(command)
  /\ phase \in {"idle", "discover", "schema"} \cup HaveRead
  /\ phase = "discover" => payloads = <<>>
  /\ phase = "schema" =>
       /\ IsList(unread) /\ payloads \in [DOMAIN payloads -> Payloads]
       /\ DOMAIN payloads \cup Range(unread) = SchemaFile
  /\ phase \in HaveRead \/ results # <<>> => payloads \in [SchemaFile -> Payloads]

(* What the scan found: sound findings, in files of the project.           *)
ModelsOf(dir) ==
  IF dir = None THEN Model
  ELSE {f \in Range(target.files) : CompiledRelativePath(dir, f) \in Model}

ResultSound(r) ==
  /\ AllSound(LoadProjectConstraints(payloads), r.suggestions)
  /\ r.source = r.path => DisplayPath(r) \in Model

FoundInv ==
  /\ phase \in {"discover", "schema"} => results = <<>> /\ looked = None
  /\ phase \in {"schema", "model"} => IsList(left) /\ Range(left) \subseteq ModelsOf(command.dir)
  /\ phase = "model" /\ looked # None =>
       left # <<>> /\ AllSound(LoadProjectConstraints(payloads), looked.suggestions)
  /\ IsList(results) /\ \A r \in Range(results) : ResultSound(r)

(* What is applied: of a file that is open, or empty already, either the   *)
(* text that was compared is what its developer left, or the save between  *)
(* is lost.                                                                *)
ApplyInv ==
  /\ phase \in {"apply", "open", "fill"} =>
       /\ IsList(todo) /\ Range(todo) \subseteq Range(results)
       /\ \A r \in Range(todo) : Proven(r.suggestions) # <<>>
  /\ phase \in {"open", "fill"} =>
       /\ todo # <<>> /\ ApplyReady(Head(todo))
       /\ compared = <<compared[1], compared[2]>>
       /\ \/ <<DisplayPath(Head(todo)), compared[2]>> \in lost
          \/ /\ compared[2] # None
             /\ Meaning[compared[2]] = Meaning[FirstProven(Head(todo)).from]

(* What is crosschecked: proven pairs, and only they are refuted.          *)
RefuteInv ==
  /\ phase = "refute" =>
       /\ IsList(todo)
       /\ \A s \in Range(todo) : IsProven(s) /\ SoundFor(LoadProjectConstraints(payloads), s)
  /\ refuted # {} => phase \in {"refute", "idle"}

(* The first proven rewriting of a result.                                 *)
LEMMA FirstProvenIsSound ==
  ASSUME NEW catalog, NEW r, AllSound(catalog, r.suggestions), Proven(r.suggestions) # <<>>
  PROVE  /\ FirstProven(r).from \in Text /\ FirstProven(r).to \in Text
         /\ Meaning[FirstProven(r).to] = Meaning[FirstProven(r).from]
<1>1. IsList(Proven(r.suggestions))
      /\ Range(Proven(r.suggestions)) = {x \in Range(r.suggestions) : IsProven(x)}
  BY ProvenRange DEF AllSound
<1>2. FirstProven(r) \in Range(Proven(r.suggestions))
  BY <1>1, EndsOfList DEF FirstProven
<1> QED BY <1>1, <1>2 DEF AllSound, SoundFor

LEMMA TodoIsSound ==
  ASSUME FoundInv, ApplyInv, phase \in {"open", "fill"}
  PROVE  /\ DisplayPath(Head(todo)) \in Model
         /\ FirstProven(Head(todo)).from \in Text /\ FirstProven(Head(todo)).to \in Text
         /\ Meaning[FirstProven(Head(todo)).to] = Meaning[FirstProven(Head(todo)).from]
<1> DEFINE r == Head(todo)
<1>1. r \in Range(todo) /\ ApplyReady(r)
  BY EndsOfList DEF ApplyInv
<1>2. ResultSound(r) /\ Proven(r.suggestions) # <<>>
  BY <1>1 DEF ApplyInv, FoundInv
<1>3. DisplayPath(r) \in Model
  BY <1>1, <1>2 DEF ApplyReady, FromSource, ResultSound
<1> QED BY <1>2, <1>3, FirstProvenIsSound DEF ResultSound

(* The project keeps its shape, whoever writes to it.                      *)
LEMMA ProjectInvKept ==
  ASSUME ProjectInv, FoundInv, ApplyInv, [Next]_vars
  PROVE  ProjectInv'
<1>1. CASE UNCHANGED projectVars
  BY <1>1 DEF ProjectInv, projectVars
<1>2. CASE Edit
  <2>1. ASSUME NEW m \in Model, NEW t \in Saves, Save(m, t) PROVE ProjectInv'
    <3>1. t \in Text \cup {None}
      BY TextsAssumption
    <3> QED BY <2>1, <3>1 DEF Save, ProjectInv
  <2>2. ASSUME NEW f \in SchemaFile, NEW payload \in Payloads, EditSchema(f, payload)
        PROVE  ProjectInv'
    BY <2>2 DEF EditSchema, ProjectInv
  <2> QED BY <1>2, <2>1, <2>2 DEF Edit
<1>3. ASSUME NEW m \in Model, NEW t \in Text, Overwrite(m, t) PROVE ProjectInv'
  BY <1>3 DEF Overwrite, ProjectInv
<1>4. CASE OpenModel
  BY <1>3, <1>4, TodoIsSound, TextsAssumption DEF OpenModel
<1>5. CASE FillModel
  BY <1>3, <1>5, TodoIsSound DEF FillModel
<1> QED BY <1>1, <1>2, <1>4, <1>5 DEF Next, ScanStep, ApplyCheck, vars

(* The steps that only change what comes after the scan.                   *)
Later ==
  \/ Scanned \/ WritePatch \/ WriteReport \/ LoadSchemaAgain \/ Refute \/ Finish \/ Kill
  \/ ApplyCheck \/ OpenModel \/ FillModel

LEMMA StepsOfNext ==
  ASSUME [Next]_vars
  PROVE  \/ \E c \in Commands : Start(c)
         \/ Discover \/ LoadSchema \/ Scan \/ ReadAgain \/ Later \/ UNCHANGED scanVars
  BY DEF Next, ScanStep, Later, vars

LEMMA TargetStays ==
  ASSUME [Next]_vars
  PROVE  target' = target
  BY DEF Next, ScanStep, ApplyCheck, OpenModel, FillModel, Overwrite, Edit, Save, EditSchema,
         vars, projectVars

LEMMA LaterKeeps ==
  ASSUME Later, SchemaInv
  PROVE  /\ UNCHANGED <<command, payloads, left, looked, results>>
         /\ phase' \in {"idle"} \cup HaveRead
         /\ phase' = "model" => phase = "model"
         /\ phase \in HaveRead \/ Kill
<1> USE DEF End, Skip, Overwrite, asking, reading, scanning, writing, past, HaveRead
<1>1. CASE Scanned
  BY <1>1 DEF Scanned
<1>2. CASE WritePatch \/ WriteReport
  BY <1>2 DEF WritePatch, WriteReport
<1>3. CASE LoadSchemaAgain \/ Refute
  BY <1>3 DEF LoadSchemaAgain, Refute
<1>4. CASE Finish \/ Kill
  BY <1>4 DEF Finish, Kill
<1>5. CASE ApplyCheck
  BY <1>5 DEF ApplyCheck
<1>6. CASE OpenModel \/ FillModel
  BY <1>6 DEF OpenModel, FillModel
<1> QED BY <1>1, <1>2, <1>3, <1>4, <1>5, <1>6 DEF Later

LEMMA SchemaInvKept ==
  ASSUME ProjectInv, SchemaInv, FoundInv, [Next]_vars
  PROVE  SchemaInv'
<1> USE DEF asking, reading, scanning, writing, past, HaveRead
<1>1. ASSUME NEW c \in Commands, Start(c) PROVE SchemaInv'
  BY <1>1, CommandsAssumption DEF Start, SchemaInv
<1>2. CASE Discover
  <2>1. CASE End("error")
    BY <1>2, <2>1 DEF Discover, End, SchemaInv
  <2>2. CASE ~ End("error")
    <3>1. /\ phase = "discover" /\ phase' = "schema" /\ unread' = SchemaFiles
          /\ UNCHANGED <<payloads, results>>
          /\ \E d : command' = [command EXCEPT !.dir = d]
      BY <1>2, <2>2 DEF Discover
    <3>2. IsCommand(command')
      BY <3>1 DEF SchemaInv, IsCommand
    <3>3. IsList(unread') /\ Range(unread') = SchemaFile
      BY <3>1, ProjectsAssumption DEF SchemaFile
    <3>4. payloads' = <<>> /\ results' = <<>>
      BY <3>1 DEF SchemaInv, FoundInv
    <3>5. DOMAIN payloads' = {} /\ payloads' \in [DOMAIN payloads' -> Payloads]
      BY <3>4
    <3> QED BY <3>1, <3>2, <3>3, <3>4, <3>5 DEF SchemaInv
  <2> QED BY <2>1, <2>2
<1>3. CASE LoadSchema
  <2>1. phase = "schema" /\ results = <<>> /\ results' = <<>> /\ command' = command
    BY <1>3 DEF LoadSchema, FoundInv
  <2>2. CASE unread = <<>>
    <3>1. phase' = "model" /\ UNCHANGED <<unread, payloads>>
      BY <1>3, <2>2 DEF LoadSchema
    <3>2. Range(unread) = {}
      BY <2>2 DEF Range
    <3>3. payloads \in [SchemaFile -> Payloads]
      BY <2>1, <3>2 DEF SchemaInv
    <3> QED BY <2>1, <3>1, <3>3 DEF SchemaInv
  <2>3. CASE unread # <<>>
    <3>1. /\ payloads' = With(payloads, Head(unread), schema[Head(unread)])
          /\ unread' = Tail(unread) /\ phase' = phase
      BY <1>3, <2>3 DEF LoadSchema
    <3>2. /\ Head(unread) \in Range(unread) /\ IsList(Tail(unread))
          /\ Range(unread) = {Head(unread)} \cup Range(Tail(unread))
      BY <2>1, <2>3, EndsOfList DEF SchemaInv
    <3>3. schema[Head(unread)] \in Payloads
      BY <2>1, <3>2 DEF SchemaInv, ProjectInv
    <3>4. DOMAIN payloads' = DOMAIN payloads \cup {Head(unread)}
          /\ payloads' \in [DOMAIN payloads' -> Payloads]
      BY <2>1, <3>1, <3>3 DEF With, SchemaInv
    <3> QED BY <2>1, <3>1, <3>2, <3>4 DEF SchemaInv
  <2> QED BY <2>2, <2>3
<1>4. CASE Scan
  BY <1>4 DEF Scan, End, SchemaInv
<1>5. CASE ReadAgain
  BY <1>5 DEF ReadAgain, End, SchemaInv
<1>6. CASE Later
  <2>1. /\ UNCHANGED <<command, payloads, results>> /\ phase' \in {"idle"} \cup HaveRead
        /\ phase \in HaveRead \/ Kill
    BY <1>6, LaterKeeps
  <2>2. phase' \in HaveRead => phase \in HaveRead
    BY <2>1 DEF Kill
  <2>3. phase' # "idle" => phase # "idle"
    BY <2>1, <2>2
  <2> QED BY <2>1, <2>2, <2>3 DEF SchemaInv
<1>7. CASE UNCHANGED scanVars
  BY <1>7 DEF scanVars, SchemaInv
<1> QED BY <1>1, <1>2, <1>3, <1>4, <1>5, <1>6, <1>7, StepsOfNext

LEMMA ModelsToScan ==
  ASSUME ProjectInv, NEW dir
  PROVE  IsList(DiscoverModels(dir)) /\ Range(DiscoverModels(dir)) \subseteq ModelsOf(dir)
<1>1. IsList(ModelFiles) /\ IsList(target.files)
  BY ProjectsAssumption DEF ProjectInv
<1>2. CASE dir = None
  BY <1>1, <1>2, AmongRange DEF DiscoverModels, ModelsOf, Model
<1>3. CASE dir # None
  <2> DEFINE S == {f \in Range(target.files) : /\ Below(dir, f)
                                               /\ CompiledRelativePath(dir, f) \in Model
                                               /\ source[CompiledRelativePath(dir, f)] # None}
  <2>1. DiscoverModels(dir) = Among(target.files, S)
    BY <1>3 DEF DiscoverModels
  <2>2. S \subseteq ModelsOf(dir)
    BY <1>3 DEF ModelsOf
  <2> HIDE DEF S
  <2> QED BY <1>1, <2>1, <2>2, AmongRange
<1> QED BY <1>2, <1>3

LEMMA ContentsAreText ==
  ASSUME ProjectInv, NEW m \in ModelsOf(command.dir), ContentsOf(m) # None
  PROVE  ContentsOf(m) \in Text
  BY DEF ContentsOf, ModelsOf, ProjectInv

LEMMA ResultIsSound ==
  ASSUME ProjectInv, SchemaInv, NEW m \in ModelsOf(command.dir), NEW found, NEW rendered,
         AllSound(LoadProjectConstraints(payloads), found.suggestions)
  PROVE  ResultSound(Result(m, found, rendered))
<1> DEFINE r == Result(m, found, rendered)
<1>1. r.suggestions = found.suggestions /\ r.path = m
      /\ r.source = IF command.dir = None THEN m
                    ELSE IF source[CompiledRelativePath(command.dir, m)] # None
                         THEN CompiledRelativePath(command.dir, m) ELSE None
  BY DEF Result
<1>2. r.source = r.path => DisplayPath(r) \in Model
  <2>1. CASE command.dir = None
    BY <1>1, <2>1 DEF DisplayPath, ModelsOf
  <2>2. CASE command.dir # None
    <3>1. m # None /\ CompiledRelativePath(command.dir, m) \in Model
      BY <2>2 DEF ModelsOf, ProjectInv
    <3> QED BY <1>1, <2>2, <3>1 DEF DisplayPath
  <2> QED BY <2>1, <2>2
<1> QED BY <1>1, <1>2 DEF ResultSound

LEMMA FoundInvKept ==
  ASSUME ProjectInv, SchemaInv, FoundInv, [Next]_vars
  PROVE  FoundInv'
<1> USE DEF asking, reading, scanning, writing, past, HaveRead
<1>0. target' = target
  BY TargetStays
<1>1. ASSUME NEW c \in Commands, Start(c) PROVE FoundInv'
  <2>1. phase' \in {"idle", "discover"} /\ results' = <<>> /\ looked' = None
    BY <1>1 DEF Start
  <2>2. IsList(<<>>) /\ Range(<<>>) = {}
    BY DEF IsList, Range
  <2> QED BY <2>1, <2>2 DEF FoundInv
<1>2. CASE Discover
  <2>1. CASE End("error")
    BY <1>2, <2>1 DEF Discover, End, FoundInv, ResultSound
  <2>2. CASE ~ End("error")
    <3>1. PICK dir : /\ command' = [command EXCEPT !.dir = dir]
                     /\ left' = IF only = None THEN DiscoverModels(dir)
                                ELSE Among(DiscoverModels(dir), only)
      BY <1>2, <2>2 DEF Discover
    <3>2. phase = "discover" /\ phase' = "schema" /\ UNCHANGED <<payloads, results, looked>>
      BY <1>2, <2>2 DEF Discover
    <3>3. command'.dir = dir
      BY <3>1, <3>2 DEF SchemaInv, IsCommand
    <3>4. IsList(left') /\ Range(left') \subseteq ModelsOf(dir)
      BY <3>1, ModelsToScan, AmongRange
    <3>5. Range(left') \subseteq ModelsOf(command.dir)'
      BY <1>0, <3>3, <3>4 DEF ModelsOf
    <3>6. results' = <<>> /\ looked' = None
      BY <3>2 DEF FoundInv
    <3> QED BY <3>2, <3>4, <3>5, <3>6 DEF FoundInv, ResultSound
  <2> QED BY <2>1, <2>2
<1>3. CASE LoadSchema
  <2>1. /\ phase = "schema" /\ phase' \in {"schema", "model"}
        /\ UNCHANGED <<command, left, looked, results>>
    BY <1>3 DEF LoadSchema
  <2>2. results = <<>> /\ looked = None /\ Range(results) = {}
    BY <2>1 DEF FoundInv, Range
  <2> QED BY <1>0, <2>1, <2>2 DEF FoundInv, ModelsOf
<1>4. CASE Scan
  <2>1. CASE End("error")
    BY <1>4, <2>1 DEF Scan, End, FoundInv, ResultSound
  <2>2. CASE ~ End("error")
    <3>1. /\ phase = "model" /\ left # <<>> /\ ContentsOf(Head(left)) # None
          /\ UNCHANGED <<command, payloads, phase, results>>
      BY <1>4, <2>2 DEF Scan
    <3>2. /\ IsList(left) /\ Head(left) \in ModelsOf(command.dir)
          /\ IsList(Tail(left)) /\ Range(Tail(left)) \subseteq ModelsOf(command.dir)
      BY <3>1, EndsOfList DEF FoundInv
    <3> DEFINE found == ScanModel(LoadProjectConstraints(payloads), ContentsOf(Head(left)), command)
    <3>3. AllSound(LoadProjectConstraints(payloads), found.suggestions)
      BY <3>1, <3>2, ContentsAreText, ScanIsSound DEF SchemaInv
    <3>4. \/ left' = Tail(left) /\ looked' = looked
          \/ looked' = found /\ left' = left
      BY <1>4, <2>2 DEF Scan
    <3>5. looked = None
      BY <1>4 DEF Scan
    <3> HIDE DEF found
    <3> QED BY <1>0, <3>1, <3>2, <3>3, <3>4, <3>5 DEF FoundInv, ModelsOf, ResultSound
  <2> QED BY <2>1, <2>2
<1>5. CASE ReadAgain
  <2>1. CASE End("error")
    BY <1>5, <2>1 DEF ReadAgain, End, FoundInv, ResultSound
  <2>2. CASE ~ End("error")
    <3>1. /\ phase = "model" /\ looked # None
          /\ UNCHANGED <<command, payloads, phase>>
          /\ left' = Tail(left) /\ looked' = None
          /\ \E rendered : results' = Append(results, Result(Head(left), looked, rendered))
      BY <1>5, <2>2 DEF ReadAgain
    <3>2. left # <<>> /\ AllSound(LoadProjectConstraints(payloads), looked.suggestions)
      BY <3>1 DEF FoundInv
    <3>3. /\ Head(left) \in ModelsOf(command.dir)
          /\ IsList(Tail(left)) /\ Range(Tail(left)) \subseteq ModelsOf(command.dir)
      BY <3>1, <3>2, EndsOfList DEF FoundInv
    <3>4. PICK r : results' = Append(results, r) /\ ResultSound(r)
      BY <3>1, <3>2, <3>3, ResultIsSound
    <3>5. IsList(results') /\ Range(results') = Range(results) \cup {r}
      BY <3>4, OneMore DEF FoundInv
    <3>6. \A x \in Range(results') : ResultSound(x)
      BY <3>4, <3>5 DEF FoundInv
    <3>7. \A x \in Range(results') : ResultSound(x)'
      BY <3>1, <3>6 DEF ResultSound
    <3> QED BY <1>0, <3>1, <3>3, <3>5, <3>7 DEF FoundInv, ModelsOf
  <2> QED BY <2>1, <2>2
<1>6. CASE Later
  <2>1. /\ UNCHANGED <<command, payloads, left, looked, results>>
        /\ phase' \in {"idle"} \cup HaveRead
        /\ phase' = "model" => phase = "model"
    BY <1>6, LaterKeeps
  <2> QED BY <1>0, <2>1 DEF FoundInv, ModelsOf, ResultSound
<1>7. CASE UNCHANGED scanVars
  BY <1>0, <1>7 DEF scanVars, FoundInv, ModelsOf, ResultSound
<1> QED BY <1>1, <1>2, <1>3, <1>4, <1>5, <1>6, <1>7, StepsOfNext

(* Writing: a file is emptied and filled only where the text that was      *)
(* compared, or what its developer saved since, is accounted for.          *)
LEMMA ApplyInvKept ==
  ASSUME ProjectInv, SchemaInv, FoundInv, ApplyInv, ModelFilesKeepMeaning, [Next]_vars
  PROVE  ApplyInv'
<1> USE DEF asking, reading, scanning, writing, past
<1> DEFINE Applying == {"apply", "open", "fill"}
<1>1. ASSUME phase' \notin Applying PROVE ApplyInv'
  BY <1>1 DEF ApplyInv
<1>2. CASE WriteReport
  <2>1. /\ UNCHANGED results /\ phase' \in {"apply", "finish"}
        /\ phase' = "apply" =>
             todo' = Among(results, {r \in Range(results) : Proven(r.suggestions) # <<>>})
    BY <1>2 DEF WriteReport
  <2>2. phase' = "apply" => /\ IsList(todo') /\ Range(todo') \subseteq Range(results)
                            /\ \A r \in Range(todo') : Proven(r.suggestions) # <<>>
    BY <2>1, AmongRange DEF FoundInv
  <2> QED BY <2>1, <2>2 DEF ApplyInv
<1>3. ASSUME UNCHANGED results, todo' = Tail(todo), todo # <<>>, phase' = "apply", phase \in Applying
      PROVE  ApplyInv'
  BY <1>3, EndsOfList DEF ApplyInv
<1>4. CASE ApplyCheck
  <2> DEFINE r == Head(todo)
             p == DisplayPath(r)
  <2>1. phase = "apply" /\ todo # <<>> /\ r \in Range(todo)
    BY <1>4, EndsOfList DEF ApplyCheck, ApplyInv
  <2>2. CASE Skip(r)
    BY <1>3, <2>1, <2>2 DEF Skip
  <2>3. CASE End("error")
    BY <1>1, <2>3 DEF End
  <2>4. CASE ~ Skip(r) /\ ~ End("error")
    <3>1. /\ ApplyReady(r) /\ source[p] # None /\ source[p] = FirstProven(r).from
          /\ phase' = "open" /\ compared' = <<source[p], saved[p]>>
          /\ UNCHANGED <<results, todo, lost>>
      BY <1>4, <2>4 DEF ApplyCheck, StillMatches
    <3>2. ResultSound(r) /\ p \in Model
      BY <2>1, <3>1 DEF ApplyInv, FoundInv, ResultSound, ApplyReady, FromSource
    <3>3. \/ <<p, saved[p]>> \in lost
          \/ saved[p] # None /\ Meaning[saved[p]] = Meaning[source[p]]
      BY <2>1, <3>1, <3>2 DEF ModelFilesKeepMeaning
    <3>4. compared'[2] = saved[p] /\ compared' = <<compared'[1], compared'[2]>>
      BY <3>1
    <3> HIDE DEF p, r
    <3>5. \/ <<p, compared'[2]>> \in lost'
          \/ compared'[2] # None /\ Meaning[compared'[2]] = Meaning[FirstProven(r).from]
      BY <3>1, <3>3, <3>4
    <3>6. todo' = todo /\ phase \in Applying /\ results' = results
      BY <2>1, <3>1
    <3> QED BY <2>1, <3>1, <3>4, <3>5, <3>6 DEF ApplyInv, p, r
  <2> QED BY <2>2, <2>3, <2>4
<1>5. CASE OpenModel
  <2> DEFINE r == Head(todo)
             p == DisplayPath(r)
  <2>1. /\ phase = "open" /\ phase' = "fill" /\ UNCHANGED <<results, todo, saved>>
        /\ compared' = <<Empty, saved[p]>>
        /\ lost' = IF <<source[p], saved[p]>> = compared THEN lost ELSE lost \cup {<<p, saved[p]>>}
    BY <1>5 DEF OpenModel, Overwrite
  <2>2. compared'[2] = saved[p] /\ compared' = <<compared'[1], compared'[2]>>
    BY <2>1
  <2>3. /\ todo # <<>> /\ ApplyReady(r)
        /\ compared = <<compared[1], compared[2]>>
        /\ \/ <<p, compared[2]>> \in lost
           \/ compared[2] # None /\ Meaning[compared[2]] = Meaning[FirstProven(r).from]
    BY <2>1 DEF ApplyInv
  <2> HIDE DEF p, r
  <2>4. \/ <<p, saved[p]>> \in lost'
        \/ saved[p] # None /\ Meaning[saved[p]] = Meaning[FirstProven(r).from]
    <3>1. CASE <<source[p], saved[p]>> = compared
      <4>1. saved[p] = compared[2]
        BY <2>3, <3>1
      <4> QED BY <2>1, <2>3, <3>1, <4>1
    <3>2. CASE <<source[p], saved[p]>> # compared
      BY <2>1, <3>2
    <3> QED BY <3>1, <3>2
  <2> QED BY <2>1, <2>2, <2>3, <2>4 DEF ApplyInv, p, r
<1>6. CASE FillModel
  <2>1. /\ phase = "fill" /\ phase' = "apply" /\ UNCHANGED results /\ todo' = Tail(todo)
    BY <1>6 DEF FillModel
  <2>2. todo # <<>>
    BY <2>1 DEF ApplyInv
  <2> QED BY <1>3, <2>1, <2>2
<1>7. CASE UNCHANGED scanVars
  BY <1>7 DEF scanVars, ApplyInv
<1>8. ASSUME NEW c \in Commands, Start(c) PROVE phase' \notin Applying
  BY <1>8 DEF Start
<1>9. CASE Discover \/ LoadSchema \/ Scan \/ ReadAgain
  BY <1>1, <1>9 DEF Discover, LoadSchema, Scan, ReadAgain, End
<1>10. CASE Scanned \/ LoadSchemaAgain \/ Finish \/ Kill
  BY <1>1, <1>10 DEF Scanned, LoadSchemaAgain, Finish, Kill, End
<1>11. CASE WritePatch \/ Refute
  BY <1>1, <1>11 DEF WritePatch, Refute
<1> QED
  BY <1>1, <1>2, <1>4, <1>5, <1>6, <1>7, <1>8, <1>9, <1>10, <1>11, StepsOfNext DEF Later

(* A file that the command does not write keeps what is said of it, and    *)
(* the file it is filling is not forgotten.                                *)
LEMMA MeaningKept ==
  ASSUME ProjectInv, SchemaInv, FoundInv, ApplyInv, ModelFilesKeepMeaning, [Next]_vars
  PROVE  ModelFilesKeepMeaning'
<1> USE DEF asking, reading, scanning, writing, past
<1>1. ASSUME UNCHANGED <<source, saved>>, lost \subseteq lost',
             phase = "fill" => \/ phase' = "fill" /\ todo' = todo
                               \/ <<DisplayPath(Head(todo)), saved[DisplayPath(Head(todo))]>> \in lost'
      PROVE  ModelFilesKeepMeaning'
  <2> SUFFICES ASSUME NEW m \in Model
               PROVE  \/ <<m, saved[m]>> \in lost'
                      \/ source[m] = saved[m]
                      \/ source[m] = Empty /\ phase' = "fill" /\ DisplayPath(Head(todo')) = m
                      \/ source[m] # None /\ saved[m] # None /\ Meaning[source[m]] = Meaning[saved[m]]
    BY <1>1 DEF ModelFilesKeepMeaning
  <2> QED BY <1>1 DEF ModelFilesKeepMeaning
<1>2. ASSUME phase = "fill",
             UNCHANGED scanVars \/ Later \/ (\E c \in Commands : Start(c)) \/ Discover
             \/ LoadSchema \/ Scan \/ ReadAgain
      PROVE  UNCHANGED scanVars \/ FillModel \/ Kill
  BY <1>2 DEF Later, Start, Discover, LoadSchema, Scan, ReadAgain, Scanned, WritePatch,
              WriteReport, LoadSchemaAgain, Refute, Finish, ApplyCheck, OpenModel
<1>3. CASE Edit /\ UNCHANGED scanVars
  <2>1. UNCHANGED <<phase, lost, todo>>
    BY <1>3 DEF scanVars
  <2>2. ASSUME NEW m \in Model, NEW t \in Saves, Save(m, t) PROVE ModelFilesKeepMeaning'
    <3>1. /\ source'[m] = t /\ saved'[m] = t
          /\ \A n \in Model \ {m} : source'[n] = source[n] /\ saved'[n] = saved[n]
      BY <2>2 DEF Save, ProjectInv
    <3> QED BY <2>1, <3>1 DEF ModelFilesKeepMeaning
  <2>3. ASSUME NEW f \in SchemaFile, NEW payload \in Payloads, EditSchema(f, payload)
        PROVE  ModelFilesKeepMeaning'
    BY <1>1, <2>1, <2>3 DEF EditSchema
  <2> QED BY <1>3, <2>2, <2>3 DEF Edit
<1>4. CASE OpenModel
  <2> DEFINE p == DisplayPath(Head(todo))
  <2>1. /\ phase = "open" /\ phase' = "fill" /\ UNCHANGED <<todo, saved>>
        /\ source' = [source EXCEPT ![p] = Empty] /\ lost \subseteq lost'
    BY <1>4 DEF OpenModel, Overwrite
  <2>2. p \in Model
    BY <2>1, TodoIsSound
  <2>3. source'[p] = Empty /\ \A n \in Model \ {p} : source'[n] = source[n]
    BY <2>1, <2>2 DEF ProjectInv
  <2>4. DisplayPath(Head(todo')) = p
    BY <2>1
  <2> HIDE DEF p
  <2> QED BY <2>1, <2>3, <2>4 DEF ModelFilesKeepMeaning
<1>5. CASE FillModel
  <2> DEFINE r == Head(todo)
             p == DisplayPath(r)
             t == FirstProven(r).to
  <2>1. /\ phase = "fill" /\ UNCHANGED saved
        /\ source' = [source EXCEPT ![p] = t]
        /\ lost' = IF <<source[p], saved[p]>> = compared THEN lost ELSE lost \cup {<<p, saved[p]>>}
    BY <1>5 DEF FillModel, Overwrite
  <2>2. p \in Model /\ t \in Text /\ Meaning[t] = Meaning[FirstProven(r).from]
    BY <2>1, TodoIsSound
  <2>3. source'[p] = t /\ \A n \in Model \ {p} : source'[n] = source[n]
    BY <2>1, <2>2 DEF ProjectInv
  <2>4. /\ compared = <<compared[1], compared[2]>>
        /\ \/ <<p, compared[2]>> \in lost
           \/ compared[2] # None /\ Meaning[compared[2]] = Meaning[FirstProven(r).from]
    BY <2>1 DEF ApplyInv
  <2> HIDE DEF p, t, r
  <2>5. \/ <<p, saved[p]>> \in lost'
        \/ saved[p] # None /\ Meaning[saved[p]] = Meaning[t]
    <3>1. CASE <<source[p], saved[p]>> = compared
      <4>1. saved[p] = compared[2]
        BY <2>4, <3>1
      <4> QED BY <2>1, <2>2, <2>4, <3>1, <4>1
    <3>2. CASE <<source[p], saved[p]>> # compared
      BY <2>1, <3>2
    <3> QED BY <3>1, <3>2
  <2>6. t # None
    BY <2>2, TextsAssumption
  <2>7. lost \subseteq lost'
    BY <2>1
  <2>8. ASSUME NEW n \in Model \ {p}
        PROVE  \/ <<n, saved[n]>> \in lost \/ source[n] = saved[n]
               \/ source[n] # None /\ saved[n] # None /\ Meaning[source[n]] = Meaning[saved[n]]
    BY <2>8 DEF ModelFilesKeepMeaning, p, r
  <2> QED BY <2>1, <2>3, <2>5, <2>6, <2>7, <2>8 DEF ModelFilesKeepMeaning
<1>6. CASE Kill /\ UNCHANGED projectVars
  BY <1>1, <1>6 DEF Kill, projectVars
<1>7. CASE UNCHANGED scanVars /\ UNCHANGED projectVars
  BY <1>1, <1>7 DEF scanVars, projectVars
<1>8. ASSUME UNCHANGED projectVars, ~ Kill, ~ OpenModel, ~ FillModel, ~ UNCHANGED scanVars
      PROVE  ModelFilesKeepMeaning'
  <2>1. \/ \E c \in Commands : Start(c)
        \/ Discover \/ LoadSchema \/ Scan \/ ReadAgain \/ Later
    BY <1>8, StepsOfNext
  <2>2. phase # "fill"
    BY <1>2, <1>8, <2>1
  <2>3. lost' = lost
    BY <1>8, <2>1 DEF Later, Start, Discover, LoadSchema, Scan, ReadAgain, Scanned, WritePatch,
              WriteReport, LoadSchemaAgain, Refute, Finish, ApplyCheck, Skip, End
  <2> QED BY <1>1, <1>8, <2>2, <2>3 DEF projectVars
<1> QED
  BY <1>3, <1>4, <1>5, <1>6, <1>7, <1>8 DEF Next, ScanStep, ApplyCheck, vars

-----------------------------------------------------------------------------
(* crosscheck: what it asks about are pairs that were proven.              *)
LEMMA RefuteInvKept ==
  ASSUME SchemaInv, FoundInv, RefuteInv, [Next]_vars
  PROVE  RefuteInv'
<1> USE DEF asking, reading, scanning, writing, past
<1>1. CASE LoadSchemaAgain
  <2>1. phase = "reread" /\ UNCHANGED <<payloads, results, refuted>> /\ refuted = {}
    BY <1>1 DEF LoadSchemaAgain, RefuteInv
  <2>2. CASE unread # <<>>
    BY <1>1, <2>1, <2>2 DEF LoadSchemaAgain, RefuteInv
  <2>3. CASE unread = <<>>
    <3> DEFINE lists == [i \in DOMAIN results |-> Proven(results[i].suggestions)]
    <3>1. phase' = "refute" /\ todo' = FlattenSeq(lists)
      BY <1>1, <2>3 DEF LoadSchemaAgain
    <3>2. /\ results \in Seq(Range(results)) /\ DOMAIN results = 1 .. Len(results)
          /\ Len(results) \in Nat /\ \A i \in DOMAIN results : results[i] \in Range(results)
      BY ListOf DEF FoundInv, IsList
    <3>3. \A i \in DOMAIN results :
            /\ IsList(lists[i])
            /\ \A s \in Range(lists[i]) :
                 IsProven(s) /\ SoundFor(LoadProjectConstraints(payloads), s)
      <4> TAKE i \in DOMAIN results
      <4>1. AllSound(LoadProjectConstraints(payloads), results[i].suggestions)
        BY <3>2 DEF FoundInv, ResultSound
      <4>2. lists[i] = Proven(results[i].suggestions)
        OBVIOUS
      <4> QED BY <4>1, <4>2, ProvenRange DEF AllSound
    <3>4. lists = [i \in 1 .. Len(results) |-> lists[i]] /\ DOMAIN lists = DOMAIN results
      BY <3>2
    <3> HIDE DEF lists
    <3>5. IsList(lists)
      <4>1. \A i \in 1 .. Len(results) : lists[i] \in Range(lists)
        BY <3>2, <3>4 DEF Range
      <4>2. lists \in Seq(Range(lists))
        BY <3>2, <3>4, <4>1
      <4> QED BY <4>2 DEF IsList
    <3>6. IsList(FlattenSeq(lists))
          /\ \A x \in Range(FlattenSeq(lists)) : \E i \in DOMAIN lists : x \in Range(lists[i])
      BY <3>3, <3>4, <3>5, FlattenRange
    <3>7. \A s \in Range(todo') : IsProven(s) /\ SoundFor(LoadProjectConstraints(payloads), s)
      BY <3>1, <3>3, <3>4, <3>6
    <3> QED BY <2>1, <3>1, <3>6, <3>7 DEF RefuteInv
  <2> QED BY <2>2, <2>3
<1>2. CASE Refute
  <2>1. phase = "refute" /\ phase' = phase /\ todo # <<>> /\ todo' = Tail(todo) /\ UNCHANGED payloads
    BY <1>2 DEF Refute
  <2> QED BY <2>1, EndsOfList DEF RefuteInv
<1>3. ASSUME NEW c \in Commands, Start(c) PROVE RefuteInv'
  BY <1>3 DEF Start, RefuteInv
<1>4. CASE Discover \/ LoadSchema \/ Scan \/ ReadAgain
  BY <1>4 DEF Discover, LoadSchema, Scan, ReadAgain, End, RefuteInv
<1>5. CASE Scanned \/ Finish \/ Kill
  BY <1>5 DEF Scanned, Finish, Kill, End, RefuteInv
<1>6. CASE WritePatch \/ WriteReport
  BY <1>6 DEF WritePatch, WriteReport, RefuteInv
<1>7. CASE ApplyCheck \/ OpenModel \/ FillModel
  BY <1>7 DEF ApplyCheck, Skip, OpenModel, FillModel, Overwrite, End, RefuteInv
<1>8. CASE UNCHANGED scanVars
  BY <1>8 DEF scanVars, RefuteInv
<1> QED BY <1>1, <1>2, <1>3, <1>4, <1>5, <1>6, <1>7, <1>8, StepsOfNext DEF Later

(* What is refuted was trusted under the first reading, so the second one  *)
(* differs, or the refuter does not know the premise.                      *)
LEMMA BlameKept ==
  ASSUME SchemaInv, FoundInv, RefuteInv, CrosscheckBlamesRightly, [Next]_vars
  PROVE  CrosscheckBlamesRightly'
<1> USE DEF asking, reading, scanning, writing, past
<1>1. CASE Refute
  <2> DEFINE s == Head(todo)
  <2>1. phase = "refute" /\ todo # <<>> /\ UNCHANGED <<payloads, reread>>
    BY <1>1 DEF Refute
  <2>2. \/ refuted' = refuted
        \/ refuted' = refuted \cup {s} /\ MayRefute(LoadProjectConstraints(reread), s)
    BY <1>1 DEF Refute
  <2>3. IsProven(s) /\ SoundFor(LoadProjectConstraints(payloads), s)
    BY <2>1, EndsOfList DEF RefuteInv
  <2>4. TrustsAll(LoadProjectConstraints(payloads), s.needs)
    BY <2>3 DEF SoundFor
  <2> HIDE DEF s
  <2>5. ASSUME reread = payloads, MayRefute(LoadProjectConstraints(reread), s)
        PROVE  \E p \in s.needs : p.test = "accepted_values"
    BY <2>4, <2>5 DEF MayRefute, TrustsAll
  <2> QED BY <2>1, <2>2, <2>5 DEF CrosscheckBlamesRightly
<1>2. CASE UNCHANGED <<refuted, payloads, reread>>
  BY <1>2 DEF CrosscheckBlamesRightly
<1>3. ASSUME refuted' = {} PROVE CrosscheckBlamesRightly'
  BY <1>3 DEF CrosscheckBlamesRightly
<1>4. ASSUME NEW c \in Commands, Start(c) PROVE refuted' = {}
  BY <1>4 DEF Start
<1>5. CASE LoadSchema \/ LoadSchemaAgain
  BY <1>3, <1>5 DEF LoadSchema, LoadSchemaAgain, RefuteInv
<1>6. CASE Discover \/ Scan \/ ReadAgain
  BY <1>2, <1>6 DEF Discover, Scan, ReadAgain, End
<1>7. CASE Scanned \/ Finish \/ Kill
  BY <1>2, <1>7 DEF Scanned, Finish, Kill, End
<1>8. CASE WritePatch \/ WriteReport
  BY <1>2, <1>8 DEF WritePatch, WriteReport
<1>9. CASE ApplyCheck \/ OpenModel \/ FillModel
  BY <1>2, <1>9 DEF ApplyCheck, Skip, OpenModel, FillModel, Overwrite, End
<1>10. CASE UNCHANGED scanVars
  BY <1>2, <1>10 DEF scanVars
<1> QED
  BY <1>1, <1>3, <1>4, <1>5, <1>6, <1>7, <1>8, <1>9, <1>10, StepsOfNext DEF Later

-----------------------------------------------------------------------------
ScanInv ==
  ProjectInv /\ SchemaInv /\ FoundInv /\ ApplyInv /\ RefuteInv
  /\ ModelFilesKeepMeaning /\ CrosscheckBlamesRightly

LEMMA ScanInvInit ==
  ASSUME Init
  PROVE  ScanInv
<1> USE DEF Init, ProjectInit, ScanInit
<1>1. PICK p \in Projects : target = p.target /\ source = p.source /\ schema = p.schema
  OBVIOUS
<1>2. ProjectInv
  BY <1>1, ProjectsAssumption DEF ProjectInv
<1>3. IsList(<<>>) /\ Range(<<>>) = {}
  BY DEF IsList, Range
<1>4. SchemaInv /\ FoundInv
  BY <1>3 DEF SchemaInv, FoundInv, HaveRead
<1>5. ApplyInv /\ RefuteInv /\ CrosscheckBlamesRightly
  BY DEF ApplyInv, RefuteInv, CrosscheckBlamesRightly
<1>6. ModelFilesKeepMeaning
  BY DEF ModelFilesKeepMeaning
<1> QED BY <1>2, <1>4, <1>5, <1>6 DEF ScanInv

LEMMA ScanInvKept ==
  ASSUME ScanInv, [Next]_vars
  PROVE  ScanInv'
  BY ProjectInvKept, SchemaInvKept, FoundInvKept, ApplyInvKept, MeaningKept, RefuteInvKept,
     BlameKept DEF ScanInv

(* The invariant of a command that scans, for every project: what it holds *)
(* of files and findings is what was read and what is proven.              *)
THEOREM ScanInvHolds == Spec => []ScanInv
<1>1. Init => ScanInv
  BY ScanInvInit
<1>2. ScanInv /\ [Next]_vars => ScanInv'
  BY ScanInvKept
<1> QED BY <1>1, <1>2, PTL DEF Spec

(* However the developer edits, and wherever a command is killed, a model  *)
(* file means what its developer last saved, except for the two windows    *)
(* that "lost" remembers.                                                  *)
THEOREM PatchesKeepMeaning == Spec => []ModelFilesKeepMeaning
<1>1. ScanInv => ModelFilesKeepMeaning
  BY DEF ScanInv
<1> QED BY <1>1, ScanInvHolds, PTL

(* A refutation by crosscheck is due to a schema file that changed between *)
(* the readings, or to accepted values.                                    *)
THEOREM CrosscheckIsRight == Spec => []CrosscheckBlamesRightly
<1>1. ScanInv => CrosscheckBlamesRightly
  BY DEF ScanInv
<1> QED BY <1>1, ScanInvHolds, PTL

-----------------------------------------------------------------------------
(* What the catalog says of a table rests on tests: every constraint is    *)
(* one that a schema file declares of a relation with that name.           *)
RestsOn(t, relations) ==
  /\ \A c \in DOMAIN t.columns :
       /\ t.columns[c].non_null => TestsOn(relations, c, "not_null") # {}
       /\ t.columns[c].accepted # {} =>
            \E u \in TestsOn(relations, c, "accepted_values") : u.values = t.columns[c].accepted
  /\ t.unique \subseteq KeysOf(relations)
  /\ \A f \in t.foreign :
       \E u \in TestsOn(relations, f[1], "relationships") : Last(u.to) = f[2] /\ u.field = f[3]

LEMMA MoreRelations ==
  ASSUME NEW X, NEW Y, X \subseteq Y
  PROVE  /\ \A c, test : TestsOn(X, c, test) \subseteq TestsOn(Y, c, test)
         /\ KeysOf(X) \subseteq KeysOf(Y)
         /\ \A t : RestsOn(t, X) => RestsOn(t, Y)
<1>1. ColumnsOf(X) \subseteq ColumnsOf(Y)
  BY DEF ColumnsOf
<1>2. ASSUME NEW c, NEW test PROVE TestsOn(X, c, test) \subseteq TestsOn(Y, c, test)
  BY <1>1 DEF TestsOn
<1>3. KeysOf(X) \subseteq KeysOf(Y)
  <2>1. ASSUME NEW key \in KeysOf(X) PROVE key \in KeysOf(Y)
    <3>1. CASE \E c \in ColumnsOf(X) : key = {c.name} /\ TestsOn(X, c.name, "unique") # {}
      <4>1. PICK c \in ColumnsOf(X) : key = {c.name} /\ TestsOn(X, c.name, "unique") # {}
        BY <3>1
      <4>2. c \in ColumnsOf(Y) /\ TestsOn(Y, c.name, "unique") # {}
        BY <1>1, <1>2, <4>1
      <4> QED BY <4>1, <4>2 DEF KeysOf
    <3>2. CASE \E r \in X : \E u \in Range(r.tests) :
                 u.test = "unique_combination_of_columns" /\ key = u.columns
      BY <3>2 DEF KeysOf
    <3> QED BY <2>1, <3>1, <3>2 DEF KeysOf
  <2> QED BY <2>1
<1>4. ASSUME NEW t, RestsOn(t, X) PROVE RestsOn(t, Y)
  BY <1>2, <1>3, <1>4 DEF RestsOn
<1> QED BY <1>2, <1>3, <1>4

(* Merging two declarations of a table makes up no test.                   *)
LEMMA MergeRests ==
  ASSUME NEW left1, NEW right1, NEW X, RestsOn(left1, X), RestsOn(right1, X)
  PROVE  RestsOn(MergeTableConstraints(left1, right1), X)
<1> DEFINE t == MergeTableConstraints(left1, right1)
           l == left1.columns
           r == right1.columns
<1>1. /\ DOMAIN t.columns = DOMAIN l \cup DOMAIN r
      /\ t.unique = left1.unique \cup right1.unique
      /\ t.foreign = left1.foreign \cup right1.foreign
      /\ \A c \in DOMAIN l \cup DOMAIN r : t.columns[c] = MergeColumn(l, r, c)
  BY DEF MergeTableConstraints
<1>2. ASSUME NEW c \in DOMAIN l \cup DOMAIN r
      PROVE  /\ MergeColumn(l, r, c).non_null => \/ c \in DOMAIN l /\ l[c].non_null
                                                 \/ c \in DOMAIN r /\ r[c].non_null
             /\ MergeColumn(l, r, c).accepted # {} =>
                  \/ c \in DOMAIN l /\ MergeColumn(l, r, c).accepted = l[c].accepted
                  \/ c \in DOMAIN r /\ MergeColumn(l, r, c).accepted = r[c].accepted
  BY DEF MergeColumn
<1> HIDE DEF t
<1>3. ASSUME NEW c \in DOMAIN t.columns
      PROVE  /\ t.columns[c].non_null => TestsOn(X, c, "not_null") # {}
             /\ t.columns[c].accepted # {} =>
                  \E u \in TestsOn(X, c, "accepted_values") : u.values = t.columns[c].accepted
  BY <1>1, <1>2 DEF RestsOn
<1>4. t.unique \subseteq KeysOf(X)
  BY <1>1 DEF RestsOn
<1>5. \A f \in t.foreign :
        \E u \in TestsOn(X, f[1], "relationships") : Last(u.to) = f[2] /\ u.field = f[3]
  BY <1>1 DEF RestsOn
<1>6. RestsOn(t, X)
  BY <1>3, <1>4, <1>5 DEF RestsOn
<1> QED BY <1>6 DEF t

(* One relation.                                                           *)
LEMMA RelationRests ==
  ASSUME NEW r, IsList(r.columns), \A c \in Range(r.columns) : IsList(c.tests)
  PROVE  RestsOn(ConstraintsForRelation(r), {r})
<1> DEFINE X == {r}
           t == ConstraintsForRelation(r)
           Later1(name) == CHOOSE i \in DOMAIN r.columns :
                             r.columns[i].name = name /\ \A j \in DOMAIN r.columns :
                                                           r.columns[j].name = name => j <= i
<1>1. /\ DOMAIN t.columns = {c.name : c \in Range(r.columns)}
      /\ \A name \in DOMAIN t.columns : t.columns[name] = ColumnConstraint(r.columns[Later1(name)])
  BY DEF ConstraintsForRelation
<1>2. /\ t.unique = {{c.name} : c \in {d \in Range(r.columns) : "unique" \in TestNames(d.tests)}}
                    \cup {u.columns : u \in {v \in Range(r.tests) :
                                               v.test = "unique_combination_of_columns"}}
      /\ t.foreign = UNION {{<<c.name, RelationshipTable(u.to), u.field>> :
                               u \in {v \in Range(c.tests) : v.test = "relationships"}}
                            : c \in Range(r.columns)}
  BY DEF ConstraintsForRelation
<1>3. ColumnsOf(X) = Range(r.columns)
  BY DEF ColumnsOf
<1> HIDE DEF t, X
<1>4. ASSUME NEW c \in Range(r.columns), NEW test, test \in TestNames(c.tests)
      PROVE  TestsOn(X, c.name, test) # {}
  BY <1>3, <1>4 DEF TestsOn, TestNames, Range
<1>5. ASSUME NEW name \in DOMAIN t.columns
      PROVE  \E c \in Range(r.columns) : c.name = name /\ t.columns[name] = ColumnConstraint(c)
  <2> DEFINE S == {i \in DOMAIN r.columns : r.columns[i].name = name}
  <2>1. DOMAIN r.columns = 1 .. Len(r.columns) /\ Len(r.columns) \in Nat
    BY ListOf DEF IsList
  <2>2. S # {} /\ S \subseteq 1 .. Len(r.columns)
    BY <1>1, <2>1 DEF Range
  <2>3. \E i \in S : \A j \in S : j <= i
    BY <2>1, <2>2, GreatestNumber
  <2>4. Later1(name) \in DOMAIN r.columns /\ r.columns[Later1(name)].name = name
    BY <2>3
  <2> QED BY <1>1, <2>4 DEF Range
<1>6. ASSUME NEW name \in DOMAIN t.columns
      PROVE  /\ t.columns[name].non_null => TestsOn(X, name, "not_null") # {}
             /\ t.columns[name].accepted # {} =>
                  \E u \in TestsOn(X, name, "accepted_values") : u.values = t.columns[name].accepted
  <2>1. PICK c \in Range(r.columns) : c.name = name /\ t.columns[name] = ColumnConstraint(c)
    BY <1>5
  <2>2. t.columns[name].non_null => "not_null" \in TestNames(c.tests)
    <3>1. ColumnConstraint(c).non_null <=> "not_null" \in TestNames(c.tests)
      BY DEF ColumnConstraint
    <3> QED BY <2>1, <3>1
  <2>3. t.columns[name].accepted = ColumnAccepted(c.tests)
    BY <2>1 DEF ColumnConstraint
  <2> DEFINE S == {u \in Range(c.tests) : u.test = "accepted_values"}
             found == Among(c.tests, S)
  <2>4. ASSUME ColumnAccepted(c.tests) # {}
        PROVE  \E u \in S : u.values = ColumnAccepted(c.tests)
    <3>1. found # <<>> /\ ColumnAccepted(c.tests) = Head(found).values
      BY <2>4 DEF ColumnAccepted
    <3>2. Head(found) \in S
      <4>1. IsList(found) /\ Range(found) = Range(c.tests) \cap S
        BY AmongRange
      <4> HIDE DEF found
      <4> QED BY <3>1, <4>1, EndsOfList
    <3> QED BY <3>1, <3>2
  <2>5. \A u \in S : u \in TestsOn(X, name, "accepted_values")
    BY <1>3, <2>1 DEF TestsOn
  <2> QED BY <1>4, <2>1, <2>2, <2>3, <2>4, <2>5
<1>7. ASSUME NEW key \in t.unique PROVE key \in KeysOf(X)
  <2>1. CASE \E c \in Range(r.columns) : "unique" \in TestNames(c.tests) /\ key = {c.name}
    BY <1>3, <1>4, <2>1 DEF KeysOf
  <2>2. CASE \E u \in Range(r.tests) : u.test = "unique_combination_of_columns" /\ key = u.columns
    BY <2>2 DEF KeysOf, X
  <2> QED BY <1>2, <1>7, <2>1, <2>2
<1>8. ASSUME NEW f \in t.foreign
      PROVE  \E u \in TestsOn(X, f[1], "relationships") : Last(u.to) = f[2] /\ u.field = f[3]
  <2>0. PICK c \in Range(r.columns) : \E u \in Range(c.tests) :
          u.test = "relationships" /\ f = <<c.name, RelationshipTable(u.to), u.field>>
    BY <1>2, <1>8
  <2>1. PICK u \in Range(c.tests) :
          u.test = "relationships" /\ f = <<c.name, RelationshipTable(u.to), u.field>>
    BY <2>0
  <2>2. u \in TestsOn(X, c.name, "relationships")
    BY <1>3, <2>1 DEF TestsOn
  <2> QED BY <2>1, <2>2 DEF RelationshipTable
<1>9. RestsOn(t, X)
  BY <1>6, <1>7, <1>8 DEF RestsOn
<1> QED BY <1>9 DEF t, X

(* One schema file: its relations are added one after the other.           *)
Adding(payload, tables, n) ==
  tables = [i \in 0 .. n |->
              IF i = 0 THEN <<>>
              ELSE AddTable(tables[i - 1], payload[i].name, ConstraintsForRelation(payload[i]))]

LEMMA AddingExists ==
  ASSUME NEW payload, NEW n \in Nat
  PROVE  \E tables : Adding(payload, tables, n)
<1> DEFINE Good == {m \in Nat : \E tables : Adding(payload, tables, m)}
           Next1(i, before) == AddTable(before, payload[i].name, ConstraintsForRelation(payload[i]))
<1> HIDE DEF Next1
<1>1. 0 \in Good
  <2>1. Adding(payload, [i \in 0 .. 0 |-> <<>>], 0)
    BY DEF Adding
  <2> QED BY <2>1
<1>2. ASSUME NEW m \in Nat, m \in Good PROVE m + 1 \in Good
  <2>1. PICK tables : Adding(payload, tables, m)
    BY <1>2
  <2> DEFINE more == [i \in 0 .. m + 1 |-> IF i <= m THEN tables[i] ELSE Next1(i, tables[i - 1])]
  <2>2. \A i \in 0 .. m : tables[i] = IF i = 0 THEN <<>> ELSE Next1(i, tables[i - 1])
    BY <2>1 DEF Adding, Next1
  <2>3. \A i \in 0 .. m : more[i] = tables[i]
    OBVIOUS
  <2>4. more[m + 1] = Next1(m + 1, more[m])
    BY <2>3
  <2>5. more = [i \in 0 .. m + 1 |-> more[i]]
    OBVIOUS
  <2> HIDE DEF more
  <2>6. \A i \in 0 .. m + 1 : more[i] = IF i = 0 THEN <<>> ELSE Next1(i, more[i - 1])
    <3> TAKE i \in 0 .. m + 1
    <3>1. CASE i = m + 1
      BY <3>1, <2>4
    <3>2. CASE i \in 0 .. m
      <4>1. i = 0 \/ i - 1 \in 0 .. m
        BY <3>2
      <4> QED BY <3>2, <4>1, <2>2, <2>3
    <3> QED BY <3>1, <3>2
  <2>7. Adding(payload, more, m + 1)
    BY <2>5, <2>6 DEF Adding, Next1
  <2> QED BY <2>7
<1> HIDE DEF Good
<1>3. Nat \subseteq Good
  BY <1>1, <1>2, Induction
<1> QED BY <1>3 DEF Good

LEMMA FileRests ==
  ASSUME NEW payload, IsList(payload),
         \A r \in Range(payload) : IsList(r.columns) /\ \A c \in Range(r.columns) : IsList(c.tests),
         NEW name, name \in DOMAIN LoadDbtConstraints(payload)
  PROVE  RestsOn(LoadDbtConstraints(payload)[name], {r \in Range(payload) : r.name = name})
<1> DEFINE tables  == CHOOSE tables : Adding(payload, tables, Len(payload))
           Of(n)   == {r \in Range(payload) : r.name = n}
           Rest(i) == \A n \in DOMAIN tables[i] : RestsOn(tables[i][n], Of(n))
           Good    == {i \in Nat : i <= Len(payload) => Rest(i)}
<1>1. payload \in Seq(Range(payload)) /\ Len(payload) \in Nat /\ DOMAIN payload = 1 .. Len(payload)
      /\ \A i \in DOMAIN payload : payload[i] \in Range(payload)
  BY ListOf DEF IsList
<1>2. Adding(payload, tables, Len(payload))
  BY <1>1, AddingExists
<1>3. LoadDbtConstraints(payload) = tables[Len(payload)]
  BY DEF LoadDbtConstraints, Adding
<1> HIDE DEF tables
<1>4. /\ tables[0] = <<>>
      /\ \A i \in 1 .. Len(payload) :
           tables[i] = AddTable(tables[i - 1], payload[i].name, ConstraintsForRelation(payload[i]))
  BY <1>1, <1>2 DEF Adding
<1>5. 0 \in Good
  BY <1>4
<1>6. ASSUME NEW i \in Nat, i \in Good PROVE i + 1 \in Good
  <2> HIDE DEF Rest
  <2> SUFFICES ASSUME i + 1 <= Len(payload) PROVE Rest(i + 1)
    OBVIOUS
  <2>0. i <= Len(payload) => Rest(i)
    BY <1>6
  <2> USE DEF Rest
  <2> TAKE n \in DOMAIN tables[i + 1]
  <2> DEFINE r == payload[i + 1]
             t == ConstraintsForRelation(r)
  <2>1. i + 1 \in 1 .. Len(payload) /\ i + 1 - 1 = i /\ i <= Len(payload)
    BY <1>1
  <2>2. tables[i + 1] = AddTable(tables[i], r.name, t)
    <3>1. \A k \in 1 .. Len(payload) : k - 1 = i =>
            tables[k] = AddTable(tables[i], payload[k].name, ConstraintsForRelation(payload[k]))
      BY <1>1, <1>4
    <3> QED BY <2>1, <3>1
  <2>3. r \in Range(payload) /\ r \in Of(r.name)
    BY <1>1, <2>1
  <2>4. RestsOn(t, Of(r.name))
    <3>1. RestsOn(t, {r})
      BY <2>3, RelationRests
    <3>2. {r} \subseteq Of(r.name)
      BY <2>3
    <3> HIDE DEF t, r, Of
    <3> QED BY <3>1, <3>2, MoreRelations
  <2>5. \A x \in DOMAIN tables[i] : RestsOn(tables[i][x], Of(x))
    BY <2>0, <2>1
  <2> HIDE DEF t, Of, Good, r
  <2>6. tables[i + 1] = [x \in DOMAIN tables[i] \cup {r.name} |->
                           IF x = r.name
                           THEN IF r.name \in DOMAIN tables[i]
                                THEN MergeTableConstraints(tables[i][r.name], t) ELSE t
                           ELSE tables[i][x]]
    BY <2>2 DEF AddTable, With
  <2>7. n \in DOMAIN tables[i] \cup {r.name}
    BY <2>6
  <2>8. CASE n # r.name
    BY <2>5, <2>6, <2>7, <2>8
  <2>9. CASE n = r.name /\ r.name \notin DOMAIN tables[i]
    BY <2>4, <2>6, <2>9
  <2>10. CASE n = r.name /\ r.name \in DOMAIN tables[i]
    <3>1. tables[i + 1][n] = MergeTableConstraints(tables[i][n], t)
      BY <2>6, <2>10
    <3>2. RestsOn(tables[i][n], Of(n)) /\ RestsOn(t, Of(n))
      BY <2>4, <2>5, <2>10
    <3> QED BY <3>1, <3>2, MergeRests
  <2> QED BY <2>8, <2>9, <2>10
<1> HIDE DEF Good
<1>7. Len(payload) \in Good
  BY <1>1, <1>5, <1>6, Induction
<1>8. \A n \in DOMAIN tables[Len(payload)] : RestsOn(tables[Len(payload)][n], Of(n))
  <2>1. Len(payload) <= Len(payload)
    BY <1>1
  <2> QED BY <1>7, <2>1 DEF Good
<1>9. RestsOn(tables[Len(payload)][name], Of(name))
  BY <1>3, <1>8
<1> QED BY <1>3, <1>9

(* All schema files: their catalogs are merged one after the other.        *)
Merging(said, tables, n) ==
  tables = [i \in 0 .. n |->
              IF i = 0 THEN <<>>
              ELSE MergeCatalogs(tables[i - 1], LoadDbtConstraints(said[SchemaFiles[i]]))]

LEMMA MergingExists ==
  ASSUME NEW said, NEW n \in Nat
  PROVE  \E tables : Merging(said, tables, n)
<1> DEFINE Good == {m \in Nat : \E tables : Merging(said, tables, m)}
           Next1(i, before) == MergeCatalogs(before, LoadDbtConstraints(said[SchemaFiles[i]]))
<1> HIDE DEF Next1
<1>1. 0 \in Good
  <2>1. Merging(said, [i \in 0 .. 0 |-> <<>>], 0)
    BY DEF Merging
  <2> QED BY <2>1
<1>2. ASSUME NEW m \in Nat, m \in Good PROVE m + 1 \in Good
  <2>1. PICK tables : Merging(said, tables, m)
    BY <1>2
  <2> DEFINE more == [i \in 0 .. m + 1 |-> IF i <= m THEN tables[i] ELSE Next1(i, tables[i - 1])]
  <2>2. \A i \in 0 .. m : tables[i] = IF i = 0 THEN <<>> ELSE Next1(i, tables[i - 1])
    BY <2>1 DEF Merging, Next1
  <2>3. \A i \in 0 .. m : more[i] = tables[i]
    OBVIOUS
  <2>4. more[m + 1] = Next1(m + 1, more[m])
    BY <2>3
  <2>5. more = [i \in 0 .. m + 1 |-> more[i]]
    OBVIOUS
  <2> HIDE DEF more
  <2>6. \A i \in 0 .. m + 1 : more[i] = IF i = 0 THEN <<>> ELSE Next1(i, more[i - 1])
    <3> TAKE i \in 0 .. m + 1
    <3>1. CASE i = m + 1
      BY <3>1, <2>4
    <3>2. CASE i \in 0 .. m
      <4>1. i = 0 \/ i - 1 \in 0 .. m
        BY <3>2
      <4> QED BY <3>2, <4>1, <2>2, <2>3
    <3> QED BY <3>1, <3>2
  <2>7. Merging(said, more, m + 1)
    BY <2>5, <2>6 DEF Merging, Next1
  <2> QED BY <2>7
<1> HIDE DEF Good
<1>3. Nat \subseteq Good
  BY <1>1, <1>2, Induction
<1> QED BY <1>3 DEF Good

SaidIn(said, name) == UNION {{r \in Range(said[f]) : r.name = name} : f \in SchemaFile}

LEMMA CatalogRests ==
  ASSUME NEW said \in [SchemaFile -> Payloads],
         NEW name, name \in DOMAIN LoadProjectConstraints(said)
  PROVE  RestsOn(LoadProjectConstraints(said)[name], SaidIn(said, name))
<1> DEFINE tables  == CHOOSE tables : Merging(said, tables, Len(SchemaFiles))
           Rest(i) == \A n \in DOMAIN tables[i] : RestsOn(tables[i][n], SaidIn(said, n))
           Good    == {i \in Nat : i <= Len(SchemaFiles) => Rest(i)}
<1>1. Len(SchemaFiles) \in Nat
      /\ \A i \in 1 .. Len(SchemaFiles) : SchemaFiles[i] \in SchemaFile
  <2>1. SchemaFiles \in Seq(Range(SchemaFiles))
    BY ProjectsAssumption DEF IsList
  <2> QED BY <2>1, ListOf DEF SchemaFile
<1>2. Merging(said, tables, Len(SchemaFiles))
  BY <1>1, MergingExists
<1>3. LoadProjectConstraints(said) = tables[Len(SchemaFiles)]
  BY DEF LoadProjectConstraints, Merging
<1> HIDE DEF tables
<1>4. /\ tables[0] = <<>>
      /\ \A i \in 1 .. Len(SchemaFiles) :
           tables[i] = MergeCatalogs(tables[i - 1], LoadDbtConstraints(said[SchemaFiles[i]]))
  BY <1>1, <1>2 DEF Merging
<1>5. 0 \in Good
  BY <1>4
<1>6. ASSUME NEW i \in Nat, i \in Good PROVE i + 1 \in Good
  <2> HIDE DEF Rest
  <2> SUFFICES ASSUME i + 1 <= Len(SchemaFiles) PROVE Rest(i + 1)
    OBVIOUS
  <2>0. i <= Len(SchemaFiles) => Rest(i)
    BY <1>6
  <2> USE DEF Rest
  <2> TAKE n \in DOMAIN tables[i + 1]
  <2> DEFINE f == SchemaFiles[i + 1]
             catalog == LoadDbtConstraints(said[f])
  <2>1. i + 1 \in 1 .. Len(SchemaFiles) /\ i + 1 - 1 = i /\ i <= Len(SchemaFiles)
    BY <1>1
  <2>2. tables[i + 1] = MergeCatalogs(tables[i], catalog)
    <3>1. \A k \in 1 .. Len(SchemaFiles) : k - 1 = i =>
            tables[k] = MergeCatalogs(tables[i], LoadDbtConstraints(said[SchemaFiles[k]]))
      BY <1>1, <1>4
    <3> QED BY <2>1, <3>1
  <2>3. f \in SchemaFile /\ said[f] \in Payloads
    BY <1>1, <2>1
  <2>4. ASSUME NEW x \in DOMAIN catalog PROVE RestsOn(catalog[x], SaidIn(said, x))
    <3>1. /\ IsList(said[f])
          /\ \A r \in Range(said[f]) :
               IsList(r.columns) /\ \A c \in Range(r.columns) : IsList(c.tests)
      BY <2>3, ProjectsAssumption
    <3>2. RestsOn(catalog[x], {r \in Range(said[f]) : r.name = x})
      BY <2>4, <3>1, FileRests
    <3>3. {r \in Range(said[f]) : r.name = x} \subseteq SaidIn(said, x)
      BY <2>3 DEF SaidIn
    <3> HIDE DEF catalog, f
    <3> QED BY <3>2, <3>3, MoreRelations
  <2>5. \A x \in DOMAIN tables[i] : RestsOn(tables[i][x], SaidIn(said, x))
    BY <2>0, <2>1
  <2> HIDE DEF f, catalog, Good
  <2>6. /\ n \in DOMAIN tables[i] \cup DOMAIN catalog
        /\ tables[i + 1][n] = IF n \notin DOMAIN catalog THEN tables[i][n]
                              ELSE IF n \notin DOMAIN tables[i] THEN catalog[n]
                              ELSE MergeTableConstraints(tables[i][n], catalog[n])
    BY <2>2 DEF MergeCatalogs
  <2>7. CASE n \notin DOMAIN catalog
    BY <2>5, <2>6, <2>7
  <2>8. CASE n \in DOMAIN catalog /\ n \notin DOMAIN tables[i]
    BY <2>4, <2>6, <2>8
  <2>9. CASE n \in DOMAIN catalog /\ n \in DOMAIN tables[i]
    <3>1. tables[i + 1][n] = MergeTableConstraints(tables[i][n], catalog[n])
      BY <2>6, <2>9
    <3> QED BY <2>4, <2>5, <2>9, <3>1, MergeRests
  <2> QED BY <2>7, <2>8, <2>9
<1> HIDE DEF Good
<1>7. Len(SchemaFiles) \in Good
  BY <1>1, <1>5, <1>6, Induction
<1>8. \A n \in DOMAIN tables[Len(SchemaFiles)] :
        RestsOn(tables[Len(SchemaFiles)][n], SaidIn(said, n))
  <2>1. Len(SchemaFiles) <= Len(SchemaFiles)
    BY <1>1
  <2> QED BY <1>7, <2>1 DEF Good
<1> QED BY <1>3, <1>8

(* What the catalog lets a rule assume is declared.                        *)
LEMMA TrustedIsDeclared ==
  ASSUME NEW catalog, NEW p, p.test \in Tests, Trusts(catalog, p),
         NEW X, RestsOn(catalog[Last(p.table)], X)
  PROVE  DeclaredOn(X, p)
<1> DEFINE t == catalog[Last(p.table)]
<1> HIDE DEF t
<1>1. CASE p.test = "not_null"
  <2>1. p.column \in DOMAIN t.columns /\ t.columns[p.column].non_null
    BY <1>1 DEF Trusts, t
  <2> QED BY <1>1, <2>1 DEF DeclaredOn, RestsOn, t
<1>2. CASE p.test = "accepted_values"
  <2>1. /\ p.column \in DOMAIN t.columns /\ t.columns[p.column].accepted # {}
        /\ t.columns[p.column].accepted \subseteq p.values
    BY <1>2 DEF Trusts, t
  <2>2. \E u \in TestsOn(X, p.column, "accepted_values") :
          u.values = t.columns[p.column].accepted
    BY <2>1 DEF RestsOn, t
  <2> QED BY <1>2, <2>1, <2>2 DEF DeclaredOn
<1>3. CASE p.test = "unique"
  <2>1. \E key \in t.unique : key \subseteq p.columns
    BY <1>3 DEF Trusts, t
  <2>2. t.unique \subseteq KeysOf(X)
    BY DEF RestsOn, t
  <2> QED BY <1>3, <2>1, <2>2 DEF DeclaredOn
<1>4. CASE p.test = "key"
  <2>1. \E key \in t.unique : key \subseteq p.columns /\ \A c \in key : c \in DOMAIN t.columns
                                                                      /\ t.columns[c].non_null
    BY <1>4 DEF Trusts, t
  <2>2. /\ t.unique \subseteq KeysOf(X)
        /\ \A c \in DOMAIN t.columns : t.columns[c].non_null => TestsOn(X, c, "not_null") # {}
    BY DEF RestsOn, t
  <2> QED BY <1>4, <2>1, <2>2 DEF DeclaredOn
<1>5. CASE p.test = "relationships"
  <2>1. <<p.column, p.ref, p.field>> \in t.foreign
    BY <1>5 DEF Trusts, t
  <2>2. \E u \in TestsOn(X, p.column, "relationships") : Last(u.to) = p.ref /\ u.field = p.field
    BY <2>1 DEF RestsOn, t
  <2> QED BY <1>5, <2>2 DEF DeclaredOn
<1> QED BY <1>1, <1>2, <1>3, <1>4, <1>5 DEF Tests

(* Every finding that is called proven rests on tests that a schema file   *)
(* declares, whatever the files say and in whichever order they are read.  *)
THEOREM ScanRestsOnTests == Spec => []FindingsRestOnTests
<1>1. ASSUME ScanInv, NEW i \in DOMAIN results, NEW s \in Range(results[i].suggestions),
             IsProven(s), NEW p \in s.needs
      PROVE  DeclaredOn(Said(Last(p.table)), p)
  <2> DEFINE catalog == LoadProjectConstraints(payloads)
             name    == Last(p.table)
  <2>1. results[i] \in Range(results) /\ results # <<>>
    BY DEF Range
  <2>2. payloads \in [SchemaFile -> Payloads] /\ ResultSound(results[i])
    BY <1>1, <2>1 DEF ScanInv, SchemaInv, FoundInv
  <2>3. SoundFor(catalog, s)
    BY <2>2 DEF ResultSound, AllSound
  <2>4. Trusts(catalog, p) /\ p.test \in Tests
    BY <1>1, <2>3 DEF SoundFor, TrustsAll
  <2>5. name \in DOMAIN catalog
    BY <2>4 DEF Trusts
  <2>6. RestsOn(catalog[name], SaidIn(payloads, name))
    BY <2>2, <2>5, CatalogRests
  <2>7. Said(name) = SaidIn(payloads, name)
    BY <2>2 DEF Said, SaidIn
  <2> HIDE DEF catalog
  <2> QED BY <2>4, <2>6, <2>7, TrustedIsDeclared
<1>2. ScanInv => FindingsRestOnTests
  BY <1>1 DEF FindingsRestOnTests
<1> QED BY <1>2, ScanInvHolds, PTL

-----------------------------------------------------------------------------
(* A scan with --apply-patches that is left alone: what its findings start *)
(* from is in their files until they are written, each file once.          *)
Alone == phase # "idle" /\ saves = 0 /\ command.then = "apply"

Apart(s) == \A i, j \in DOMAIN s : s[i].path = s[j].path => i = j
Matches(r) == source[r.path] = FirstProven(r).from

(* Before the report: the models are scanned one after the other.          *)
ScanAlone ==
  /\ phase \in {"schema", "model"} => IsInjective(left)
  /\ phase = "model" =>
       /\ \A r \in Range(results) : r.path \notin Range(left)
       /\ looked # None =>
            \A s \in Range(looked.suggestions) :
              IsProven(s) => s.from = Preprocess(source[Head(left)]).sql
  /\ phase \in {"model", "report"} =>
       Apart(results) /\ \A r \in Range(results) : ApplyReady(r) => Matches(r)

(* After it: what is ready waits, is being written, or is written.         *)
Pending(r) == r \in Range(todo) /\ (Matches(r) \/ (phase = "fill" /\ r = Head(todo)))
Done(r) ==
  /\ \E j \in DOMAIN applied : applied[j].path = DisplayPath(r) /\ applied[j].applied
  /\ source[r.path] = FirstProven(r).to
  /\ \A q \in Range(todo) : q.path # r.path

Applying == {"apply", "open", "fill"}
ApplyAlone ==
  phase \in Applying =>
    Apart(todo) /\ \A r \in Range(results) : ApplyReady(r) => Pending(r) \/ Done(r)

AskedAlone ==
  /\ phase \in {"discover", "schema", "model", "report"} \cup Applying
  /\ phase \notin Applying => report = None
  /\ command.kind = "scan" /\ ~ command.chain
  /\ IsList(applied)
  /\ phase = "model" /\ looked # None => looked.chain = None
  /\ \A r \in Range(results) : r.chain = None /\ r.compiled = (command.dir # None)

AloneInv ==
  /\ saves \in Nat
  /\ Alone => AskedAlone /\ (command.dir = None => ScanAlone /\ ApplyAlone)

LEMMA InjectiveSelections ==
  ASSUME NEW s, IsList(s), IsInjective(s)
  PROVE  /\ \A S : IsInjective(Among(s, S))
         /\ s # <<>> => IsInjective(Tail(s)) /\ Head(s) \notin Range(Tail(s))
<1>1. ASSUME NEW S PROVE IsInjective(Among(s, S))
  BY AmongSource DEF IsInjective
<1>2. ASSUME s # <<>> PROVE IsInjective(Tail(s)) /\ Head(s) \notin Range(Tail(s))
  BY <1>2, TailPlaces DEF IsInjective, Range
<1> QED BY <1>1, <1>2

LEMMA ApartSelections ==
  ASSUME NEW s, IsList(s), Apart(s)
  PROVE  /\ \A S : Apart(Among(s, S))
         /\ s # <<>> => Apart(Tail(s)) /\ \A q \in Range(Tail(s)) : q.path # Head(s).path
         /\ \A r : (\A q \in Range(s) : q.path # r.path) => Apart(Append(s, r))
<1>1. ASSUME NEW S PROVE Apart(Among(s, S))
  BY AmongSource DEF Apart
<1>2. ASSUME s # <<>> PROVE Apart(Tail(s)) /\ \A q \in Range(Tail(s)) : q.path # Head(s).path
  <2>1. Apart(Tail(s))
    BY <1>2, TailPlaces DEF Apart
  <2>2. ASSUME NEW q \in Range(Tail(s)) PROVE q.path # Head(s).path
    <3>1. PICK i \in DOMAIN Tail(s) : Tail(s)[i] = q
      BY DEF Range
    <3> QED BY <1>2, <3>1, TailPlaces DEF Apart
  <2> QED BY <2>1, <2>2
<1>3. ASSUME NEW r, \A q \in Range(s) : q.path # r.path PROVE Apart(Append(s, r))
  <2>1. \A i \in DOMAIN s : s[i].path # r.path
    BY <1>3 DEF Range
  <2> QED BY <2>1, AppendPlaces DEF Apart
<1> QED BY <1>1, <1>2, <1>3

(* The steps of a scan that is left alone.                                 *)
LEMMA AloneSteps ==
  ASSUME SchemaInv, AloneInv, [Next]_vars, Alone'
  PROVE  \/ UNCHANGED projectVars /\ \E c \in Commands : Start(c)
         \/ /\ Alone /\ UNCHANGED projectVars
            /\ \/ Discover \/ LoadSchema \/ Scan \/ ReadAgain \/ Scanned \/ WriteReport
               \/ ApplyCheck \/ UNCHANGED scanVars
         \/ Alone /\ (OpenModel \/ FillModel)
<1> USE DEF asking, reading, scanning, writing, past
<1>1. ~ Edit
  BY DEF Edit, Save, EditSchema, Alone, AloneInv
<1>2. CASE UNCHANGED vars
  BY <1>2 DEF vars, projectVars, scanVars, Alone
<1>3. CASE UNCHANGED projectVars /\ \E c \in Commands : Start(c)
  BY <1>3
<1>4. ASSUME Alone PROVE AskedAlone
  BY <1>4 DEF AloneInv
<1>5. ASSUME Discover \/ LoadSchema \/ Scan \/ ReadAgain \/ Later, saves' = saves PROVE Alone
  <2>1. CASE Discover
    <3>1. phase = "discover"
      BY <2>1 DEF Discover
    <3>2. command'.then = command.then
      BY <2>1, <3>1 DEF Discover, End, SchemaInv, IsCommand
    <3> QED BY <1>5, <3>1, <3>2 DEF Alone
  <2>2. CASE LoadSchema \/ Scan \/ ReadAgain
    BY <1>5, <2>2 DEF LoadSchema, Scan, ReadAgain, End, Alone
  <2>3. CASE Later
    <3>1. command' = command /\ (phase \in HaveRead \/ Kill)
      BY <2>3, LaterKeeps
    <3> QED BY <1>5, <3>1 DEF Alone, HaveRead, Kill
  <2> QED BY <1>5, <2>1, <2>2, <2>3
<1>6. ~ Finish /\ ~ Kill
  BY DEF Finish, Kill, End, Alone
<1>7. Alone => ~ WritePatch /\ ~ LoadSchemaAgain /\ ~ Refute
  BY <1>4 DEF WritePatch, LoadSchemaAgain, Refute, AskedAlone, Applying
<1>8. CASE ScanStep
  <2>1. CASE OpenModel \/ FillModel
    <3>1. saves' = saves
      BY <2>1 DEF OpenModel, FillModel, Overwrite
    <3> QED BY <1>5, <2>1, <3>1 DEF Later
  <2>2. CASE UNCHANGED projectVars
    <3>1. saves' = saves
      BY <2>2 DEF projectVars
    <3> QED BY <1>3, <1>5, <1>6, <1>7, <1>8, <2>1, <2>2, <3>1 DEF ScanStep, Later
  <2> QED BY <1>8, <2>1, <2>2 DEF ScanStep, ApplyCheck
<1> QED BY <1>1, <1>2, <1>8 DEF Next

LEMMA AskedAloneKept ==
  ASSUME SchemaInv, FoundInv, AloneInv, [Next]_vars, Alone'
  PROVE  AskedAlone'
<1> USE DEF asking, reading, scanning, writing, past, Applying
<1>1. ASSUME NEW c \in Commands, Start(c) PROVE AskedAlone'
  <2>1. /\ phase' = "discover" /\ command' = c /\ ~ Refused(c) /\ report' = None
        /\ applied' = <<>> /\ results' = <<>>
    BY <1>1 DEF Start, Alone
  <2>2. c.then = "apply" /\ c.kind = "scan" /\ ~ c.chain
    BY <2>1, CommandsAssumption DEF Alone, Refused
  <2>3. IsList(<<>>) /\ Range(<<>>) = {}
    BY DEF IsList, Range
  <2> QED BY <2>1, <2>2, <2>3 DEF AskedAlone
<1>2. ASSUME Alone, UNCHANGED <<command, report, applied, looked, results>>,
             phase' = phase \/ (phase' \in Applying /\ phase \in Applying)
      PROVE  AskedAlone'
  <2>1. AskedAlone
    BY <1>2 DEF AloneInv
  <2> QED BY <1>2, <2>1 DEF AskedAlone
<1>3. CASE Alone /\ Discover
  <2>1. /\ phase = "discover" /\ phase' = "schema" /\ UNCHANGED <<report, applied, results>>
        /\ \E dir : command' = [command EXCEPT !.dir = dir]
    BY <1>3 DEF Discover, End, Alone
  <2>2. command'.kind = command.kind /\ command'.chain = command.chain
    BY <2>1 DEF SchemaInv, IsCommand
  <2>3. Range(results) = {}
    BY <2>1 DEF FoundInv, Range
  <2> QED BY <1>3, <2>1, <2>2, <2>3 DEF AloneInv, AskedAlone
<1>4. CASE Alone /\ LoadSchema
  <2>1. /\ phase = "schema" /\ phase' \in {"schema", "model"}
        /\ UNCHANGED <<command, report, applied, looked, results>> /\ looked = None
    BY <1>4 DEF LoadSchema, FoundInv
  <2> QED BY <1>4, <2>1 DEF AloneInv, AskedAlone
<1>5. CASE Alone /\ Scan
  <2>1. UNCHANGED <<phase, command, report, applied, results>> /\ looked = None
        /\ (looked' = looked \/ \E t, catalog : looked' = ScanModel(catalog, t, command))
    BY <1>5 DEF Scan, End, Alone
  <2>2. ~ command.chain
    BY <1>5 DEF AloneInv, AskedAlone
  <2>3. looked' # None => looked'.chain = None
    BY <2>1, <2>2 DEF ScanModel
  <2> QED BY <1>5, <2>1, <2>3 DEF AloneInv, AskedAlone
<1>6. CASE Alone /\ ReadAgain
  <2>1. /\ UNCHANGED <<phase, command, report, applied>> /\ phase = "model" /\ looked # None
        /\ looked' = None
        /\ \E rendered : results' = Append(results, Result(Head(left), looked, rendered))
    BY <1>6 DEF ReadAgain, End, Alone
  <2>2. AskedAlone
    BY <1>6 DEF AloneInv
  <2>3. PICK rendered : results' = Append(results, Result(Head(left), looked, rendered))
    BY <2>1
  <2> DEFINE r == Result(Head(left), looked, rendered)
  <2>4. r.chain = None /\ r.compiled = (command.dir # None)
    BY <2>1, <2>2 DEF Result, AskedAlone
  <2> HIDE DEF r
  <2>5. Range(results') = Range(results) \cup {r}
    BY <2>3, OneMore DEF FoundInv, r
  <2> QED BY <2>1, <2>2, <2>4, <2>5 DEF AskedAlone
<1>7. CASE Alone /\ (Scanned \/ WriteReport)
  <2>1. AskedAlone
    BY <1>7 DEF AloneInv
  <2>2. CASE Scanned
    <3>1. UNCHANGED <<command, report, applied, results>> /\ phase' = "report" /\ phase = "model"
      BY <2>1, <2>2 DEF Scanned, AskedAlone, Alone
    <3> QED BY <2>1, <3>1 DEF AskedAlone
  <2>3. CASE WriteReport
    <3>1. UNCHANGED <<command, applied, results>> /\ phase' = "apply"
      BY <1>7, <2>3 DEF WriteReport, Alone
    <3> QED BY <2>1, <3>1 DEF AskedAlone
  <2> QED BY <1>7, <2>2, <2>3
<1>8. CASE Alone /\ ApplyCheck
  <2>1. phase = "apply" /\ UNCHANGED <<command, report, looked, results>>
    BY <1>8 DEF ApplyCheck, Skip, End
  <2>2. CASE Skip(Head(todo))
    <3>1. phase' = phase /\ applied' = Append(applied, Outcome(Head(todo), FALSE))
      BY <2>2 DEF Skip
    <3>2. IsList(applied')
      BY <1>8, <3>1, OneMore DEF AloneInv, AskedAlone
    <3> QED BY <1>8, <2>1, <3>1, <3>2 DEF AloneInv, AskedAlone
  <2>3. CASE ~ Skip(Head(todo))
    <3>1. phase' = "open" /\ applied' = applied
      BY <1>8, <2>3 DEF ApplyCheck, End, Alone
    <3> QED BY <1>2, <1>8, <2>1, <3>1
  <2> QED BY <2>2, <2>3
<1>9. CASE Alone /\ OpenModel
  <2>1. phase = "open" /\ phase' = "fill" /\ UNCHANGED <<command, report, applied, looked, results>>
    BY <1>9 DEF OpenModel
  <2> QED BY <1>2, <1>9, <2>1
<1>10. CASE Alone /\ FillModel
  <2>1. /\ phase = "fill" /\ phase' = "apply" /\ UNCHANGED <<command, report, looked, results>>
        /\ applied' = Append(applied, Outcome(Head(todo), TRUE))
    BY <1>10 DEF FillModel
  <2>2. IsList(applied')
    BY <1>10, <2>1, OneMore DEF AloneInv, AskedAlone
  <2> QED BY <1>10, <2>1, <2>2 DEF AloneInv, AskedAlone
<1>11. CASE Alone /\ UNCHANGED scanVars
  BY <1>2, <1>11 DEF scanVars
<1> QED BY <1>1, <1>3, <1>4, <1>5, <1>6, <1>7, <1>8, <1>9, <1>10, <1>11, AloneSteps

(* A result that is ready has a proof, and no more than one file.          *)
LEMMA ReadyHasProof ==
  ASSUME NEW r, IsList(r.suggestions), r.chain = None, ApplyReady(r)
  PROVE  /\ Proven(r.suggestions) # <<>> /\ DisplayPath(r) = r.path /\ ~ r.compiled
         /\ FirstProven(r) \in Range(r.suggestions) /\ IsProven(FirstProven(r))
<1>1. PICK i \in DOMAIN r.suggestions : IsProven(r.suggestions[i])
  BY DEF ApplyReady, HasProven
<1>2. r.suggestions[i] \in Range(r.suggestions)
  BY DEF Range
<1>3. IsList(Proven(r.suggestions))
      /\ Range(Proven(r.suggestions)) = {x \in Range(r.suggestions) : IsProven(x)}
  BY ProvenRange
<1>4. Proven(r.suggestions) # <<>>
  BY <1>1, <1>2, <1>3 DEF Range
<1>5. FirstProven(r) \in Range(Proven(r.suggestions))
  BY <1>3, <1>4, EndsOfList DEF FirstProven
<1>6. DisplayPath(r) = r.path /\ ~ r.compiled
  BY DEF ApplyReady, FromSource, DisplayPath
<1> QED BY <1>3, <1>4, <1>5, <1>6

LEMMA PlainText ==
  ASSUME NEW t, ~ Preprocess(t).changed
  PROVE  Preprocess(t).sql = t
<1>1. CASE About[t].jinja = "none"
  BY <1>1 DEF Preprocess
<1>2. CASE About[t].jinja \in {"renders", "static"}
  BY <1>2 DEF Preprocess
<1>3. CASE About[t].jinja \notin {"none", "renders", "static"}
  BY <1>3 DEF Preprocess
<1> QED BY <1>1, <1>2, <1>3

(* What is found of a file is found in the file as it is.                  *)
LEMMA ScanAloneKept ==
  ASSUME ProjectInv, SchemaInv, FoundInv, AloneInv, [Next]_vars, Alone', command'.dir = None
  PROVE  ScanAlone'
<1> USE DEF asking, reading, scanning, writing, past
<1>1. ASSUME NEW c \in Commands, Start(c) PROVE ScanAlone'
  <2>1. phase' = "discover"
    BY <1>1 DEF Start, Alone
  <2> QED BY <2>1 DEF ScanAlone
<1>2. CASE Alone /\ Discover
  <2>1. PICK dir : /\ command' = [command EXCEPT !.dir = dir]
                   /\ left' = IF only = None THEN DiscoverModels(dir)
                              ELSE Among(DiscoverModels(dir), only)
    BY <1>2 DEF Discover, End, Alone
  <2>2. phase = "discover" /\ phase' = "schema"
    BY <1>2 DEF Discover, End, Alone
  <2>3. dir = None
    BY <2>1, <2>2 DEF SchemaInv, IsCommand
  <2>4. IsList(DiscoverModels(dir)) /\ IsInjective(DiscoverModels(dir))
    <3>1. IsList(ModelFiles) /\ IsInjective(ModelFiles)
      BY ProjectsAssumption
    <3>2. DiscoverModels(dir) = Among(ModelFiles, {m \in Model : source[m] # None})
      BY <2>3 DEF DiscoverModels
    <3> QED BY <3>1, <3>2, AmongRange, InjectiveSelections
  <2>5. IsInjective(left')
    BY <2>1, <2>4, InjectiveSelections
  <2> QED BY <2>2, <2>5 DEF ScanAlone
<1>3. ASSUME Alone, command' = command PROVE ScanAlone /\ AskedAlone /\ command.dir = None
  BY <1>3 DEF AloneInv
<1>4. CASE Alone /\ LoadSchema
  <2>1. /\ phase = "schema" /\ phase' \in {"schema", "model"} /\ UNCHANGED <<command, left, looked, results>>
        /\ results = <<>> /\ looked = None
    BY <1>4 DEF LoadSchema, FoundInv
  <2>2. Range(results') = {} /\ Apart(results')
    BY <2>1 DEF Range, Apart
  <2>3. ScanAlone
    BY <1>3, <1>4, <2>1
  <2> QED BY <2>1, <2>2, <2>3 DEF ScanAlone
<1>5. CASE Alone /\ UNCHANGED projectVars /\ Scan
  <2> DEFINE t     == ContentsOf(Head(left))
             found == ScanModel(LoadProjectConstraints(payloads), t, command)
  <2>1. /\ phase = "model" /\ left # <<>> /\ looked = None /\ t # None
        /\ UNCHANGED <<command, phase, results, source>>
    BY <1>5 DEF Scan, End, Alone, projectVars
  <2>2. /\ ScanAlone /\ command.dir = None /\ IsList(left) /\ IsInjective(left)
        /\ Head(left) \in ModelsOf(command.dir) /\ Range(Tail(left)) \subseteq Range(left)
    BY <1>3, <1>5, <2>1, EndsOfList DEF FoundInv, ScanAlone
  <2>3. t \in Text /\ t = source[Head(left)]
    BY <2>1, <2>2, ContentsAreText DEF ContentsOf
  <2>4. CASE left' = Tail(left) /\ looked' = looked
    BY <2>1, <2>2, <2>4, InjectiveSelections DEF ScanAlone, Matches
  <2>5. CASE left' = left /\ looked' = found
    <3>1. \A s \in Range(found.suggestions) : IsProven(s) => s.from = Preprocess(t).sql
      BY <2>3, ScanIsOfText
    <3> HIDE DEF found, t
    <3>2. \A s \in Range(looked'.suggestions) :
            IsProven(s) => s.from = Preprocess(source'[Head(left')]).sql
      BY <2>1, <2>3, <2>5, <3>1
    <3> QED BY <2>1, <2>2, <2>5, <3>2 DEF ScanAlone, Matches
  <2> QED BY <1>5, <2>1, <2>4, <2>5 DEF Scan, End, Alone
<1>6. CASE Alone /\ UNCHANGED projectVars /\ ReadAgain
  <2> DEFINE m == Head(left)
             p == Preprocess(ContentsOf(m))
             r == Result(m, looked, p.changed \/ About[p.sql].with)
  <2>1. /\ phase = "model" /\ looked # None /\ ContentsOf(m) # None
        /\ results' = Append(results, r) /\ left' = Tail(left) /\ looked' = None
        /\ UNCHANGED <<command, phase, source>>
    BY <1>6 DEF ReadAgain, End, Alone, projectVars
  <2>2. /\ ScanAlone /\ AskedAlone /\ command.dir = None /\ left # <<>>
        /\ IsList(left) /\ IsInjective(left) /\ IsList(looked.suggestions) /\ m \in Range(left)
        /\ Range(Tail(left)) \subseteq Range(left) /\ IsInjective(Tail(left)) /\ m \notin Range(Tail(left))
    BY <1>3, <1>6, <2>1, EndsOfList, InjectiveSelections DEF FoundInv, ScanAlone, AllSound
  <2>3. /\ r.path = m /\ r.chain = None /\ r.suggestions = looked.suggestions
        /\ r.preprocessed = (p.changed \/ About[p.sql].with)
    BY <2>1, <2>2 DEF Result, AskedAlone
  <2>4. ApplyReady(r) => FirstProven(r).from = source[m]
    <3>1. SUFFICES ASSUME ApplyReady(r) PROVE FirstProven(r).from = source[m]
      OBVIOUS
    <3> DEFINE s == FirstProven(r)
    <3>2. s \in Range(looked.suggestions) /\ IsProven(s)
      BY <2>2, <2>3, <3>1, ReadyHasProof
    <3>3. s.from = Preprocess(source[m]).sql
      BY <2>1, <2>2, <3>2 DEF ScanAlone
    <3>4. ~ Preprocess(source[m]).changed
      BY <2>2, <2>3, <3>1 DEF ApplyReady, ContentsOf
    <3> QED BY <3>3, <3>4, PlainText
  <2> HIDE DEF r, m, p
  <2>5. Range(results') = Range(results) \cup {r}
    BY <2>1, OneMore DEF FoundInv
  <2>6. \A q \in Range(results) : q.path \notin Range(left)
    BY <2>1, <2>2 DEF ScanAlone
  <2>7. Apart(results')
    BY <2>1, <2>2, <2>3, <2>6, ApartSelections DEF FoundInv, ScanAlone
  <2>8. \A q \in Range(results') : q.path \notin Range(left')
    BY <2>1, <2>2, <2>3, <2>5, <2>6
  <2>9. \A q \in Range(results') : ApplyReady(q) => Matches(q)'
    BY <2>1, <2>2, <2>3, <2>4, <2>5 DEF ScanAlone, Matches
  <2> QED BY <2>1, <2>2, <2>7, <2>8, <2>9 DEF ScanAlone
<1>7. CASE Alone /\ UNCHANGED projectVars /\ Scanned
  <2>1. AskedAlone
    BY <1>7 DEF AloneInv
  <2>2. UNCHANGED <<command, results, source>> /\ phase' = "report" /\ phase = "model"
    BY <1>7, <2>1 DEF Scanned, AskedAlone, projectVars, Alone
  <2>3. ScanAlone
    BY <1>3, <1>7, <2>2
  <2> QED BY <2>2, <2>3 DEF ScanAlone, Matches
<1>8. ASSUME phase' \in Applying PROVE ScanAlone'
  BY <1>8 DEF ScanAlone, Applying
<1>9. CASE Alone /\ WriteReport
  <2>1. phase' = "apply"
    BY <1>9 DEF WriteReport, Alone
  <2> QED BY <1>8, <2>1 DEF Applying
<1>10. CASE ApplyCheck \/ OpenModel \/ FillModel
  <2>1. phase' \in Applying
    BY <1>10 DEF ApplyCheck, Skip, End, OpenModel, FillModel, Applying, Alone
  <2> QED BY <1>8, <2>1
<1>11. CASE Alone /\ UNCHANGED projectVars /\ UNCHANGED scanVars
  BY <1>3, <1>11 DEF scanVars, projectVars, ScanAlone, Matches
<1> QED BY <1>1, <1>2, <1>4, <1>5, <1>6, <1>7, <1>9, <1>10, <1>11, AloneSteps

(* What is ready waits for its turn, and what is written stays written.    *)
LEMMA ApplyAloneKept ==
  ASSUME ProjectInv, SchemaInv, FoundInv, ApplyInv, AloneInv, [Next]_vars, Alone',
         command'.dir = None
  PROVE  ApplyAlone'
<1> USE DEF asking, reading, scanning, writing, past
<1>1. ASSUME phase' \notin Applying PROVE ApplyAlone'
  BY <1>1 DEF ApplyAlone
<1>2. ASSUME NEW c \in Commands, Start(c) PROVE phase' \notin Applying
  BY <1>2 DEF Start, Applying
<1>3. ASSUME Alone, Discover \/ LoadSchema \/ Scan \/ ReadAgain PROVE phase' \notin Applying
  BY <1>3 DEF Discover, LoadSchema, Scan, ReadAgain, End, Applying
<1>4. ASSUME Scanned PROVE phase' \notin Applying
  BY <1>4 DEF Scanned, Applying
<1>5. ASSUME Alone, command' = command
      PROVE  AskedAlone /\ ScanAlone /\ ApplyAlone
  BY <1>5 DEF AloneInv
<1>6. ASSUME Alone, AskedAlone, NEW r \in Range(results), ApplyReady(r)
      PROVE  /\ Proven(r.suggestions) # <<>> /\ DisplayPath(r) = r.path /\ r.path \in Model
             /\ FirstProven(r).from \in Text
  <2>1. ResultSound(r) /\ r.chain = None /\ IsList(r.suggestions)
    BY <1>6 DEF FoundInv, AskedAlone, ResultSound, AllSound
  <2>2. Proven(r.suggestions) # <<>> /\ DisplayPath(r) = r.path
    BY <1>6, <2>1, ReadyHasProof
  <2>3. r.path \in Model
    BY <1>6, <2>1, <2>2 DEF ResultSound, ApplyReady, FromSource
  <2>4. FirstProven(r).from \in Text
    BY <2>1, <2>2, FirstProvenIsSound DEF ResultSound
  <2> QED BY <2>2, <2>3, <2>4
<1>7. CASE Alone /\ UNCHANGED projectVars /\ WriteReport
  <2>1. /\ phase = "report" /\ phase' = "apply" /\ UNCHANGED <<command, results, source>>
        /\ todo' = Among(results, {r \in Range(results) : Proven(r.suggestions) # <<>>})
    BY <1>7 DEF WriteReport, Alone, projectVars
  <2>2. AskedAlone /\ ScanAlone /\ IsList(results)
    BY <1>5, <1>7, <2>1 DEF FoundInv
  <2>3. Apart(todo')
    BY <2>1, <2>2, ApartSelections DEF ScanAlone
  <2>4. Range(todo') = {r \in Range(results) : Proven(r.suggestions) # <<>>}
    BY <2>1, <2>2, AmongRange
  <2>5. ASSUME NEW r \in Range(results), ApplyReady(r) PROVE Pending(r)'
    <3>1. r \in Range(todo')
      BY <1>6, <1>7, <2>2, <2>4, <2>5
    <3>2. source'[r.path] = FirstProven(r).from
      BY <2>1, <2>2, <2>5 DEF ScanAlone, Matches
    <3> QED BY <3>1, <3>2 DEF Pending, Matches
  <2> QED BY <2>1, <2>3, <2>5 DEF ApplyAlone
<1>8. CASE Alone /\ UNCHANGED projectVars /\ ApplyCheck
  <2> DEFINE h == Head(todo)
  <2>1. /\ phase = "apply" /\ todo # <<>> /\ UNCHANGED <<command, results, source>>
        /\ phase \in Applying
    BY <1>8 DEF ApplyCheck, Skip, End, projectVars, Applying
  <2>2. /\ AskedAlone /\ ApplyAlone /\ IsList(todo) /\ Apart(todo)
        /\ h \in Range(todo) /\ h \in Range(results)
        /\ Range(Tail(todo)) \subseteq Range(todo)
        /\ \A q \in Range(todo) : q = h \/ q \in Range(Tail(todo))
    BY <1>5, <1>8, <2>1, EndsOfList DEF ApplyInv, ApplyAlone, Applying
  <2>3. ASSUME ApplyReady(h) PROVE source[DisplayPath(h)] # None /\ StillMatches(h)
    <3>1. Pending(h)
      BY <2>1, <2>2, <2>3 DEF ApplyAlone, Done
    <3>2. Matches(h)
      BY <2>1, <3>1 DEF Pending
    <3>3. DisplayPath(h) = h.path /\ FirstProven(h).from # None
      BY <1>6, <1>8, <2>2, <2>3, TextsAssumption
    <3> QED BY <3>2, <3>3 DEF Matches, StillMatches
  <2>4. CASE ApplyReady(h)
    <3>1. phase' = "open" /\ UNCHANGED <<todo, applied>>
      BY <1>8, <2>3, <2>4 DEF ApplyCheck
    <3> QED BY <2>1, <2>2, <3>1 DEF ApplyAlone, Pending, Done, Matches
  <2>5. CASE ~ ApplyReady(h)
    <3>1. phase' = phase /\ todo' = Tail(todo) /\ applied' = Append(applied, Outcome(h, FALSE))
      BY <1>8, <2>5 DEF ApplyCheck, Skip
    <3>2. Apart(todo')
      BY <2>1, <2>2, <3>1, ApartSelections
    <3>3. ASSUME NEW r \in Range(results), ApplyReady(r) PROVE Pending(r)' \/ Done(r)'
      <4>1. CASE Pending(r)
        <5>1. r # h /\ r \in Range(todo) /\ Matches(r)
          BY <2>1, <2>5, <3>3, <4>1 DEF Pending
        <5> QED BY <2>1, <2>2, <3>1, <5>1 DEF Pending, Matches
      <4>2. CASE Done(r)
        <5>1. PICK j \in DOMAIN applied : applied[j].path = DisplayPath(r) /\ applied[j].applied
          BY <4>2 DEF Done
        <5>2. j \in DOMAIN applied' /\ applied'[j] = applied[j]
          <6> DEFINE x == Outcome(h, FALSE)
          <6>1. IsList(applied) /\ applied' = Append(applied, x)
            BY <2>2, <3>1 DEF AskedAlone
          <6> HIDE DEF x
          <6>2. PICK n : /\ DOMAIN Append(applied, x) = DOMAIN applied \cup {n}
                         /\ \A i \in DOMAIN applied : Append(applied, x)[i] = applied[i]
            BY <6>1, AppendPlaces
          <6> QED BY <5>1, <6>1, <6>2
        <5>3. \A q \in Range(todo') : q.path # r.path
          BY <2>2, <3>1, <4>2 DEF Done
        <5>4. source'[r.path] = FirstProven(r).to
          BY <2>1, <4>2 DEF Done
        <5> QED BY <5>1, <5>2, <5>3, <5>4 DEF Done
      <4> QED BY <2>1, <2>2, <3>3, <4>1, <4>2 DEF ApplyAlone
    <3> QED BY <2>1, <3>1, <3>2, <3>3 DEF ApplyAlone
  <2> QED BY <2>4, <2>5
<1>9. ASSUME Alone, phase \in {"open", "fill"}, UNCHANGED <<command, results>>
      PROVE  /\ AskedAlone /\ ApplyAlone /\ IsList(todo) /\ Apart(todo)
             /\ Head(todo) \in Range(todo) /\ Head(todo) \in Range(results)
             /\ Range(Tail(todo)) \subseteq Range(todo) /\ Apart(Tail(todo))
             /\ \A q \in Range(todo) : q = Head(todo) \/ q \in Range(Tail(todo))
             /\ \A q \in Range(Tail(todo)) : q.path # Head(todo).path
             /\ DisplayPath(Head(todo)) = Head(todo).path /\ Head(todo).path \in Model
  <2>1. /\ IsList(todo) /\ todo # <<>> /\ ApplyReady(Head(todo)) /\ Range(todo) \subseteq Range(results)
    BY <1>9 DEF ApplyInv
  <2>2. AskedAlone /\ ApplyAlone /\ Apart(todo)
    BY <1>5, <1>9 DEF ApplyAlone, Applying
  <2>3. Head(todo) \in Range(results)
    BY <2>1, EndsOfList
  <2> QED BY <1>6, <1>9, <2>1, <2>2, <2>3, EndsOfList, ApartSelections
<1>10. CASE Alone /\ OpenModel
  <2> DEFINE h == Head(todo)
  <2>1. /\ phase = "open" /\ phase' = "fill" /\ UNCHANGED <<command, results, todo, applied>>
        /\ source' = [source EXCEPT ![DisplayPath(h)] = Empty]
    BY <1>10 DEF OpenModel, Overwrite
  <2>2. /\ ApplyAlone /\ Apart(todo) /\ h \in Range(todo)
        /\ \A q \in Range(todo) : q = h \/ q.path # h.path
        /\ DisplayPath(h) = h.path
    BY <1>9, <1>10, <2>1
  <2>3. \A m : m # h.path => source'[m] = source[m]
    BY <2>1, <2>2 DEF ProjectInv
  <2> HIDE DEF h
  <2>4. ASSUME NEW r \in Range(results), ApplyReady(r) PROVE Pending(r)' \/ Done(r)'
    <3>1. CASE Pending(r)
      BY <2>1, <2>2, <2>3, <3>1 DEF Pending, Matches, h
    <3>2. CASE Done(r)
      <4>1. r.path # h.path
        BY <2>2, <3>2 DEF Done
      <4> QED BY <2>1, <2>3, <3>2, <4>1 DEF Done
    <3> QED BY <2>1, <2>2, <2>4, <3>1, <3>2 DEF ApplyAlone, Applying
  <2> QED BY <2>1, <2>2, <2>4 DEF ApplyAlone
<1>11. CASE Alone /\ FillModel
  <2> DEFINE h == Head(todo)
  <2>1. /\ phase = "fill" /\ phase' = "apply" /\ UNCHANGED <<command, results>>
        /\ todo' = Tail(todo) /\ applied' = Append(applied, Outcome(h, TRUE))
        /\ source' = [source EXCEPT ![DisplayPath(h)] = FirstProven(h).to]
    BY <1>11 DEF FillModel, Overwrite
  <2>2. /\ ApplyAlone /\ Apart(todo') /\ h \in Range(todo) /\ Range(todo') \subseteq Range(todo)
        /\ \A q \in Range(todo) : q = h \/ q \in Range(todo')
        /\ \A q \in Range(todo') : q.path # h.path
        /\ DisplayPath(h) = h.path /\ h.path \in Model /\ IsList(applied)
    BY <1>9, <1>11, <2>1 DEF AskedAlone
  <2>3. source'[h.path] = FirstProven(h).to /\ \A m : m # h.path => source'[m] = source[m]
    BY <2>1, <2>2 DEF ProjectInv
  <2>4. PICK n : /\ DOMAIN applied' = DOMAIN applied \cup {n} /\ applied'[n] = Outcome(h, TRUE)
                 /\ \A j \in DOMAIN applied : applied'[j] = applied[j]
    <3> DEFINE x == Outcome(h, TRUE)
    <3>1. IsList(applied) /\ applied' = Append(applied, x)
      BY <2>1, <2>2
    <3> HIDE DEF x
    <3>2. \E n : /\ DOMAIN Append(applied, x) = DOMAIN applied \cup {n}
                 /\ Append(applied, x)[n] = x
                 /\ \A j \in DOMAIN applied : Append(applied, x)[j] = applied[j]
      BY <3>1, AppendPlaces
    <3> QED BY <3>1, <3>2 DEF x
  <2>5. applied'[n].path = DisplayPath(h) /\ applied'[n].applied
    BY <2>4 DEF Outcome
  <2> HIDE DEF h
  <2>6. ASSUME NEW r \in Range(results), ApplyReady(r) PROVE Pending(r)' \/ Done(r)'
    <3>1. CASE r = h
      BY <2>2, <2>3, <2>4, <2>5, <3>1 DEF Done
    <3>2. CASE r # h /\ Pending(r)
      <4>1. r \in Range(todo') /\ Matches(r)
        BY <2>2, <3>2 DEF Pending, h
      <4>2. r.path # h.path
        BY <2>2, <4>1
      <4> QED BY <2>3, <4>1, <4>2 DEF Pending, Matches
    <3>3. CASE Done(r)
      <4>1. r.path # h.path
        BY <2>2, <3>3 DEF Done
      <4>2. PICK j \in DOMAIN applied : applied[j].path = DisplayPath(r) /\ applied[j].applied
        BY <3>3 DEF Done
      <4>3. j \in DOMAIN applied' /\ applied'[j] = applied[j]
        BY <2>4, <4>2
      <4>4. source'[r.path] = FirstProven(r).to /\ \A q \in Range(todo') : q.path # r.path
        BY <2>2, <2>3, <3>3, <4>1 DEF Done
      <4> QED BY <4>2, <4>3, <4>4 DEF Done
    <3> QED BY <2>1, <2>2, <2>6, <3>1, <3>2, <3>3 DEF ApplyAlone, Applying
  <2> QED BY <2>1, <2>2, <2>6 DEF ApplyAlone
<1>12. CASE Alone /\ UNCHANGED projectVars /\ UNCHANGED scanVars
  BY <1>5, <1>12 DEF scanVars, projectVars, ApplyAlone, Pending, Done, Matches
<1> QED BY <1>1, <1>2, <1>3, <1>4, <1>7, <1>8, <1>10, <1>11, <1>12, AloneSteps

LEMMA AloneInvKept ==
  ASSUME ProjectInv, SchemaInv, FoundInv, ApplyInv, AloneInv, [Next]_vars
  PROVE  AloneInv'
<1>1. saves' \in Nat
  <2>1. CASE Edit
    BY <2>1 DEF Edit, Save, EditSchema, AloneInv
  <2>2. CASE ~ Edit
    <3>1. saves' = saves
      BY <2>2 DEF Next, ScanStep, ApplyCheck, OpenModel, FillModel, Overwrite, vars, projectVars
    <3> QED BY <3>1 DEF AloneInv
  <2> QED BY <2>1, <2>2
<1>2. Alone' => AskedAlone' /\ (command'.dir = None => ScanAlone' /\ ApplyAlone')
  BY AskedAloneKept, ScanAloneKept, ApplyAloneKept
<1> QED BY <1>1, <1>2 DEF AloneInv

(* A command that ends by itself has come to the end of its list.          *)
LEMMA ReadyKept ==
  ASSUME ProjectInv, SchemaInv, FoundInv, ApplyInv, AloneInv, ReadyIsApplied, [Next]_vars
  PROVE  ReadyIsApplied'
<1> USE DEF asking, reading, scanning, writing, past
<1> DEFINE Ended == /\ phase = "idle" /\ outcome \in {"ok", "findings", "error"} /\ report # None
                    /\ command.then = "apply" /\ saves = 0
<1>1. SUFFICES ASSUME Ended' PROVE ReadyIsApplied'
  BY DEF ReadyIsApplied
<1>2. ~ Edit
  BY <1>1 DEF Edit, Save, EditSchema, AloneInv
<1>3. CASE UNCHANGED vars
  BY <1>3 DEF vars, projectVars, scanVars, ReadyIsApplied
<1>4. ASSUME NEW c \in Commands, Start(c) PROVE FALSE
  BY <1>1, <1>4 DEF Start
<1>5. ~ LoadSchema /\ ~ WritePatch /\ ~ WriteReport /\ ~ LoadSchemaAgain /\ ~ Refute
      /\ ~ Scanned /\ ~ OpenModel /\ ~ FillModel /\ ~ Kill
  BY <1>1 DEF LoadSchema, WritePatch, WriteReport, LoadSchemaAgain, Refute, Scanned, OpenModel,
              FillModel, Kill
<1>6. CASE (Discover \/ Scan \/ ReadAgain \/ Finish \/ ApplyCheck) /\ UNCHANGED projectVars
  <2>1. /\ phase \in {"discover", "model", "finish", "apply", "refute"}
        /\ UNCHANGED <<projectVars, command, report, results, applied>>
    BY <1>1, <1>6 DEF Discover, Scan, ReadAgain, Finish, ApplyCheck, Skip, End, projectVars
  <2>2. Alone /\ AskedAlone /\ (command.dir = None => ApplyAlone)
    BY <1>1, <2>1 DEF Alone, AloneInv, projectVars
  <2>3. phase = "apply"
    BY <1>1, <2>1, <2>2 DEF AskedAlone, Applying
  <2>4. ASSUME NEW r \in Range(results), ApplyReady(r)
        PROVE  Done(r)
    <3>1. /\ ResultSound(r) /\ r.chain = None /\ IsList(r.suggestions)
          /\ r.compiled = (command.dir # None)
      BY <2>2, <2>4 DEF FoundInv, AskedAlone, ResultSound, AllSound
    <3>2. ~ r.compiled
      BY <2>4, <3>1, ReadyHasProof
    <3>3. ApplyAlone
      BY <2>2, <3>1, <3>2
    <3>4. CASE Pending(r)
      <4>1. r \in Range(todo) /\ todo # <<>>
        BY <3>4 DEF Pending, Range
      <4>2. ApplyCheck
        BY <1>6, <2>3, <4>1 DEF Discover, Scan, ReadAgain, Finish
      <4>3. /\ IsList(todo) /\ Range(todo) \subseteq Range(results)
            /\ Head(todo) \in Range(todo) /\ Apart(todo)
        BY <2>3, <3>3, <4>1, EndsOfList DEF ApplyInv, ApplyAlone, Applying
      <4>4. ApplyReady(Head(todo)) /\ source[DisplayPath(Head(todo))] = None
        BY <1>1, <2>3, <4>2 DEF ApplyCheck, Skip
      <4>5. Pending(Head(todo))
        BY <2>3, <3>3, <4>3, <4>4 DEF ApplyAlone, Applying, Done
      <4>6. Matches(Head(todo))
        BY <2>3, <4>5 DEF Pending
      <4>7. AllSound(LoadProjectConstraints(payloads), Head(todo).suggestions)
            /\ Head(todo).chain = None
        BY <2>2, <4>3 DEF FoundInv, AskedAlone, ResultSound
      <4>8. DisplayPath(Head(todo)) = Head(todo).path /\ Proven(Head(todo).suggestions) # <<>>
        BY <4>4, <4>7, ReadyHasProof DEF AllSound
      <4>9. FirstProven(Head(todo)).from \in Text
        BY <4>7, <4>8, FirstProvenIsSound
      <4> QED BY <4>4, <4>6, <4>8, <4>9, TextsAssumption DEF Matches
    <3> QED BY <2>3, <2>4, <3>3, <3>4 DEF ApplyAlone, Applying
  <2>5. \A i \in DOMAIN results : results[i] \in Range(results)
    BY DEF Range
  <2> QED BY <2>1, <2>4, <2>5 DEF ReadyIsApplied, Done, ApplyReady, HasProven, FromSource,
                                  DisplayPath, FirstProven, projectVars
<1> QED BY <1>2, <1>3, <1>4, <1>5, <1>6 DEF Next, ScanStep, ApplyCheck

AllInv == ScanInv /\ AloneInv /\ ReadyIsApplied

(* Left alone, a scan with --apply-patches that ends by itself has written *)
(* every rewrite that was ready, and says so, for every project.           *)
THEOREM ReadyRewritesAreApplied == Spec => []ReadyIsApplied
<1>1. Init => AllInv
  <2>1. ASSUME Init PROVE AloneInv /\ ReadyIsApplied
    BY <2>1 DEF Init, ProjectInit, ScanInit, AloneInv, Alone, ReadyIsApplied
  <2> QED BY <2>1, ScanInvInit DEF AllInv
<1>2. AllInv /\ [Next]_vars => AllInv'
  <2>1. ScanInv /\ [Next]_vars => ScanInv'
    BY ScanInvKept
  <2>2. AllInv /\ [Next]_vars => AloneInv' /\ ReadyIsApplied'
    BY AloneInvKept, ReadyKept DEF AllInv, ScanInv
  <2> QED BY <2>1, <2>2 DEF AllInv
<1>3. AllInv => ReadyIsApplied
  BY DEF AllInv
<1> QED BY <1>1, <1>2, <1>3, PTL DEF Spec

-----------------------------------------------------------------------------
(* How many findings are proven.                                           *)
ProvenAt(s) == {i \in DOMAIN s : IsProven(s[i])}
RuleOf(s, rule) == Among(s, {x \in Range(s) : x.rule = rule})

LEMMA ProvenCount ==
  ASSUME NEW s, IsList(s)
  PROVE  /\ Len(Proven(s)) = Cardinality(ProvenAt(s))
         /\ IsFiniteSet(ProvenAt(s)) /\ Cardinality(ProvenAt(s)) \in Nat
         /\ ProvenAt(s) # {} => Cardinality(ProvenAt(s)) >= 1
<1> DEFINE S == {x \in Range(s) : IsProven(x)}
<1>1. \A i \in DOMAIN s : s[i] \in Range(s)
  BY DEF Range
<1>2. PlacesIn(s, S) = ProvenAt(s)
  BY <1>1 DEF PlacesIn, ProvenAt
<1> HIDE DEF S
<1>3. Len(Among(s, S)) = Cardinality(PlacesIn(s, S))
  BY AmongCounts
<1>4. Proven(s) = Among(s, S)
  BY DEF Proven, S
<1>5. ProvenAt(s) \subseteq DOMAIN s
  BY DEF ProvenAt
<1>6. IsFiniteSet(ProvenAt(s)) /\ Cardinality(ProvenAt(s)) \in Nat
  BY <1>5, PlacesAreFinite
<1>7. ProvenAt(s) # {} => Cardinality(ProvenAt(s)) # 0
  BY <1>6, FS_EmptySet
<1> QED BY <1>2, <1>3, <1>4, <1>6, <1>7

LEMMA ProvenJoined ==
  ASSUME NEW s, IsList(s), NEW t, IsList(t)
  PROVE  Cardinality(ProvenAt(s \o t)) = Cardinality(ProvenAt(s)) + Cardinality(ProvenAt(t))
<1> DEFINE S == {x \in Range(s \o t) : IsProven(x)}
<1>1. Range(s \o t) = Range(s) \cup Range(t)
  BY ListsTogether
<1>2. \A u : (\A i \in DOMAIN u : u[i] \in Range(s \o t)) => PlacesIn(u, S) = ProvenAt(u)
  BY DEF PlacesIn, ProvenAt
<1>3. /\ \A i \in DOMAIN s : s[i] \in Range(s \o t)
      /\ \A i \in DOMAIN t : t[i] \in Range(s \o t)
      /\ \A i \in DOMAIN (s \o t) : (s \o t)[i] \in Range(s \o t)
  BY <1>1 DEF Range
<1> HIDE DEF S
<1>4. /\ PlacesIn(s, S) = ProvenAt(s) /\ PlacesIn(t, S) = ProvenAt(t)
      /\ PlacesIn(s \o t, S) = ProvenAt(s \o t)
  BY <1>2, <1>3
<1>5. Cardinality(PlacesIn(s \o t, S))
        = Cardinality(PlacesIn(s, S)) + Cardinality(PlacesIn(t, S))
  BY JoinedCounts
<1> QED BY <1>4, <1>5

(* Families hold each proven finding once.                                 *)
LEMMA FamiliesAddUp ==
  ASSUME NEW s, IsList(s), NEW D, IsFiniteSet(D), \A x \in Range(s) : x.rule \in D,
         NEW f, f = [rule \in D |-> Len(Proven(RuleOf(s, rule)))]
  PROVE  SumOf(f) = Len(Proven(s))
<1> DEFINE A == [rule \in D |-> {i \in DOMAIN s : s[i].rule = rule /\ IsProven(s[i])}]
<1>0. \A i \in DOMAIN s : s[i] \in Range(s)
  BY DEF Range
<1>1. \A rule \in D : IsFiniteSet(A[rule])
  BY PlacesAreFinite
<1>2. \A d, e \in D : d # e => A[d] \cap A[e] = {}
  OBVIOUS
<1>3. ASSUME NEW rule \in D PROVE Len(Proven(RuleOf(s, rule))) = Cardinality(A[rule])
  <2> DEFINE S  == {x \in Range(s) : x.rule = rule}
             S2 == {x \in Range(s) : IsProven(x)}
             F  == Among(s, S)
  <2>1. IsList(F) /\ Range(F) \subseteq Range(s)
    BY AmongRange
  <2>2. Len(Proven(F)) = Cardinality(ProvenAt(F))
    BY <2>1, ProvenCount
  <2>3. ProvenAt(F) = PlacesIn(F, S2)
    <3>1. \A i \in DOMAIN F : F[i] \in Range(s)
      BY <2>1 DEF Range
    <3> HIDE DEF F
    <3> QED BY <3>1 DEF ProvenAt, PlacesIn
  <2>4. PlacesIn(s, S \cap S2) = A[rule]
    BY <1>0 DEF PlacesIn
  <2> HIDE DEF S, S2
  <2>5. Cardinality(PlacesIn(F, S2)) = Cardinality(PlacesIn(s, S \cap S2))
    BY AmongCounts
  <2>6. RuleOf(s, rule) = F
    BY DEF RuleOf, S
  <2> HIDE DEF A, F
  <2> QED BY <2>2, <2>3, <2>4, <2>5, <2>6
<1>4. UNION {A[d] : d \in D} = ProvenAt(s)
  <2>1. \A d \in D : A[d] \subseteq ProvenAt(s)
    BY DEF ProvenAt
  <2>2. ASSUME NEW i \in ProvenAt(s) PROVE \E d \in D : i \in A[d]
    <3>1. s[i].rule \in D /\ i \in A[s[i].rule]
      BY <1>0 DEF ProvenAt
    <3> QED BY <3>1
  <2> HIDE DEF A
  <2> QED BY <2>1, <2>2
<1> HIDE DEF A
<1>5. f = [d \in D |-> Cardinality(A[d])]
  BY <1>3
<1>6. SumOf(f) = Cardinality(UNION {A[d] : d \in D})
  BY <1>1, <1>2, <1>5, SizesAddUp
<1> QED BY <1>4, <1>6, ProvenCount

(* What a result counts for.                                               *)
IsFinding(r) ==
  /\ IsList(r.suggestions)
  /\ r.chain # None => /\ IsList(r.chain) /\ r.chain # <<>>
                       /\ \A s \in Range(r.chain) : IsProven(s)

LEMMA FindingsAreProven ==
  ASSUME NEW r, IsFinding(r)
  PROVE  IsList(MetricSuggestions(r)) /\ (HasProven(r) => ProvenAt(MetricSuggestions(r)) # {})
<1>1. CASE r.chain # None
  <2>1. MetricSuggestions(r) = r.chain /\ IsList(r.chain) /\ r.chain # <<>>
    BY <1>1 DEF MetricSuggestions, IsFinding
  <2>2. 1 \in DOMAIN r.chain /\ r.chain[1] \in Range(r.chain)
    BY <2>1, TailPlaces, ListOf DEF IsList
  <2>3. IsProven(r.chain[1])
    BY <1>1, <2>2 DEF IsFinding
  <2> QED BY <2>1, <2>2, <2>3 DEF ProvenAt
<1>2. CASE r.chain = None
  BY <1>2 DEF MetricSuggestions, IsFinding, HasProven, ProvenAt
<1> QED BY <1>1, <1>2

(* The findings of all results, and of those that are ready.               *)
Parts      == [i \in DOMAIN results |-> MetricSuggestions(results[i])]
ReadyParts == [i \in DOMAIN results |->
                 IF ApplyReady(results[i]) THEN MetricSuggestions(results[i]) ELSE <<>>]

FindingResults == {i \in DOMAIN results : HasProven(results[i])}
ReadyResults   == {i \in DOMAIN results : ApplyReady(results[i])}

LEMMA PartsAreLists ==
  ASSUME IsList(results), \A r \in Range(results) : IsFinding(r)
  PROVE  /\ IsList(Parts) /\ DOMAIN Parts = DOMAIN results
         /\ IsList(ReadyParts) /\ DOMAIN ReadyParts = DOMAIN results
         /\ \A i \in DOMAIN results : IsList(Parts[i]) /\ IsList(ReadyParts[i])
         /\ \A i \in FindingResults : ProvenAt(Parts[i]) # {}
         /\ DOMAIN results = 1 .. Len(results) /\ Len(results) \in Nat
         /\ Len(Parts) = Len(results) /\ Len(ReadyParts) = Len(results)
<1>1. DOMAIN results = 1 .. Len(results) /\ Len(results) \in Nat
      /\ \A i \in DOMAIN results : results[i] \in Range(results)
  BY ListOf DEF IsList
<1>2. IsList(Parts) /\ DOMAIN Parts = DOMAIN results
  BY ListAlong DEF Parts
<1>3. IsList(ReadyParts) /\ DOMAIN ReadyParts = DOMAIN results
  BY ListAlong DEF ReadyParts
<1>4. IsList(<<>>)
  BY DEF IsList, Range
<1>5. \A i \in DOMAIN results : IsList(Parts[i]) /\ IsList(ReadyParts[i])
  BY <1>1, <1>4, FindingsAreProven DEF Parts, ReadyParts
<1>6. \A i \in FindingResults : ProvenAt(Parts[i]) # {}
  BY <1>1, FindingsAreProven DEF Parts, FindingResults
<1>7. Len(Parts) = Len(results) /\ Len(ReadyParts) = Len(results)
  <2>1. Len(Parts) \in Nat /\ DOMAIN Parts = 1 .. Len(Parts)
    BY <1>2, ListOf DEF IsList
  <2>2. Len(ReadyParts) \in Nat /\ DOMAIN ReadyParts = 1 .. Len(ReadyParts)
    BY <1>3, ListOf DEF IsList
  <2> HIDE DEF Parts, ReadyParts
  <2> QED BY <1>1, <1>2, <1>3, <2>1, <2>2
<1> QED BY <1>1, <1>2, <1>3, <1>5, <1>6, <1>7

-----------------------------------------------------------------------------
(* How many proven findings lists hold together: at least as many as there *)
(* are lists with one, and no more than where each list holds more.        *)
LEMMA FlattenedFindings ==
  ASSUME NEW seqs, IsList(seqs), \A i \in DOMAIN seqs : IsList(seqs[i]),
         NEW P, P \subseteq DOMAIN seqs, \A i \in P : ProvenAt(seqs[i]) # {}
  PROVE  Cardinality(P) <= Cardinality(ProvenAt(FlattenSeq(seqs)))
<1>1. DOMAIN seqs = 1 .. Len(seqs) /\ Len(seqs) \in Nat
  BY ListOf DEF IsList
<1>2. PICK flat : /\ flat[0] = <<>> /\ FlattenSeq(seqs) = flat[Len(seqs)]
                  /\ \A n \in 0 .. Len(seqs) : IsList(flat[n])
                  /\ \A n \in Nat : n + 1 <= Len(seqs) => flat[n + 1] = flat[n] \o seqs[n + 1]
  BY FlattenSteps
<1> DEFINE UpTo(n) == {i \in P : i <= n}
           Has(n)   == n <= Len(seqs) => Cardinality(UpTo(n)) <= Cardinality(ProvenAt(flat[n]))
           Good     == {n \in Nat : Has(n)}
<1>3. Has(0)
  <2>1. UpTo(0) = {}
    BY <1>1
  <2>2. IsList(flat[0])
    BY <1>1, <1>2
  <2>3. Cardinality(ProvenAt(flat[0])) \in Nat
    BY <2>2, ProvenCount
  <2>4. Cardinality({}) = 0
    BY FS_EmptySet
  <2> HIDE DEF UpTo
  <2> QED BY <2>1, <2>3, <2>4
<1>4. ASSUME NEW n \in Nat, Has(n) PROVE Has(n + 1)
  <2>1. SUFFICES ASSUME n + 1 <= Len(seqs)
                 PROVE  Cardinality(UpTo(n + 1)) <= Cardinality(ProvenAt(flat[n + 1]))
    OBVIOUS
  <2>2. n \in 0 .. Len(seqs) /\ n + 1 \in DOMAIN seqs
    BY <1>1, <2>1
  <2>3. IsList(flat[n]) /\ IsList(seqs[n + 1])
    BY <1>2, <2>2
  <2>4. Cardinality(ProvenAt(flat[n] \o seqs[n + 1]))
          = Cardinality(ProvenAt(flat[n])) + Cardinality(ProvenAt(seqs[n + 1]))
    BY <2>3, ProvenJoined
  <2>5. flat[n + 1] = flat[n] \o seqs[n + 1]
    BY <1>2, <2>1
  <2>6. /\ Cardinality(ProvenAt(flat[n])) \in Nat /\ Cardinality(ProvenAt(seqs[n + 1])) \in Nat
        /\ ProvenAt(seqs[n + 1]) # {} => Cardinality(ProvenAt(seqs[n + 1])) >= 1
    BY <2>3, ProvenCount
  <2>7. IsFiniteSet(UpTo(n)) /\ Cardinality(UpTo(n)) \in Nat
    <3>1. UpTo(n) \subseteq DOMAIN seqs
      OBVIOUS
    <3> HIDE DEF UpTo
    <3> QED BY <3>1, PlacesAreFinite
  <2>8. Cardinality(UpTo(n)) <= Cardinality(ProvenAt(flat[n]))
    BY <1>4, <2>1, <1>1
  <2>9. CASE n + 1 \in P
    <3>1. UpTo(n + 1) = UpTo(n) \cup {n + 1} /\ n + 1 \notin UpTo(n)
      BY <1>1, <2>9
    <3> HIDE DEF UpTo
    <3>2. Cardinality(UpTo(n) \cup {n + 1}) = Cardinality(UpTo(n)) + 1
      BY <2>7, <3>1, FS_AddElement
    <3>3. Cardinality(ProvenAt(seqs[n + 1])) >= 1
      BY <2>6, <2>9
    <3>4. Cardinality(UpTo(n + 1)) = Cardinality(UpTo(n)) + 1
      BY <3>1, <3>2
    <3>5. Cardinality(ProvenAt(flat[n + 1]))
            = Cardinality(ProvenAt(flat[n])) + Cardinality(ProvenAt(seqs[n + 1]))
      BY <2>4, <2>5
    <3> QED BY <2>6, <2>7, <2>8, <3>3, <3>4, <3>5
  <2>10. CASE n + 1 \notin P
    <3>1. UpTo(n + 1) = UpTo(n)
      BY <1>1, <2>10
    <3> HIDE DEF UpTo
    <3> QED BY <2>4, <2>5, <2>6, <2>7, <2>8, <3>1
  <2> QED BY <2>9, <2>10
<1> HIDE DEF Has
<1>5. 0 \in Good /\ \A n \in Nat : n \in Good => n + 1 \in Good
  BY <1>3, <1>4
<1> HIDE DEF Good
<1>6. Len(seqs) \in Good
  BY <1>1, <1>5, Induction
<1>7. UpTo(Len(seqs)) = P
  BY <1>1
<1> HIDE DEF UpTo
<1> QED BY <1>1, <1>2, <1>6, <1>7 DEF Good, Has

LEMMA FewerFindings ==
  ASSUME NEW seqs, IsList(seqs), \A i \in DOMAIN seqs : IsList(seqs[i]),
         NEW less, IsList(less), \A i \in DOMAIN less : IsList(less[i]),
         Len(less) = Len(seqs), \A i \in DOMAIN seqs : less[i] \in {seqs[i], <<>>}
  PROVE  Cardinality(ProvenAt(FlattenSeq(less))) <= Cardinality(ProvenAt(FlattenSeq(seqs)))
<1>1. DOMAIN seqs = 1 .. Len(seqs) /\ Len(seqs) \in Nat /\ DOMAIN less = 1 .. Len(seqs)
  BY ListOf DEF IsList
<1>2. PICK flat : /\ flat[0] = <<>> /\ FlattenSeq(seqs) = flat[Len(seqs)]
                  /\ \A n \in 0 .. Len(seqs) : IsList(flat[n])
                  /\ \A n \in Nat : n + 1 <= Len(seqs) => flat[n + 1] = flat[n] \o seqs[n + 1]
  BY FlattenSteps
<1>3. PICK low : /\ low[0] = <<>> /\ FlattenSeq(less) = low[Len(less)]
                 /\ \A n \in 0 .. Len(less) : IsList(low[n])
                 /\ \A n \in Nat : n + 1 <= Len(less) => low[n + 1] = low[n] \o less[n + 1]
  BY FlattenSteps
<1> DEFINE Has(n) == n <= Len(seqs) =>
                       Cardinality(ProvenAt(low[n])) <= Cardinality(ProvenAt(flat[n]))
           Good   == {n \in Nat : Has(n)}
<1>4. Has(0)
  <2>1. IsList(flat[0]) /\ low[0] = flat[0]
    BY <1>1, <1>2, <1>3
  <2>2. Cardinality(ProvenAt(flat[0])) \in Nat
    BY <2>1, ProvenCount
  <2> QED BY <2>1, <2>2
<1>5. ASSUME NEW n \in Nat, Has(n) PROVE Has(n + 1)
  <2>1. SUFFICES ASSUME n + 1 <= Len(seqs)
                 PROVE  Cardinality(ProvenAt(low[n + 1])) <= Cardinality(ProvenAt(flat[n + 1]))
    OBVIOUS
  <2>2. n \in 0 .. Len(seqs) /\ n + 1 \in DOMAIN seqs
    BY <1>1, <2>1
  <2>3. IsList(flat[n]) /\ IsList(seqs[n + 1]) /\ IsList(low[n]) /\ IsList(less[n + 1])
    BY <1>1, <1>2, <1>3, <2>2
  <2>4. Cardinality(ProvenAt(flat[n] \o seqs[n + 1]))
          = Cardinality(ProvenAt(flat[n])) + Cardinality(ProvenAt(seqs[n + 1]))
    BY <2>3, ProvenJoined
  <2>5. Cardinality(ProvenAt(low[n] \o less[n + 1]))
          = Cardinality(ProvenAt(low[n])) + Cardinality(ProvenAt(less[n + 1]))
    BY <2>3, ProvenJoined
  <2>6. flat[n + 1] = flat[n] \o seqs[n + 1] /\ low[n + 1] = low[n] \o less[n + 1]
    BY <1>2, <1>3, <2>1
  <2>7. /\ Cardinality(ProvenAt(flat[n])) \in Nat /\ Cardinality(ProvenAt(seqs[n + 1])) \in Nat
        /\ Cardinality(ProvenAt(low[n])) \in Nat /\ Cardinality(ProvenAt(less[n + 1])) \in Nat
    BY <2>3, ProvenCount
  <2>8. Cardinality(ProvenAt(low[n])) <= Cardinality(ProvenAt(flat[n]))
    BY <1>1, <1>5, <2>1
  <2>9. Cardinality(ProvenAt(less[n + 1])) <= Cardinality(ProvenAt(seqs[n + 1]))
    <3>1. CASE less[n + 1] = seqs[n + 1]
      BY <2>7, <3>1
    <3>2. CASE less[n + 1] = <<>>
      <4>1. ProvenAt(less[n + 1]) = {}
        BY <3>2 DEF ProvenAt
      <4>2. Cardinality(ProvenAt(less[n + 1])) = 0
        BY <4>1, FS_EmptySet
      <4> QED BY <2>7, <4>2
    <3> QED BY <2>2, <3>1, <3>2
  <2> QED BY <2>4, <2>5, <2>6, <2>7, <2>8, <2>9
<1> HIDE DEF Has
<1>6. 0 \in Good /\ \A n \in Nat : n \in Good => n + 1 \in Good
  BY <1>4, <1>5
<1> HIDE DEF Good
<1>7. Len(seqs) \in Good
  BY <1>1, <1>6, Induction
<1> QED BY <1>1, <1>2, <1>3, <1>7 DEF Good, Has

LEMMA NoFindings ==
  ASSUME NEW seqs, IsList(seqs), \A i \in DOMAIN seqs : seqs[i] = <<>>
  PROVE  Cardinality(ProvenAt(FlattenSeq(seqs))) = 0
<1>1. IsList(<<>>) /\ Range(<<>>) = {}
  BY DEF IsList, Range
<1>2. \A i \in DOMAIN seqs : IsList(seqs[i]) /\ Range(seqs[i]) = {}
  BY <1>1
<1>3. Range(FlattenSeq(seqs)) = {}
  BY <1>2, FlattenRange
<1>4. ProvenAt(FlattenSeq(seqs)) = {}
  BY <1>3 DEF Range, ProvenAt
<1> QED BY <1>4, FS_EmptySet

(* The list that alone has elements of S is what is left of all.           *)
LEMMA OnlyPart ==
  ASSUME NEW seqs, IsList(seqs), \A i \in DOMAIN seqs : IsList(seqs[i]),
         NEW k \in DOMAIN seqs, NEW S, Range(seqs[k]) \subseteq S,
         \A i \in DOMAIN seqs : i # k => Range(seqs[i]) \cap S = {}
  PROVE  Among(FlattenSeq(seqs), S) = seqs[k]
<1>1. DOMAIN seqs = 1 .. Len(seqs) /\ Len(seqs) \in Nat
  BY ListOf DEF IsList
<1>2. PICK flat : /\ flat[0] = <<>> /\ FlattenSeq(seqs) = flat[Len(seqs)]
                  /\ \A n \in 0 .. Len(seqs) : IsList(flat[n])
                  /\ \A n \in Nat : n + 1 <= Len(seqs) => flat[n + 1] = flat[n] \o seqs[n + 1]
  BY FlattenSteps
<1>0. /\ IsList(<<>>) /\ Range(<<>>) = {} /\ IsList(seqs[k])
      /\ seqs[k] \o <<>> = seqs[k] /\ <<>> \o seqs[k] = seqs[k] /\ <<>> \o <<>> = <<>>
  BY DEF IsList, Range
<1> DEFINE Has(n) == n <= Len(seqs) => Among(flat[n], S) = IF n < k THEN <<>> ELSE seqs[k]
           Good   == {n \in Nat : Has(n)}
<1>3. Has(0)
  <2>1. Among(<<>>, S) = <<>>
    BY <1>0, AmongAllOrNone
  <2>2. 0 < k
    BY <1>1
  <2> QED BY <1>2, <2>1, <2>2
<1>4. ASSUME NEW n \in Nat, Has(n) PROVE Has(n + 1)
  <2>1. SUFFICES ASSUME n + 1 <= Len(seqs)
                 PROVE  Among(flat[n + 1], S) = IF n + 1 < k THEN <<>> ELSE seqs[k]
    BY Zenon
  <2>2. n \in 0 .. Len(seqs) /\ n + 1 \in DOMAIN seqs /\ k \in Nat /\ n <= Len(seqs)
    BY <1>1, <2>1
  <2>3. IsList(flat[n]) /\ IsList(seqs[n + 1])
    BY <1>2, <2>2
  <2>4. flat[n + 1] = flat[n] \o seqs[n + 1]
    BY <1>2, <2>1
  <2>5. Among(flat[n] \o seqs[n + 1], S) = Among(flat[n], S) \o Among(seqs[n + 1], S)
    BY <2>3, AmongJoined
  <2>6. Among(flat[n], S) = IF n < k THEN <<>> ELSE seqs[k]
    BY <1>4, <2>2
  <2>7. CASE n + 1 = k
    <3>1. Among(seqs[n + 1], S) = seqs[k]
      BY <2>3, <2>7, AmongAllOrNone
    <3>2. Among(flat[n], S) = <<>>
      BY <2>2, <2>6, <2>7
    <3>3. ~ (n + 1 < k)
      BY <2>7, <2>2
    <3> QED BY <1>0, <2>4, <2>5, <3>1, <3>2, <3>3
  <2>8. CASE n + 1 # k
    <3>1. Among(seqs[n + 1], S) = <<>>
      BY <2>2, <2>3, <2>8, AmongAllOrNone
    <3>2. n < k <=> n + 1 < k
      BY <2>2, <2>8
    <3> QED BY <1>0, <2>4, <2>5, <2>6, <3>1, <3>2
  <2> QED BY <2>7, <2>8
<1> HIDE DEF Has
<1>5. 0 \in Good /\ \A n \in Nat : n \in Good => n + 1 \in Good
  BY <1>3, <1>4
<1> HIDE DEF Good
<1>6. Len(seqs) \in Good
  BY <1>1, <1>5, Induction
<1>7. ~ (Len(seqs) < k) /\ Len(seqs) <= Len(seqs)
  BY <1>1
<1> QED BY <1>2, <1>6, <1>7 DEF Good, Has

-----------------------------------------------------------------------------
(* What an intake says of itself.                                          *)
AddsUp(x) ==
  /\ x.ready + SumOf(x.blocked) = x.proven
  /\ x.silent >= 0 /\ x.silent + x.proven <= x.models
  /\ SumOf([rule \in DOMAIN x.families |-> x.families[rule].proven]) = x.findings
  /\ x.findings >= x.proven
  /\ SumOf([rule \in DOMAIN x.families |-> x.families[rule].ready]) <= x.findings
  /\ x.ready = 0 <=> SumOf([rule \in DOMAIN x.families |-> x.families[rule].ready]) = 0

(* What blocks the findings of a result.                                   *)
Blockers == {"source_sql_normalized", "no_matching_source_model",
             "compiled_sql_not_directly_applicable"}
BlockedBy(b) == {i \in DOMAIN results : HasProven(results[i]) /\ ApplyBlocker(results[i]) = b}

LEMMA IntakeCounts ==
  /\ Intake.models = models /\ Intake.silent = models - Len(results)
  /\ Intake.proven = Cardinality(FindingResults) /\ Intake.ready = Cardinality(ReadyResults)
  /\ Intake.blocked = [b \in Blockers |-> Cardinality(BlockedBy(b))]
  BY DEF Intake, Quantify, FindingResults, ReadyResults, Blockers, BlockedBy

LEMMA IntakeFamilies ==
  /\ Intake.findings = Len(Proven(FlattenSeq(Parts)))
  /\ DOMAIN Intake.families = {s.rule : s \in Range(FlattenSeq(Parts))}
  /\ \A rule \in DOMAIN Intake.families :
       /\ Intake.families[rule].proven = Len(Proven(RuleOf(FlattenSeq(Parts), rule)))
       /\ Intake.families[rule].ready = Len(Proven(RuleOf(FlattenSeq(ReadyParts), rule)))
<1>1. Intake.findings = Len(Proven(FlattenSeq(Parts)))
  BY DEF Intake, Metrics, Parts
<1>2. Intake.families = Families
  BY DEF Intake
<1>3. Families = [rule \in {s.rule : s \in Range(FlattenSeq(Parts))} |->
                    [count  |-> Len(RuleOf(FlattenSeq(Parts), rule)),
                     proven |-> Len(Proven(RuleOf(FlattenSeq(Parts), rule))),
                     ready  |-> Len(Proven(RuleOf(FlattenSeq(ReadyParts), rule)))]]
  BY DEF Families, Metrics, Parts, ReadyParts, RuleOf
<1> HIDE DEF Parts, ReadyParts
<1> QED BY <1>1, <1>2, <1>3

(* A finding is ready, or blocked for one of the reasons that have a name. *)
LEMMA ReadyOrBlocked ==
  ASSUME IsList(results)
  PROVE  /\ Cardinality(ReadyResults) + SumOf([b \in Blockers |-> Cardinality(BlockedBy(b))])
              = Cardinality(FindingResults)
         /\ Cardinality(ReadyResults) \in Nat /\ Cardinality(FindingResults) \in Nat
         /\ Cardinality(FindingResults) <= Len(results)
         /\ ReadyResults \subseteq FindingResults /\ FindingResults \subseteq DOMAIN results
         /\ Cardinality(ReadyResults) = 0 => ReadyResults = {}
<1> DEFINE A == [b \in Blockers |-> BlockedBy(b)]
           f == [b \in Blockers |-> Cardinality(BlockedBy(b))]
<1>1. ReadyResults \subseteq FindingResults /\ FindingResults \subseteq DOMAIN results
      /\ \A b \in Blockers : BlockedBy(b) \subseteq DOMAIN results
  BY DEF ReadyResults, FindingResults, ApplyReady, BlockedBy
<1>2. /\ IsFiniteSet(ReadyResults) /\ Cardinality(ReadyResults) \in Nat
      /\ IsFiniteSet(FindingResults) /\ Cardinality(FindingResults) \in Nat
      /\ Cardinality(FindingResults) <= Len(results)
      /\ \A b \in Blockers : IsFiniteSet(BlockedBy(b))
  <2>1. ReadyResults \subseteq DOMAIN results
    BY <1>1
  <2> QED BY <1>1, <2>1, PlacesAreFinite
<1>3. IsFiniteSet(Blockers)
  <2>1. Blockers = ({} \cup {"source_sql_normalized"}) \cup {"no_matching_source_model"}
                     \cup {"compiled_sql_not_directly_applicable"}
    BY DEF Blockers
  <2>2. IsFiniteSet({} \cup {"source_sql_normalized"})
    BY FS_EmptySet, FS_AddElement
  <2>3. IsFiniteSet(({} \cup {"source_sql_normalized"}) \cup {"no_matching_source_model"})
    BY <2>2, FS_AddElement
  <2> QED BY <2>1, <2>3, FS_AddElement
<1>4. \A b, e \in Blockers : b # e => A[b] \cap A[e] = {}
  BY DEF BlockedBy
<1>5. UNION {A[b] : b \in Blockers} = FindingResults \ ReadyResults
  <2>1. \A b \in Blockers : A[b] \subseteq FindingResults \ ReadyResults
    BY DEF BlockedBy, FindingResults, ReadyResults, ApplyBlocker, Blockers
  <2>2. ASSUME NEW i \in FindingResults \ ReadyResults PROVE \E b \in Blockers : i \in A[b]
    <3>1. HasProven(results[i]) /\ ~ ApplyReady(results[i]) /\ i \in DOMAIN results
      BY DEF FindingResults, ReadyResults
    <3>2. ApplyBlocker(results[i]) \in Blockers
      BY <3>1 DEF ApplyBlocker, Blockers
    <3>3. i \in BlockedBy(ApplyBlocker(results[i]))
      BY <3>1 DEF BlockedBy
    <3> QED BY <3>2, <3>3
  <2> HIDE DEF A
  <2> QED BY <2>1, <2>2
<1>6. SumOf(f) = Cardinality(UNION {A[b] : b \in Blockers})
  <2>1. \A b \in Blockers : IsFiniteSet(A[b])
    BY <1>2
  <2>2. f = [b \in Blockers |-> Cardinality(A[b])]
    OBVIOUS
  <2> HIDE DEF A, f
  <2> QED BY <1>3, <1>4, <2>1, <2>2, SizesAddUp
<1>7. Cardinality(FindingResults \ ReadyResults)
        = Cardinality(FindingResults) - Cardinality(ReadyResults)
  <2>1. FindingResults \cap ReadyResults = ReadyResults
    BY <1>1
  <2>2. Cardinality(FindingResults \ ReadyResults)
          = Cardinality(FindingResults) - Cardinality(FindingResults \cap ReadyResults)
    BY <1>2, FS_Difference
  <2> QED BY <2>1, <2>2
<1>8. Cardinality(ReadyResults) = 0 => ReadyResults = {}
  BY <1>2, FS_EmptySet
<1> HIDE DEF A, f
<1>9. SumOf(f) = Cardinality(FindingResults) - Cardinality(ReadyResults)
  BY <1>5, <1>6, <1>7
<1>10. Cardinality(ReadyResults) + SumOf(f) = Cardinality(FindingResults)
  BY <1>2, <1>9
<1> QED BY <1>1, <1>2, <1>8, <1>10 DEF f

(* The families hold every finding.                                        *)
LEMMA FindingsInFamilies ==
  ASSUME IsList(results), \A r \in Range(results) : IsFinding(r)
  PROVE  /\ SumOf([rule \in DOMAIN Intake.families |-> Intake.families[rule].proven])
              = Cardinality(ProvenAt(FlattenSeq(Parts)))
         /\ SumOf([rule \in DOMAIN Intake.families |-> Intake.families[rule].ready])
              = Cardinality(ProvenAt(FlattenSeq(ReadyParts)))
         /\ Intake.findings = Cardinality(ProvenAt(FlattenSeq(Parts)))
<1> DEFINE all   == FlattenSeq(Parts)
           ready == FlattenSeq(ReadyParts)
           D     == {s.rule : s \in Range(all)}
           f     == [rule \in D |-> Len(Proven(RuleOf(all, rule)))]
           g     == [rule \in D |-> Len(Proven(RuleOf(ready, rule)))]
<1>1. /\ IsList(Parts) /\ IsList(ReadyParts) /\ DOMAIN Parts = DOMAIN ReadyParts
      /\ \A i \in DOMAIN Parts : IsList(Parts[i]) /\ IsList(ReadyParts[i])
      /\ \A i \in DOMAIN Parts : ReadyParts[i] \in {Parts[i], <<>>}
  <2>1. \A i \in DOMAIN results : ReadyParts[i] \in {Parts[i], <<>>}
    BY DEF Parts, ReadyParts
  <2> QED BY <2>1, PartsAreLists
<1>2. /\ IsList(all) /\ IsList(ready)
      /\ \A x \in Range(ready) : \E i \in DOMAIN Parts : x \in Range(ReadyParts[i])
      /\ \A i \in DOMAIN Parts : Range(Parts[i]) \subseteq Range(all)
  BY <1>1, FlattenRange
<1>3. Range(ready) \subseteq Range(all)
  <2>1. Range(<<>>) = {}
    BY DEF Range
  <2>2. ASSUME NEW x \in Range(ready) PROVE x \in Range(all)
    <3>1. PICK i \in DOMAIN Parts : x \in Range(ReadyParts[i])
      BY <1>2
    <3>2. x \in Range(Parts[i])
      BY <1>1, <2>1, <3>1
    <3> QED BY <1>2, <3>2
  <2> QED BY <2>2
<1> HIDE DEF all, ready
<1>4. IsFiniteSet(D) /\ (\A x \in Range(all) : x.rule \in D) /\ (\A x \in Range(ready) : x.rule \in D)
  <2>1. IsFiniteSet(DOMAIN all)
    BY <1>2, PlacesAreFinite
  <2> DEFINE h == [i \in DOMAIN all |-> all[i].rule]
  <2>2. h \in [DOMAIN all -> D] /\ \A d \in D : \E i \in DOMAIN all : h[i] = d
    BY DEF Range
  <2> HIDE DEF h
  <2>3. h \in Surjection(DOMAIN all, D)
    BY <2>2 DEF Surjection
  <2>4. IsFiniteSet(D)
    BY <2>1, <2>3, FS_Surjection DEF ExistsSurjection
  <2>5. \A x \in Range(all) : x.rule \in D
    OBVIOUS
  <2> QED BY <1>3, <2>4, <2>5
<1> HIDE DEF D
<1>5. SumOf(f) = Len(Proven(all))
  BY <1>2, <1>4, FamiliesAddUp
<1>6. SumOf(g) = Len(Proven(ready))
  BY <1>2, <1>4, FamiliesAddUp
<1>7. Len(Proven(all)) = Cardinality(ProvenAt(all)) /\ Len(Proven(ready)) = Cardinality(ProvenAt(ready))
  BY <1>2, ProvenCount
<1>8. /\ DOMAIN Intake.families = D /\ Intake.findings = Len(Proven(all))
      /\ \A rule \in D : /\ Intake.families[rule].proven = Len(Proven(RuleOf(all, rule)))
                         /\ Intake.families[rule].ready = Len(Proven(RuleOf(ready, rule)))
  BY IntakeFamilies DEF all, ready, D
<1>9. [rule \in DOMAIN Intake.families |-> Intake.families[rule].proven] = f
  BY <1>8
<1>10. [rule \in DOMAIN Intake.families |-> Intake.families[rule].ready] = g
  BY <1>8
<1> HIDE DEF f, g
<1> QED BY <1>5, <1>6, <1>7, <1>8, <1>9, <1>10 DEF all, ready

LEMMA IntakeIsExact ==
  ASSUME IsList(results), \A r \in Range(results) : IsFinding(r),
         models \in Nat, Len(results) <= models
  PROVE  AddsUp(Intake)
<1> DEFINE found == Cardinality(ProvenAt(FlattenSeq(Parts)))
           ready == Cardinality(ProvenAt(FlattenSeq(ReadyParts)))
<1>1. /\ IsList(Parts) /\ DOMAIN Parts = DOMAIN results
      /\ IsList(ReadyParts) /\ DOMAIN ReadyParts = DOMAIN results
      /\ \A i \in DOMAIN Parts : IsList(Parts[i])
      /\ \A i \in DOMAIN ReadyParts : IsList(ReadyParts[i])
      /\ \A i \in FindingResults : ProvenAt(Parts[i]) # {}
      /\ Len(Parts) = Len(results) /\ Len(ReadyParts) = Len(results) /\ Len(results) \in Nat
  BY PartsAreLists
<1>2. /\ \A i \in DOMAIN results : ReadyParts[i] \in {Parts[i], <<>>}
      /\ \A i \in ReadyResults : ReadyParts[i] = Parts[i]
      /\ \A i \in DOMAIN results : i \notin ReadyResults => ReadyParts[i] = <<>>
  BY DEF Parts, ReadyParts, ReadyResults
<1>3. /\ Cardinality(ReadyResults) + SumOf([b \in Blockers |-> Cardinality(BlockedBy(b))])
           = Cardinality(FindingResults)
      /\ Cardinality(ReadyResults) \in Nat /\ Cardinality(FindingResults) \in Nat
      /\ Cardinality(FindingResults) <= Len(results)
      /\ ReadyResults \subseteq FindingResults /\ FindingResults \subseteq DOMAIN results
      /\ Cardinality(ReadyResults) = 0 => ReadyResults = {}
  BY ReadyOrBlocked
<1>4. Cardinality(FindingResults) <= found
  BY <1>1, <1>3, FlattenedFindings
<1>5. Cardinality(ReadyResults) <= ready
  <2>1. \A i \in ReadyResults : ProvenAt(ReadyParts[i]) # {}
    BY <1>1, <1>2, <1>3
  <2>2. ReadyResults \subseteq DOMAIN ReadyParts
    BY <1>1, <1>3
  <2> QED BY <1>1, <2>1, <2>2, FlattenedFindings
<1>6. ready <= found
  BY <1>1, <1>2, FewerFindings
<1>7. Cardinality(ReadyResults) = 0 => ready = 0
  BY <1>1, <1>2, <1>3, NoFindings
<1>8. found \in Nat /\ ready \in Nat
  <2>1. IsList(FlattenSeq(Parts)) /\ IsList(FlattenSeq(ReadyParts))
    BY <1>1, FlattenRange
  <2> QED BY <2>1, ProvenCount
<1>9. /\ SumOf([rule \in DOMAIN Intake.families |-> Intake.families[rule].proven]) = found
      /\ SumOf([rule \in DOMAIN Intake.families |-> Intake.families[rule].ready]) = ready
      /\ Intake.findings = found
  BY FindingsInFamilies
<1>10. /\ Intake.models = models /\ Intake.silent = models - Len(results)
       /\ Intake.proven = Cardinality(FindingResults) /\ Intake.ready = Cardinality(ReadyResults)
       /\ SumOf(Intake.blocked) = SumOf([b \in Blockers |-> Cardinality(BlockedBy(b))])
  BY IntakeCounts
<1> HIDE DEF found, ready
<1>11. Intake.ready + SumOf(Intake.blocked) = Intake.proven
  BY <1>3, <1>10
<1>12. Intake.silent >= 0 /\ Intake.silent + Intake.proven <= Intake.models
  BY <1>1, <1>3, <1>10
<1>13. Intake.findings >= Intake.proven
  BY <1>3, <1>4, <1>8, <1>9, <1>10
<1>14. Intake.ready = 0 <=> ready = 0
  BY <1>3, <1>5, <1>7, <1>8, <1>10
<1> QED BY <1>6, <1>9, <1>11, <1>12, <1>13, <1>14 DEF AddsUp

-----------------------------------------------------------------------------
(* The steps of a chain.                                                   *)
ProofsOf(catalog, u) ==
  (IF About[u].parses THEN Proven(SuggestRewrites(catalog, u)) ELSE <<>>)
    \o SuggestSubtree(catalog, u)

OneStep(catalog, t, before) ==
  LET found == ProofsOf(catalog, IF before = <<>> THEN t ELSE Last(before).to)
  IN  IF found = <<>> \/ Head(found).to \in {t} \cup {s.to : s \in Range(before)}
      THEN before ELSE Append(before, Head(found))

Stepping(catalog, t, steps, n) ==
  steps = [i \in 0 .. n |-> IF i = 0 THEN <<>> ELSE OneStep(catalog, t, steps[i - 1])]

LEMMA SteppingExists ==
  ASSUME NEW catalog, NEW t, NEW n \in Nat
  PROVE  \E steps : Stepping(catalog, t, steps, n)
<1> DEFINE Good == {m \in Nat : \E steps : Stepping(catalog, t, steps, m)}
<1>1. 0 \in Good
  <2>1. Stepping(catalog, t, [i \in 0 .. 0 |-> <<>>], 0)
    BY DEF Stepping
  <2> QED BY <2>1
<1>2. ASSUME NEW m \in Nat, m \in Good PROVE m + 1 \in Good
  <2>1. PICK steps : Stepping(catalog, t, steps, m)
    BY <1>2
  <2> DEFINE more == [i \in 0 .. m + 1 |->
                        IF i = m + 1 THEN OneStep(catalog, t, steps[m]) ELSE steps[i]]
  <2>2. \A i \in 0 .. m : more[i] = steps[i]
    OBVIOUS
  <2>3. \A i \in 0 .. m : steps[i] = IF i = 0 THEN <<>> ELSE OneStep(catalog, t, steps[i - 1])
    BY <2>1 DEF Stepping
  <2>4. more[m + 1] = OneStep(catalog, t, more[m])
    BY <2>2
  <2>5. more = [i \in 0 .. m + 1 |-> more[i]]
    OBVIOUS
  <2> HIDE DEF more
  <2>6. ASSUME NEW i \in 0 .. m + 1
        PROVE  more[i] = IF i = 0 THEN <<>> ELSE OneStep(catalog, t, more[i - 1])
    <3>1. CASE i = m + 1
      BY <2>4, <3>1
    <3>2. CASE i \in 0 .. m
      <4>1. i = 0 \/ i - 1 \in 0 .. m
        BY <3>2
      <4> QED BY <2>2, <2>3, <3>2, <4>1
    <3> QED BY <3>1, <3>2
  <2>7. Stepping(catalog, t, more, m + 1)
    BY <2>5, <2>6 DEF Stepping
  <2> QED BY <2>7
<1> HIDE DEF Good
<1>3. Nat \subseteq Good
  BY <1>1, <1>2, Induction
<1> QED BY <1>3 DEF Good

LEMMA ChainUnfolds ==
  ASSUME NEW catalog, NEW t
  PROVE  \E steps : ChainOf(catalog, t) = steps[MaxChainSteps]
                    /\ Stepping(catalog, t, steps, MaxChainSteps)
<1> DEFINE steps == CHOOSE steps : Stepping(catalog, t, steps, MaxChainSteps)
<1>1. Stepping(catalog, t, steps, MaxChainSteps)
  BY SteppingExists, MaxChainStepsAssumption
<1>2. ChainOf(catalog, t) = steps[MaxChainSteps]
  BY DEF ChainOf, Stepping, OneStep, ProofsOf
<1> QED BY <1>1, <1>2

(* Every step of a chain is proven.                                        *)
ProvenSteps(s) == IsList(s) /\ \A x \in Range(s) : IsProven(x) /\ x.to \in Text

LEMMA LastOfList ==
  ASSUME NEW s, IsList(s), s # <<>>
  PROVE  Last(s) \in Range(s)
<1>1. s \in Seq(Range(s)) /\ DOMAIN s = 1 .. Len(s) /\ Len(s) \in Nat
      /\ \A i \in DOMAIN s : s[i] \in Range(s)
  BY ListOf DEF IsList
<1>2. Len(s) \in DOMAIN s
  BY <1>1
<1> QED BY <1>1, <1>2 DEF Last

LEMMA ProofsAreProven ==
  ASSUME NEW said \in [SchemaFile -> Payloads], NEW u \in Text
  PROVE  ProvenSteps(ProofsOf(LoadProjectConstraints(said), u))
<1> DEFINE catalog == LoadProjectConstraints(said)
           whole   == IF About[u].parses THEN Proven(SuggestRewrites(catalog, u)) ELSE <<>>
           subtree == SuggestSubtree(catalog, u)
           parts   == [i \in DOMAIN About[u].parts |-> Suggestion(catalog, u, About[u].parts[i])]
<1>1. /\ AllSound(catalog, SuggestRewrites(catalog, u)) /\ AllSound(catalog, subtree)
  BY RulesAreSuggested
<1> HIDE DEF catalog
<1>2. IsList(<<>>) /\ Range(<<>>) = {}
  BY DEF IsList, Range
<1>3. IsList(whole) /\ \A x \in Range(whole) : IsProven(x) /\ x.to \in Text
  BY <1>1, <1>2, ProvenRange DEF AllSound, SoundFor
<1>4. IsList(subtree) /\ \A x \in Range(subtree) : IsProven(x) /\ x.to \in Text
  <2>1. IsList(About[u].parts)
    BY TextsAssumption
  <2>2. IsList(parts)
    <3>1. parts = [i \in DOMAIN About[u].parts |-> Suggestion(catalog, u, About[u].parts[i])]
      OBVIOUS
    <3> HIDE DEF parts
    <3> QED BY <2>1, <3>1, SuggestionsOfRules
  <2>3. subtree = Proven(parts)
    BY DEF SuggestSubtree
  <2> HIDE DEF parts
  <2>4. \A x \in Range(subtree) : IsProven(x)
    BY <2>2, <2>3, ProvenRange
  <2> QED BY <1>1, <2>4 DEF AllSound, SoundFor
<1>5. ProofsOf(catalog, u) = whole \o subtree
  BY DEF ProofsOf
<1> HIDE DEF whole, subtree
<1> QED BY <1>3, <1>4, <1>5, ListsTogether DEF ProvenSteps, catalog

LEMMA ChainIsProven ==
  ASSUME NEW said \in [SchemaFile -> Payloads], NEW t \in Text
  PROVE  ProvenSteps(ChainOf(LoadProjectConstraints(said), t))
<1> DEFINE catalog == LoadProjectConstraints(said)
<1>1. \A u \in Text : ProvenSteps(ProofsOf(catalog, u))
  BY ProofsAreProven
<1> HIDE DEF catalog
<1>2. PICK steps : ChainOf(catalog, t) = steps[MaxChainSteps]
                   /\ Stepping(catalog, t, steps, MaxChainSteps)
  BY ChainUnfolds
<1>3. \A i \in 0 .. MaxChainSteps :
        steps[i] = IF i = 0 THEN <<>> ELSE OneStep(catalog, t, steps[i - 1])
  BY <1>2 DEF Stepping
<1> DEFINE Has(n) == n <= MaxChainSteps => ProvenSteps(steps[n])
           Good   == {n \in Nat : Has(n)}
<1>4. Has(0)
  <2>1. steps[0] = <<>>
    BY <1>3, MaxChainStepsAssumption
  <2>2. IsList(<<>>) /\ Range(<<>>) = {}
    BY DEF IsList, Range
  <2> QED BY <2>1, <2>2 DEF ProvenSteps
<1>5. ASSUME NEW n \in Nat, Has(n) PROVE Has(n + 1)
  <2>1. SUFFICES ASSUME n + 1 <= MaxChainSteps PROVE ProvenSteps(steps[n + 1])
    OBVIOUS
  <2> DEFINE before == steps[n]
             u      == IF before = <<>> THEN t ELSE Last(before).to
             found  == ProofsOf(catalog, u)
  <2>2. steps[n + 1] = OneStep(catalog, t, before)
    BY <1>3, <2>1, MaxChainStepsAssumption
  <2>3. ProvenSteps(before)
    BY <1>5, <2>1, MaxChainStepsAssumption
  <2>4. u \in Text
    BY <2>3, LastOfList DEF ProvenSteps
  <2>5. ProvenSteps(found)
    BY <1>1, <2>4
  <2>6. steps[n + 1] = before \/ (found # <<>> /\ steps[n + 1] = Append(before, Head(found)))
    BY <2>2 DEF OneStep
  <2> HIDE DEF before, found
  <2>7. found # <<>> => ProvenSteps(Append(before, Head(found)))
    BY <2>3, <2>5, EndsOfList, OneMore DEF ProvenSteps
  <2> QED BY <2>3, <2>6, <2>7
<1> HIDE DEF Has
<1>6. 0 \in Good /\ \A n \in Nat : n \in Good => n + 1 \in Good
  BY <1>4, <1>5
<1> HIDE DEF Good
<1>7. MaxChainSteps \in Good
  BY <1>6, Induction, MaxChainStepsAssumption
<1> QED BY <1>2, <1>7, MaxChainStepsAssumption DEF Good, Has, catalog

(* What a scan finds in a model.                                           *)
LEMMA ScanFinds ==
  ASSUME NEW said \in [SchemaFile -> Payloads], NEW t \in Text, NEW c
  PROVE  IsFinding(ScanModel(LoadProjectConstraints(said), t, c))
<1> DEFINE catalog == LoadProjectConstraints(said)
           found   == ScanModel(catalog, t, c)
<1>1. IsList(found.suggestions)
  BY ScanIsSound DEF AllSound
<1>2. ProvenSteps(ChainOf(catalog, Preprocess(t).sql))
  BY PreprocessIsText, ChainIsProven
<1> HIDE DEF catalog
<1>3. found.chain = None \/ (found.chain = ChainOf(catalog, Preprocess(t).sql) /\ found.chain # <<>>)
  BY DEF ScanModel
<1> HIDE DEF found
<1> QED BY <1>1, <1>2, <1>3 DEF IsFinding, ProvenSteps, found, catalog

-----------------------------------------------------------------------------
(* What is counted, and what the patch files hold.                         *)
CountInv ==
  /\ \A r \in Range(results) : IsFinding(r)
  /\ phase = "model" /\ looked # None => IsFinding(looked)
  /\ phase \in {"schema", "model"} => models \in Nat /\ Len(results) + Len(left) <= models
  /\ phase \in {"discover", "schema", "model"} => report = None /\ listed = <<>>
  /\ phase \in {"patches", "report"} => command.kind = "scan"

Key(p) == <<p.model, p.rule>>

InFiles(patches, files) ==
  \A n \in DOMAIN patches : \E k \in DOMAIN patches :
    /\ k >= n /\ Key(patches[k]) = Key(patches[n])
    /\ Key(patches[k]) \in DOMAIN files /\ files[Key(patches[k])] = patches[k].diff

PatchInv ==
  /\ phase = "patches" => /\ IsList(listed) /\ IsList(todo) /\ listed \o todo = Diffs
                          /\ InFiles(listed, patchDir)
  /\ phase = "report" /\ command.then = "patches" => listed = Diffs /\ InFiles(listed, patchDir)

LEMMA LengthOfEnds ==
  ASSUME NEW s, IsList(s)
  PROVE  /\ Len(s) \in Nat /\ \A x : Len(Append(s, x)) = Len(s) + 1
         /\ s # <<>> => Len(Tail(s)) = Len(s) - 1 /\ Len(s) >= 1
<1>1. s \in Seq(Range(s)) /\ Len(s) \in Nat
  BY DEF IsList
<1>2. ASSUME NEW x PROVE Len(Append(s, x)) = Len(s) + 1
  <2>1. s \in Seq(Range(s) \cup {x})
    BY <1>1
  <2> QED BY <2>1
<1>3. s # <<>> => Len(Tail(s)) = Len(s) - 1 /\ Len(s) >= 1
  BY <1>1
<1> QED BY <1>1, <1>2, <1>3

LEMMA CountInvKept ==
  ASSUME ProjectInv, SchemaInv, FoundInv, CountInv, [Next]_vars
  PROVE  CountInv'
<1> USE DEF asking, reading, scanning, writing, past
<1>1. ASSUME NEW c \in Commands, Start(c) PROVE CountInv'
  <2>1. /\ phase' \in {"idle", "discover"} /\ results' = <<>> /\ looked' = None
        /\ report' = None /\ listed' = <<>>
    BY <1>1 DEF Start
  <2>2. Range(<<>>) = {}
    BY DEF Range
  <2> QED BY <2>1, <2>2 DEF CountInv
<1>2. CASE Discover
  <2>1. CASE End("error")
    BY <1>2, <2>1 DEF Discover, End, CountInv
  <2>2. CASE ~ End("error")
    <3>1. PICK dir : /\ left' = IF only = None THEN DiscoverModels(dir)
                                ELSE Among(DiscoverModels(dir), only)
                     /\ models' = Len(left')
      BY <1>2, <2>2 DEF Discover
    <3>2. /\ phase = "discover" /\ phase' = "schema"
          /\ UNCHANGED <<results, looked, report, listed>>
      BY <1>2, <2>2 DEF Discover
    <3>3. IsList(left')
      BY <3>1, ModelsToScan, AmongRange
    <3>4. models' \in Nat
      BY <3>1, <3>3, LengthOfEnds
    <3>5. results' = <<>> /\ Len(<<>>) = 0 /\ Range(<<>>) = {}
      BY <3>2 DEF FoundInv, Range
    <3> QED BY <3>1, <3>2, <3>4, <3>5 DEF CountInv
  <2> QED BY <2>1, <2>2
<1>3. CASE LoadSchema
  <2>1. /\ phase = "schema" /\ phase' \in {"schema", "model"}
        /\ UNCHANGED <<left, looked, results, models, report, listed>>
    BY <1>3 DEF LoadSchema
  <2>2. looked = None
    BY <2>1 DEF FoundInv
  <2> QED BY <2>1, <2>2 DEF CountInv
<1>4. CASE Scan
  <2>1. CASE End("error")
    BY <1>4, <2>1 DEF Scan, End, CountInv
  <2>2. CASE ~ End("error")
    <3>1. /\ phase = "model" /\ left # <<>> /\ ContentsOf(Head(left)) # None
          /\ UNCHANGED <<phase, results, models, report, listed>>
      BY <1>4, <2>2 DEF Scan
    <3>2. /\ IsList(left) /\ Head(left) \in ModelsOf(command.dir)
      BY <3>1, EndsOfList DEF FoundInv
    <3> DEFINE found == ScanModel(LoadProjectConstraints(payloads), ContentsOf(Head(left)), command)
    <3>3. IsFinding(found)
      BY <3>1, <3>2, ContentsAreText, ScanFinds DEF SchemaInv, HaveRead
    <3>4. \/ left' = Tail(left) /\ looked' = looked
          \/ looked' = found /\ left' = left
      BY <1>4, <2>2 DEF Scan
    <3>5. looked = None
      BY <1>4 DEF Scan
    <3> HIDE DEF found
    <3>6. Len(left) \in Nat /\ Len(Tail(left)) = Len(left) - 1 /\ Len(results) \in Nat
      BY <3>1, <3>2, LengthOfEnds DEF FoundInv
    <3>7. Len(left') <= Len(left) /\ Len(left') \in Nat
      BY <3>4, <3>6, <3>1, <3>2, LengthOfEnds
    <3>8. models' \in Nat /\ Len(results') + Len(left') <= models'
      BY <3>1, <3>6, <3>7 DEF CountInv
    <3> QED BY <3>1, <3>3, <3>4, <3>5, <3>8 DEF CountInv
  <2> QED BY <2>1, <2>2
<1>5. CASE ReadAgain
  <2>1. CASE End("error")
    BY <1>5, <2>1 DEF ReadAgain, End, CountInv
  <2>2. CASE ~ End("error")
    <3>1. /\ phase = "model" /\ looked # None
          /\ UNCHANGED <<phase, models, report, listed>>
          /\ left' = Tail(left) /\ looked' = None
          /\ \E rendered : results' = Append(results, Result(Head(left), looked, rendered))
      BY <1>5, <2>2 DEF ReadAgain
    <3>2. left # <<>> /\ IsList(left) /\ IsFinding(looked) /\ IsList(results)
      BY <3>1 DEF FoundInv, CountInv
    <3>3. PICK r : results' = Append(results, r) /\ IsFinding(r)
      BY <3>1, <3>2 DEF Result, IsFinding
    <3>4. Range(results') = Range(results) \cup {r}
      BY <3>2, <3>3, OneMore
    <3>5. \A x \in Range(results') : IsFinding(x)
      BY <3>3, <3>4 DEF CountInv
    <3>6. /\ Len(results') = Len(results) + 1 /\ Len(left') = Len(left) - 1
          /\ Len(results) \in Nat /\ Len(left) \in Nat
      BY <3>1, <3>2, <3>3, LengthOfEnds
    <3>7. models' \in Nat /\ Len(results') + Len(left') <= models'
      <4>1. models \in Nat /\ Len(results) + Len(left) <= models /\ models' = models
        BY <3>1 DEF CountInv
      <4> QED BY <3>6, <4>1
    <3> QED BY <3>1, <3>5, <3>7 DEF CountInv
  <2> QED BY <2>1, <2>2
<1>6. CASE Later
  <2>1. /\ UNCHANGED <<command, looked, results>>
        /\ phase' \in {"idle"} \cup HaveRead /\ (phase' = "model" => phase = "model")
    BY <1>6, LaterKeeps
  <2>2. phase' # "model"
    BY <1>6, <2>1 DEF Later, Scanned, WritePatch, WriteReport, LoadSchemaAgain, Refute, Finish, Kill,
                      ApplyCheck, OpenModel, FillModel, End, Skip
  <2>3. phase' \in {"patches", "report"} =>
          \/ phase \in {"patches", "report"} \/ command.kind = "scan"
    BY <1>6 DEF Later, Scanned, WritePatch, WriteReport, LoadSchemaAgain, Refute, Finish, Kill,
                ApplyCheck, OpenModel, FillModel, End, Skip
  <2> QED BY <2>1, <2>2, <2>3 DEF CountInv, HaveRead
<1>7. CASE UNCHANGED scanVars
  BY <1>7 DEF scanVars, CountInv
<1> QED BY <1>1, <1>2, <1>3, <1>4, <1>5, <1>6, <1>7, StepsOfNext

-----------------------------------------------------------------------------
(* A patch more is in its file; what it replaces is listed before it.      *)
LEMMA OneMorePatch ==
  ASSUME NEW patches, IsList(patches), NEW files, InFiles(patches, files), NEW p
  PROVE  InFiles(Append(patches, p), With(files, <<p.model, p.rule>>, p.diff))
<1> DEFINE more == Append(patches, p)
           held == With(files, <<p.model, p.rule>>, p.diff)
           l    == Len(patches)
<1>1. /\ Len(more) = l + 1 /\ l \in Nat /\ DOMAIN more = 1 .. l + 1 /\ DOMAIN patches = 1 .. l
      /\ more[l + 1] = p /\ \A i \in 1 .. l : more[i] = patches[i]
  <2>1. patches \in Seq(Range(patches) \cup {p})
    BY DEF IsList
  <2> QED BY <2>1
<1>2. /\ DOMAIN held = DOMAIN files \cup {Key(p)} /\ held[Key(p)] = p.diff
      /\ \A key \in DOMAIN files : key # Key(p) => held[key] = files[key]
  BY DEF With, Key
<1> HIDE DEF more, held, l
<1>3. ASSUME NEW n \in DOMAIN more
      PROVE  \E k \in DOMAIN more : /\ k >= n /\ Key(more[k]) = Key(more[n])
                                    /\ Key(more[k]) \in DOMAIN held
                                    /\ held[Key(more[k])] = more[k].diff
  <2>1. l + 1 \in DOMAIN more /\ l + 1 >= n
    BY <1>1
  <2>2. CASE Key(more[n]) = Key(p)
    BY <1>1, <1>2, <2>1, <2>2
  <2>3. CASE Key(more[n]) # Key(p)
    <3>1. n \in DOMAIN patches /\ more[n] = patches[n]
      BY <1>1, <2>3
    <3>2. PICK k \in DOMAIN patches :
            /\ k >= n /\ Key(patches[k]) = Key(patches[n])
            /\ Key(patches[k]) \in DOMAIN files /\ files[Key(patches[k])] = patches[k].diff
      BY <3>1 DEF InFiles
    <3>3. k \in DOMAIN more /\ more[k] = patches[k]
      BY <1>1
    <3> QED BY <1>2, <2>3, <3>1, <3>2, <3>3
  <2> QED BY <2>2, <2>3
<1> QED BY <1>3 DEF InFiles, more, held

LEMMA MovedOver ==
  ASSUME NEW s, IsList(s), NEW t, IsList(t), t # <<>>
  PROVE  Append(s, Head(t)) \o Tail(t) = s \o t
<1>1. ASSUME NEW T, NEW a \in Seq(T), NEW b \in Seq(T), b # <<>>
      PROVE  Append(a, Head(b)) \o Tail(b) = a \o b
  BY <1>1
<1> DEFINE T == Range(s) \cup Range(t)
<1>2. s \in Seq(T) /\ t \in Seq(T)
  BY DEF IsList
<1> HIDE DEF T
<1> QED BY <1>1, <1>2

LEMMA DiffsAreLists ==
  ASSUME IsList(results), \A r \in Range(results) : IsFinding(r)
  PROVE  /\ IsList(Diffs) /\ <<>> \o Diffs = Diffs
<1> DEFINE Row(i) == [j \in DOMAIN Proven(results[i].suggestions) |->
                        [model |-> DisplayPath(results[i]),
                         rule  |-> Proven(results[i].suggestions)[j].rule,
                         diff  |-> <<Proven(results[i].suggestions)[j].from,
                                     Proven(results[i].suggestions)[j].to>>]]
           rows == [i \in DOMAIN results |-> Row(i)]
<1>1. Diffs = FlattenSeq(rows)
  BY DEF Diffs
<1>2. \A i \in DOMAIN results : results[i] \in Range(results)
  BY DEF Range
<1>3. ASSUME NEW i \in DOMAIN results PROVE IsList(rows[i])
  <2>1. IsList(Proven(results[i].suggestions))
    BY <1>2, ProvenRange DEF IsFinding
  <2>2. IsList(Row(i))
    BY <2>1, ListAlong
  <2> QED BY <2>2
<1>4. IsList(rows) /\ DOMAIN rows = DOMAIN results
  <2> HIDE DEF Row
  <2> QED BY ListAlong
<1> HIDE DEF rows
<1>5. IsList(Diffs)
  BY <1>1, <1>3, <1>4, FlattenRange
<1>6. \A T : \A s \in Seq(T) : <<>> \o s = s
  OBVIOUS
<1> QED BY <1>5, <1>6 DEF IsList

LEMMA PatchInvKept ==
  ASSUME ProjectInv, SchemaInv, FoundInv, CountInv, PatchInv, [Next]_vars
  PROVE  PatchInv'
<1> USE DEF asking, reading, scanning, writing, past
<1>0. /\ IsList(<<>>) /\ InFiles(<<>>, patchDir)
  BY DEF IsList, Range, InFiles
<1>1. SUFFICES ASSUME phase' \in {"patches", "report"} PROVE PatchInv'
  BY DEF PatchInv
<1>2. ASSUME NEW c \in Commands, Start(c) PROVE FALSE
  BY <1>1, <1>2 DEF Start
<1>3. ASSUME UNCHANGED <<phase, todo, listed, patchDir, results, command>> PROVE PatchInv'
  <2>1. Diffs' = Diffs
    BY <1>3 DEF Diffs, DisplayPath
  <2> QED BY <1>3, <2>1 DEF PatchInv, InFiles
<1>4. CASE Scanned
  <2>1. /\ phase = "model" /\ UNCHANGED <<results, listed, patchDir, command>>
        /\ \/ phase' = "patches" /\ todo' = Diffs
           \/ phase' = "report" /\ command.then # "patches"
    BY <1>1, <1>4 DEF Scanned
  <2>2. listed' = <<>>
    BY <2>1 DEF CountInv
  <2>3. Diffs' = Diffs
    BY <2>1 DEF Diffs, DisplayPath
  <2>4. IsList(Diffs) /\ <<>> \o Diffs = Diffs
    BY DiffsAreLists DEF FoundInv, CountInv
  <2> QED BY <1>0, <2>1, <2>2, <2>3, <2>4 DEF PatchInv
<1>5. CASE WritePatch
  <2>1. phase = "patches" /\ UNCHANGED <<results, command>>
    BY <1>5 DEF WritePatch
  <2>2. Diffs' = Diffs
    BY <2>1 DEF Diffs, DisplayPath
  <2>3. /\ IsList(listed) /\ IsList(todo) /\ listed \o todo = Diffs /\ InFiles(listed, patchDir)
    BY <2>1 DEF PatchInv
  <2>4. CASE todo = <<>>
    <3>1. phase' = "report" /\ UNCHANGED <<todo, listed, patchDir>>
      BY <1>5, <2>4 DEF WritePatch
    <3>2. \A T : \A s \in Seq(T) : s \o <<>> = s
      OBVIOUS
    <3>3. listed = Diffs
      BY <2>3, <2>4, <3>2 DEF IsList
    <3> QED BY <2>2, <2>3, <3>1, <3>3 DEF PatchInv
  <2>5. CASE todo # <<>>
    <3> DEFINE p == Head(todo)
    <3>1. /\ phase' = "patches" /\ listed' = Append(listed, p) /\ todo' = Tail(todo)
          /\ patchDir' = With(patchDir, <<p.model, p.rule>>, p.diff)
      BY <1>5, <2>1, <2>5 DEF WritePatch
    <3>2. IsList(listed') /\ IsList(todo')
      BY <2>3, <2>5, <3>1, OneMore, EndsOfList
    <3>3. listed' \o todo' = Diffs
      BY <2>3, <2>5, <3>1, MovedOver
    <3>4. InFiles(listed', patchDir')
      BY <2>3, <3>1, OneMorePatch
    <3> QED BY <2>2, <3>1, <3>2, <3>3, <3>4 DEF PatchInv
  <2> QED BY <2>4, <2>5
<1>6. ~ Discover /\ ~ LoadSchema /\ ~ Scan /\ ~ ReadAgain /\ ~ WriteReport /\ ~ LoadSchemaAgain
      /\ ~ Refute /\ ~ Finish /\ ~ Kill /\ ~ ApplyCheck /\ ~ OpenModel /\ ~ FillModel
  BY <1>1 DEF Discover, LoadSchema, Scan, ReadAgain, WriteReport, LoadSchemaAgain, Refute, Finish,
              Kill, ApplyCheck, OpenModel, FillModel, End, Skip
<1>7. CASE UNCHANGED scanVars
  BY <1>3, <1>7 DEF scanVars
<1> QED BY <1>2, <1>4, <1>5, <1>6, <1>7, StepsOfNext DEF Later

-----------------------------------------------------------------------------
(* The patches of a row whose path no other row has.                       *)
RowOf(r) == [j \in DOMAIN Proven(r.suggestions) |->
               [model |-> DisplayPath(r), rule |-> Proven(r.suggestions)[j].rule,
                diff  |-> <<Proven(r.suggestions)[j].from, Proven(r.suggestions)[j].to>>]]

PatchesAre(r, mine, files) ==
  /\ Len(mine) = Len(Proven(r.suggestions))
  /\ \A n \in DOMAIN mine :
       /\ mine[n].diff = <<Proven(r.suggestions)[n].from, Proven(r.suggestions)[n].to>>
       /\ \/ files[<<mine[n].model, mine[n].rule>>] = mine[n].diff
          \/ \E k \in DOMAIN mine : k > n /\ mine[k].rule = mine[n].rule

LEMMA RowIsList ==
  ASSUME NEW r, IsFinding(r)
  PROVE  /\ IsList(RowOf(r)) /\ DOMAIN RowOf(r) = 1 .. Len(RowOf(r))
         /\ Len(RowOf(r)) = Len(Proven(r.suggestions))
         /\ \A n \in DOMAIN RowOf(r) : /\ RowOf(r)[n].model = DisplayPath(r)
                                       /\ RowOf(r)[n].diff = <<Proven(r.suggestions)[n].from,
                                                               Proven(r.suggestions)[n].to>>
         /\ \A p \in Range(RowOf(r)) : p.model = DisplayPath(r)
<1>1. IsList(Proven(r.suggestions))
  BY ProvenRange DEF IsFinding
<1>2. /\ IsList(RowOf(r)) /\ DOMAIN RowOf(r) = DOMAIN Proven(r.suggestions)
      /\ \A p \in Range(RowOf(r)) : \E n \in DOMAIN Proven(r.suggestions) : RowOf(r)[n] = p
  <2>1. RowOf(r) = [n \in DOMAIN Proven(r.suggestions) |-> RowOf(r)[n]]
    BY DEF RowOf
  <2> QED BY <1>1, <2>1, ListAlong
<1>3. \A n \in DOMAIN RowOf(r) : /\ RowOf(r)[n].model = DisplayPath(r)
                                 /\ RowOf(r)[n].diff = <<Proven(r.suggestions)[n].from,
                                                         Proven(r.suggestions)[n].to>>
  BY DEF RowOf
<1>4. /\ DOMAIN RowOf(r) = 1 .. Len(RowOf(r)) /\ Len(RowOf(r)) \in Nat
      /\ DOMAIN Proven(r.suggestions) = 1 .. Len(Proven(r.suggestions))
      /\ Len(Proven(r.suggestions)) \in Nat
  BY <1>1, <1>2, ListOf DEF IsList
<1>5. Len(RowOf(r)) = Len(Proven(r.suggestions))
  <2>1. \A m, n \in Nat : 1 .. m = 1 .. n => m = n
    OBVIOUS
  <2>2. 1 .. Len(RowOf(r)) = 1 .. Len(Proven(r.suggestions))
    BY <1>2, <1>4
  <2> QED BY <1>4, <2>1, <2>2
<1> QED BY <1>2, <1>3, <1>4, <1>5

LEMMA RowHasItsPatches ==
  ASSUME IsList(results), \A r \in Range(results) : IsFinding(r),
         listed = Diffs, InFiles(listed, patchDir), NEW i \in DOMAIN results,
         \A j \in DOMAIN results \ {i} : DisplayPath(results[j]) # DisplayPath(results[i])
  PROVE  PatchesAre(results[i], ScanArtifact.rows[i].patches, patchDir)
<1> DEFINE r    == results[i]
           rows == [j \in DOMAIN results |-> RowOf(results[j])]
           S    == {p \in Range(listed) : p.model = DisplayPath(r)}
           mine == Among(listed, S)
<1>1. ScanArtifact.rows[i].patches = mine
  BY DEF ScanArtifact
<1>2. listed = FlattenSeq(rows)
  BY DEF Diffs, RowOf
<1>3. \A j \in DOMAIN results : results[j] \in Range(results)
  BY DEF Range
<1>4. /\ IsList(rows) /\ DOMAIN rows = DOMAIN results
      /\ \A j \in DOMAIN rows : rows[j] = RowOf(results[j])
  BY ListAlong
<1>5. \A j \in DOMAIN rows : /\ IsList(rows[j])
                             /\ \A p \in Range(rows[j]) : p.model = DisplayPath(results[j])
  BY <1>3, <1>4, RowIsList
<1> HIDE DEF rows
<1>6. IsList(listed) /\ \A j \in DOMAIN rows : Range(rows[j]) \subseteq Range(listed)
  BY <1>2, <1>4, <1>5, FlattenRange
<1>7. mine = RowOf(r)
  <2>1. Range(rows[i]) \subseteq S
    BY <1>4, <1>5, <1>6
  <2>2. \A j \in DOMAIN rows : j # i => Range(rows[j]) \cap S = {}
    BY <1>4, <1>5
  <2> HIDE DEF S
  <2>3. Among(FlattenSeq(rows), S) = rows[i]
    BY <1>4, <1>5, <2>1, <2>2, OnlyPart
  <2> QED BY <1>2, <1>4, <2>3
<1>8. /\ DOMAIN mine = 1 .. Len(mine) /\ Len(mine) = Len(Proven(r.suggestions))
      /\ \A n \in DOMAIN mine :
           /\ mine[n].model = DisplayPath(r)
           /\ mine[n].diff = <<Proven(r.suggestions)[n].from, Proven(r.suggestions)[n].to>>
  <2>1. IsFinding(r)
    BY <1>3
  <2> HIDE DEF mine, r
  <2> QED BY <1>7, <2>1, RowIsList
<1>9. PICK at : Places(listed, S, Len(listed), mine, at)
  <2>1. listed \in Seq(Range(listed))
    BY <1>6 DEF IsList
  <2> QED BY <2>1, AmongPlaces
<1>10. DOMAIN listed = 1 .. Len(listed) /\ Len(listed) \in Nat
       /\ \A n \in DOMAIN listed : listed[n] \in Range(listed)
  BY <1>6, ListOf DEF IsList
<1>11. \A k \in DOMAIN listed : listed[k].model = DisplayPath(r) => listed[k] \in S
  BY <1>10
<1>12. Len(mine) \in Nat
  BY <1>6, AmongIsShorter
<1> HIDE DEF mine, S, r
<1>13. ASSUME NEW n \in DOMAIN mine
       PROVE  \/ patchDir[<<mine[n].model, mine[n].rule>>] = mine[n].diff
              \/ \E k \in DOMAIN mine : k > n /\ mine[k].rule = mine[n].rule
  <2>1. at[n] \in DOMAIN listed /\ mine[n] = listed[at[n]]
    BY <1>8, <1>9, <1>10 DEF Places
  <2>2. PICK k \in DOMAIN listed :
          /\ k >= at[n] /\ Key(listed[k]) = Key(listed[at[n]])
          /\ Key(listed[k]) \in DOMAIN patchDir /\ patchDir[Key(listed[k])] = listed[k].diff
    BY <2>1 DEF InFiles
  <2>3. /\ listed[k].model = mine[n].model /\ listed[k].rule = mine[n].rule
        /\ patchDir[<<mine[n].model, mine[n].rule>>] = listed[k].diff
    BY <2>1, <2>2 DEF Key
  <2>4. listed[k] \in S
    BY <1>8, <1>11, <2>3
  <2>5. PICK m \in DOMAIN mine : at[m] = k
    BY <1>8, <1>9, <1>10, <2>4 DEF Places
  <2>6. mine[m] = listed[k]
    BY <1>8, <1>9, <2>5 DEF Places
  <2>7. ~ (m < n)
    <3>1. m < n => at[m] < at[n]
      BY <1>8, <1>9 DEF Places
    <3>2. at[m] \in Nat /\ at[n] \in Nat
      BY <1>10, <2>1, <2>5
    <3> QED BY <2>2, <2>5, <3>1, <3>2
  <2>8. m = n \/ m > n
    BY <1>8, <1>12, <2>7
  <2> QED BY <2>3, <2>6, <2>8
<1> QED BY <1>1, <1>8, <1>13 DEF PatchesAre, r

LEMMA RowsByPatches ==
  RowsHaveTheirPatches <=>
    ((phase = "finish" /\ command.kind = "scan" /\ command.then = "patches") =>
       \A i \in DOMAIN results :
         (\A j \in DOMAIN results \ {i} : DisplayPath(results[j]) # DisplayPath(results[i])) =>
           PatchesAre(results[i], report.rows[i].patches, patchDir))
  BY DEF RowsHaveTheirPatches, PatchesAre

LEMMA RowsByPatchesThen ==
  RowsHaveTheirPatches' <=>
    ((phase = "finish" /\ command.kind = "scan" /\ command.then = "patches") =>
       \A i \in DOMAIN results :
         (\A j \in DOMAIN results \ {i} : DisplayPath(results[j]) # DisplayPath(results[i])) =>
           PatchesAre(results[i], report.rows[i].patches, patchDir))'
  BY RowsByPatches, PTL

LEMMA IntakeByCounts ==
  IntakeAddsUp <=>
    (command # None /\ command.kind = "intake" /\ report # None => AddsUp(report))
  BY DEF AddsUp, IntakeAddsUp, SumOf

LEMMA IntakeByCountsThen ==
  IntakeAddsUp' <=>
    (command # None /\ command.kind = "intake" /\ report # None => AddsUp(report))'
  BY IntakeByCounts, PTL

ReportInv == CountInv /\ PatchInv /\ ReportsAddUp

LEMMA RowsKept ==
  ASSUME SchemaInv, FoundInv, CountInv, PatchInv, RowsHaveTheirPatches, [Next]_vars
  PROVE  RowsHaveTheirPatches'
<1> USE DEF asking, reading, scanning, writing, past
<1>1. SUFFICES ASSUME phase' = "finish", command'.kind = "scan", command'.then = "patches"
               PROVE  RowsHaveTheirPatches'
  BY DEF RowsHaveTheirPatches
<1>2. ASSUME NEW c \in Commands, Start(c) PROVE FALSE
  BY <1>1, <1>2 DEF Start
<1>3. CASE UNCHANGED scanVars
  BY <1>3, RowsByPatches, RowsByPatchesThen DEF scanVars
<1>4. CASE WriteReport
  <2>1. /\ phase = "report" /\ report' = ScanArtifact /\ UNCHANGED <<results, patchDir, command>>
    BY <1>4 DEF WriteReport
  <2>2. listed = Diffs /\ InFiles(listed, patchDir)
    BY <1>1, <2>1 DEF PatchInv
  <2>3. ASSUME NEW i \in DOMAIN results,
               \A j \in DOMAIN results \ {i} : DisplayPath(results[j]) # DisplayPath(results[i])
        PROVE  PatchesAre(results[i], ScanArtifact.rows[i].patches, patchDir)
    BY <2>2, <2>3, RowHasItsPatches DEF FoundInv, CountInv
  <2>4. \A i \in DOMAIN results' :
          (\A j \in DOMAIN results' \ {i} : DisplayPath(results'[j]) # DisplayPath(results'[i])) =>
            PatchesAre(results'[i], report'.rows[i].patches, patchDir')
    BY <2>1, <2>3
  <2> QED BY <2>4, RowsByPatchesThen
<1>5. CASE Scanned
  <2>1. UNCHANGED command /\ command.kind # "scan"
    BY <1>1, <1>5 DEF Scanned
  <2> QED BY <1>1, <2>1
<1>6. ~ Discover /\ ~ LoadSchema /\ ~ Scan /\ ~ ReadAgain /\ ~ WritePatch /\ ~ LoadSchemaAgain
      /\ ~ Refute /\ ~ Finish /\ ~ Kill /\ ~ ApplyCheck /\ ~ OpenModel /\ ~ FillModel
  BY <1>1 DEF Discover, LoadSchema, Scan, ReadAgain, WritePatch, LoadSchemaAgain, Refute, Finish,
              Kill, ApplyCheck, OpenModel, FillModel, End, Skip
<1> QED BY <1>2, <1>3, <1>4, <1>5, <1>6, StepsOfNext DEF Later

LEMMA IntakeKept ==
  ASSUME SchemaInv, FoundInv, CountInv, IntakeAddsUp, [Next]_vars
  PROVE  IntakeAddsUp'
<1> USE DEF asking, reading, scanning, writing, past
<1>1. ASSUME report' = None PROVE IntakeAddsUp'
  BY <1>1 DEF IntakeAddsUp
<1>2. ASSUME UNCHANGED <<command, report>> PROVE IntakeAddsUp'
  BY <1>2, IntakeByCounts, IntakeByCountsThen
<1>3. ASSUME NEW c \in Commands, Start(c) PROVE IntakeAddsUp'
  BY <1>1, <1>3 DEF Start
<1>4. CASE Discover
  <2>1. phase = "discover" /\ UNCHANGED report
    BY <1>4 DEF Discover, End
  <2> QED BY <1>1, <2>1 DEF CountInv
<1>5. CASE Scanned
  <2>1. phase = "model" /\ left = <<>> /\ UNCHANGED command
    BY <1>5 DEF Scanned
  <2>2. UNCHANGED report \/ report' = Intake
    BY <1>5 DEF Scanned
  <2>3. CASE report' = Intake
    <3>1. models \in Nat /\ Len(results) <= models
      <4>1. Len(left) = 0 /\ Len(results) \in Nat
        BY <2>1, LengthOfEnds DEF FoundInv
      <4>2. models \in Nat /\ Len(results) + Len(left) <= models
        BY <2>1 DEF CountInv
      <4> QED BY <4>1, <4>2
    <3>2. AddsUp(Intake)
      BY <3>1, IntakeIsExact DEF FoundInv, CountInv
    <3>3. AddsUp(report')
      BY <2>3, <3>2
    <3> QED BY <3>3, IntakeByCountsThen
  <2> QED BY <1>2, <2>1, <2>2, <2>3
<1>6. CASE WriteReport
  <2>1. command.kind = "scan" /\ UNCHANGED command
    BY <1>6 DEF WriteReport, CountInv
  <2> QED BY <2>1 DEF IntakeAddsUp
<1>7. ASSUME LoadSchema \/ Scan \/ ReadAgain \/ WritePatch \/ LoadSchemaAgain \/ Refute \/ Finish
             \/ Kill \/ ApplyCheck \/ OpenModel \/ FillModel \/ UNCHANGED scanVars
      PROVE  UNCHANGED <<command, report>>
  BY <1>7 DEF LoadSchema, Scan, ReadAgain, WritePatch, LoadSchemaAgain, Refute, Finish, Kill,
              ApplyCheck, OpenModel, FillModel, End, Skip, scanVars
<1> QED BY <1>2, <1>3, <1>4, <1>5, <1>6, <1>7, StepsOfNext DEF Later

(* Neither report of a scan loses a finding or counts one twice, for every *)
(* project, every set of sound rules and however the commands interleave   *)
(* with edits and kills.                                                   *)
THEOREM ReportsAlwaysAddUp == Spec => []ReportsAddUp
<1>1. Init => ScanInv /\ ReportInv
  <2>1. ASSUME Init PROVE CountInv /\ PatchInv /\ ReportsAddUp
    <3>1. phase = "idle" /\ results = <<>> /\ command = None
      BY <2>1 DEF Init, ScanInit
    <3>2. Range(<<>>) = {}
      BY DEF Range
    <3> QED BY <3>1, <3>2 DEF CountInv, PatchInv, ReportsAddUp, RowsHaveTheirPatches, IntakeAddsUp
  <2> QED BY <2>1, ScanInvInit DEF ReportInv
<1>2. ScanInv /\ ReportInv /\ [Next]_vars => ScanInv' /\ ReportInv'
  <2>1. ScanInv /\ [Next]_vars => ScanInv'
    BY ScanInvKept
  <2>2. ScanInv /\ ReportInv /\ [Next]_vars => ReportInv'
    BY CountInvKept, PatchInvKept, RowsKept, IntakeKept DEF ReportInv, ScanInv, ReportsAddUp
  <2> QED BY <2>1, <2>2
<1>3. ReportInv => ReportsAddUp
  BY DEF ReportInv
<1> QED BY <1>1, <1>2, <1>3, PTL DEF Spec
=============================================================================
