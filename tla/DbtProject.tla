----------------------------- MODULE DbtProject -----------------------------
(***************************************************************************)
(* A dbt project as the commands of qseal find it: the SQL files below     *)
(* models/ and target/compiled/, the schema files with their tests, and a  *)
(* developer who goes on editing while a command runs.  dbt/project.py,    *)
(* dbt/jinja.py, dbt/git_diff.py and constraints/dbt_loader.py.            *)
(*                                                                         *)
(* A path is the sequence of its parts below the root.  A text is a model  *)
(* value; About says what the parser and the rules make of it.             *)
(***************************************************************************)
EXTENDS Naturals, Sequences, FiniteSets, Functions, SequencesExt, TLC, Collections

CONSTANTS
  ModelFiles,     \* the SQL files below models/, sorted
  Projects,       \* projects to start from: what target/compiled/ holds (the
                  \* name in dbt_project.yml or None, the files, their texts),
                  \* and what the model and schema files hold
  SchemaFiles,    \* the YAML files below models/, sorted
  Payloads,       \* what a schema file may say
  Text,           \* contents of SQL files
  Saves,          \* the texts a developer may save; None deletes the file
  About,          \* per text, what the parser and the rules know of it
  Tracked, Base,  \* the files git knows, and their texts at the base reference
  MaxSaves,       \* bound: edits by the developer
  Empty,          \* a file that holds nothing
  None

VARIABLES
  target,   \* the compiled SQL, as dbt left it
  source,   \* what each model file holds, None where there is none
  schema,   \* what each schema file says
  saved,    \* history: what the developer last left in each model file
  saves     \* how many edits there were

projectVars == <<target, source, schema, saved, saves>>

Model == Range(ModelFiles)
SchemaFile == Range(SchemaFiles)

(* What the rules know of a text. *)
RulesOf(t) == Range(About[t].whole) \cup Range(About[t].parts)

(* A text and what the rules make of it are texts; a rule without a proof  *)
(* says so, and what it needs is a test.                                   *)
ASSUME TextsAssumption ==
  /\ None \notin Text /\ Empty \in Text /\ Saves \subseteq Text \cup {None}
  /\ \A t \in Text :
       /\ About[t].jinja \in {"renders", "static"} => About[t].rendered \in Text
       /\ IsList(About[t].whole) /\ IsList(About[t].parts)
       /\ \A r \in RulesOf(t) :
            /\ r.to \in Text /\ r.otherwise \in {"UNKNOWN", "UNSUPPORTED", "NOT_APPLICABLE"}
            /\ \A p \in r.needs : p.test \in {"not_null", "accepted_values", "unique", "key",
                                              "relationships"}

(* The files of a project hold texts and lists, and a model file is listed *)
(* once.                                                                   *)
ASSUME ProjectsAssumption ==
  /\ IsList(ModelFiles) /\ IsInjective(ModelFiles) /\ IsList(SchemaFiles)
  /\ \A p \in Projects :
       /\ p.source \in [Model -> Text \cup {None}] /\ p.schema \in [SchemaFile -> Payloads]
       /\ IsList(p.target.files) /\ None \notin Range(p.target.files)
       /\ \A f \in Range(p.target.files) : p.target.text[f] \in Text
  /\ \A payload \in Payloads :
       /\ IsList(payload)
       /\ \A r \in Range(payload) :
            IsList(r.columns) /\ \A c \in Range(r.columns) : IsList(c.tests)

-----------------------------------------------------------------------------
(* Texts.  "jinja" is what Jinja makes of a text: nothing ("none"), other  *)
(* SQL ("renders", or by the patterns "static" when only those apply), or  *)
(* nothing usable ("blocks", "expression").  "whole" lists what each rule  *)
(* says of the query, "parts" what the rules prove inside its fragments;   *)
(* each entry needs some tests and leads to another text.  "tables" are    *)
(* the tables a text reads, "fragments" whether any of it parses, and      *)
(* "readable" whether it is SQL at all; only candidates ask for these.     *)
Preprocess(t) ==
  LET a == About[t] IN
  CASE a.jinja = "none"                  -> [sql |-> t, changed |-> FALSE, supported |-> TRUE]
    [] a.jinja \in {"renders", "static"} ->
         [sql |-> a.rendered, changed |-> TRUE, supported |-> TRUE]
    [] OTHER                             -> [sql |-> t, changed |-> FALSE, supported |-> FALSE]

-----------------------------------------------------------------------------
(* load_dbt_constraints.  A relation has a name, tests and columns, each   *)
(* of which has tests; relations of models come before those of sources.   *)
TestNames(tests) == {tests[i].test : i \in DOMAIN tests}

ColumnAccepted(tests) ==
  LET listed == Among(tests, {t \in Range(tests) : t.test = "accepted_values"}) IN
  IF listed = <<>> THEN {} ELSE Head(listed).values

(* ref('t') and source('s', 't') mean table t, as does a dotted name that  *)
(* ends in it.                                                             *)
RelationshipTable(to) == Last(to)

ColumnConstraint(column) ==
  [non_null |-> "not_null" \in TestNames(column.tests), accepted |-> ColumnAccepted(column.tests)]

ConstraintsForRelation(r) ==
  LET Columns == Range(r.columns)
      Later(name) == CHOOSE i \in DOMAIN r.columns :
                       r.columns[i].name = name /\ \A j \in DOMAIN r.columns :
                                                     r.columns[j].name = name => j <= i
  IN  [columns |-> [name \in {c.name : c \in Columns} |-> ColumnConstraint(r.columns[Later(name)])],
       unique  |-> {{c.name} : c \in {d \in Columns : "unique" \in TestNames(d.tests)}}
                   \cup {t.columns : t \in {u \in Range(r.tests) :
                                              u.test = "unique_combination_of_columns"}},
       foreign |-> UNION {{<<c.name, RelationshipTable(t.to), t.field>> :
                             t \in {u \in Range(c.tests) : u.test = "relationships"}}
                          : c \in Columns}]

(* Mutant: a column is non-null as soon as both declarations mention it.   *)
MergeColumnMentioned(left, right, c) ==
  [non_null |-> \/ c \in DOMAIN left \cap DOMAIN right
                \/ c \in DOMAIN left /\ left[c].non_null
                \/ c \in DOMAIN right /\ right[c].non_null,
   accepted |-> IF c \in DOMAIN right THEN right[c].accepted ELSE left[c].accepted]

(* _merge_columns: either declaration makes a column non-null, and the     *)
(* accepted values of the later one win unless it has none.                *)
MergeColumn(left, right, c) ==
  [non_null |-> \/ c \in DOMAIN left /\ left[c].non_null
                \/ c \in DOMAIN right /\ right[c].non_null,
   accepted |-> IF c \in DOMAIN right /\ right[c].accepted # {} THEN right[c].accepted
                ELSE IF c \in DOMAIN left THEN left[c].accepted ELSE {}]

MergeTableConstraints(left, right) ==
  [columns |-> [c \in DOMAIN left.columns \cup DOMAIN right.columns |->
                  MergeColumn(left.columns, right.columns, c)],
   unique  |-> left.unique \cup right.unique,
   foreign |-> left.foreign \cup right.foreign]

(* _add_table_constraints. *)
AddTable(tables, name, t) ==
  With(tables, name, IF name \in DOMAIN tables THEN MergeTableConstraints(tables[name], t) ELSE t)

LoadDbtConstraints(payload) ==
  LET tables[i \in 0 .. Len(payload)] ==
        IF i = 0 THEN <<>>
        ELSE AddTable(tables[i - 1], payload[i].name, ConstraintsForRelation(payload[i]))
  IN  tables[Len(payload)]

(* _load_project_constraints: the catalogs of all files, merged by         *)
(* unqualified name in the order of the files.                             *)
MergeCatalogs(tables, catalog) ==
  [n \in DOMAIN tables \cup DOMAIN catalog |->
     IF n \notin DOMAIN catalog THEN tables[n]
     ELSE IF n \notin DOMAIN tables THEN catalog[n]
     ELSE MergeTableConstraints(tables[n], catalog[n])]

LoadProjectConstraints(payloads) ==
  LET tables[i \in 0 .. Len(SchemaFiles)] ==
        IF i = 0 THEN <<>>
        ELSE MergeCatalogs(tables[i - 1], LoadDbtConstraints(payloads[SchemaFiles[i]]))
  IN  tables[Len(SchemaFiles)]

(* What a rule needs of the catalog: a premise names a table as the query  *)
(* does, maybe with a qualifier, and is looked up without one.             *)
Trusts(catalog, p) ==
  LET name == Last(p.table) IN
  /\ name \in DOMAIN catalog
  /\ LET t == catalog[name] IN
     CASE p.test = "not_null"        -> p.column \in DOMAIN t.columns /\ t.columns[p.column].non_null
       [] p.test = "accepted_values" -> /\ p.column \in DOMAIN t.columns
                                        /\ t.columns[p.column].accepted # {}
                                        /\ t.columns[p.column].accepted \subseteq p.values
       [] p.test = "unique"          -> \E key \in t.unique : key \subseteq p.columns
       [] p.test = "key"             -> \E key \in t.unique :
                                          /\ key \subseteq p.columns
                                          /\ \A c \in key : c \in DOMAIN t.columns
                                                           /\ t.columns[c].non_null
       [] p.test = "relationships"   -> <<p.column, p.ref, p.field>> \in t.foreign

TrustsAll(catalog, needs) == \A p \in needs : Trusts(catalog, p)

-----------------------------------------------------------------------------
(* The rules over a text, in the order of the registry.  A suggestion      *)
(* rewrites "from" into "to"; a rule that finds no match says so with      *)
(* another status.                                                         *)
Suggestion(catalog, t, r) ==
  LET proven == TrustsAll(catalog, r.needs) IN
  [rule |-> r.rule, status |-> IF proven THEN "PROVEN_EQUIVALENT" ELSE r.otherwise,
   from |-> t, to |-> IF proven THEN r.to ELSE None, needs |-> r.needs]

SuggestRewrites(catalog, t) ==
  [i \in DOMAIN About[t].whole |-> Suggestion(catalog, t, About[t].whole[i])]

IsProven(s) == s.status = "PROVEN_EQUIVALENT"
Proven(suggestions) == Among(suggestions, {s \in Range(suggestions) : IsProven(s)})

(* suggest_subtree_rewrites: what is proven of the fragments, in order.    *)
SuggestSubtree(catalog, t) ==
  Proven([i \in DOMAIN About[t].parts |-> Suggestion(catalog, t, About[t].parts[i])])

(* first_applicable_suggestion. *)
Applicable(suggestions) ==
  Among(suggestions, {s \in Range(suggestions) : s.status # "NOT_APPLICABLE"})

-----------------------------------------------------------------------------
(* discover_compiled_sql_path: the project's own directory, else the only  *)
(* directory named models, else the only one at the top.                   *)
Below(dir, f) == IsStrictPrefix(dir, f)
Parents(f) == {SubSeq(f, 1, n) : n \in 1 .. Len(f) - 1}

CompiledCandidates ==
  LET models == {d \in UNION {Parents(f) : f \in Range(target.files)} : Last(d) = "models"} IN
  IF models # {} THEN models ELSE {<<Head(f)>> : f \in Range(target.files)}

DiscoverCompiled ==
  LET own == <<target.name, "models">> IN
  IF target.name # None /\ \E f \in Range(target.files) : Below(own, f) THEN {own}
  ELSE CompiledCandidates

(* _compiled_model_relative_path: what follows the first models. *)
CompiledRelativePath(dir, f) ==
  LET relative == SubSeq(f, Len(dir) + 1, Len(f))
      models   == {i \in DOMAIN relative : relative[i] = "models"}
  IN  IF models = {} THEN relative
      ELSE SubSeq(relative, (CHOOSE i \in models : \A j \in models : i <= j) + 1, Len(relative))

(* discover_dbt_project: the SQL files, of which compiled ones need a      *)
(* source file that exists.                                                *)
DiscoverModels(dir) ==
  IF dir = None THEN Among(ModelFiles, {m \in Model : source[m] # None})
  ELSE Among(target.files,
         {f \in Range(target.files) : /\ Below(dir, f)
                                      /\ CompiledRelativePath(dir, f) \in Model
                                      /\ source[CompiledRelativePath(dir, f)] # None})

(* changed_model_paths: git diff without deletions; a file git does not    *)
(* track is not listed.                                                    *)
ChangedModels ==
  {m \in Tracked : source[m] # None /\ source[m] # Base[m]}

-----------------------------------------------------------------------------
(* The developer, who saves, deletes or creates a file, and rewrites a     *)
(* schema file.                                                            *)
ProjectInit ==
  /\ \E p \in Projects : target = p.target /\ source = p.source /\ schema = p.schema
  /\ saved = source
  /\ saves = 0

Save(m, t) ==
  /\ saves < MaxSaves /\ source[m] # t
  /\ source' = [source EXCEPT ![m] = t]
  /\ saved' = [saved EXCEPT ![m] = t]
  /\ saves' = saves + 1
  /\ UNCHANGED <<target, schema>>

EditSchema(f, payload) ==
  /\ saves < MaxSaves /\ schema[f] # payload
  /\ schema' = [schema EXCEPT ![f] = payload]
  /\ saves' = saves + 1
  /\ UNCHANGED <<target, source, saved>>

Edit ==
  \/ \E m \in Model, t \in Saves : Save(m, t)
  \/ \E f \in SchemaFile, payload \in Payloads : EditSchema(f, payload)
=============================================================================
