----------------------------- MODULE MCDbtScan -----------------------------
(***************************************************************************)
(* A project with two models and two schema files.  The texts are: a join  *)
(* on which a rule without its test comes before one that needs none; two  *)
(* redundant filters; the same behind Jinja; a WITH query and a UNION with *)
(* something to rewrite inside; and what Jinja or the parser refuses.      *)
(***************************************************************************)
EXTENDS DbtScan

Orders == <<"orders.sql">>
Users  == <<"staging", "users.sql">>
MCModelFiles  == <<Orders, Users>>
MCSchemaFiles == <<"a.yml", "b.yml">>

(* Premises. *)
UserKey     == [table |-> <<"users">>, test |-> "key", columns |-> {"id"}]
QualifiedId == [table |-> <<"db", "users">>, test |-> "not_null", column |-> "id"]
UserOfOrder == [table |-> <<"orders">>, test |-> "relationships",
                column |-> "user_id", ref |-> "users", field |-> "id"]
Statuses    == [table |-> <<"users">>, test |-> "accepted_values",
                column |-> "status", values |-> {"open", "done"}]

Rule(name, needs, otherwise, to) ==
  [rule |-> name, needs |-> needs, otherwise |-> otherwise, to |-> to]
Sql(whole, parts) ==
  [jinja |-> "none", rendered |-> None, parses |-> TRUE, with |-> FALSE,
   whole |-> whole, parts |-> parts]
Leaf == Sql(<<>>, <<>>)

MCAbout ==
  ("join"    :> Sql(<<Rule("fk_join", {UserOfOrder, UserKey}, "UNKNOWN", "unjoined"),
                      Rule("exists", {}, "NOT_APPLICABLE", "semijoin")>>, <<>>))
  @@ ("filter" :> Sql(<<Rule("not_null", {QualifiedId}, "NOT_APPLICABLE", "filtered"),
                        Rule("accepted", {Statuses}, "NOT_APPLICABLE", "unfiltered")>>, <<>>))
  @@ ("filtered" :> Sql(<<Rule("accepted", {Statuses}, "UNKNOWN", "plain")>>, <<>>))
  @@ ("with"   :> [Sql(<<Rule("distinct", {UserKey}, "NOT_APPLICABLE", "flat")>>,
                       <<Rule("not_null", {QualifiedId}, "NOT_APPLICABLE", "with filtered"),
                         Rule("not_null", {}, "NOT_APPLICABLE", "with sorted")>>)
                   EXCEPT !.with = TRUE])
  @@ ("union"  :> [Sql(<<>>, <<Rule("exists", {}, "UNKNOWN", "union rewritten")>>)
                   EXCEPT !.parses = FALSE])
  @@ ("jinja"  :> [Leaf EXCEPT !.jinja = "renders", !.rendered = "filter"])
  @@ ("blocks" :> [Leaf EXCEPT !.jinja = "blocks", !.parses = FALSE])
  @@ ("empty"  :> [Leaf EXCEPT !.parses = FALSE])
  @@ [t \in {"semijoin", "unjoined", "unfiltered", "plain", "flat", "with filtered",
             "with sorted", "union rewritten"} |-> Leaf]

MCText == DOMAIN MCAbout
MCMeaning == [t \in MCText |->
  CASE t \in {"join", "semijoin", "unjoined"} -> "1"
    [] t \in {"filter", "filtered", "unfiltered", "plain", "jinja"} -> "2"
    [] t \in {"with", "flat", "with filtered", "with sorted"} -> "3"
    [] t \in {"union", "union rewritten"} -> "4"
    [] OTHER -> t]
MCTruth == {UserKey, [QualifiedId EXCEPT !.table = <<"users">>], UserOfOrder, Statuses}

(* What the schema files say. *)
Column(name, tests) == [name |-> name, tests |-> tests]
Plainly(test)  == [test |-> test]
Accepts(set)   == [test |-> "accepted_values", values |-> set]
Refers         == [test |-> "relationships", to |-> <<"users">>, field |-> "id"]
Relation(name, tests, columns) == [name |-> name, tests |-> tests, columns |-> columns]

Keys     == <<Relation("users", <<>>, <<Column("id", <<Plainly("unique"), Plainly("not_null")>>)>>)>>
Split    == <<Relation("users", <<>>, <<Column("id", <<Plainly("unique")>>),
                                        Column("status", <<Accepts({"open", "done"})>>)>>)>>
Foreign  == <<Relation("orders", <<>>, <<Column("user_id", <<Refers>>)>>),
              Relation("users", <<[test |-> "unique_combination_of_columns", columns |-> {"id"}]>>,
                       <<Column("id", <<Plainly("unique")>>), Column("id", <<>>)>>),
              Relation("users", <<>>, <<Column("status", <<Accepts({"open"}), Accepts({"done"})>>)>>)>>
MCPayloads == {<<>>, Keys, Split, Foreign}

(* Projects to start from. *)
NoTarget == [name |-> None, files |-> <<>>, text |-> <<>>]
Compiled(name, files, texts) ==
  [name |-> name, files |-> files, text |-> [f \in Range(files) |-> texts]]
OwnTarget  == Compiled("shop", <<<<"dep", "models", "orders.sql">>, <<"shop", "models", "extra.sql">>,
                                 <<"shop", "models", "orders.sql">>>>, "join")
TwoTargets == Compiled(None, <<<<"dep", "models", "orders.sql">>, <<"shop", "models", "orders.sql">>>>,
                       "filter")
TopTarget  == Compiled("else", <<<<"shop", "staging", "users.sql">>>>, "with")

Project(t, orders, users, first, second) ==
  [target |-> t, source |-> (Orders :> orders) @@ (Users :> users),
   schema |-> ("a.yml" :> first) @@ ("b.yml" :> second)]
MCProjects ==
  {Project(NoTarget, "join", "filter", Keys, Foreign),
   Project(OwnTarget, "join", "with", Foreign, <<>>),
   Project(TwoTargets, "jinja", "filter", Split, Keys),
   Project(TopTarget, "union", "with", Keys, <<>>),
   Project(TopTarget, "blocks", None, <<>>, Split)}

(* Command lines. *)
Plainest == [kind |-> "scan", all |-> FALSE, chain |-> FALSE, dir |-> None, auto |-> FALSE,
             changed |-> FALSE, then |-> "report", fail_on |-> FALSE]
MCCommands ==
  LET intake == [Plainest EXCEPT !.kind = "intake", !.all = TRUE] IN
  {[Plainest EXCEPT !.fail_on = TRUE],
   [Plainest EXCEPT !.then = "apply"], [Plainest EXCEPT !.then = "apply", !.auto = TRUE],
   [Plainest EXCEPT !.then = "apply", !.all = TRUE],
   [Plainest EXCEPT !.then = "patches"], [Plainest EXCEPT !.then = "patches", !.all = TRUE],
   [Plainest EXCEPT !.chain = TRUE, !.fail_on = TRUE],
   [Plainest EXCEPT !.changed = TRUE, !.then = "apply"],
   [Plainest EXCEPT !.dir = <<>>, !.then = "patches"],
   intake, [intake EXCEPT !.chain = TRUE], [intake EXCEPT !.auto = TRUE],
   [Plainest EXCEPT !.kind = "crosscheck"], [Plainest EXCEPT !.kind = "crosscheck", !.auto = TRUE]}

MCSaves == {"filter", "join", None}
MCTracked == {Orders}
MCBase  == (Orders :> "filter") @@ (Users :> "filter")
=============================================================================
