-------------------------- MODULE MCCandidateFiles --------------------------
(***************************************************************************)
(* Two models whose directories share a name, and a third; a catalog with  *)
(* a key, with a foreign key, or with a key that may be NULL.              *)
(***************************************************************************)
EXTENDS CandidateCommands

Users  == <<"users.sql">>
Old    == <<"old", "users.sql">>
Orders == <<"orders.sql">>
MCModelFiles  == <<Old, Orders, Users>>
MCSchemaFiles == <<"a.yml">>

UserKey     == [table |-> <<"users">>, test |-> "key", columns |-> {"id"}]
UserUnique  == [table |-> <<"users">>, test |-> "unique", columns |-> {"id"}]
UserId      == [table |-> <<"users">>, test |-> "not_null", column |-> "id"]
UserOfOrder == [table |-> <<"orders">>, test |-> "relationships",
                column |-> "user_id", ref |-> "users", field |-> "id"]

Rule(name, needs, to) ==
  [rule |-> name, needs |-> needs, otherwise |-> "UNKNOWN", to |-> to]
Sql(tables, whole) ==
  [jinja |-> "none", rendered |-> None, parses |-> TRUE, fragments |-> FALSE, readable |-> TRUE,
   with |-> FALSE, tables |-> tables, whole |-> whole, parts |-> <<>>]
Leaf == Sql({"users"}, <<>>)

MCAbout ==
  ("users" :> Sql({"users"}, <<Rule("distinct", {UserKey}, "users flat"),
                               Rule("not_null", {UserId}, "users bare")>>))
  @@ ("orders" :> Sql({"users", "orders"}, <<Rule("fk_join", {UserOfOrder, UserUnique}, "orders alone")>>))
  @@ ("nested" :> [Sql({"users"}, <<>>) EXCEPT !.parses = FALSE, !.fragments = TRUE,
                  !.parts = <<Rule("distinct", {UserKey}, "nested flat")>>])
  @@ ("bad" :> [Leaf EXCEPT !.readable = FALSE, !.parses = FALSE, !.tables = {}])
  @@ ("empty" :> [Leaf EXCEPT !.readable = FALSE, !.parses = FALSE, !.tables = {}])
  @@ ("nested flat" :> [Leaf EXCEPT !.parses = FALSE, !.fragments = TRUE])
  @@ [t \in {"users flat", "users bare", "orders alone", "wrong"} |-> Leaf]
MCText == DOMAIN MCAbout

(* As a DISTINCT whose columns hold no key (join_distinct_exists.py).      *)
MCUnsound == {<<"users", "users flat">>}

Column(name, tests) == [name |-> name, tests |-> tests]
Plainly(test) == [test |-> test]
Relation(name, columns) == [name |-> name, tests |-> <<>>, columns |-> columns]
Keys     == <<Relation("users", <<Column("id", <<Plainly("unique"), Plainly("not_null")>>)>>)>>
Nullable == <<Relation("users", <<Column("id", <<Plainly("unique")>>)>>),
              Relation("orders", <<Column("user_id",
                 <<[test |-> "relationships", to |-> <<"users">>, field |-> "id"]>>)>>)>>
MCPayloads == {Keys, Nullable}

NoTarget == [name |-> None, files |-> <<>>, text |-> <<>>]
Project(old, orders, users, said) ==
  [target |-> NoTarget, schema |-> ("a.yml" :> said),
   source |-> (Old :> old) @@ (Orders :> orders) @@ (Users :> users)]
MCProjects ==
  {Project("users", None, "nested", Keys), Project("users", None, None, Nullable),
   Project("orders", "bad", None, Nullable)}
MCSaves == {"orders", None}

MCAnswers == [t \in MCText |->
  CASE t = "users"  -> {<<"users flat", "wrong">>, <<None, "users bare">>}
    [] t = "orders" -> {<<"orders alone", "bad">>, <<>>}
    [] t = "nested" -> {<<"nested flat">>, <<"users bare">>}
    [] OTHER        -> {<<t>>}]

Generating == [limit |-> None, batch |-> FALSE, dry |-> FALSE]
MCGenerations ==
  {Generating, [Generating EXCEPT !.dry = TRUE], [Generating EXCEPT !.batch = TRUE],
   [Generating EXCEPT !.batch = TRUE, !.limit = 1]}

Verifying == [kind |-> "verify", project |-> FALSE, only |-> None]
MCReadings ==
  {Verifying, [Verifying EXCEPT !.project = TRUE], [Verifying EXCEPT !.kind = "benchmark"],
   [Verifying EXCEPT !.kind = "explain", !.only = {"users.sql"}]}

MCPlans == {[join |-> 1, filter |-> 1], [join |-> 1, filter |-> 0], [join |-> 0, filter |-> 1]}

Job(kind, model) == [kind |-> kind, model |-> model, dir |-> "users.sql", schema |-> "a.yml",
                     all |-> FALSE, force |-> FALSE, fail_on |-> kind # "generate"]
MCJobs ==
  {[Job("generate", Users) EXCEPT !.all = TRUE], [Job("generate", Users) EXCEPT !.force = TRUE],
   Job("run", Users), [Job("run", Users) EXCEPT !.force = TRUE],
   Job("check", Users), Job("evidence", Users), Job("evidence", Old)}

(* Bounds: runs of llm generate follow each other, or one of them, or a    *)
(* candidates command, goes on beside the commands that read what it wrote. *)
Running ==
  \/ readings = 0 /\ jobs = 0
  \/ generations <= 1 /\ jobs = 0
  \/ generations + jobs <= MaxJobs /\ readings = 0
=============================================================================
