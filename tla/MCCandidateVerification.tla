---------------------- MODULE MCCandidateVerification -----------------------
(***************************************************************************)
(* A candidate of any kind next to one that only differs in layout, two    *)
(* phases as in docs/llm-candidates.md: the refuter alone, and the solvers. *)
(***************************************************************************)
EXTENDS CandidateVerification, TLC

CONSTANTS c1, c2, refuting, solving, later

MCBackends ==
  [f \in Phase |-> IF f = refuting THEN {"verieql"}
                  ELSE IF f = solving THEN {"qed", "sqlsolver"} ELSE {"qed"}]

Cte(name, columns, body) == [name |-> name, columns |-> columns, body |-> body, nested |-> FALSE]
Query(ctes, outer) == [plain |-> TRUE, ctes |-> ctes, outer |-> outer]
Pair(original, candidate, equal, fragment) ==
  [parses |-> TRUE, original |-> original, candidate |-> candidate,
   equal |-> equal, fragment |-> fragment, certified |-> FALSE]

(* WITH s AS (one), t(a, b) AS (two) SELECT a FROM t.                      *)
Base     == Query(<<Cte("s", "ab", "one"), Cte("t", "ab", "two")>>, "a from t")
Body     == [Base EXCEPT !.ctes[2].body = "other"]
Swapped  == [Body EXCEPT !.ctes[2].columns = "ba"]
Earlier  == [Body EXCEPT !.ctes[1].columns = "ba"]
Renamed  == [Body EXCEPT !.ctes[2].name = "u"]
Nested   == [Swapped EXCEPT !.ctes[2].nested = TRUE]
Both     == [Body EXCEPT !.ctes[1].body = "another"]
Outer    == [Body EXCEPT !.outer = "b from t"]
Shorter  == [Body EXCEPT !.ctes = Tail(@)]
Union    == [Body EXCEPT !.plain = FALSE]

Same == Pair(Base, Base, TRUE, TRUE)
Kinds ==
  {[Pair(Base, Body, FALSE, FALSE) EXCEPT !.parses = FALSE], Same,
   Pair(Base, Body, TRUE, TRUE), Pair(Base, Body, TRUE, FALSE), Pair(Base, Body, FALSE, FALSE),
   [Pair(Base, Body, TRUE, TRUE) EXCEPT !.certified = TRUE],
   [Pair(Base, Both, FALSE, FALSE) EXCEPT !.certified = TRUE],
   Pair(Base, Both, TRUE, FALSE)}
  \cup {Pair(Base, q, FALSE, TRUE) :
          q \in {Swapped, Earlier, Renamed, Nested, Outer, Union}}
  \cup {Pair(Base, Shorter, FALSE, FALSE)}
MCFacts ==
  {f \in [pair : {(c1 :> k) @@ (c2 :> Same) : k \in Kinds},
          wrong : {"nobody", "builtin", "sqlsolver", "verieql"}] :
     \A c \in Candidate : f.pair[c].certified /\ ~Asked(f.pair[c]) => f.wrong = "builtin"}
MCText == {"s", "t", "u", "ab", "ba", "one", "two", "other", "another", "a from t", "b from t"}
=============================================================================
