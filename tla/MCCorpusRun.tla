---------------------------- MODULE MCCorpusRun -----------------------------
(***************************************************************************)
(* A task whose query a becomes d in one step or in two by way of b, where *)
(* b has a dead end c, and d one more rewrite to e.  At most one edge is   *)
(* not proven.                                                             *)
(***************************************************************************)
EXTENDS CorpusRun, TLC

CONSTANTS a, b, c, d, e

MCOffered == (a :> <<2, 1>>) @@ (b :> <<2, 3>>) @@ (d :> <<4>>) @@ (c :> <<>>) @@ (e :> <<>>)
MCTarget ==
  (<<a, 1>> :> b) @@ (<<a, 2>> :> d) @@ (<<b, 2>> :> d) @@ (<<b, 3>> :> c) @@ (<<d, 4>> :> e)

Proven  == {[kind |-> "proven", reward |-> r] : r \in {-1, 1}}
Refused == {[kind |-> "rejected", reward |-> r] : r \in {-1}} \cup {[kind |-> "raises", reward |-> 0]}
MCOutcomes ==
  LET sound == [Edges -> Proven]
  IN  sound \cup {[o EXCEPT ![x] = r] : o \in sound, x \in Edges, r \in Refused}

MCStrategies ==
  <<"fixed_order", "policy_baseline_abstain", "greedy", "random", "beam",
    "policy_baseline", "exhaustive">>
MCSettings == [maxSteps : {2, 3}, margin : {0, 1}, tie : {"shorter", "endpoint"}]
=============================================================================
