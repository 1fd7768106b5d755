------------------------------- MODULE Search -------------------------------
(***************************************************************************)
(* The search strategies of research/search/algorithms.py.  Each drives    *)
(* fresh environments over one task, replaying the whole path for every    *)
(* node it looks at, and picks a path by cumulative reward, a margin and a *)
(* tie policy.  Rewards count in quarters, so that a rewrite that is not   *)
(* proven earns -1 and one that is refuted -4.                             *)
(***************************************************************************)
EXTENDS Collections, Integers, SequencesExt

CONSTANTS
  Sql,       \* SQL texts
  Root,      \* the task's query
  Offered,   \* per query, the actions enumerated for it, in registry order
  Target,    \* per query and action, the query the rewrite gives
  MaxNodes, BeamWidth,
  Nothing,
  Failed     \* the answer of a search that an exception ended

Edges == UNION {{<<q, a>> : a \in ToSet(Offered[q])} : q \in Sql}

(* What the oracles say of an edge.  A rewrite that is not proven costs    *)
(* something (_verification_failure_reward).                               *)
Outcome == [kind : {"proven", "raises"}, reward : Int]
           \cup [kind : {"rejected"}, reward : {r \in Int : r <= 0}]

VARIABLES
  outcome,   \* per edge, what the (cached) oracles say: "proven" and a reward,
             \* "rejected" and a penalty, or "raises" (the verifier does)
  setting,   \* max_steps, reward_margin and tie_policy
  search     \* the call of a strategy under way, or Nothing

(* What _run_sequence returns: the pairs the verifier was asked about, of   *)
(* which the second components are the path, and where they lead.          *)
Node(trail, query, reward, end) ==
  [trail |-> trail, query |-> query, reward |-> reward, end |-> end]

Nodes == [trail : Seq(Edges), query : Sql, reward : Int,
          end : {"open", "terminated", "truncated", "raised"}]

(* An action identifier is a rule with the position of a match; the limits *)
(* are checked by beam_search and exhaustive_search.                       *)
ASSUME SearchAssumption ==
  /\ Root \in Sql
  /\ Offered \in [Sql -> Seq(Int)]
  /\ \A q \in Sql : \A i, j \in DOMAIN Offered[q] : Offered[q][i] = Offered[q][j] => i = j
  /\ Target \in [Edges -> Sql]
  /\ MaxNodes \in Nat \ {0}
  /\ BeamWidth \in Nat \ {0}
  /\ Failed # Nothing
  /\ {Nothing, Failed} \cap Nodes = {}

Path(n)   == [i \in DOMAIN n.trail |-> n.trail[i][2]]
Asked(n)  == ToSet(n.trail)
Active(n) == n.end = "open"
Raised(n) == n.end = "raised"

EndAt(q, n) ==
  IF Offered[q] = <<>> THEN "terminated"
  ELSE IF n >= setting.maxSteps THEN "truncated" ELSE "open"

RootNode == Node(<<>>, Root, 0, IF Offered[Root] = <<>> THEN "terminated" ELSE "open")

(* _run_sequence for the path of n and one action more.  A replay gets the *)
(* answers of the first time, so it goes through n; the new step is        *)
(* RewriteEnvironment.step as a strategy sees it.                          *)
Child(n, a) ==
  LET asked == <<n.query, a>>
      o     == outcome[asked]
      trail == Append(n.trail, asked)
      next  == Target[asked]
  IN  CASE o.kind = "proven"   -> Node(trail, next, n.reward + o.reward, EndAt(next, Len(trail)))
        [] o.kind = "rejected" -> Node(trail, n.query, n.reward + o.reward, "terminated")
        [] o.kind = "raises"   -> Node(trail, n.query, n.reward, "raised")

Children(n) == [i \in DOMAIN Offered[n.query] |-> Child(n, Offered[n.query][i])]

-----------------------------------------------------------------------------
(* Ranking.                                                                *)

(* Python compares tuples of action identifiers lexicographically.         *)
PathLeq(p, r) ==
  \/ p = r
  \/ \E i \in 1..Len(p) :
       /\ SubSeq(p, 1, i - 1) = SubSeq(r, 1, i - 1) /\ p[i] < r[i]

EndpointRank(n) == IF setting.tie = "endpoint" /\ ~Active(n) THEN 0 ELSE 1

(* _tie_sort_key(n) <= _tie_sort_key(m); paths of one length only.         *)
TieLeq(n, m) ==
  \/ EndpointRank(n) < EndpointRank(m)
  \/ /\ EndpointRank(n) = EndpointRank(m)
     /\ \/ Len(n.trail) < Len(m.trail)
        \/ Len(n.trail) = Len(m.trail) /\ PathLeq(Path(n), Path(m))

(* Mutant: what came first stays.                                          *)
FirstStays(n, m)     == TRUE

(* _is_preferred_or_equal.                                                 *)
PreferredOrEqual(n, m) ==
  \/ n.reward > m.reward + setting.margin
  \/ m.reward <= n.reward + setting.margin /\ TieLeq(n, m)

(* The nodes that are within the margin of the best.                       *)
Leaders(S) == {n \in S : \A m \in S : m.reward - n.reward <= setting.margin}

ByTies(S) ==
  [i \in 1..Cardinality(S) |-> CHOOSE n \in S : Cardinality({m \in S : TieLeq(m, n)}) = i]

(* _rank_nodes: group after group of the nodes within the margin of the    *)
(* best that is left, each in the order of its ties.                       *)
Ranked(nodes) ==
  LET ranked[k \in 0 .. Cardinality(nodes)] ==
        IF k = 0 THEN <<>>
        ELSE LET done == ranked[k - 1] IN done \o ByTies(Leaders(nodes \ ToSet(done)))
  IN  ranked[Cardinality(nodes)]

Best(S) == CHOOSE n \in Leaders(S) : \A m \in Leaders(S) : TieLeq(n, m)

(* A mutant: the last path overwrites the others.                          *)
LastEntry(nodes) == Last(nodes)

(* _deduplicate_nodes: the nodes with one query challenge, in turn, the    *)
(* one that has it.                                                        *)
Incumbent(nodes) ==
  LET best[i \in 1 .. Len(nodes)] ==
        IF i = 1 THEN nodes[1]
        ELSE LET known == best[i - 1] IN
             IF PreferredOrEqual(known, nodes[i]) THEN known ELSE nodes[i]
  IN  best[Len(nodes)]
Deduplicated(nodes) ==
  {Incumbent(same) : same \in {Among(nodes, {m \in ToSet(nodes) : m.query = n.query}) : n \in ToSet(nodes)}}

-----------------------------------------------------------------------------
(* What exhaustive search has to look at because of a new node; a queue of *)
(* these pairs is its frontier with the position in the first node's       *)
(* actions.                                                                *)
Options(n) ==
  IF Active(n) THEN [i \in DOMAIN Offered[n.query] |-> <<n, Offered[n.query][i]>>] ELSE <<>>

Started(strategy) ==
  [strategy |-> strategy,
   node     |-> RootNode,            \* where a rollout, greedy or abstaining search is
   frontier |-> <<RootNode>>,        \* beam search: the best paths of this depth
   queue    |-> Options(RootNode),   \* exhaustive search: what is left to expand
   seen     |-> {RootNode},          \* candidates_seen
   known    |-> [q \in {Root} |-> RootNode],   \* best_by_sql
   tried    |-> {},                  \* history: the nodes _run_sequence returned
   explored |-> 0,
   early    |-> FALSE,               \* stopped_early
   cut      |-> FALSE,               \* search_truncated
   answer   |-> Nothing]             \* the node of the result, or Failed

Running(strategies) ==
  search # Nothing /\ search.answer = Nothing /\ search.strategy \in strategies

(* The nodes of a batch are produced one after the other: an exception     *)
(* ends the search, whose counters are lost with it.                       *)
Abort(batch) ==
  LET first == CHOOSE i \in DOMAIN batch :
                 Raised(batch[i]) /\ \A j \in 1..(i - 1) : ~Raised(batch[j])
  IN  [search EXCEPT !.tried = @ \cup ToSet(SubSeq(batch, 1, first)), !.answer = Failed]

(* A batch of new nodes, and the state of the search after it.             *)
Look(batch, scored, after) ==
  search' = IF \E i \in DOMAIN batch : Raised(batch[i]) THEN Abort(batch)
            ELSE [after EXCEPT !.tried = @ \cup ToSet(batch), !.explored = @ + scored]

(* The names of the strategies (the configuration admits no other): those  *)
(* that take one path, and those that choose.                              *)
Rollouts  == {"fixed_order", "random", "policy_baseline"}
Selective == {"greedy", "beam", "exhaustive", "policy_baseline_abstain"}

(* fixed_order_search, random_search and policy_baseline_search: the first *)
(* action, any action, and the one a model scores highest.                 *)
Rollout ==
  /\ Running(Rollouts)
  /\ Active(search.node)
  /\ \E i \in DOMAIN Offered[search.node.query] :
       /\ search.strategy = "fixed_order" => i = 1
       /\ \E child \in {Child(search.node, Offered[search.node.query][i])} :
            Look(<<child>>,
                 IF search.strategy = "policy_baseline"
                 THEN Len(Offered[search.node.query]) ELSE 1,
                 [search EXCEPT !.node = child])

(* The step of greedy_search and policy_baseline_abstain_search: go on to  *)
(* the candidate or stop where the search is.                              *)
GoOnOrStop(candidate) ==
  IF PreferredOrEqual(search.node, candidate)
  THEN [search EXCEPT !.early = TRUE, !.answer = search.node]
  ELSE [search EXCEPT !.node = candidate]

Abstain ==
  /\ Running({"policy_baseline_abstain"})
  /\ Active(search.node)
  /\ \E a \in ToSet(Offered[search.node.query]) :
       \E child \in {Child(search.node, a)} : Look(<<child>>, 1, GoOnOrStop(child))

Greedy ==
  /\ Running({"greedy"})
  /\ Active(search.node)
  /\ \E batch \in {Children(search.node)} :
       Look(batch, Len(batch), GoOnOrStop(Best(ToSet(batch))))

(* One depth of beam_search.                                               *)
Beam ==
  /\ Running({"beam"})
  /\ \E n \in ToSet(search.frontier) : Active(n)
  /\ \E expanded \in {[i \in DOMAIN search.frontier |->
                        IF Active(search.frontier[i])
                        THEN Children(search.frontier[i]) ELSE <<search.frontier[i]>>]} :
     \E all \in {FlattenSeq(expanded)},
        batch \in {FlattenSeq([i \in DOMAIN expanded |->
                        IF Active(search.frontier[i]) THEN expanded[i] ELSE <<>>])} :
     \E distinct \in {Deduplicated(all)} :
     \E ranked \in {Ranked(distinct)} :
     \E frontier \in {SubSeq(ranked, 1, IF Len(ranked) < BeamWidth THEN Len(ranked) ELSE BeamWidth)} :
        Look(batch, Len(batch),
             [search EXCEPT !.frontier = frontier, !.seen = @ \cup ToSet(frontier)])

(* A mutant: one node beyond the limit.                                    *)
LimitPassed == search.explored > MaxNodes

LimitReached == search.explored >= MaxNodes

(* One child of exhaustive_search.                                         *)
Exhaustive ==
  /\ Running({"exhaustive"})
  /\ search.queue # <<>>
  /\ ~LimitReached
  /\ \E child \in {Child(Head(search.queue)[1], Head(search.queue)[2])} :
       Look(<<child>>, 1,
            IF /\ child.query \in DOMAIN search.known
               /\ PreferredOrEqual(search.known[child.query], child)
            THEN [search EXCEPT !.queue = Tail(@)]
            ELSE [search EXCEPT !.queue = Tail(@) \o Options(child),
                                !.known = With(@, child.query, child), !.seen = @ \cup {child}])

ExhaustiveCut ==
  /\ Running({"exhaustive"})
  /\ search.queue # <<>>
  /\ LimitReached
  /\ search' = [search EXCEPT !.queue = <<>>, !.cut = TRUE]

(* The loop has ended: what _result is called with.                        *)
Finish ==
  \/ /\ Running(Rollouts \cup {"policy_baseline_abstain", "greedy"})
     /\ ~Active(search.node)
     /\ search' = [search EXCEPT !.answer = search.node]
  \/ /\ Running({"beam"})
     /\ \A n \in ToSet(search.frontier) : ~Active(n)
     /\ search' = [search EXCEPT !.answer = Best(search.seen)]
  \/ /\ Running({"exhaustive"})
     /\ search.queue = <<>>
     /\ search' = [search EXCEPT !.answer = Best(search.seen)]

SearchStep ==
  \/ Rollout \/ Abstain \/ Greedy \/ Beam \/ Exhaustive \/ ExhaustiveCut \/ Finish
=============================================================================
