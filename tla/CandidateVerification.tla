----------------------- MODULE CandidateVerification ------------------------
(***************************************************************************)
(* candidates/verification.py: candidates written by a model go through a  *)
(* cascade of provers and a refuter, in phases with different backends and *)
(* a report each, and the reports are merged.  Reports are written in      *)
(* place, so what a merge reads may be partial or torn.                    *)
(***************************************************************************)
EXTENDS Naturals, FiniteSets, Sequences

CONSTANTS
  Candidate,     \* the candidates of all bundles
  Phase,         \* calls of verify_bundles, each with a report file
  Backends,      \* per phase, which of "qed", "sqlsolver", "verieql" are given
  Facts,         \* what may be true of the candidates
  Text,          \* names, lists of columns, bodies and outer queries
  PartialEvery,  \* rows between two partial reports (20 in the code)
  MaxMerged,     \* bound: reports given to one merge
  Torn, None

Provers  == {"builtin", "qed", "sqlsolver"}
Buckets  == {"proven", "refuted", "bounded_ok", "unknown", "identity", "invalid"}

(* A query: what follows its WITH, the CTEs, and whether it is a SELECT     *)
(* with a WITH that is not recursive, or with none.  "columns" are the      *)
(* names by which the rest reads a CTE: those its name is followed by, or   *)
(* those its body gives.                                                   *)
Ctes    == [name : Text, columns : Text, body : Text, nested : BOOLEAN]
Queries == [plain : BOOLEAN, ctes : Seq(Ctes), outer : Text]

(* A candidate next to its original: whether the two are equivalent, and   *)
(* whether the bodies of the CTE that differs are; whether the built-in    *)
(* verifier certifies what it is asked.                                    *)
Pairs == [parses : BOOLEAN, original : Queries, candidate : Queries,
          equal : BOOLEAN, fragment : BOOLEAN, certified : BOOLEAN]

(* A row of a report: the verdict, the backend it rests on, and whether    *)
(* the cross-check raised the alarm.                                       *)
Rows == [bucket : Buckets, by : Provers \cup {"verieql", "none"}, alarm : BOOLEAN]
MergedRows ==
  [bucket : Buckets \cup {"conflict"}, by : Provers \cup {"verieql", "none"}, alarm : BOOLEAN]
Some(R) == UNION {[S -> R] : S \in SUBSET Candidate}

Calls   == [phase : Phase, rows : Some(Rows), due : BOOLEAN, open : BOOLEAN]
Reports == [partial : BOOLEAN, rows : Some(Rows)]
Merges  ==
  [left : Seq(Phase), rows : Some(Rows), merged : Some(MergedRows),
   status : {"running", "merged", "raised"}, conflicts : SUBSET Candidate, torn : BOOLEAN,
   seen : [Candidate -> SUBSET Buckets]]

(***************************************************************************)
(* verifier/pair_reduction.py: of two queries that differ in the body of    *)
(* one CTE the provers see the two bodies.                                 *)
(***************************************************************************)
Differing(p) ==
  {i \in DOMAIN p.original.ctes : p.original.ctes[i].body # p.candidate.ctes[i].body}

SameNames(p) ==
  /\ Len(p.original.ctes) = Len(p.candidate.ctes)
  /\ \A i \in DOMAIN p.original.ctes : p.original.ctes[i].name = p.candidate.ctes[i].name

OneDiffers(p) ==
  \E i \in DOMAIN p.original.ctes :
    /\ Differing(p) = {i}
    /\ ~p.original.ctes[i].nested /\ ~p.candidate.ctes[i].nested

(* A mutant: the outer queries are not compared.                           *)
ReducesAnyOuter(p) ==
  p.original.plain /\ p.candidate.plain /\ SameNames(p) /\ OneDiffers(p)

Reduces(p) ==
  /\ p.original.plain /\ p.candidate.plain
  /\ p.original.outer = p.candidate.outer
  /\ SameNames(p) /\ OneDiffers(p)

Asked(p) == IF Reduces(p) THEN p.fragment ELSE p.equal

(* What reduce_pair does not compare.                                      *)
SameColumns(p) ==
  \A i \in DOMAIN p.original.ctes :
    p.original.ctes[i].columns = p.candidate.ctes[i].columns

(* Two queries that are one but for the body of one CTE: wherever it is     *)
(* read, it is read by the same names.                                     *)
Congruent(p) ==
  /\ p.original.plain /\ p.candidate.plain
  /\ p.original.outer = p.candidate.outer
  /\ SameNames(p) /\ SameColumns(p)
  /\ \E i \in DOMAIN p.original.ctes : Differing(p) \subseteq {i}

(* Where two queries are congruent, equal bodies make equal queries; and   *)
(* the built-in verifier certifies what is equal, unless it is the one     *)
(* that is wrong.                                                          *)
ASSUME FactsAssumption ==
  \A f \in Facts :
    /\ f.pair \in [Candidate -> Pairs]
    /\ f.wrong \in Provers \cup {"verieql", "nobody"}
    /\ \A c \in Candidate :
         /\ Congruent(f.pair[c]) /\ f.pair[c].fragment => f.pair[c].equal
         /\ f.pair[c].certified => Asked(f.pair[c]) \/ f.wrong = "builtin"

ASSUME PhasesAssumption ==
  /\ Backends \in [Phase -> SUBSET {"qed", "sqlsolver", "verieql"}]
  /\ IsFiniteSet(Candidate)
  /\ PartialEvery \in Nat \ {0}
  /\ None # Torn
  /\ None \notin Calls \cup Reports \cup Merges
  /\ Torn \notin Reports

VARIABLES
  facts,    \* the truth about the candidates, and which backend errs, if any
  call,     \* the verify_bundles call under way, or None
  report,   \* per phase, its file: None, Torn, or rows and whether they are partial
  merge     \* the merge_reports call, or None

vars == <<facts, call, report, merge>>

-----------------------------------------------------------------------------
(* verify_candidate.                                                       *)

Answers == [qed : {"PROVEN", "UNKNOWN"}, sqlsolver : {"PROVEN", "NOT_EQUIVALENT", "UNKNOWN"},
            verieql : {"NOT_EQUIVALENT", "UNKNOWN", "UNSUPPORTED"}]

(* A backend that is not wrong says what is so, or nothing.                *)
Possible(p, a) ==
  /\ a.qed = "PROVEN"               => Asked(p)  \/ facts.wrong = "qed"
  /\ a.sqlsolver = "PROVEN"         => Asked(p)  \/ facts.wrong = "sqlsolver"
  /\ a.sqlsolver = "NOT_EQUIVALENT" => ~Asked(p) \/ facts.wrong = "sqlsolver"
  /\ a.verieql = "NOT_EQUIVALENT"   => ~p.equal  \/ facts.wrong = "verieql"

Row(bucket, by, alarm) == [bucket |-> bucket, by |-> by, alarm |-> alarm]

(* The first prover that proves the pair, in the order of the cascade.     *)
Prover(p, given, a) ==
  IF p.certified THEN "builtin"
  ELSE IF "qed" \in given /\ a.qed = "PROVEN" THEN "qed"
  ELSE IF "sqlsolver" \in given /\ a.sqlsolver = "PROVEN" THEN "sqlsolver"
  ELSE "none"

(* Mutants: a refutation of a reduced pair counts; so does it when the     *)
(* refuter cannot check the pair.                                          *)
SolverRefutesAny(p, given, a) == "sqlsolver" \in given /\ a.sqlsolver = "NOT_EQUIVALENT"
RefuterDoubts(p, given, a) == "verieql" \in given /\ a.verieql # "UNKNOWN"

SolverRefutes(p, given, a) ==
  "sqlsolver" \in given /\ a.sqlsolver = "NOT_EQUIVALENT" /\ ~Reduces(p)
RefuterRefutes(p, given, a) == "verieql" \in given /\ a.verieql = "NOT_EQUIVALENT"

ProvenRow(p, given, a) == Row("proven", Prover(p, given, a), RefuterRefutes(p, given, a))

CascadeRow(p, given, a) ==
  IF ~p.parses THEN Row("invalid", "none", FALSE)
  ELSE IF p.original = p.candidate THEN Row("identity", "none", FALSE)
  ELSE IF Prover(p, given, a) # "none" THEN ProvenRow(p, given, a)
  ELSE IF SolverRefutes(p, given, a) THEN Row("refuted", "sqlsolver", FALSE)
  ELSE IF RefuterRefutes(p, given, a) THEN Row("refuted", "verieql", FALSE)
  ELSE IF "verieql" \in given /\ a.verieql = "UNKNOWN" THEN Row("bounded_ok", "none", FALSE)
  ELSE Row("unknown", "none", FALSE)

-----------------------------------------------------------------------------
(* verify_bundles.  The order of the candidates is that of their names,    *)
(* here any.                                                               *)

Empty == [c \in {} |-> None]
With(rows, c, row) == [x \in DOMAIN rows \cup {c} |-> IF x = c THEN row ELSE rows[x]]

Init ==
  /\ facts \in Facts
  /\ call = None
  /\ report = [f \in Phase |-> None]
  /\ merge = None

StartPhase(f) ==
  /\ call = None /\ merge = None
  /\ call' = [phase |-> f, rows |-> Empty, due |-> FALSE, open |-> FALSE]
  /\ UNCHANGED <<facts, report, merge>>

Verify(c) ==
  /\ call # None /\ ~call.due
  /\ c \notin DOMAIN call.rows
  /\ \E a \in Answers :
       /\ Possible(facts.pair[c], a)
       /\ call' = [call EXCEPT
            !.rows = With(@, c, CascadeRow(facts.pair[c], Backends[call.phase], a)),
            !.due  = (Cardinality(DOMAIN call.rows) + 1) % PartialEvery = 0]
  /\ UNCHANGED <<facts, report, merge>>

(* write_report opens the file it wrote last time, and empties it.         *)
OpenReport ==
  /\ call # None /\ ~call.open
  /\ call.due \/ DOMAIN call.rows = Candidate
  /\ report' = [report EXCEPT ![call.phase] = Torn]
  /\ call' = [call EXCEPT !.open = TRUE]
  /\ UNCHANGED <<facts, merge>>

(* A mutant: the report before the last row counts as the last.            *)
PartialUnlessNearEnd == Cardinality(DOMAIN call.rows) + 1 < Cardinality(Candidate)

Partial == call.due

FillReport ==
  /\ call # None /\ call.open
  /\ report' = [report EXCEPT ![call.phase] = [partial |-> Partial, rows |-> call.rows]]
  /\ call' = IF call.due THEN [call EXCEPT !.due = FALSE, !.open = FALSE] ELSE None
  /\ UNCHANGED <<facts, merge>>

(* The process is killed, or a backend raises.                             *)
Interrupt ==
  /\ call # None
  /\ call' = None
  /\ UNCHANGED <<facts, report, merge>>

-----------------------------------------------------------------------------
(* merge_reports, row by row.                                              *)

Merging == merge # None /\ merge.status = "running"
Orders == UNION {[1..n -> Phase] : n \in 2..MaxMerged}

(* Bounds: one merge, as merges share nothing but the reports, and no phase *)
(* goes on beside it: what that would let a merge read, an interrupted     *)
(* call leaves too.                                                        *)
StartMerge(order) ==
  /\ merge = None /\ call = None
  /\ \A i \in DOMAIN order : report[order[i]] # None
  /\ merge' = [left |-> order, rows |-> Empty, merged |-> Empty, status |-> "running",
               conflicts |-> {}, torn |-> FALSE, seen |-> [c \in Candidate |-> {}]]
  /\ UNCHANGED <<facts, call, report>>

ReadReport ==
  /\ Merging
  /\ DOMAIN merge.rows = {} /\ merge.left # <<>>
  /\ merge' = IF report[Head(merge.left)] = Torn
              THEN [merge EXCEPT !.status = "raised", !.torn = TRUE]
              ELSE [merge EXCEPT !.left = Tail(@), !.rows = report[Head(merge.left)].rows]
  /\ UNCHANGED <<facts, call, report>>

(* _MERGE_PRECEDENCE.index; there is none for a conflict.                  *)
Precedence(bucket) ==
  CASE bucket = "proven"     -> 1
    [] bucket = "refuted"    -> 2
    [] bucket = "bounded_ok" -> 3
    [] bucket = "unknown"    -> 4
    [] bucket = "identity"   -> 5
    [] bucket = "invalid"    -> 6

(* A mutant: the later report wins.                                        *)
LaterWins(row, existing) == TRUE

Unranked(existing)   == existing.bucket = "conflict"
Beats(row, existing) == Precedence(row.bucket) < Precedence(existing.bucket)
Disagrees(row, existing) == {row.bucket, existing.bucket} = {"proven", "refuted"}

MergeRow(c) ==
  /\ Merging
  /\ c \in DOMAIN merge.rows
  /\ LET row  == merge.rows[c]
         next == [merge EXCEPT !.rows = [x \in DOMAIN @ \ {c} |-> @[x]],
                               !.seen[c] = @ \cup {row.bucket}]
     IN  merge' =
           IF c \notin DOMAIN merge.merged
           THEN [next EXCEPT !.merged = With(@, c, row)]
           ELSE IF Disagrees(row, merge.merged[c])
           THEN [next EXCEPT !.merged[c].bucket = "conflict", !.conflicts = @ \cup {c}]
           ELSE IF Unranked(merge.merged[c])
           THEN [next EXCEPT !.status = "raised"]
           ELSE IF Beats(row, merge.merged[c])
           THEN [next EXCEPT !.merged[c] = row]
           ELSE next
  /\ UNCHANGED <<facts, call, report>>

EndMerge ==
  /\ Merging
  /\ DOMAIN merge.rows = {} /\ merge.left = <<>>
  /\ merge' = [merge EXCEPT !.status = "merged"]
  /\ UNCHANGED <<facts, call, report>>

Next ==
  \/ \E f \in Phase : StartPhase(f)
  \/ \E c \in Candidate : Verify(c) \/ MergeRow(c)
  \/ OpenReport \/ FillReport \/ Interrupt
  \/ \E order \in Orders : StartMerge(order)
  \/ ReadReport \/ EndMerge

Spec == Init /\ [][Next]_vars

-----------------------------------------------------------------------------
TypeOK ==
  /\ facts \in Facts
  /\ call \in Calls \cup {None}
  /\ report \in [Phase -> Reports \cup {None, Torn}]
  /\ merge \in Merges \cup {None}
  /\ merge # None => \A i \in DOMAIN merge.left : report[merge.left[i]] # None

(* A proof of two bodies is one of the queries they are part of, unless    *)
(* the CTEs are read by different names.                                   *)
CarriesOver(p) == Reduces(p) => SameColumns(p)

(* A row is right if the backend it rests on is: of a proven candidate,     *)
(* what was asked is so, and the candidate is equivalent to its original   *)
(* where that carries over; a refuted one is not equivalent.               *)
RowIsTrue(c, row) ==
  row.by # facts.wrong =>
    /\ row.bucket = "proven"  =>
         Asked(facts.pair[c]) /\ (CarriesOver(facts.pair[c]) => facts.pair[c].equal)
    /\ row.bucket = "refuted" => ~facts.pair[c].equal
RowsAreTrue(rows) == \A c \in DOMAIN rows : RowIsTrue(c, rows[c])

(* Whether in a call, a partial or final report or a merge of reports:     *)
(* what is proven or refuted of a reduced pair is said of the whole pair   *)
(* only where that follows (verification.py:108-111).                      *)
BucketsAreTrue ==
  /\ call # None => RowsAreTrue(call.rows)
  /\ \A f \in Phase : report[f] \notin {None, Torn} => RowsAreTrue(report[f].rows)
  /\ merge # None => RowsAreTrue(merge.rows) /\ RowsAreTrue(merge.merged)

(* Where no backend errs nothing raises the alarm, but a proof that does   *)
(* not carry over: no cross-check in any report refutes another candidate  *)
(* that is proven, and no two phases conflict over one                     *)
(* (docs/llm-candidates.md:61).                                            *)
NoFalseAlarms ==
  facts.wrong = "nobody" =>
    /\ \A f \in Phase : report[f] \notin {None, Torn} =>
         \A c \in DOMAIN report[f].rows :
           report[f].rows[c].alarm => ~CarriesOver(facts.pair[c])
    /\ merge # None => \A c \in merge.conflicts : ~CarriesOver(facts.pair[c])

(* The docstring of reduce_pair (pair_reduction.py:14-18): a proof of the  *)
(* two bodies is a proof of the whole pair.                                *)
ProofsCarryOver ==
  facts.wrong = "nobody" =>
    \A f \in Phase : report[f] \notin {None, Torn} =>
      \A c \in DOMAIN report[f].rows :
        report[f].rows[c].bucket = "proven" => facts.pair[c].equal

(* A report that does not call itself partial has all candidates, whatever *)
(* calls were interrupted before (verification.py:71-77).                  *)
FinalReportsAreComplete ==
  \A f \in Phase : report[f] \notin {None, Torn} =>
    report[f].partial \/ DOMAIN report[f].rows = Candidate

(* What a merge holds of a candidate is the best verdict of the reports    *)
(* read so far, or a conflict, in whatever order they come                 *)
(* (verification.py:193-197).                                              *)
BestOf(buckets) ==
  IF {"proven", "refuted"} \subseteq buckets THEN "conflict"
  ELSE CHOOSE b \in buckets : \A o \in buckets : Precedence(b) <= Precedence(o)
MergedIsBest ==
  merge # None /\ merge.status # "raised" =>
    \A c \in Candidate :
      IF merge.seen[c] = {} THEN c \notin DOMAIN merge.merged
      ELSE c \in DOMAIN merge.merged /\ merge.merged[c].bucket = BestOf(merge.seen[c])

(* A merge fails only over a report that cannot be read, or over a         *)
(* candidate that already is in conflict.                                  *)
MergeFailsForAReason ==
  merge # None /\ merge.status = "raised" => merge.torn \/ merge.conflicts # {}

(* Both, whatever the reports hold and wherever a writer was interrupted.  *)
MergesAreRight == MergedIsBest /\ MergeFailsForAReason

(* The docstring of merge_reports (verification.py:195): a disagreement    *)
(* becomes a conflict of the merge.                                        *)
DisagreementsAreReported ==
  merge # None /\ merge.status # "running" /\ ~merge.torn =>
    \A c \in Candidate : {"proven", "refuted"} \subseteq merge.seen[c] =>
      merge.status = "merged" /\ c \in DOMAIN merge.merged /\ merge.merged[c].bucket = "conflict"
=============================================================================
