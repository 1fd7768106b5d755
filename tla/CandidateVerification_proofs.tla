-------------------- MODULE CandidateVerification_proofs --------------------
(***************************************************************************)
(* Theorems about CandidateVerification, for any candidates, phases and    *)
(* facts that satisfy its assumptions.                                     *)
(***************************************************************************)
EXTENDS CandidateVerification, TLAPS

-----------------------------------------------------------------------------
(* Rows.                                                                   *)

LEMMA EmptyRows == ASSUME NEW R PROVE Empty \in Some(R) /\ DOMAIN Empty = {}
<1>1. Empty \in [{} -> R]
  BY DEF Empty
<1> QED
  BY <1>1 DEF Some, Empty

LEMMA SomeRows ==
  ASSUME NEW R, NEW rows
  PROVE  rows \in Some(R) <=>
           \E S \in SUBSET Candidate : rows \in [S -> R]
BY DEF Some

LEMMA WithRow ==
  ASSUME NEW R, NEW rows \in Some(R), NEW c \in Candidate, NEW row \in R
  PROVE  /\ With(rows, c, row) \in Some(R)
         /\ DOMAIN With(rows, c, row) = DOMAIN rows \cup {c}
         /\ With(rows, c, row)[c] = row
         /\ \A x \in DOMAIN rows \ {c} : With(rows, c, row)[x] = rows[x]
<1>1. PICK S \in SUBSET Candidate : rows \in [S -> R]
  BY SomeRows
<1>2. With(rows, c, row) \in [S \cup {c} -> R]
  BY <1>1 DEF With
<1>3. S \cup {c} \in SUBSET Candidate
  BY <1>1
<1>4. With(rows, c, row) \in Some(R)
  BY <1>2, <1>3, SomeRows
<1> QED
  BY <1>1, <1>4 DEF With

LEMMA DropRow ==
  ASSUME NEW R, NEW rows \in Some(R), NEW c
  PROVE  [x \in DOMAIN rows \ {c} |-> rows[x]] \in Some(R)
<1>1. PICK S \in SUBSET Candidate : rows \in [S -> R]
  BY SomeRows
<1>2. [x \in DOMAIN rows \ {c} |-> rows[x]] \in [S \ {c} -> R]
  BY <1>1
<1> QED
  BY <1>2, SomeRows

LEMMA RowOf ==
  ASSUME NEW R, NEW rows \in Some(R), NEW c \in DOMAIN rows
  PROVE  c \in Candidate /\ rows[c] \in R
BY SomeRows

LEMMA CascadeTyped ==
  ASSUME NEW p \in Pairs, NEW given, NEW a \in Answers
  PROVE  CascadeRow(p, given, a) \in Rows
BY DEF CascadeRow, ProvenRow, Row, Rows, Prover, Provers, Buckets, Pairs, Answers,
       SolverRefutes, RefuterRefutes

(* What reduce_pair makes of two queries that read their CTEs by the same  *)
(* names proves the queries: they are congruent.                           *)
LEMMA ReducedIsCongruent ==
  ASSUME NEW p, Reduces(p), SameColumns(p)
  PROVE  Congruent(p)
<1>1. PICK i \in DOMAIN p.original.ctes : Differing(p) = {i}
  BY DEF Reduces, OneDiffers
<1> QED
  BY <1>1 DEF Reduces, Congruent

(* So what was asked carries over to the whole pair.                       *)
LEMMA AskedCarriesOver ==
  ASSUME facts \in Facts, NEW c \in Candidate,
         Asked(facts.pair[c]), CarriesOver(facts.pair[c])
  PROVE  facts.pair[c].equal
<1> DEFINE p == facts.pair[c]
<1>1. Congruent(p) /\ p.fragment => p.equal
  BY FactsAssumption
<1>2. CASE Reduces(p)
  <2>1. Congruent(p)
    BY <1>2, ReducedIsCongruent DEF CarriesOver
  <2> QED
    BY <1>1, <1>2, <2>1 DEF Asked
<1>3. CASE ~Reduces(p)
  BY <1>3 DEF Asked
<1> QED
  BY <1>2, <1>3

(* One candidate: the cascade says what is so of what was asked, and of    *)
(* the whole pair where that carries over, unless the backend it rests on  *)
(* is the one that errs.                                                   *)
LEMMA CascadeTrue ==
  ASSUME facts \in Facts, NEW c \in Candidate, NEW given, NEW a \in Answers,
         Possible(facts.pair[c], a)
  PROVE  RowIsTrue(c, CascadeRow(facts.pair[c], given, a))
<1> DEFINE p == facts.pair[c]
           row == CascadeRow(p, given, a)
<1>1. p.certified => Asked(p) \/ facts.wrong = "builtin"
  BY FactsAssumption
<1>2. CASE row.bucket = "proven" /\ row.by # facts.wrong
  <2>1. row.by = Prover(p, given, a) /\ Prover(p, given, a) # "none"
    BY <1>2 DEF CascadeRow, ProvenRow, Row
  <2>2. Asked(p)
    BY <1>1, <1>2, <2>1 DEF Prover, Possible
  <2> QED
    BY <1>2, <2>2, AskedCarriesOver DEF RowIsTrue
<1>3. CASE row.bucket = "refuted" /\ row.by # facts.wrong
  <2>1. \/ SolverRefutes(p, given, a) /\ row.by = "sqlsolver"
        \/ RefuterRefutes(p, given, a) /\ row.by = "verieql"
    BY <1>3 DEF CascadeRow, ProvenRow, Row
  <2>2. ~p.equal
    BY <1>1, <1>3, <2>1 DEF SolverRefutes, RefuterRefutes, Possible, Asked
  <2> QED
    BY <1>3, <2>2 DEF RowIsTrue
<1>4. CASE row.by = facts.wrong \/ row.bucket \notin {"proven", "refuted"}
  BY <1>4 DEF RowIsTrue
<1> QED
  BY <1>2, <1>3, <1>4

-----------------------------------------------------------------------------
(* Types.                                                                  *)

LEMMA TypeInit == Init => TypeOK
<1> SUFFICES ASSUME Init PROVE TypeOK
  OBVIOUS
<1> QED
  BY DEF Init, TypeOK

LEMMA CallParts ==
  ASSUME TypeOK, call # None
  PROVE  call \in Calls /\ call.rows \in Some(Rows) /\ call.phase \in Phase
BY DEF TypeOK, Calls

LEMMA MergeParts ==
  ASSUME TypeOK, merge # None
  PROVE  /\ merge \in Merges /\ merge.rows \in Some(Rows)
         /\ merge.merged \in Some(MergedRows) /\ merge.left \in Seq(Phase)
BY DEF TypeOK, Merges

LEMMA RowsAreMergedRows == Rows \subseteq MergedRows
BY DEF Rows, MergedRows

(* What merging one row changes: the row leaves the report, is noted, and  *)
(* replaces what the merge held of its candidate, conflicts with it, or    *)
(* leaves it, or the merge raises.                                         *)
LEMMA MergeRowEffect ==
  ASSUME TypeOK, NEW c \in Candidate, MergeRow(c)
  PROVE  LET row == merge.rows[c] IN
    /\ merge'.rows = [x \in DOMAIN merge.rows \ {c} |-> merge.rows[x]]
    /\ merge'.seen = [merge.seen EXCEPT ![c] = @ \cup {row.bucket}]
    /\ merge'.left = merge.left /\ merge'.torn = merge.torn
    /\ \/ /\ c \notin DOMAIN merge.merged
          /\ merge'.merged = With(merge.merged, c, row)
          /\ merge'.status = merge.status /\ merge'.conflicts = merge.conflicts
       \/ /\ c \in DOMAIN merge.merged /\ Disagrees(row, merge.merged[c])
          /\ merge'.merged = [merge.merged EXCEPT ![c].bucket = "conflict"]
          /\ merge'.status = merge.status /\ merge'.conflicts = merge.conflicts \cup {c}
       \/ /\ c \in DOMAIN merge.merged /\ Unranked(merge.merged[c])
          /\ merge'.merged = merge.merged
          /\ merge'.status = "raised" /\ merge'.conflicts = merge.conflicts
       \/ /\ c \in DOMAIN merge.merged /\ ~Disagrees(row, merge.merged[c])
          /\ ~Unranked(merge.merged[c]) /\ Beats(row, merge.merged[c])
          /\ merge'.merged = [merge.merged EXCEPT ![c] = row]
          /\ merge'.status = merge.status /\ merge'.conflicts = merge.conflicts
       \/ /\ c \in DOMAIN merge.merged /\ ~Disagrees(row, merge.merged[c])
          /\ ~Unranked(merge.merged[c]) /\ ~Beats(row, merge.merged[c])
          /\ merge'.merged = merge.merged
          /\ merge'.status = merge.status /\ merge'.conflicts = merge.conflicts
<1> DEFINE row == merge.rows[c]
           rest == [x \in DOMAIN merge.rows \ {c} |-> merge.rows[x]]
           next == [merge EXCEPT !.rows = [x \in DOMAIN @ \ {c} |-> @[x]],
                                 !.seen[c] = @ \cup {row.bucket}]
<1>1. merge \in Merges
  BY MergeParts DEF MergeRow, Merging
<1>2. /\ next.rows = rest /\ next.seen = [merge.seen EXCEPT ![c] = @ \cup {row.bucket}]
      /\ next.left = merge.left /\ next.torn = merge.torn /\ next.merged = merge.merged
      /\ next.status = merge.status /\ next.conflicts = merge.conflicts
      /\ DOMAIN next = {"left", "rows", "merged", "status", "conflicts", "torn", "seen"}
  BY <1>1 DEF Merges
<1>3. merge' =
           IF c \notin DOMAIN merge.merged
           THEN [next EXCEPT !.merged = With(@, c, row)]
           ELSE IF Disagrees(row, merge.merged[c])
           THEN [next EXCEPT !.merged[c].bucket = "conflict", !.conflicts = @ \cup {c}]
           ELSE IF Unranked(merge.merged[c])
           THEN [next EXCEPT !.status = "raised"]
           ELSE IF Beats(row, merge.merged[c])
           THEN [next EXCEPT !.merged[c] = row]
           ELSE next
  BY DEF MergeRow
<1> HIDE DEF next, row, rest
<1>4. CASE c \notin DOMAIN merge.merged
  BY <1>2, <1>3, <1>4 DEF row, rest
<1>5. CASE c \in DOMAIN merge.merged /\ Disagrees(row, merge.merged[c])
  BY <1>2, <1>3, <1>5 DEF row, rest
<1>6. CASE c \in DOMAIN merge.merged /\ ~Disagrees(row, merge.merged[c]) /\ Unranked(merge.merged[c])
  BY <1>2, <1>3, <1>6 DEF row, rest
<1>7. CASE /\ c \in DOMAIN merge.merged /\ ~Disagrees(row, merge.merged[c])
           /\ ~Unranked(merge.merged[c]) /\ Beats(row, merge.merged[c])
  BY <1>2, <1>3, <1>7 DEF row, rest
<1>8. CASE /\ c \in DOMAIN merge.merged /\ ~Disagrees(row, merge.merged[c])
           /\ ~Unranked(merge.merged[c]) /\ ~Beats(row, merge.merged[c])
  BY <1>2, <1>3, <1>8 DEF row, rest
<1> QED
  BY <1>4, <1>5, <1>6, <1>7, <1>8

LEMMA TypeStep == TypeOK /\ [Next]_vars => TypeOK'
<1> SUFFICES ASSUME TypeOK, [Next]_vars PROVE TypeOK'
  OBVIOUS
<1> USE DEF TypeOK
<1>1. ASSUME NEW f \in Phase, StartPhase(f) PROVE TypeOK'
  BY <1>1, EmptyRows DEF StartPhase, Calls
<1>2. ASSUME NEW c \in Candidate, Verify(c) PROVE TypeOK'
  <2>1. call \in Calls /\ call.rows \in Some(Rows)
    BY <1>2, CallParts DEF Verify
  <2>2. PICK a \in Answers : call' = [call EXCEPT
            !.rows = With(@, c, CascadeRow(facts.pair[c], Backends[call.phase], a)),
            !.due  = (Cardinality(DOMAIN call.rows) + 1) % PartialEvery = 0]
    BY <1>2 DEF Verify
  <2>3. CascadeRow(facts.pair[c], Backends[call.phase], a) \in Rows
    BY FactsAssumption, CascadeTyped
  <2>4. With(call.rows, c, CascadeRow(facts.pair[c], Backends[call.phase], a)) \in Some(Rows)
    BY <2>1, <2>3, WithRow
  <2>5. call' \in Calls
    BY <2>1, <2>2, <2>4 DEF Calls
  <2> QED
    BY <1>2, <2>5 DEF Verify
<1>3. CASE OpenReport
  <2>1. call \in Calls
    BY <1>3, CallParts DEF OpenReport
  <2>2. [call EXCEPT !.open = TRUE] \in Calls
    BY <2>1 DEF Calls
  <2> QED
    BY <1>3, <2>1, <2>2, PhasesAssumption DEF OpenReport, Calls
<1>4. CASE FillReport
  <2>1. call \in Calls
    BY <1>4, CallParts DEF FillReport
  <2>2. [call EXCEPT !.due = FALSE, !.open = FALSE] \in Calls
    BY <2>1 DEF Calls
  <2>3. [partial |-> Partial, rows |-> call.rows] \in Reports
    BY <2>1 DEF Calls, Reports, Partial
  <2> QED
    BY <1>4, <2>1, <2>2, <2>3, PhasesAssumption DEF FillReport, Calls
<1>5. CASE Interrupt
  BY <1>5 DEF Interrupt
<1>6. ASSUME NEW order \in Orders, StartMerge(order) PROVE TypeOK'
  <2>1. order \in Seq(Phase)
    BY DEF Orders
  <2>2. merge' \in Merges
    BY <1>6, <2>1, EmptyRows DEF StartMerge, Merges
  <2> QED
    BY <1>6, <2>2 DEF StartMerge
<1>7. CASE ReadReport
  <2>1. merge \in Merges /\ merge.left \in Seq(Phase) /\ merge.left # <<>> /\ merge # None
    BY <1>7, MergeParts DEF ReadReport, Merging
  <2>2. /\ Head(merge.left) \in Phase /\ Tail(merge.left) \in Seq(Phase)
        /\ Head(merge.left) = merge.left[1] /\ 1 \in DOMAIN merge.left
        /\ \A i \in DOMAIN Tail(merge.left) :
             i + 1 \in DOMAIN merge.left /\ Tail(merge.left)[i] = merge.left[i + 1]
    BY <2>1
  <2>3. CASE report[Head(merge.left)] = Torn
    <3>1. [merge EXCEPT !.status = "raised", !.torn = TRUE] \in Merges
      BY <2>1 DEF Merges
    <3> QED
      BY <1>7, <2>1, <2>3, <3>1 DEF ReadReport, Merges
  <2>4. CASE report[Head(merge.left)] # Torn
    <3>1. report[Head(merge.left)] \in Reports
      BY <2>1, <2>2, <2>4
    <3>2. [merge EXCEPT !.left = Tail(@), !.rows = report[Head(merge.left)].rows] \in Merges
      BY <2>1, <2>2, <3>1 DEF Merges, Reports
    <3>3. merge'.left = Tail(merge.left)
      BY <1>7, <2>1, <2>4 DEF ReadReport, Merges
    <3>4. merge' \in Merges
      BY <1>7, <2>4, <3>2 DEF ReadReport
    <3>5. \A i \in DOMAIN merge'.left : report[merge'.left[i]] # None
      BY <2>1, <2>2, <3>3
    <3> QED
      BY <1>7, <3>4, <3>5 DEF ReadReport
  <2> QED
    BY <2>3, <2>4
<1>8. ASSUME NEW c \in Candidate, MergeRow(c) PROVE TypeOK'
  <2> DEFINE row == merge.rows[c]
             rest == [x \in DOMAIN merge.rows \ {c} |-> merge.rows[x]]
             next == [merge EXCEPT !.rows = [x \in DOMAIN @ \ {c} |-> @[x]],
                                   !.seen[c] = @ \cup {row.bucket}]
  <2>1. /\ merge \in Merges /\ merge.rows \in Some(Rows) /\ merge # None
        /\ merge.merged \in Some(MergedRows) /\ c \in DOMAIN merge.rows
    BY <1>8, MergeParts DEF MergeRow, Merging
  <2>2. row \in Rows /\ row \in MergedRows /\ row.bucket \in Buckets
    <3>1. merge.rows[c] \in Rows
      BY <2>1, RowOf
    <3> QED
      BY <3>1, RowsAreMergedRows DEF Rows
  <2>3. rest \in Some(Rows)
    BY <2>1, DropRow
  <2>4. /\ next \in Merges /\ next.merged = merge.merged /\ next.left = merge.left
    BY <2>1, <2>2, <2>3 DEF Merges
  <2> HIDE DEF next, row
  <2>5. With(merge.merged, c, row) \in Some(MergedRows)
    BY <2>1, <2>2, WithRow
  <2>6. [next EXCEPT !.merged = With(@, c, row)] \in Merges
    BY <2>4, <2>5 DEF Merges
  <2>7. ASSUME c \in DOMAIN merge.merged
        PROVE  /\ [next EXCEPT !.merged[c].bucket = "conflict", !.conflicts = @ \cup {c}] \in Merges
               /\ [next EXCEPT !.merged[c] = row] \in Merges
    <3>1. PICK S \in SUBSET Candidate : merge.merged \in [S -> MergedRows]
      BY <2>1, SomeRows
    <3>2. /\ [merge.merged EXCEPT ![c].bucket = "conflict"] \in [S -> MergedRows]
          /\ [merge.merged EXCEPT ![c] = row] \in [S -> MergedRows]
      BY <2>2, <2>7, <3>1 DEF MergedRows
    <3>3. /\ [merge.merged EXCEPT ![c].bucket = "conflict"] \in Some(MergedRows)
          /\ [merge.merged EXCEPT ![c] = row] \in Some(MergedRows)
      BY <3>2, SomeRows
    <3> QED
      BY <2>4, <3>3 DEF Merges
  <2>8. [next EXCEPT !.status = "raised"] \in Merges
    BY <2>4 DEF Merges
  <2>9. \/ merge' = [next EXCEPT !.merged = With(@, c, row)]
        \/ /\ c \in DOMAIN merge.merged
           /\ \/ merge' = [next EXCEPT !.merged[c].bucket = "conflict", !.conflicts = @ \cup {c}]
              \/ merge' = [next EXCEPT !.status = "raised"]
              \/ merge' = [next EXCEPT !.merged[c] = row]
              \/ merge' = next
    BY <1>8 DEF MergeRow, next, row
  <2>10. merge' \in Merges
    BY <2>4, <2>6, <2>7, <2>8, <2>9
  <2>11. merge'.left = merge.left
    BY <2>4, <2>9 DEF Merges
  <2> QED
    BY <1>8, <2>1, <2>10, <2>11 DEF MergeRow
<1>9. CASE EndMerge
  <2>1. merge \in Merges
    BY <1>9, MergeParts DEF EndMerge, Merging
  <2>2. [merge EXCEPT !.status = "merged"] \in Merges
    BY <2>1 DEF Merges
  <2> QED
    BY <1>9, <2>2 DEF EndMerge
<1>10. CASE UNCHANGED vars
  BY <1>10 DEF vars
<1> QED
  BY <1>1, <1>2, <1>3, <1>4, <1>5, <1>6, <1>7, <1>8, <1>9, <1>10 DEF Next

(* Whatever the phases, candidates and facts, every step keeps the types.  *)
THEOREM TypeCorrect == Spec => []TypeOK
<1>1. Init => TypeOK
  BY TypeInit
<1>2. TypeOK /\ [Next]_vars => TypeOK'
  BY TypeStep
<1> QED
  BY <1>1, <1>2, PTL DEF Spec

-----------------------------------------------------------------------------
(* The truth of the rows.                                                  *)

LEMMA FactsStay == [Next]_vars => facts' = facts
BY DEF Next, vars, StartPhase, Verify, OpenReport, FillReport, Interrupt, StartMerge,
       ReadReport, MergeRow, EndMerge

LEMMA TrueInit == Init => BucketsAreTrue
BY DEF Init, BucketsAreTrue

LEMMA TrueStep == TypeOK /\ BucketsAreTrue /\ [Next]_vars => BucketsAreTrue'
<1> SUFFICES ASSUME TypeOK, BucketsAreTrue, [Next]_vars PROVE BucketsAreTrue'
  OBVIOUS
<1> USE DEF RowsAreTrue
<1>0. facts' = facts
  BY FactsStay
<1>a. \A c, row : RowIsTrue(c, row)' <=> RowIsTrue(c, row)
  BY <1>0 DEF RowIsTrue
<1>b. DOMAIN Empty = {}
  BY DEF Empty
<1>1. ASSUME NEW f \in Phase, StartPhase(f) PROVE BucketsAreTrue'
  BY <1>1, <1>a, <1>b DEF StartPhase, BucketsAreTrue
<1>2. ASSUME NEW c \in Candidate, Verify(c) PROVE BucketsAreTrue'
  <2>1. call \in Calls /\ call.rows \in Some(Rows) /\ call # None
    BY <1>2, CallParts DEF Verify
  <2>2. PICK a \in Answers :
          /\ Possible(facts.pair[c], a)
          /\ call' = [call EXCEPT
               !.rows = With(@, c, CascadeRow(facts.pair[c], Backends[call.phase], a)),
               !.due  = (Cardinality(DOMAIN call.rows) + 1) % PartialEvery = 0]
    BY <1>2 DEF Verify
  <2> DEFINE row == CascadeRow(facts.pair[c], Backends[call.phase], a)
  <2>3. RowIsTrue(c, row)
    BY <2>2, CascadeTrue DEF TypeOK
  <2>4. call'.rows = With(call.rows, c, row)
    BY <2>1, <2>2 DEF Calls
  <2>5. \A x \in DOMAIN call'.rows : RowIsTrue(x, call'.rows[x])
    BY <2>1, <2>3, <2>4 DEF With, BucketsAreTrue
  <2> QED
    BY <1>2, <1>a, <2>5 DEF Verify, BucketsAreTrue
<1>3. CASE OpenReport
  <2>1. call \in Calls /\ call # None
    BY <1>3, CallParts DEF OpenReport
  <2>2. call'.rows = call.rows
    BY <1>3, <2>1 DEF OpenReport, Calls
  <2>3. \A f \in Phase : report'[f] = report[f] \/ report'[f] = Torn
    BY <1>3 DEF OpenReport, TypeOK
  <2> QED
    BY <1>3, <1>a, <2>1, <2>2, <2>3 DEF OpenReport, BucketsAreTrue
<1>4. CASE FillReport
  <2>1. call \in Calls /\ call # None
    BY <1>4, CallParts DEF FillReport
  <2>2. call' # None => call'.rows = call.rows
    BY <1>4, <2>1 DEF FillReport, Calls
  <2>3. \A f \in Phase : report'[f] = report[f] \/ report'[f].rows = call.rows
    BY <1>4 DEF FillReport, TypeOK
  <2> QED
    BY <1>4, <1>a, <2>1, <2>2, <2>3 DEF FillReport, BucketsAreTrue
<1>5. CASE Interrupt
  BY <1>5, <1>a DEF Interrupt, BucketsAreTrue
<1>6. ASSUME NEW order \in Orders, StartMerge(order) PROVE BucketsAreTrue'
  BY <1>6, <1>a, <1>b DEF StartMerge, BucketsAreTrue
<1>7. CASE ReadReport
  <2>1. merge \in Merges /\ merge.left \in Seq(Phase) /\ merge.left # <<>> /\ merge # None
    BY <1>7, MergeParts DEF ReadReport, Merging
  <2>2. Head(merge.left) \in Phase /\ report[Head(merge.left)] # None
    <3>1. Head(merge.left) = merge.left[1] /\ 1 \in DOMAIN merge.left
      BY <2>1
    <3> QED
      BY <2>1, <3>1 DEF TypeOK
  <2>3. merge'.merged = merge.merged
    <3>1. \/ merge' = [merge EXCEPT !.status = "raised", !.torn = TRUE]
          \/ merge' = [merge EXCEPT !.left = Tail(@), !.rows = report[Head(merge.left)].rows]
      BY <1>7 DEF ReadReport
    <3> QED
      BY <2>1, <3>1 DEF Merges
  <2>4. \/ merge'.rows = merge.rows
        \/ /\ report[Head(merge.left)] # Torn
           /\ merge'.rows = report[Head(merge.left)].rows
    BY <1>7, <2>1 DEF ReadReport, Merges
  <2> QED
    BY <1>7, <1>a, <2>1, <2>2, <2>3, <2>4 DEF ReadReport, BucketsAreTrue
<1>8. ASSUME NEW c \in Candidate, MergeRow(c) PROVE BucketsAreTrue'
  <2> DEFINE row == merge.rows[c]
  <2>1. /\ merge \in Merges /\ merge # None /\ c \in DOMAIN merge.rows
        /\ RowIsTrue(c, row)
    BY <1>8, MergeParts DEF MergeRow, Merging, BucketsAreTrue
  <2>2. merge'.rows = [x \in DOMAIN merge.rows \ {c} |-> merge.rows[x]]
    BY <2>1, MergeRowEffect, <1>8
  <2>3. \A x \in DOMAIN merge'.merged :
          \/ x \in DOMAIN merge.merged /\ merge'.merged[x] = merge.merged[x]
          \/ x = c /\ (merge'.merged[x] = row \/ merge'.merged[x].bucket = "conflict")
    <3>1. PICK S \in SUBSET Candidate : merge.merged \in [S -> MergedRows]
      BY <1>8, <2>1, MergeParts, SomeRows
    <3>2. \/ merge'.merged = With(merge.merged, c, row)
          \/ /\ c \in DOMAIN merge.merged
             /\ merge'.merged = [merge.merged EXCEPT ![c].bucket = "conflict"]
          \/ merge'.merged = merge.merged
          \/ c \in DOMAIN merge.merged /\ merge'.merged = [merge.merged EXCEPT ![c] = row]
      BY <1>8, MergeRowEffect
    <3>3. c \in DOMAIN merge.merged =>
            /\ [merge.merged EXCEPT ![c].bucket = "conflict"][c].bucket = "conflict"
            /\ DOMAIN [merge.merged EXCEPT ![c].bucket = "conflict"] = DOMAIN merge.merged
      BY <3>1 DEF MergedRows
    <3> HIDE DEF row
    <3> QED
      BY <3>1, <3>2, <3>3 DEF With
  <2>4. \A x, any : any.bucket = "conflict" => RowIsTrue(x, any)
    BY DEF RowIsTrue
  <2>5. \A x \in DOMAIN merge'.merged : RowIsTrue(x, merge'.merged[x])
    BY <2>1, <2>3, <2>4 DEF BucketsAreTrue
  <2>6. \A x \in DOMAIN merge'.rows : RowIsTrue(x, merge'.rows[x])
    BY <2>1, <2>2 DEF BucketsAreTrue
  <2> QED
    BY <1>8, <1>a, <2>5, <2>6 DEF MergeRow, BucketsAreTrue
<1>9. CASE EndMerge
  <2>1. merge \in Merges /\ merge # None
    BY <1>9, MergeParts DEF EndMerge, Merging
  <2>2. merge'.rows = merge.rows /\ merge'.merged = merge.merged
    BY <1>9, <2>1 DEF EndMerge, Merges
  <2> QED
    BY <1>9, <1>a, <2>1, <2>2 DEF EndMerge, BucketsAreTrue
<1>10. CASE UNCHANGED vars
  BY <1>10, <1>a DEF vars, BucketsAreTrue
<1> QED
  BY <1>1, <1>2, <1>3, <1>4, <1>5, <1>6, <1>7, <1>8, <1>9, <1>10 DEF Next

(* Whatever the phases, candidates and facts: what a call, a report or a   *)
(* merge calls proven is so of what was asked, and of the whole pair where *)
(* it was not reduced or its CTEs are read by the same names, and what it  *)
(* calls refuted is so, unless the backend it rests on errs                *)
(* (pair_reduction.py:28-62, verification.py:108-158 and 192-216).         *)
THEOREM BucketsTrue == Spec => []BucketsAreTrue
<1>1. Init => TypeOK /\ BucketsAreTrue
  BY TypeInit, TrueInit
<1>2. TypeOK /\ BucketsAreTrue /\ [Next]_vars => TypeOK' /\ BucketsAreTrue'
  BY TypeStep, TrueStep
<1> QED
  BY <1>1, <1>2, PTL DEF Spec

-----------------------------------------------------------------------------
(* What a merge holds.                                                     *)

(* The strengthening of MergedIsBest: what is held of a candidate was read *)
(* and nothing read precedes it, or both a proof and a refutation were.    *)
HeldIsBest(c) ==
  LET held == merge.merged[c] IN
  IF c \notin DOMAIN merge.merged THEN merge.seen[c] = {}
  ELSE IF held.bucket = "conflict"
  THEN c \in merge.conflicts /\ {"proven", "refuted"} \subseteq merge.seen[c]
  ELSE /\ held.bucket \in merge.seen[c]
       /\ \A o \in merge.seen[c] : Precedence(held.bucket) <= Precedence(o)
       /\ ~({"proven", "refuted"} \subseteq merge.seen[c])
MergeInv == merge # None => (\A c \in Candidate : HeldIsBest(c)) /\ MergeFailsForAReason

LEMMA PrecedenceIsInjective ==
  \A a, b \in Buckets :
    /\ Precedence(a) \in 1..6
    /\ Precedence(a) = Precedence(b) => a = b
    /\ Precedence(a) <= 1 => a = "proven"
    /\ Precedence(a) <= 2 => a \in {"proven", "refuted"}
BY DEF Precedence, Buckets

LEMMA BestIsHeld ==
  ASSUME NEW seen \in SUBSET Buckets, NEW b \in seen,
         \A o \in seen : Precedence(b) <= Precedence(o),
         ~({"proven", "refuted"} \subseteq seen)
  PROVE  BestOf(seen) = b
<1>1. \A o \in seen : (\A q \in seen : Precedence(o) <= Precedence(q)) => o = b
  BY PrecedenceIsInjective
<1> QED
  BY <1>1 DEF BestOf

LEMMA MergeInvStep == TypeOK /\ MergeInv /\ [Next]_vars => MergeInv'
<1> SUFFICES ASSUME TypeOK, MergeInv, [Next]_vars PROVE MergeInv'
  OBVIOUS
<1>1. ASSUME merge' = merge PROVE MergeInv'
  BY <1>1 DEF MergeInv, HeldIsBest, MergeFailsForAReason
<1>2. ASSUME NEW order \in Orders, StartMerge(order) PROVE MergeInv'
  BY <1>2 DEF StartMerge, MergeInv, HeldIsBest, MergeFailsForAReason, Empty
<1>3. CASE ReadReport
  <2>1. merge \in Merges /\ merge # None
    BY <1>3, MergeParts DEF ReadReport, Merging
  <2>2. \/ merge' = [merge EXCEPT !.status = "raised", !.torn = TRUE]
        \/ merge' = [merge EXCEPT !.left = Tail(@), !.rows = report[Head(merge.left)].rows]
    BY <1>3 DEF ReadReport
  <2>3. /\ merge'.merged = merge.merged /\ merge'.seen = merge.seen
        /\ merge'.conflicts = merge.conflicts
        /\ merge'.torn \/ (merge'.torn = merge.torn /\ merge'.status = merge.status)
    BY <2>1, <2>2 DEF Merges
  <2> QED
    BY <2>1, <2>3 DEF MergeInv, HeldIsBest, MergeFailsForAReason
<1>4. ASSUME NEW c \in Candidate, MergeRow(c) PROVE MergeInv'
  <2> DEFINE row == merge.rows[c]
             held == merge.merged[c]
  <2>1. /\ merge \in Merges /\ merge # None /\ c \in DOMAIN merge.rows
        /\ merge.rows \in Some(Rows)
    BY <1>4, MergeParts DEF MergeRow, Merging
  <2>2. row.bucket \in Buckets
    <3>1. row \in Rows
      BY <2>1, RowOf
    <3> QED
      BY <3>1 DEF Rows
  <2>3. PICK S \in SUBSET Candidate : merge.merged \in [S -> MergedRows]
    BY <2>1, MergeParts, SomeRows
  <2>4. /\ merge.seen \in [Candidate -> SUBSET Buckets]
        /\ merge'.seen = [merge.seen EXCEPT ![c] = @ \cup {row.bucket}]
    BY <1>4, <2>1, MergeRowEffect DEF Merges
  <2>5. HeldIsBest(c) /\ MergeFailsForAReason
    BY <2>1 DEF MergeInv
  <2>6. c \in DOMAIN merge.merged => held.bucket \in Buckets \cup {"conflict"}
    BY <2>3 DEF MergedRows
  <2> HIDE DEF row, held
  <2>7. ASSUME NEW x \in Candidate \ {c} PROVE HeldIsBest(x)'
    <3>1. HeldIsBest(x) /\ merge'.seen[x] = merge.seen[x]
      BY <2>1, <2>4 DEF MergeInv
    <3>2. /\ x \in DOMAIN merge'.merged <=> x \in DOMAIN merge.merged
          /\ x \in DOMAIN merge.merged => merge'.merged[x] = merge.merged[x]
      <4>1. \/ merge'.merged = With(merge.merged, c, row)
            \/ merge'.merged = [merge.merged EXCEPT ![c].bucket = "conflict"]
            \/ merge'.merged = merge.merged
            \/ merge'.merged = [merge.merged EXCEPT ![c] = row]
        BY <1>4, MergeRowEffect DEF row
      <4> QED
        BY <2>3, <4>1 DEF With
    <3>3. merge.conflicts \subseteq merge'.conflicts
      BY <1>4, MergeRowEffect
    <3> QED
      BY <3>1, <3>2, <3>3 DEF HeldIsBest
  <2>8. HeldIsBest(c)'
    <3>0. merge'.seen[c] = merge.seen[c] \cup {row.bucket} /\ merge.seen[c] \subseteq Buckets
      BY <2>4
    <3>1. CASE c \notin DOMAIN merge.merged /\ merge'.merged = With(merge.merged, c, row)
      <4>1. c \in DOMAIN merge'.merged /\ merge'.merged[c] = row
        BY <3>1 DEF With
      <4>2. merge'.seen[c] = {row.bucket} /\ row.bucket # "conflict"
        BY <2>2, <2>5, <3>0, <3>1 DEF HeldIsBest, Buckets
      <4>3. Precedence(row.bucket) <= Precedence(row.bucket)
        BY <2>2, PrecedenceIsInjective
      <4> QED
        BY <4>1, <4>2, <4>3 DEF HeldIsBest
    <3>2. CASE /\ c \in DOMAIN merge.merged /\ Disagrees(row, held)
               /\ merge'.merged = [merge.merged EXCEPT ![c].bucket = "conflict"]
               /\ merge'.conflicts = merge.conflicts \cup {c}
      <4>1. c \in DOMAIN merge'.merged /\ merge'.merged[c].bucket = "conflict"
        BY <2>3, <3>2 DEF MergedRows
      <4>2. held.bucket \in merge.seen[c]
        BY <2>5, <3>2 DEF HeldIsBest, Disagrees, held
      <4> QED
        BY <3>0, <3>2, <4>1, <4>2 DEF HeldIsBest, Disagrees
    <3>3. CASE /\ c \in DOMAIN merge.merged /\ Unranked(held)
               /\ merge'.merged = merge.merged /\ merge'.conflicts = merge.conflicts
      BY <2>5, <3>0, <3>3 DEF HeldIsBest, Unranked, held
    <3>4. CASE /\ c \in DOMAIN merge.merged /\ ~Disagrees(row, held)
               /\ ~Unranked(held) /\ Beats(row, held)
               /\ merge'.merged = [merge.merged EXCEPT ![c] = row]
      <4>1. c \in DOMAIN merge'.merged /\ merge'.merged[c] = row
        BY <2>3, <3>4
      <4>2. /\ held.bucket \in Buckets /\ row.bucket # "conflict"
            /\ held.bucket \in merge.seen[c]
            /\ \A o \in merge.seen[c] : Precedence(held.bucket) <= Precedence(o)
            /\ ~({"proven", "refuted"} \subseteq merge.seen[c])
        BY <2>2, <2>5, <2>6, <3>4 DEF HeldIsBest, Unranked, held, Buckets
      <4>3. \A o \in merge'.seen[c] : Precedence(row.bucket) <= Precedence(o)
        BY <2>2, <3>0, <3>4, <4>2, PrecedenceIsInjective DEF Beats
      <4>4. ~({"proven", "refuted"} \subseteq merge'.seen[c])
        <5> SUFFICES ASSUME {"proven", "refuted"} \subseteq merge'.seen[c] PROVE FALSE
          OBVIOUS
        <5>1. row.bucket \in {"proven", "refuted"}
          BY <3>0, <4>2
        <5>2. Precedence(row.bucket) <= Precedence("proven") /\ row.bucket = "proven"
          BY <2>2, <4>3, <5>1 DEF Precedence
        <5>3. "refuted" \in merge.seen[c] /\ Precedence("refuted") = 2
          BY <3>0, <5>2 DEF Precedence
        <5>4. held.bucket \in {"proven", "refuted"}
          BY <4>2, <5>3, PrecedenceIsInjective
        <5>5. held.bucket = "refuted"
          BY <3>4, <4>2, <5>2, <5>4, PrecedenceIsInjective DEF Beats
        <5> QED
          BY <3>4, <5>2, <5>5 DEF Disagrees
      <4> QED
        BY <3>0, <4>1, <4>2, <4>3, <4>4 DEF HeldIsBest
    <3>5. CASE /\ c \in DOMAIN merge.merged /\ ~Disagrees(row, held)
               /\ ~Unranked(held) /\ ~Beats(row, held)
               /\ merge'.merged = merge.merged
      <4>1. /\ held.bucket \in Buckets
            /\ held.bucket \in merge.seen[c]
            /\ \A o \in merge.seen[c] : Precedence(held.bucket) <= Precedence(o)
            /\ ~({"proven", "refuted"} \subseteq merge.seen[c])
        BY <2>5, <2>6, <3>5 DEF HeldIsBest, Unranked, held
      <4>2. Precedence(held.bucket) <= Precedence(row.bucket)
        BY <2>2, <3>5, <4>1, PrecedenceIsInjective DEF Beats
      <4>3. ~({"proven", "refuted"} \subseteq merge'.seen[c])
        <5> SUFFICES ASSUME {"proven", "refuted"} \subseteq merge'.seen[c] PROVE FALSE
          OBVIOUS
        <5>1. row.bucket \in {"proven", "refuted"}
          BY <3>0, <4>1
        <5>2. held.bucket \in {"proven", "refuted"}
          <6>1. Precedence(row.bucket) <= 2
            BY <5>1 DEF Precedence
          <6>2. Precedence(held.bucket) \in 1..6 /\ Precedence(row.bucket) \in 1..6
            BY <2>2, <4>1, PrecedenceIsInjective
          <6>3. Precedence(held.bucket) <= 2
            BY <4>2, <6>1, <6>2
          <6> QED
            BY <4>1, <6>3, PrecedenceIsInjective
        <5>3. held.bucket = row.bucket
          BY <3>5, <5>1, <5>2 DEF Disagrees
        <5> QED
          BY <3>0, <4>1, <5>3
      <4> QED
        BY <2>6, <3>0, <3>5, <4>1, <4>2, <4>3 DEF HeldIsBest, held, Unranked
    <3> QED
      BY <1>4, <3>1, <3>2, <3>3, <3>4, <3>5, MergeRowEffect DEF row, held
  <2>9. MergeFailsForAReason'
    <3>1. merge'.torn = merge.torn /\ merge.conflicts \subseteq merge'.conflicts
      BY <1>4, MergeRowEffect
    <3>2. \/ merge'.status = merge.status
          \/ c \in DOMAIN merge.merged /\ Unranked(held)
      BY <1>4, MergeRowEffect DEF held
    <3> QED
      BY <2>1, <2>5, <3>1, <3>2 DEF MergeFailsForAReason, HeldIsBest, Unranked, held
  <2> QED
    BY <2>7, <2>8, <2>9 DEF MergeInv
<1>5. CASE EndMerge
  <2>1. merge \in Merges /\ merge # None
    BY <1>5, MergeParts DEF EndMerge, Merging
  <2>2. /\ merge'.merged = merge.merged /\ merge'.seen = merge.seen
        /\ merge'.conflicts = merge.conflicts /\ merge'.status = "merged"
    BY <1>5, <2>1 DEF EndMerge, Merges
  <2> QED
    BY <2>1, <2>2 DEF MergeInv, HeldIsBest, MergeFailsForAReason
<1> QED
  BY <1>1, <1>2, <1>3, <1>4, <1>5
     DEF Next, vars, StartPhase, Verify, OpenReport, FillReport, Interrupt

LEMMA MergeInvIsEnough == TypeOK /\ MergeInv => MergedIsBest /\ MergeFailsForAReason
<1> SUFFICES ASSUME TypeOK, MergeInv, merge # None
             PROVE  MergedIsBest /\ MergeFailsForAReason
  BY DEF MergedIsBest, MergeFailsForAReason
<1>1. merge.seen \in [Candidate -> SUBSET Buckets] /\ merge.merged \in Some(MergedRows)
  BY MergeParts DEF Merges
<1>2. ASSUME NEW c \in Candidate
      PROVE  IF merge.seen[c] = {} THEN c \notin DOMAIN merge.merged
             ELSE c \in DOMAIN merge.merged /\ merge.merged[c].bucket = BestOf(merge.seen[c])
  <2>1. HeldIsBest(c) /\ merge.seen[c] \subseteq Buckets
    BY <1>1 DEF MergeInv
  <2>2. CASE c \notin DOMAIN merge.merged
    BY <2>1, <2>2 DEF HeldIsBest
  <2>3. CASE c \in DOMAIN merge.merged /\ merge.merged[c].bucket = "conflict"
    BY <2>1, <2>3 DEF HeldIsBest, BestOf
  <2>4. CASE c \in DOMAIN merge.merged /\ merge.merged[c].bucket # "conflict"
    <3>1. /\ merge.merged[c].bucket \in merge.seen[c]
          /\ \A o \in merge.seen[c] : Precedence(merge.merged[c].bucket) <= Precedence(o)
          /\ ~({"proven", "refuted"} \subseteq merge.seen[c])
      BY <2>1, <2>4 DEF HeldIsBest
    <3>2. BestOf(merge.seen[c]) = merge.merged[c].bucket
      BY <2>1, <3>1, BestIsHeld
    <3> QED
      BY <2>4, <3>1, <3>2
  <2> QED
    BY <2>2, <2>3, <2>4
<1> QED
  BY <1>2 DEF MergedIsBest, MergeInv

(* In whatever order the reports come, and whatever they hold: what a      *)
(* merge holds of a candidate is the best verdict read, or a conflict, and *)
(* a merge fails only over a torn report or a conflict                     *)
(* (verification.py:192-216).                                              *)
THEOREM MergedBest == Spec => []MergesAreRight
<1>1. Init => TypeOK /\ MergeInv
  BY TypeInit DEF Init, MergeInv
<1>2. TypeOK /\ MergeInv /\ [Next]_vars => TypeOK' /\ MergeInv'
  BY TypeStep, MergeInvStep
<1>3. TypeOK /\ MergeInv => MergesAreRight
  BY MergeInvIsEnough DEF MergesAreRight
<1> QED
  BY <1>1, <1>2, <1>3, PTL DEF Spec

-----------------------------------------------------------------------------
(* Final reports.                                                          *)

(* The strengthening: a report opened for the last time gets all rows.     *)
FinalInv ==
  /\ call # None /\ call.open /\ ~call.due => DOMAIN call.rows = Candidate
  /\ FinalReportsAreComplete

LEMMA FinalStep == TypeOK /\ FinalInv /\ [Next]_vars => FinalInv'
<1> SUFFICES ASSUME TypeOK, FinalInv, [Next]_vars PROVE FinalInv'
  OBVIOUS
<1> USE DEF FinalInv, FinalReportsAreComplete
<1>1. ASSUME NEW f \in Phase, StartPhase(f) PROVE FinalInv'
  BY <1>1 DEF StartPhase
<1>2. ASSUME NEW c \in Candidate, Verify(c) PROVE FinalInv'
  <2>1. call \in Calls /\ ~call.due /\ DOMAIN call.rows # Candidate
    BY <1>2, CallParts DEF Verify
  <2>2. call'.open = call.open
    BY <1>2, <2>1 DEF Verify, Calls
  <2> QED
    BY <1>2, <2>1, <2>2 DEF Verify
<1>3. CASE OpenReport
  <2>1. call \in Calls /\ call # None
    BY <1>3, CallParts DEF OpenReport
  <2>2. call'.rows = call.rows /\ call'.due = call.due
    BY <1>3, <2>1 DEF OpenReport, Calls
  <2>3. \A f \in Phase : report'[f] = report[f] \/ report'[f] = Torn
    BY <1>3 DEF OpenReport, TypeOK
  <2> QED
    BY <1>3, <2>2, <2>3 DEF OpenReport
<1>4. CASE FillReport
  <2>1. call \in Calls /\ call # None /\ call.open
    BY <1>4, CallParts DEF FillReport
  <2>2. \/ call' = None
        \/ call'.open = FALSE
    BY <1>4, <2>1 DEF FillReport, Calls
  <2>3. \A f \in Phase :
          \/ report'[f] = report[f]
          \/ report'[f].partial = call.due /\ report'[f].rows = call.rows
    BY <1>4 DEF FillReport, Partial, TypeOK
  <2>4. FinalReportsAreComplete'
    BY <2>1, <2>3
  <2> QED
    BY <2>2, <2>4
<1>5. CASE Interrupt
  BY <1>5 DEF Interrupt
<1>6. CASE UNCHANGED <<call, report>>
  BY <1>6
<1> QED
  BY <1>1, <1>2, <1>3, <1>4, <1>5, <1>6
     DEF Next, vars, StartMerge, ReadReport, MergeRow, EndMerge

(* However calls are interrupted and repeated: a report that is not called *)
(* partial has a row for every candidate (verification.py:71-77).          *)
THEOREM FinalComplete == Spec => []FinalReportsAreComplete
<1>1. Init => TypeOK /\ FinalInv
  BY TypeInit DEF Init, FinalInv, FinalReportsAreComplete
<1>2. TypeOK /\ FinalInv /\ [Next]_vars => TypeOK' /\ FinalInv'
  BY TypeStep, FinalStep
<1>3. FinalInv => FinalReportsAreComplete
  BY DEF FinalInv
<1> QED
  BY <1>1, <1>2, <1>3, PTL DEF Spec

-----------------------------------------------------------------------------
(* Alarms.                                                                 *)

Quiet(rows) == \A c \in DOMAIN rows : rows[c].alarm => ~CarriesOver(facts.pair[c])
Agreed(conflicts) == \A c \in conflicts : ~CarriesOver(facts.pair[c])

(* The strengthening: nor is there an alarm in the call under way.         *)
AlarmInv ==
  /\ facts.wrong = "nobody" /\ call # None => Quiet(call.rows)
  /\ NoFalseAlarms

LEMMA CascadeQuiet ==
  ASSUME facts \in Facts, facts.wrong = "nobody",
         NEW c \in Candidate, NEW given, NEW a \in Answers, Possible(facts.pair[c], a),
         CarriesOver(facts.pair[c])
  PROVE  ~CascadeRow(facts.pair[c], given, a).alarm
<1> DEFINE p == facts.pair[c]
           row == CascadeRow(p, given, a)
<1> SUFFICES ASSUME row.alarm PROVE FALSE
  OBVIOUS
<1>1. p.certified => Asked(p)
  BY FactsAssumption
<1>2. Prover(p, given, a) # "none" /\ RefuterRefutes(p, given, a)
  BY DEF CascadeRow, ProvenRow, Row
<1>3. Asked(p)
  BY <1>1, <1>2 DEF Prover, Possible
<1>4. ~p.equal
  BY <1>2 DEF RefuterRefutes, Possible
<1> QED
  BY <1>3, <1>4, AskedCarriesOver

LEMMA NobodyErrs == ASSUME NEW row \in MergedRows PROVE row.by # "nobody"
BY DEF MergedRows, Provers

LEMMA AlarmStep ==
  TypeOK /\ BucketsAreTrue /\ AlarmInv /\ [Next]_vars => AlarmInv'
<1> SUFFICES ASSUME TypeOK, BucketsAreTrue, AlarmInv, [Next]_vars PROVE AlarmInv'
  OBVIOUS
<1>0. facts' = facts
  BY FactsStay
<1> SUFFICES ASSUME facts.wrong = "nobody"
             PROVE  /\ call' # None => Quiet(call'.rows)
                    /\ \A f \in Phase : report'[f] \notin {None, Torn} => Quiet(report'[f].rows)
                    /\ merge' # None => Agreed(merge'.conflicts)
  BY <1>0 DEF AlarmInv, NoFalseAlarms, Quiet, Agreed
<1>q. /\ call # None => Quiet(call.rows)
      /\ \A f \in Phase : report[f] \notin {None, Torn} => Quiet(report[f].rows)
      /\ merge # None => Agreed(merge.conflicts)
  BY DEF AlarmInv, NoFalseAlarms, Quiet, Agreed
<1>1. ASSUME NEW f \in Phase, StartPhase(f) PROVE Quiet(call'.rows)
  BY <1>1 DEF StartPhase, Quiet, Empty
<1>2. ASSUME NEW c \in Candidate, Verify(c) PROVE Quiet(call'.rows)
  <2>1. call \in Calls /\ call.rows \in Some(Rows) /\ call # None
    BY <1>2, CallParts DEF Verify
  <2>2. PICK a \in Answers :
          /\ Possible(facts.pair[c], a)
          /\ call' = [call EXCEPT
               !.rows = With(@, c, CascadeRow(facts.pair[c], Backends[call.phase], a)),
               !.due  = (Cardinality(DOMAIN call.rows) + 1) % PartialEvery = 0]
    BY <1>2 DEF Verify
  <2> DEFINE row == CascadeRow(facts.pair[c], Backends[call.phase], a)
  <2>3. row.alarm => ~CarriesOver(facts.pair[c])
    BY <2>2, CascadeQuiet DEF TypeOK
  <2>4. call'.rows = With(call.rows, c, row)
    BY <2>1, <2>2 DEF Calls
  <2> HIDE DEF row
  <2> QED
    BY <1>q, <2>1, <2>3, <2>4 DEF With, Quiet
<1>3. ASSUME OpenReport \/ FillReport
      PROVE  /\ call' # None => Quiet(call'.rows)
             /\ \A f \in Phase : report'[f] \notin {None, Torn} => Quiet(report'[f].rows)
  <2>1. call \in Calls /\ call # None
    BY <1>3, CallParts DEF OpenReport, FillReport
  <2>2. call' # None => call'.rows = call.rows
    BY <1>3, <2>1 DEF OpenReport, FillReport, Calls
  <2>3. \A f \in Phase : \/ report'[f] = report[f] \/ report'[f] = Torn
                       \/ report'[f].rows = call.rows
    BY <1>3 DEF OpenReport, FillReport, TypeOK
  <2> QED
    BY <1>q, <2>1, <2>2, <2>3
<1>4. ASSUME NEW c \in Candidate, MergeRow(c) PROVE Agreed(merge'.conflicts)
  <2> DEFINE row == merge.rows[c]
             held == merge.merged[c]
  <2>1. merge \in Merges /\ merge # None /\ c \in DOMAIN merge.rows
    BY <1>4, MergeParts DEF MergeRow, Merging
  <2>2. row \in MergedRows /\ RowIsTrue(c, row)
    BY <2>1, MergeParts, RowOf, RowsAreMergedRows DEF BucketsAreTrue, RowsAreTrue
  <2>3. c \in DOMAIN merge.merged => held \in MergedRows /\ RowIsTrue(c, held)
    BY <2>1, MergeParts, RowOf DEF BucketsAreTrue, RowsAreTrue
  <2>4. c \in DOMAIN merge.merged /\ Disagrees(row, held) => ~CarriesOver(facts.pair[c])
    BY <2>2, <2>3, NobodyErrs DEF Disagrees, RowIsTrue
  <2>5. \/ merge'.conflicts = merge.conflicts
        \/ merge'.conflicts = merge.conflicts \cup {c} /\ ~CarriesOver(facts.pair[c])
    BY <1>4, <2>4, MergeRowEffect
  <2> QED
    BY <1>q, <2>1, <2>5 DEF Agreed
<1>5. ASSUME NEW order \in Orders, StartMerge(order) PROVE Agreed(merge'.conflicts)
  BY <1>5 DEF StartMerge, Agreed
<1>6. ASSUME ReadReport \/ EndMerge PROVE merge'.conflicts = merge.conflicts /\ merge # None
  <2>1. merge \in Merges /\ merge # None
    BY <1>6, MergeParts DEF ReadReport, EndMerge, Merging
  <2>2. \/ merge' = [merge EXCEPT !.status = "raised", !.torn = TRUE]
        \/ merge' = [merge EXCEPT !.left = Tail(@), !.rows = report[Head(merge.left)].rows]
        \/ merge' = [merge EXCEPT !.status = "merged"]
    BY <1>6 DEF ReadReport, EndMerge
  <2> QED
    BY <2>1, <2>2 DEF Merges
<1>7. CASE Interrupt
  BY <1>7, <1>q DEF Interrupt
<1>8. CASE UNCHANGED vars
  BY <1>8, <1>q DEF vars
<1> QED
  BY <1>q, <1>1, <1>2, <1>3, <1>4, <1>5, <1>6, <1>7, <1>8
     DEF Next, StartPhase, Verify, OpenReport, FillReport, StartMerge, ReadReport, MergeRow, EndMerge

(* Where no backend errs there is no alarm in any report and no conflict   *)
(* in any merge over a candidate whose proof carries over: one that was    *)
(* not reduced, or whose CTEs are read by the same names as in its         *)
(* original, whatever the pairs and the phases (verification.py:141-147    *)
(* and 208-212).                                                           *)
THEOREM NoAlarmWithoutError == Spec => []NoFalseAlarms
<1>1. Init => TypeOK /\ BucketsAreTrue /\ AlarmInv
  BY TypeInit, TrueInit DEF Init, AlarmInv, NoFalseAlarms
<1>2. TypeOK /\ BucketsAreTrue /\ AlarmInv /\ [Next]_vars
        => TypeOK' /\ BucketsAreTrue' /\ AlarmInv'
  BY TypeStep, TrueStep, AlarmStep
<1>3. AlarmInv => NoFalseAlarms
  BY DEF AlarmInv
<1> QED
  BY <1>1, <1>2, <1>3, PTL DEF Spec
=============================================================================
