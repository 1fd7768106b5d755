------------------------- MODULE StateMeasurements --------------------------
(***************************************************************************)
(* CachedPerformanceEvaluator (environment/cache.py) over the files of     *)
(* JsonFileCache, as an environment with state rewards drives it: from     *)
(* reset() along one rewrite after the other, each measured as a pair.     *)
(* Costs are logarithms, so that the scale of a session (how fast the      *)
(* machine is that day) is a term added to both queries of a pair, and     *)
(* moving a result onto another scale a sum.                               *)
(***************************************************************************)
EXTENDS Integers, Sequences, FiniteSets, SequencesExt, Collections, JsonFileCache

CONSTANTS
  Root,     \* the query of the task that the namespace belongs to
  Edge,     \* per process, the pairs of queries its strategy may ask for;
            \* <<q, q>> is evaluate_query(q)
  Cost,     \* what each query costs, logarithmically
  Drift,    \* the scales a session may measure on
  Failed,   \* a measurement that did not complete
  MaxInterruptions  \* bound: processes killed, calls that raise, power failures

(* What is known of some of the queries.                                   *)
Partial(S) == UNION {[Q -> S] : Q \in SUBSET Key}

ASSUME MeasurementAssumption ==
  /\ Root \in Key /\ Edge \in [Process -> SUBSET (Key \X Key)]
  /\ Cost \in [Key -> Int] /\ Drift \subseteq Int
  /\ {Cost[q] + d : q \in Key, d \in Drift} \cup {Failed} \subseteq Value
  /\ None \notin Partial(Value)
  /\ \A q \in Key, d \in Drift : Cost[q] + d # Failed
  /\ IsFiniteSet(Process)

VARIABLES
  at,       \* per process, the query its episode has reached
  job,      \* per process, the pair being evaluated, or None
  misses,   \* per process, its counter of cache misses
  interruptions,  \* history: killed processes, calls that raised, power failures
  powerLost,      \* history: the power has failed
  overlapped      \* history: two evaluations were under way at once

vars == <<files, settled, temp, at, job, misses, interruptions, powerLost, overlapped>>

Jobs ==
  [from : Key, to : Key,
   found : Partial(Value \cup {None}),       \* what load() gave, per query looked up
   answer : Partial(Value) \cup {None},      \* None until measured
   due : Seq(Key)]                           \* what is still to be stored

ASSUME JobsAreSome == None \notin Jobs

TypeOK ==
  /\ FilesTypeOK
  /\ at \in [Process -> Key]
  /\ job \in [Process -> Jobs \cup {None}]
  /\ misses \in [Process -> Nat]
  /\ interruptions \in Nat /\ powerLost \in BOOLEAN /\ overlapped \in BOOLEAN

Init ==
  /\ FilesInit
  /\ at = [p \in Process |-> Root]
  /\ job = [p \in Process |-> None]
  /\ misses = [p \in Process |-> 0]
  /\ interruptions = 0 /\ powerLost = FALSE /\ overlapped = FALSE

-----------------------------------------------------------------------------
Pair(j)    == {j.from, j.to}
Looked(j)  == DOMAIN j.found = Pair(j)
Missing(j) == {q \in DOMAIN j.found : j.found[q] = None}

(* Mutant: every session keeps its own scale.                              *)
NormalizedNever(result, measuredAnchor, cachedAnchor) == result

(* _normalize_query_result: a result moves from the scale its anchor was   *)
(* measured on to the scale its anchor is cached on.                       *)
Normalized(result, measuredAnchor, cachedAnchor) ==
  IF Failed \in {result, measuredAnchor, cachedAnchor} THEN result
  ELSE result + cachedAnchor - measuredAnchor

(* The answer for a pair of which raw was just measured.                   *)
Answer(j, raw) ==
  [q \in Pair(j) |->
     IF q \notin Missing(j) THEN j.found[q]
     ELSE IF Missing(j) = Pair(j) THEN raw[q]
     ELSE LET anchor == CHOOSE a \in Pair(j) : a # q
          IN  Normalized(raw[q], raw[anchor], j.found[anchor])]

(* Mutant: only the rewritten query is stored.                             *)
DueRewritten(j) == IF j.to \in Missing(j) THEN <<j.to>> ELSE <<>>

(* What has to be stored, the original query first.                        *)
Due(j) ==
  (IF j.from \in Missing(j) THEN <<j.from>> ELSE <<>>)
    \o (IF j.to \in Missing(j) \ {j.from} THEN <<j.to>> ELSE <<>>)

(* Mutant: one miss per call.                                              *)
MissesPerCall(j) == 1

(* What a call adds to the miss counter.                                   *)
Misses(j) == Cardinality(Missing(j))

-----------------------------------------------------------------------------
(* A call of evaluate_query_pair (or evaluate_query) starts.               *)
Ask(p, r) ==
  /\ job[p] = None
  /\ <<at[p], r>> \in Edge[p]
  /\ job' = [job EXCEPT ![p] =
               [from |-> at[p], to |-> r, found |-> [q \in {} |-> None],
                answer |-> None, due |-> <<>>]]
  /\ overlapped' = (overlapped \/ \E o \in Process : job[o] # None)
  /\ UNCHANGED <<fileVars, at, misses, interruptions, powerLost>>

(* The original query is looked up first, then the rewritten one.          *)
NextLookup(j) == IF j.from \in DOMAIN j.found THEN j.to ELSE j.from

(* Mutant: a failed entry is tried again.                                  *)
LoadedUnlessFailed(file) == IF Stored(file) = Failed THEN None ELSE Stored(file)

(* What load() gives for an entry.                                         *)
LoadedValue(file) == Stored(file)

Load(p) ==
  /\ job[p] # None
  /\ ~Looked(job[p])
  /\ \E q \in {NextLookup(job[p])} :
       /\ files[q] # Torn
       /\ job' = [job EXCEPT ![p].found =
                    [k \in DOMAIN @ \cup {q} |->
                       IF k = q THEN LoadedValue(files[q]) ELSE @[k]]]
  /\ UNCHANGED <<fileVars, at, misses, interruptions, powerLost, overlapped>>

(* Both queries are measured in turns, on one scale; when either of them   *)
(* times out or fails, both results are failures.                          *)
Measure(p) ==
  /\ job[p] # None /\ Looked(job[p]) /\ job[p].answer = None
  /\ Missing(job[p]) # {}
  /\ \E raw \in {[q \in Pair(job[p]) |-> Cost[q] + d] : d \in Drift}
                 \cup {[q \in Pair(job[p]) |-> Failed]} :
       job' = [job EXCEPT ![p].answer = Answer(job[p], raw), ![p].due = Due(job[p])]
  /\ misses' = [misses EXCEPT ![p] = @ + Misses(job[p])]
  /\ UNCHANGED <<fileVars, at, interruptions, powerLost, overlapped>>

StoreWrite(p) ==
  /\ job[p] # None /\ job[p].due # <<>>
  /\ Write(p, Head(job[p].due), job[p].answer[Head(job[p].due)])
  /\ UNCHANGED <<at, job, misses, interruptions, powerLost, overlapped>>

StoreSync(p) ==
  /\ Sync(p)
  /\ UNCHANGED <<at, job, misses, interruptions, powerLost, overlapped>>

StoreReplace(p) ==
  /\ Replace(p)
  /\ job' = [job EXCEPT ![p].due = Tail(@)]
  /\ UNCHANGED <<at, misses, interruptions, powerLost, overlapped>>

(* The answer a call returns.                                              *)
Returned(j) == IF j.answer = None THEN j.found ELSE j.answer

Return(p) ==
  /\ job[p] # None /\ Looked(job[p])
  /\ Missing(job[p]) = {} \/ (job[p].answer # None /\ job[p].due = <<>>)
  /\ at' = [at EXCEPT ![p] = job[p].to]
  /\ job' = [job EXCEPT ![p] = None]
  /\ UNCHANGED <<fileVars, misses, interruptions, powerLost, overlapped>>

(* The next episode of the task, of this strategy or the next.             *)
Reset(p) ==
  /\ job[p] = None
  /\ at[p] # Root
  /\ at' = [at EXCEPT ![p] = Root]
  /\ UNCHANGED <<fileVars, job, misses, interruptions, powerLost, overlapped>>

(* The evaluator or a store raises: the strategy ends with an error, the   *)
(* process and its counters live on.                                       *)
Raise(p) ==
  /\ interruptions < MaxInterruptions
  /\ job[p] # None /\ Looked(job[p]) /\ Missing(job[p]) # {}
  /\ job[p].answer # None => job[p].due # <<>>
  /\ Abandon(p)
  /\ job' = [job EXCEPT ![p] = None]
  /\ at' = [at EXCEPT ![p] = Root]
  /\ interruptions' = interruptions + 1
  /\ misses' = IF job[p].answer # None THEN misses
               ELSE [misses EXCEPT ![p] = @ + Misses(job[p])]
  /\ UNCHANGED <<powerLost, overlapped>>

(* The process is killed and the run started again on the same directory.  *)
Kill(p) ==
  /\ interruptions < MaxInterruptions
  /\ job[p] # None
  /\ Abandon(p)
  /\ job' = [job EXCEPT ![p] = None]
  /\ at' = [at EXCEPT ![p] = Root]
  /\ misses' = [misses EXCEPT ![p] = 0]
  /\ interruptions' = interruptions + 1
  /\ UNCHANGED <<powerLost, overlapped>>

PowerFails ==
  /\ interruptions < MaxInterruptions
  /\ PowerFailure
  /\ job' = [p \in Process |-> None]
  /\ at' = [p \in Process |-> Root]
  /\ misses' = [p \in Process |-> 0]
  /\ interruptions' = interruptions + 1
  /\ powerLost' = TRUE
  /\ UNCHANGED overlapped

(* Only a power failure reads what is settled: after the last one that the *)
(* bound allows, nothing need settle.                                      *)
Flush(k) ==
  /\ interruptions < MaxInterruptions
  /\ Settle(k)
  /\ UNCHANGED <<at, job, misses, interruptions, powerLost, overlapped>>

Next ==
  \/ \E p \in Process :
       \/ \E r \in Key : Ask(p, r)
       \/ Load(p) \/ Measure(p)
       \/ StoreWrite(p) \/ StoreSync(p) \/ StoreReplace(p)
       \/ Return(p) \/ Reset(p) \/ Raise(p) \/ Kill(p)
  \/ PowerFails
  \/ \E k \in Key : Flush(k)

Spec == Init /\ [][Next]_vars

-----------------------------------------------------------------------------
(* Whatever the sessions an entry was measured in, completed entries differ*)
(* by what their queries cost and by nothing else, so that an edge earns   *)
(* the same wherever and whenever its ends were measured                   *)
(* (docs/rewrite-environment.md:66-70).  Calls that raise and processes    *)
(* killed between the two stores of a pair do not break this; measurements *)
(* that fail, calls that overlap and entries lost to a power failure do,   *)
(* because then a query may be measured without an anchor.                 *)
Completed(q) == files[q] # None /\ Stored(files[q]) # Failed
DriftFree ==
  (~powerLost /\ ~overlapped /\ \A q \in Key : files[q] # None => Completed(q)) =>
    \A q, r \in {k \in Key : Completed(k)} :
      Stored(files[q]) - Stored(files[r]) = Cost[q] - Cost[r]

(* There is one stable entry per query (rewrite-environment.md:69): once   *)
(* there, a failed one included, it is never measured again.               *)
EntriesAreStable ==
  [][~overlapped' /\ ~powerLost' =>
       \A q \in Key : files[q] # None => Stored(files'[q]) = Stored(files[q])]_vars

(* What a call answers is what the next process will find, so that rewards *)
(* of two calls that share a query telescope.                              *)
ReturnsTheEntries ==
  [][\A p \in Process :
       /\ job[p] # None /\ job'[p] = None
       /\ interruptions' = interruptions /\ ~overlapped
       => \A q \in Pair(job[p]) : Returned(job[p])[q] = Stored(files[q])]_vars

(* What all processes have counted together. *)
AllMisses == Total([i \in 1 .. Cardinality(Process) |-> misses[SetToSeq(Process)[i]]])

(* The miss counters of a run that was not interrupted add up to its       *)
(* entries: every query was measured for one of them and for no more       *)
(* (docs/task-corpus.md:225-231).                                          *)
MissesAreEntries ==
  (interruptions = 0 /\ ~overlapped /\ \A p \in Process : job[p] = None) =>
    AllMisses = Cardinality({q \in Key : files[q] # None})

(* The cache holds one scale, and each of its entries was paid for once.   *)
EntriesAreSound == DriftFree /\ MissesAreEntries

(* So rewards may be added up over calls, strategies and processes.        *)
EntriesStand == EntriesAreStable /\ ReturnsTheEntries
=============================================================================
