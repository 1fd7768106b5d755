----------------------- MODULE StateMeasurements_proofs ---------------------
(***************************************************************************)
(* Theorems about JsonFileCache and about StateMeasurements on top of it,  *)
(* for any processes, keys and values.                                     *)
(***************************************************************************)
EXTENDS StateMeasurements, Collections_proofs, FiniteSetTheorems

(* What an entry is as long as store() syncs before it renames.            *)
Whole == {f \in Contents : f.synced} \cup {None}

(* The inductive invariant: no entry, seen or settled, is torn or unsynced.*)
FileInv ==
  /\ files \in [Key -> Whole]
  /\ settled \in [Key -> Whole]
  /\ temp \in [Process -> Temps \cup {None}]

LEMMA WholeRemains ==
  ASSUME NEW f \in Whole
  PROVE  Remains(f) = {f}
BY FileAssumption DEF Whole, Remains, Contents

(* A whole entry shows a reader a value or nothing.                        *)
LEMMA WholeStored ==
  ASSUME NEW f \in Whole
  PROVE  Stored(f) \in Value \cup {None}
BY FileAssumption DEF Whole, Stored, Contents

LEMMA FileInvInit == FilesInit => FileInv
BY DEF FilesInit, FileInv, Whole

LEMMA FileInvStep == FileInv /\ [FilesNext]_fileVars => FileInv'
<1> SUFFICES ASSUME FileInv, [FilesNext]_fileVars PROVE FileInv'
  OBVIOUS
<1>1. ASSUME NEW p \in Process, NEW k \in Key, NEW v \in Value, Write(p, k, v)
      PROVE  FileInv'
  BY <1>1 DEF Write, FileInv, Temps
<1>2. ASSUME NEW p \in Process, Sync(p) PROVE FileInv'
  <2>1. temp[p] \in Temps
    BY <1>2 DEF Sync, FileInv
  <2>2. [temp[p] EXCEPT !.synced = TRUE] \in Temps
    BY <2>1 DEF Temps
  <2> QED
    BY <1>2, <2>2 DEF Sync, FileInv
<1>3. ASSUME NEW p \in Process, Replace(p) PROVE FileInv'
  <2>1. temp[p] \in Temps
    BY <1>3 DEF Replace, FileInv
  <2>2. [value |-> temp[p].value, synced |-> TRUE] \in Whole
    BY <2>1 DEF Temps, Whole, Contents
  <2> QED
    BY <1>3, <2>1, <2>2 DEF Replace, FileInv, Temps
<1>4. ASSUME NEW p \in Process, Abandon(p) PROVE FileInv'
  BY <1>4 DEF Abandon, FileInv
<1>5. ASSUME NEW k \in Key, Settle(k) PROVE FileInv'
  BY <1>5 DEF Settle, FileInv
<1>6. CASE PowerFailure
  <2>1. \A k \in Key : files'[k] \in Whole
    BY <1>6, WholeRemains DEF PowerFailure, FileInv
  <2> QED
    BY <1>6, <2>1 DEF PowerFailure, FileInv
<1>7. CASE UNCHANGED fileVars
  BY <1>7 DEF fileVars, FileInv
<1> QED
  BY <1>1, <1>2, <1>3, <1>4, <1>5, <1>6, <1>7 DEF FilesNext

(* Entries and temporary files have their types, and no entry is ever torn *)
(* (cache.py:31-51).                                                       *)
THEOREM FilesTypeCorrect == FilesSpec => []FileInv
BY FileInvInit, FileInvStep, PTL DEF FilesSpec

-----------------------------------------------------------------------------
LEMMA FilesInitRefines == FilesInit => EntryView!Init
BY FileAssumption DEF FilesInit, EntryView!Init, Stored

LEMMA FilesStepRefines ==
  FileInv /\ [FilesNext]_fileVars =>
    [EntryView!Next]_<<[k \in Key |-> Stored(files[k])], [k \in Key |-> Stored(settled[k])]>>
<1> SUFFICES ASSUME FileInv, [FilesNext]_fileVars
             PROVE  [EntryView!Next]_<<[k \in Key |-> Stored(files[k])],
                                       [k \in Key |-> Stored(settled[k])]>>
  OBVIOUS
<1>1. ASSUME NEW p \in Process, NEW k \in Key, NEW v \in Value, Write(p, k, v)
      PROVE  UNCHANGED <<files, settled>>
  BY <1>1 DEF Write
<1>2. ASSUME NEW p \in Process, Sync(p) PROVE UNCHANGED <<files, settled>>
  BY <1>2 DEF Sync
<1>3. ASSUME NEW p \in Process, Replace(p)
      PROVE  \E k \in Key, v \in Value : EntryView!Put(k, v)
  <2>1. temp[p] \in Temps
    BY <1>3 DEF Replace, FileInv
  <2> DEFINE k0 == temp[p].key
             v0 == temp[p].value
             f0 == [value |-> v0, synced |-> TRUE]
  <2>2. k0 \in Key /\ v0 \in Value
    BY <2>1 DEF Temps
  <2>3. files' = [files EXCEPT ![k0] = f0] /\ settled' = settled
    BY <1>3 DEF Replace
  <2>4. Stored(f0) = v0
    <3>1. f0 \in Contents
      BY <2>2 DEF Contents
    <3>2. f0 \notin {None, Torn}
      BY <3>1, FileAssumption
    <3> QED
      BY <3>2 DEF Stored
  <2>5. [k \in Key |-> Stored(files'[k])]
          = [[k \in Key |-> Stored(files[k])] EXCEPT ![k0] = v0]
    <3> HIDE DEF k0, v0, f0
    <3> QED
      BY <2>2, <2>3, <2>4 DEF FileInv
  <2>6. EntryView!Put(k0, v0)
    BY <2>3, <2>5 DEF EntryView!Put
  <2> QED
    BY <2>2, <2>6
<1>4. ASSUME NEW p \in Process, Abandon(p) PROVE UNCHANGED <<files, settled>>
  BY <1>4 DEF Abandon
<1>5. ASSUME NEW k \in Key, Settle(k) PROVE EntryView!Settle(k)
  <2>1. [q \in Key |-> Stored(settled'[q])]
          = [[q \in Key |-> Stored(settled[q])] EXCEPT ![k] = Stored(files[k])]
    BY <1>5 DEF Settle, FileInv
  <2> QED
    BY <1>5, <2>1 DEF Settle, EntryView!Settle
<1>6. CASE PowerFailure
  <2>1. \A k \in Key : files'[k] \in {files[k], settled[k]}
    BY <1>6, WholeRemains DEF PowerFailure, FileInv
  <2>2. settled' = files'
    BY <1>6 DEF PowerFailure
  <2>3. \A k \in Key : Stored(files'[k]) \in {Stored(files[k]), Stored(settled[k])}
    BY <2>1
  <2> QED
    BY <2>2, <2>3 DEF EntryView!Next, EntryView!Lose
<1>7. CASE UNCHANGED fileVars
  BY <1>7 DEF fileVars
<1> QED
  BY <1>1, <1>2, <1>3, <1>4, <1>5, <1>6, <1>7 DEF FilesNext, EntryView!Next

(* Whatever the processes sharing the directory store, and whenever one is *)
(* killed or the power fails, a reader finds under a key nothing or a      *)
(* whole value that was stored there (cache.py:28-51).                     *)
THEOREM FilesKeepEntriesWhole == FilesSpec => ImplementsEntryStore
BY FilesInitRefines, FilesStepRefines, FilesTypeCorrect, PTL
DEF FilesSpec, ImplementsEntryStore, EntryView!Spec

-----------------------------------------------------------------------------
(* The results a query may have: what it costs on some scale, or a failure. *)
ResultsOf(q) == {Cost[q] + d : d \in Drift} \cup {Failed}

(* Every value in the directory is a result of the query it is filed under.*)
FilesHoldResults ==
  /\ \A q \in Key : files[q] # None => files[q].value \in ResultsOf(q)
  /\ \A q \in Key : settled[q] # None => settled[q].value \in ResultsOf(q)
  /\ \A p \in Process : temp[p] # None => temp[p].value \in ResultsOf(temp[p].key)

(* The state of a call: what it found, what it answers, what it stores.    *)
JobHoldsResults(j) ==
  /\ DOMAIN j.found \subseteq Pair(j)
  /\ \A q \in DOMAIN j.found : j.found[q] \in ResultsOf(q) \cup {None}
  /\ j.due \in Seq(Pair(j))
  /\ j.answer = None => j.due = <<>>
  /\ j.answer # None =>
       /\ Looked(j) /\ Missing(j) # {}
       /\ DOMAIN j.answer = Pair(j)
       /\ \A q \in Pair(j) : j.answer[q] \in ResultsOf(q)

(* The inductive invariant: files are whole, everything that is stored,    *)
(* found or answered is a result of its query, and a process has a         *)
(* temporary file only while its call has something left to store.         *)
MeasuringInv ==
  /\ FileInv
  /\ FilesHoldResults
  /\ at \in [Process -> Key]
  /\ job \in [Process -> Jobs \cup {None}]
  /\ \A p \in Process : job[p] # None => JobHoldsResults(job[p])
  /\ \A p \in Process : temp[p] # None => job[p] # None /\ job[p].due # <<>>

LEMMA ResultsAreValues ==
  ASSUME NEW q \in Key
  PROVE  ResultsOf(q) \subseteq Value
BY MeasurementAssumption DEF ResultsOf

(* A function on one or two queries is a partial function on the queries.  *)
LEMMA PartialType ==
  ASSUME NEW S, NEW Q, Q \subseteq Key, NEW f, f \in [Q -> S]
  PROVE  f \in Partial(S)
BY DEF Partial

(* Moving a result onto the scale of a cached neighbour leaves it a result *)
(* of its own query, because both were measured on one scale.              *)
LEMMA NormalizedIsResult ==
  ASSUME NEW q \in Key, NEW a \in Key, NEW x \in ResultsOf(a),
         NEW raw, (raw = [k \in {q, a} |-> Failed])
                  \/ \E d \in Drift : raw = [k \in {q, a} |-> Cost[k] + d]
  PROVE  Normalized(raw[q], raw[a], x) \in ResultsOf(q)
<1>1. CASE raw = [k \in {q, a} |-> Failed]
  BY <1>1 DEF Normalized, ResultsOf
<1>2. CASE \E d \in Drift : raw = [k \in {q, a} |-> Cost[k] + d]
  <2>1. PICK d \in Drift : raw = [k \in {q, a} |-> Cost[k] + d]
    BY <1>2
  <2>2. raw[q] = Cost[q] + d /\ raw[a] = Cost[a] + d
    BY <2>1
  <2>3. raw[q] \in ResultsOf(q)
    BY <2>2 DEF ResultsOf
  <2>4. CASE Failed \in {raw[q], raw[a], x}
    BY <2>3, <2>4 DEF Normalized
  <2>5. CASE Failed \notin {raw[q], raw[a], x}
    <3>1. PICK e \in Drift : x = Cost[a] + e
      BY <2>5 DEF ResultsOf
    <3>2. Cost[q] \in Int /\ Cost[a] \in Int /\ d \in Int /\ e \in Int
      BY MeasurementAssumption
    <3>3. raw[q] + x - raw[a] = Cost[q] + e
      BY <2>2, <3>1, <3>2
    <3> QED
      BY <2>5, <3>3 DEF Normalized, ResultsOf
  <2> QED
    BY <2>4, <2>5
<1> QED
  BY <1>1, <1>2

(* An answer gives each query of the pair a result of its own.             *)
LEMMA AnswerHoldsResults ==
  ASSUME NEW j \in Jobs, JobHoldsResults(j), Looked(j),
         NEW raw \in {[q \in Pair(j) |-> Cost[q] + d] : d \in Drift}
                       \cup {[q \in Pair(j) |-> Failed]}
  PROVE  \A q \in Pair(j) : Answer(j, raw)[q] \in ResultsOf(q)
<1> SUFFICES ASSUME NEW q \in Pair(j) PROVE Answer(j, raw)[q] \in ResultsOf(q)
  OBVIOUS
<1>1. q \in Key /\ Pair(j) \subseteq Key
  BY DEF Pair, Jobs
<1>2. CASE q \notin Missing(j)
  BY <1>2 DEF Answer, Missing, Looked, JobHoldsResults
<1>3. CASE q \in Missing(j) /\ Missing(j) = Pair(j)
  <2>1. raw[q] \in ResultsOf(q)
    BY DEF ResultsOf
  <2> QED
    BY <1>3, <2>1 DEF Answer
<1>4. CASE q \in Missing(j) /\ Missing(j) # Pair(j)
  <2> DEFINE a == CHOOSE a \in Pair(j) : a # q
  <2>1. Missing(j) \subseteq Pair(j)
    BY DEF Missing, Looked
  <2>2. \E b \in Pair(j) : b \notin Missing(j)
    BY <1>4, <2>1
  <2>3. a \in Pair(j) /\ a # q
    BY <1>4, <2>2
  <2>4. Pair(j) = {q, a}
    BY <2>3 DEF Pair
  <2>5. a \notin Missing(j)
    BY <1>4, <2>2, <2>4
  <2>6. j.found[a] \in ResultsOf(a)
    BY <2>3, <2>5 DEF Missing, Looked, JobHoldsResults
  <2>7. Answer(j, raw)[q] = Normalized(raw[q], raw[a], j.found[a])
    BY <1>4 DEF Answer
  <2> HIDE DEF a
  <2>8. (raw = [k \in {q, a} |-> Failed])
          \/ \E d \in Drift : raw = [k \in {q, a} |-> Cost[k] + d]
    BY <2>4
  <2>9. Normalized(raw[q], raw[a], j.found[a]) \in ResultsOf(q)
    BY <1>1, <2>3, <2>6, <2>8, NormalizedIsResult
  <2> QED
    BY <2>7, <2>9
<1> QED
  BY <1>2, <1>3, <1>4

LEMMA DueType ==
  ASSUME NEW j
  PROVE  Due(j) \in Seq(Pair(j))
<1> DEFINE first  == IF j.from \in Missing(j) THEN <<j.from>> ELSE <<>>
           second == IF j.to \in Missing(j) \ {j.from} THEN <<j.to>> ELSE <<>>
<1>1. j.from \in Pair(j) /\ j.to \in Pair(j)
  BY DEF Pair
<1>2. first \in Seq(Pair(j))
  BY <1>1
<1>3. second \in Seq(Pair(j))
  BY <1>1
<1>4. first \o second \in Seq(Pair(j))
  <2> HIDE DEF first, second
  <2> QED
    BY <1>2, <1>3
<1> QED
  BY <1>4 DEF Due

LEMMA MeasuringInvInit == Init => MeasuringInv
<1> SUFFICES ASSUME Init PROVE MeasuringInv
  OBVIOUS
<1>1. FileInv
  BY FileInvInit DEF Init
<1>2. FilesHoldResults /\ \A p \in Process : temp[p] = None
  BY DEF Init, FilesInit, FilesHoldResults
<1> QED
  BY <1>1, <1>2, MeasurementAssumption DEF Init, MeasuringInv

(* What is stored next is a result of the query it is filed under.         *)
LEMMA StoredIsResult ==
  ASSUME NEW p \in Process, MeasuringInv, job[p] # None, job[p].due # <<>>
  PROVE  /\ Head(job[p].due) \in Key
         /\ job[p].answer[Head(job[p].due)] \in ResultsOf(Head(job[p].due))
         /\ job[p].answer[Head(job[p].due)] \in Value
<1>1. job[p] \in Jobs /\ JobHoldsResults(job[p])
  BY DEF MeasuringInv
<1>2. Head(job[p].due) \in Pair(job[p])
  BY <1>1 DEF JobHoldsResults
<1>3. Head(job[p].due) \in Key
  BY <1>1, <1>2 DEF Jobs, Pair
<1>4. job[p].answer[Head(job[p].due)] \in ResultsOf(Head(job[p].due))
  BY <1>1, <1>2 DEF JobHoldsResults
<1> QED
  BY <1>3, <1>4, ResultsAreValues

LEMMA MeasuringInvStep == MeasuringInv /\ [Next]_vars => MeasuringInv'
<1> SUFFICES ASSUME MeasuringInv, [Next]_vars PROVE MeasuringInv'
  OBVIOUS
<1> USE DEF MeasuringInv
<1>1. ASSUME NEW p \in Process, NEW r \in Key, Ask(p, r) PROVE MeasuringInv'
  <2> DEFINE j == [from |-> at[p], to |-> r, found |-> [q \in {} |-> None],
                   answer |-> None, due |-> <<>>]
  <2>1. [q \in {} |-> None] \in Partial(Value \cup {None})
    <3>1. [q \in {} |-> None] \in [{} -> Value \cup {None}]
      OBVIOUS
    <3> QED
      BY <3>1, PartialType
  <2>2. j \in Jobs
    BY <2>1 DEF Jobs
  <2>3. JobHoldsResults(j)
    BY DEF JobHoldsResults
  <2>4. job' \in [Process -> Jobs \cup {None}]
    BY <1>1, <2>2 DEF Ask
  <2>5. \A o \in Process : job'[o] # None => JobHoldsResults(job'[o])
    BY <1>1, <2>3 DEF Ask
  <2>6. temp[p] = None
    BY <1>1 DEF Ask
  <2>7. \A o \in Process : temp'[o] # None => job'[o] # None /\ job'[o].due # <<>>
    BY <1>1, <2>6 DEF Ask, fileVars
  <2> QED
    BY <1>1, <2>4, <2>5, <2>7 DEF Ask, fileVars, FileInv, FilesHoldResults
<1>2. ASSUME NEW p \in Process, Load(p) PROVE MeasuringInv'
  <2> DEFINE j == job[p]
             q == NextLookup(j)
             f == [k \in DOMAIN j.found \cup {q} |->
                     IF k = q THEN LoadedValue(files[q]) ELSE j.found[k]]
             new == [j EXCEPT !.found = f]
  <2>1. j \in Jobs /\ JobHoldsResults(j)
    BY <1>2 DEF Load
  <2>2. q \in Pair(j) /\ Pair(j) \subseteq Key
    BY <2>1 DEF NextLookup, Pair, Jobs
  <2>3. LoadedValue(files[q]) \in ResultsOf(q) \cup {None}
    BY <2>2, FileAssumption DEF LoadedValue, Stored, FileInv, Whole, Contents, FilesHoldResults
  <2>4. \A k \in DOMAIN f : f[k] \in ResultsOf(k) \cup {None}
    BY <2>1, <2>3 DEF JobHoldsResults
  <2>5. DOMAIN f \subseteq Pair(j)
    BY <2>1, <2>2 DEF JobHoldsResults
  <2>6. f \in [DOMAIN f -> Value \cup {None}]
    BY <2>2, <2>4, <2>5, ResultsAreValues
  <2>7. f \in Partial(Value \cup {None})
    <3>1. DOMAIN f \subseteq Key
      BY <2>2, <2>5
    <3> HIDE DEF f
    <3> QED
      BY <2>6, <3>1, PartialType
  <2>8. j.answer = None
    BY <1>2, <2>1 DEF Load, JobHoldsResults
  <2> HIDE DEF f
  <2>9. new \in Jobs
    BY <2>1, <2>7 DEF Jobs
  <2>10. JobHoldsResults(new)
    BY <2>1, <2>4, <2>5, <2>8 DEF JobHoldsResults, Pair, Jobs
  <2>11. job' = [job EXCEPT ![p] = new]
    BY <1>2 DEF Load, f
  <2>12. new.due = j.due
    BY <2>1 DEF Jobs
  <2> HIDE DEF new
  <2>13. job' \in [Process -> Jobs \cup {None}]
    BY <2>9, <2>11
  <2>14. \A o \in Process : job'[o] # None => JobHoldsResults(job'[o])
    BY <2>10, <2>11
  <2>15. temp[p] = None
    BY <2>1, <2>8 DEF JobHoldsResults
  <2>16. \A o \in Process : temp'[o] # None => job'[o] # None /\ job'[o].due # <<>>
    BY <1>2, <2>11, <2>15 DEF Load, fileVars
  <2> QED
    BY <1>2, <2>13, <2>14, <2>16 DEF Load, fileVars, FileInv, FilesHoldResults
<1>3. ASSUME NEW p \in Process, Measure(p) PROVE MeasuringInv'
  <2> DEFINE j == job[p]
  <2>1. j \in Jobs /\ JobHoldsResults(j) /\ Looked(j) /\ Missing(j) # {} /\ j.answer = None
    BY <1>3 DEF Measure
  <2>2. Pair(j) \subseteq Key
    BY <2>1 DEF Pair, Jobs
  <2>3. PICK raw \in {[q \in Pair(j) |-> Cost[q] + d] : d \in Drift}
                       \cup {[q \in Pair(j) |-> Failed]} :
          job' = [job EXCEPT ![p].answer = Answer(j, raw), ![p].due = Due(j)]
    BY <1>3 DEF Measure
  <2> DEFINE new == [j EXCEPT !.answer = Answer(j, raw), !.due = Due(j)]
  <2>4. job' = [job EXCEPT ![p] = new]
    BY <2>3
  <2>5. \A q \in Pair(j) : Answer(j, raw)[q] \in ResultsOf(q)
    BY <2>1, AnswerHoldsResults
  <2>6. DOMAIN Answer(j, raw) = Pair(j)
    BY DEF Answer
  <2>7. Answer(j, raw) \in [Pair(j) -> Value]
    <3>1. \A q \in Pair(j) : Answer(j, raw)[q] \in Value
      BY <2>2, <2>5, ResultsAreValues
    <3> QED
      BY <3>1 DEF Answer
  <2>8. Answer(j, raw) \in Partial(Value)
    BY <2>2, <2>7, PartialType
  <2>9. Due(j) \in Seq(Pair(j)) /\ Due(j) \in Seq(Key)
    <3>1. Due(j) \in Seq(Pair(j))
      BY DueType
    <3> QED
      BY <2>2, <3>1
  <2>10. new \in Jobs
    BY <2>1, <2>8, <2>9 DEF Jobs
  <2>11. JobHoldsResults(new)
    <3>1. /\ new.from = j.from /\ new.to = j.to /\ new.found = j.found
          /\ new.answer = Answer(j, raw) /\ new.due = Due(j)
      BY <2>1 DEF Jobs
    <3>2. Pair(new) = Pair(j) /\ Looked(new) /\ Missing(new) = Missing(j)
      BY <2>1, <3>1 DEF Pair, Looked, Missing
    <3>3. new.answer # None => /\ DOMAIN new.answer = Pair(new)
                               /\ \A q \in Pair(new) : new.answer[q] \in ResultsOf(q)
      BY <2>5, <2>6, <3>1, <3>2
    <3>4. new.answer # None
      BY <2>8, <3>1, MeasurementAssumption
    <3> HIDE DEF new
    <3> QED
      BY <2>1, <2>9, <3>1, <3>2, <3>3, <3>4 DEF JobHoldsResults
  <2> HIDE DEF new
  <2>12. job' \in [Process -> Jobs \cup {None}]
    BY <2>4, <2>10
  <2>13. \A o \in Process : job'[o] # None => JobHoldsResults(job'[o])
    BY <2>4, <2>11
  <2>14. temp[p] = None
    BY <2>1 DEF JobHoldsResults
  <2>15. \A o \in Process : temp'[o] # None => job'[o] # None /\ job'[o].due # <<>>
    BY <1>3, <2>4, <2>14 DEF Measure, fileVars
  <2> QED
    BY <1>3, <2>12, <2>13, <2>15 DEF Measure, fileVars, FileInv, FilesHoldResults
<1>4. ASSUME NEW p \in Process, StoreWrite(p) PROVE MeasuringInv'
  <2> DEFINE k == Head(job[p].due)
             v == job[p].answer[k]
  <2>1. k \in Key /\ v \in ResultsOf(k) /\ v \in Value
    BY <1>4, StoredIsResult DEF StoreWrite
  <2>2. Write(p, k, v)
    BY <1>4 DEF StoreWrite
  <2> HIDE DEF k, v
  <2>3. FileInv'
    BY <2>1, <2>2, FileInvStep DEF FilesNext
  <2>4. FilesHoldResults'
    BY <2>1, <2>2 DEF Write, FilesHoldResults, FileInv
  <2>5. \A o \in Process : temp'[o] # None => job'[o] # None /\ job'[o].due # <<>>
    BY <1>4, <2>2 DEF StoreWrite, Write, FileInv
  <2> QED
    BY <1>4, <2>3, <2>4, <2>5 DEF StoreWrite
<1>5. ASSUME NEW p \in Process, StoreSync(p) PROVE MeasuringInv'
  <2>1. FileInv'
    BY <1>5, FileInvStep DEF StoreSync, FilesNext
  <2>2. temp[p] \in Temps /\ temp[p] # None
    BY <1>5 DEF StoreSync, Sync, FileInv
  <2>3. /\ [temp[p] EXCEPT !.synced = TRUE].key = temp[p].key
        /\ [temp[p] EXCEPT !.synced = TRUE].value = temp[p].value
    BY <2>2 DEF Temps
  <2>4. FilesHoldResults'
    BY <1>5, <2>2, <2>3 DEF StoreSync, Sync, FilesHoldResults, FileInv
  <2>5. \A o \in Process : temp'[o] # None => job'[o] # None /\ job'[o].due # <<>>
    BY <1>5 DEF StoreSync, Sync, FileInv
  <2> QED
    BY <1>5, <2>1, <2>4, <2>5 DEF StoreSync
<1>6. ASSUME NEW p \in Process, StoreReplace(p) PROVE MeasuringInv'
  <2> DEFINE j   == job[p]
             new == [j EXCEPT !.due = Tail(j.due)]
  <2>1. FileInv'
    BY <1>6, FileInvStep DEF StoreReplace, FilesNext
  <2>2. temp[p] \in Temps /\ temp[p] # None
    BY <1>6 DEF StoreReplace, Replace, FileInv
  <2>3. j \in Jobs /\ JobHoldsResults(j) /\ j.due # <<>>
    BY <2>2
  <2>4. FilesHoldResults'
    BY <1>6, <2>2 DEF StoreReplace, Replace, FilesHoldResults, FileInv, Temps
  <2>5. Tail(j.due) \in Seq(Pair(j)) /\ Tail(j.due) \in Seq(Key)
    BY <2>3 DEF JobHoldsResults, Jobs
  <2>6. new \in Jobs
    BY <2>3, <2>5 DEF Jobs
  <2>7. JobHoldsResults(new)
    <3>1. /\ new.from = j.from /\ new.to = j.to /\ new.found = j.found
          /\ new.answer = j.answer /\ new.due = Tail(j.due)
      BY <2>3 DEF Jobs
    <3>2. j.answer # None
      BY <2>3 DEF JobHoldsResults
    <3> HIDE DEF new
    <3> QED
      BY <2>3, <2>5, <3>1, <3>2 DEF JobHoldsResults, Pair, Looked, Missing
  <2>8. job' = [job EXCEPT ![p] = new]
    BY <1>6 DEF StoreReplace
  <2> HIDE DEF new
  <2>9. job' \in [Process -> Jobs \cup {None}]
    BY <2>6, <2>8
  <2>10. \A o \in Process : job'[o] # None => JobHoldsResults(job'[o])
    BY <2>7, <2>8
  <2>11. \A o \in Process : temp'[o] # None => job'[o] # None /\ job'[o].due # <<>>
    BY <1>6, <2>8 DEF StoreReplace, Replace, FileInv
  <2> QED
    BY <1>6, <2>1, <2>4, <2>9, <2>10, <2>11 DEF StoreReplace
<1>7. ASSUME NEW p \in Process, Return(p) PROVE MeasuringInv'
  <2>1. job[p] \in Jobs /\ JobHoldsResults(job[p])
    BY <1>7 DEF Return
  <2>2. job[p].due = <<>>
    BY <1>7, <2>1 DEF Return, JobHoldsResults
  <2>3. temp[p] = None
    BY <2>2
  <2>4. \A o \in Process : temp'[o] # None => job'[o] # None /\ job'[o].due # <<>>
    BY <1>7, <2>3 DEF Return, fileVars
  <2>5. at' \in [Process -> Key]
    BY <1>7, <2>1 DEF Return, Jobs
  <2> QED
    BY <1>7, <2>4, <2>5 DEF Return, fileVars, FileInv, FilesHoldResults
<1>8. ASSUME NEW p \in Process, Reset(p) PROVE MeasuringInv'
  BY <1>8, MeasurementAssumption DEF Reset, fileVars, FileInv, FilesHoldResults
<1>9. ASSUME NEW p \in Process, Raise(p) \/ Kill(p) PROVE MeasuringInv'
  <2>1. Abandon(p) /\ job' = [job EXCEPT ![p] = None] /\ at' = [at EXCEPT ![p] = Root]
    BY <1>9 DEF Raise, Kill
  <2>2. FileInv'
    BY <2>1, FileInvStep DEF FilesNext
  <2>3. FilesHoldResults'
    BY <2>1 DEF Abandon, FilesHoldResults, FileInv
  <2>4. at' \in [Process -> Key] /\ job' \in [Process -> Jobs \cup {None}]
    BY <2>1, MeasurementAssumption
  <2>5. \A o \in Process : temp'[o] # None => job'[o] # None /\ job'[o].due # <<>>
    BY <2>1 DEF Abandon, FileInv
  <2> QED
    BY <2>1, <2>2, <2>3, <2>4, <2>5
<1>10. CASE PowerFails
  <2>1. FileInv'
    BY <1>10, FileInvStep DEF PowerFails, FilesNext
  <2>2. \A q \in Key : files'[q] \in {files[q], settled[q]}
    BY <1>10, WholeRemains DEF PowerFails, PowerFailure, FileInv
  <2>3. settled' = files' /\ \A p \in Process : temp'[p] = None /\ job'[p] = None
    BY <1>10 DEF PowerFails, PowerFailure
  <2>4. FilesHoldResults'
    BY <2>2, <2>3 DEF FilesHoldResults
  <2> QED
    BY <1>10, <2>1, <2>3, <2>4, MeasurementAssumption DEF PowerFails
<1>11. ASSUME NEW k \in Key, Flush(k) PROVE MeasuringInv'
  <2>1. FileInv'
    BY <1>11, FileInvStep DEF Flush, FilesNext
  <2> QED
    BY <1>11, <2>1 DEF Flush, Settle, FileInv, FilesHoldResults
<1>12. CASE UNCHANGED vars
  BY <1>12 DEF vars, fileVars, FileInv, FilesHoldResults
<1> QED
  BY <1>1, <1>2, <1>3, <1>4, <1>5, <1>6, <1>7, <1>8, <1>9, <1>10, <1>11, <1>12 DEF Next

(* Whatever is stored, found in a file or answered for a query is what that*)
(* query costs on a scale some session measured on, or a failure: moving   *)
(* results from scale to scale never makes up a cost (cache.py:128-160).   *)
THEOREM MeasuringInvariant == Spec => []MeasuringInv
BY MeasuringInvInit, MeasuringInvStep, PTL DEF Spec

-----------------------------------------------------------------------------
(* Evaluations of the cached evaluator touch the directory only through    *)
(* load() and store(): what is proved of the files holds of them.          *)
THEOREM MeasurementsUseFiles == Spec => FilesSpec
<1>1. Init => FilesInit
  BY DEF Init
<1>2. MeasuringInv /\ [Next]_vars => [FilesNext]_fileVars
  <2> SUFFICES ASSUME MeasuringInv, [Next]_vars PROVE [FilesNext]_fileVars
    OBVIOUS
  <2>1. ASSUME NEW p \in Process, NEW r \in Key, Ask(p, r) PROVE UNCHANGED fileVars
    BY <2>1 DEF Ask
  <2>2. ASSUME NEW p \in Process, Load(p) PROVE UNCHANGED fileVars
    BY <2>2 DEF Load
  <2>3. ASSUME NEW p \in Process, Measure(p) PROVE UNCHANGED fileVars
    BY <2>3 DEF Measure
  <2>4. ASSUME NEW p \in Process, StoreWrite(p) PROVE FilesNext
    BY <2>4, StoredIsResult DEF StoreWrite, FilesNext
  <2>5. ASSUME NEW p \in Process, StoreSync(p) PROVE FilesNext
    BY <2>5 DEF StoreSync, FilesNext
  <2>6. ASSUME NEW p \in Process, StoreReplace(p) PROVE FilesNext
    BY <2>6 DEF StoreReplace, FilesNext
  <2>7. ASSUME NEW p \in Process, Return(p) PROVE UNCHANGED fileVars
    BY <2>7 DEF Return
  <2>8. ASSUME NEW p \in Process, Reset(p) PROVE UNCHANGED fileVars
    BY <2>8 DEF Reset
  <2>9. ASSUME NEW p \in Process, Raise(p) PROVE FilesNext
    BY <2>9 DEF Raise, FilesNext
  <2>10. ASSUME NEW p \in Process, Kill(p) PROVE FilesNext
    BY <2>10 DEF Kill, FilesNext
  <2>11. CASE PowerFails
    BY <2>11 DEF PowerFails, FilesNext
  <2>12. ASSUME NEW k \in Key, Flush(k) PROVE FilesNext
    BY <2>12 DEF Flush, FilesNext
  <2>13. CASE UNCHANGED vars
    BY <2>13 DEF vars, fileVars
  <2> QED
    BY <2>1, <2>2, <2>3, <2>4, <2>5, <2>6, <2>7, <2>8, <2>9, <2>10, <2>11, <2>12,
       <2>13 DEF Next
<1> QED
  BY <1>1, <1>2, MeasuringInvariant, PTL DEF Spec, FilesSpec

(* Whatever runs share a cache directory, are killed or lose power, every  *)
(* measurement they find in it is whole.                                   *)
THEOREM MeasurementsKeepEntriesWhole == Spec => ImplementsEntryStore
BY MeasurementsUseFiles, FilesKeepEntriesWhole

-----------------------------------------------------------------------------
(* What the directory shows a reader, a query at a time. *)
Entry == [q \in Key |-> Stored(files[q])]

LEMMA EntryIs ==
  ASSUME FileInv, NEW q \in Key
  PROVE  /\ Entry[q] = None <=> files[q] = None
         /\ files[q] # None => Entry[q] = files[q].value
         /\ Entry[q] \in Value \cup {None}
         /\ files[q] # Torn
BY FileAssumption DEF Entry, Stored, FileInv, Whole, Contents

(* A store() under way writes what its call has to store first. *)
TempInv ==
  \A p \in Process : temp[p] # None =>
    /\ temp[p].key = Head(job[p].due)
    /\ temp[p].value = job[p].answer[Head(job[p].due)]

LEMMA TempInvStep == MeasuringInv /\ TempInv /\ [Next]_vars => TempInv'
<1> SUFFICES ASSUME MeasuringInv, TempInv, [Next]_vars PROVE TempInv'
  OBVIOUS
<1>1. ASSUME \A o \in Process : temp'[o] # None => temp'[o] = temp[o] /\ job'[o] = job[o]
      PROVE  TempInv'
  BY <1>1 DEF TempInv
<1>2. \A p \in Process : job[p] # None /\ job[p].answer = None => temp[p] = None
  BY DEF MeasuringInv, JobHoldsResults
<1>3. \A p \in Process : job[p] = None => temp[p] = None
  BY DEF MeasuringInv
<1>4. ASSUME NEW p \in Process, NEW new, job' = [job EXCEPT ![p] = new], temp' = temp,
             temp[p] = None
      PROVE  TempInv'
  BY <1>1, <1>4 DEF MeasuringInv
<1>5. ASSUME NEW p \in Process, NEW r \in Key, Ask(p, r) PROVE TempInv'
  <2> DEFINE new == [from |-> at[p], to |-> r, found |-> [q \in {} |-> None],
                     answer |-> None, due |-> <<>>]
  <2>1. job' = [job EXCEPT ![p] = new] /\ temp' = temp /\ temp[p] = None
    BY <1>3, <1>5 DEF Ask, fileVars
  <2> HIDE DEF new
  <2> QED BY <1>4, <2>1
<1>6. ASSUME NEW p \in Process, Load(p) PROVE TempInv'
  <2>1. job[p] # None /\ job[p].answer = None
    BY <1>6 DEF Load, MeasuringInv, JobHoldsResults
  <2>2. temp' = temp /\ \E new : job' = [job EXCEPT ![p] = new]
    BY <1>6 DEF Load, fileVars
  <2> QED BY <1>2, <1>4, <2>1, <2>2
<1>7. ASSUME NEW p \in Process, Measure(p) PROVE TempInv'
  <2>1. job[p] # None /\ job[p].answer = None
    BY <1>7 DEF Measure
  <2>2. temp' = temp /\ \E new : job' = [job EXCEPT ![p] = new]
    BY <1>7 DEF Measure, fileVars
  <2> QED BY <1>2, <1>4, <2>1, <2>2
<1>8. ASSUME NEW p \in Process, StoreWrite(p) PROVE TempInv'
  <2> DEFINE k == Head(job[p].due)
             t == [key |-> k, value |-> job[p].answer[k], synced |-> FALSE]
  <2>1. temp' = [temp EXCEPT ![p] = t] /\ job' = job
    BY <1>8 DEF StoreWrite, Write
  <2>2. t.key = Head(job[p].due) /\ t.value = job[p].answer[Head(job[p].due)]
    OBVIOUS
  <2> HIDE DEF t
  <2> QED BY <2>1, <2>2 DEF TempInv, MeasuringInv, FileInv
<1>9. ASSUME NEW p \in Process, StoreSync(p) PROVE TempInv'
  <2> DEFINE t == [temp[p] EXCEPT !.synced = TRUE]
  <2>1. temp' = [temp EXCEPT ![p] = t] /\ job' = job /\ temp[p] # None
    BY <1>9 DEF StoreSync, Sync
  <2>2. temp[p] \in Temps
    BY <2>1 DEF MeasuringInv, FileInv
  <2>3. t.key = temp[p].key /\ t.value = temp[p].value
    BY <2>2 DEF Temps
  <2> HIDE DEF t
  <2> QED BY <2>1, <2>3 DEF TempInv, MeasuringInv, FileInv
<1>10. ASSUME NEW p \in Process, StoreReplace(p) PROVE TempInv'
  <2>1. temp' = [temp EXCEPT ![p] = None] /\ \E new : job' = [job EXCEPT ![p] = new]
    BY <1>10 DEF StoreReplace, Replace
  <2> QED BY <1>1, <2>1 DEF MeasuringInv, FileInv
<1>11. ASSUME NEW p \in Process, Return(p) PROVE TempInv'
  <2>1. temp[p] = None
    BY <1>11 DEF Return, MeasuringInv, JobHoldsResults
  <2> QED BY <1>4, <1>11, <2>1 DEF Return, fileVars
<1>12. ASSUME NEW p \in Process, Raise(p) \/ Kill(p) PROVE TempInv'
  <2>1. temp' = [temp EXCEPT ![p] = None] /\ job' = [job EXCEPT ![p] = None]
    BY <1>12 DEF Raise, Kill, Abandon
  <2> QED BY <1>1, <2>1 DEF MeasuringInv, FileInv
<1>13. CASE PowerFails
  BY <1>13 DEF PowerFails, PowerFailure, TempInv
<1>14. CASE temp' = temp /\ job' = job
  BY <1>1, <1>14
<1>15. ASSUME NEW p \in Process, Reset(p) PROVE TempInv'
  BY <1>14, <1>15 DEF Reset, fileVars
<1>16. ASSUME NEW k \in Key, Flush(k) PROVE TempInv'
  BY <1>14, <1>16 DEF Flush, Settle
<1>17. CASE UNCHANGED vars
  BY <1>14, <1>17 DEF vars, fileVars
<1> QED
  BY <1>5, <1>6, <1>7, <1>8, <1>9, <1>10, <1>11, <1>12, <1>13, <1>15, <1>16, <1>17 DEF Next

(* As long as no two evaluations overlapped there is one at most. *)
SoleInv ==
  ~overlapped => \A o, p \in Process : job[o] # None /\ job[p] # None => o = p

LEMMA SoleInvStep == MeasuringInv /\ SoleInv /\ [Next]_vars => SoleInv'
<1> SUFFICES ASSUME MeasuringInv, SoleInv, [Next]_vars, ~overlapped'
             PROVE  \A o, p \in Process : job'[o] # None /\ job'[p] # None => o = p
  BY DEF SoleInv
<1>1. ASSUME ~overlapped, \A o \in Process : job'[o] # None => job[o] # None
      PROVE  \A o, p \in Process : job'[o] # None /\ job'[p] # None => o = p
  BY <1>1 DEF SoleInv
<1>2. ASSUME NEW p \in Process, NEW r \in Key, Ask(p, r)
      PROVE  \A o, q \in Process : job'[o] # None /\ job'[q] # None => o = q
  <2>1. \A o \in Process : job[o] = None
    BY <1>2 DEF Ask
  <2>2. \A o \in Process : o # p => job'[o] = job[o]
    BY <1>2 DEF Ask, MeasuringInv
  <2> QED BY <2>1, <2>2
<1>3. ASSUME NEW p \in Process,
             Load(p) \/ Measure(p) \/ StoreWrite(p) \/ StoreSync(p) \/ StoreReplace(p)
             \/ Return(p) \/ Reset(p) \/ Raise(p) \/ Kill(p)
      PROVE  ~overlapped /\ \A o \in Process : job'[o] # None => job[o] # None
  <2>1. ~overlapped
    BY <1>3 DEF Load, Measure, StoreWrite, StoreSync, StoreReplace, Return, Reset, Raise, Kill
  <2>2. CASE Load(p) \/ Measure(p)
    BY <2>1, <2>2 DEF Load, Measure, MeasuringInv
  <2>3. CASE StoreReplace(p)
    <3>1. job[p] # None
      BY <2>3 DEF StoreReplace, Replace, MeasuringInv
    <3>2. \E new : job' = [job EXCEPT ![p] = new]
      BY <2>3 DEF StoreReplace
    <3> QED BY <2>1, <3>1, <3>2 DEF MeasuringInv
  <2>4. CASE Return(p) \/ Raise(p) \/ Kill(p)
    BY <2>1, <2>4 DEF Return, Raise, Kill, MeasuringInv
  <2>5. CASE StoreWrite(p) \/ StoreSync(p) \/ Reset(p)
    BY <2>1, <2>5 DEF StoreWrite, StoreSync, Reset
  <2> QED BY <1>3, <2>2, <2>3, <2>4, <2>5
<1>4. CASE PowerFails
  BY <1>4 DEF PowerFails
<1>5. ASSUME NEW k \in Key, Flush(k)
      PROVE  ~overlapped /\ \A o \in Process : job'[o] # None => job[o] # None
  BY <1>5 DEF Flush
<1>6. CASE UNCHANGED vars
  BY <1>1, <1>6 DEF vars
<1> QED BY <1>1, <1>2, <1>3, <1>4, <1>5, <1>6 DEF Next

-----------------------------------------------------------------------------
(* What is due is one query or two. *)
Short(due) ==
  \/ due = <<>>
  \/ \E x : due = <<x>>
  \/ \E x, y : x # y /\ due = <<x, y>>

LEMMA ShortTail ==
  ASSUME NEW due, Short(due), due # <<>>
  PROVE  /\ Short(Tail(due)) /\ Head(due) \in Range(due)
         /\ Range(Tail(due)) = Range(due) \ {Head(due)}
         /\ Len(due) \in Nat /\ Len(Tail(due)) = Len(due) - 1
<1>1. CASE \E x : due = <<x>>
  <2>1. PICK x : due = <<x>>
    BY <1>1
  <2>2. Tail(due) = <<>> /\ Head(due) = x /\ Range(due) = {x} /\ Len(due) = 1
    BY <2>1 DEF Range
  <2>3. Range(<<>>) = {} /\ Len(<<>>) = 0
    BY DEF Range
  <2>4. Range(Tail(due)) = Range(due) \ {Head(due)} /\ Head(due) \in Range(due)
    BY <2>2, <2>3
  <2>5. Short(Tail(due))
    BY <2>2 DEF Short
  <2>6. Len(due) = 1 /\ Len(Tail(due)) = 0
    BY <2>2, <2>3
  <2> QED BY <2>4, <2>5, <2>6
<1>2. CASE \E x, y : x # y /\ due = <<x, y>>
  <2>1. PICK x, y : x # y /\ due = <<x, y>>
    BY <1>2
  <2>2. Tail(due) = <<y>> /\ Head(due) = x /\ Range(due) = {x, y} /\ Len(due) = 2
    BY <2>1 DEF Range
  <2>3. Range(<<y>>) = {y} /\ Len(<<y>>) = 1
    BY DEF Range
  <2>4. Range(Tail(due)) = Range(due) \ {Head(due)} /\ Head(due) \in Range(due)
    BY <2>1, <2>2, <2>3
  <2>5. Short(Tail(due))
    BY <2>2 DEF Short
  <2>6. Len(due) = 2 /\ Len(Tail(due)) = 1
    BY <2>2, <2>3
  <2> QED BY <2>4, <2>5, <2>6
<1> QED BY <1>1, <1>2 DEF Short

LEMMA OneAndNone ==
  ASSUME NEW x
  PROVE  <<x>> \o <<>> = <<x>>
OBVIOUS

LEMMA NoneAndOne ==
  ASSUME NEW x
  PROVE  <<>> \o <<x>> = <<x>>
OBVIOUS

LEMMA OneAndOne ==
  ASSUME NEW x, NEW y
  PROVE  <<x>> \o <<y>> = <<x, y>>
<1>1. <<x>> \in Seq({x, y}) /\ <<y>> \in Seq({x, y})
  OBVIOUS
<1> DEFINE both == <<x>> \o <<y>>
<1>2. both \in Seq({x, y}) /\ Len(both) = 2 /\ both[1] = x /\ both[2] = y
  BY <1>1
<1> HIDE DEF both
<1>3. both = <<x, y>>
  BY <1>2
<1> QED BY <1>3 DEF both

LEMMA DueIs ==
  ASSUME NEW j, Missing(j) \subseteq Pair(j)
  PROVE  /\ Short(Due(j)) /\ Range(Due(j)) = Missing(j)
         /\ Len(Due(j)) = Cardinality(Missing(j))
         /\ j.from \in Missing(j) => Due(j) # <<>> /\ Head(Due(j)) = j.from
<1> DEFINE first  == IF j.from \in Missing(j) THEN <<j.from>> ELSE <<>>
           second == IF j.to \in Missing(j) \ {j.from} THEN <<j.to>> ELSE <<>>
<1>0. Due(j) = first \o second
  BY DEF Due
<1>1. Missing(j) \subseteq {j.from, j.to}
  BY DEF Pair
<1>2. CASE j.from \notin Missing(j) /\ j.to \notin Missing(j)
  <2>1. Due(j) = <<>> /\ Missing(j) = {}
    <3>1. first = <<>> /\ second = <<>> /\ Missing(j) = {}
      BY <1>1, <1>2
    <3>2. <<>> \o <<>> = <<>>
      OBVIOUS
    <3> HIDE DEF first, second
    <3> QED BY <1>0, <3>1, <3>2
  <2>2. Range(<<>>) = {} /\ Len(<<>>) = 0
    BY DEF Range
  <2> QED BY <2>1, <2>2, <1>2, FS_EmptySet DEF Short
<1>3. CASE j.from \in Missing(j) /\ (j.to \notin Missing(j) \/ j.to = j.from)
  <2>1. Due(j) = <<j.from>> /\ Missing(j) = {j.from}
    <3>1. first = <<j.from>> /\ second = <<>>
      BY <1>3
    <3>2. Missing(j) = {j.from}
      BY <1>1, <1>3
    <3> HIDE DEF first, second
    <3> QED BY <1>0, <3>1, <3>2, OneAndNone
  <2>2. Range(<<j.from>>) = {j.from} /\ Len(<<j.from>>) = 1 /\ Head(<<j.from>>) = j.from
        /\ <<j.from>> # <<>>
    BY DEF Range
  <2> QED BY <2>1, <2>2, FS_Singleton DEF Short
<1>4. CASE j.from \notin Missing(j) /\ j.to \in Missing(j)
  <2>1. Due(j) = <<j.to>> /\ Missing(j) = {j.to}
    <3>1. first = <<>> /\ second = <<j.to>>
      BY <1>4
    <3>2. Missing(j) = {j.to}
      BY <1>1, <1>4
    <3> HIDE DEF first, second
    <3> QED BY <1>0, <3>1, <3>2, NoneAndOne
  <2>2. Range(<<j.to>>) = {j.to} /\ Len(<<j.to>>) = 1
    BY DEF Range
  <2> QED BY <1>4, <2>1, <2>2, FS_Singleton DEF Short
<1>5. CASE j.from \in Missing(j) /\ j.to \in Missing(j) /\ j.to # j.from
  <2>1. Due(j) = <<j.from, j.to>> /\ Missing(j) = {j.from} \cup {j.to}
    <3>1. first = <<j.from>> /\ second = <<j.to>>
      BY <1>5
    <3>2. Missing(j) = {j.from} \cup {j.to}
      BY <1>1, <1>5
    <3> HIDE DEF first, second
    <3> QED BY <1>0, <3>1, <3>2, OneAndOne
  <2>2. Range(<<j.from, j.to>>) = {j.from} \cup {j.to} /\ Len(<<j.from, j.to>>) = 2
        /\ Head(<<j.from, j.to>>) = j.from /\ <<j.from, j.to>> # <<>>
    BY DEF Range
  <2>3. Cardinality({j.from} \cup {j.to}) = 2
    BY <1>5, TwoAreTwo
  <2> QED BY <1>5, <2>1, <2>2, <2>3 DEF Short
<1> QED BY <1>2, <1>3, <1>4, <1>5

(* What a call knows agrees with the directory, as long as it is alone:    *)
(* what it found is there, what it answers is there or due.                *)
JobAgrees(j, entry) ==
  /\ Short(j.due)
  /\ j.answer = None => \A q \in DOMAIN j.found : j.found[q] = entry[q]
  /\ j.answer # None =>
       \A q \in Pair(j) : IF q \in Range(j.due) THEN entry[q] = None ELSE j.answer[q] = entry[q]

AgreesInv == ~overlapped => \A p \in Process : job[p] # None => JobAgrees(job[p], Entry)

(* What a store() does to the directory. *)
LEMMA StoresFirst ==
  ASSUME MeasuringInv, TempInv, NEW p \in Process, StoreReplace(p)
  PROVE  /\ job[p] \in Jobs /\ job[p] # None /\ job[p].due # <<>>
         /\ Head(job[p].due) \in Pair(job[p]) /\ Head(job[p].due) \in Key
         /\ job[p].answer # None
         /\ Entry' = [Entry EXCEPT ![Head(job[p].due)] = job[p].answer[Head(job[p].due)]]
         /\ job' = [job EXCEPT ![p] = [job[p] EXCEPT !.due = Tail(job[p].due)]]
         /\ UNCHANGED <<at, misses, interruptions, powerLost, overlapped>>
<1> DEFINE k == Head(job[p].due)
           v == job[p].answer[k]
           f == [value |-> temp[p].value, synced |-> TRUE]
<1>1. temp[p] # None /\ temp[p] \in Temps
  BY DEF StoreReplace, Replace, MeasuringInv, FileInv
<1>2. /\ job[p] # None /\ job[p].due # <<>> /\ job[p] \in Jobs /\ JobHoldsResults(job[p])
      /\ temp[p].key = k /\ temp[p].value = v
  BY <1>1 DEF MeasuringInv, TempInv
<1>3. k \in Pair(job[p]) /\ k \in Key /\ job[p].answer # None
  BY <1>2 DEF JobHoldsResults, Jobs, Pair
<1>4. files' = [files EXCEPT ![k] = f]
  BY <1>2 DEF StoreReplace, Replace
<1>5. f \in Contents /\ f.value = v
  BY <1>1, <1>2 DEF Temps, Contents
<1>6. Stored(f) = v
  BY <1>5, FileAssumption DEF Stored
<1> HIDE DEF f, v
<1>7. Entry' = [Entry EXCEPT ![k] = v]
  <2>1. \A q \in Key : files'[q] = IF q = k THEN f ELSE files[q]
    BY <1>3, <1>4 DEF MeasuringInv, FileInv
  <2>2. \A q \in Key : Stored(files'[q]) = IF q = k THEN v ELSE Stored(files[q])
    BY <1>6, <2>1
  <2> HIDE DEF k
  <2> QED BY <1>3, <2>2 DEF Entry
<1> QED BY <1>2, <1>3, <1>7 DEF StoreReplace, v

LEMMA SameEntries ==
  ASSUME UNCHANGED files
  PROVE  Entry' = Entry
BY DEF Entry

(* The fields of a call after one of its results is stored. *)
LEMMA OneLessDue ==
  ASSUME NEW j \in Jobs, NEW rest
  PROVE  LET new == [j EXCEPT !.due = rest] IN
         /\ new.from = j.from /\ new.to = j.to /\ new.found = j.found
         /\ new.answer = j.answer /\ new.due = rest /\ Pair(new) = Pair(j)
BY DEF Jobs, Pair

-----------------------------------------------------------------------------
(* What a step is to the calls, the counters and the directory's readers.  *)
Quiet ==
  /\ UNCHANGED <<at, job, misses, interruptions, powerLost, overlapped>>
  /\ Entry' = Entry

(* A call that raised or whose process was killed. *)
Interrupts(p) ==
  /\ job[p] # None /\ job' = [job EXCEPT ![p] = None] /\ at' = [at EXCEPT ![p] = Root]
  /\ misses' \in [Process -> Nat]
  /\ interruptions' = interruptions + 1
  /\ UNCHANGED <<powerLost, overlapped>> /\ Entry' = Entry

StepKind ==
  \/ Quiet
  \/ PowerFails
  \/ \E p \in Process :
       \/ \E r \in Key : Ask(p, r) /\ Entry' = Entry
       \/ Load(p) /\ Entry' = Entry
       \/ Measure(p) /\ Entry' = Entry
       \/ StoreReplace(p)
       \/ Return(p) /\ Entry' = Entry
       \/ Reset(p) /\ Entry' = Entry
       \/ Interrupts(p)

(* The counters are numbers. *)
CountInv == interruptions \in Nat /\ misses \in [Process -> Nat]

(* A call misses none, one or both of its queries. *)
LEMMA MissesAreFew ==
  ASSUME NEW j, DOMAIN j.found \subseteq Pair(j)
  PROVE  IsFiniteSet(Missing(j)) /\ Misses(j) \in Nat /\ Misses(j) = Cardinality(Missing(j))
<1>1. IsFiniteSet({j.from}) /\ IsFiniteSet({j.from} \cup {j.to})
  BY FS_Singleton, FS_AddElement
<1>2. Missing(j) \subseteq {j.from} \cup {j.to}
  BY DEF Missing, Pair
<1>3. IsFiniteSet(Missing(j))
  BY <1>1, <1>2, FS_Subset
<1> QED BY <1>3, FS_CardinalityType DEF Misses

LEMMA StepKinds ==
  ASSUME MeasuringInv, CountInv, [Next]_vars
  PROVE  StepKind
<1>1. CASE UNCHANGED files /\ UNCHANGED <<at, job, misses, interruptions, powerLost, overlapped>>
  BY <1>1, SameEntries DEF StepKind, Quiet
<1>2. ASSUME NEW p \in Process, StoreWrite(p) \/ StoreSync(p) PROVE StepKind
  BY <1>1, <1>2 DEF StoreWrite, StoreSync, Write, Sync
<1>3. ASSUME NEW k \in Key, Flush(k) PROVE StepKind
  BY <1>1, <1>3 DEF Flush, Settle
<1>4. CASE UNCHANGED vars
  BY <1>1, <1>4 DEF vars, fileVars
<1>5. ASSUME NEW p \in Process, Raise(p) \/ Kill(p) PROVE StepKind
  <2>1. Entry' = Entry
    BY <1>5, SameEntries DEF Raise, Kill, Abandon
  <2>2. job[p] # None /\ job' = [job EXCEPT ![p] = None] /\ at' = [at EXCEPT ![p] = Root]
        /\ interruptions' = interruptions + 1 /\ UNCHANGED <<powerLost, overlapped>>
    BY <1>5 DEF Raise, Kill
  <2>3. misses' \in [Process -> Nat]
    <3>1. Misses(job[p]) \in Nat
      BY <2>2, MissesAreFew DEF MeasuringInv, JobHoldsResults
    <3>2. \A p_1 \in Process : misses[p_1] \in Nat
      BY DEF CountInv
    <3>3. CASE Kill(p)
      BY <3>3 DEF Kill, CountInv
    <3>4. CASE Raise(p)
      <4>1. misses[p] + Misses(job[p]) \in Nat
        BY <3>1, <3>2
      <4>2. misses' = misses \/ misses' = [misses EXCEPT ![p] = misses[p] + Misses(job[p])]
        BY <3>4 DEF Raise
      <4> QED BY <4>1, <4>2 DEF CountInv
    <3> QED BY <1>5, <3>3, <3>4
  <2> QED BY <2>1, <2>2, <2>3 DEF StepKind, Interrupts
<1>6. ASSUME NEW p \in Process, NEW r \in Key, Ask(p, r) PROVE StepKind
  <2>1. Entry' = Entry
    BY <1>6, SameEntries DEF Ask, fileVars
  <2> QED BY <1>6, <2>1 DEF StepKind
<1>7. ASSUME NEW p \in Process, Load(p) \/ Measure(p) \/ Return(p) \/ Reset(p) PROVE StepKind
  <2>1. Entry' = Entry
    BY <1>7, SameEntries DEF Load, Measure, Return, Reset, fileVars
  <2> QED BY <1>7, <2>1 DEF StepKind
<1> QED
  BY <1>2, <1>3, <1>4, <1>5, <1>6, <1>7 DEF Next, StepKind

LEMMA CountInvStep == MeasuringInv /\ CountInv /\ [Next]_vars => CountInv'
<1> SUFFICES ASSUME MeasuringInv, CountInv, [Next]_vars PROVE CountInv'
  OBVIOUS
<1>1. CASE UNCHANGED <<interruptions, misses>>
  BY <1>1 DEF CountInv
<1>2. ASSUME NEW p \in Process, Measure(p) PROVE CountInv'
  <2>1. Misses(job[p]) \in Nat
    BY <1>2, MissesAreFew DEF Measure, MeasuringInv, JobHoldsResults
  <2>2. misses[p] + Misses(job[p]) \in Nat
    BY <2>1 DEF CountInv
  <2>3. misses' = [misses EXCEPT ![p] = misses[p] + Misses(job[p])] /\ interruptions' = interruptions
    BY <1>2 DEF Measure
  <2> QED BY <2>2, <2>3 DEF CountInv
<1>3. ASSUME NEW p \in Process, Interrupts(p) PROVE CountInv'
  BY <1>3 DEF Interrupts, CountInv
<1>4. CASE PowerFails
  BY <1>4 DEF PowerFails, CountInv
<1>5. ASSUME NEW p \in Process,
             (\E r \in Key : Ask(p, r)) \/ Load(p) \/ StoreReplace(p) \/ Return(p) \/ Reset(p)
      PROVE  CountInv'
  BY <1>1, <1>5 DEF Ask, Load, StoreReplace, Return, Reset
<1>6. CASE Quiet
  BY <1>1, <1>6 DEF Quiet
<1>7. StepKind
  BY StepKinds
<1> QED BY <1>2, <1>3, <1>4, <1>5, <1>6, <1>7 DEF StepKind

-----------------------------------------------------------------------------
(* What a lookup adds to a call. *)
LEMMA LoadsEntry ==
  ASSUME MeasuringInv, NEW p \in Process, Load(p)
  PROVE  /\ job[p] \in Jobs /\ job[p] # None /\ job[p].answer = None /\ job[p].due = <<>>
         /\ \E found : /\ job' = [job EXCEPT ![p] = [job[p] EXCEPT !.found = found]]
                       /\ \A q \in DOMAIN found :
                            \/ q \in DOMAIN job[p].found /\ found[q] = job[p].found[q]
                            \/ found[q] = Entry[q]
                       /\ [job[p] EXCEPT !.found = found] \in Jobs
         /\ UNCHANGED <<at, misses, interruptions, powerLost, overlapped>>
<1> DEFINE j == job[p]
           q == NextLookup(j)
           found == [k \in DOMAIN j.found \cup {q} |->
                       IF k = q THEN LoadedValue(files[q]) ELSE j.found[k]]
<1>1. j \in Jobs /\ j # None /\ JobHoldsResults(j) /\ ~Looked(j)
  BY DEF Load, MeasuringInv
<1>2. j.answer = None /\ j.due = <<>>
  BY <1>1 DEF JobHoldsResults
<1>3. job' = [job EXCEPT ![p] = [job[p] EXCEPT !.found = found]]
  BY DEF Load
<1>4. q \in Key
  BY <1>1 DEF NextLookup, Jobs
<1>5. LoadedValue(files[q]) = Entry[q]
  BY <1>4 DEF LoadedValue, Entry
<1>6. \A k \in DOMAIN found :
        (k \in DOMAIN j.found /\ found[k] = j.found[k]) \/ found[k] = Entry[k]
  BY <1>5
<1>7. DOMAIN found = DOMAIN j.found \cup {q}
  OBVIOUS
<1> HIDE DEF found
<1>8. found \in Partial(Value \cup {None})
  <2>1. \A k \in DOMAIN j.found : k \in Key /\ j.found[k] \in Value \cup {None}
    <3>1. \E Q \in SUBSET Key : j.found \in [Q -> Value \cup {None}]
      BY <1>1 DEF Jobs, Partial
    <3> QED BY <3>1
  <2>2. \A k \in DOMAIN found : k \in Key
    BY <1>4, <1>7, <2>1
  <2>3. \A k \in Key : Entry[k] \in Value \cup {None}
    BY EntryIs DEF MeasuringInv
  <2>4. \A k \in DOMAIN found : found[k] \in Value \cup {None}
    BY <1>6, <2>1, <2>2, <2>3
  <2>5. found \in [DOMAIN found -> Value \cup {None}]
    <3>1. found = [k \in DOMAIN found |-> found[k]]
      BY DEF found
    <3> QED BY <2>4, <3>1
  <2>6. DOMAIN found \subseteq Key
    BY <2>2
  <2> QED BY <2>5, <2>6, PartialType
<1>9. [j EXCEPT !.found = found] \in Jobs
  BY <1>1, <1>8 DEF Jobs
<1> QED BY <1>1, <1>2, <1>3, <1>6, <1>9 DEF Load

(* What a measurement adds to a call. *)
LEMMA MeasuresMissing ==
  ASSUME MeasuringInv, NEW p \in Process, Measure(p)
  PROVE  /\ job[p] \in Jobs /\ job[p] # None /\ job[p].answer = None /\ Looked(job[p])
         /\ job[p].due = <<>> /\ Missing(job[p]) # {}
         /\ \E raw \in {[q \in Pair(job[p]) |-> Cost[q] + d] : d \in Drift}
                         \cup {[q \in Pair(job[p]) |-> Failed]} :
              /\ job' = [job EXCEPT ![p] = [job[p] EXCEPT !.answer = Answer(job[p], raw),
                                                          !.due = Due(job[p])]]
              /\ Answer(job[p], raw) # None
              /\ [job[p] EXCEPT !.answer = Answer(job[p], raw), !.due = Due(job[p])] \in Jobs
         /\ misses' = [misses EXCEPT ![p] = misses[p] + Misses(job[p])]
         /\ UNCHANGED <<at, interruptions, powerLost, overlapped>>
<1> DEFINE j == job[p]
<1>1. j \in Jobs /\ j # None /\ JobHoldsResults(j) /\ Looked(j) /\ j.answer = None
  BY DEF Measure, MeasuringInv
<1>2. j.due = <<>>
  BY <1>1 DEF JobHoldsResults
<1>3. PICK raw \in {[q \in Pair(j) |-> Cost[q] + d] : d \in Drift}
                     \cup {[q \in Pair(j) |-> Failed]} :
        job' = [job EXCEPT ![p].answer = Answer(j, raw), ![p].due = Due(j)]
  BY DEF Measure
<1>4. \A q \in Pair(j) : Answer(j, raw)[q] \in ResultsOf(q)
  BY <1>1, AnswerHoldsResults
<1>5. Answer(j, raw) \in Partial(Value)
  <2>1. Pair(j) \subseteq Key
    BY <1>1 DEF Pair, Jobs
  <2>2. \A q \in Pair(j) : Answer(j, raw)[q] \in Value
    BY <1>4, <2>1, ResultsAreValues
  <2>3. Answer(j, raw) \in [Pair(j) -> Value]
    BY <2>2 DEF Answer
  <2> QED BY <2>1, <2>3, PartialType
<1>6. Answer(j, raw) # None
  BY <1>5, MeasurementAssumption
<1>7. job' = [job EXCEPT ![p] = [j EXCEPT !.answer = Answer(j, raw), !.due = Due(j)]]
  BY <1>3
<1>8. misses' = [misses EXCEPT ![p] = misses[p] + Misses(j)]
      /\ UNCHANGED <<at, interruptions, powerLost, overlapped>> /\ Missing(j) # {}
  BY DEF Measure
<1>9. [j EXCEPT !.answer = Answer(j, raw), !.due = Due(j)] \in Jobs
  <2>1. Due(j) \in Seq(Key)
    <3>1. Due(j) \in Seq(Pair(j)) /\ Pair(j) \subseteq Key
      BY <1>1, DueType DEF Pair, Jobs
    <3> QED BY <3>1
  <2> QED BY <1>1, <1>5, <2>1 DEF Jobs
<1> HIDE DEF j
<1> QED BY <1>1, <1>2, <1>6, <1>7, <1>8, <1>9 DEF j

(* The fields of a call after a lookup. *)
LEMMA OnceLoaded ==
  ASSUME NEW j \in Jobs, NEW found
  PROVE  LET new == [j EXCEPT !.found = found] IN
         /\ new.from = j.from /\ new.to = j.to /\ new.found = found
         /\ new.answer = j.answer /\ new.due = j.due /\ Pair(new) = Pair(j)
BY DEF Jobs, Pair

LEMMA AgreesInvStep ==
  MeasuringInv /\ CountInv /\ TempInv /\ SoleInv /\ AgreesInv /\ [Next]_vars => AgreesInv'
<1> SUFFICES ASSUME MeasuringInv, CountInv, TempInv, SoleInv, AgreesInv, [Next]_vars,
                    ~overlapped', NEW p \in Process, job'[p] # None
             PROVE  JobAgrees(job'[p], Entry')
  BY DEF AgreesInv
<1>1. ASSUME ~overlapped, job'[p] = job[p], Entry' = Entry
      PROVE  JobAgrees(job'[p], Entry')
  BY <1>1 DEF AgreesInv
<1>2. CASE Quiet \/ \E o \in Process : Reset(o) /\ Entry' = Entry
  BY <1>1, <1>2 DEF Quiet, Reset
<1>3. CASE PowerFails
  BY <1>3 DEF PowerFails
<1>4. ASSUME NEW o \in Process, Interrupts(o) \/ (Return(o) /\ Entry' = Entry)
      PROVE  JobAgrees(job'[p], Entry')
  BY <1>1, <1>4 DEF Interrupts, Return, MeasuringInv
<1>5. ASSUME NEW o \in Process, NEW r \in Key, Ask(o, r), Entry' = Entry
      PROVE  JobAgrees(job'[p], Entry')
  <2> DEFINE new == [from |-> at[o], to |-> r, found |-> [q \in {} |-> None],
                     answer |-> None, due |-> <<>>]
  <2>1. ~overlapped /\ job' = [job EXCEPT ![o] = new]
    BY <1>5 DEF Ask
  <2>2. JobAgrees(new, Entry')
    <3>1. new.due = <<>> /\ new.answer = None /\ DOMAIN new.found = {}
      OBVIOUS
    <3> HIDE DEF new
    <3> QED BY <3>1 DEF JobAgrees, Short
  <2> HIDE DEF new
  <2> QED BY <1>1, <1>5, <2>1, <2>2 DEF MeasuringInv
<1>6. ASSUME NEW o \in Process, Load(o), Entry' = Entry
      PROVE  JobAgrees(job'[p], Entry')
  <2>1. /\ job[o] \in Jobs /\ job[o] # None /\ job[o].answer = None /\ job[o].due = <<>>
        /\ overlapped' = overlapped
    BY <1>6, LoadsEntry
  <2>2. PICK found : /\ job' = [job EXCEPT ![o] = [job[o] EXCEPT !.found = found]]
                     /\ \A q \in DOMAIN found :
                          \/ q \in DOMAIN job[o].found /\ found[q] = job[o].found[q]
                          \/ found[q] = Entry[q]
                     /\ [job[o] EXCEPT !.found = found] \in Jobs
    BY <1>6, LoadsEntry
  <2> DEFINE new == [job[o] EXCEPT !.found = found]
  <2>3. new.found = found /\ new.answer = None /\ new.due = <<>>
    BY <2>1, OnceLoaded
  <2>4. job' = [job EXCEPT ![o] = new]
    BY <2>2
  <2> HIDE DEF new
  <2>5. JobAgrees(job[o], Entry)
    BY <2>1 DEF AgreesInv
  <2>6. JobAgrees(new, Entry')
    BY <1>6, <2>1, <2>2, <2>3, <2>5 DEF JobAgrees
  <2> QED BY <1>1, <1>6, <2>1, <2>4, <2>6 DEF MeasuringInv
<1>7. ASSUME NEW o \in Process, Measure(o), Entry' = Entry
      PROVE  JobAgrees(job'[p], Entry')
  <2> DEFINE j == job[o]
  <2>1. /\ j \in Jobs /\ j # None /\ j.answer = None /\ j.due = <<>>
        /\ Looked(j) /\ overlapped' = overlapped
    BY <1>7, MeasuresMissing
  <2>2. PICK raw : /\ job' = [job EXCEPT ![o] = [j EXCEPT !.answer = Answer(j, raw), !.due = Due(j)]]
                   /\ Answer(j, raw) # None
    BY <1>7, MeasuresMissing
  <2> DEFINE new == [j EXCEPT !.answer = Answer(j, raw), !.due = Due(j)]
  <2>3. new.answer = Answer(j, raw) /\ new.due = Due(j) /\ Pair(new) = Pair(j)
    BY <2>1 DEF Jobs, Pair
  <2>4. job' = [job EXCEPT ![o] = new]
    BY <2>2
  <2> HIDE DEF new
  <2>5. JobAgrees(j, Entry)
    BY <2>1 DEF AgreesInv
  <2>6. Missing(j) \subseteq Pair(j) /\ DOMAIN j.found = Pair(j)
    BY <2>1 DEF Looked, Missing
  <2>7. Short(Due(j)) /\ Range(Due(j)) = Missing(j)
    BY <2>6, DueIs
  <2>8. \A q \in Pair(j) : IF q \in Missing(j) THEN Entry[q] = None
                           ELSE Answer(j, raw)[q] = Entry[q]
    <3> TAKE q \in Pair(j)
    <3>1. j.found[q] = Entry[q]
      BY <2>1, <2>5, <2>6 DEF JobAgrees
    <3>2. CASE q \in Missing(j)
      BY <3>1, <3>2 DEF Missing
    <3>3. CASE q \notin Missing(j)
      BY <3>1, <3>3 DEF Answer
    <3> QED BY <3>2, <3>3
  <2>9. JobAgrees(new, Entry')
    BY <1>7, <2>2, <2>3, <2>7, <2>8 DEF JobAgrees
  <2> QED BY <1>1, <1>7, <2>1, <2>4, <2>9 DEF MeasuringInv
<1>8. ASSUME NEW o \in Process, StoreReplace(o)
      PROVE  JobAgrees(job'[p], Entry')
  <2> DEFINE j == job[o]
             k == Head(j.due)
             new == [j EXCEPT !.due = Tail(j.due)]
  <2>1. /\ j \in Jobs /\ j # None /\ j.due # <<>> /\ k \in Pair(j) /\ k \in Key
        /\ j.answer # None /\ Entry' = [Entry EXCEPT ![k] = j.answer[k]]
        /\ job' = [job EXCEPT ![o] = new] /\ overlapped' = overlapped
    BY <1>8, StoresFirst
  <2>2. o = p
    <3>1. job[p] # None
      BY <2>1 DEF MeasuringInv
    <3> QED BY <2>1, <3>1 DEF SoleInv
  <2>3. new.answer = j.answer /\ new.due = Tail(j.due) /\ Pair(new) = Pair(j)
    BY <2>1, OneLessDue
  <2> HIDE DEF new
  <2>4. JobAgrees(j, Entry)
    BY <2>1 DEF AgreesInv
  <2>5. /\ Short(Tail(j.due)) /\ k \in Range(j.due)
        /\ Range(Tail(j.due)) = Range(j.due) \ {k}
    BY <2>1, <2>4, ShortTail DEF JobAgrees
  <2>6. \A q \in Key : Entry'[q] = IF q = k THEN j.answer[k] ELSE Entry[q]
    BY <2>1 DEF Entry
  <2>7. \A q \in Pair(j) : q \in Key
    BY <2>1 DEF Jobs, Pair
  <2>8. \A q \in Pair(j) : IF q \in Range(j.due) THEN Entry[q] = None
                           ELSE j.answer[q] = Entry[q]
    BY <2>1, <2>4 DEF JobAgrees
  <2> HIDE DEF k
  <2>9. \A q \in Pair(j) : IF q \in Range(Tail(j.due)) THEN Entry'[q] = None
                           ELSE j.answer[q] = Entry'[q]
    BY <2>5, <2>6, <2>7, <2>8
  <2>10. JobAgrees(new, Entry')
    BY <2>1, <2>3, <2>5, <2>9 DEF JobAgrees
  <2>11. job'[p] = new
    BY <2>1, <2>2 DEF MeasuringInv
  <2> QED BY <2>10, <2>11
<1>9. StepKind
  BY StepKinds
<1> QED BY <1>2, <1>3, <1>4, <1>5, <1>6, <1>7, <1>8, <1>9 DEF StepKind

-----------------------------------------------------------------------------
LEMMA SettledInit == Init => TempInv /\ SoleInv /\ CountInv /\ AgreesInv
BY DEF Init, FilesInit, TempInv, SoleInv, CountInv, AgreesInv

(* What every reachable state of the calls and the directory satisfies.    *)
CallsInv == MeasuringInv /\ TempInv /\ SoleInv /\ CountInv /\ AgreesInv

LEMMA CallsInvHolds == Spec => []CallsInv
<1>1. Init => CallsInv
  BY MeasuringInvInit, SettledInit DEF CallsInv
<1>2. CallsInv /\ [Next]_vars => CallsInv'
  BY MeasuringInvStep, TempInvStep, SoleInvStep, CountInvStep, AgreesInvStep DEF CallsInv
<1> QED
  BY <1>1, <1>2, PTL DEF Spec

(* A step adds to the directory and changes nothing that is in it, unless  *)
(* calls overlap or the power fails.                                       *)
LEMMA EntriesOnlyAdded ==
  ASSUME CallsInv, [Next]_vars, ~overlapped', ~powerLost'
  PROVE  \A q \in Key : Entry[q] # None => Entry'[q] = Entry[q]
<1> USE DEF CallsInv
<1>1. ASSUME NEW p \in Process, StoreReplace(p)
      PROVE  \A q \in Key : Entry[q] # None => Entry'[q] = Entry[q]
  <2> DEFINE j == job[p]
             k == Head(j.due)
  <2>1. /\ j # None /\ j.due # <<>> /\ k \in Pair(j) /\ k \in Key /\ j.answer # None
        /\ Entry' = [Entry EXCEPT ![k] = j.answer[k]] /\ overlapped' = overlapped
    BY <1>1, StoresFirst
  <2>2. JobAgrees(j, Entry)
    BY <2>1 DEF AgreesInv
  <2>3. k \in Range(j.due)
    BY <2>1, <2>2, ShortTail DEF JobAgrees
  <2>4. Entry[k] = None
    BY <2>1, <2>2, <2>3 DEF JobAgrees
  <2>5. \A q \in Key : q # k => Entry'[q] = Entry[q]
    BY <2>1 DEF Entry
  <2> HIDE DEF k
  <2> QED BY <2>4, <2>5
<1>2. StepKind
  BY StepKinds
<1> QED BY <1>1, <1>2 DEF StepKind, Quiet, PowerFails, Interrupts

LEMMA EntriesStable ==
  CallsInv /\ [Next]_vars =>
    [~overlapped' /\ ~powerLost' =>
       \A q \in Key : files[q] # None => Stored(files'[q]) = Stored(files[q])]_vars
<1> SUFFICES ASSUME CallsInv, [Next]_vars, ~overlapped', ~powerLost',
                    NEW q \in Key, files[q] # None
             PROVE  Stored(files'[q]) = Stored(files[q])
  OBVIOUS
<1>1. Entry[q] # None
  BY EntryIs DEF CallsInv, MeasuringInv
<1>2. Entry'[q] = Entry[q]
  BY <1>1, EntriesOnlyAdded
<1> QED BY <1>2 DEF Entry

(* A call ends uninterrupted only by its return. *)
LEMMA ReturnsEntries ==
  CallsInv /\ [Next]_vars =>
    [\A p \in Process :
       /\ job[p] # None /\ job'[p] = None
       /\ interruptions' = interruptions /\ ~overlapped
       => \A q \in Pair(job[p]) : Returned(job[p])[q] = Stored(files[q])]_vars
<1> SUFFICES ASSUME CallsInv, [Next]_vars, NEW p \in Process, job[p] # None, job'[p] = None,
                    interruptions' = interruptions, ~overlapped,
                    NEW q \in Pair(job[p])
             PROVE  Returned(job[p])[q] = Stored(files[q])
  OBVIOUS
<1> USE DEF CallsInv
<1>1. ASSUME NEW o \in Process, NEW new \in Jobs, job' = [job EXCEPT ![o] = new] PROVE FALSE
  BY <1>1, JobsAreSome DEF MeasuringInv
<1>2. ~Quiet /\ ~PowerFails /\ \A o \in Process : ~Interrupts(o) /\ ~Reset(o)
  BY DEF Quiet, PowerFails, Interrupts, CountInv, Reset
<1>3. ASSUME NEW o \in Process,
             Load(o) \/ Measure(o) \/ StoreReplace(o) \/ \E r \in Key : Ask(o, r)
      PROVE  FALSE
  <2>1. CASE Load(o)
    BY <1>1, <2>1, LoadsEntry
  <2>2. CASE Measure(o)
    BY <1>1, <2>2, MeasuresMissing
  <2>3. CASE StoreReplace(o)
    <3>1. /\ job[o] \in Jobs /\ job[o].due # <<>>
          /\ job' = [job EXCEPT ![o] = [job[o] EXCEPT !.due = Tail(job[o].due)]]
      BY <2>3, StoresFirst
    <3>2. Tail(job[o].due) \in Seq(Key)
      BY <3>1 DEF Jobs
    <3>3. [job[o] EXCEPT !.due = Tail(job[o].due)] \in Jobs
      BY <3>1, <3>2 DEF Jobs
    <3> QED BY <1>1, <3>1, <3>3
  <2>4. CASE \E r \in Key : Ask(o, r)
    <3>1. job[o] = None /\ \A q_1 \in Process : q_1 # o => job'[q_1] = job[q_1]
      BY <2>4 DEF Ask, MeasuringInv
    <3> QED BY <3>1
  <2> QED BY <1>3, <2>1, <2>2, <2>3, <2>4
<1>4. PICK o \in Process : Return(o)
  BY <1>2, <1>3, StepKinds DEF StepKind
<1>5. o = p
  BY <1>4 DEF Return, MeasuringInv
<1>6. JobAgrees(job[p], Entry) /\ job[p] \in Jobs /\ JobHoldsResults(job[p])
  BY DEF AgreesInv, MeasuringInv
<1>7. Looked(job[p]) /\ (Missing(job[p]) = {} \/ (job[p].answer # None /\ job[p].due = <<>>))
  BY <1>4, <1>5 DEF Return
<1>8. Entry[q] = Stored(files[q])
  BY <1>6 DEF Entry, Jobs, Pair
<1>9. CASE job[p].answer = None
  BY <1>6, <1>7, <1>8, <1>9 DEF Returned, JobAgrees, Looked
<1>10. CASE job[p].answer # None
  <2>1. job[p].due = <<>>
    BY <1>6, <1>7, <1>10 DEF JobHoldsResults
  <2>2. Range(<<>>) = {}
    BY DEF Range
  <2> QED BY <1>6, <1>8, <1>10, <2>1, <2>2 DEF Returned, JobAgrees
<1> QED BY <1>9, <1>10

(* Once a query has an entry it is never measured again, whatever calls    *)
(* raise and processes are killed, and what a call answers is what the     *)
(* directory holds for every later one (docs/rewrite-environment.md:69).   *)
THEOREM EntriesAlwaysStand == Spec => EntriesStand
BY CallsInvHolds, EntriesStable, ReturnsEntries, PTL
DEF Spec, EntriesStand, EntriesAreStable, ReturnsTheEntries

-----------------------------------------------------------------------------
(* What the directory will hold once a call has stored what it has to.     *)
Coming(j, entry) == [q \in Key |-> IF q \in Range(j.due) THEN j.answer[q] ELSE entry[q]]

LEMMA ComingOfNothing ==
  ASSUME NEW j, j.due = <<>>, NEW entry, entry = [q \in Key |-> entry[q]]
  PROVE  Coming(j, entry) = entry
<1>1. Range(<<>>) = {}
  BY DEF Range
<1> QED BY <1>1 DEF Coming

LEMMA EntryIsFunction == Entry = [q \in Key |-> Entry[q]]
BY DEF Entry

(* Storing a result changes nothing of what the directory will hold.       *)
LEMMA StoringIsForeseen ==
  ASSUME CallsInv, ~overlapped, NEW p \in Process, StoreReplace(p)
  PROVE  Coming(job'[p], Entry') = Coming(job[p], Entry)
<1> DEFINE j == job[p]
           k == Head(j.due)
           new == [j EXCEPT !.due = Tail(j.due)]
<1>1. /\ j \in Jobs /\ j # None /\ j.due # <<>> /\ k \in Pair(j) /\ k \in Key /\ j.answer # None
      /\ Entry' = [Entry EXCEPT ![k] = j.answer[k]] /\ job' = [job EXCEPT ![p] = new]
  BY StoresFirst DEF CallsInv
<1>2. JobAgrees(j, Entry)
  BY <1>1 DEF AgreesInv, CallsInv
<1>3. /\ k \in Range(j.due) /\ Range(Tail(j.due)) = Range(j.due) \ {k}
  BY <1>1, <1>2, ShortTail DEF JobAgrees
<1>4. new.answer = j.answer /\ new.due = Tail(j.due)
  BY <1>1, OneLessDue
<1>5. job'[p] = new
  BY <1>1 DEF CallsInv, MeasuringInv
<1>6. \A q \in Key : Entry'[q] = IF q = k THEN j.answer[k] ELSE Entry[q]
  BY <1>1 DEF Entry
<1> HIDE DEF k, new
<1>7. \A q \in Key : (IF q \in Range(new.due) THEN new.answer[q] ELSE Entry'[q])
                     = (IF q \in Range(j.due) THEN j.answer[q] ELSE Entry[q])
  <2> TAKE q \in Key
  <2>1. CASE q = k
    BY <1>3, <1>4, <1>6, <2>1
  <2>2. CASE q # k
    BY <1>3, <1>4, <1>6, <2>2
  <2> QED BY <2>1, <2>2
<1> QED BY <1>5, <1>7 DEF Coming

(* The calls that go on after a step, and what the directory will hold.    *)
LEMMA StepsForeseen ==
  ASSUME CallsInv, [Next]_vars, ~overlapped', NEW p \in Process, job'[p] # None,
         \A o \in Process : ~Measure(o)
  PROVE  \/ (\A o \in Process : job[o] = None) /\ Coming(job'[p], Entry') = Entry
         \/ job[p] # None /\ ~overlapped /\ Coming(job'[p], Entry') = Coming(job[p], Entry)
<1> USE DEF CallsInv
<1> DEFINE Goal == \/ (\A o \in Process : job[o] = None) /\ Coming(job'[p], Entry') = Entry
                   \/ job[p] # None /\ ~overlapped
                      /\ Coming(job'[p], Entry') = Coming(job[p], Entry)
<1>1. ASSUME ~overlapped, job'[p] = job[p], Entry' = Entry PROVE Goal
  BY <1>1
<1>2. ASSUME NEW o \in Process, NEW r \in Key, Ask(o, r), Entry' = Entry PROVE Goal
  <2> DEFINE new == [from |-> at[o], to |-> r, found |-> [q \in {} |-> None],
                     answer |-> None, due |-> <<>>]
  <2>1. ~overlapped /\ job' = [job EXCEPT ![o] = new] /\ job[o] = None /\ new.due = <<>>
    BY <1>2 DEF Ask
  <2> HIDE DEF new
  <2>2. Coming(new, Entry) = Entry
    BY <2>1, ComingOfNothing, EntryIsFunction
  <2>3. CASE o = p
    <3>1. \A x \in Process : job[x] = None
      BY <1>2 DEF Ask
    <3> QED BY <1>2, <2>1, <2>2, <2>3, <3>1 DEF MeasuringInv
  <2>4. CASE o # p
    BY <1>1, <1>2, <2>1, <2>4 DEF MeasuringInv
  <2> QED BY <2>3, <2>4
<1>3. ASSUME NEW o \in Process, Load(o), Entry' = Entry PROVE Goal
  <2>1. job[o] \in Jobs /\ job[o] # None /\ job[o].due = <<>> /\ overlapped' = overlapped
    BY <1>3, LoadsEntry
  <2>2. PICK found : job' = [job EXCEPT ![o] = [job[o] EXCEPT !.found = found]]
    BY <1>3 DEF Load
  <2> DEFINE new == [job[o] EXCEPT !.found = found]
  <2>3. new.due = <<>>
    BY <2>1 DEF Jobs
  <2>4. job' = [job EXCEPT ![o] = new]
    BY <2>2
  <2> HIDE DEF new
  <2>5. Coming(new, Entry) = Entry /\ Coming(job[o], Entry) = Entry
    BY <2>1, <2>3, ComingOfNothing, EntryIsFunction
  <2>6. CASE o = p
    BY <1>3, <2>1, <2>4, <2>5, <2>6 DEF MeasuringInv
  <2>7. CASE o # p
    BY <1>1, <1>3, <2>1, <2>4, <2>7 DEF MeasuringInv
  <2> QED BY <2>6, <2>7
<1>4. ASSUME NEW o \in Process, StoreReplace(o) PROVE Goal
  <2>1. /\ job[o] # None /\ overlapped' = overlapped
        /\ job' = [job EXCEPT ![o] = [job[o] EXCEPT !.due = Tail(job[o].due)]]
    BY <1>4, StoresFirst
  <2>2. job[p] # None
    BY <2>1 DEF MeasuringInv
  <2>3. o = p
    BY <2>1, <2>2 DEF SoleInv
  <2> QED BY <1>4, <2>1, <2>2, <2>3, StoringIsForeseen
<1>5. ASSUME NEW o \in Process, (Return(o) /\ Entry' = Entry) \/ Interrupts(o) PROVE Goal
  BY <1>1, <1>5 DEF Return, Interrupts, MeasuringInv
<1>6. ASSUME NEW o \in Process, Reset(o), Entry' = Entry PROVE Goal
  BY <1>1, <1>6 DEF Reset
<1>7. CASE Quiet
  BY <1>1, <1>7 DEF Quiet
<1>8. ~PowerFails
  BY DEF PowerFails
<1>9. StepKind
  BY StepKinds
<1> QED BY <1>2, <1>3, <1>4, <1>5, <1>6, <1>7, <1>8, <1>9 DEF StepKind

-----------------------------------------------------------------------------
(* Episodes start at the query the namespace belongs to, so that its entry *)
(* is the first, and each goes on from a query that has one.               *)
AnchorInv ==
  ~overlapped /\ ~powerLost =>
    /\ \A p \in Process : at[p] = Root \/ Entry[at[p]] # None
    /\ Entry[Root] = None => \A q \in Key : Entry[q] = None
    /\ \A p \in Process : job[p] # None =>
         /\ job[p].from = at[p]
         /\ Entry[Root] = None /\ job[p].due # <<>> => Head(job[p].due) = Root

(* What a call that returns answered has an entry. *)
LEMMA ReturnedHasEntry ==
  ASSUME CallsInv, ~overlapped, NEW p \in Process, Return(p)
  PROVE  job[p].due = <<>> /\ job[p].to \in Key /\ Entry[job[p].to] # None
<1> DEFINE j == job[p]
<1>1. /\ j # None /\ j \in Jobs /\ JobHoldsResults(j) /\ JobAgrees(j, Entry) /\ Looked(j)
      /\ Missing(j) = {} \/ (j.answer # None /\ j.due = <<>>)
  BY DEF Return, CallsInv, MeasuringInv, AgreesInv
<1>2. j.due = <<>>
  BY <1>1 DEF JobHoldsResults
<1>3. j.to \in Key /\ j.to \in Pair(j)
  BY <1>1 DEF Jobs, Pair
<1>4. CASE j.answer = None
  <2>1. Missing(j) = {} /\ j.to \in DOMAIN j.found
    BY <1>1, <1>3, <1>4 DEF Looked
  <2>2. j.found[j.to] # None /\ j.found[j.to] = Entry[j.to]
    BY <1>1, <1>4, <2>1 DEF Missing, JobAgrees
  <2> QED BY <1>2, <1>3, <2>2
<1>5. CASE j.answer # None
  <2>1. Range(<<>>) = {}
    BY DEF Range
  <2>2. j.answer[j.to] = Entry[j.to]
    BY <1>1, <1>2, <1>3, <1>5, <2>1 DEF JobAgrees
  <2>3. j.answer[j.to] \in Value
    BY <1>1, <1>3, <1>5, ResultsAreValues DEF JobHoldsResults
  <2> QED BY <1>2, <1>3, <2>2, <2>3, FileAssumption
<1> QED BY <1>4, <1>5

LEMMA AnchorInvStep == CallsInv /\ AnchorInv /\ [Next]_vars => AnchorInv'
<1> SUFFICES ASSUME CallsInv, AnchorInv, [Next]_vars, ~overlapped', ~powerLost'
             PROVE  /\ \A p \in Process : at'[p] = Root \/ Entry'[at'[p]] # None
                    /\ Entry'[Root] = None => \A q \in Key : Entry'[q] = None
                    /\ \A p \in Process : job'[p] # None =>
                         /\ job'[p].from = at'[p]
                         /\ Entry'[Root] = None /\ job'[p].due # <<>> => Head(job'[p].due) = Root
  BY DEF AnchorInv
<1> USE DEF CallsInv
<1> DEFINE Whereabouts  == \A p \in Process : at'[p] = Root \/ Entry'[at'[p]] # None
           RootFirst == Entry'[Root] = None => \A q \in Key : Entry'[q] = None
           Call(p) == job'[p] # None =>
                        /\ job'[p].from = at'[p]
                        /\ Entry'[Root] = None /\ job'[p].due # <<>> => Head(job'[p].due) = Root
           Goal == Whereabouts /\ RootFirst /\ \A p \in Process : Call(p)
<1>1. ASSUME ~overlapped, ~powerLost, Entry' = Entry, at' = at PROVE Whereabouts /\ RootFirst
  BY <1>1 DEF AnchorInv
<1>2. ASSUME ~overlapped, ~powerLost, Entry' = Entry,
             NEW p \in Process, job'[p] = job[p], at'[p] = at[p]
      PROVE  Call(p)
  BY <1>2 DEF AnchorInv
<1>3. CASE Quiet
  <2>1. ~overlapped /\ ~powerLost /\ Entry' = Entry /\ at' = at /\ job' = job
    BY <1>3 DEF Quiet
  <2> QED BY <1>1, <1>2, <2>1
<1>4. ~PowerFails
  BY DEF PowerFails
<1>5. ASSUME NEW o \in Process, NEW r \in Key, Ask(o, r), Entry' = Entry PROVE Goal
  <2> DEFINE new == [from |-> at[o], to |-> r, found |-> [q \in {} |-> None],
                     answer |-> None, due |-> <<>>]
  <2>1. ~overlapped /\ ~powerLost /\ job' = [job EXCEPT ![o] = new] /\ at' = at
        /\ new.from = at[o] /\ new.due = <<>>
    BY <1>5 DEF Ask
  <2> HIDE DEF new
  <2>2. \A p \in Process : Call(p)
    <3> TAKE p \in Process
    <3>1. CASE p = o
      BY <2>1, <3>1 DEF MeasuringInv
    <3>2. CASE p # o
      BY <1>2, <1>5, <2>1, <3>2 DEF MeasuringInv
    <3> QED BY <3>1, <3>2
  <2>3. Whereabouts /\ RootFirst
    BY <1>1, <1>5, <2>1
  <2> QED BY <2>2, <2>3
<1>6. ASSUME NEW o \in Process, Load(o), Entry' = Entry PROVE Goal
  <2>1. /\ job[o] \in Jobs /\ job[o] # None /\ job[o].due = <<>>
        /\ at' = at /\ ~overlapped /\ ~powerLost
    BY <1>6, LoadsEntry
  <2>2. PICK found : job' = [job EXCEPT ![o] = [job[o] EXCEPT !.found = found]]
    BY <1>6 DEF Load
  <2> DEFINE new == [job[o] EXCEPT !.found = found]
  <2>3. new.due = <<>> /\ new.from = job[o].from
    BY <2>1 DEF Jobs
  <2>4. job' = [job EXCEPT ![o] = new]
    BY <2>2
  <2> HIDE DEF new
  <2>5. \A p \in Process : Call(p)
    <3> TAKE p \in Process
    <3>1. CASE p = o
      BY <2>1, <2>3, <2>4, <3>1 DEF MeasuringInv, AnchorInv
    <3>2. CASE p # o
      BY <1>2, <1>6, <2>1, <2>4, <3>2 DEF MeasuringInv
    <3> QED BY <3>1, <3>2
  <2>6. Whereabouts /\ RootFirst
    BY <1>1, <1>6, <2>1
  <2> QED BY <2>5, <2>6
<1>7. ASSUME NEW o \in Process, Measure(o), Entry' = Entry PROVE Goal
  <2> DEFINE j == job[o]
  <2>1. /\ j \in Jobs /\ j # None /\ j.answer = None /\ Looked(j)
        /\ at' = at /\ ~overlapped /\ ~powerLost
    BY <1>7, MeasuresMissing
  <2>2. PICK raw : job' = [job EXCEPT ![o] = [j EXCEPT !.answer = Answer(j, raw), !.due = Due(j)]]
    BY <1>7, MeasuresMissing
  <2> DEFINE new == [j EXCEPT !.answer = Answer(j, raw), !.due = Due(j)]
  <2>3. new.due = Due(j) /\ new.from = j.from
    BY <2>1 DEF Jobs
  <2>4. job' = [job EXCEPT ![o] = new]
    BY <2>2
  <2> HIDE DEF new
  <2>5. j.from = at[o] /\ JobAgrees(j, Entry)
    BY <2>1 DEF AnchorInv, AgreesInv
  <2>6. Entry[Root] = None => j.from = Root /\ Root \in Missing(j)
    <3> SUFFICES ASSUME Entry[Root] = None PROVE j.from = Root /\ Root \in Missing(j)
      OBVIOUS
    <3>1. at[o] \in Key
      BY DEF MeasuringInv
    <3>2. at[o] = Root
      BY <2>1, <3>1 DEF AnchorInv
    <3>3. Root \in DOMAIN j.found
      BY <2>1, <2>5, <3>2 DEF Looked, Pair
    <3>4. j.found[Root] = None
      BY <2>1, <2>5, <3>3 DEF JobAgrees
    <3> QED BY <2>5, <3>2, <3>3, <3>4 DEF Missing
  <2>7. Missing(j) \subseteq Pair(j)
    BY <2>1 DEF Looked, Missing
  <2>8. Entry[Root] = None => Head(Due(j)) = Root
    BY <2>6, <2>7, DueIs
  <2>9. \A p \in Process : Call(p)
    <3> TAKE p \in Process
    <3>1. CASE p = o
      BY <1>7, <2>1, <2>3, <2>4, <2>5, <2>8, <3>1 DEF MeasuringInv
    <3>2. CASE p # o
      BY <1>2, <1>7, <2>1, <2>4, <3>2 DEF MeasuringInv
    <3> QED BY <3>1, <3>2
  <2>10. Whereabouts /\ RootFirst
    BY <1>1, <1>7, <2>1
  <2> QED BY <2>9, <2>10
<1>8. ASSUME NEW o \in Process, StoreReplace(o) PROVE Goal
  <2> DEFINE j == job[o]
             k == Head(j.due)
             new == [j EXCEPT !.due = Tail(j.due)]
  <2>1. /\ j \in Jobs /\ j # None /\ j.due # <<>> /\ k \in Key /\ k \in Pair(j)
        /\ j.answer # None /\ Entry' = [Entry EXCEPT ![k] = j.answer[k]]
        /\ job' = [job EXCEPT ![o] = new]
        /\ at' = at /\ ~overlapped /\ ~powerLost
    BY <1>8, StoresFirst
  <2>2. new.from = j.from
    BY <2>1, OneLessDue
  <2> HIDE DEF new
  <2>3. j.answer[k] # None
    <3>1. j.answer[k] \in ResultsOf(k)
      BY <2>1 DEF MeasuringInv, JobHoldsResults
    <3> HIDE DEF k
    <3> QED BY <2>1, <3>1, ResultsAreValues, FileAssumption
  <2>4. \A q \in Key : Entry'[q] = IF q = k THEN j.answer[k] ELSE Entry[q]
    BY <2>1 DEF Entry
  <2>5. Entry[Root] = None => k = Root
    BY <2>1 DEF AnchorInv
  <2>6. Root \in Key
    BY MeasurementAssumption
  <2> HIDE DEF k
  <2>7. Entry'[Root] # None
    BY <2>3, <2>4, <2>5, <2>6
  <2>8. \A q \in Key : Entry[q] # None => Entry'[q] # None
    BY <2>3, <2>4
  <2>9. Whereabouts
    <3>1. \A p \in Process : at[p] \in Key /\ (at[p] = Root \/ Entry[at[p]] # None)
      BY <2>1 DEF AnchorInv, MeasuringInv
    <3> QED BY <2>1, <2>8, <3>1
  <2>10. \A p \in Process : job'[p] # None => job'[p].from = at'[p]
    <3> TAKE p \in Process
    <3>1. CASE p = o
      BY <2>1, <2>2, <3>1 DEF MeasuringInv, AnchorInv
    <3>2. CASE p # o
      BY <2>1, <3>2 DEF MeasuringInv, AnchorInv
    <3> QED BY <3>1, <3>2
  <2> QED BY <2>7, <2>9, <2>10
<1>9. ASSUME NEW o \in Process, Return(o), Entry' = Entry PROVE Goal
  <2>1. /\ ~overlapped /\ ~powerLost /\ at' = [at EXCEPT ![o] = job[o].to]
        /\ job' = [job EXCEPT ![o] = None] /\ job[o] # None
    BY <1>9 DEF Return
  <2>2. Entry[job[o].to] # None
    BY <1>9, <2>1, ReturnedHasEntry
  <2>3. Whereabouts
    BY <1>9, <2>1, <2>2 DEF AnchorInv, MeasuringInv
  <2>4. RootFirst
    BY <1>9, <2>1 DEF AnchorInv
  <2>5. \A p \in Process : Call(p)
    <3> TAKE p \in Process
    <3>1. CASE p = o
      BY <2>1, <3>1 DEF MeasuringInv
    <3>2. CASE p # o
      BY <1>2, <1>9, <2>1, <3>2 DEF MeasuringInv
    <3> QED BY <3>1, <3>2
  <2> QED BY <2>3, <2>4, <2>5
<1>10. ASSUME NEW o \in Process, Reset(o), Entry' = Entry PROVE Goal
  <2>1. /\ ~overlapped /\ ~powerLost /\ at' = [at EXCEPT ![o] = Root]
        /\ job' = job /\ job[o] = None
    BY <1>10 DEF Reset
  <2>2. Whereabouts
    BY <1>10, <2>1 DEF AnchorInv, MeasuringInv
  <2>3. RootFirst
    BY <1>10, <2>1 DEF AnchorInv
  <2>4. \A p \in Process : Call(p)
    <3> TAKE p \in Process
    <3>1. CASE p = o
      BY <2>1, <3>1
    <3>2. CASE p # o
      BY <1>2, <1>10, <2>1, <3>2 DEF MeasuringInv
    <3> QED BY <3>1, <3>2
  <2> QED BY <2>2, <2>3, <2>4
<1>11. ASSUME NEW o \in Process, Interrupts(o) PROVE Goal
  <2>1. /\ ~overlapped /\ ~powerLost /\ at' = [at EXCEPT ![o] = Root]
        /\ job' = [job EXCEPT ![o] = None] /\ job[o] # None /\ Entry' = Entry
    BY <1>11 DEF Interrupts
  <2>2. Whereabouts
    BY <2>1 DEF AnchorInv, MeasuringInv
  <2>3. RootFirst
    BY <2>1 DEF AnchorInv
  <2>4. \A p \in Process : Call(p)
    <3> TAKE p \in Process
    <3>1. CASE p = o
      BY <2>1, <3>1 DEF MeasuringInv
    <3>2. CASE p # o
      BY <1>2, <2>1, <3>2 DEF MeasuringInv
    <3> QED BY <3>1, <3>2
  <2> QED BY <2>2, <2>3, <2>4
<1>12. StepKind
  BY StepKinds
<1>13. Goal
  <2> HIDE DEF Goal
  <2> QED BY <1>3, <1>4, <1>5, <1>6, <1>7, <1>8, <1>9, <1>10, <1>11, <1>12 DEF StepKind, Goal
<1> QED BY <1>13

-----------------------------------------------------------------------------
(* Completed results that differ by what their queries cost: they are on   *)
(* one scale.                                                              *)
OneScale(results) ==
  \E d \in Int : \A q \in Key : results[q] \in {None, Failed, Cost[q] + d}

NoneFailed(results) == \A q \in Key : results[q] # Failed

(* As long as no entry is a failure, what the directory holds and what it  *)
(* will hold are on one scale.                                             *)
ScaleInv ==
  ~overlapped /\ ~powerLost /\ NoneFailed(Entry) =>
    /\ OneScale(Entry)
    /\ \A p \in Process : job[p] # None => OneScale(Coming(job[p], Entry))

(* A measurement that completed is moved to the scale of the directory.    *)
LEMMA AnswerIsOnScale ==
  ASSUME NEW j \in Jobs, Looked(j), Missing(j) # {}, NEW entry,
         \A q \in Key : entry[q] \in ResultsOf(q) \cup {None},
         \A q \in Pair(j) : j.found[q] = entry[q],
         Missing(j) = Pair(j) => \A q \in Key : entry[q] = None,
         OneScale(entry), NoneFailed(entry),
         NEW raw \in {[q \in Pair(j) |-> Cost[q] + e] : e \in Drift}
                       \cup {[q \in Pair(j) |-> Failed]}
  PROVE  \E d \in Int : \A q \in Key :
           (IF q \in Missing(j) THEN Answer(j, raw)[q] ELSE entry[q])
             \in {None, Failed, Cost[q] + d}
<1>1. Missing(j) \subseteq Pair(j) /\ Pair(j) \subseteq Key /\ DOMAIN j.found = Pair(j)
  BY DEF Looked, Missing, Pair, Jobs
<1>2. PICK d \in Int : \A q \in Key : entry[q] \in {None, Failed, Cost[q] + d}
  BY DEF OneScale
<1>3. CASE raw = [q \in Pair(j) |-> Failed]
  <2>1. \A q \in Missing(j) : Answer(j, raw)[q] = Failed
    <3> TAKE q \in Missing(j)
    <3>1. q \in Pair(j) /\ raw[q] = Failed
      BY <1>1, <1>3
    <3>2. CASE Missing(j) = Pair(j)
      BY <3>1, <3>2 DEF Answer
    <3>3. CASE Missing(j) # Pair(j)
      <4>1. \A x, y : Normalized(Failed, x, y) = Failed
        BY DEF Normalized
      <4> QED BY <3>1, <3>3, <4>1 DEF Answer
    <3> QED BY <3>2, <3>3
  <2> QED BY <1>2, <2>1
<1>4. ASSUME NEW e \in Drift, raw = [q \in Pair(j) |-> Cost[q] + e], Missing(j) = Pair(j)
      PROVE  \E f \in Int : \A q \in Key :
               (IF q \in Missing(j) THEN Answer(j, raw)[q] ELSE entry[q])
                 \in {None, Failed, Cost[q] + f}
  <2>1. \A q \in Missing(j) : Answer(j, raw)[q] = Cost[q] + e
    BY <1>1, <1>4 DEF Answer
  <2>2. e \in Int
    BY MeasurementAssumption
  <2> QED BY <1>4, <2>1, <2>2
<1>5. ASSUME NEW e \in Drift, raw = [q \in Pair(j) |-> Cost[q] + e], Missing(j) # Pair(j)
      PROVE  \A q \in Missing(j) : Answer(j, raw)[q] = Cost[q] + d
  <2> TAKE q \in Missing(j)
  <2> DEFINE a == CHOOSE a \in Pair(j) : a # q
  <2>1. PICK b \in Pair(j) : b \notin Missing(j)
    BY <1>1, <1>5
  <2>2. a \in Pair(j) /\ a # q
    BY <2>1
  <2>3. q \in Pair(j)
    BY <1>1
  <2>4. a = b
    BY <2>1, <2>2, <2>3 DEF Pair
  <2>5. Answer(j, raw)[q] = Normalized(raw[q], raw[a], j.found[a])
    BY <1>5, <2>3 DEF Answer
  <2> HIDE DEF a
  <2>6. a \in Key /\ q \in Key
    BY <1>1, <2>2, <2>3
  <2>7. j.found[a] # None /\ j.found[a] = entry[a] /\ entry[a] # Failed
    BY <1>1, <2>1, <2>2, <2>4, <2>6 DEF Missing, NoneFailed
  <2>8. j.found[a] = Cost[a] + d
    BY <1>2, <2>6, <2>7
  <2>9. raw[q] = Cost[q] + e /\ raw[a] = Cost[a] + e
    BY <1>5, <2>2, <2>3
  <2>10. Cost[q] + e # Failed /\ Cost[a] + e # Failed
         /\ Cost[q] \in Int /\ Cost[a] \in Int /\ e \in Int
    BY <2>6, MeasurementAssumption
  <2>11. Normalized(raw[q], raw[a], j.found[a]) = (Cost[q] + e) + (Cost[a] + d) - (Cost[a] + e)
    BY <2>7, <2>8, <2>9, <2>10 DEF Normalized
  <2>12. (Cost[q] + e) + (Cost[a] + d) - (Cost[a] + e) = Cost[q] + d
    BY <2>10
  <2> QED BY <2>5, <2>11, <2>12
<1>6. ASSUME NEW e \in Drift, raw = [q \in Pair(j) |-> Cost[q] + e], Missing(j) # Pair(j)
      PROVE  \E f \in Int : \A q \in Key :
               (IF q \in Missing(j) THEN Answer(j, raw)[q] ELSE entry[q])
                 \in {None, Failed, Cost[q] + f}
  <2>1. \A q \in Missing(j) : Answer(j, raw)[q] = Cost[q] + d
    BY <1>5, <1>6
  <2> QED BY <1>2, <2>1
<1> QED BY <1>3, <1>4, <1>6

LEMMA ScaleInvStep == CallsInv /\ AnchorInv /\ ScaleInv /\ [Next]_vars => ScaleInv'
<1> SUFFICES ASSUME CallsInv, AnchorInv, ScaleInv, [Next]_vars,
                    ~overlapped', ~powerLost', NoneFailed(Entry')
             PROVE  /\ OneScale(Entry')
                    /\ \A p \in Process : job'[p] # None => OneScale(Coming(job'[p], Entry'))
  BY DEF ScaleInv, OneScale, NoneFailed, Coming
<1>1. ~overlapped /\ ~powerLost /\ ~PowerFails
  <2>1. ~PowerFails
    BY DEF PowerFails
  <2>2. StepKind
    BY StepKinds DEF CallsInv
  <2>3. ASSUME NEW p \in Process, NEW r \in Key, Ask(p, r) PROVE ~overlapped /\ ~powerLost
    BY <2>3 DEF Ask
  <2>4. ASSUME NEW p \in Process,
               Load(p) \/ Measure(p) \/ StoreReplace(p) \/ Return(p) \/ Reset(p) \/ Interrupts(p)
        PROVE  ~overlapped /\ ~powerLost
    BY <2>4 DEF Load, Measure, StoreReplace, Return, Reset, Interrupts
  <2>5. CASE Quiet
    BY <2>1, <2>5 DEF Quiet
  <2> QED BY <2>1, <2>2, <2>3, <2>4, <2>5 DEF StepKind
<1>2. \A q \in Key : Entry[q] # None => Entry'[q] = Entry[q]
  BY EntriesOnlyAdded
<1>3. NoneFailed(Entry)
  <2>1. Failed # None
    BY FileAssumption, MeasurementAssumption
  <2> QED BY <1>2, <2>1 DEF NoneFailed
<1>4. ASSUME NEW o \in Process, Measure(o)
      PROVE  /\ OneScale(Entry')
             /\ \A p \in Process : job'[p] # None => OneScale(Coming(job'[p], Entry'))
  <2> DEFINE j == job[o]
  <2>0. Entry' = Entry
    BY <1>4, SameEntries DEF Measure, fileVars
  <2>1. /\ j \in Jobs /\ j # None /\ j.answer = None /\ Looked(j) /\ Missing(j) # {}
        /\ ~overlapped
    BY <1>4, MeasuresMissing DEF CallsInv
  <2>2. PICK raw \in {[q \in Pair(j) |-> Cost[q] + d] : d \in Drift}
                       \cup {[q \in Pair(j) |-> Failed]} :
          job' = [job EXCEPT ![o] = [j EXCEPT !.answer = Answer(j, raw), !.due = Due(j)]]
    BY <1>4, MeasuresMissing DEF CallsInv
  <2> DEFINE new == [j EXCEPT !.answer = Answer(j, raw), !.due = Due(j)]
  <2>3. new.due = Due(j) /\ new.answer = Answer(j, raw)
    BY <2>1 DEF Jobs
  <2>4. job' = [job EXCEPT ![o] = new]
    BY <2>2
  <2> HIDE DEF new
  <2>5. JobAgrees(j, Entry) /\ j.from = at[o]
    BY <1>1, <2>1 DEF CallsInv, AgreesInv, AnchorInv
  <2>6. \A q \in Pair(j) : j.found[q] = Entry[q]
    BY <2>1, <2>5 DEF JobAgrees, Looked
  <2>7. Missing(j) = Pair(j) => \A q \in Key : Entry[q] = None
    <3> SUFFICES ASSUME Missing(j) = Pair(j) PROVE \A q \in Key : Entry[q] = None
      OBVIOUS
    <3>1. at[o] \in Missing(j) /\ at[o] \in Pair(j)
      BY <2>5 DEF Pair
    <3>2. Entry[at[o]] = None
      BY <2>6, <3>1 DEF Missing
    <3> QED BY <1>1, <2>1, <3>2 DEF AnchorInv
  <2>8. \A q \in Key : Entry[q] \in ResultsOf(q) \cup {None}
    <3> TAKE q \in Key
    <3>1. FileInv /\ (files[q] # None => files[q].value \in ResultsOf(q))
      BY DEF CallsInv, MeasuringInv, FilesHoldResults
    <3> QED BY <3>1, EntryIs
  <2>9. OneScale(Entry)
    BY <1>1, <1>3, <2>1 DEF ScaleInv
  <2>10. Range(new.due) = Missing(j)
    <3>1. Missing(j) \subseteq Pair(j)
      BY <2>1 DEF Looked, Missing
    <3> QED BY <2>3, <3>1, DueIs
  <2>11. OneScale(Coming(new, Entry))
    <3>1. \E d \in Int : \A q \in Key :
            (IF q \in Missing(j) THEN Answer(j, raw)[q] ELSE Entry[q])
              \in {None, Failed, Cost[q] + d}
      <4> HIDE DEF j
      <4> DEFINE entry == Entry
      <4>1. entry = Entry
        OBVIOUS
      <4> HIDE DEF entry
      <4>2. \E d \in Int : \A q \in Key :
              (IF q \in Missing(j) THEN Answer(j, raw)[q] ELSE entry[q])
                \in {None, Failed, Cost[q] + d}
        BY <1>3, <2>1, <2>2, <2>6, <2>7, <2>8, <2>9, <4>1, AnswerIsOnScale
      <4> QED BY <4>1, <4>2
    <3>2. \A q \in Key : Coming(new, Entry)[q]
                           = IF q \in Missing(j) THEN Answer(j, raw)[q] ELSE Entry[q]
      BY <2>3, <2>10 DEF Coming
    <3> QED BY <3>1, <3>2 DEF OneScale
  <2>12. \A p \in Process : job'[p] # None => OneScale(Coming(job'[p], Entry'))
    <3> SUFFICES ASSUME NEW p \in Process, job'[p] # None
                 PROVE  OneScale(Coming(job'[p], Entry'))
      OBVIOUS
    <3>1. CASE p = o
      BY <2>0, <2>4, <2>11, <3>1 DEF CallsInv, MeasuringInv
    <3>2. CASE p # o
      <4>1. job'[p] = job[p]
        BY <2>4, <3>2 DEF CallsInv, MeasuringInv
      <4> QED BY <1>1, <1>3, <2>0, <2>1, <4>1 DEF ScaleInv
    <3> QED BY <3>1, <3>2
  <2> QED BY <2>0, <2>9, <2>12
<1>5. CASE \A o \in Process : ~Measure(o)
  <2>1. ASSUME NEW p \in Process, job'[p] # None PROVE OneScale(Coming(job'[p], Entry'))
    <3>1. \/ Coming(job'[p], Entry') = Entry
          \/ job[p] # None /\ ~overlapped /\ Coming(job'[p], Entry') = Coming(job[p], Entry)
      BY <1>5, <2>1, StepsForeseen
    <3> QED BY <1>1, <1>3, <3>1 DEF ScaleInv
  <2>2. OneScale(Entry')
    <3>2. OneScale(Entry)
      BY <1>1, <1>3 DEF ScaleInv
    <3>3. ASSUME NEW o \in Process, StoreReplace(o) PROVE OneScale(Entry')
      <4>1. /\ job[o] # None /\ job[o] \in Jobs /\ job[o].due # <<>> /\ job[o].answer # None
            /\ Head(job[o].due) \in Key /\ Head(job[o].due) \in Pair(job[o])
            /\ Entry' = [Entry EXCEPT ![Head(job[o].due)] = job[o].answer[Head(job[o].due)]]
        BY <3>3, StoresFirst DEF CallsInv
      <4>2. PICK d \in Int : \A q \in Key : Coming(job[o], Entry)[q] \in {None, Failed, Cost[q] + d}
        BY <1>1, <1>3, <4>1 DEF ScaleInv, OneScale
      <4>3. JobAgrees(job[o], Entry)
        BY <1>1, <4>1 DEF CallsInv, AgreesInv
      <4>4. Head(job[o].due) \in Range(job[o].due)
        BY <4>1, <4>3, ShortTail DEF JobAgrees
      <4>5. Range(job[o].due) \subseteq Pair(job[o])
        <5>1. job[o].due \in Seq(Pair(job[o]))
          BY <4>1 DEF CallsInv, MeasuringInv, JobHoldsResults
        <5> QED BY <5>1, ListOf
      <4>6. \A q \in Key : q \in Range(job[o].due) => Entry[q] = None
        BY <4>1, <4>3, <4>5 DEF JobAgrees
      <4> DEFINE k == Head(job[o].due)
      <4>7. \A q \in Key : Entry'[q] = IF q = k THEN job[o].answer[q] ELSE Entry[q]
        BY <4>1 DEF Entry
      <4> HIDE DEF k
      <4>8. \A q \in Key : Entry'[q] \in {None, Failed, Cost[q] + d}
        <5> TAKE q \in Key
        <5>1. Coming(job[o], Entry)[q] =
                IF q \in Range(job[o].due) THEN job[o].answer[q] ELSE Entry[q]
          BY DEF Coming
        <5>2. CASE q = k
          BY <4>2, <4>4, <4>7, <5>1, <5>2 DEF k
        <5>3. CASE q # k /\ q \in Range(job[o].due)
          BY <4>6, <4>7, <5>3
        <5>4. CASE q # k /\ q \notin Range(job[o].due)
          BY <4>2, <4>7, <5>1, <5>4
        <5> QED BY <5>2, <5>3, <5>4
      <4> QED BY <4>8 DEF OneScale
    <3>4. CASE Entry' = Entry
      BY <3>2, <3>4
    <3>5. StepKind
      BY StepKinds DEF CallsInv
    <3> QED BY <1>1, <1>5, <3>3, <3>4, <3>5 DEF StepKind, Quiet, Interrupts
  <2> QED BY <2>1, <2>2
<1> QED BY <1>4, <1>5

(* Completed entries differ by what their queries cost. *)
LEMMA OnScaleIsDriftFree == CallsInv /\ ScaleInv => DriftFree
<1> SUFFICES ASSUME CallsInv, ScaleInv, ~powerLost, ~overlapped,
                    \A q \in Key : files[q] # None => Completed(q),
                    NEW q \in Key, NEW r \in Key, Completed(q), Completed(r)
             PROVE  Stored(files[q]) - Stored(files[r]) = Cost[q] - Cost[r]
  BY DEF DriftFree
<1>1. FileInv
  BY DEF CallsInv, MeasuringInv
<1>2. \A k \in Key : Entry[k] = Stored(files[k])
  BY DEF Entry
<1>3. NoneFailed(Entry)
  <2>1. Failed # None
    BY FileAssumption, MeasurementAssumption
  <2> QED BY <1>1, <1>2, <2>1, EntryIs DEF NoneFailed, Completed
<1>4. PICK d \in Int : \A k \in Key : Entry[k] \in {None, Failed, Cost[k] + d}
  BY <1>3 DEF ScaleInv, OneScale
<1>5. \A k \in {q, r} : Stored(files[k]) = Cost[k] + d
  <2>1. \A k \in {q, r} : Entry[k] # None /\ Entry[k] # Failed
    BY <1>1, <1>2, EntryIs DEF Completed
  <2> QED BY <1>2, <1>4, <2>1
<1>6. Cost[q] \in Int /\ Cost[r] \in Int
  BY MeasurementAssumption
<1>7. (Cost[q] + d) - (Cost[r] + d) = Cost[q] - Cost[r]
  BY <1>6
<1> QED BY <1>5, <1>7

-----------------------------------------------------------------------------
Present(results) == {q \in Key : results[q] # None}

(* As many misses were counted as there are, or are going to be, entries.  *)
Counted(results) ==
  /\ IsFiniteSet(Present(results))
  /\ AllMisses = Cardinality(Present(results))

CountedInv ==
  interruptions = 0 /\ ~overlapped =>
    /\ (\A p \in Process : job[p] = None) => Counted(Entry)
    /\ \A p \in Process : job[p] # None => Counted(Coming(job[p], Entry))

(* The misses of one process are part of all. *)
LEMMA OneCountsMore ==
  ASSUME misses \in [Process -> Nat], NEW p \in Process, NEW d \in Nat,
         misses' = [misses EXCEPT ![p] = misses[p] + d]
  PROVE  AllMisses' = AllMisses + d
<1> DEFINE n == Cardinality(Process)
           s == [i \in 1 .. n |-> misses[SetToSeq(Process)[i]]]
           t == [i \in 1 .. n |-> misses'[SetToSeq(Process)[i]]]
<1>1. /\ n \in Nat
      /\ \A i \in 1 .. n : SetToSeq(Process)[i] \in Process
      /\ \A i, j \in 1 .. n : SetToSeq(Process)[i] = SetToSeq(Process)[j] => i = j
      /\ \A x \in Process : \E i \in 1 .. n : SetToSeq(Process)[i] = x
  <2>1. IsFiniteSet(Process)
    BY MeasurementAssumption
  <2> QED BY <2>1, SetAsList
<1>2. PICK k \in 1 .. n : SetToSeq(Process)[k] = p
  BY <1>1
<1>3. \A q \in Process : misses[q] \in Int /\ misses'[q] = IF q = p THEN misses[q] + d ELSE misses[q]
  OBVIOUS
<1>4. s \in [1 .. n -> Int] /\ t \in [1 .. n -> Int]
  BY <1>1, <1>3
<1>5. t[k] = s[k] + d /\ \A i \in 1 .. n : i # k => t[i] = s[i]
  BY <1>1, <1>2, <1>3
<1>6. AllMisses = Total(s) /\ AllMisses' = Total(t)
  BY DEF AllMisses
<1> HIDE DEF n, s, t
<1>7. Total(t) = Total(s) + d
  <2>1. d \in Int /\ k \in 1 .. n
    OBVIOUS
  <2>2. ChangedAt(s, t, n, k, d)
    BY <1>1, <1>4, <1>5, <2>1 DEF ChangedAt
  <2> QED BY <2>2, TotalOfChange
<1> QED BY <1>6, <1>7

LEMMA NobodyMissed ==
  ASSUME misses = [p \in Process |-> 0]
  PROVE  AllMisses = 0
<1> DEFINE n == Cardinality(Process)
           s == [i \in 1 .. n |-> misses[SetToSeq(Process)[i]]]
<1>1. n \in Nat /\ \A i \in 1 .. n : SetToSeq(Process)[i] \in Process
  <2>1. IsFiniteSet(Process)
    BY MeasurementAssumption
  <2> QED BY <2>1, SetAsList
<1>2. s \in [1 .. n -> Int] /\ \A i \in 1 .. n : s[i] = 0
  BY <1>1
<1>3. AllMisses = Total(s)
  BY DEF AllMisses
<1> HIDE DEF n, s
<1> QED BY <1>1, <1>2, <1>3, TotalOfZeros

LEMMA CountedInvStep == CallsInv /\ CountedInv /\ [Next]_vars => CountedInv'
<1> SUFFICES ASSUME CallsInv, CountedInv, [Next]_vars, interruptions' = 0, ~overlapped'
             PROVE  /\ (\A p \in Process : job'[p] = None) => Counted(Entry)'
                    /\ \A p \in Process : job'[p] # None => Counted(Coming(job[p], Entry))'
  BY DEF CountedInv
<1>1. ASSUME NEW results, misses' = misses, Counted(results) PROVE
        AllMisses' = Cardinality(Present(results)) /\ IsFiniteSet(Present(results))
  BY <1>1 DEF Counted, AllMisses
<1>2. interruptions \in Nat /\ misses \in [Process -> Nat]
  BY DEF CallsInv, CountInv
<1>3. ~PowerFails /\ \A p \in Process : ~Interrupts(p)
  BY <1>2 DEF PowerFails, Interrupts
<1>4. interruptions = 0 /\ ~overlapped
  <2>1. StepKind
    BY StepKinds DEF CallsInv
  <2>2. ASSUME NEW p \in Process, NEW r \in Key, Ask(p, r) PROVE interruptions = 0 /\ ~overlapped
    BY <2>2 DEF Ask
  <2>3. ASSUME NEW p \in Process,
               Load(p) \/ Measure(p) \/ StoreReplace(p) \/ Return(p) \/ Reset(p)
        PROVE  interruptions = 0 /\ ~overlapped
    BY <2>3 DEF Load, Measure, StoreReplace, Return, Reset
  <2>4. CASE Quiet
    BY <2>4 DEF Quiet
  <2> QED BY <1>3, <2>1, <2>2, <2>3, <2>4 DEF StepKind
<1>5. ASSUME NEW o \in Process, Measure(o)
      PROVE  /\ (\A p \in Process : job'[p] = None) => Counted(Entry)'
             /\ \A p \in Process : job'[p] # None => Counted(Coming(job[p], Entry))'
  <2> DEFINE j == job[o]
  <2>0. Entry' = Entry
    BY <1>5, SameEntries DEF Measure, fileVars
  <2>1. /\ j \in Jobs /\ j # None /\ j.answer = None /\ Looked(j) /\ j.due = <<>>
        /\ misses' = [misses EXCEPT ![o] = misses[o] + Misses(j)]
    BY <1>5, MeasuresMissing DEF CallsInv
  <2>2. PICK raw \in {[q \in Pair(j) |-> Cost[q] + d] : d \in Drift}
                       \cup {[q \in Pair(j) |-> Failed]} :
          /\ job' = [job EXCEPT ![o] = [j EXCEPT !.answer = Answer(j, raw), !.due = Due(j)]]
          /\ Answer(j, raw) # None
          /\ [j EXCEPT !.answer = Answer(j, raw), !.due = Due(j)] \in Jobs
    BY <1>5, MeasuresMissing DEF CallsInv
  <2> DEFINE new == [j EXCEPT !.answer = Answer(j, raw), !.due = Due(j)]
  <2>3. new.due = Due(j) /\ new.answer = Answer(j, raw)
    BY <2>1 DEF Jobs
  <2>4. job' = [job EXCEPT ![o] = new] /\ new # None
    BY <2>2, JobsAreSome
  <2> HIDE DEF new
  <2>5. JobAgrees(j, Entry) /\ JobHoldsResults(j)
    BY <1>4, <2>1 DEF CallsInv, AgreesInv, MeasuringInv
  <2>6. Missing(j) \subseteq Pair(j) /\ Pair(j) \subseteq Key /\ DOMAIN j.found = Pair(j)
    BY <2>1 DEF Looked, Missing, Pair, Jobs
  <2>7. \A q \in Missing(j) : Entry[q] = None
    BY <2>1, <2>5 DEF JobAgrees, Missing
  <2>8. Range(new.due) = Missing(j)
    BY <2>3, <2>6, DueIs
  <2>9. \A q \in Missing(j) : Answer(j, raw)[q] # None
    <3>1. \A q \in Pair(j) : Answer(j, raw)[q] \in ResultsOf(q)
      BY <2>1, <2>2, <2>5, AnswerHoldsResults
    <3> QED BY <2>6, <3>1, ResultsAreValues, FileAssumption
  <2>10. Counted(Entry)
    BY <1>4, <2>1, ComingOfNothing, EntryIsFunction DEF CountedInv
  <2>11. Present(Coming(new, Entry)) = Present(Entry) \cup Missing(j)
    BY <2>3, <2>6, <2>8, <2>9 DEF Present, Coming
  <2>12. Present(Entry) \cap Missing(j) = {}
    BY <2>7 DEF Present
  <2>13. IsFiniteSet(Missing(j)) /\ Misses(j) \in Nat /\ Misses(j) = Cardinality(Missing(j))
    BY <2>5, MissesAreFew DEF JobHoldsResults
  <2>14. /\ IsFiniteSet(Present(Coming(new, Entry)))
         /\ Cardinality(Present(Coming(new, Entry))) = Cardinality(Present(Entry)) + Misses(j)
    <3>1. IsFiniteSet(Present(Entry)) /\ Cardinality(Present(Entry)) \in Nat
      BY <2>10, FS_CardinalityType DEF Counted
    <3> DEFINE A == Present(Entry)
               M == Missing(j)
    <3>2. Cardinality({}) = 0
      BY FS_EmptySet
    <3>3. A \cap M = {} /\ IsFiniteSet(A) /\ IsFiniteSet(M)
      BY <2>12, <2>13, <3>1
    <3>4. Present(Coming(new, Entry)) = A \cup M
      BY <2>11
    <3> HIDE DEF A, M
    <3>5. IsFiniteSet(A \cup M)
          /\ Cardinality(A \cup M) = Cardinality(A) + Cardinality(M) - Cardinality(A \cap M)
      BY <3>3, FS_Union
    <3>6. Cardinality(A) \in Nat /\ Cardinality(M) = Misses(j) /\ Misses(j) \in Nat
      BY <2>13, <3>1 DEF A, M
    <3>7. Cardinality(A \cup M) = Cardinality(A) + Misses(j)
      <4>1. Cardinality(A \cap M) = 0
        BY <3>2, <3>3
      <4> DEFINE x == Cardinality(A \cup M)
                 y == Cardinality(A)
                 z == Cardinality(M)
                 w == Cardinality(A \cap M)
      <4>2. x = y + z - w /\ w = 0 /\ y \in Nat /\ z = Misses(j) /\ z \in Nat
        BY <3>5, <3>6, <4>1
      <4> HIDE DEF x, y, z, w
      <4>3. x = y + Misses(j)
        BY <4>2
      <4> QED BY <4>3 DEF x, y
    <3> QED BY <3>4, <3>5, <3>7 DEF A
  <2>15. AllMisses' = AllMisses + Misses(j)
    BY <1>2, <2>1, <2>13, OneCountsMore
  <2>16. AllMisses' = Cardinality(Present(Coming(new, Entry)))
    BY <2>10, <2>14, <2>15 DEF Counted
  <2>17. job'[o] = new
    BY <2>4 DEF CallsInv, MeasuringInv
  <2>18. \A p \in Process : job'[p] # None => p = o
    BY <2>1, <2>4, <1>4 DEF CallsInv, MeasuringInv, SoleInv
  <2>19. Counted(Coming(job[o], Entry))'
    BY <2>0, <2>14, <2>16, <2>17 DEF Counted, Coming, Present
  <2> QED BY <2>4, <2>17, <2>18, <2>19
<1>6. ASSUME misses' = misses, \A o \in Process : ~Measure(o), NEW p \in Process, job'[p] # None
      PROVE  Counted(Coming(job[p], Entry))'
  <2>1. \/ (\A o \in Process : job[o] = None) /\ Coming(job'[p], Entry') = Entry
        \/ job[p] # None /\ Coming(job'[p], Entry') = Coming(job[p], Entry)
    BY <1>6, StepsForeseen
  <2>2. \E results : Coming(job'[p], Entry') = results /\ Counted(results)
    BY <1>4, <2>1 DEF CountedInv
  <2>3. PICK results : Coming(job'[p], Entry') = results /\ Counted(results)
    BY <2>2
  <2>4. AllMisses' = Cardinality(Present(results)) /\ IsFiniteSet(Present(results))
    BY <1>1, <1>6, <2>3
  <2> QED BY <2>3, <2>4 DEF Counted, Present, Coming
<1>7. ASSUME misses' = misses, Entry' = Entry, Counted(Entry) PROVE Counted(Entry)'
  <2> DEFINE results == Entry
  <2>1. Entry' = results /\ Counted(results)
    BY <1>7
  <2> HIDE DEF results
  <2>2. AllMisses' = Cardinality(Present(results)) /\ IsFiniteSet(Present(results))
    BY <1>1, <1>7, <2>1
  <2>3. Present(Entry)' = Present(results)
    BY <2>1 DEF Present
  <2> QED BY <2>2, <2>3 DEF Counted
<1>8. ASSUME NEW o \in Process, Return(o), Entry' = Entry
      PROVE  misses' = misses /\ Counted(Entry)
  <2>1. job[o] # None /\ job[o].due = <<>> /\ misses' = misses
    BY <1>4, <1>8, ReturnedHasEntry DEF Return
  <2>2. Coming(job[o], Entry) = Entry
    BY <2>1, ComingOfNothing, EntryIsFunction
  <2> QED BY <1>4, <2>1, <2>2 DEF CountedInv
<1>9. ASSUME NEW o \in Process, NEW r \in Key, Ask(o, r)
      PROVE  misses' = misses /\ job'[o] # None
  <2> DEFINE new == [from |-> at[o], to |-> r, found |-> [q \in {} |-> None],
                     answer |-> None, due |-> <<>>]
  <2>1. misses' = misses /\ job' = [job EXCEPT ![o] = new]
    BY <1>9 DEF Ask
  <2>2. new # None
    <3>1. [q \in {} |-> None] \in [{} -> Value \cup {None}]
      OBVIOUS
    <3>2. [q \in {} |-> None] \in Partial(Value \cup {None})
      BY <3>1, PartialType
    <3>3. new \in Jobs
      BY <3>2 DEF Jobs, CallsInv, MeasuringInv
    <3> QED BY <3>3, JobsAreSome
  <2> HIDE DEF new
  <2> QED BY <2>1, <2>2 DEF CallsInv, MeasuringInv
<1>10. ASSUME NEW o \in Process, StoreReplace(o)
       PROVE  misses' = misses /\ job'[o] # None
  <2>1. /\ job[o] \in Jobs /\ job[o].due # <<>> /\ misses' = misses
        /\ job' = [job EXCEPT ![o] = [job[o] EXCEPT !.due = Tail(job[o].due)]]
    BY <1>10, StoresFirst DEF CallsInv
  <2>2. Tail(job[o].due) \in Seq(Key)
    BY <2>1 DEF Jobs
  <2>3. [job[o] EXCEPT !.due = Tail(job[o].due)] \in Jobs
    BY <2>1, <2>2 DEF Jobs
  <2> QED BY <2>1, <2>3, JobsAreSome DEF CallsInv, MeasuringInv
<1>11. ASSUME NEW o \in Process, Load(o)
       PROVE  misses' = misses /\ job'[o] # None
  <2>1. PICK found : /\ job' = [job EXCEPT ![o] = [job[o] EXCEPT !.found = found]]
                     /\ \A q \in DOMAIN found :
                          \/ q \in DOMAIN job[o].found /\ found[q] = job[o].found[q]
                          \/ found[q] = Entry[q]
                     /\ [job[o] EXCEPT !.found = found] \in Jobs
    BY <1>11, LoadsEntry DEF CallsInv
  <2>2. misses' = misses
    BY <1>11 DEF Load
  <2> DEFINE new == [job[o] EXCEPT !.found = found]
  <2>3. job' = [job EXCEPT ![o] = new] /\ new # None
    BY <2>1, JobsAreSome
  <2> HIDE DEF new
  <2> QED BY <2>2, <2>3 DEF CallsInv, MeasuringInv
<1>12. ASSUME misses' = misses, Entry' = Entry, \A p \in Process : job[p] = None
       PROVE  Counted(Entry)'
  BY <1>4, <1>7, <1>12 DEF CountedInv
<1>13. ASSUME misses' = misses, \A o \in Process : ~Measure(o), \A p \in Process : job'[p] = None
       PROVE  Counted(Entry)'
  <2>1. ASSUME NEW o \in Process, Reset(o), Entry' = Entry PROVE Counted(Entry)'
    BY <1>12, <1>13, <2>1 DEF Reset
  <2>2. CASE Quiet
    BY <1>12, <1>13, <2>2 DEF Quiet
  <2>3. StepKind
    BY StepKinds DEF CallsInv
  <2> QED BY <1>3, <1>7, <1>8, <1>9, <1>10, <1>11, <1>13, <2>1, <2>2, <2>3 DEF StepKind
<1>14. (\A o \in Process : ~Measure(o)) => misses' = misses
  <2>1. ASSUME NEW o \in Process, Reset(o) PROVE misses' = misses
    BY <2>1 DEF Reset
  <2>2. CASE Quiet
    BY <2>2 DEF Quiet
  <2>3. StepKind
    BY StepKinds DEF CallsInv
  <2> QED BY <1>3, <1>8, <1>9, <1>10, <1>11, <2>1, <2>2, <2>3 DEF StepKind
<1> QED BY <1>5, <1>6, <1>13, <1>14

LEMMA AccountsInit == Init => AnchorInv /\ ScaleInv /\ CountedInv
<1> SUFFICES ASSUME Init PROVE AnchorInv /\ ScaleInv /\ CountedInv
  OBVIOUS
<1>1. /\ \A q \in Key : Entry[q] = None
      /\ \A p \in Process : job[p] = None /\ at[p] = Root
  BY DEF Init, FilesInit, Entry, Stored
<1>2. AnchorInv
  BY <1>1 DEF AnchorInv
<1>3. ScaleInv
  BY <1>1 DEF ScaleInv, OneScale
<1>4. Present(Entry) = {}
  BY <1>1 DEF Present
<1>5. AllMisses = 0
  BY NobodyMissed DEF Init
<1>6. CountedInv
  BY <1>1, <1>4, <1>5, FS_EmptySet DEF CountedInv, Counted
<1> QED BY <1>2, <1>3, <1>6

LEMMA CountedIsExact == CallsInv /\ CountedInv => MissesAreEntries
<1> SUFFICES ASSUME CallsInv, CountedInv, interruptions = 0, ~overlapped,
                    \A p \in Process : job[p] = None
             PROVE  AllMisses = Cardinality({q \in Key : files[q] # None})
  BY DEF MissesAreEntries
<1>1. AllMisses = Cardinality(Present(Entry))
  BY DEF CountedInv, Counted
<1>2. Present(Entry) = {q \in Key : files[q] # None}
  BY EntryIs DEF Present, CallsInv, MeasuringInv
<1> QED BY <1>1, <1>2

(* Whatever strategies ask for and sessions measure on, and whichever calls*)
(* raise or processes are killed between two stores, completed entries     *)
(* differ by what their queries cost and by nothing else, and each entry   *)
(* of an uninterrupted run was measured exactly once (cache.py:57-160).    *)
THEOREM EntriesAlwaysAreSound == Spec => []EntriesAreSound
<1>1. Init => CallsInv /\ AnchorInv /\ ScaleInv /\ CountedInv
  BY MeasuringInvInit, SettledInit, AccountsInit DEF CallsInv
<1>2. CallsInv /\ AnchorInv /\ ScaleInv /\ CountedInv /\ [Next]_vars
        => (AnchorInv /\ ScaleInv /\ CountedInv)'
  BY AnchorInvStep, ScaleInvStep, CountedInvStep
<1>3. CallsInv /\ AnchorInv /\ ScaleInv /\ CountedInv => EntriesAreSound
  BY OnScaleIsDriftFree, CountedIsExact DEF EntriesAreSound
<1> QED BY <1>1, <1>2, <1>3, CallsInvHolds, PTL DEF Spec
=============================================================================
