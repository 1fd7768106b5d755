-------------------------- MODULE Research_proofs ---------------------------
(***************************************************************************)
(* Theorems about the research package: the episodes of                    *)
(* RewriteEnvironment, for every set of tasks, queries and rewrites and    *)
(* every equivalence that satisfies EnvironmentAssumption, and the         *)
(* strategies that CorpusRun runs over such episodes, for any queries,     *)
(* actions, answers of the oracles, limits and settings.                   *)
(***************************************************************************)
EXTENDS RewriteEnvironment, CorpusRun, Collections_proofs, FiniteSetTheorems

(* What an observation of a task looks like is well typed. *)
LEMMA ObservationForType ==
  ASSUME NEW t \in Task, NEW q \in Query, NEW n \in Nat
  PROVE  ObservationFor(t, q, n) \in Observation
BY EnvironmentAssumption DEF ObservationFor, Observation

(* Rewards are whole numbers of hundredths. *)
LEMMA RewardType ==
  /\ \A s \in Status : VerificationFailureReward(s) \in Int
  /\ \A before, after \in Measurement : PerformanceReward(before, after) \in Int
BY EnvironmentAssumption
DEF VerificationFailureReward, PerformanceReward, Confident, Measurement

(* Measuring a pair keeps every cached entry a measurement. *)
LEMMA BenchmarkType ==
  ASSUME NEW q \in Query, NEW r \in Query,
         NEW before \in Measurement, NEW after \in Measurement,
         measured \in [Query -> Measurement \cup {None}],
         Benchmark(q, r, before, after)
  PROVE  measured' \in [Query -> Measurement \cup {None}]
BY DEF Benchmark

(* Appending a transition keeps the log a sequence of transitions. *)
LEMMA RecordType ==
  ASSUME log \in Seq(Transition), NEW x \in Transition, Record(x)
  PROVE  log' \in Seq(Transition)
BY DEF Record

(* An active episode has a task and an observation of it. *)
LEMMA ActiveType ==
  ASSUME TypeOK, ActiveEpisode
  PROVE  /\ task \in Task
         /\ obs \in Observation
         /\ obs.current \in Query /\ obs.step \in Nat /\ obs.actions \subseteq Action
BY DEF TypeOK, ActiveEpisode, Observation

(* Each field of the state keeps its type (the state RewriteEnvironment    *)
(* holds in core.py:142-160, and the trajectory file).                     *)
THEOREM TypeCorrect == Spec => []TypeOK
<1>1. Init => TypeOK
  <2> SUFFICES ASSUME Init PROVE TypeOK
    OBVIOUS
  <2>1. measured \in [Query -> Measurement \cup {None}]
    BY DEF Init
  <2>2. log \in Seq(Transition)
    BY DEF Init
  <2>3. task = None /\ obs = None /\ done \in BOOLEAN
    BY DEF Init
  <2> QED
    BY <2>1, <2>2, <2>3 DEF TypeOK
<1>2. TypeOK /\ [Next]_vars => TypeOK'
  <2> SUFFICES ASSUME TypeOK, [Next]_vars PROVE TypeOK'
    OBVIOUS
  <2>1. ASSUME NEW t \in Task, Reset(t) PROVE TypeOK'
    <3>1. obs' \in Observation
      BY <2>1, ObservationForType, EnvironmentAssumption DEF Reset
    <3>2. task' \in Task /\ done' \in BOOLEAN
      BY <2>1 DEF Reset
    <3>3. log' \in Seq(Transition)
      BY <2>1 DEF Reset
    <3>4. measured' \in [Query -> Measurement \cup {None}]
      BY <2>1 DEF Reset, TypeOK
    <3>5. task' # None /\ obs' # None
      BY <3>1, <3>2, EnvironmentAssumption
    <3> QED
      BY <3>1, <3>2, <3>3, <3>4, <3>5 DEF TypeOK
  <2>2. ASSUME NEW a \in Action, StepRejected(a) PROVE TypeOK'
    <3> DEFINE r == Rewritten[obs.current][a]
    <3>1. task \in Task /\ obs.current \in Query /\ obs.step \in Nat
      BY <2>2, ActiveType DEF StepRejected
    <3>2. r \in Query
      BY <2>2, <3>1, EnvironmentAssumption DEF StepRejected
    <3>3. PICK s \in Status :
            /\ done' = TRUE
            /\ Record([step |-> obs.step, state |-> obs.current, action |-> a,
                       proposed |-> r, next |-> obs.current,
                       reward |-> VerificationFailureReward(s), status |-> s,
                       benchmark |-> FALSE, terminated |-> TRUE, truncated |-> FALSE])
      BY <2>2 DEF StepRejected, Verdicts
    <3>4. log' \in Seq(Transition)
      BY <3>1, <3>2, <3>3, RewardType, RecordType DEF Transition, TypeOK
    <3>5. UNCHANGED <<task, obs, measured>>
      BY <2>2 DEF StepRejected
    <3> QED
      BY <3>3, <3>4, <3>5 DEF TypeOK
  <2>3. ASSUME NEW a \in Action, StepAccepted(a) PROVE TypeOK'
    <3> DEFINE r     == Rewritten[obs.current][a]
               next  == ObservationFor(task, r, obs.step + 1)
               ended == Terminates(next)
               cut   == Truncates(task, next)
    <3>1. task \in Task /\ obs.current \in Query /\ obs.step \in Nat
      BY <2>3, ActiveType DEF StepAccepted
    <3>2. r \in Query
      BY <2>3, EnvironmentAssumption DEF StepAccepted
    <3>3. next \in Observation
      BY <3>1, <3>2, ObservationForType
    <3>4. obs' \in Observation /\ done' \in BOOLEAN /\ task' = task
      BY <2>3, <3>3 DEF StepAccepted, Terminates, Truncates
    <3>5. PICK before \in Measurement, after \in Measurement :
            /\ Benchmark(obs.current, r, before, after)
            /\ Record([step |-> obs.step, state |-> obs.current, action |-> a,
                       proposed |-> r, next |-> r,
                       reward |-> PerformanceReward(before, after), status |-> "proven",
                       benchmark |-> Confident(before, after),
                       terminated |-> ended, truncated |-> cut])
      BY <2>3 DEF StepAccepted
    <3>6. log' \in Seq(Transition)
      BY <3>1, <3>2, <3>5, RewardType, RecordType
      DEF Transition, TypeOK, Confident, Status, Terminates, Truncates
    <3>7. measured' \in [Query -> Measurement \cup {None}]
      BY <3>1, <3>2, <3>5, BenchmarkType DEF TypeOK
    <3>8. task' # None /\ obs' # None
      BY <3>1, <3>4, EnvironmentAssumption
    <3> QED
      BY <3>1, <3>4, <3>6, <3>7, <3>8 DEF TypeOK
  <2>4. ASSUME NEW a \in Action, StepRaises(a) PROVE TypeOK'
    <3>1. obs.current \in Query /\ Rewritten[obs.current][a] \in Query
      BY <2>4, ActiveType, EnvironmentAssumption DEF StepRaises
    <3>2. measured' \in [Query -> Measurement \cup {None}]
      BY <2>4, <3>1, BenchmarkType DEF StepRaises, MeasureAlone, TypeOK
    <3> QED
      BY <2>4, <3>2 DEF StepRaises, TypeOK
  <2>5. CASE UNCHANGED vars
    BY <2>5 DEF vars, TypeOK
  <2> QED
    BY <2>1, <2>2, <2>3, <2>4, <2>5 DEF Next
<1> QED
  BY <1>1, <1>2, PTL DEF Spec

-----------------------------------------------------------------------------
(* The invariant that carries the soundness of an episode: the shown query *)
(* means the asked one, and the offered actions belong to it.              *)
EpisodeInv == CurrentMeansInitial /\ ActionsAreCurrent

(* A certified step from a query equivalent to the initial one reaches a   *)
(* query equivalent to the initial one.                                    *)
LEMMA CertifiedStep ==
  ASSUME NEW t \in Task, NEW q \in Query, NEW r \in Query,
         <<SqlOf[t], q>> \in Equiv[t], "proven" \in Verdicts(t, q, r)
  PROVE  <<SqlOf[t], r>> \in Equiv[t]
BY EnvironmentAssumption DEF Verdicts, EquivAssumption

(* Every episode shows only queries that return the same rows as the       *)
(* task's SQL under its constraints, and offers only actions enumerated    *)
(* from the shown query (core.py:162-248).                                 *)
THEOREM EpisodeSound == Spec => []EpisodeInv
<1>1. Init => EpisodeInv
  BY DEF Init, EpisodeInv, CurrentMeansInitial, ActionsAreCurrent
<1>2. TypeOK /\ EpisodeInv /\ [Next]_vars => EpisodeInv'
  <2> SUFFICES ASSUME TypeOK, EpisodeInv, [Next]_vars PROVE EpisodeInv'
    OBVIOUS
  <2> USE DEF EpisodeInv, CurrentMeansInitial, ActionsAreCurrent
  <2>1. ASSUME NEW t \in Task, Reset(t) PROVE EpisodeInv'
    BY <2>1, EnvironmentAssumption DEF Reset, ObservationFor, EquivAssumption
  <2>2. ASSUME NEW a \in Action, StepRejected(a) PROVE EpisodeInv'
    BY <2>2 DEF StepRejected
  <2>3. ASSUME NEW a \in Action, StepAccepted(a) PROVE EpisodeInv'
    <3> DEFINE r == Rewritten[obs.current][a]
    <3>1. task \in Task /\ obs.current \in Query /\ task # None
      BY <2>3, ActiveType DEF StepAccepted, ActiveEpisode
    <3>2. r \in Query /\ "proven" \in Verdicts(task, obs.current, r)
      BY <2>3, EnvironmentAssumption DEF StepAccepted
    <3>3. <<SqlOf[task], r>> \in Equiv[task]
      BY <3>1, <3>2, CertifiedStep
    <3>4. task' = task /\ obs' = ObservationFor(task, r, obs.step + 1)
      BY <2>3 DEF StepAccepted
    <3> QED
      BY <3>3, <3>4 DEF ObservationFor
  <2>4. ASSUME NEW a \in Action, StepRaises(a) PROVE EpisodeInv'
    BY <2>4 DEF StepRaises
  <2>5. CASE UNCHANGED vars
    BY <2>5 DEF vars
  <2> QED
    BY <2>1, <2>2, <2>3, <2>4, <2>5 DEF Next
<1> QED
  BY <1>1, <1>2, TypeCorrect, PTL DEF Spec

(* Whatever an episode shows is equivalent to what it was asked (the       *)
(* promise of README.md:16 for one episode).                                *)
THEOREM EpisodeShowsEquivalent == Spec => []CurrentMeansInitial
BY EpisodeSound, PTL DEF EpisodeInv

(* What an episode offers was enumerated from what it shows                *)
(* (_observation_for, core.py:265).                                        *)
THEOREM EpisodeOffersCurrentActions == Spec => []ActionsAreCurrent
BY EpisodeSound, PTL DEF EpisodeInv
-----------------------------------------------------------------------------
(* An open episode can always be stepped, unless its task offered nothing  *)
(* (the guards of _active_episode, core.py:254-263, against the flags      *)
(* step() sets, core.py:229-235).                                          *)
THEOREM OpenEpisodeSteps == Spec => []OpenEpisodeCanStep
<1>1. Init => OpenEpisodeCanStep
  BY DEF Init, OpenEpisodeCanStep
<1>2. TypeOK /\ OpenEpisodeCanStep /\ [Next]_vars => OpenEpisodeCanStep'
  <2> SUFFICES ASSUME TypeOK, OpenEpisodeCanStep, [Next]_vars
               PROVE OpenEpisodeCanStep'
    OBVIOUS
  <2> USE DEF OpenEpisodeCanStep
  <2>1. ASSUME NEW t \in Task, Reset(t) PROVE OpenEpisodeCanStep'
    <3>1. MaxSteps[t] \in Nat \ {0}
      BY EnvironmentAssumption
    <3> QED
      BY <2>1, <3>1 DEF Reset, ObservationFor
  <2>2. ASSUME NEW a \in Action, StepRejected(a) PROVE OpenEpisodeCanStep'
    BY <2>2 DEF StepRejected
  <2>3. ASSUME NEW a \in Action, StepAccepted(a) PROVE OpenEpisodeCanStep'
    <3> DEFINE next == ObservationFor(task, Rewritten[obs.current][a], obs.step + 1)
    <3>1. MaxSteps[task] \in Nat /\ next.step \in Nat
      BY <2>3, ActiveType, EnvironmentAssumption DEF StepAccepted, ObservationFor
    <3>2. /\ obs' = next /\ task' = task
          /\ done' = \/ next.actions = {}
                     \/ next.step >= MaxSteps[task] /\ next.actions # {}
      BY <2>3 DEF StepAccepted, Terminates, Truncates
    <3> HIDE DEF next
    <3>3. ~done' => next.actions # {} /\ ~(next.step >= MaxSteps[task])
      BY <3>2, Zenon
    <3> QED
      BY <3>1, <3>2, <3>3
  <2>4. ASSUME NEW a \in Action, StepRaises(a) PROVE OpenEpisodeCanStep'
    BY <2>4 DEF StepRaises
  <2>5. CASE UNCHANGED vars
    BY <2>5 DEF vars
  <2> QED
    BY <2>1, <2>2, <2>3, <2>4, <2>5 DEF Next
<1> QED
  BY <1>1, <1>2, TypeCorrect, PTL DEF Spec

-----------------------------------------------------------------------------
(* The environment implements the certified rewriting session: a reset     *)
(* starts a session, a certified step rewrites, everything else stutters.  *)
THEOREM EnvironmentIsCertified == Spec => ImplementsCertifiedRewriting
<1> USE DEF Certified!Init, Certified!Start, Certified!Rewrite, Certified!Next, Certified!vars
<1>1. Init => Certified!Init
  BY DEF Init
<1>2. TypeOK /\ EpisodeInv /\ [Next]_vars => [Certified!Next]_(Certified!vars)
  <2> SUFFICES ASSUME TypeOK, EpisodeInv, [Next]_vars
               PROVE [Certified!Next]_(Certified!vars)
    OBVIOUS
  <2>1. ASSUME NEW t \in Task, Reset(t) PROVE Certified!Start
    <3>1. t # None /\ SqlOf[t] \in Query
      BY EnvironmentAssumption
    <3> QED
      BY <2>1, <3>1 DEF Reset, ObservationFor
  <2>2. ASSUME NEW a \in Action, StepRejected(a) PROVE UNCHANGED Certified!vars
    BY <2>2 DEF StepRejected
  <2>3. ASSUME NEW a \in Action, StepAccepted(a) PROVE Certified!Rewrite
    <3> DEFINE r == Rewritten[obs.current][a]
    <3>1. task # None /\ task' = task /\ obs'.current = r
      BY <2>3 DEF StepAccepted, ActiveEpisode, ObservationFor
    <3>2. r \in Query /\ <<obs.current, r>> \in Equiv[task]
      BY <2>3, EnvironmentAssumption DEF StepAccepted, Verdicts
    <3> QED
      BY <3>1, <3>2 DEF EpisodeInv, CurrentMeansInitial
  <2>4. ASSUME NEW a \in Action, StepRaises(a) PROVE UNCHANGED Certified!vars
    BY <2>4 DEF StepRaises
  <2>5. CASE UNCHANGED vars
    BY <2>5 DEF vars
  <2> QED
    BY <2>1, <2>2, <2>3, <2>4, <2>5 DEF Next
<1> QED
  BY <1>1, <1>2, TypeCorrect, EpisodeSound, PTL DEF Spec, ImplementsCertifiedRewriting, Certified!Spec
-----------------------------------------------------------------------------
(* A line of the log after a step is an older line or the step's own. *)
LEMMA RecordedLines ==
  ASSUME log \in Seq(Transition), NEW x \in Transition, Record(x), NEW i \in DOMAIN log'
  PROVE  (i \in DOMAIN log /\ log'[i] = log[i]) \/ log'[i] = x
<1>1. CASE log' = Append(log, x)
  <2>1. i \in 1 .. Len(log) + 1
    BY <1>1
  <2> QED
    BY <1>1, <2>1
<1>2. CASE log' = log
  BY <1>2
<1> QED
  BY <1>1, <1>2 DEF Record

(* What one line of the log promises of a task. *)
Certifies(t, line) ==
  /\ <<SqlOf[t], line.next>> \in Equiv[t]
  /\ line.status # "proven" => line.next = line.state /\ line.reward < 0

(* Recording a line that keeps the promise keeps it for the whole log. *)
LEMMA RecordCertified ==
  ASSUME TypeOK, LogIsCertified, task' = task,
         NEW x \in Transition, Record(x), Certifies(task, x)
  PROVE  LogIsCertified'
<1> SUFFICES ASSUME NEW i \in DOMAIN log' PROVE Certifies(task, log'[i])
  BY DEF LogIsCertified, Certifies
<1>1. (i \in DOMAIN log /\ log'[i] = log[i]) \/ log'[i] = x
  BY RecordedLines DEF TypeOK
<1> QED
  BY <1>1 DEF LogIsCertified, Certifies

(* The trajectory records only queries equivalent to the task's SQL as     *)
(* reached, whichever lines the recorder lost (trajectory.py:41-77).       *)
THEOREM TrajectoryCertified == Spec => []LogIsCertified
<1>1. Init => LogIsCertified
  BY DEF Init, LogIsCertified
<1>2. TypeOK /\ TypeOK' /\ EpisodeInv /\ LogIsCertified /\ [Next]_vars => LogIsCertified'
  <2> SUFFICES ASSUME TypeOK, EpisodeInv, LogIsCertified, [Next]_vars
               PROVE LogIsCertified'
    OBVIOUS
  <2>1. ASSUME NEW t \in Task, Reset(t) PROVE LogIsCertified'
    BY <2>1 DEF Reset, LogIsCertified
  <2>2. ASSUME NEW a \in Action, StepRejected(a) PROVE LogIsCertified'
    <3> DEFINE r == Rewritten[obs.current][a]
               line(s) ==
                 [step |-> obs.step, state |-> obs.current, action |-> a,
                  proposed |-> r, next |-> obs.current,
                  reward |-> VerificationFailureReward(s), status |-> s,
                  benchmark |-> FALSE, terminated |-> TRUE, truncated |-> FALSE]
    <3>1. obs.current \in Query /\ obs.step \in Nat /\ task # None
      BY <2>2, ActiveType DEF StepRejected, ActiveEpisode
    <3>2. r \in Query
      BY <2>2, <3>1, EnvironmentAssumption DEF StepRejected
    <3>3. PICK s \in Status : Record(line(s))
      BY <2>2 DEF StepRejected, Verdicts
    <3>4. line(s) \in Transition
      BY <3>1, <3>2, RewardType DEF Transition
    <3>5. Certifies(task, line(s))
      BY <3>1 DEF Certifies, EpisodeInv, CurrentMeansInitial, VerificationFailureReward
    <3> HIDE DEF line
    <3> QED
      BY <2>2, <3>3, <3>4, <3>5, RecordCertified DEF StepRejected
  <2>3. ASSUME NEW a \in Action, StepAccepted(a) PROVE LogIsCertified'
    <3> DEFINE r    == Rewritten[obs.current][a]
               next == ObservationFor(task, r, obs.step + 1)
               line(before, after) ==
                 [step |-> obs.step, state |-> obs.current, action |-> a,
                  proposed |-> r, next |-> r,
                  reward |-> PerformanceReward(before, after), status |-> "proven",
                  benchmark |-> Confident(before, after),
                  terminated |-> Terminates(next), truncated |-> Truncates(task, next)]
    <3>1. task \in Task /\ task # None /\ obs.current \in Query /\ obs.step \in Nat
      BY <2>3, ActiveType DEF StepAccepted, ActiveEpisode
    <3>2. r \in Query /\ "proven" \in Verdicts(task, obs.current, r)
      BY <2>3, EnvironmentAssumption DEF StepAccepted
    <3>3. PICK before \in Measurement, after \in Measurement : Record(line(before, after))
      BY <2>3 DEF StepAccepted
    <3>4. line(before, after) \in Transition
      BY <3>1, <3>2, RewardType DEF Transition, Status, Confident, Terminates, Truncates
    <3>5. <<SqlOf[task], r>> \in Equiv[task]
      BY <3>1, <3>2, CertifiedStep DEF EpisodeInv, CurrentMeansInitial
    <3>6. Certifies(task, line(before, after))
      BY <3>5 DEF Certifies
    <3> HIDE DEF line
    <3> QED
      BY <2>3, <3>3, <3>4, <3>6, RecordCertified DEF StepAccepted
  <2>4. ASSUME NEW a \in Action, StepRaises(a) PROVE LogIsCertified'
    BY <2>4 DEF StepRaises, LogIsCertified
  <2>5. CASE UNCHANGED vars
    BY <2>5 DEF vars, LogIsCertified
  <2> QED
    BY <2>1, <2>2, <2>3, <2>4, <2>5 DEF Next
<1> QED
  BY <1>1, <1>2, TypeCorrect, EpisodeSound, PTL DEF Spec

-----------------------------------------------------------------------------
(* What makes LogReplays inductive: the lines of an open episode are all   *)
(* of earlier steps, and an episode that has made no step stands where its *)
(* task began.                                                             *)
ReplayInv ==
  /\ LogReplays
  /\ task = None => log = <<>>
  /\ ~done => \A i \in DOMAIN log : log[i].step < obs.step
  /\ task # None /\ obs.step = 0 => obs.current = SqlOf[task]

(* A line that is appended, or lost, by a step of an open episode. *)
LEMMA RecordReplays ==
  ASSUME TypeOK, ReplayInv, ~done, task # None, NEW x \in Transition, Record(x),
         task' = task, obs' \in Observation, done' \in BOOLEAN,
         x.step = obs.step, x.state = obs.current, x.next = obs'.current,
         (x.terminated \/ x.truncated) => done',
         \/ obs' = obs /\ done'
         \/ obs'.step = obs.step + 1
  PROVE  ReplayInv'
<1>1. /\ log \in Seq(Transition) /\ Len(log) \in Nat /\ DOMAIN log = 1 .. Len(log)
      /\ obs \in Observation /\ obs.step \in Nat /\ obs'.step \in Nat
      /\ \A i \in DOMAIN log : log[i].step \in Nat
  <2>1. obs \in Observation /\ log \in Seq(Transition)
    BY DEF TypeOK
  <2>2. \A i \in DOMAIN log : log[i] \in Transition
    BY <2>1
  <2>3. \A y \in Transition : y.step \in Nat
    BY DEF Transition
  <2>4. obs.step \in Nat /\ obs'.step \in Nat
    BY <2>1 DEF Observation
  <2> QED BY <2>1, <2>2, <2>3, <2>4
<1>2. /\ \A i \in DOMAIN log : log[i].step < obs.step /\ ~ log[i].terminated /\ ~ log[i].truncated
      /\ \A i \in 1 .. Len(log) - 1 :
           /\ log[i].step < log[i + 1].step
           /\ log[i].step + 1 = log[i + 1].step => log[i].next = log[i + 1].state
      /\ log # <<>> =>
           /\ log[1].step = 0 => log[1].state = SqlOf[task]
           /\ \/ log[Len(log)].next = obs.current
              \/ log[Len(log)].step + 1 < obs.step
      /\ obs.step = 0 => obs.current = SqlOf[task]
  BY DEF ReplayInv, LogReplays
<1>3. obs'.step = 0 => obs'.current = SqlOf[task]
  BY <1>1, <1>2
<1>4. CASE log' = log
  <2>1. log # <<>> => Len(log) \in DOMAIN log
    BY <1>1
  <2>2. log # <<>> => \/ log[Len(log)].next = obs'.current
                      \/ log[Len(log)].step + 1 < obs'.step
    BY <1>1, <1>2, <2>1
  <2>3. LogReplays'
    BY <1>2, <1>4, <2>2 DEF LogReplays
  <2>4. \A i \in DOMAIN log : ~done' => log[i].step < obs'.step
    BY <1>1, <1>2
  <2> QED BY <1>3, <1>4, <2>3, <2>4 DEF ReplayInv
<1>5. CASE log' = Append(log, x)
  <2>1. /\ Len(log') = Len(log) + 1 /\ DOMAIN log' = 1 .. Len(log) + 1 /\ log' # <<>>
        /\ log'[Len(log) + 1] = x /\ \A i \in 1 .. Len(log) : log'[i] = log[i]
    BY <1>1, <1>5
  <2>2. ASSUME NEW i \in DOMAIN log', log'[i].terminated \/ log'[i].truncated
        PROVE  i = Len(log') /\ done'
    BY <1>1, <1>2, <2>1, <2>2
  <2> DEFINE n == Len(log)
  <2>3. ASSUME NEW i \in 1 .. n
        PROVE  /\ log'[i].step < log'[i + 1].step
               /\ log'[i].step + 1 = log'[i + 1].step => log'[i].next = log'[i + 1].state
    <3>1. CASE i = Len(log)
      <4>1. log'[i] = log[Len(log)] /\ log'[i + 1] = x /\ i \in DOMAIN log /\ log # <<>>
        BY <1>1, <2>1, <2>3, <3>1
      <4> QED BY <1>1, <1>2, <4>1
    <3>2. CASE i # Len(log)
      <4>0. n \in Nat /\ i # n
        BY <1>1, <3>2
      <4> HIDE DEF n
      <4>1. i \in 1 .. n - 1 /\ i \in 1 .. n /\ i + 1 \in 1 .. n
        BY <4>0, <2>3
      <4>2. log'[i] = log[i] /\ log'[i + 1] = log[i + 1]
        BY <2>1, <4>1 DEF n
      <4> QED BY <1>2, <4>1, <4>2 DEF n
    <3> QED BY <3>1, <3>2
  <2>4. log'[1].step = 0 => log'[1].state = SqlOf[task]
    <3>1. CASE log = <<>>
      <4>1. log'[1] = x
        BY <2>1, <3>1
      <4> QED BY <1>2, <4>1
    <3>2. CASE log # <<>>
      <4>1. log'[1] = log[1]
        BY <1>1, <2>1, <3>2
      <4> QED BY <1>2, <3>2, <4>1
    <3> QED BY <3>1, <3>2
  <2>5. log'[Len(log')].next = obs'.current
    BY <2>1
  <2>6. LogReplays'
    <3>1. 1 .. Len(log') - 1 = 1 .. n
      BY <1>1, <2>1
    <3> QED BY <2>2, <2>3, <2>4, <2>5, <3>1 DEF LogReplays
  <2>7. ASSUME ~done', NEW i \in DOMAIN log' PROVE log'[i].step < obs'.step
    BY <1>1, <1>2, <2>1, <2>7
  <2> QED BY <1>3, <2>6, <2>7 DEF ReplayInv
<1> QED BY <1>4, <1>5 DEF Record

LEMMA TrajectoryReplayInv == Spec => []ReplayInv
<1>1. Init => ReplayInv
  BY DEF Init, ReplayInv, LogReplays
<1>2. TypeOK /\ TypeOK' /\ ReplayInv /\ [Next]_vars => ReplayInv'
  <2> SUFFICES ASSUME TypeOK, TypeOK', ReplayInv, [Next]_vars PROVE ReplayInv'
    OBVIOUS
  <2>1. ASSUME NEW t \in Task, Reset(t) PROVE ReplayInv'
    BY <2>1 DEF Reset, ObservationFor, ReplayInv, LogReplays
  <2>2. ASSUME NEW a \in Action, StepRejected(a) PROVE ReplayInv'
    <3> DEFINE r == Rewritten[obs.current][a]
               line(s) ==
                 [step |-> obs.step, state |-> obs.current, action |-> a,
                  proposed |-> r, next |-> obs.current,
                  reward |-> VerificationFailureReward(s), status |-> s,
                  benchmark |-> FALSE, terminated |-> TRUE, truncated |-> FALSE]
    <3>1. obs \in Observation /\ obs.current \in Query /\ obs.step \in Nat
      BY <2>2, ActiveType DEF StepRejected
    <3>2. r \in Query
      BY <2>2, <3>1, EnvironmentAssumption DEF StepRejected
    <3>3. PICK s \in Status : Record(line(s)) /\ done'
      BY <2>2 DEF StepRejected, Verdicts
    <3>4. line(s) \in Transition
      BY <3>1, <3>2, RewardType DEF Transition
    <3>5. line(s).step = obs.step /\ line(s).state = obs.current /\ line(s).next = obs.current
      OBVIOUS
    <3>6. task' = task /\ obs' = obs /\ ~done /\ task # None
      BY <2>2 DEF StepRejected, ActiveEpisode
    <3> HIDE DEF line
    <3> QED BY <3>1, <3>3, <3>4, <3>5, <3>6, RecordReplays
  <2>3. ASSUME NEW a \in Action, StepAccepted(a) PROVE ReplayInv'
    <3> DEFINE r    == Rewritten[obs.current][a]
               next == ObservationFor(task, r, obs.step + 1)
               line(before, after) ==
                 [step |-> obs.step, state |-> obs.current, action |-> a,
                  proposed |-> r, next |-> r,
                  reward |-> PerformanceReward(before, after), status |-> "proven",
                  benchmark |-> Confident(before, after),
                  terminated |-> Terminates(next), truncated |-> Truncates(task, next)]
    <3>1. task \in Task /\ task # None /\ obs.current \in Query /\ obs.step \in Nat
      BY <2>3, ActiveType DEF StepAccepted, ActiveEpisode
    <3>2. r \in Query
      BY <2>3, EnvironmentAssumption DEF StepAccepted
    <3>3. PICK before \in Measurement, after \in Measurement : Record(line(before, after))
      BY <2>3 DEF StepAccepted
    <3>4. line(before, after) \in Transition
      BY <3>1, <3>2, RewardType DEF Transition, Status, Confident, Terminates, Truncates
    <3>5. /\ obs' = next /\ obs'.current = r /\ obs'.step = obs.step + 1 /\ task' = task /\ ~done
          /\ done' = (Terminates(next) \/ Truncates(task, next))
      BY <2>3 DEF StepAccepted, ActiveEpisode, ObservationFor
    <3>6. /\ line(before, after).step = obs.step /\ line(before, after).state = obs.current
          /\ line(before, after).next = r
          /\ line(before, after).terminated <=> Terminates(next)
          /\ line(before, after).truncated <=> Truncates(task, next)
      OBVIOUS
    <3>7. obs' \in Observation
      BY <3>1, <3>2, <3>5, ObservationForType
    <3>8. (line(before, after).terminated \/ line(before, after).truncated) => done'
      BY <3>5, <3>6
    <3>9. done' \in BOOLEAN
      BY DEF TypeOK
    <3> HIDE DEF line, next
    <3> QED BY <3>1, <3>3, <3>4, <3>5, <3>6, <3>7, <3>8, <3>9, RecordReplays
  <2>4. ASSUME NEW a \in Action, StepRaises(a) PROVE ReplayInv'
    BY <2>4 DEF StepRaises, ReplayInv, LogReplays
  <2>5. CASE UNCHANGED vars
    BY <2>5 DEF vars, ReplayInv, LogReplays
  <2> QED BY <2>1, <2>2, <2>3, <2>4, <2>5 DEF Next
<1> QED BY <1>1, <1>2, TypeCorrect, PTL DEF Spec

(* A trajectory replays, whichever of its lines were lost                  *)
(* (trajectory.py:41-77, core.py:229-246).                                 *)
THEOREM TrajectoryReplays == Spec => []LogReplays
BY TrajectoryReplayInv, PTL DEF ReplayInv

-----------------------------------------------------------------------------
(* The rewards of the state model telescope. *)
Rewards == [i \in DOMAIN log |-> log[i].reward]

TelescopeInv ==
  /\ task # None /\ ~done => Len(log) <= obs.step
  /\ FullyRecorded /\ FullyMeasured /\ log # <<>> =>
       /\ measured[SqlOf[task]] \in LogMs /\ measured[obs.current] \in LogMs
       /\ Total(Rewards) = 100 * (measured[SqlOf[task]] - measured[obs.current])

(* An entry of the measurement cache stays. *)
LEMMA EntryStays ==
  ASSUME NEW q \in Query, NEW r \in Query, NEW before \in Measurement, NEW after \in Measurement,
         measured \in [Query -> Measurement \cup {None}], RewardModel = "state",
         Benchmark(q, r, before, after)
  PROVE  /\ measured'[q] = before /\ measured'[r] = after
         /\ \A p \in Query : measured[p] # None => measured'[p] = measured[p]
BY DEF Benchmark

LEMMA MeasureAloneKeepsEntries ==
  ASSUME NEW q \in Query, NEW result,
         measured \in [Query -> Measurement \cup {None}], MeasureAlone(q, result)
  PROVE  \A p \in Query : measured[p] # None => measured'[p] = measured[p]
BY DEF MeasureAlone

LEMMA TelescopeStays ==
  ASSUME TypeOK, ReplayInv, TelescopeInv, UNCHANGED <<task, obs, log>>, done => done',
         \A p \in Query : measured[p] # None => measured'[p] = measured[p]
  PROVE  TelescopeInv'
<1>1. FullyRecorded => SqlOf[task] \in Query /\ obs.current \in Query
  BY EnvironmentAssumption DEF FullyRecorded, TypeOK, Observation
<1>2. (FullyRecorded' <=> FullyRecorded) /\ (FullyMeasured' <=> FullyMeasured)
  BY DEF FullyRecorded, FullyMeasured
<1>3. ASSUME FullyRecorded, FullyMeasured, log # <<>>
      PROVE  measured'[SqlOf[task]] = measured[SqlOf[task]]
             /\ measured'[obs.current] = measured[obs.current]
  BY <1>1, <1>3, EnvironmentAssumption DEF TelescopeInv
<1> QED BY <1>2, <1>3 DEF TelescopeInv, Rewards

(* One more line is one more reward. *)
LEMMA RewardsOfMore ==
  ASSUME log \in Seq(Transition), NEW x \in Transition, log' = Append(log, x)
  PROVE  Total(Rewards) \in Int /\ Total(Rewards') = Total(Rewards) + x.reward
<1> DEFINE n == Len(log)
<1>1. n \in Nat /\ DOMAIN log = 1 .. n /\ DOMAIN log' = 1 .. n + 1
      /\ log'[n + 1] = x /\ \A i \in 1 .. n : log'[i] = log[i]
  OBVIOUS
<1>2. \A y \in Transition : y.reward \in Int
  BY DEF Transition
<1>3. \A i \in 1 .. n : log[i] \in Transition
  BY <1>1
<1> HIDE DEF n
<1>4. Rewards = [i \in 1 .. n |-> log[i].reward] /\ Rewards' = [i \in 1 .. n + 1 |-> log'[i].reward]
  BY <1>1 DEF Rewards
<1>5. \A i \in 1 .. n + 1 : log'[i].reward \in Int
  <2> TAKE i \in 1 .. n + 1
  <2>1. i \in 1 .. n \/ i = n + 1
    BY <1>1
  <2> QED BY <1>1, <1>2, <1>3, <2>1
<1>6. Rewards \in [1 .. n -> Int] /\ Rewards' \in [1 .. n + 1 -> Int]
  BY <1>2, <1>3, <1>4, <1>5
<1>7. \A i \in 1 .. n : Rewards'[i] = Rewards[i]
  BY <1>1, <1>4
<1>8. Rewards'[n + 1] = x.reward
  BY <1>1, <1>4
<1> HIDE DEF Rewards
<1> QED BY <1>1, <1>6, <1>7, <1>8, TotalOfMore

LEMMA AcceptedTelescopes ==
  ASSUME TypeOK, ReplayInv, TelescopeInv, RewardModel = "state", task \in Task, ~done,
         NEW r \in Query, NEW before \in Measurement, NEW after \in Measurement,
         Benchmark(obs.current, r, before, after), NEW x \in Transition, Record(x),
         x.reward = PerformanceReward(before, after), x.benchmark => Confident(before, after),
         task' = task, obs' \in Observation, obs'.current = r, obs'.step = obs.step + 1
  PROVE  TelescopeInv'
<1> DEFINE q == SqlOf[task]
           c == obs.current
<1>1. /\ q \in Query /\ c \in Query /\ log \in Seq(Transition) /\ Len(log) \in Nat
      /\ obs.step \in Nat /\ task # None /\ measured \in [Query -> Measurement \cup {None}]
  <2>1. obs \in Observation
    BY EnvironmentAssumption DEF TypeOK
  <2> QED BY <2>1, EnvironmentAssumption DEF TypeOK, Observation
<1>2. Len(log) <= obs.step
  BY <1>1 DEF TelescopeInv
<1>3. Len(log') \in {Len(log), Len(log) + 1}
  BY <1>1 DEF Record
<1>4. /\ measured'[c] = before /\ measured'[r] = after
      /\ \A p \in Query : measured[p] # None => measured'[p] = measured[p]
  BY <1>1, EntryStays
<1>5. ASSUME FullyRecorded', FullyMeasured'
      PROVE  /\ measured'[q] \in LogMs /\ measured'[r] \in LogMs
             /\ Total(Rewards') = 100 * (measured'[q] - measured'[r])
  <2>1. log' = Append(log, x) /\ Len(log) = obs.step
    BY <1>1, <1>2, <1>5 DEF FullyRecorded, Record
  <2>2. /\ DOMAIN log' = 1 .. Len(log) + 1 /\ DOMAIN log = 1 .. Len(log)
        /\ log'[Len(log) + 1] = x /\ \A i \in DOMAIN log : log'[i] = log[i]
    BY <1>1, <2>1
  <2>3. x.benchmark
    <3>1. Len(log) + 1 \in DOMAIN log'
      BY <1>1, <2>2
    <3>2. log'[Len(log) + 1].benchmark
      BY <1>5, <3>1 DEF FullyMeasured
    <3> QED BY <2>2, <3>2
  <2>4. before \in LogMs /\ after \in LogMs /\ x.reward = 100 * (before - after)
    BY <2>3 DEF Confident, PerformanceReward, Measurement
  <2>5. Total(Rewards) \in Int /\ Total(Rewards') = Total(Rewards) + x.reward
    BY <1>1, <2>1, RewardsOfMore
  <2>6. LogMs \subseteq Int /\ None \notin LogMs
    BY EnvironmentAssumption
  <2>7. CASE log = <<>>
    <3>1. obs.step = 0
      BY <2>1, <2>7
    <3>2. q = c
      BY <1>1, <3>1 DEF ReplayInv
    <3>3. Rewards = <<>>
      BY <2>7 DEF Rewards
    <3>4. Total(Rewards) = 0
      BY <3>3, TotalOfNone
    <3> QED BY <1>4, <2>4, <2>5, <2>6, <3>2, <3>4
  <2>8. CASE log # <<>>
    <3>1. FullyRecorded
      BY <1>1, <2>1 DEF FullyRecorded
    <3>2. FullyMeasured
      <4> SUFFICES ASSUME NEW i \in DOMAIN log PROVE log[i].benchmark
        BY DEF FullyMeasured
      <4>1. i \in DOMAIN log' /\ log'[i] = log[i]
        BY <1>1, <2>2
      <4>2. log'[i].benchmark
        BY <1>5, <4>1 DEF FullyMeasured
      <4> QED BY <4>1, <4>2
    <3>3. /\ measured[q] \in LogMs /\ measured[c] \in LogMs
          /\ Total(Rewards) = 100 * (measured[q] - measured[c])
      BY <2>8, <3>1, <3>2 DEF TelescopeInv
    <3>4. measured'[q] = measured[q] /\ before = measured[c]
      BY <1>1, <1>4, <2>6, <3>3
    <3>5. \A l, m, n \in Int : 100 * (l - m) + 100 * (m - n) = 100 * (l - n)
      OBVIOUS
    <3>6. measured[q] \in Int /\ before \in Int /\ after \in Int
      BY <2>4, <2>6, <3>3
    <3> HIDE DEF Rewards, q, c
    <3>7. Total(Rewards') = 100 * (measured[q] - before) + 100 * (before - after)
      BY <2>4, <2>5, <3>3, <3>4
    <3>8. Total(Rewards') = 100 * (measured[q] - after)
      BY <3>5, <3>6, <3>7
    <3> QED BY <1>4, <2>4, <3>3, <3>4, <3>8
  <2> QED BY <2>7, <2>8
<1>6. Len(log') <= obs'.step
  BY <1>1, <1>2, <1>3
<1> QED BY <1>5, <1>6 DEF TelescopeInv

(* In the state model a fully measured episode earns the difference of the *)
(* medians of its two end queries, by whichever route and over however     *)
(* many episodes the entries were measured (core.py:383-397).              *)
THEOREM ReturnTelescopes == Spec => []ConfidentReturnIsStateDifference
<1>1. CASE RewardModel # "state"
  <2>1. ConfidentReturnIsStateDifference
    BY <1>1 DEF ConfidentReturnIsStateDifference
  <2> QED BY <2>1, PTL
<1>2. CASE RewardModel = "state"
  <2>1. Init => TelescopeInv
    BY DEF Init, TelescopeInv
  <2>2. TypeOK /\ TypeOK' /\ ReplayInv /\ TelescopeInv /\ [Next]_vars => TelescopeInv'
    <3> SUFFICES ASSUME TypeOK, TypeOK', ReplayInv, TelescopeInv, [Next]_vars
                 PROVE TelescopeInv'
      OBVIOUS
    <3>1. ASSUME NEW t \in Task, Reset(t) PROVE TelescopeInv'
      BY <3>1 DEF Reset, ObservationFor, TelescopeInv
    <3>2. ASSUME NEW a \in Action, StepRejected(a) PROVE TelescopeInv'
      <4>1. /\ UNCHANGED <<task, obs, measured>> /\ done' /\ task # None
            /\ obs.current \in Query /\ obs.step \in Nat
        BY <3>2, ActiveType DEF StepRejected, ActiveEpisode
      <4>2. \/ log' = log
            \/ \E x : log' = Append(log, x) /\ ~ x.benchmark
        BY <3>2 DEF StepRejected, Record
      <4>3. CASE log' = log
        BY <4>1, <4>3, TelescopeStays
      <4>4. CASE \E x : log' = Append(log, x) /\ ~ x.benchmark
        <5>1. PICK x : log' = Append(log, x) /\ ~ x.benchmark
          BY <4>4
        <5>2. Len(log) + 1 \in DOMAIN log' /\ log'[Len(log) + 1] = x
          BY <5>1 DEF TypeOK
        <5>3. ~ FullyMeasured'
          BY <5>1, <5>2 DEF FullyMeasured
        <5> QED BY <4>1, <5>3 DEF TelescopeInv
      <4> QED BY <4>2, <4>3, <4>4
    <3>3. ASSUME NEW a \in Action, StepAccepted(a) PROVE TelescopeInv'
      <4> DEFINE r    == Rewritten[obs.current][a]
                 next == ObservationFor(task, r, obs.step + 1)
                 line(before, after) ==
                   [step |-> obs.step, state |-> obs.current, action |-> a,
                    proposed |-> r, next |-> r,
                    reward |-> PerformanceReward(before, after), status |-> "proven",
                    benchmark |-> Confident(before, after),
                    terminated |-> Terminates(next), truncated |-> Truncates(task, next)]
      <4>1. task \in Task /\ ~done /\ obs.current \in Query /\ obs.step \in Nat
        BY <3>3, ActiveType DEF StepAccepted, ActiveEpisode
      <4>2. r \in Query
        BY <3>3, EnvironmentAssumption DEF StepAccepted
      <4>3. PICK before \in Measurement, after \in Measurement :
              Benchmark(obs.current, r, before, after) /\ Record(line(before, after))
        BY <3>3 DEF StepAccepted
      <4>4. line(before, after) \in Transition
        BY <4>1, <4>2, RewardType DEF Transition, Status, Confident, Terminates, Truncates
      <4>5. task' = task /\ obs' = next /\ obs'.current = r /\ obs'.step = obs.step + 1
        BY <3>3 DEF StepAccepted, ObservationFor
      <4>6. obs' \in Observation
        BY <4>1, <4>2, <4>5, ObservationForType
      <4>7. /\ line(before, after).reward = PerformanceReward(before, after)
            /\ line(before, after).benchmark <=> Confident(before, after)
        OBVIOUS
      <4> HIDE DEF line, next, r
      <4> QED BY <1>2, <4>1, <4>2, <4>3, <4>4, <4>5, <4>6, <4>7, AcceptedTelescopes
    <3>4. ASSUME NEW a \in Action, StepRaises(a) PROVE TelescopeInv'
      <4>1. obs.current \in Query /\ Rewritten[obs.current][a] \in Query
        BY <3>4, ActiveType, EnvironmentAssumption DEF StepRaises
      <4>2. measured \in [Query -> Measurement \cup {None}]
        BY DEF TypeOK
      <4>3. \A p \in Query : measured[p] # None => measured'[p] = measured[p]
        BY <1>2, <3>4, <4>1, <4>2, EntryStays, MeasureAloneKeepsEntries DEF StepRaises
      <4> QED BY <3>4, <4>3, TelescopeStays DEF StepRaises
    <3>5. CASE UNCHANGED vars
      BY <3>5, TelescopeStays DEF vars
    <3> QED BY <3>1, <3>2, <3>3, <3>4, <3>5 DEF Next
  <2>3. TelescopeInv => ConfidentReturnIsStateDifference
    BY DEF TelescopeInv, ConfidentReturnIsStateDifference, Return, Rewards
  <2> QED BY <2>1, <2>2, <2>3, TypeCorrect, TrajectoryReplayInv, PTL DEF Spec
<1> QED BY <1>1, <1>2

-----------------------------------------------------------------------------
(* The strategies.  First their order of the nodes.                        *)
(* A finite set has a least element in a total order, given as its pairs.  *)
LEMMA LeastExists ==
  ASSUME NEW S, IsFiniteSet(S), S # {}, NEW R,
         \A x, y \in S : <<x, y>> \in R \/ <<y, x>> \in R,
         \A x, y, z \in S : <<x, y>> \in R /\ <<y, z>> \in R => <<x, z>> \in R
  PROVE  \E x \in S : \A y \in S : <<x, y>> \in R
<1> DEFINE n == Cardinality(S)
           list == SetToSeq(S)
           Good == {k \in Nat : k \in 1 .. n =>
                      \E i \in 1 .. k : \A j \in 1 .. k : <<list[i], list[j]>> \in R}
<1>1. /\ n \in Nat /\ list \in [1 .. n -> S]
      /\ \A x \in S : \E i \in 1 .. n : list[i] = x
  BY SetAsList
<1> HIDE DEF n, list
<1>2. 0 \in Good
  OBVIOUS
<1>3. ASSUME NEW k \in Nat, k \in Good PROVE k + 1 \in Good
  <2> SUFFICES ASSUME k + 1 \in 1 .. n
               PROVE  \E i \in 1 .. k + 1 : \A j \in 1 .. k + 1 : <<list[i], list[j]>> \in R
    OBVIOUS
  <2>1. \A j \in 1 .. k + 1 : list[j] \in S
    BY <1>1
  <2>2. list[k + 1] \in S /\ <<list[k + 1], list[k + 1]>> \in R
    BY <1>1
  <2>3. CASE k = 0
    <3>1. \A j \in 1 .. k + 1 : j = k + 1
      BY <2>3
    <3>2. \A j \in 1 .. k + 1 : <<list[k + 1], list[j]>> \in R
      BY <2>2, <3>1
    <3> QED BY <3>2
  <2>4. CASE k # 0
    <3>0. k \in 1 .. n
      BY <1>1, <2>4
    <3>1. PICK i \in 1 .. k : \A j \in 1 .. k : <<list[i], list[j]>> \in R
      BY <1>3, <3>0
    <3>2. i \in 1 .. k + 1 /\ list[i] \in S /\ \A j \in 1 .. k + 1 : j \in 1 .. k \/ j = k + 1
      BY <2>1
    <3>3. CASE <<list[i], list[k + 1]>> \in R
      BY <3>1, <3>2, <3>3
    <3>4. CASE <<list[k + 1], list[i]>> \in R
      <4>1. \A j \in 1 .. k + 1 : <<list[k + 1], list[j]>> \in R
        BY <2>1, <2>2, <3>1, <3>2, <3>4
      <4> QED BY <4>1
    <3> QED BY <2>2, <3>2, <3>3, <3>4
  <2> QED BY <2>3, <2>4
<1> HIDE DEF Good
<1>4. n \in Good
  BY <1>1, <1>2, <1>3, Induction
<1>5. n \in 1 .. n
  BY <1>1
<1>6. PICK i \in 1 .. n : \A j \in 1 .. n : <<list[i], list[j]>> \in R
  BY <1>4, <1>5 DEF Good
<1> QED BY <1>1, <1>6

-----------------------------------------------------------------------------
(* The order of ties.                                                      *)
LEMMA PathsOrdered ==
  ASSUME NEW n \in Nat, NEW p \in [1 .. n -> Int], NEW r \in [1 .. n -> Int]
  PROVE  PathLeq(p, r) <=> \/ p = r
                           \/ \E i \in 1 .. n : p[i] < r[i] /\ \A k \in 1 .. i - 1 : p[k] = r[k]
<1>1. Len(p) = n /\ p \in Seq(Int) /\ r \in Seq(Int) /\ Len(r) = n
  OBVIOUS
<1>2. ASSUME NEW i \in 1 .. n
      PROVE  SubSeq(p, 1, i - 1) = SubSeq(r, 1, i - 1) <=> \A k \in 1 .. i - 1 : p[k] = r[k]
  <2>1. /\ SubSeq(p, 1, i - 1) = [k \in 1 .. i - 1 |-> p[k]]
        /\ SubSeq(r, 1, i - 1) = [k \in 1 .. i - 1 |-> r[k]]
    BY <1>1
  <2> QED BY <2>1
<1> QED BY <1>1, <1>2 DEF PathLeq

LEMMA PathsInOneOrder ==
  ASSUME NEW n \in Nat, NEW p \in [1 .. n -> Int], NEW r \in [1 .. n -> Int], NEW s \in [1 .. n -> Int]
  PROVE  /\ PathLeq(p, p)
         /\ PathLeq(p, r) \/ PathLeq(r, p)
         /\ PathLeq(p, r) /\ PathLeq(r, s) => PathLeq(p, s)
         /\ PathLeq(p, r) /\ PathLeq(r, p) => p = r
<1> DEFINE Under(a, b, i) == a[i] < b[i] /\ \A k \in 1 .. i - 1 : a[k] = b[k]
<1>1. \A a, b \in [1 .. n -> Int] :
        PathLeq(a, b) <=> a = b \/ \E i \in 1 .. n : Under(a, b, i)
  BY PathsOrdered
<1>2. PathLeq(p, p)
  BY <1>1
<1>3. PathLeq(p, r) \/ PathLeq(r, p)
  <2> DEFINE Apart == {i \in 1 .. n : p[i] # r[i]}
  <2>1. CASE Apart = {}
    <3>1. \A i \in 1 .. n : p[i] = r[i]
      BY <2>1
    <3>2. p = r
      BY <3>1
    <3> QED BY <1>1, <3>2
  <2>2. CASE Apart # {}
    <3>1. Apart \subseteq Nat
      OBVIOUS
    <3>2. PICK i \in Apart : \A j \in Apart : i <= j
      <4> HIDE DEF Apart
      <4> QED BY <2>2, <3>1, LeastNumber
    <3>3. i \in 1 .. n /\ p[i] # r[i] /\ \A k \in 1 .. i - 1 : p[k] = r[k]
      <4>1. i \in 1 .. n /\ p[i] # r[i]
        OBVIOUS
      <4>2. \A k \in 1 .. i - 1 : k \in 1 .. n /\ ~(i <= k)
        BY <4>1
      <4> QED BY <3>2, <4>1, <4>2
    <3>4. p[i] < r[i] \/ r[i] < p[i]
      BY <3>3
    <3>5. Under(p, r, i) \/ Under(r, p, i)
      BY <3>3, <3>4
    <3> QED BY <1>1, <3>3, <3>5
  <2> QED BY <2>1, <2>2
<1>4. ASSUME PathLeq(p, r), PathLeq(r, s) PROVE PathLeq(p, s)
  <2>1. CASE p = r \/ r = s
    BY <1>4, <2>1
  <2>2. CASE p # r /\ r # s
    <3>1. PICK i \in 1 .. n : Under(p, r, i)
      BY <1>1, <1>4, <2>2
    <3>2. PICK j \in 1 .. n : Under(r, s, j)
      BY <1>1, <1>4, <2>2
    <3>3. CASE i < j
      <4>1. Under(p, s, i)
        BY <3>1, <3>2, <3>3
      <4> QED BY <1>1, <4>1
    <3>4. CASE j < i
      <4>1. Under(p, s, j)
        BY <3>1, <3>2, <3>4
      <4> QED BY <1>1, <4>1
    <3>5. CASE i = j
      <4>1. Under(p, s, i)
        BY <3>1, <3>2, <3>5
      <4> QED BY <1>1, <4>1
    <3> QED BY <3>3, <3>4, <3>5
  <2> QED BY <2>1, <2>2
<1>5. ASSUME PathLeq(p, r), PathLeq(r, p), p # r PROVE FALSE
  <2>1. PICK i \in 1 .. n : Under(p, r, i)
    BY <1>1, <1>5
  <2>2. PICK j \in 1 .. n : Under(r, p, j)
    BY <1>1, <1>5
  <2>3. CASE i < j
    BY <2>1, <2>2, <2>3
  <2>4. CASE j < i
    BY <2>1, <2>2, <2>4
  <2>5. CASE i = j
    BY <2>1, <2>2, <2>5
  <2> QED BY <2>3, <2>4, <2>5
<1> QED BY <1>2, <1>3, <1>4, <1>5

LEMMA NodeIs ==
  ASSUME NEW n \in Nodes
  PROVE  /\ n.trail \in Seq(Edges) /\ IsList(n.trail) /\ Len(n.trail) \in Nat
         /\ n.query \in Sql /\ n.reward \in Int
         /\ Path(n) \in [1 .. Len(n.trail) -> Int]
         /\ EndpointRank(n) \in {0, 1}
         /\ \A i \in DOMAIN n.trail : n.trail[i] = <<n.trail[i][1], Path(n)[i]>>
<1>1. n.trail \in Seq(Edges) /\ n.query \in Sql /\ n.reward \in Int
  BY DEF Nodes
<1>2. DOMAIN n.trail = 1 .. Len(n.trail) /\ Len(n.trail) \in Nat /\ IsList(n.trail)
  BY <1>1, ListOf
<1>3. \A i \in DOMAIN n.trail : n.trail[i] = <<n.trail[i][1], n.trail[i][2]>> /\ n.trail[i][2] \in Int
  <2>1. TAKE i \in DOMAIN n.trail
  <2>2. n.trail[i] \in Edges
    BY <1>1
  <2>3. PICK q \in Sql : n.trail[i] \in {<<q, a>> : a \in ToSet(Offered[q])}
    BY <2>2 DEF Edges
  <2>4. PICK a \in ToSet(Offered[q]) : n.trail[i] = <<q, a>>
    BY <2>3
  <2>5. a \in Int
    BY <2>4, SearchAssumption DEF ToSet
  <2> QED BY <2>4, <2>5
<1>4. Path(n) \in [1 .. Len(n.trail) -> Int]
  BY <1>2, <1>3 DEF Path
<1> QED BY <1>1, <1>2, <1>3, <1>4 DEF Path, EndpointRank

LEMMA TiesInOneOrder ==
  ASSUME NEW n \in Nodes, NEW m \in Nodes, NEW k \in Nodes
  PROVE  /\ TieLeq(n, n)
         /\ TieLeq(n, m) \/ TieLeq(m, n)
         /\ TieLeq(n, m) /\ TieLeq(m, k) => TieLeq(n, k)
         /\ TieLeq(n, m) /\ TieLeq(m, n) => Path(n) = Path(m)
<1> DEFINE Lower(x, y) == \/ EndpointRank(x) < EndpointRank(y)
                          \/ EndpointRank(x) = EndpointRank(y) /\ Len(x.trail) < Len(y.trail)
           Alike(x, y) == EndpointRank(x) = EndpointRank(y) /\ Len(x.trail) = Len(y.trail)
<1>1. \A x, y : TieLeq(x, y) <=> Lower(x, y) \/ (Alike(x, y) /\ PathLeq(Path(x), Path(y)))
  BY DEF TieLeq
<1>2. \A x \in {n, m, k} : /\ Len(x.trail) \in Nat /\ EndpointRank(x) \in {0, 1}
                          /\ Path(x) \in [1 .. Len(x.trail) -> Int]
  BY NodeIs
<1>3. TieLeq(n, n)
  BY <1>1, <1>2, PathsInOneOrder
<1>4. TieLeq(n, m) \/ TieLeq(m, n)
  <2>1. Lower(n, m) \/ Lower(m, n) \/ (Alike(n, m) /\ Alike(m, n))
    BY <1>2
  <2>2. Alike(n, m) => PathLeq(Path(n), Path(m)) \/ PathLeq(Path(m), Path(n))
    BY <1>2, PathsInOneOrder
  <2> HIDE DEF Lower, Alike
  <2> QED BY <1>1, <2>1, <2>2
<1>5. ASSUME TieLeq(n, m), TieLeq(m, k) PROVE TieLeq(n, k)
  <2>1. CASE Lower(n, m) \/ Lower(m, k)
    <3>1. Lower(n, m) \/ Alike(n, m)
      BY <1>1, <1>5
    <3>2. Lower(m, k) \/ Alike(m, k)
      BY <1>1, <1>5
    <3>3. Lower(n, k)
      BY <1>2, <2>1, <3>1, <3>2
    <3> QED BY <1>1, <3>3
  <2>2. CASE ~Lower(n, m) /\ ~Lower(m, k)
    <3>1. /\ Alike(n, m) /\ PathLeq(Path(n), Path(m))
          /\ Alike(m, k) /\ PathLeq(Path(m), Path(k))
      BY <1>1, <1>5, <2>2
    <3>2. PathLeq(Path(n), Path(k))
      <4>1. Len(n.trail) = Len(m.trail) /\ Len(m.trail) = Len(k.trail)
        BY <3>1
      <4> QED BY <1>2, <3>1, <4>1, PathsInOneOrder
    <3>3. Alike(n, k)
      BY <3>1
    <3> QED BY <1>1, <3>2, <3>3
  <2> QED BY <2>1, <2>2
<1>6. ASSUME TieLeq(n, m), TieLeq(m, n) PROVE Path(n) = Path(m)
  <2>1. ~Lower(n, m) /\ ~Lower(m, n)
    <3>1. Lower(n, m) \/ Alike(n, m)
      BY <1>1, <1>6
    <3>2. Lower(m, n) \/ Alike(m, n)
      BY <1>1, <1>6
    <3> QED BY <1>2, <3>1, <3>2
  <2>2. Alike(n, m) /\ PathLeq(Path(n), Path(m)) /\ PathLeq(Path(m), Path(n))
    BY <1>1, <1>6, <2>1
  <2>3. Len(n.trail) = Len(m.trail)
    BY <2>2
  <2> QED BY <1>2, <2>2, <2>3, PathsInOneOrder
<1> QED BY <1>3, <1>4, <1>5, <1>6

IsSetting == setting \in [maxSteps : Nat \ {0}, margin : Nat, tie : {"shorter", "endpoint"}]

LEMMA LeadersAreSome ==
  ASSUME IsSetting, NEW S, IsFiniteSet(S), S # {}, S \subseteq Nodes
  PROVE  /\ Leaders(S) # {} /\ Leaders(S) \subseteq S /\ IsFiniteSet(Leaders(S))
         /\ \A n \in Leaders(S) : \A m \in S : m.reward <= n.reward + setting.margin
<1> DEFINE R == {p \in S \X S : p[2].reward <= p[1].reward}
<1>1. \A x \in S : x.reward \in Int
  BY NodeIs
<1>2. setting.margin \in Nat
  BY DEF IsSetting
<1>3. /\ \A x, y \in S : <<x, y>> \in R \/ <<y, x>> \in R
      /\ \A x, y, z \in S : <<x, y>> \in R /\ <<y, z>> \in R => <<x, z>> \in R
  BY <1>1
<1>4. PICK b \in S : \A y \in S : <<b, y>> \in R
  <2> HIDE DEF R
  <2> QED BY <1>3, LeastExists
<1>5. \A y \in S : y.reward <= b.reward
  BY <1>4
<1>6. b \in Leaders(S)
  BY <1>1, <1>2, <1>5 DEF Leaders
<1>7. Leaders(S) \subseteq S
  BY DEF Leaders
<1>8. \A n \in Leaders(S) : \A m \in S : m.reward <= n.reward + setting.margin
  BY <1>1, <1>2 DEF Leaders
<1> QED BY <1>6, <1>7, <1>8, FS_Subset

LEMMA BestIs ==
  ASSUME IsSetting, NEW S, IsFiniteSet(S), S # {}, S \subseteq Nodes
  PROVE  /\ Best(S) \in S
         /\ \A m \in S : m.reward <= Best(S).reward + setting.margin
<1> DEFINE L == Leaders(S)
           R == {p \in L \X L : TieLeq(p[1], p[2])}
<1>1. L # {} /\ L \subseteq S /\ IsFiniteSet(L) /\ L \subseteq Nodes
  BY LeadersAreSome
<1> HIDE DEF L
<1>2. /\ \A x, y \in L : <<x, y>> \in R \/ <<y, x>> \in R
      /\ \A x, y, z \in L : <<x, y>> \in R /\ <<y, z>> \in R => <<x, z>> \in R
  BY <1>1, TiesInOneOrder
<1>3. PICK b \in L : \A y \in L : <<b, y>> \in R
  <2> HIDE DEF R
  <2> QED BY <1>1, <1>2, LeastExists
<1>4. \A y \in L : TieLeq(b, y)
  BY <1>3
<1>5. Best(S) \in L
  BY <1>4 DEF Best, L
<1> QED BY <1>1, <1>5, LeadersAreSome DEF L

(* No two of the nodes have taken the same path.                           *)
OfDifferentPaths(S) == \A n, m \in S : Path(n) = Path(m) => n = m

IsRow(s) == \A i, j \in DOMAIN s : s[i] = s[j] => i = j

(* Each node is in one place.                                              *)
LEMMA TiesAreBroken ==
  ASSUME NEW S, IsFiniteSet(S), S \subseteq Nodes, OfDifferentPaths(S)
  PROVE  IsList(ByTies(S)) /\ Range(ByTies(S)) = S /\ IsRow(ByTies(S))
<1> DEFINE N == Cardinality(S)
           below(n) == {m \in S : TieLeq(m, n)}
           rank == [n \in S |-> Cardinality(below(n))]
<1>1. N \in Nat /\ Cardinality(1 .. N) = N /\ IsFiniteSet(1 .. N)
  <2>1. N \in Nat
    BY FS_CardinalityType
  <2> HIDE DEF N
  <2> QED BY <2>1, FS_Interval
<1>2. \A n \in S : IsFiniteSet(below(n)) /\ Cardinality(below(n)) \in 1 .. N
  <2>1. TAKE n \in S
  <2>2. below(n) \subseteq S /\ n \in below(n)
    BY TiesInOneOrder
  <2> HIDE DEF below
  <2>3. IsFiniteSet(below(n)) /\ Cardinality(below(n)) <= N
    BY <2>2, FS_Subset
  <2>4. Cardinality(below(n)) \in Nat /\ Cardinality(below(n)) # 0
    BY <2>2, <2>3, FS_CardinalityType, FS_EmptySet
  <2> QED BY <1>1, <2>3, <2>4
<1>3. ASSUME NEW n \in S, NEW m \in S, n # m, TieLeq(n, m)
      PROVE  Cardinality(below(n)) < Cardinality(below(m))
  <2>1. ~TieLeq(m, n)
    BY <1>3, TiesInOneOrder DEF OfDifferentPaths
  <2>2. below(n) \subseteq below(m) /\ m \in below(m) /\ m \notin below(n)
    BY <1>3, <2>1, TiesInOneOrder
  <2> HIDE DEF below, N
  <2>3. IsFiniteSet(below(m)) /\ Cardinality(below(m)) \in Nat /\ Cardinality(below(n)) \in Nat
    <3>1. 1 .. N \subseteq Nat
      BY <1>1
    <3> QED BY <1>2, <3>1
  <2>4. below(n) # below(m)
    BY <2>2
  <2> QED BY <2>2, <2>3, <2>4, FS_Subset
<1>4. \A n, m \in S : rank[n] = rank[m] => n = m
  <2>1. ASSUME NEW n \in S, NEW m \in S, n # m PROVE rank[n] # rank[m]
    <3>1. TieLeq(n, m) \/ TieLeq(m, n)
      BY TiesInOneOrder
    <3>2. rank[n] < rank[m] \/ rank[m] < rank[n]
      BY <1>3, <2>1, <3>1
    <3>3. rank[n] \in Int /\ rank[m] \in Int
      <4> HIDE DEF below, N
      <4>1. 1 .. N \subseteq Int
        BY <1>1
      <4> QED BY <1>2, <4>1
    <3> QED BY <3>2, <3>3
  <2> QED BY <2>1
<1>5. rank \in Injection(S, 1 .. N)
  <2>1. rank \in [S -> 1 .. N]
    <3> HIDE DEF below, N
    <3> QED BY <1>2
  <2> HIDE DEF rank, N
  <2> QED BY <1>4, <2>1 DEF Injection, IsInjective
<1>6. rank \in Surjection(S, 1 .. N)
  <2> HIDE DEF rank, N
  <2> QED BY <1>1, <1>5, FS_Injection DEF N
<1>7. \A i \in 1 .. N : \E n \in S : Cardinality(below(n)) = i
  BY <1>6 DEF Surjection
<1> DEFINE s == [i \in 1 .. N |-> CHOOSE n \in S : Cardinality(below(n)) = i]
<1>8. \A i \in 1 .. N : s[i] \in S /\ Cardinality(below(s[i])) = i
  <2> HIDE DEF below
  <2> QED BY <1>7
<1>9. ByTies(S) = s
  BY DEF ByTies
<1> HIDE DEF s
<1>10. s \in [1 .. N -> S]
  BY <1>8 DEF s
<1>11. s \in Seq(S) /\ DOMAIN s = 1 .. N
  BY <1>1, <1>10
<1>12. IsRow(s)
  <2> HIDE DEF below, N
  <2> QED BY <1>8, <1>11 DEF IsRow
<1>13. \A n \in S : \E i \in 1 .. N : s[i] = n
  <2>1. TAKE n \in S
  <2>2. rank[n] \in 1 .. N /\ s[rank[n]] \in S /\ rank[s[rank[n]]] = rank[n]
    BY <1>2, <1>8
  <2> HIDE DEF rank
  <2> QED BY <1>4, <2>2
<1>14. IsList(s) /\ Range(s) = S
  BY <1>11, <1>13, ListOf DEF Range
<1> QED BY <1>9, <1>12, <1>14

-----------------------------------------------------------------------------
(* What the proofs say of a search s, of the oracles' answers o and of the *)
(* settings m.                                                             *)

Searches ==
  [strategy : Rollouts \cup Selective, node : Nodes, frontier : Seq(Nodes),
   queue : Seq(Nodes \X Int), seen : SUBSET Nodes,
   known : UNION {[D -> Nodes] : D \in SUBSET Sql}, tried : SUBSET Nodes,
   explored : Int, early : BOOLEAN, cut : BOOLEAN, answer : Nodes \cup {Nothing, Failed}]

(* The node n is the end of a chain of proven rewrites from the root and   *)
(* one more step at most.                                                  *)
IsWalk(n, o) ==
  /\ n \in Nodes
  /\ Active(n) => Offered[n.query] # <<>>
  /\ n.trail = <<>> => n.query = Root /\ ~Raised(n)
  /\ n.trail # <<>> =>
       /\ n.trail[1][1] = Root
       /\ \A i \in 1 .. Len(n.trail) - 1 :
            o[n.trail[i]].kind = "proven" /\ n.trail[i + 1][1] = Target[n.trail[i]]
       /\ n.query = IF o[n.trail[Len(n.trail)]].kind = "proven"
                    THEN Target[n.trail[Len(n.trail)]] ELSE n.trail[Len(n.trail)][1]
       /\ Raised(n) <=> o[n.trail[Len(n.trail)]].kind = "raises"
       /\ Active(n) => o[n.trail[Len(n.trail)]].kind = "proven"

(* What a queue holds: a node to go on from and an action it offers.       *)
IsOption(p, o) ==
  /\ p \in Nodes \X Int
  /\ IsWalk(p[1], o) /\ Active(p[1]) /\ p[2] \in ToSet(Offered[p[1].query])

HoldsWalks(s, o) ==
  /\ s \in Searches
  /\ IsWalk(s.node, o)
  /\ \A i \in DOMAIN s.frontier : IsWalk(s.frontier[i], o)
  /\ \A i \in DOMAIN s.queue : IsOption(s.queue[i], o)
  /\ \A n \in s.seen \cup s.tried : IsWalk(n, o)
  /\ \A q \in DOMAIN s.known : s.known[q] \in s.seen
  /\ IsFiniteSet(s.seen) /\ RootNode \in s.seen
  /\ IsFiniteSet(s.tried)

(* A search fails at the first exception.                                  *)
Raises(s, o) == {x \in AskedBy(s) : o[x].kind = "raises"}
RaisesOnce(s, o) ==
  IF s.answer = Failed THEN \E x \in Edges : Raises(s, o) = {x} ELSE \A n \in s.tried : ~Raised(n)

(* No node is tried again.                                                 *)
WalksAhead(s) == \A n \in s.tried : Len(n.trail) <= Len(s.node.trail)

LooksAhead(s) ==
  /\ \E d \in Nat :
       /\ \A i \in DOMAIN s.frontier : Active(s.frontier[i]) => Len(s.frontier[i].trail) = d
       /\ \A n \in s.tried : Len(n.trail) <= d
  /\ \A i, j \in DOMAIN s.frontier : s.frontier[i].query = s.frontier[j].query => i = j

Pending(p) == Append(p[1].trail, <<p[1].query, p[2]>>)
Trails(s)  == {<<>>} \cup {n.trail : n \in s.tried}

QueuesAhead(s) ==
  /\ \A i, j \in DOMAIN s.queue : Pending(s.queue[i]) = Pending(s.queue[j]) => i = j
  /\ \A i \in DOMAIN s.queue :
       s.queue[i][1].trail \in Trails(s) /\ Pending(s.queue[i]) \notin Trails(s)
  /\ \A n \in s.tried : \E t \in Trails(s), x \in Edges : n.trail = Append(t, x)

Counted(s) ==
  s.answer # Failed =>
    /\ s.strategy \in Selective => s.explored = Cardinality(s.tried)
    /\ s.strategy = "exhaustive" =>
         s.explored <= MaxNodes /\ (s.cut => s.explored = MaxNodes /\ s.queue = <<>>)
    /\ s.answer = Nothing =>
         /\ s.strategy \in {"policy_baseline_abstain", "greedy"} => WalksAhead(s)
         /\ s.strategy = "beam" => LooksAhead(s)
         /\ s.strategy = "exhaustive" => QueuesAhead(s)

(* What was tried is not much better than what is kept.                    *)
Near(s, m) ==
  /\ s.answer = Nothing =>
       /\ s.strategy \in {"policy_baseline_abstain", "greedy"} =>
            \A n \in s.tried :
              n.reward <= s.node.reward + (IF Active(s.node) THEN m.margin ELSE 2 * m.margin)
       /\ s.strategy = "beam" /\ m.margin = 0 =>
            \A n \in s.tried : \E e \in s.seen : n.reward <= e.reward
       /\ s.strategy = "exhaustive" =>
            \A n \in s.tried : \E e \in s.seen : n.reward <= e.reward + m.margin
  /\ s.answer \notin {Nothing, Failed} /\ s.strategy \in Selective
       /\ (s.strategy = "beam" => m.margin = 0) =>
       \A n \in s.tried : n.reward <= s.answer.reward + 2 * m.margin

(* A node from which the search goes on when it can.                       *)
IsOpen(n, m) == Active(n) <=> Offered[n.query] # <<>> /\ Len(n.trail) < m.maxSteps

(* Something seen stands for a path that leads to the query q: no longer   *)
(* and, up to the margin, as good.                                         *)
StandsFor(e, q, length, reward, m) ==
  /\ IsOpen(e, m) /\ e.query = q
  /\ Len(e.trail) <= length /\ reward <= e.reward + m.margin

(* Exhaustive search covers what it has seen, shortest paths first.        *)
InTurn(s) ==
  /\ \A i, j \in DOMAIN s.queue : i <= j => Len(s.queue[i][1].trail) <= Len(s.queue[j][1].trail)
  /\ \A i \in DOMAIN s.queue : \A n \in s.seen : Len(n.trail) <= Len(s.queue[i][1].trail) + 1

KnowsTheBest(s, m) ==
  \A q \in DOMAIN s.known :
    \E e \in s.seen : /\ IsOpen(e, m) /\ e.query = q /\ s.known[q].query = q
                      /\ Len(e.trail) <= Len(s.known[q].trail)
                      /\ s.known[q].reward <= e.reward

IsCovered(e, a, s, o, m) ==
  \/ \E i \in DOMAIN s.queue : s.queue[i] = <<e, a>>
  \/ o[<<e.query, a>>].kind # "proven"
  \/ \E f \in s.seen : StandsFor(f, Target[<<e.query, a>>], Len(e.trail) + 1,
                                 e.reward + o[<<e.query, a>>].reward, m)

Covers(s, o, m) ==
  s.strategy = "exhaustive" /\ s.answer # Failed /\ ~s.cut =>
    /\ InTurn(s)
    /\ KnowsTheBest(s, m)
    /\ \A i \in DOMAIN s.queue : s.queue[i][1] \in s.seen /\ IsOpen(s.queue[i][1], m)
    /\ \A e \in s.seen : Active(e) => \A a \in ToSet(Offered[e.query]) : IsCovered(e, a, s, o, m)
    /\ s.answer # Nothing =>
         s.queue = <<>> /\ \A e \in s.seen : e.reward <= s.answer.reward + m.margin

SearchInv(s, o, m) ==
  /\ HoldsWalks(s, o)
  /\ RaisesOnce(s, o)
  /\ Counted(s)
  /\ Near(s, m)
  /\ Covers(s, o, m)

Results == Seq([strategy : Rollouts \cup Selective, status : {"ERROR", "COMPLETED"}, misses : Nat])

(* The inductive invariant of a corpus run.                                *)
CorpusInv ==
  /\ outcome \in [Edges -> Outcome]
  /\ IsSetting
  /\ results \in Results
  /\ cached \subseteq Edges /\ IsFiniteSet(cached)
  /\ \A x \in cached : outcome[x].kind # "raises"
  /\ MissesAreUniqueEdges
  /\ search # Nothing => SearchInv(search, outcome, setting)

-----------------------------------------------------------------------------
(* Walks.                                                                  *)
Oracles == outcome \in [Edges -> Outcome]

LEMMA OutcomeIs ==
  ASSUME Oracles, NEW x \in Edges
  PROVE  /\ outcome[x].kind \in {"proven", "rejected", "raises"} /\ outcome[x].reward \in Int
         /\ outcome[x].kind = "rejected" => outcome[x].reward <= 0
<1>1. outcome[x] \in Outcome
  BY DEF Oracles
<1>2. CASE outcome[x] \in [kind : {"proven", "raises"}, reward : Int]
  BY <1>2
<1>3. CASE outcome[x] \in [kind : {"rejected"}, reward : {r \in Int : r <= 0}]
  BY <1>3
<1> QED BY <1>1, <1>2, <1>3 DEF Outcome

LEMMA OfferedIs ==
  ASSUME NEW q \in Sql
  PROVE  /\ Offered[q] \in Seq(Int) /\ DOMAIN Offered[q] = 1 .. Len(Offered[q])
         /\ \A i, j \in DOMAIN Offered[q] : Offered[q][i] = Offered[q][j] => i = j
         /\ \A i \in DOMAIN Offered[q] : Offered[q][i] \in ToSet(Offered[q])
         /\ \A a \in ToSet(Offered[q]) :
              /\ a \in Int /\ <<q, a>> \in Edges /\ Target[<<q, a>>] \in Sql
              /\ \E i \in DOMAIN Offered[q] : Offered[q][i] = a
<1>1. Offered[q] \in Seq(Int)
  BY SearchAssumption
<1>2. \A a \in ToSet(Offered[q]) : <<q, a>> \in Edges
  BY DEF Edges
<1> QED BY <1>1, <1>2, SearchAssumption DEF ToSet

LEMMA RootIsWalk ==
  ASSUME NEW o
  PROVE  /\ RootNode \in Nodes /\ IsWalk(RootNode, o)
         /\ RootNode.trail = <<>> /\ RootNode.query = Root /\ RootNode.reward = 0
<1>1. RootNode \in Nodes
  BY SearchAssumption DEF RootNode, Node, Nodes
<1>2. RootNode.trail = <<>> /\ RootNode.query = Root /\ RootNode.reward = 0
      /\ RootNode.end = IF Offered[Root] = <<>> THEN "terminated" ELSE "open"
  BY DEF RootNode, Node
<1> QED BY <1>1, <1>2 DEF IsWalk, Raised, Active

(* One step more.                                                          *)
LEMMA LongerTrail ==
  ASSUME NEW t \in Seq(Edges), NEW x \in Edges
  PROVE  /\ Append(t, x) \in Seq(Edges) /\ Len(Append(t, x)) = Len(t) + 1 /\ Len(t) \in Nat
         /\ Append(t, x) # <<>>
         /\ Append(t, x)[Len(t) + 1] = x
         /\ \A i \in 1 .. Len(t) : Append(t, x)[i] = t[i]
OBVIOUS

LEMMA SameLongerTrail ==
  ASSUME NEW t \in Seq(Edges), NEW x \in Edges, NEW u \in Seq(Edges), NEW y \in Edges,
         Append(t, x) = Append(u, y)
  PROVE  t = u /\ x = y
<1>1. Len(t) = Len(u)
  BY LongerTrail
<1>2. x = y
  BY <1>1, LongerTrail
<1>3. \A i \in 1 .. Len(t) : t[i] = u[i]
  BY <1>1, LongerTrail
<1>4. t = u
  BY <1>1, <1>3
<1> QED BY <1>2, <1>4

LEMMA ChildIs ==
  ASSUME Oracles, IsSetting, NEW n, IsWalk(n, outcome), Active(n),
         NEW a \in ToSet(Offered[n.query]), NEW c, c = Child(n, a)
  PROVE  /\ <<n.query, a>> \in Edges
         /\ IsWalk(c, outcome)
         /\ c.trail = Append(n.trail, <<n.query, a>>) /\ Len(c.trail) = Len(n.trail) + 1
         /\ outcome[<<n.query, a>>].kind = "proven" =>
              /\ c.query = Target[<<n.query, a>>] /\ IsOpen(c, setting)
              /\ c.reward = n.reward + outcome[<<n.query, a>>].reward
         /\ outcome[<<n.query, a>>].kind # "proven" => c.query = n.query /\ ~Active(c)
         /\ outcome[<<n.query, a>>].kind = "rejected" => c.reward <= n.reward
         /\ Raised(c) <=> outcome[<<n.query, a>>].kind = "raises"
<1> DEFINE x == <<n.query, a>>
           t == Append(n.trail, x)
<1>1. n \in Nodes /\ n.trail \in Seq(Edges) /\ n.query \in Sql /\ n.reward \in Int
  BY NodeIs DEF IsWalk
<1>2. x \in Edges /\ Target[x] \in Sql /\ x[1] = n.query
  BY <1>1, OfferedIs
<1> HIDE DEF x
<1>3. t \in Seq(Edges) /\ Len(t) = Len(n.trail) + 1 /\ Len(n.trail) \in Nat /\ t # <<>>
      /\ t[Len(t)] = x /\ \A i \in 1 .. Len(n.trail) : t[i] = n.trail[i]
  BY <1>1, <1>2, LongerTrail
<1> HIDE DEF t
<1>4. /\ outcome[x].kind \in {"proven", "rejected", "raises"} /\ outcome[x].reward \in Int
      /\ outcome[x].kind = "rejected" => outcome[x].reward <= 0
  BY <1>2, OutcomeIs
<1>5. c = CASE outcome[x].kind = "proven"   -> Node(t, Target[x], n.reward + outcome[x].reward,
                                                    EndAt(Target[x], Len(t)))
            [] outcome[x].kind = "rejected" -> Node(t, n.query, n.reward + outcome[x].reward, "terminated")
            [] outcome[x].kind = "raises"   -> Node(t, n.query, n.reward, "raised")
  BY DEF Child, x, t
<1>6. /\ c.trail = t /\ c.query = IF outcome[x].kind = "proven" THEN Target[x] ELSE n.query
      /\ c.reward = IF outcome[x].kind = "raises" THEN n.reward ELSE n.reward + outcome[x].reward
      /\ c.end = IF outcome[x].kind = "proven" THEN EndAt(Target[x], Len(t))
                 ELSE IF outcome[x].kind = "rejected" THEN "terminated" ELSE "raised"
      /\ c = [trail |-> c.trail, query |-> c.query, reward |-> c.reward, end |-> c.end]
  <2>1. CASE outcome[x].kind = "proven"
    BY <1>5, <2>1 DEF Node
  <2>2. CASE outcome[x].kind = "rejected"
    BY <1>5, <2>2 DEF Node
  <2>3. CASE outcome[x].kind = "raises"
    BY <1>5, <2>3 DEF Node
  <2> QED BY <1>4, <2>1, <2>2, <2>3
<1>7. EndAt(Target[x], Len(t)) \in {"open", "terminated", "truncated"}
  BY DEF EndAt
<1>8. c \in Nodes
  BY <1>1, <1>2, <1>3, <1>4, <1>6, <1>7 DEF Nodes
<1>9. Raised(c) <=> outcome[x].kind = "raises"
  BY <1>4, <1>6, <1>7 DEF Raised
<1>10. outcome[x].kind = "proven" => IsOpen(c, setting)
  <2>1. setting.maxSteps \in Nat /\ Len(t) \in Nat
    BY <1>3 DEF IsSetting
  <2> QED BY <1>6, <2>1 DEF IsOpen, EndAt, Active
<1>11. outcome[x].kind # "proven" => ~Active(c)
  BY <1>6 DEF Active
<1>12. Active(c) => Offered[c.query] # <<>>
  BY <1>10, <1>11 DEF IsOpen
<1>13. t[1][1] = Root
  <2>1. CASE n.trail = <<>>
    BY <1>2, <1>3, <2>1 DEF IsWalk
  <2>2. CASE n.trail # <<>>
    <3>1. 1 \in 1 .. Len(n.trail)
      BY <1>1, <2>2
    <3> QED BY <1>3, <2>2, <3>1 DEF IsWalk
  <2> QED BY <2>1, <2>2
<1>14. ASSUME NEW i \in 1 .. Len(t) - 1
       PROVE  outcome[t[i]].kind = "proven" /\ t[i + 1][1] = Target[t[i]]
  <2>1. i \in 1 .. Len(n.trail) /\ n.trail # <<>> /\ t[i] = n.trail[i]
    BY <1>1, <1>3
  <2>2. CASE i = Len(n.trail)
    <3>1. outcome[n.trail[Len(n.trail)]].kind = "proven"
          /\ n.query = Target[n.trail[Len(n.trail)]]
      BY <2>1 DEF IsWalk
    <3>2. t[i + 1] = x
      BY <1>3, <2>2
    <3> QED BY <1>2, <2>1, <2>2, <3>1, <3>2
  <2>3. CASE i # Len(n.trail)
    <3>1. i \in 1 .. Len(n.trail) - 1 /\ i + 1 \in 1 .. Len(n.trail)
      BY <1>3, <2>1, <2>3
    <3>2. t[i + 1] = n.trail[i + 1]
      BY <1>3, <3>1
    <3> QED BY <2>1, <3>1, <3>2 DEF IsWalk
  <2> QED BY <2>2, <2>3
<1>15. IsWalk(c, outcome)
  BY <1>2, <1>3, <1>6, <1>8, <1>9, <1>11, <1>12, <1>13, <1>14 DEF IsWalk
<1> QED BY <1>1, <1>2, <1>3, <1>4, <1>6, <1>9, <1>10, <1>11, <1>15 DEF x, t

LEMMA ChildrenAre ==
  ASSUME Oracles, IsSetting, NEW n, IsWalk(n, outcome), Active(n)
  PROVE  /\ IsList(Children(n)) /\ Children(n) # <<>> /\ DOMAIN Children(n) = DOMAIN Offered[n.query]
         /\ \A i \in DOMAIN Children(n) :
              /\ Offered[n.query][i] \in ToSet(Offered[n.query])
              /\ Children(n)[i] = Child(n, Offered[n.query][i])
         /\ IsRow(Children(n))
         /\ \A c \in Range(Children(n)) : /\ IsWalk(c, outcome)
                                          /\ \E x \in Edges : c.trail = Append(n.trail, x)
                                          /\ Len(c.trail) = Len(n.trail) + 1
<1> DEFINE s == Children(n)
           q == n.query
<1>1. q \in Sql /\ n.trail \in Seq(Edges)
  BY NodeIs DEF IsWalk
<1> HIDE DEF q
<1>2. /\ DOMAIN Offered[q] = 1 .. Len(Offered[q]) /\ Len(Offered[q]) \in Nat
      /\ \A i \in DOMAIN Offered[q] : Offered[q][i] \in ToSet(Offered[q])
      /\ \A i, j \in DOMAIN Offered[q] : Offered[q][i] = Offered[q][j] => i = j
      /\ \A a \in ToSet(Offered[q]) : <<q, a>> \in Edges
  BY <1>1, OfferedIs
<1>3. s = [i \in DOMAIN Offered[q] |-> Child(n, Offered[q][i])]
  BY DEF Children, q
<1> HIDE DEF s
<1>4. DOMAIN s = DOMAIN Offered[q] /\ DOMAIN s = 1 .. Len(Offered[q])
      /\ \A i \in DOMAIN s : s[i] = Child(n, Offered[q][i])
  BY <1>2, <1>3
<1>5. \A i \in DOMAIN s : s[i].trail = Append(n.trail, <<q, Offered[q][i]>>) /\ IsWalk(s[i], outcome)
                        /\ Len(s[i].trail) = Len(n.trail) + 1
  <2>1. TAKE i \in DOMAIN s
  <2> DEFINE a == Offered[q][i]
  <2>2. a \in ToSet(Offered[q]) /\ s[i] = Child(n, a)
    BY <1>2, <1>4
  <2> HIDE DEF a
  <2>3. s[i].trail = Append(n.trail, <<q, a>>) /\ IsWalk(s[i], outcome)
        /\ Len(s[i].trail) = Len(n.trail) + 1
    BY <2>2, ChildIs DEF q
  <2> QED BY <2>3 DEF a
<1>6. IsRow(s)
  <2>1. ASSUME NEW i \in DOMAIN s, NEW j \in DOMAIN s, s[i] = s[j] PROVE i = j
    <3>1. <<q, Offered[q][i]>> = <<q, Offered[q][j]>>
      BY <1>1, <1>2, <1>4, <1>5, <2>1, SameLongerTrail
    <3> QED BY <1>2, <1>4, <3>1
  <2> QED BY <2>1 DEF IsRow
<1>7. s \in Seq(Range(s)) /\ Len(s) = Len(Offered[q])
  <2>1. \A i \in DOMAIN s : s[i] \in Range(s)
    BY DEF Range
  <2>2. s = [i \in 1 .. Len(Offered[q]) |-> s[i]]
    BY <1>3, <1>4
  <2>3. s \in [1 .. Len(Offered[q]) -> Range(s)]
    BY <1>4, <2>1, <2>2
  <2> QED BY <1>2, <2>3
<1>8. s # <<>>
  <2>1. Offered[q] # <<>>
    BY DEF IsWalk, q
  <2>2. Len(Offered[q]) # 0
    BY <1>1, <2>1, OfferedIs
  <2> QED BY <1>7, <2>2
<1>9. \A c \in Range(s) : \E i \in DOMAIN s : c = s[i]
  BY DEF Range
<1>10. \A c \in Range(s) : IsWalk(c, outcome) /\ (\E x \in Edges : c.trail = Append(n.trail, x))
                         /\ Len(c.trail) = Len(n.trail) + 1
  <2>1. TAKE c \in Range(s)
  <2>2. PICK i \in DOMAIN s : c = s[i]
    BY <1>9
  <2>3. <<q, Offered[q][i]>> \in Edges
    BY <1>2, <1>4
  <2> QED BY <1>5, <2>2, <2>3
<1> QED BY <1>2, <1>4, <1>6, <1>7, <1>8, <1>10 DEF s, q, IsList

(* The same actions lead along the same pairs to the same query.           *)
LEMMA PathTellsQuery ==
  ASSUME NEW o, NEW n, NEW m, IsWalk(n, o), IsWalk(m, o), Path(n) = Path(m)
  PROVE  n.trail = m.trail /\ n.query = m.query
<1> DEFINE k == Len(n.trail)
           Good == {i \in Nat : i + 1 \in 1 .. k => n.trail[i + 1] = m.trail[i + 1]}
<1>1. /\ n.trail \in Seq(Edges) /\ m.trail \in Seq(Edges)
      /\ DOMAIN Path(n) = 1 .. Len(n.trail) /\ DOMAIN Path(m) = 1 .. Len(m.trail)
      /\ \A i \in DOMAIN n.trail : n.trail[i] = <<n.trail[i][1], Path(n)[i]>>
      /\ \A i \in DOMAIN m.trail : m.trail[i] = <<m.trail[i][1], Path(m)[i]>>
  BY NodeIs DEF IsWalk
<1>2. Len(m.trail) = k /\ k \in Nat /\ DOMAIN n.trail = 1 .. k /\ DOMAIN m.trail = 1 .. k
  <2>1. Len(n.trail) \in Nat /\ Len(m.trail) \in Nat
    BY <1>1
  <2>2. 1 .. Len(n.trail) = 1 .. Len(m.trail)
    BY <1>1
  <2>3. Len(n.trail) = Len(m.trail)
    BY <2>1, <2>2
  <2> QED BY <1>1, <2>1, <2>3
<1> HIDE DEF k
<1>3. \A i \in 1 .. k : n.trail[i][1] = m.trail[i][1] => n.trail[i] = m.trail[i]
  BY <1>1, <1>2
<1>4. 0 \in Good
  <2>1. ASSUME 1 \in 1 .. k PROVE n.trail[1] = m.trail[1]
    <3>1. n.trail # <<>> /\ m.trail # <<>>
      BY <1>1, <1>2, <2>1
    <3>2. n.trail[1][1] = Root /\ m.trail[1][1] = Root
      BY <3>1 DEF IsWalk
    <3> QED BY <1>3, <2>1, <3>2
  <2> QED BY <2>1
<1>5. ASSUME NEW i \in Nat, i \in Good PROVE i + 1 \in Good
  <2>1. ASSUME i + 1 + 1 \in 1 .. k PROVE n.trail[i + 1 + 1] = m.trail[i + 1 + 1]
    <3>1. i + 1 \in 1 .. k - 1 /\ i + 1 \in 1 .. k /\ n.trail # <<>> /\ m.trail # <<>>
      BY <1>1, <1>2, <2>1
    <3>2. n.trail[i + 1] = m.trail[i + 1]
      BY <1>5, <3>1
    <3>3. n.trail[i + 1 + 1][1] = Target[n.trail[i + 1]] /\ m.trail[i + 1 + 1][1] = Target[m.trail[i + 1]]
      BY <1>2, <3>1 DEF IsWalk, k
    <3> QED BY <1>3, <2>1, <3>2, <3>3
  <2> QED BY <2>1
<1>6. Nat \subseteq Good
  <2> HIDE DEF Good
  <2> QED BY <1>4, <1>5, Induction
<1>7. ASSUME NEW i \in 1 .. k PROVE n.trail[i] = m.trail[i]
  <2>1. i - 1 \in Nat /\ (i - 1) + 1 = i
    BY <1>2
  <2>2. i - 1 \in Good
    BY <1>6, <2>1
  <2> QED BY <2>1, <2>2
<1>8. n.trail = m.trail
  BY <1>1, <1>2, <1>7
<1>9. n.query = m.query
  BY <1>8 DEF IsWalk
<1> QED BY <1>8, <1>9

LEMMA QueriesTellPaths ==
  ASSUME NEW o, NEW S, \A n \in S : IsWalk(n, o), \A n, m \in S : n.query = m.query => n = m
  PROVE  OfDifferentPaths(S)
BY PathTellsQuery DEF OfDifferentPaths

-----------------------------------------------------------------------------
(* Rows.                                                                   *)
LEMMA ListIsFinite ==
  ASSUME NEW s, IsList(s)
  PROVE  IsFiniteSet(Range(s))
<1>1. s \in [1 .. Len(s) -> Range(s)] /\ Len(s) \in Nat /\ DOMAIN s = 1 .. Len(s)
  BY DEF IsList, Range
<1>2. IsFiniteSet(1 .. Len(s))
  BY <1>1, FS_Interval
<1>3. s \in Surjection(1 .. Len(s), Range(s))
  BY <1>1 DEF Surjection, Range
<1> QED BY <1>2, <1>3, FS_Surjection

LEMMA RowLength ==
  ASSUME NEW s, IsList(s), IsRow(s)
  PROVE  IsFiniteSet(Range(s)) /\ Cardinality(Range(s)) = Len(s) /\ Len(s) \in Nat
<1> DEFINE N == Len(s)
<1>1. N \in Nat /\ DOMAIN s = 1 .. N /\ s \in [1 .. N -> Range(s)]
      /\ \A x \in Range(s) : \E i \in DOMAIN s : s[i] = x
  BY DEF IsList, Range
<1> HIDE DEF N
<1>2. IsFiniteSet(1 .. N) /\ Cardinality(1 .. N) = N
  <2>1. N \in Nat
    BY <1>1
  <2> QED BY <2>1, FS_Interval
<1>3. s \in Bijection(1 .. N, Range(s))
  BY <1>1 DEF IsRow, Bijection, Injection, Surjection, IsInjective
<1>4. ExistsBijection(1 .. N, Range(s))
  BY <1>3 DEF ExistsBijection
<1> QED BY <1>1, <1>2, <1>4, FS_Bijection DEF N

LEMMA RowsTogether ==
  ASSUME NEW s, NEW t, IsList(s), IsList(t), IsRow(s), IsRow(t), Range(s) \cap Range(t) = {}
  PROVE  IsRow(s \o t)
<1>1. s \in Seq(Range(s)) /\ t \in Seq(Range(t))
  BY DEF IsList
<1>2. Len(s) \in Nat /\ Len(t) \in Nat /\ DOMAIN s = 1 .. Len(s) /\ DOMAIN t = 1 .. Len(t)
      /\ DOMAIN (s \o t) = 1 .. Len(s) + Len(t)
      /\ \A i \in 1 .. Len(s) + Len(t) : (s \o t)[i] = IF i <= Len(s) THEN s[i] ELSE t[i - Len(s)]
  BY <1>1
<1>3. /\ \A i \in 1 .. Len(s) : s[i] \in Range(s)
      /\ \A i \in 1 .. Len(t) : t[i] \in Range(t)
  BY <1>2 DEF Range
<1>4. ASSUME NEW i \in 1 .. Len(s) + Len(t), NEW j \in 1 .. Len(s) + Len(t), (s \o t)[i] = (s \o t)[j]
      PROVE  i = j
  <2>1. CASE i <= Len(s) /\ j <= Len(s)
    <3>1. s[i] = s[j] /\ i \in DOMAIN s /\ j \in DOMAIN s
      BY <1>2, <1>4, <2>1
    <3> QED BY <3>1 DEF IsRow
  <2>2. CASE i > Len(s) /\ j > Len(s)
    <3>1. t[i - Len(s)] = t[j - Len(s)] /\ i - Len(s) \in DOMAIN t /\ j - Len(s) \in DOMAIN t
      BY <1>2, <1>4, <2>2
    <3>2. i - Len(s) = j - Len(s)
      BY <3>1 DEF IsRow
    <3> QED BY <1>2, <3>2
  <2>3. CASE i <= Len(s) /\ j > Len(s)
    <3>1. i \in 1 .. Len(s) /\ j - Len(s) \in 1 .. Len(t) /\ s[i] = t[j - Len(s)]
      BY <1>2, <1>4, <2>3
    <3> QED BY <1>3, <3>1
  <2>4. CASE i > Len(s) /\ j <= Len(s)
    <3>1. j \in 1 .. Len(s) /\ i - Len(s) \in 1 .. Len(t) /\ s[j] = t[i - Len(s)]
      BY <1>2, <1>4, <2>4
    <3> QED BY <1>3, <3>1
  <2> QED BY <1>2, <2>1, <2>2, <2>3, <2>4
<1> QED BY <1>2, <1>4 DEF IsRow

LEMMA FlattenRow ==
  ASSUME NEW seqs, IsList(seqs), \A i \in DOMAIN seqs : IsList(seqs[i]) /\ IsRow(seqs[i]),
         \A i, j \in DOMAIN seqs : i # j => Range(seqs[i]) \cap Range(seqs[j]) = {}
  PROVE  IsRow(FlattenSeq(seqs))
<1>1. seqs \in Seq(Range(seqs)) /\ Len(seqs) \in Nat /\ DOMAIN seqs = 1 .. Len(seqs)
  BY DEF IsList
<1>2. CASE Len(seqs) = 0
  <2>1. seqs = <<>> /\ FlattenSeq(seqs) = seqs
    BY <1>1, <1>2 DEF FlattenSeq
  <2> QED BY <2>1 DEF IsRow
<1>3. CASE Len(seqs) # 0
  <2> DEFINE flat == CHOOSE flat : Flattening(seqs, flat, Len(seqs))
             Good == {n \in Nat : n \in 1 .. Len(seqs) =>
                        /\ IsList(flat[n]) /\ IsRow(flat[n])
                        /\ \A x \in Range(flat[n]) : \E i \in 1 .. n : x \in Range(seqs[i])}
  <2>1. Flattening(seqs, flat, Len(seqs))
    BY <1>1, FlatteningExists
  <2>2. FlattenSeq(seqs) = flat[Len(seqs)]
    BY <1>3 DEF FlattenSeq, Flattening
  <2> HIDE DEF flat
  <2>3. \A i \in 1 .. Len(seqs) : flat[i] = IF i = 1 THEN seqs[i] ELSE flat[i - 1] \o seqs[i]
    BY <2>1 DEF Flattening
  <2>4. 0 \in Good
    OBVIOUS
  <2>5. ASSUME NEW n \in Nat, n \in Good PROVE n + 1 \in Good
    <3> SUFFICES ASSUME n + 1 \in 1 .. Len(seqs)
                 PROVE  /\ IsList(flat[n + 1]) /\ IsRow(flat[n + 1])
                        /\ \A x \in Range(flat[n + 1]) : \E i \in 1 .. n + 1 : x \in Range(seqs[i])
      OBVIOUS
    <3>1. CASE n = 0
      <4>1. flat[n + 1] = seqs[1] /\ 1 \in DOMAIN seqs /\ 1 \in 1 .. n + 1
        BY <1>1, <2>3, <3>1
      <4> QED BY <4>1
    <3>2. CASE n # 0
      <4>1. n \in 1 .. Len(seqs) /\ n + 1 \in DOMAIN seqs
        BY <1>1, <3>2
      <4>2. IsList(flat[n]) /\ IsRow(flat[n])
            /\ \A x \in Range(flat[n]) : \E i \in 1 .. n : x \in Range(seqs[i])
        BY <2>5, <4>1
      <4> DEFINE m == n + 1
      <4>3. m \in 1 .. Len(seqs) /\ m # 1 /\ m - 1 = n /\ m \in DOMAIN seqs
        BY <3>2, <4>1
      <4>4. \A i \in 1 .. n : i \in DOMAIN seqs /\ i # m /\ i \in 1 .. m
        BY <1>1, <4>1
      <4>5. m \in 1 .. m
        BY <3>2
      <4> HIDE DEF m
      <4>6. flat[m] = flat[n] \o seqs[m]
        BY <2>3, <4>3
      <4>7. IsList(seqs[m]) /\ IsRow(seqs[m])
        BY <4>3
      <4>8. Range(flat[n]) \cap Range(seqs[m]) = {}
        <5>1. ASSUME NEW x \in Range(flat[n]) PROVE x \notin Range(seqs[m])
          <6>1. PICK i \in 1 .. n : x \in Range(seqs[i])
            BY <4>2
          <6>2. i \in DOMAIN seqs /\ i # m
            BY <4>4
          <6>3. Range(seqs[i]) \cap Range(seqs[m]) = {}
            BY <4>3, <6>2
          <6> QED BY <6>1, <6>3
        <5> QED BY <5>1
      <4>9. IsList(flat[m]) /\ IsRow(flat[m]) /\ Range(flat[m]) = Range(flat[n]) \cup Range(seqs[m])
        BY <4>2, <4>6, <4>7, <4>8, ListsTogether, RowsTogether
      <4>10. \A x \in Range(flat[m]) : \E i \in 1 .. m : x \in Range(seqs[i])
        BY <4>2, <4>4, <4>5, <4>9
      <4> QED BY <4>9, <4>10 DEF m
    <3> QED BY <3>1, <3>2
  <2> HIDE DEF Good
  <2>6. Len(seqs) \in Good
    BY <1>1, <2>4, <2>5, Induction
  <2>7. IsRow(flat[Len(seqs)])
    BY <1>1, <1>3, <2>6 DEF Good
  <2> QED BY <2>2, <2>7
<1> QED BY <1>2, <1>3

(* The beginning of a row is a row.                                        *)
LEMMA FirstOfRow ==
  ASSUME NEW s, IsList(s), IsRow(s), NEW k \in 0 .. Len(s), NEW t, t = SubSeq(s, 1, k)
  PROVE  /\ IsList(t) /\ Len(t) = k /\ DOMAIN t = 1 .. k /\ Range(t) \subseteq Range(s) /\ IsRow(t)
         /\ \A i \in 1 .. k : t[i] = s[i]
<1>1. s \in Seq(Range(s)) /\ Len(s) \in Nat /\ DOMAIN s = 1 .. Len(s) /\ k \in Nat /\ k <= Len(s)
  BY DEF IsList
<1>2. Len(t) = k /\ DOMAIN t = 1 .. k /\ \A i \in 1 .. k : t[i] = s[i]
  BY <1>1
<1>3. \A i \in 1 .. k : i \in DOMAIN s /\ s[i] \in Range(s)
  BY <1>1 DEF Range
<1>4. Range(t) \subseteq Range(s)
  BY <1>2, <1>3 DEF Range
<1>5. t \in Seq(Range(s))
  BY <1>1
<1>6. IsList(t)
  BY <1>5, ListOf
<1>7. IsRow(t)
  BY <1>2, <1>3 DEF IsRow
<1> QED BY <1>2, <1>4, <1>6, <1>7

-----------------------------------------------------------------------------
(* Ranking.                                                                *)
Ranking(S, f, n) ==
  f = [k \in 0 .. n |->
         IF k = 0 THEN <<>>
         ELSE LET sofar == f[k - 1] IN sofar \o ByTies(Leaders(S \ ToSet(sofar)))]

LEMMA RankingExists ==
  ASSUME NEW S, NEW n \in Nat
  PROVE  \E f : Ranking(S, f, n)
<1> DEFINE Longer(sofar) == sofar \o ByTies(Leaders(S \ ToSet(sofar)))
           Good == {m \in Nat : \E f : Ranking(S, f, m)}
<1>1. 0 \in Good
  <2>1. Ranking(S, [i \in 0 .. 0 |-> <<>>], 0)
    BY DEF Ranking
  <2> QED BY <2>1
<1>2. ASSUME NEW m \in Nat, m \in Good PROVE m + 1 \in Good
  <2>1. PICK f : Ranking(S, f, m)
    BY <1>2
  <2>a. f = [k \in 0 .. m |-> IF k = 0 THEN <<>> ELSE Longer(f[k - 1])]
    BY <2>1 DEF Ranking
  <2> HIDE DEF Longer
  <2> DEFINE more == [i \in 0 .. m + 1 |-> IF i <= m THEN f[i] ELSE Longer(f[i - 1])]
  <2>2. \A i \in 0 .. m : f[i] = IF i = 0 THEN <<>> ELSE Longer(f[i - 1])
    BY <2>a
  <2>3. \A i \in 0 .. m : more[i] = f[i]
    OBVIOUS
  <2>4. more[m + 1] = Longer(more[m])
    BY <2>3
  <2>5. more = [i \in 0 .. m + 1 |-> more[i]]
    OBVIOUS
  <2> HIDE DEF more
  <2>6. \A i \in 0 .. m + 1 : more[i] = IF i = 0 THEN <<>> ELSE Longer(more[i - 1])
    <3> TAKE i \in 0 .. m + 1
    <3>1. CASE i = m + 1
      BY <3>1, <2>4
    <3>2. CASE i \in 0 .. m
      <4>1. i = 0 \/ i - 1 \in 0 .. m
        BY <3>2
      <4> QED BY <3>2, <4>1, <2>2, <2>3
    <3> QED BY <3>1, <3>2
  <2>7. more = [k \in 0 .. m + 1 |-> IF k = 0 THEN <<>> ELSE Longer(more[k - 1])]
    BY <2>5, <2>6
  <2>8. Ranking(S, more, m + 1)
    BY <2>7 DEF Ranking, Longer
  <2> QED BY <2>8
<1> HIDE DEF Good
<1>3. Nat \subseteq Good
  BY <1>1, <1>2, Induction
<1> QED BY <1>3 DEF Good

LEMMA RankedIs ==
  ASSUME IsSetting, NEW S, IsFiniteSet(S), S # {}, S \subseteq Nodes, OfDifferentPaths(S)
  PROVE  /\ IsList(Ranked(S)) /\ IsRow(Ranked(S)) /\ Range(Ranked(S)) \subseteq S
         /\ Ranked(S) # <<>> /\ Ranked(S)[1] \in Leaders(S)
<1> DEFINE N == Cardinality(S)
           f == CHOOSE f : Ranking(S, f, N)
           Longer(sofar) == sofar \o ByTies(Leaders(S \ ToSet(sofar)))
           Good == {n \in Nat : n \in 0 .. N =>
                      /\ IsList(f[n]) /\ IsRow(f[n]) /\ Range(f[n]) \subseteq S
                      /\ n # 0 => f[n] # <<>> /\ f[n][1] \in Leaders(S)}
<1>1. N \in Nat /\ N # 0
  BY FS_CardinalityType, FS_EmptySet
<1>2. Ranking(S, f, N)
  BY <1>1, RankingExists
<1>3. Ranked(S) = f[N]
  BY DEF Ranked, Ranking
<1> HIDE DEF f, N
<1>4. f = [k \in 0 .. N |-> IF k = 0 THEN <<>> ELSE Longer(f[k - 1])]
  BY <1>2 DEF Ranking
<1>5. ASSUME NEW sofar, IsList(sofar), IsRow(sofar), Range(sofar) \subseteq S
      PROVE  /\ IsList(Longer(sofar)) /\ IsRow(Longer(sofar)) /\ Range(Longer(sofar)) \subseteq S
             /\ sofar = <<>> => Longer(sofar) # <<>> /\ Longer(sofar)[1] \in Leaders(S)
             /\ sofar # <<>> => Longer(sofar) # <<>> /\ Longer(sofar)[1] = sofar[1]
  <2> DEFINE left  == S \ ToSet(sofar)
             group == ByTies(Leaders(left))
  <2>1. ToSet(sofar) = Range(sofar)
    BY DEF ToSet, Range
  <2>2. left \subseteq S /\ IsFiniteSet(left) /\ left \subseteq Nodes
    BY FS_Subset
  <2>3. Leaders(left) \subseteq left /\ IsFiniteSet(Leaders(left)) /\ Leaders(left) \subseteq Nodes
    <3>1. Leaders(left) \subseteq left
      BY DEF Leaders
    <3> HIDE DEF left
    <3> QED BY <2>2, <3>1, FS_Subset
  <2>4. OfDifferentPaths(Leaders(left))
    BY <2>2, <2>3 DEF OfDifferentPaths
  <2>5. IsList(group) /\ Range(group) = Leaders(left) /\ IsRow(group)
    <3> HIDE DEF left
    <3> QED BY <2>3, <2>4, TiesAreBroken
  <2>6. Range(sofar) \cap Range(group) = {}
    BY <2>1, <2>3, <2>5
  <2>7. Longer(sofar) = sofar \o group
    OBVIOUS
  <2>8. left \subseteq S /\ Leaders(left) \subseteq left
    BY <2>2, <2>3
  <2>9. sofar = <<>> => left = S
    BY DEF ToSet
  <2> HIDE DEF group, left, Longer
  <2>10. IsList(Longer(sofar)) /\ IsRow(Longer(sofar)) /\ Range(Longer(sofar)) \subseteq S
    BY <1>5, <2>5, <2>6, <2>7, <2>8, ListsTogether, RowsTogether
  <2>11. sofar \in Seq(Range(sofar)) /\ group \in Seq(Range(group))
    BY <1>5, <2>5 DEF IsList
  <2>12. ASSUME sofar = <<>> PROVE Longer(sofar) # <<>> /\ Longer(sofar)[1] \in Leaders(S)
    <3>1. Longer(sofar) = group
      BY <2>7, <2>11, <2>12
    <3>2. Range(group) = Leaders(S)
      BY <2>5, <2>9, <2>12
    <3>3. Leaders(S) # {}
      BY LeadersAreSome
    <3>4. group # <<>> /\ group[1] \in Range(group)
      BY <2>11, <3>2, <3>3 DEF Range
    <3> QED BY <3>1, <3>2, <3>4
  <2>13. ASSUME sofar # <<>> PROVE Longer(sofar) # <<>> /\ Longer(sofar)[1] = sofar[1]
    BY <2>7, <2>11, <2>13
  <2> QED BY <2>10, <2>12, <2>13
<1> HIDE DEF Longer
<1>6. f[0] = <<>> /\ \A n \in Nat : n + 1 \in 0 .. N => f[n + 1] = Longer(f[n])
  <2>1. f[0] = <<>>
    BY <1>1, <1>4
  <2>2. ASSUME NEW n \in Nat, NEW k \in 0 .. N, k = n + 1 PROVE f[k] = Longer(f[n])
    <3>1. k # 0 /\ k - 1 = n
      BY <2>2
    <3> QED BY <1>4, <3>1
  <2> QED BY <2>1, <2>2
<1>7. 0 \in Good
  <2>1. IsList(<<>>) /\ IsRow(<<>>) /\ Range(<<>>) = {}
    BY DEF IsList, IsRow, Range
  <2> QED BY <1>6, <2>1
<1>8. ASSUME NEW n \in Nat, n \in Good PROVE n + 1 \in Good
  <2> SUFFICES ASSUME n + 1 \in 0 .. N
               PROVE  /\ IsList(f[n + 1]) /\ IsRow(f[n + 1]) /\ Range(f[n + 1]) \subseteq S
                      /\ f[n + 1] # <<>> /\ f[n + 1][1] \in Leaders(S)
    OBVIOUS
  <2>1. n \in 0 .. N
    BY <1>1
  <2>2. IsList(f[n]) /\ IsRow(f[n]) /\ Range(f[n]) \subseteq S
        /\ (n # 0 => f[n] # <<>> /\ f[n][1] \in Leaders(S))
    BY <1>8, <2>1
  <2>3. f[n + 1] = Longer(f[n])
    BY <1>6
  <2>4. n = 0 => f[n] = <<>>
    BY <1>6
  <2> QED BY <1>5, <2>2, <2>3, <2>4
<1> HIDE DEF Good
<1>9. N \in Good
  BY <1>1, <1>7, <1>8, Induction
<1>10. N \in 0 .. N
  BY <1>1
<1> QED BY <1>1, <1>3, <1>9, <1>10 DEF Good

-----------------------------------------------------------------------------
(* What a comparison says of the rewards.                                  *)
LEMMA PreferredIs ==
  ASSUME IsSetting, NEW n \in Nodes, NEW m \in Nodes
  PROVE  /\ setting.margin \in Nat
         /\ PreferredOrEqual(n, m) => m.reward <= n.reward + setting.margin
         /\ ~PreferredOrEqual(n, m) => n.reward <= m.reward + setting.margin
         /\ ~PreferredOrEqual(n, m) /\ Len(n.trail) < Len(m.trail) /\ Active(m) =>
              n.reward + setting.margin < m.reward
<1>1. n.reward \in Int /\ m.reward \in Int /\ setting.margin \in Nat
      /\ Len(n.trail) \in Nat /\ Len(m.trail) \in Nat
  BY NodeIs DEF IsSetting
<1>2. Len(n.trail) < Len(m.trail) /\ Active(m) => TieLeq(n, m)
  BY <1>1 DEF TieLeq, EndpointRank
<1> QED BY <1>1, <1>2 DEF PreferredOrEqual

Challenging(s, best, n) ==
  best = [i \in 1 .. n |->
            IF i = 1 THEN s[1]
            ELSE LET known == best[i - 1] IN
                 IF PreferredOrEqual(known, s[i]) THEN known ELSE s[i]]

LEMMA ChallengingExists ==
  ASSUME NEW s, NEW n \in Nat
  PROVE  \E best : Challenging(s, best, n)
<1> DEFINE Won(known, i) == IF PreferredOrEqual(known, s[i]) THEN known ELSE s[i]
           Good == {m \in Nat : \E best : Challenging(s, best, m)}
<1>1. 0 \in Good
  <2>1. Challenging(s, [i \in 1 .. 0 |-> <<>>], 0)
    BY DEF Challenging
  <2> QED BY <2>1
<1>2. ASSUME NEW m \in Nat, m \in Good PROVE m + 1 \in Good
  <2>1. PICK best : Challenging(s, best, m)
    BY <1>2
  <2>2. best = [i \in 1 .. m |-> IF i = 1 THEN s[1] ELSE Won(best[i - 1], i)]
    BY <2>1 DEF Challenging
  <2> HIDE DEF Won
  <2> DEFINE more == [i \in 1 .. m + 1 |->
                        IF i <= m THEN best[i] ELSE IF i = 1 THEN s[1] ELSE Won(best[i - 1], i)]
  <2>3. \A i \in 1 .. m : best[i] = IF i = 1 THEN s[1] ELSE Won(best[i - 1], i)
    BY <2>2
  <2>4. \A i \in 1 .. m : more[i] = best[i]
    OBVIOUS
  <2>5. more[m + 1] = IF m + 1 = 1 THEN s[1] ELSE Won(more[m], m + 1)
    BY <2>4
  <2>6. more = [i \in 1 .. m + 1 |-> more[i]]
    OBVIOUS
  <2> HIDE DEF more
  <2>7. \A i \in 1 .. m + 1 : more[i] = IF i = 1 THEN s[1] ELSE Won(more[i - 1], i)
    <3> TAKE i \in 1 .. m + 1
    <3>1. CASE i = m + 1
      BY <3>1, <2>5
    <3>2. CASE i \in 1 .. m
      <4>1. i = 1 \/ i - 1 \in 1 .. m
        BY <3>2
      <4> QED BY <3>2, <4>1, <2>3, <2>4
    <3> QED BY <3>1, <3>2
  <2>8. more = [i \in 1 .. m + 1 |-> IF i = 1 THEN s[1] ELSE Won(more[i - 1], i)]
    BY <2>6, <2>7
  <2>9. Challenging(s, more, m + 1)
    BY <2>8 DEF Challenging, Won
  <2> QED BY <2>9
<1> HIDE DEF Good
<1>3. Nat \subseteq Good
  BY <1>1, <1>2, Induction
<1> QED BY <1>3 DEF Good

LEMMA IncumbentIs ==
  ASSUME IsSetting, NEW s, IsList(s), s # <<>>, Range(s) \subseteq Nodes
  PROVE  /\ Incumbent(s) \in Range(s)
         /\ setting.margin = 0 => \A n \in Range(s) : n.reward <= Incumbent(s).reward
<1> DEFINE N == Len(s)
           best == CHOOSE best : Challenging(s, best, N)
           Good == {k \in Nat : k \in 1 .. N =>
                      /\ best[k] \in Range(s)
                      /\ setting.margin = 0 => \A j \in 1 .. k : s[j].reward <= best[k].reward}
<1>1. N \in Nat /\ N # 0 /\ DOMAIN s = 1 .. N
  BY DEF IsList
<1>2. Challenging(s, best, N)
  BY <1>1, ChallengingExists
<1>3. Incumbent(s) = best[N]
  BY DEF Incumbent, Challenging
<1> HIDE DEF best, N
<1>4. \A i \in 1 .. N : best[i] = IF i = 1 THEN s[1]
                                  ELSE IF PreferredOrEqual(best[i - 1], s[i]) THEN best[i - 1] ELSE s[i]
  BY <1>2 DEF Challenging
<1>5. \A i \in 1 .. N : s[i] \in Range(s) /\ s[i] \in Nodes /\ s[i].reward \in Int
  <2>1. \A i \in 1 .. N : s[i] \in Range(s)
    BY <1>1 DEF Range
  <2> QED BY <2>1, NodeIs
<1>6. 0 \in Good
  OBVIOUS
<1>7. ASSUME NEW k \in Nat, k \in Good PROVE k + 1 \in Good
  <2> DEFINE m == k + 1
  <2>1. m = k + 1 /\ m \in Nat
    OBVIOUS
  <2> HIDE DEF m
  <2> SUFFICES ASSUME m \in 1 .. N
               PROVE  /\ best[m] \in Range(s)
                      /\ setting.margin = 0 => \A j \in 1 .. m : s[j].reward <= best[m].reward
    BY <2>1
  <2>2. CASE k = 0
    <3>1. best[m] = s[m]
      BY <1>4, <2>1, <2>2
    <3>2. \A j \in 1 .. m : j = m
      BY <2>1, <2>2
    <3>3. \A j \in 1 .. m : s[j].reward <= best[m].reward
      BY <1>5, <3>1, <3>2
    <3> QED BY <1>5, <3>1, <3>3
  <2>3. CASE k # 0
    <3>1. k \in 1 .. N
      BY <1>1, <2>1, <2>3
    <3>2. best[k] \in Range(s) /\ (setting.margin = 0 => \A j \in 1 .. k : s[j].reward <= best[k].reward)
      BY <1>7, <3>1
    <3>3. m # 1 /\ m - 1 = k
      BY <2>1, <2>3
    <3>4. best[m] = IF PreferredOrEqual(best[k], s[m]) THEN best[k] ELSE s[m]
      BY <1>4, <3>3
    <3>5. best[k] \in Nodes /\ best[k].reward \in Int
      BY <3>2, NodeIs
    <3>6. ASSUME setting.margin = 0, NEW j \in 1 .. m PROVE s[j].reward <= best[m].reward
      <4>1. j \in 1 .. k \/ j = m
        BY <2>1
      <4>2. s[j].reward <= best[k].reward \/ j = m
        BY <3>2, <3>6, <4>1
      <4>3. s[j].reward \in Int /\ s[m].reward \in Int
        <5>1. j \in 1 .. N
          BY <1>1, <2>1
        <5> QED BY <1>5, <5>1
      <4>4. /\ PreferredOrEqual(best[k], s[m]) => s[m].reward <= best[k].reward
            /\ ~PreferredOrEqual(best[k], s[m]) => best[k].reward <= s[m].reward
        <5>1. /\ PreferredOrEqual(best[k], s[m]) => s[m].reward <= best[k].reward + setting.margin
              /\ ~PreferredOrEqual(best[k], s[m]) => best[k].reward <= s[m].reward + setting.margin
          BY <1>5, <3>5, PreferredIs
        <5> QED BY <3>5, <3>6, <4>3, <5>1
      <4> QED BY <3>4, <3>5, <4>2, <4>3, <4>4
    <3>7. best[m] \in Range(s)
      BY <1>5, <3>2, <3>4
    <3> QED BY <3>6, <3>7
  <2> QED BY <2>2, <2>3
<1> HIDE DEF Good
<1>8. N \in Good
  BY <1>1, <1>6, <1>7, Induction
<1>9. best[N] \in Range(s) /\ (setting.margin = 0 => \A j \in 1 .. N : s[j].reward <= best[N].reward)
  BY <1>1, <1>8 DEF Good
<1>10. \A n \in Range(s) : \E j \in 1 .. N : n = s[j]
  BY <1>1 DEF Range
<1> QED BY <1>3, <1>9, <1>10

LEMMA DeduplicatedIs ==
  ASSUME IsSetting, NEW s, IsList(s), Range(s) \subseteq Nodes
  PROVE  /\ Deduplicated(s) \subseteq Range(s) /\ IsFiniteSet(Deduplicated(s))
         /\ \A n, m \in Deduplicated(s) : n.query = m.query => n = m
         /\ \A n \in Range(s) : \E m \in Deduplicated(s) :
              setting.margin = 0 => n.reward <= m.reward
<1> DEFINE T == Range(s)
           same(q) == {m \in T : m.query = q}
           won(q) == Incumbent(Among(s, same(q)))
<1>1. ToSet(s) = T
  BY DEF ToSet, Range
<1>2. Deduplicated(s) = {won(n.query) : n \in T}
  <2>1. Deduplicated(s) = {Incumbent(x) : x \in {Among(s, same(n.query)) : n \in T}}
    BY <1>1 DEF Deduplicated
  <2> QED BY <2>1
<1>3. ASSUME NEW n \in T
      PROVE  /\ won(n.query) \in T /\ won(n.query).query = n.query
             /\ setting.margin = 0 => n.reward <= won(n.query).reward
  <2> DEFINE S == same(n.query)
  <2>1. S \subseteq T /\ n \in S
    OBVIOUS
  <2>2. \A m \in S : m.query = n.query
    OBVIOUS
  <2> HIDE DEF S, T
  <2>3. IsList(Among(s, S)) /\ Range(Among(s, S)) = S
    <3>1. IsList(Among(s, S)) /\ Range(Among(s, S)) = Range(s) \cap S
      BY AmongRange
    <3> QED BY <2>1, <3>1 DEF T
  <2>4. Among(s, S) # <<>>
    BY <2>1, <2>3 DEF Range
  <2>5. S \subseteq Nodes
    BY <2>1 DEF T
  <2>6. Incumbent(Among(s, S)) \in S
        /\ (setting.margin = 0 => \A m \in S : m.reward <= Incumbent(Among(s, S)).reward)
    BY <2>3, <2>4, <2>5, IncumbentIs
  <2> QED BY <2>1, <2>2, <2>6 DEF S
<1>4. IsFiniteSet(T)
  BY ListIsFinite
<1> HIDE DEF won
<1>5. Deduplicated(s) \subseteq T
  BY <1>2, <1>3
<1>6. IsFiniteSet(Deduplicated(s))
  <2> HIDE DEF T
  <2> QED BY <1>4, <1>5, FS_Subset
<1>7. ASSUME NEW n \in Deduplicated(s), NEW m \in Deduplicated(s), n.query = m.query PROVE n = m
  <2>1. PICK x \in T : n = won(x.query)
    BY <1>2
  <2>2. PICK y \in T : m = won(y.query)
    BY <1>2
  <2>3. n.query = x.query /\ m.query = y.query
    BY <1>3, <2>1, <2>2
  <2> QED BY <1>7, <2>1, <2>2, <2>3
<1>8. ASSUME NEW n \in T
      PROVE \E m \in Deduplicated(s) : setting.margin = 0 => n.reward <= m.reward
  <2>1. won(n.query) \in Deduplicated(s)
    BY <1>2
  <2> QED BY <1>3, <2>1
<1> QED BY <1>5, <1>6, <1>7, <1>8

-----------------------------------------------------------------------------
(* What the oracles are asked.                                             *)
LEMMA AskedOfWalk ==
  ASSUME NEW o, NEW n, IsWalk(n, o)
  PROVE  /\ Asked(n) \subseteq Edges /\ IsFiniteSet(Asked(n))
         /\ \A x, y \in Asked(n) : o[x].kind = "raises" /\ o[y].kind = "raises" => x = y
         /\ Raised(n) <=> \E x \in Asked(n) : o[x].kind = "raises"
<1> DEFINE k == Len(n.trail)
<1>1. n.trail \in Seq(Edges) /\ k \in Nat /\ DOMAIN n.trail = 1 .. k
  BY NodeIs DEF IsWalk
<1>2. Asked(n) = {n.trail[i] : i \in 1 .. k}
  BY <1>1 DEF Asked, ToSet
<1>3. Asked(n) \subseteq Edges
  BY <1>1, <1>2
<1>4. \A i \in 1 .. k - 1 : o[n.trail[i]].kind = "proven"
  BY <1>1 DEF IsWalk
<1>5. \A i \in 1 .. k : i = k \/ i \in 1 .. k - 1
  BY <1>1
<1>6. \A x \in Asked(n) : o[x].kind = "raises" => n.trail # <<>> /\ x = n.trail[k]
  <2>1. TAKE x \in Asked(n)
  <2>2. PICK i \in 1 .. k : x = n.trail[i]
    BY <1>2
  <2>3. n.trail # <<>>
    BY <1>1, <2>2
  <2> HIDE DEF k
  <2> QED BY <1>4, <1>5, <2>2, <2>3
<1>7. n.trail # <<>> => n.trail[k] \in Asked(n)
  <2>1. n.trail # <<>> => k \in 1 .. k
    BY <1>1
  <2> HIDE DEF k
  <2> QED BY <1>2, <2>1
<1>8. n.trail = <<>> => ~Raised(n)
  BY DEF IsWalk
<1>9. n.trail # <<>> => (Raised(n) <=> o[n.trail[k]].kind = "raises")
  BY DEF IsWalk
<1>10. IsFiniteSet(Asked(n))
  <2>1. IsFiniteSet(1 .. k)
    BY <1>1, FS_Interval
  <2>2. n.trail \in Surjection(1 .. k, Asked(n))
    <3>1. n.trail \in [1 .. k -> Asked(n)]
      BY <1>1, <1>2
    <3> QED BY <1>2, <3>1 DEF Surjection
  <2> HIDE DEF k
  <2> QED BY <2>1, <2>2, FS_Surjection
<1> HIDE DEF k
<1> QED BY <1>3, <1>6, <1>7, <1>8, <1>9, <1>10

(* All that a search has asked.                                            *)
LEMMA AskedOfSearch ==
  ASSUME NEW o, NEW s, HoldsWalks(s, o), RaisesOnce(s, o)
  PROVE  /\ AskedBy(s) \subseteq Edges /\ IsFiniteSet(AskedBy(s)) /\ IsFiniteSet(Raises(s, o))
         /\ Cardinality(Raises(s, o)) = IF s.answer = Failed THEN 1 ELSE 0
<1>1. \A n \in s.tried : IsWalk(n, o)
  BY DEF HoldsWalks
<1>2. \A n \in s.tried : Asked(n) \subseteq Edges /\ IsFiniteSet(Asked(n))
  BY <1>1, AskedOfWalk
<1>3. AskedBy(s) \subseteq Edges
  BY <1>2 DEF AskedBy
<1>4. IsFiniteSet(AskedBy(s))
  <2> DEFINE sets == {Asked(n) : n \in s.tried}
             f == [n \in s.tried |-> Asked(n)]
  <2>1. IsFiniteSet(s.tried)
    BY DEF HoldsWalks
  <2>2. f \in Surjection(s.tried, sets)
    BY DEF Surjection
  <2>3. \A T \in sets : IsFiniteSet(T)
    BY <1>2
  <2>4. AskedBy(s) = UNION sets
    BY DEF AskedBy
  <2> HIDE DEF sets, f
  <2>5. IsFiniteSet(sets)
    BY <2>1, <2>2, FS_Surjection
  <2> QED BY <2>3, <2>4, <2>5, FS_UNION
<1>5. Raises(s, o) \subseteq AskedBy(s)
  BY DEF Raises
<1>6. IsFiniteSet(Raises(s, o))
  BY <1>4, <1>5, FS_Subset
<1>7. CASE s.answer = Failed
  <2>1. PICK x \in Edges : Raises(s, o) = {x}
    BY <1>7 DEF RaisesOnce
  <2> QED BY <1>3, <1>4, <1>6, <1>7, <2>1, FS_Singleton
<1>8. CASE s.answer # Failed
  <2>1. \A n \in s.tried : ~Raised(n)
    BY <1>8 DEF RaisesOnce
  <2>2. Raises(s, o) = {}
    BY <1>1, <2>1, AskedOfWalk DEF Raises, AskedBy
  <2> QED BY <1>3, <1>4, <1>6, <1>8, <2>2, FS_EmptySet
<1> QED BY <1>7, <1>8

-----------------------------------------------------------------------------
(* A batch of new nodes.                                                   *)
Looked(batch, scored, after) ==
  IF \E i \in DOMAIN batch : Raised(batch[i]) THEN Abort(batch)
  ELSE [after EXCEPT !.tried = @ \cup ToSet(batch), !.explored = @ + scored]

LEMMA AnswersDiffer == Failed # Nothing /\ Nothing \notin Nodes /\ Failed \notin Nodes
BY SearchAssumption

LEMMA AbortIs ==
  ASSUME Oracles, HoldsWalks(search, outcome), RaisesOnce(search, outcome), search.answer = Nothing,
         NEW batch, IsList(batch), \A x \in Range(batch) : IsWalk(x, outcome),
         \E i \in DOMAIN batch : Raised(batch[i]), NEW t, t = Abort(batch)
  PROVE  SearchInv(t, outcome, setting)
<1> DEFINE failing == {i \in DOMAIN batch : Raised(batch[i])}
           IsFirst(i) == i \in DOMAIN batch /\ Raised(batch[i]) /\ \A j \in 1 .. (i - 1) : ~Raised(batch[j])
           first == CHOOSE i \in DOMAIN batch :
                      Raised(batch[i]) /\ \A j \in 1..(i - 1) : ~Raised(batch[j])
           part == SubSeq(batch, 1, first)
<1>1. DOMAIN batch = 1 .. Len(batch) /\ Len(batch) \in Nat /\ batch \in Seq(Range(batch))
      /\ \A i \in 1 .. Len(batch) : batch[i] \in Range(batch)
  BY DEF IsList, Range
<1>2. \E i : IsFirst(i)
  <2>1. failing \subseteq Nat /\ failing # {}
    BY <1>1
  <2>2. PICK i \in failing : \A j \in failing : i <= j
    <3> HIDE DEF failing
    <3> QED BY <2>1, LeastNumber
  <2>3. \A j \in 1 .. i - 1 : j \in DOMAIN batch /\ ~(i <= j)
    BY <1>1, <2>2
  <2> QED BY <2>2, <2>3
<1>3. IsFirst(first)
  BY <1>2
<1> HIDE DEF first
<1>4. first \in 1 .. Len(batch) /\ Raised(batch[first]) /\ \A j \in 1 .. first - 1 : ~Raised(batch[j])
  BY <1>1, <1>3
<1> HIDE DEF IsFirst
<1>5. DOMAIN part = 1 .. first /\ \A i \in 1 .. first : part[i] = batch[i]
  BY <1>1, <1>4
<1> HIDE DEF part
<1>6. \A i \in 1 .. first : i \in 1 .. Len(batch) /\ (i = first \/ i \in 1 .. first - 1)
  BY <1>1, <1>4
<1>7. ToSet(part) = {batch[i] : i \in 1 .. first} /\ ToSet(part) \subseteq Range(batch)
  BY <1>1, <1>5, <1>6 DEF ToSet
<1>8. \A n \in ToSet(part) : Raised(n) => n = batch[first]
  BY <1>4, <1>6, <1>7
<1>9. batch[first] \in ToSet(part)
  <2>1. first \in 1 .. first
    BY <1>4
  <2> QED BY <1>7, <2>1
<1>10. search \in Searches
  BY DEF HoldsWalks
<1>11. ToSet(part) \subseteq Nodes /\ \A n \in ToSet(part) : IsWalk(n, outcome)
  BY <1>7 DEF IsWalk
<1>12. t = [search EXCEPT !.tried = @ \cup ToSet(part), !.answer = Failed]
  BY DEF Abort, first, part
<1>13. /\ t \in Searches /\ t.node = search.node /\ t.frontier = search.frontier /\ t.queue = search.queue
       /\ t.seen = search.seen /\ t.known = search.known /\ t.tried = search.tried \cup ToSet(part)
       /\ t.answer = Failed
  <2> HIDE DEF Nodes
  <2> QED BY <1>10, <1>11, <1>12 DEF Searches
<1>14. IsFiniteSet(ToSet(part))
  <2>1. part \in Seq(Range(batch))
    BY <1>1, <1>4 DEF part
  <2>2. IsList(part)
    BY <2>1, ListOf
  <2>3. ToSet(part) = Range(part)
    BY DEF ToSet, Range
  <2> QED BY <2>2, <2>3, ListIsFinite
<1>15. IsFiniteSet(t.tried)
  <2>1. IsFiniteSet(search.tried)
    BY DEF HoldsWalks
  <2>2. IsFiniteSet(search.tried \cup ToSet(part))
    BY <1>14, <2>1, FS_Union
  <2> QED BY <1>13, <2>2
<1>16. HoldsWalks(t, outcome)
  BY <1>11, <1>13, <1>15 DEF HoldsWalks
<1>17. PICK x \in Asked(batch[first]) : outcome[x].kind = "raises"
  BY <1>4, <1>9, <1>11, AskedOfWalk
<1>18. x \in Edges
  BY <1>9, <1>11, AskedOfWalk
<1>19. Raises(t, outcome) = {x}
  <2>1. x \in Raises(t, outcome)
    BY <1>9, <1>13, <1>17 DEF Raises, AskedBy
  <2>2. ASSUME NEW y \in Raises(t, outcome) PROVE y = x
    <3>1. PICK n \in t.tried : y \in Asked(n) /\ outcome[y].kind = "raises"
      BY DEF Raises, AskedBy
    <3>2. IsWalk(n, outcome)
      BY <1>16 DEF HoldsWalks
    <3>3. Raised(n)
      BY <3>1, <3>2, AskedOfWalk
    <3>4. n \notin search.tried
      BY <3>3, AnswersDiffer DEF RaisesOnce
    <3>5. n = batch[first]
      BY <1>8, <1>13, <3>3, <3>4
    <3> QED BY <1>17, <3>1, <3>2, <3>5, AskedOfWalk
  <2> QED BY <2>1, <2>2
<1>20. RaisesOnce(t, outcome)
  BY <1>13, <1>18, <1>19 DEF RaisesOnce
<1> QED BY <1>13, <1>16, <1>20, AnswersDiffer DEF SearchInv, Counted, Near, Covers

(* The state of a search after a batch in which nothing was raised.        *)
IsLooked(t, batch, scored, after) ==
  /\ t.strategy = after.strategy /\ t.node = after.node /\ t.frontier = after.frontier
  /\ t.queue = after.queue /\ t.seen = after.seen /\ t.known = after.known
  /\ t.cut = after.cut /\ t.answer = after.answer
  /\ t.tried = after.tried \cup Range(batch) /\ t.explored = after.explored + scored

LEMMA LookedIs ==
  ASSUME Oracles, HoldsWalks(search, outcome), RaisesOnce(search, outcome), search.answer = Nothing,
         NEW batch, IsList(batch), \A x \in Range(batch) : IsWalk(x, outcome),
         NEW after, HoldsWalks(after, outcome), after.tried = search.tried,
         after.explored = search.explored, after.answer # Failed,
         NEW scored \in Int, NEW t, t = Looked(batch, scored, after)
  PROVE  \/ SearchInv(t, outcome, setting)
         \/ /\ HoldsWalks(t, outcome) /\ RaisesOnce(t, outcome) /\ IsLooked(t, batch, scored, after)
            /\ \A x \in Range(batch) : ~Raised(x)
<1>1. CASE \E i \in DOMAIN batch : Raised(batch[i])
  <2>1. t = Abort(batch)
    BY <1>1 DEF Looked
  <2> QED BY <1>1, <2>1, AbortIs
<1>2. CASE ~ \E i \in DOMAIN batch : Raised(batch[i])
  <2>1. t = [after EXCEPT !.tried = @ \cup ToSet(batch), !.explored = @ + scored]
    BY <1>2 DEF Looked
  <2>2. ToSet(batch) = Range(batch) /\ Range(batch) \subseteq Nodes
    BY DEF ToSet, Range, IsWalk
  <2>3. after \in Searches
    BY DEF HoldsWalks
  <2>4. t \in Searches /\ IsLooked(t, batch, scored, after)
    <3> HIDE DEF Nodes
    <3> DEFINE all == after.tried \cup Range(batch)
               sum == after.explored + scored
    <3>1. all \in SUBSET Nodes /\ sum \in Int
      BY <2>2, <2>3 DEF Searches
    <3>2. t = [after EXCEPT !.tried = all, !.explored = sum]
      BY <2>1, <2>2, <2>3 DEF Searches
    <3>3. all = after.tried \cup Range(batch) /\ sum = after.explored + scored
      OBVIOUS
    <3> HIDE DEF all, sum
    <3>4. t \in Searches
      BY <2>3, <3>1, <3>2 DEF Searches
    <3>5. IsLooked(t, batch, scored, after)
      BY <2>3, <3>2, <3>3 DEF Searches, IsLooked
    <3> QED BY <3>4, <3>5
  <2>5. \A x \in Range(batch) : ~Raised(x)
    BY <1>2 DEF Range
  <2>6. IsFiniteSet(t.tried)
    <3>1. IsFiniteSet(after.tried) /\ IsFiniteSet(Range(batch))
      BY ListIsFinite DEF HoldsWalks
    <3>2. IsFiniteSet(after.tried \cup Range(batch))
      BY <3>1, FS_Union
    <3> QED BY <2>4, <3>2 DEF IsLooked
  <2>7. HoldsWalks(t, outcome)
    BY <2>4, <2>6 DEF HoldsWalks, IsLooked
  <2>8. \A n \in search.tried : ~Raised(n)
    BY AnswersDiffer DEF RaisesOnce
  <2>9. RaisesOnce(t, outcome)
    BY <2>4, <2>5, <2>8 DEF RaisesOnce, IsLooked
  <2> QED BY <2>4, <2>5, <2>7, <2>9
<1> QED BY <1>1, <1>2

LEMMA CountsMore ==
  ASSUME NEW S, IsFiniteSet(S), NEW batch, IsList(batch), IsRow(batch), Range(batch) \cap S = {}
  PROVE  /\ Cardinality(S) \in Nat /\ Len(batch) \in Nat
         /\ Cardinality(S \cup Range(batch)) = Cardinality(S) + Len(batch)
<1>1. IsFiniteSet(Range(batch)) /\ Cardinality(Range(batch)) = Len(batch) /\ Len(batch) \in Nat
  BY RowLength
<1>2. Cardinality(S) \in Nat
  BY FS_CardinalityType
<1>3. Cardinality(S \cap Range(batch)) = 0
  <2>1. S \cap Range(batch) = {}
    OBVIOUS
  <2> QED BY <2>1, FS_EmptySet
<1>4. Cardinality(S \cup Range(batch)) = Cardinality(S) + Cardinality(Range(batch)) - Cardinality(S \cap Range(batch))
  BY <1>1, FS_Union
<1> QED BY <1>1, <1>2, <1>3, <1>4

LEMMA OneNode ==
  ASSUME NEW c
  PROVE  IsList(<<c>>) /\ IsRow(<<c>>) /\ Range(<<c>>) = {c} /\ Len(<<c>>) = 1
<1>1. <<c>> \in Seq({c}) /\ DOMAIN <<c>> = 1 .. 1 /\ <<c>>[1] = c
  OBVIOUS
<1>2. Range(<<c>>) = {c}
  BY <1>1 DEF Range
<1> QED BY <1>1, <1>2 DEF IsList, IsRow

-----------------------------------------------------------------------------
(* The steps of the strategies.                                            *)
LEMMA RolloutKeeps ==
  ASSUME Oracles, IsSetting, SearchInv(search, outcome, setting), Rollout
  PROVE  SearchInv(search', outcome, setting)
<1> DEFINE t == search'
           q == search.node.query
<1>1. search.answer = Nothing /\ search.strategy \in Rollouts /\ Active(search.node)
  BY DEF Rollout, Running
<1>2. PICK i \in DOMAIN Offered[q] :
        \E child \in {Child(search.node, Offered[q][i])} :
          Look(<<child>>, IF search.strategy = "policy_baseline" THEN Len(Offered[q]) ELSE 1,
               [search EXCEPT !.node = child])
  BY DEF Rollout
<1> DEFINE c == Child(search.node, Offered[q][i])
           after == [search EXCEPT !.node = c]
           scored == IF search.strategy = "policy_baseline" THEN Len(Offered[q]) ELSE 1
<1>3. t = Looked(<<c>>, scored, after)
  BY <1>2 DEF Look, Looked
<1>4. HoldsWalks(search, outcome) /\ RaisesOnce(search, outcome)
  BY DEF SearchInv
<1>5. IsWalk(search.node, outcome) /\ search \in Searches
  BY <1>4 DEF HoldsWalks
<1>6. q \in Sql /\ Offered[q][i] \in ToSet(Offered[q]) /\ Len(Offered[q]) \in Nat
  <2>1. q \in Sql
    BY <1>5, NodeIs DEF IsWalk
  <2> HIDE DEF q
  <2> QED BY <2>1, OfferedIs
<1>7. IsWalk(c, outcome)
  <2> DEFINE a == Offered[q][i]
  <2>1. a \in ToSet(Offered[search.node.query]) /\ c = Child(search.node, a)
    BY <1>6
  <2> HIDE DEF a, c
  <2> QED BY <1>1, <1>5, <2>1, ChildIs
<1> HIDE DEF c, q
<1>8. /\ after \in Searches /\ after.node = c /\ after.tried = search.tried
      /\ after.explored = search.explored /\ after.answer = search.answer
      /\ after.strategy = search.strategy /\ after.frontier = search.frontier
      /\ after.queue = search.queue /\ after.seen = search.seen /\ after.known = search.known
  <2>1. c \in Nodes
    BY <1>7 DEF IsWalk
  <2> HIDE DEF Nodes
  <2> QED BY <1>5, <2>1 DEF Searches
<1> HIDE DEF after
<1>9. HoldsWalks(after, outcome)
  BY <1>4, <1>7, <1>8 DEF HoldsWalks
<1>10. scored \in Int
  BY <1>6
<1> HIDE DEF scored
<1>11. IsList(<<c>>) /\ Range(<<c>>) = {c}
  BY OneNode
<1> HIDE DEF t
<1>12. \/ SearchInv(t, outcome, setting)
       \/ /\ HoldsWalks(t, outcome) /\ RaisesOnce(t, outcome) /\ IsLooked(t, <<c>>, scored, after)
          /\ \A x \in Range(<<c>>) : ~Raised(x)
  BY <1>1, <1>3, <1>4, <1>7, <1>8, <1>9, <1>10, <1>11, AnswersDiffer, LookedIs
<1>13. ASSUME HoldsWalks(t, outcome), RaisesOnce(t, outcome), IsLooked(t, <<c>>, scored, after)
       PROVE  SearchInv(t, outcome, setting)
  <2>1. t.strategy \in Rollouts /\ t.answer = Nothing
    BY <1>1, <1>8, <1>13 DEF IsLooked
  <2>2. t.strategy \notin Selective /\ t.strategy # "exhaustive"
        /\ t.strategy \notin {"policy_baseline_abstain", "greedy"} /\ t.strategy # "beam"
    BY <2>1 DEF Rollouts, Selective
  <2> QED BY <1>13, <2>1, <2>2 DEF SearchInv, Counted, Near, Covers
<1> QED BY <1>12, <1>13 DEF t

LEMMA GoesOnOrStops ==
  ASSUME Oracles, IsSetting, SearchInv(search, outcome, setting), search.answer = Nothing,
         search.strategy \in {"policy_baseline_abstain", "greedy"}, Active(search.node),
         NEW batch, IsList(batch), IsRow(batch),
         \A x \in Range(batch) : IsWalk(x, outcome) /\ Len(x.trail) = Len(search.node.trail) + 1,
         NEW c \in Range(batch), \A x \in Range(batch) : x.reward <= c.reward + setting.margin,
         NEW t, t = Looked(batch, Len(batch), GoOnOrStop(c))
  PROVE  SearchInv(t, outcome, setting)
<1> DEFINE node == search.node
           margin == setting.margin
           after == GoOnOrStop(c)
           scored == Len(batch)
<1>1. HoldsWalks(search, outcome) /\ RaisesOnce(search, outcome)
  BY DEF SearchInv
<1>2. search \in Searches /\ IsWalk(node, outcome) /\ IsWalk(c, outcome)
      /\ \A n \in search.tried : IsWalk(n, outcome)
  BY <1>1 DEF HoldsWalks
<1>3. node \in Nodes /\ c \in Nodes /\ \A n \in search.tried \cup Range(batch) : n \in Nodes
  BY <1>2 DEF IsWalk
<1>4. /\ margin \in Nat /\ node.reward \in Int /\ c.reward \in Int /\ Len(node.trail) \in Nat
      /\ \A n \in search.tried \cup Range(batch) : n.reward \in Int /\ Len(n.trail) \in Nat
  BY <1>3, NodeIs DEF IsSetting
<1>5. search.strategy \in Selective /\ search.strategy # "exhaustive" /\ search.strategy # "beam"
  BY DEF Selective
<1>6. /\ search.explored = Cardinality(search.tried)
      /\ \A n \in search.tried : Len(n.trail) <= Len(node.trail)
      /\ \A n \in search.tried : n.reward <= node.reward + margin
  BY <1>5, AnswersDiffer DEF SearchInv, Counted, Near, WalksAhead
<1>7. /\ after \in Searches /\ after.tried = search.tried /\ after.explored = search.explored
      /\ after.strategy = search.strategy /\ after.frontier = search.frontier
      /\ after.queue = search.queue /\ after.seen = search.seen /\ after.known = search.known
      /\ PreferredOrEqual(node, c) => after.answer = node /\ after.node = node
      /\ ~PreferredOrEqual(node, c) => after.answer = Nothing /\ after.node = c
  <2>1. CASE PreferredOrEqual(node, c)
    <3>1. after = [search EXCEPT !.early = TRUE, !.answer = node]
      BY <2>1 DEF GoOnOrStop
    <3> HIDE DEF Nodes, node, after
    <3> QED BY <1>2, <1>3, <2>1, <3>1 DEF Searches, node
  <2>2. CASE ~PreferredOrEqual(node, c)
    <3>1. after = [search EXCEPT !.node = c]
      BY <2>2 DEF GoOnOrStop
    <3> HIDE DEF Nodes, after
    <3> QED BY <1>2, <1>3, <2>2, <3>1 DEF Searches
  <2> QED BY <2>1, <2>2
<1> HIDE DEF after
<1>8. HoldsWalks(after, outcome)
  <2>1. IsWalk(after.node, outcome)
    BY <1>2, <1>7
  <2> HIDE DEF node
  <2> QED BY <1>1, <1>7, <2>1 DEF HoldsWalks
<1>9. after.answer # Failed
  BY <1>3, <1>7, AnswersDiffer
<1>10. scored \in Int /\ t = Looked(batch, scored, after)
  BY RowLength DEF after
<1>11. IsFiniteSet(search.tried) /\ Range(batch) \cap search.tried = {}
  <2>1. IsFiniteSet(search.tried)
    BY <1>1 DEF HoldsWalks
  <2>2. ASSUME NEW n \in search.tried, n \in Range(batch) PROVE FALSE
    BY <1>4, <1>6, <2>2
  <2> QED BY <2>1, <2>2
<1>12. Cardinality(search.tried \cup Range(batch)) = search.explored + scored
  BY <1>6, <1>11, CountsMore
<1> HIDE DEF node, margin, scored
<1>13. \/ SearchInv(t, outcome, setting)
       \/ /\ HoldsWalks(t, outcome) /\ RaisesOnce(t, outcome) /\ IsLooked(t, batch, scored, after)
          /\ \A x \in Range(batch) : ~Raised(x)
  BY <1>1, <1>7, <1>8, <1>9, <1>10, LookedIs
<1>14. ASSUME HoldsWalks(t, outcome), RaisesOnce(t, outcome), IsLooked(t, batch, scored, after)
       PROVE  SearchInv(t, outcome, setting)
  <2>1. /\ t.strategy = search.strategy /\ t.node = after.node /\ t.answer = after.answer
        /\ t.tried = search.tried \cup Range(batch) /\ t.explored = Cardinality(t.tried)
    BY <1>7, <1>12, <1>14 DEF IsLooked
  <2>2. t.strategy \in {"policy_baseline_abstain", "greedy"}
        /\ t.strategy # "exhaustive" /\ t.strategy # "beam"
    BY <1>5, <2>1
  <2>3. /\ PreferredOrEqual(node, c) => c.reward <= node.reward + margin
        /\ ~PreferredOrEqual(node, c) => node.reward <= c.reward + margin
        /\ ~PreferredOrEqual(node, c) /\ Active(c) => node.reward + margin < c.reward
    <3>1. Len(node.trail) < Len(c.trail)
      BY <1>4 DEF node
    <3> QED BY <1>3, <3>1, PreferredIs DEF margin
  <2>4. CASE PreferredOrEqual(node, c)
    <3>1. t.answer = node /\ t.answer # Nothing
      BY <1>3, <1>7, <2>1, <2>4, AnswersDiffer
    <3>2. ASSUME NEW n \in t.tried PROVE n.reward <= node.reward + 2 * margin
      <4>1. CASE n \in search.tried
        BY <1>4, <1>6, <4>1
      <4>2. CASE n \in Range(batch)
        <5>1. n.reward <= c.reward + margin
          BY <4>2 DEF margin
        <5> QED BY <1>4, <2>3, <2>4, <4>2, <5>1
      <4> QED BY <2>1, <3>2, <4>1, <4>2
    <3>3. Near(t, setting)
      BY <3>1, <3>2 DEF Near, margin
    <3>4. Counted(t)
      BY <2>1, <2>2, <3>1 DEF Counted
    <3> QED BY <1>14, <2>2, <3>3, <3>4 DEF SearchInv, Covers
  <2>5. CASE ~PreferredOrEqual(node, c)
    <3>1. t.node = c /\ t.answer = Nothing
      BY <1>7, <2>1, <2>5
    <3>2. WalksAhead(t)
      <4>1. ASSUME NEW n \in t.tried PROVE Len(n.trail) <= Len(c.trail)
        <5>1. Len(c.trail) = Len(node.trail) + 1
          BY DEF node
        <5>2. CASE n \in search.tried
          BY <1>4, <1>6, <5>1, <5>2
        <5>3. CASE n \in Range(batch)
          <6>1. Len(n.trail) = Len(node.trail) + 1
            BY <5>3 DEF node
          <6> QED BY <1>4, <5>1, <6>1
        <5> QED BY <2>1, <4>1, <5>2, <5>3
      <4> QED BY <3>1, <4>1 DEF WalksAhead
    <3>3. ASSUME NEW n \in t.tried
          PROVE  n.reward <= c.reward + (IF Active(c) THEN margin ELSE 2 * margin)
      <4>1. CASE n \in search.tried
        BY <1>4, <1>6, <2>3, <2>5, <4>1
      <4>2. CASE n \in Range(batch)
        <5>1. n.reward <= c.reward + margin
          BY <4>2 DEF margin
        <5> QED BY <1>4, <4>2, <5>1
      <4> QED BY <2>1, <3>3, <4>1, <4>2
    <3>4. Near(t, setting)
      BY <2>2, <3>1, <3>3 DEF Near, margin
    <3>5. Counted(t)
      BY <2>1, <2>2, <3>1, <3>2 DEF Counted
    <3> QED BY <1>14, <2>2, <3>4, <3>5 DEF SearchInv, Covers
  <2> QED BY <2>4, <2>5
<1> QED BY <1>13, <1>14

LEMMA AbstainKeeps ==
  ASSUME Oracles, IsSetting, SearchInv(search, outcome, setting), Abstain
  PROVE  SearchInv(search', outcome, setting)
<1>1. search.answer = Nothing /\ search.strategy = "policy_baseline_abstain" /\ Active(search.node)
  BY DEF Abstain, Running
<1>2. PICK a \in ToSet(Offered[search.node.query]) :
        \E child \in {Child(search.node, a)} : Look(<<child>>, 1, GoOnOrStop(child))
  BY DEF Abstain
<1> DEFINE c == Child(search.node, a)
           t == search'
<1>3. t = Looked(<<c>>, 1, GoOnOrStop(c))
  BY <1>2 DEF Look, Looked
<1>4. IsWalk(search.node, outcome)
  BY DEF SearchInv, HoldsWalks
<1>5. IsWalk(c, outcome) /\ Len(c.trail) = Len(search.node.trail) + 1
  <2> DEFINE n == search.node
  <2>1. a \in ToSet(Offered[n.query]) /\ c = Child(n, a) /\ IsWalk(n, outcome) /\ Active(n)
    BY <1>1, <1>4
  <2> HIDE DEF c, n
  <2>2. IsWalk(c, outcome) /\ Len(c.trail) = Len(n.trail) + 1
    BY <2>1, ChildIs
  <2> QED BY <2>2 DEF n
<1> HIDE DEF c, t
<1>6. IsList(<<c>>) /\ IsRow(<<c>>) /\ Range(<<c>>) = {c} /\ Len(<<c>>) = 1
  BY OneNode
<1>7. c.reward <= c.reward + setting.margin
  <2>1. c.reward \in Int /\ setting.margin \in Nat
    BY <1>5, NodeIs DEF IsWalk, IsSetting
  <2> QED BY <2>1
<1>8. SearchInv(t, outcome, setting)
  <2>1. t = Looked(<<c>>, Len(<<c>>), GoOnOrStop(c))
    BY <1>3, <1>6
  <2>2. \A x \in Range(<<c>>) : /\ IsWalk(x, outcome) /\ Len(x.trail) = Len(search.node.trail) + 1
                                /\ x.reward <= c.reward + setting.margin
    BY <1>5, <1>6, <1>7
  <2>3. search.strategy \in {"policy_baseline_abstain", "greedy"} /\ c \in Range(<<c>>)
    BY <1>1, <1>6
  <2> QED BY <1>1, <1>6, <2>1, <2>2, <2>3, GoesOnOrStops
<1> QED BY <1>8 DEF t

LEMMA GreedyKeeps ==
  ASSUME Oracles, IsSetting, SearchInv(search, outcome, setting), Greedy
  PROVE  SearchInv(search', outcome, setting)
<1>1. search.answer = Nothing /\ search.strategy = "greedy" /\ Active(search.node)
  BY DEF Greedy, Running
<1> DEFINE batch == Children(search.node)
           c == Best(ToSet(batch))
           t == search'
<1>2. t = Looked(batch, Len(batch), GoOnOrStop(c))
  BY DEF Greedy, Look, Looked
<1>3. IsWalk(search.node, outcome)
  BY DEF SearchInv, HoldsWalks
<1>4. /\ IsList(batch) /\ batch # <<>> /\ IsRow(batch)
      /\ \A x \in Range(batch) : IsWalk(x, outcome) /\ Len(x.trail) = Len(search.node.trail) + 1
  BY <1>1, <1>3, ChildrenAre
<1> HIDE DEF batch
<1>5. ToSet(batch) = Range(batch) /\ Range(batch) \subseteq Nodes /\ Range(batch) # {}
  <2>1. batch \in Seq(Range(batch))
    BY <1>4 DEF IsList
  <2>2. 1 \in DOMAIN batch
    BY <1>4, <2>1
  <2> QED BY <1>4, <2>2 DEF ToSet, Range, IsWalk
<1>6. IsFiniteSet(Range(batch))
  BY <1>4, ListIsFinite
<1>7. c \in Range(batch) /\ \A x \in Range(batch) : x.reward <= c.reward + setting.margin
  BY <1>5, <1>6, BestIs
<1> HIDE DEF c, t
<1>8. SearchInv(t, outcome, setting)
  BY <1>1, <1>2, <1>4, <1>7, GoesOnOrStops
<1> QED BY <1>8 DEF t

(* One depth of beam search: what the frontier is expanded to.             *)
Expanded(f) == [i \in DOMAIN f |-> IF Active(f[i]) THEN Children(f[i]) ELSE <<f[i]>>]
NewOnes(f, expanded) == [i \in DOMAIN expanded |-> IF Active(f[i]) THEN expanded[i] ELSE <<>>]

LEMMA BeamBatch ==
  ASSUME Oracles, IsSetting, HoldsWalks(search, outcome), LooksAhead(search),
         NEW f, f = search.frontier, \E i \in DOMAIN f : Active(f[i]),
         NEW expanded, expanded = Expanded(f), NEW all, all = FlattenSeq(expanded),
         NEW batch, batch = FlattenSeq(NewOnes(f, expanded))
  PROVE  \E d \in Nat :
           /\ \A n \in search.tried : Len(n.trail) <= d
           /\ IsList(batch) /\ IsRow(batch)
           /\ \A x \in Range(batch) : IsWalk(x, outcome) /\ Len(x.trail) = d + 1
           /\ IsList(all) /\ Range(all) # {} /\ Range(batch) \subseteq Range(all)
           /\ \A x \in Range(all) : IsWalk(x, outcome) /\ (Active(x) => Len(x.trail) = d + 1)
<1>1. f \in Seq(Nodes) /\ DOMAIN f = 1 .. Len(f) /\ Len(f) \in Nat
      /\ \A i \in DOMAIN f : IsWalk(f[i], outcome)
  BY DEF HoldsWalks, Searches
<1>2. PICK d \in Nat : /\ \A i \in DOMAIN f : Active(f[i]) => Len(f[i].trail) = d
                       /\ \A n \in search.tried : Len(n.trail) <= d
  BY DEF LooksAhead
<1>3. \A i, j \in DOMAIN f : f[i].query = f[j].query => i = j
  BY DEF LooksAhead
<1> DEFINE seqs == NewOnes(f, expanded)
<1>4. DOMAIN expanded = DOMAIN f /\ DOMAIN seqs = DOMAIN f
  BY DEF Expanded, NewOnes
<1>5. ASSUME NEW i \in DOMAIN f
      PROVE  /\ expanded[i] = IF Active(f[i]) THEN Children(f[i]) ELSE <<f[i]>>
             /\ seqs[i] = IF Active(f[i]) THEN Children(f[i]) ELSE <<>>
             /\ Active(f[i]) => seqs[i] = expanded[i]
  BY DEF Expanded, NewOnes
<1>6. expanded = [i \in DOMAIN expanded |-> expanded[i]] /\ seqs = [i \in DOMAIN seqs |-> seqs[i]]
  BY <1>4 DEF Expanded, NewOnes
<1>7. batch = FlattenSeq(seqs)
  OBVIOUS
<1> HIDE DEF seqs
<1>8. ASSUME NEW i \in DOMAIN f, Active(f[i])
      PROVE  /\ seqs[i] = expanded[i] /\ IsList(seqs[i]) /\ IsRow(seqs[i]) /\ Range(seqs[i]) # {}
             /\ \A x \in Range(seqs[i]) : /\ IsWalk(x, outcome) /\ Len(x.trail) = d + 1
                                         /\ \E e \in Edges : x.trail = Append(f[i].trail, e)
  <2> DEFINE n == f[i]
  <2>1. IsWalk(n, outcome) /\ Active(n) /\ Len(n.trail) = d
    BY <1>1, <1>2, <1>8
  <2>2. seqs[i] = Children(n) /\ seqs[i] = expanded[i]
    BY <1>5, <1>8
  <2> HIDE DEF n
  <2>3. /\ IsList(Children(n)) /\ Children(n) # <<>> /\ IsRow(Children(n))
        /\ \A x \in Range(Children(n)) : /\ IsWalk(x, outcome) /\ Len(x.trail) = d + 1
                                         /\ \E e \in Edges : x.trail = Append(n.trail, e)
    BY <2>1, ChildrenAre
  <2>4. Range(Children(n)) # {}
    <3>1. Children(n) \in Seq(Range(Children(n)))
      BY <2>3 DEF IsList
    <3>2. 1 \in DOMAIN Children(n)
      BY <2>3, <3>1
    <3> QED BY <3>2 DEF Range
  <2> QED BY <2>2, <2>3, <2>4 DEF n
<1>9. ASSUME NEW i \in DOMAIN f, ~Active(f[i])
      PROVE  /\ expanded[i] = <<f[i]>> /\ IsList(expanded[i]) /\ Range(expanded[i]) = {f[i]}
             /\ IsList(seqs[i]) /\ IsRow(seqs[i]) /\ Range(seqs[i]) = {}
  <2>1. IsList(<<>>) /\ IsRow(<<>>) /\ Range(<<>>) = {}
    BY DEF IsList, IsRow, Range
  <2> QED BY <1>5, <1>9, <2>1, OneNode
<1>10. IsList(expanded) /\ IsList(seqs)
  <2>1. IsList(f)
    BY <1>1, ListOf
  <2>2. expanded = [i \in DOMAIN f |-> expanded[i]] /\ seqs = [i \in DOMAIN f |-> seqs[i]]
    BY <1>4, <1>6
  <2> QED BY <2>1, <2>2, ListAlong
<1>11. /\ \A i \in DOMAIN expanded : IsList(expanded[i])
       /\ \A i \in DOMAIN seqs : IsList(seqs[i]) /\ IsRow(seqs[i])
  BY <1>4, <1>8, <1>9
<1>12. /\ IsList(all) /\ \A x \in Range(all) : \E i \in DOMAIN f : x \in Range(expanded[i])
       /\ \A i \in DOMAIN f : Range(expanded[i]) \subseteq Range(all)
  BY <1>4, <1>10, <1>11, FlattenRange
<1>13. /\ IsList(batch) /\ \A x \in Range(batch) : \E i \in DOMAIN f : x \in Range(seqs[i])
  BY <1>4, <1>7, <1>10, <1>11, FlattenRange
<1>14. \A i, j \in DOMAIN seqs : i # j => Range(seqs[i]) \cap Range(seqs[j]) = {}
  <2>1. ASSUME NEW i \in DOMAIN f, NEW j \in DOMAIN f, i # j,
               NEW x \in Range(seqs[i]), x \in Range(seqs[j])
        PROVE  FALSE
    <3>1. Active(f[i]) /\ Active(f[j])
      BY <1>9, <2>1
    <3>2. PICK e \in Edges : x.trail = Append(f[i].trail, e)
      BY <1>8, <3>1
    <3>3. PICK g \in Edges : x.trail = Append(f[j].trail, g)
      BY <1>8, <2>1, <3>1
    <3>4. f[i].trail \in Seq(Edges) /\ f[j].trail \in Seq(Edges)
      BY <1>1, NodeIs DEF IsWalk
    <3>5. f[i].trail = f[j].trail
      <4> DEFINE u == f[i].trail
                 v == f[j].trail
      <4>1. Append(u, e) = Append(v, g) /\ u \in Seq(Edges) /\ v \in Seq(Edges)
        BY <3>2, <3>3, <3>4
      <4> HIDE DEF u, v
      <4>2. u = v
        BY <4>1, SameLongerTrail
      <4> QED BY <4>2 DEF u, v
    <3>6. Path(f[i]) = Path(f[j])
      BY <3>5 DEF Path
    <3>7. f[i].query = f[j].query
      BY <1>1, <3>6, PathTellsQuery
    <3> QED BY <1>3, <2>1, <3>7
  <2> QED BY <1>4, <2>1
<1>15. IsRow(batch)
  BY <1>7, <1>10, <1>11, <1>14, FlattenRow
<1>16. \A x \in Range(batch) : \E i \in DOMAIN f : Active(f[i]) /\ x \in Range(seqs[i])
  BY <1>9, <1>13
<1>17. \A x \in Range(batch) : IsWalk(x, outcome) /\ Len(x.trail) = d + 1
  BY <1>8, <1>16
<1>18. Range(batch) \subseteq Range(all)
  BY <1>8, <1>12, <1>16
<1>19. Range(all) # {}
  BY <1>8, <1>12
<1>20. ASSUME NEW x \in Range(all)
       PROVE  IsWalk(x, outcome) /\ (Active(x) => Len(x.trail) = d + 1)
  <2>1. PICK i \in DOMAIN f : x \in Range(expanded[i])
    BY <1>12
  <2>2. CASE Active(f[i])
    BY <1>8, <2>1, <2>2
  <2>3. CASE ~Active(f[i])
    <3>1. x = f[i]
      BY <1>9, <2>1, <2>3
    <3> QED BY <1>1, <2>3, <3>1
  <2> QED BY <2>2, <2>3
<1> QED BY <1>2, <1>12, <1>13, <1>15, <1>17, <1>18, <1>19, <1>20

(* What it keeps.                                                          *)
BestOf(ranked) == SubSeq(ranked, 1, IF Len(ranked) < BeamWidth THEN Len(ranked) ELSE BeamWidth)

LEMMA BeamFrontier ==
  ASSUME Oracles, IsSetting, NEW all, IsList(all), Range(all) # {},
         \A x \in Range(all) : IsWalk(x, outcome),
         NEW ranked, ranked = Ranked(Deduplicated(all)),
         NEW f, f = BestOf(ranked)
  PROVE  /\ f \in Seq(Nodes) /\ IsList(f) /\ Range(f) \subseteq Range(all) /\ Range(f) # {}
         /\ \A i, j \in DOMAIN f : f[i].query = f[j].query => i = j
         /\ setting.margin = 0 => \E e \in Range(f) : \A x \in Range(all) : x.reward <= e.reward
<1> DEFINE S == Deduplicated(all)
<1>1. Range(all) \subseteq Nodes
  BY DEF IsWalk
<1>2. /\ S \subseteq Range(all) /\ IsFiniteSet(S)
      /\ \A n, m \in S : n.query = m.query => n = m
      /\ \A n \in Range(all) : \E m \in S : setting.margin = 0 => n.reward <= m.reward
  BY <1>1, DeduplicatedIs
<1>3. S # {} /\ S \subseteq Nodes
  BY <1>1, <1>2
<1>4. OfDifferentPaths(S)
  <2>1. \A n \in S : IsWalk(n, outcome)
    BY <1>2
  <2> HIDE DEF S
  <2> QED BY <1>2, <2>1, QueriesTellPaths
<1>5. ranked = Ranked(S)
  OBVIOUS
<1> HIDE DEF S
<1>6. IsList(ranked) /\ IsRow(ranked) /\ Range(ranked) \subseteq S /\ ranked # <<>> /\ ranked[1] \in Leaders(S)
  BY <1>2, <1>3, <1>4, <1>5, RankedIs
<1>7. ranked \in Seq(Range(ranked)) /\ Len(ranked) \in Nat /\ Len(ranked) # 0
  BY <1>6 DEF IsList
<1>8. PICK k \in 0 .. Len(ranked) : 1 \in 1 .. k /\ f = SubSeq(ranked, 1, k)
  <2>1. BeamWidth \in Nat \ {0}
    BY SearchAssumption
  <2> DEFINE k == IF Len(ranked) < BeamWidth THEN Len(ranked) ELSE BeamWidth
  <2>2. k \in 0 .. Len(ranked) /\ 1 \in 1 .. k
    BY <1>7, <2>1
  <2>3. f = SubSeq(ranked, 1, k)
    BY DEF BestOf
  <2> HIDE DEF k
  <2> QED BY <2>2, <2>3
<1>10. /\ IsList(f) /\ DOMAIN f = 1 .. k /\ Range(f) \subseteq Range(ranked) /\ IsRow(f)
       /\ \A i \in 1 .. k : f[i] = ranked[i]
  <2>1. IsList(f)
    BY <1>6, <1>8, FirstOfRow
  <2>2. DOMAIN f = 1 .. k
    BY <1>6, <1>8, FirstOfRow
  <2>3. Range(f) \subseteq Range(ranked) /\ IsRow(f)
    BY <1>6, <1>8, FirstOfRow
  <2>4. \A i \in 1 .. k : f[i] = ranked[i]
    BY <1>6, <1>8, FirstOfRow
  <2> QED BY <2>1, <2>2, <2>3, <2>4
<1>11. Range(f) \subseteq S /\ f[1] \in Range(f) /\ f[1] = ranked[1]
  BY <1>6, <1>8, <1>10 DEF Range
<1>12. \A i \in DOMAIN f : f[i] \in S
  BY <1>11 DEF Range
<1>13. \A i, j \in DOMAIN f : f[i].query = f[j].query => i = j
  <2>1. \A i, j \in DOMAIN f : f[i] = f[j] => i = j
    BY <1>10 DEF IsRow
  <2>2. \A i, j \in DOMAIN f : f[i].query = f[j].query => f[i] = f[j]
    BY <1>2, <1>12
  <2> QED BY <2>1, <2>2
<1>14. f \in Seq(Nodes)
  <2>1. f \in Seq(Range(f)) /\ Range(f) \subseteq Nodes
    BY <1>3, <1>10, <1>11 DEF IsList
  <2> QED BY <2>1
<1>15. ASSUME setting.margin = 0, NEW x \in Range(all) PROVE x.reward <= f[1].reward
  <2>1. PICK m \in S : x.reward <= m.reward
    BY <1>2, <1>15
  <2>2. m.reward <= f[1].reward + setting.margin
    BY <1>2, <1>3, <1>6, <1>11, LeadersAreSome
  <2>3. x.reward \in Int /\ m.reward \in Int /\ f[1].reward \in Int
    BY <1>1, <1>3, <1>11, NodeIs
  <2>4. m.reward <= f[1].reward
    BY <1>15, <2>2, <2>3
  <2> QED BY <2>1, <2>3, <2>4
<1> QED BY <1>2, <1>10, <1>11, <1>13, <1>14, <1>15

LEMMA BeamKeeps ==
  ASSUME Oracles, IsSetting, SearchInv(search, outcome, setting), Beam
  PROVE  SearchInv(search', outcome, setting)
<1> DEFINE f == search.frontier
           t == search'
<1>1. search.answer = Nothing /\ search.strategy = "beam" /\ \E n \in ToSet(f) : Active(n)
  BY DEF Beam, Running
<1>2. HoldsWalks(search, outcome) /\ RaisesOnce(search, outcome)
  BY DEF SearchInv
<1>3. search.strategy \in Selective /\ search.strategy # "exhaustive"
      /\ search.strategy \notin {"policy_baseline_abstain", "greedy"}
  BY <1>1 DEF Selective
<1>4. /\ LooksAhead(search) /\ search.explored = Cardinality(search.tried)
      /\ setting.margin = 0 => \A n \in search.tried : \E e \in search.seen : n.reward <= e.reward
  BY <1>1, <1>3, AnswersDiffer DEF SearchInv, Counted, Near
<1> DEFINE expanded == Expanded(f)
           all == FlattenSeq(expanded)
           batch == FlattenSeq(NewOnes(f, expanded))
           ranked == Ranked(Deduplicated(all))
           best == BestOf(ranked)
           after == [search EXCEPT !.frontier = best, !.seen = @ \cup ToSet(best)]
<1>5. t = Looked(batch, Len(batch), after)
  <2>1. PICK x \in {[i \in DOMAIN search.frontier |->
                     IF Active(search.frontier[i])
                     THEN Children(search.frontier[i]) ELSE <<search.frontier[i]>>]} :
          \E y \in {FlattenSeq(x)},
             z \in {FlattenSeq([i \in DOMAIN x |->
                                 IF Active(search.frontier[i]) THEN x[i] ELSE <<>>])} :
          \E u \in {Deduplicated(y)} :
          \E v \in {Ranked(u)} :
          \E w \in {SubSeq(v, 1, IF Len(v) < BeamWidth THEN Len(v) ELSE BeamWidth)} :
             Look(z, Len(z), [search EXCEPT !.frontier = w, !.seen = @ \cup ToSet(w)])
    BY DEF Beam
  <2>2. x = expanded
    BY DEF Expanded
  <2>3. FlattenSeq([i \in DOMAIN x |-> IF Active(search.frontier[i]) THEN x[i] ELSE <<>>])
          = FlattenSeq(NewOnes(f, x))
    BY DEF NewOnes
  <2>4. \E u \in {Deduplicated(FlattenSeq(x))} :
        \E v \in {Ranked(u)} :
        \E w \in {SubSeq(v, 1, IF Len(v) < BeamWidth THEN Len(v) ELSE BeamWidth)} :
          Look(FlattenSeq(NewOnes(f, x)), Len(FlattenSeq(NewOnes(f, x))),
               [search EXCEPT !.frontier = w, !.seen = @ \cup ToSet(w)])
    BY <2>1, <2>3
  <2> HIDE DEF expanded
  <2>5. Look(FlattenSeq(NewOnes(f, x)), Len(FlattenSeq(NewOnes(f, x))),
             [search EXCEPT !.frontier = BestOf(Ranked(Deduplicated(FlattenSeq(x)))),
                            !.seen = @ \cup ToSet(BestOf(Ranked(Deduplicated(FlattenSeq(x)))))])
    BY <2>4 DEF BestOf
  <2>6. t = Looked(FlattenSeq(NewOnes(f, x)), Len(FlattenSeq(NewOnes(f, x))),
             [search EXCEPT !.frontier = BestOf(Ranked(Deduplicated(FlattenSeq(x)))),
                            !.seen = @ \cup ToSet(BestOf(Ranked(Deduplicated(FlattenSeq(x)))))])
    BY <2>5 DEF Look, Looked
  <2> QED BY <2>2, <2>6
<1>6. \E i \in DOMAIN f : Active(f[i])
  BY <1>1 DEF ToSet
<1> HIDE DEF t
<1>7. PICK d \in Nat :
           /\ \A n \in search.tried : Len(n.trail) <= d
           /\ IsList(batch) /\ IsRow(batch)
           /\ \A x \in Range(batch) : IsWalk(x, outcome) /\ Len(x.trail) = d + 1
           /\ IsList(all) /\ Range(all) # {} /\ Range(batch) \subseteq Range(all)
           /\ \A x \in Range(all) : IsWalk(x, outcome) /\ (Active(x) => Len(x.trail) = d + 1)
  <2>1. /\ f = search.frontier
        /\ expanded = Expanded(f) /\ all = FlattenSeq(expanded)
        /\ batch = FlattenSeq(NewOnes(f, expanded))
    OBVIOUS
  <2> HIDE DEF f, expanded, all, batch
  <2> QED BY <1>2, <1>4, <1>6, <2>1, BeamBatch
<1> HIDE DEF expanded, all, batch
<1>8. /\ best \in Seq(Nodes) /\ IsList(best) /\ Range(best) \subseteq Range(all) /\ Range(best) # {}
      /\ \A i, j \in DOMAIN best : best[i].query = best[j].query => i = j
      /\ setting.margin = 0 => \E e \in Range(best) : \A x \in Range(all) : x.reward <= e.reward
  <2>1. ranked = Ranked(Deduplicated(all)) /\ best = BestOf(ranked)
    OBVIOUS
  <2> HIDE DEF ranked, best
  <2> QED BY <1>7, <2>1, BeamFrontier
<1> HIDE DEF ranked, best
<1>9. ToSet(best) = Range(best) /\ Range(best) \subseteq Nodes /\ IsFiniteSet(Range(best))
      /\ \A i \in DOMAIN best : best[i] \in Range(best)
  BY <1>7, <1>8, ListIsFinite DEF ToSet, Range, IsWalk
<1>10. search \in Searches
  BY <1>2 DEF HoldsWalks
<1>11. /\ after \in Searches /\ after.tried = search.tried /\ after.explored = search.explored
       /\ after.strategy = search.strategy /\ after.node = search.node
       /\ after.queue = search.queue /\ after.known = search.known /\ after.answer = search.answer
       /\ after.frontier = best /\ after.seen = search.seen \cup Range(best)
  <2> DEFINE seen == search.seen \cup Range(best)
  <2>1. seen \in SUBSET Nodes /\ after = [search EXCEPT !.frontier = best, !.seen = seen]
    BY <1>9, <1>10 DEF Searches
  <2>2. seen = search.seen \cup Range(best)
    OBVIOUS
  <2> HIDE DEF Nodes, seen, f, after
  <2> QED BY <1>8, <1>10, <2>1, <2>2 DEF Searches
<1> HIDE DEF after, f
<1>12. HoldsWalks(after, outcome)
  <2>1. \A n \in Range(best) : IsWalk(n, outcome)
    BY <1>7, <1>8
  <2>2. \A i \in DOMAIN after.frontier : IsWalk(after.frontier[i], outcome)
    BY <1>9, <1>11, <2>1
  <2>3. IsFiniteSet(after.seen)
    <3>1. IsFiniteSet(search.seen)
      BY <1>2 DEF HoldsWalks
    <3>2. IsFiniteSet(search.seen \cup Range(best))
      BY <1>9, <3>1, FS_Union
    <3> QED BY <1>11, <3>2
  <2>4. \A n \in after.seen \cup after.tried : IsWalk(n, outcome)
    BY <1>2, <1>11, <2>1 DEF HoldsWalks
  <2>5. /\ \A q \in DOMAIN after.known : after.known[q] \in after.seen
        /\ RootNode \in after.seen /\ IsFiniteSet(after.tried)
        /\ \A i \in DOMAIN after.queue : IsOption(after.queue[i], outcome)
        /\ IsWalk(after.node, outcome)
    BY <1>2, <1>11 DEF HoldsWalks
  <2> QED BY <1>11, <2>2, <2>3, <2>4, <2>5 DEF HoldsWalks
<1>13. Range(batch) \cap search.tried = {} /\ IsFiniteSet(search.tried)
  <2>1. ASSUME NEW n \in search.tried, n \in Range(batch) PROVE FALSE
    <3>1. Len(n.trail) <= d /\ Len(n.trail) = d + 1
      BY <1>7, <2>1
    <3> QED BY <3>1
  <2> QED BY <1>2, <2>1 DEF HoldsWalks
<1> DEFINE scored == Len(batch)
<1>14. scored \in Int /\ Cardinality(search.tried \cup Range(batch)) = search.explored + scored
  BY <1>4, <1>7, <1>13, CountsMore
<1> HIDE DEF scored
<1>15. \/ SearchInv(t, outcome, setting)
       \/ /\ HoldsWalks(t, outcome) /\ RaisesOnce(t, outcome) /\ IsLooked(t, batch, scored, after)
          /\ \A x \in Range(batch) : ~Raised(x)
  <2>1. after.answer # Failed
    BY <1>1, <1>11, AnswersDiffer
  <2>2. t = Looked(batch, scored, after)
    BY <1>5 DEF scored
  <2> QED BY <1>1, <1>2, <1>7, <1>11, <1>12, <1>14, <2>1, <2>2, LookedIs
<1>16. ASSUME HoldsWalks(t, outcome), RaisesOnce(t, outcome), IsLooked(t, batch, scored, after)
       PROVE  SearchInv(t, outcome, setting)
  <2>1. /\ t.strategy = search.strategy /\ t.answer = Nothing
        /\ t.tried = search.tried \cup Range(batch) /\ t.explored = Cardinality(t.tried)
        /\ t.frontier = best /\ t.seen = search.seen \cup Range(best)
    BY <1>1, <1>11, <1>14, <1>16 DEF IsLooked
  <2>2. LooksAhead(t)
    <3>1. \A i \in DOMAIN best : Active(best[i]) => Len(best[i].trail) = d + 1
      BY <1>7, <1>8, <1>9
    <3>2. ASSUME NEW n \in t.tried PROVE Len(n.trail) <= d + 1
      <4>1. CASE n \in search.tried
        <5>1. Len(n.trail) \in Nat
          BY <1>2, <4>1, NodeIs DEF HoldsWalks, IsWalk
        <5> QED BY <1>7, <4>1, <5>1
      <4>2. CASE n \in Range(batch)
        <5>1. Len(n.trail) = d + 1
          BY <1>7, <4>2
        <5> QED BY <5>1
      <4> QED BY <2>1, <4>1, <4>2
    <3>3. d + 1 \in Nat
      OBVIOUS
    <3> QED BY <1>8, <2>1, <3>1, <3>2, <3>3 DEF LooksAhead
  <2>3. Counted(t)
    BY <1>3, <2>1, <2>2 DEF Counted
  <2>4. ASSUME setting.margin = 0, NEW n \in t.tried PROVE \E e \in t.seen : n.reward <= e.reward
    <3>1. CASE n \in search.tried
      BY <1>4, <2>1, <2>4, <3>1
    <3>2. CASE n \in Range(batch)
      BY <1>7, <1>8, <2>1, <2>4, <3>2
    <3> QED BY <2>1, <2>4, <3>1, <3>2
  <2>5. Near(t, setting)
    BY <1>3, <2>1, <2>4, AnswersDiffer DEF Near
  <2> QED BY <1>3, <1>16, <2>1, <2>3, <2>5 DEF SearchInv, Covers
<1>17. SearchInv(t, outcome, setting)
  BY <1>15, <1>16
<1> QED BY <1>17 DEF t

(* One child of exhaustive search: the queue goes on behind its head.      *)
LEMMA NextInLine ==
  ASSUME NEW T, NEW q \in Seq(T), q # <<>>, NEW r \in Seq(T), NEW w, w = Tail(q) \o r
  PROVE  /\ w \in Seq(T) /\ Len(q) \in Nat \ {0} /\ Len(r) \in Nat
         /\ DOMAIN q = 1 .. Len(q) /\ DOMAIN r = 1 .. Len(r) /\ DOMAIN w = 1 .. Len(q) - 1 + Len(r)
         /\ 1 \in DOMAIN q /\ Head(q) = q[1]
         /\ \A i \in DOMAIN w :
              \/ i < Len(q) /\ i + 1 \in DOMAIN q /\ w[i] = q[i + 1]
              \/ ~(i < Len(q)) /\ i - (Len(q) - 1) \in DOMAIN r /\ w[i] = r[i - (Len(q) - 1)]
         /\ \A i \in DOMAIN q : i # 1 => i - 1 \in DOMAIN w /\ w[i - 1] = q[i]
         /\ \A i \in DOMAIN r : Len(q) - 1 + i \in DOMAIN w /\ w[Len(q) - 1 + i] = r[i]
<1>1. /\ Len(q) \in Nat \ {0} /\ Len(r) \in Nat /\ Tail(q) \in Seq(T) /\ Len(Tail(q)) = Len(q) - 1
      /\ \A i \in 1 .. Len(q) - 1 : Tail(q)[i] = q[i + 1]
      /\ DOMAIN q = 1 .. Len(q) /\ DOMAIN r = 1 .. Len(r) /\ Head(q) = q[1]
  OBVIOUS
<1> DEFINE u == Tail(q)
<1>2. u \in Seq(T) /\ w = u \o r
  BY <1>1
<1> HIDE DEF u
<1>3. /\ w \in Seq(T) /\ DOMAIN w = 1 .. Len(u) + Len(r)
      /\ \A i \in 1 .. Len(u) : w[i] = u[i]
      /\ \A i \in 1 .. Len(r) : w[Len(u) + i] = r[i]
      /\ \A i \in 1 .. Len(u) + Len(r) : i > Len(u) => w[i] = r[i - Len(u)]
  <2>1. w \in Seq(T) /\ DOMAIN w = 1 .. Len(u) + Len(r)
    BY <1>2
  <2>2. \A i \in 1 .. Len(u) : w[i] = u[i]
    BY <1>2
  <2>3. \A i \in 1 .. Len(u) + Len(r) : i > Len(u) => w[i] = r[i - Len(u)]
    BY <1>2
  <2>4. \A i \in 1 .. Len(r) : /\ Len(u) + i \in 1 .. Len(u) + Len(r) /\ Len(u) + i > Len(u)
                              /\ (Len(u) + i) - Len(u) = i
    BY <1>2
  <2>5. \A i \in 1 .. Len(r) : w[Len(u) + i] = r[i]
    BY <2>3, <2>4
  <2> QED BY <2>1, <2>2, <2>3, <2>5
<1>4. Len(u) = Len(q) - 1 /\ \A i \in 1 .. Len(q) - 1 : u[i] = q[i + 1]
  BY <1>1 DEF u
<1>5. 1 \in DOMAIN q /\ DOMAIN w = 1 .. Len(q) - 1 + Len(r)
  BY <1>1, <1>3, <1>4
<1>6. ASSUME NEW i \in DOMAIN w
      PROVE \/ i < Len(q) /\ i + 1 \in DOMAIN q /\ w[i] = q[i + 1]
            \/ ~(i < Len(q)) /\ i - (Len(q) - 1) \in DOMAIN r /\ w[i] = r[i - (Len(q) - 1)]
  <2>1. CASE i < Len(q)
    <3>1. i \in 1 .. Len(q) - 1
      BY <1>1, <1>5, <2>1
    <3> QED BY <1>1, <1>3, <1>4, <2>1, <3>1
  <2>2. CASE ~(i < Len(q))
    <3>1. i > Len(u) /\ i - (Len(q) - 1) \in 1 .. Len(r)
      BY <1>1, <1>4, <1>5, <2>2
    <3> QED BY <1>1, <1>3, <1>4, <1>5, <2>2, <3>1
  <2> QED BY <2>1, <2>2
<1>7. ASSUME NEW i \in DOMAIN q, i # 1 PROVE i - 1 \in DOMAIN w /\ w[i - 1] = q[i]
  <2>1. i - 1 \in 1 .. Len(q) - 1 /\ i - 1 + 1 = i
    BY <1>1, <1>7
  <2> QED BY <1>1, <1>3, <1>4, <2>1
<1>8. ASSUME NEW i \in DOMAIN r PROVE Len(q) - 1 + i \in DOMAIN w /\ w[Len(q) - 1 + i] = r[i]
  BY <1>1, <1>3, <1>4, <1>5
<1> QED BY <1>1, <1>3, <1>5, <1>6, <1>7, <1>8

HasActionsOnce(r) == \A i, j \in DOMAIN r : r[i][2] = r[j][2] => i = j

LEMMA OptionsAre ==
  ASSUME NEW o, NEW n, IsWalk(n, o), NEW r, r = Options(n)
  PROVE  /\ r \in Seq(Nodes \X Int)
         /\ \A i \in DOMAIN r : r[i][1] = n /\ IsOption(r[i], o)
         /\ HasActionsOnce(r)
         /\ Active(n) => \A a \in ToSet(Offered[n.query]) : \E i \in DOMAIN r : r[i] = <<n, a>>
         /\ DOMAIN r # {} => Active(n)
<1> DEFINE s == Offered[n.query]
<1>1. n \in Nodes /\ n.query \in Sql
  BY NodeIs DEF IsWalk
<1>2. /\ DOMAIN s = 1 .. Len(s) /\ Len(s) \in Nat
      /\ \A i, j \in DOMAIN s : s[i] = s[j] => i = j
      /\ \A i \in DOMAIN s : s[i] \in ToSet(s) /\ s[i] \in Int
      /\ \A a \in ToSet(s) : a \in Int /\ \E i \in DOMAIN s : s[i] = a
  <2> DEFINE q == n.query
  <2>1. q \in Sql
    BY <1>1
  <2> HIDE DEF q
  <2>2. Offered[q] \in Seq(Int) /\ \A i, j \in DOMAIN Offered[q] : Offered[q][i] = Offered[q][j] => i = j
    BY <2>1, OfferedIs
  <2>3. \A i \in DOMAIN Offered[q] : Offered[q][i] \in ToSet(Offered[q]) /\ Offered[q][i] \in Int
    BY <2>1, <2>2, OfferedIs
  <2>4. \A a \in ToSet(Offered[q]) : a \in Int /\ \E i \in DOMAIN Offered[q] : Offered[q][i] = a
    BY <2>1, OfferedIs
  <2>5. DOMAIN Offered[q] = 1 .. Len(Offered[q]) /\ Len(Offered[q]) \in Nat
    BY <2>2
  <2> QED BY <2>2, <2>3, <2>4, <2>5 DEF q
<1>3. CASE ~Active(n)
  <2>1. r = <<>>
    BY <1>3 DEF Options
  <2>2. r \in Seq(Nodes \X Int) /\ DOMAIN r = {}
    BY <2>1
  <2> QED BY <1>3, <2>2 DEF HasActionsOnce
<1>4. CASE Active(n)
  <2>1. r = [i \in DOMAIN s |-> <<n, s[i]>>]
    BY <1>4 DEF Options
  <2> HIDE DEF s
  <2>2. \A i \in DOMAIN s : <<n, s[i]>> \in Nodes \X Int
    BY <1>1, <1>2
  <2>3. r \in [1 .. Len(s) -> Nodes \X Int]
    BY <1>2, <2>1, <2>2
  <2>4. r \in Seq(Nodes \X Int) /\ DOMAIN r = DOMAIN s
    BY <1>2, <2>3
  <2>5. \A i \in DOMAIN r : r[i] = <<n, s[i]>> /\ r[i][1] = n /\ r[i][2] = s[i] /\ r[i] \in Nodes \X Int
    BY <2>1, <2>2, <2>4
  <2>6. \A i \in DOMAIN r : IsOption(r[i], o)
    BY <1>2, <1>4, <2>4, <2>5 DEF IsOption, s
  <2>7. ASSUME NEW a \in ToSet(s) PROVE \E i \in DOMAIN r : r[i] = <<n, a>>
    <3>1. PICK i \in DOMAIN s : s[i] = a
      BY <1>2
    <3> QED BY <2>4, <2>5, <3>1
  <2> QED BY <1>2, <1>4, <2>4, <2>5, <2>6, <2>7 DEF s, HasActionsOnce
<1> QED BY <1>3, <1>4

LEMMA OptionIs ==
  ASSUME NEW o, NEW p, IsOption(p, o)
  PROVE  /\ p = <<p[1], p[2]>> /\ p[1] \in Nodes /\ p[1].trail \in Seq(Edges)
         /\ <<p[1].query, p[2]>> \in Edges /\ Pending(p) \in Seq(Edges)
         /\ Pending(p) # <<>> /\ Len(Pending(p)) = Len(p[1].trail) + 1
<1>1. p \in Nodes \X Int /\ p[2] \in ToSet(Offered[p[1].query])
  BY DEF IsOption
<1>2. p = <<p[1], p[2]>> /\ p[1] \in Nodes /\ p[1].trail \in Seq(Edges) /\ p[1].query \in Sql
  BY <1>1, NodeIs
<1>3. <<p[1].query, p[2]>> \in Edges
  <2> DEFINE q == p[1].query
             a == p[2]
  <2>1. q \in Sql /\ a \in ToSet(Offered[q])
    BY <1>1, <1>2
  <2> HIDE DEF q, a
  <2>2. <<q, a>> \in Edges
    BY <2>1, OfferedIs
  <2> QED BY <2>2 DEF q, a
<1> QED BY <1>2, <1>3, LongerTrail DEF Pending

Refused(s, c) == c.query \in DOMAIN s.known /\ PreferredOrEqual(s.known[c.query], c)

(* What exhaustive search gains from the child c.                          *)
IsExpansion(t, s, c, r) ==
  /\ t.queue = Tail(s.queue) \o r /\ t.tried = s.tried \cup {c}
  /\ \/ Refused(s, c) /\ r = <<>> /\ t.seen = s.seen /\ t.known = s.known
     \/ /\ ~Refused(s, c) /\ r = Options(c) /\ t.seen = s.seen \cup {c}
        /\ t.known = With(s.known, c.query, c)

AreGains(t, s, c, r, o) ==
  /\ r \in Seq(Nodes \X Int)
  /\ \A i \in DOMAIN r : r[i][1] = c /\ IsOption(r[i], o)
  /\ HasActionsOnce(r)
  /\ DOMAIN r # {} => Active(c) /\ c \in t.seen
  /\ s.seen \subseteq t.seen /\ t.seen \subseteq s.seen \cup {c}

LEMMA GainsAre ==
  ASSUME NEW o, NEW s, NEW t, NEW c, IsWalk(c, o), NEW r, IsExpansion(t, s, c, r)
  PROVE  AreGains(t, s, c, r, o)
<1>1. CASE r = <<>>
  <2>1. r \in Seq(Nodes \X Int) /\ DOMAIN r = {}
    BY <1>1
  <2> QED BY <2>1 DEF IsExpansion, HasActionsOnce, AreGains
<1>2. CASE r # <<>>
  <2>1. r = Options(c) /\ c \in t.seen /\ t.seen = s.seen \cup {c}
    BY <1>2 DEF IsExpansion
  <2>2. /\ r \in Seq(Nodes \X Int)
        /\ \A i \in DOMAIN r : r[i][1] = c /\ IsOption(r[i], o)
        /\ HasActionsOnce(r)
        /\ DOMAIN r # {} => Active(c)
    BY <2>1, OptionsAre
  <2> QED BY <2>1, <2>2 DEF AreGains
<1> QED BY <1>1, <1>2

LEMMA ExpansionQueues ==
  ASSUME NEW o, NEW s, HoldsWalks(s, o), QueuesAhead(s), s.queue # <<>>,
         NEW c, IsWalk(c, o), c.trail = Pending(s.queue[1]),
         NEW r, NEW t, IsExpansion(t, s, c, r)
  PROVE  /\ QueuesAhead(t) /\ c \notin s.tried
         /\ \A i \in DOMAIN t.queue : IsOption(t.queue[i], o)
<1> DEFINE q == s.queue
           w == t.queue
           h == q[1]
<1>1. q \in Seq(Nodes \X Int) /\ \A i \in DOMAIN q : IsOption(q[i], o)
  BY DEF HoldsWalks, Searches
<1>2. /\ r \in Seq(Nodes \X Int)
      /\ \A i \in DOMAIN r : r[i][1] = c /\ IsOption(r[i], o)
      /\ \A i, j \in DOMAIN r : r[i][2] = r[j][2] => i = j
  <2> HIDE DEF q, w, h
  <2>1. IsWalk(c, o) /\ IsExpansion(t, s, c, r)
    OBVIOUS
  <2>2. AreGains(t, s, c, r, o)
    BY <2>1, GainsAre
  <2> QED BY <2>2 DEF HasActionsOnce, AreGains
<1>3. w = Tail(q) \o r /\ t.tried = s.tried \cup {c}
  BY DEF IsExpansion
<1>4. q # <<>>
  OBVIOUS
<1>5. \A i, j \in DOMAIN q : Pending(q[i]) = Pending(q[j]) => i = j
  BY DEF QueuesAhead
<1>6. /\ \A i \in DOMAIN q : q[i][1].trail \in Trails(s) /\ Pending(q[i]) \notin Trails(s)
      /\ \A n \in s.tried : \E u \in Trails(s), x \in Edges : n.trail = Append(u, x)
  BY DEF QueuesAhead
<1>7. \A n \in s.tried : IsWalk(n, o)
  BY DEF HoldsWalks
<1>8. c.trail = Pending(h)
  OBVIOUS
<1> HIDE DEF q, w, h
<1>9. /\ Len(q) \in Nat \ {0} /\ Len(r) \in Nat
      /\ DOMAIN q = 1 .. Len(q) /\ DOMAIN r = 1 .. Len(r) /\ DOMAIN w = 1 .. Len(q) - 1 + Len(r)
      /\ 1 \in DOMAIN q
  BY <1>1, <1>2, <1>3, <1>4, NextInLine
<1> DEFINE IsOld(i) == i < Len(q) /\ i + 1 \in DOMAIN q /\ w[i] = q[i + 1]
           IsNew(i) == ~(i < Len(q)) /\ i - (Len(q) - 1) \in DOMAIN r /\ w[i] = r[i - (Len(q) - 1)]
<1>10. \A i \in DOMAIN w : IsOld(i) \/ IsNew(i)
  BY <1>1, <1>2, <1>3, <1>4, NextInLine
<1>11. h = q[1]
  BY DEF h, q
<1>12. \A i \in DOMAIN w : IsOption(w[i], o)
  BY <1>1, <1>2, <1>10
<1>13. c.trail \notin Trails(s) /\ c \notin s.tried
  <2>1. c.trail \notin Trails(s)
    BY <1>6, <1>8, <1>9, <1>11
  <2>2. c \in s.tried => c.trail \in Trails(s)
    BY DEF Trails
  <2> QED BY <2>1, <2>2
<1>14. Trails(t) = Trails(s) \cup {c.trail}
  BY <1>3 DEF Trails
<1>15. \A u \in Trails(s) : u \in Seq(Edges)
  <2>1. \A n \in s.tried : n.trail \in Seq(Edges)
    BY <1>7, NodeIs DEF IsWalk
  <2>2. <<>> \in Seq(Edges)
    OBVIOUS
  <2>3. \A u \in Trails(s) : u = <<>> \/ \E n \in s.tried : u = n.trail
    BY DEF Trails
  <2> QED BY <2>1, <2>2, <2>3
<1>16. c.trail \in Seq(Edges) /\ c.trail # <<>>
  BY <1>1, <1>8, <1>9, <1>11, OptionIs
<1>17. ASSUME NEW i \in DOMAIN r
       PROVE  /\ <<c.query, r[i][2]>> \in Edges /\ Pending(r[i]) = Append(c.trail, <<c.query, r[i][2]>>)
              /\ Pending(r[i]) \notin Trails(t)
  <2>1. <<c.query, r[i][2]>> \in Edges /\ Pending(r[i]) = Append(c.trail, <<c.query, r[i][2]>>)
    BY <1>2, OptionIs DEF Pending
  <2> DEFINE x == <<c.query, r[i][2]>>
  <2> HIDE DEF x
  <2>2. x \in Edges /\ Pending(r[i]) = Append(c.trail, x)
    BY <2>1 DEF x
  <2>3. Pending(r[i]) # <<>> /\ Pending(r[i]) # c.trail
    <3>1. Len(Append(c.trail, x)) = Len(c.trail) + 1 /\ Len(c.trail) \in Nat /\ Append(c.trail, x) # <<>>
      BY <1>16, <2>2, LongerTrail
    <3> QED BY <2>2, <3>1
  <2>4. ASSUME NEW n \in s.tried PROVE n.trail # Pending(r[i])
    <3>1. PICK u \in Trails(s), y \in Edges : n.trail = Append(u, y)
      BY <1>6
    <3>2. u # c.trail /\ u \in Seq(Edges)
      BY <1>13, <1>15
    <3>3. Append(u, y) # Append(c.trail, x)
      BY <1>16, <2>2, <3>2, SameLongerTrail
    <3> QED BY <2>2, <3>1, <3>3
  <2> QED BY <1>14, <2>1, <2>3, <2>4 DEF Trails
<1>18. ASSUME NEW i \in DOMAIN w
       PROVE  w[i][1].trail \in Trails(t) /\ Pending(w[i]) \notin Trails(t)
  <2>1. CASE IsOld(i)
    <3>1. i \in Nat /\ i # 0
      BY <1>9
    <3>2. i + 1 # 1
      BY <3>1
    <3>3. Pending(q[i + 1]) # c.trail
      BY <1>5, <1>8, <1>9, <1>11, <2>1, <3>2
    <3> QED BY <1>6, <1>14, <2>1, <3>3
  <2>2. CASE IsNew(i)
    BY <1>2, <1>14, <1>17, <2>2
  <2> QED BY <1>10, <2>1, <2>2
<1>19. ASSUME NEW i \in DOMAIN w, NEW j \in DOMAIN w, Pending(w[i]) = Pending(w[j])
       PROVE  i = j
  <2>1. i \in Nat /\ j \in Nat
    BY <1>9
  <2>2. \A k \in DOMAIN w : IsOld(k) => w[k][1].trail \in Trails(s)
    BY <1>6
  <2>3. \A k \in DOMAIN w : IsNew(k) => w[k][1].trail = c.trail
    BY <1>2
  <2>4. w[i][1].trail = w[j][1].trail
    <3> DEFINE a == w[i]
               b == w[j]
    <3>1. IsOption(a, o) /\ IsOption(b, o) /\ Pending(a) = Pending(b)
      BY <1>12, <1>19
    <3> HIDE DEF a, b
    <3>2. PICK x \in Edges : a[1].trail \in Seq(Edges) /\ Pending(a) = Append(a[1].trail, x)
      BY <3>1, OptionIs DEF Pending
    <3>3. PICK y \in Edges : b[1].trail \in Seq(Edges) /\ Pending(b) = Append(b[1].trail, y)
      BY <3>1, OptionIs DEF Pending
    <3>4. a[1].trail = b[1].trail
      <4> DEFINE u == a[1].trail
                 v == b[1].trail
      <4>1. u \in Seq(Edges) /\ v \in Seq(Edges) /\ Append(u, x) = Append(v, y)
        BY <3>1, <3>2, <3>3
      <4> HIDE DEF u, v
      <4>2. u = v
        BY <4>1, SameLongerTrail
      <4> QED BY <4>2 DEF u, v
    <3> QED BY <3>4 DEF a, b
  <2>5. CASE IsOld(i) /\ IsOld(j)
    <3>1. i + 1 = j + 1
      BY <1>5, <1>19, <2>5
    <3> QED BY <2>1, <3>1
  <2>6. CASE IsNew(i) /\ IsNew(j)
    <3> DEFINE k == i - (Len(q) - 1)
               l == j - (Len(q) - 1)
    <3>1. k \in DOMAIN r /\ l \in DOMAIN r /\ Pending(r[k]) = Pending(r[l])
      BY <1>19, <2>6
    <3> HIDE DEF k, l
    <3>2. <<c.query, r[k][2]>> = <<c.query, r[l][2]>>
      <4>1. /\ <<c.query, r[k][2]>> \in Edges /\ Pending(r[k]) = Append(c.trail, <<c.query, r[k][2]>>)
            /\ <<c.query, r[l][2]>> \in Edges /\ Pending(r[l]) = Append(c.trail, <<c.query, r[l][2]>>)
        BY <1>17, <3>1
      <4> DEFINE x == <<c.query, r[k][2]>>
                 y == <<c.query, r[l][2]>>
      <4>2. x \in Edges /\ y \in Edges /\ Append(c.trail, x) = Append(c.trail, y)
        BY <3>1, <4>1
      <4> HIDE DEF x, y
      <4>3. x = y
        BY <1>16, <4>2, SameLongerTrail
      <4> QED BY <4>3 DEF x, y
    <3>3. k = l
      BY <1>2, <3>1, <3>2
    <3> QED BY <1>9, <2>1, <3>3 DEF k, l
  <2>7. ~(IsOld(i) /\ IsNew(j)) /\ ~(IsNew(i) /\ IsOld(j))
    BY <1>13, <2>2, <2>3, <2>4
  <2> QED BY <1>10, <2>5, <2>6, <2>7
<1>20. ASSUME NEW n \in t.tried PROVE \E u \in Trails(t), x \in Edges : n.trail = Append(u, x)
  <2>1. CASE n \in s.tried
    BY <1>6, <1>14, <2>1
  <2>2. CASE n = c
    <3>1. IsOption(h, o) /\ h[1].trail \in Trails(s)
      BY <1>1, <1>6, <1>9, <1>11
    <3>2. <<h[1].query, h[2]>> \in Edges /\ c.trail = Append(h[1].trail, <<h[1].query, h[2]>>)
      BY <1>8, <3>1, OptionIs DEF Pending
    <3> QED BY <1>14, <2>2, <3>1, <3>2
  <2> QED BY <1>3, <1>20, <2>1, <2>2
<1>21. QueuesAhead(t)
  <2>1. \A i, j \in DOMAIN t.queue : Pending(t.queue[i]) = Pending(t.queue[j]) => i = j
    BY <1>19 DEF w
  <2>2. \A i \in DOMAIN t.queue : t.queue[i][1].trail \in Trails(t) /\ Pending(t.queue[i]) \notin Trails(t)
    BY <1>18 DEF w
  <2>3. \A n \in t.tried : \E u \in Trails(t), x \in Edges : n.trail = Append(u, x)
    BY <1>20
  <2> QED BY <2>1, <2>2, <2>3 DEF QueuesAhead
<1> QED BY <1>12, <1>13, <1>21 DEF w

LEMMA ExpansionInTurn ==
  ASSUME NEW o, NEW s, HoldsWalks(s, o), InTurn(s), s.queue # <<>>,
         \A i \in DOMAIN s.queue : s.queue[i][1] \in s.seen,
         NEW c, IsWalk(c, o), Len(c.trail) = Len(s.queue[1][1].trail) + 1,
         NEW r, NEW t, IsExpansion(t, s, c, r)
  PROVE  InTurn(t)
<1> DEFINE q == s.queue
           w == t.queue
           d(i) == Len(q[i][1].trail)
           e(i) == Len(w[i][1].trail)
<1>1. q \in Seq(Nodes \X Int) /\ q # <<>> /\ w = Tail(q) \o r
  BY DEF HoldsWalks, Searches, IsExpansion
<1>2. r \in Seq(Nodes \X Int) /\ \A i \in DOMAIN r : r[i][1] = c
  <2> HIDE DEF q, w
  <2>1. IsWalk(c, o) /\ IsExpansion(t, s, c, r)
    OBVIOUS
  <2>2. AreGains(t, s, c, r, o)
    BY <2>1, GainsAre
  <2> QED BY <2>2 DEF AreGains
<1>3. t.seen \subseteq s.seen \cup {c}
  <2> HIDE DEF q, w
  <2>1. IsWalk(c, o) /\ IsExpansion(t, s, c, r)
    OBVIOUS
  <2>2. AreGains(t, s, c, r, o)
    BY <2>1, GainsAre
  <2> QED BY <2>2 DEF AreGains
<1>4. /\ \A i, j \in DOMAIN q : i <= j => d(i) <= d(j)
      /\ \A i \in DOMAIN q : \A n \in s.seen : Len(n.trail) <= d(i) + 1
  BY DEF InTurn
<1>5. Len(c.trail) = d(1) + 1
  OBVIOUS
<1>6. \A i \in DOMAIN q : d(i) \in Nat /\ q[i][1] \in s.seen
  <2>1. \A i \in DOMAIN q : q[i][1] \in Nodes
    BY <1>1
  <2> QED BY <2>1, NodeIs
<1>7. \A n \in s.seen : Len(n.trail) \in Nat
  BY NodeIs DEF HoldsWalks, IsWalk
<1> HIDE DEF q, w
<1>8. /\ Len(q) \in Nat \ {0} /\ 1 \in DOMAIN q
      /\ DOMAIN q = 1 .. Len(q) /\ DOMAIN r = 1 .. Len(r) /\ DOMAIN w = 1 .. Len(q) - 1 + Len(r)
      /\ \A i \in DOMAIN w :
           \/ i < Len(q) /\ i + 1 \in DOMAIN q /\ w[i] = q[i + 1]
           \/ ~(i < Len(q)) /\ i - (Len(q) - 1) \in DOMAIN r /\ w[i] = r[i - (Len(q) - 1)]
      /\ Len(r) \in Nat
  BY <1>1, <1>2, NextInLine
<1>9. \A i \in DOMAIN w : \/ i < Len(q) /\ i + 1 \in DOMAIN q /\ e(i) = d(i + 1)
                          \/ ~(i < Len(q)) /\ e(i) = d(1) + 1
  BY <1>2, <1>5, <1>8
<1>10. \A i \in DOMAIN q : d(1) <= d(i) /\ d(i) <= d(1) + 1
  <2>1. TAKE i \in DOMAIN q
  <2>2. 1 <= i
    BY <1>8
  <2>3. d(1) <= d(i)
    BY <1>4, <1>8, <2>2
  <2>4. d(i) <= d(1) + 1
    BY <1>4, <1>6, <1>8
  <2> QED BY <2>3, <2>4
<1>11. \A n \in t.seen : Len(n.trail) \in Nat /\ Len(n.trail) <= d(1) + 1
  <2>1. TAKE n \in t.seen
  <2>2. d(1) \in Nat
    BY <1>6, <1>8
  <2>3. CASE n \in s.seen
    BY <1>4, <1>7, <1>8, <2>3
  <2>4. CASE n = c
    BY <1>5, <2>2, <2>4
  <2> QED BY <1>3, <2>3, <2>4
<1> HIDE DEF d, e
<1>12. ASSUME NEW i \in DOMAIN w, NEW j \in DOMAIN w, i <= j PROVE e(i) <= e(j)
  <2>1. i \in Nat /\ j \in Nat
    BY <1>8
  <2>2. CASE i < Len(q) /\ j < Len(q)
    BY <1>4, <1>9, <1>12, <2>1, <2>2
  <2>3. CASE i < Len(q) /\ ~(j < Len(q))
    BY <1>9, <1>10, <2>1, <2>3
  <2>4. CASE ~(i < Len(q)) /\ ~(j < Len(q))
    <3>1. e(i) = d(1) + 1 /\ e(j) = d(1) + 1 /\ d(1) \in Nat
      BY <1>6, <1>8, <1>9, <2>4
    <3> QED BY <3>1
  <2> QED BY <1>8, <1>12, <2>1, <2>2, <2>3, <2>4
<1>13. ASSUME NEW i \in DOMAIN w, NEW n \in t.seen PROVE Len(n.trail) <= e(i) + 1
  <2>1. d(1) \in Nat /\ Len(n.trail) \in Nat /\ Len(n.trail) <= d(1) + 1
    BY <1>6, <1>8, <1>11
  <2>2. e(i) \in Nat /\ d(1) <= e(i)
    BY <1>6, <1>9, <1>10, <2>1
  <2> QED BY <2>1, <2>2
<1> QED BY <1>12, <1>13 DEF InTurn, e, w

(* A refused child: what is known of its query stands for it.              *)
LEMMA KnownStandsFor ==
  ASSUME IsSetting, NEW o, NEW s, HoldsWalks(s, o), KnowsTheBest(s, setting),
         NEW c, c \in Nodes, Refused(s, c), NEW l \in Nat, \A n \in s.seen : Len(n.trail) <= l
  PROVE  \E f \in s.seen : StandsFor(f, c.query, l, c.reward, setting)
<1> DEFINE k == s.known[c.query]
<1>1. k \in s.seen /\ PreferredOrEqual(k, c) /\ c.query \in DOMAIN s.known
  BY DEF Refused, HoldsWalks
<1>2. k \in Nodes
  BY <1>1 DEF HoldsWalks, IsWalk
<1>3. PICK e \in s.seen : /\ IsOpen(e, setting) /\ e.query = c.query
                          /\ Len(e.trail) <= Len(k.trail) /\ k.reward <= e.reward
  BY <1>1 DEF KnowsTheBest
<1>4. e \in Nodes
  BY DEF HoldsWalks, IsWalk
<1> HIDE DEF k
<1>5. c.reward <= k.reward + setting.margin /\ setting.margin \in Nat
  BY <1>1, <1>2, PreferredIs
<1>6. k.reward \in Int /\ e.reward \in Int /\ c.reward \in Int
  BY <1>2, <1>4, NodeIs
<1>7. Len(k.trail) \in Nat /\ Len(e.trail) \in Nat /\ Len(k.trail) <= l
  BY <1>1, <1>2, <1>4, NodeIs
<1>8. c.reward <= e.reward + setting.margin
  BY <1>3, <1>5, <1>6
<1>9. Len(e.trail) <= l
  BY <1>3, <1>7
<1> QED BY <1>3, <1>8, <1>9 DEF StandsFor

LEMMA ExpansionCovers ==
  ASSUME Oracles, IsSetting, NEW s, HoldsWalks(s, outcome), s.answer = Nothing,
         s.strategy = "exhaustive", ~s.cut, Covers(s, outcome, setting), s.queue # <<>>,
         NEW c, c = Child(s.queue[1][1], s.queue[1][2]), ~Raised(c),
         NEW r, NEW t, IsExpansion(t, s, c, r), t.answer = Nothing
  PROVE  Covers(t, outcome, setting)
<1> DEFINE q == s.queue
           w == t.queue
           p == q[1][1]
           b == q[1][2]
           x == <<p.query, b>>
           o == outcome
<1>1. /\ InTurn(s) /\ KnowsTheBest(s, setting)
      /\ \A i \in DOMAIN q : q[i][1] \in s.seen /\ IsOpen(q[i][1], setting)
      /\ \A e \in s.seen : Active(e) => \A a \in ToSet(Offered[e.query]) : IsCovered(e, a, s, o, setting)
  BY AnswersDiffer DEF Covers
<1>2. q \in Seq(Nodes \X Int) /\ q # <<>> /\ w = Tail(q) \o r
      /\ \A i \in DOMAIN q : IsOption(q[i], o)
  BY DEF HoldsWalks, Searches, IsExpansion
<1>3. 1 \in DOMAIN q /\ IsOption(q[1], o) /\ p \in s.seen /\ IsOpen(p, setting)
  <2>1. 1 \in DOMAIN q
    BY <1>2
  <2> QED BY <1>1, <1>2, <2>1
<1>4. IsWalk(p, o) /\ Active(p) /\ b \in ToSet(Offered[p.query]) /\ c = Child(p, b)
  BY <1>3 DEF IsOption
<1> HIDE DEF p, b
<1>5. /\ x \in Edges /\ IsWalk(c, o) /\ c.trail = Append(p.trail, x) /\ Len(c.trail) = Len(p.trail) + 1
      /\ o[x].kind = "proven" => /\ c.query = Target[x] /\ IsOpen(c, setting)
                                 /\ c.reward = p.reward + o[x].reward
      /\ o[x].kind # "proven" => c.query = p.query /\ ~Active(c)
      /\ o[x].kind = "rejected" => c.reward <= p.reward
      /\ Raised(c) <=> o[x].kind = "raises"
  BY <1>4, ChildIs
<1> HIDE DEF x
<1>6. o[x].kind \in {"proven", "rejected"}
  BY <1>5, OutcomeIs
<1> HIDE DEF o
<1>7. /\ Len(p.trail) \in Nat /\ p.reward \in Int /\ c.reward \in Int /\ setting.margin \in Nat
      /\ c \in Nodes /\ c.query \in Sql
  BY <1>4, <1>5, NodeIs DEF IsWalk, IsSetting
<1>8. IsExpansion(t, s, c, r) /\ IsWalk(c, o)
  BY <1>5
<1>20. AreGains(t, s, c, r, o)
  <2> HIDE DEF q, w
  <2> QED BY <1>8, GainsAre
<1>9. r \in Seq(Nodes \X Int) /\ s.seen \subseteq t.seen /\ t.seen \subseteq s.seen \cup {c}
  BY <1>20 DEF AreGains
<1>10. \A i \in DOMAIN r : r[i][1] = c
  BY <1>20 DEF AreGains
<1>11. DOMAIN r # {} => Active(c) /\ c \in t.seen
  BY <1>20 DEF AreGains
<1>12. InTurn(t)
  <2>1. \A i \in DOMAIN s.queue : s.queue[i][1] \in s.seen
    BY <1>1
  <2>2. Len(c.trail) = Len(s.queue[1][1].trail) + 1
    BY <1>5 DEF p
  <2>3. HoldsWalks(s, o)
    BY DEF o
  <2> HIDE DEF q, w
  <2> QED BY <1>1, <1>8, <2>1, <2>2, <2>3, ExpansionInTurn
<1>13. \A n \in s.seen : Len(n.trail) <= Len(p.trail) + 1
  BY <1>1, <1>3 DEF InTurn, p
<1> HIDE DEF q, w
<1>14. /\ \A i \in DOMAIN w :
            \/ i < Len(q) /\ i + 1 \in DOMAIN q /\ w[i] = q[i + 1]
            \/ ~(i < Len(q)) /\ i - (Len(q) - 1) \in DOMAIN r /\ w[i] = r[i - (Len(q) - 1)]
       /\ \A i \in DOMAIN q : i # 1 => i - 1 \in DOMAIN w /\ w[i - 1] = q[i]
       /\ \A i \in DOMAIN r : Len(q) - 1 + i \in DOMAIN w /\ w[Len(q) - 1 + i] = r[i]
  <2>1. /\ q \in Seq(Nodes \X Int) /\ q # <<>> /\ w = Tail(q) \o r
        /\ r \in Seq(Nodes \X Int)
    BY <1>2, <1>9
  <2>2. \A i \in DOMAIN w :
           \/ i < Len(q) /\ i + 1 \in DOMAIN q /\ w[i] = q[i + 1]
           \/ ~(i < Len(q)) /\ i - (Len(q) - 1) \in DOMAIN r /\ w[i] = r[i - (Len(q) - 1)]
    BY <2>1, NextInLine
  <2>3. \A i \in DOMAIN q : i # 1 => i - 1 \in DOMAIN w /\ w[i - 1] = q[i]
    BY <2>1, NextInLine
  <2>4. \A i \in DOMAIN r : Len(q) - 1 + i \in DOMAIN w /\ w[Len(q) - 1 + i] = r[i]
    BY <2>1, NextInLine
  <2> QED BY <2>2, <2>3, <2>4
<1>15. \A i \in DOMAIN w : w[i][1] \in t.seen /\ IsOpen(w[i][1], setting)
  <2>1. DOMAIN r # {} => IsOpen(c, setting)
    BY <1>5, <1>6, <1>11
  <2>2. \A i \in DOMAIN r : r[i][1] \in t.seen /\ IsOpen(r[i][1], setting)
    BY <1>10, <1>11, <2>1
  <2>3. \A i \in DOMAIN q : q[i][1] \in t.seen /\ IsOpen(q[i][1], setting)
    BY <1>1, <1>9
  <2> QED BY <1>14, <2>2, <2>3
<1>16. KnowsTheBest(t, setting)
  <2>1. CASE Refused(s, c)
    <3>1. t.seen = s.seen /\ t.known = s.known
      BY <1>8, <2>1 DEF IsExpansion
    <3> QED BY <1>1, <3>1 DEF KnowsTheBest
  <2>2. CASE ~Refused(s, c)
    <3>1. t.seen = s.seen \cup {c} /\ t.known = With(s.known, c.query, c)
      BY <1>8, <2>2 DEF IsExpansion
    <3>2. DOMAIN t.known = DOMAIN s.known \cup {c.query} /\ t.known[c.query] = c
          /\ \A y \in DOMAIN s.known : y # c.query => t.known[y] = s.known[y]
      <4> DEFINE k == s.known
                 y == c.query
                 d == t.known
      <4>1. d = With(k, y, c)
        BY <3>1
      <4> HIDE DEF k, y, d
      <4>2. DOMAIN d = DOMAIN k \cup {y} /\ d[y] = c /\ \A z \in DOMAIN k : z # y => d[z] = k[z]
        BY <4>1 DEF With
      <4> QED BY <4>2 DEF k, y, d
    <3>3. \E e \in t.seen : /\ IsOpen(e, setting) /\ e.query = c.query
                            /\ Len(e.trail) <= Len(c.trail) /\ c.reward <= e.reward
      <4>1. CASE o[x].kind = "proven"
        <5>1. Len(c.trail) <= Len(c.trail) /\ c.reward <= c.reward
          BY <1>5, <1>7
        <5> QED BY <1>5, <3>1, <4>1, <5>1
      <4>2. CASE o[x].kind = "rejected"
        <5>1. Len(p.trail) <= Len(c.trail)
          BY <1>5, <1>7
        <5>2. p.query = c.query /\ c.reward <= p.reward /\ p \in t.seen
          BY <1>3, <1>5, <1>9, <4>2
        <5> QED BY <1>3, <5>1, <5>2
      <4> QED BY <1>6, <4>1, <4>2
    <3>4. ASSUME NEW y \in DOMAIN t.known
          PROVE \E e \in t.seen : /\ IsOpen(e, setting) /\ e.query = y /\ t.known[y].query = y
                                  /\ Len(e.trail) <= Len(t.known[y].trail)
                                  /\ t.known[y].reward <= e.reward
      <4>1. CASE y = c.query
        BY <3>2, <3>3, <4>1
      <4>2. CASE y # c.query
        <5>1. y \in DOMAIN s.known /\ t.known[y] = s.known[y]
          BY <3>2, <4>2
        <5>2. PICK e \in s.seen : /\ IsOpen(e, setting) /\ e.query = y /\ s.known[y].query = y
                                  /\ Len(e.trail) <= Len(s.known[y].trail)
                                  /\ s.known[y].reward <= e.reward
          BY <1>1, <5>1 DEF KnowsTheBest
        <5> QED BY <1>9, <5>1, <5>2
      <4> QED BY <4>1, <4>2
    <3> QED BY <3>4 DEF KnowsTheBest
  <2> QED BY <2>1, <2>2
<1>17. ASSUME NEW e \in t.seen, Active(e), NEW a \in ToSet(Offered[e.query])
       PROVE  IsCovered(e, a, t, o, setting)
  <2>1. CASE e \in s.seen
    <3>1. IsCovered(e, a, s, o, setting)
      BY <1>1, <1>17, <2>1
    <3>2. CASE \E i \in DOMAIN s.queue : s.queue[i] = <<e, a>>
      <4>1. PICK i \in DOMAIN q : q[i] = <<e, a>>
        BY <3>2 DEF q
      <4>2. CASE i # 1
        <5>1. i - 1 \in DOMAIN w /\ w[i - 1] = <<e, a>>
          BY <1>14, <4>1, <4>2
        <5>2. \E j \in DOMAIN t.queue : t.queue[j] = <<e, a>>
          BY <5>1 DEF w
        <5> QED BY <5>2 DEF IsCovered
      <4>3. CASE i = 1
        <5>1. e = p /\ a = b /\ <<e.query, a>> = x
          BY <4>1, <4>3 DEF p, b, x
        <5>2. CASE o[x].kind # "proven"
          BY <5>1, <5>2 DEF IsCovered
        <5>3. CASE o[x].kind = "proven"
          <6>1. c.query = Target[x] /\ c.reward = p.reward + o[x].reward /\ IsOpen(c, setting)
            BY <1>5, <5>3
          <6>2. \E f \in t.seen : StandsFor(f, c.query, Len(p.trail) + 1, c.reward, setting)
            <7>1. CASE Refused(s, c)
              <8> DEFINE l == Len(p.trail) + 1
              <8>1. l \in Nat /\ \A n \in s.seen : Len(n.trail) <= l
                BY <1>7, <1>13
              <8> HIDE DEF l
              <8>2. \E f \in s.seen : StandsFor(f, c.query, l, c.reward, setting)
                BY <1>1, <1>7, <7>1, <8>1, KnownStandsFor
              <8> QED BY <1>9, <8>2 DEF l
            <7>2. CASE ~Refused(s, c)
              <8>1. c \in t.seen
                BY <1>8, <7>2 DEF IsExpansion
              <8>2. Len(c.trail) <= Len(p.trail) + 1 /\ c.reward <= c.reward + setting.margin
                BY <1>5, <1>7
              <8> QED BY <6>1, <8>1, <8>2 DEF StandsFor
            <7> QED BY <7>1, <7>2
          <6> QED BY <5>1, <6>1, <6>2 DEF IsCovered
        <5> QED BY <5>2, <5>3
      <4> QED BY <4>2, <4>3
    <3>3. CASE o[<<e.query, a>>].kind # "proven"
      BY <3>3 DEF IsCovered
    <3>4. CASE \E f \in s.seen : StandsFor(f, Target[<<e.query, a>>], Len(e.trail) + 1,
                                           e.reward + o[<<e.query, a>>].reward, setting)
      BY <1>9, <3>4 DEF IsCovered
    <3> QED BY <3>1, <3>2, <3>3, <3>4 DEF IsCovered
  <2>2. CASE e \notin s.seen
    <3>1. e = c /\ r = Options(c)
      <4>1. e = c /\ c \in t.seen \ s.seen
        BY <1>9, <2>2
      <4> QED BY <1>8, <4>1 DEF IsExpansion
    <3>2. PICK i \in DOMAIN r : r[i] = <<e, a>>
      <4>1. IsWalk(c, o) /\ r = Options(c) /\ Active(c) /\ a \in ToSet(Offered[c.query])
        BY <1>8, <1>17, <3>1
      <4>2. \E i \in DOMAIN r : r[i] = <<c, a>>
        BY <4>1 DEF Options, ToSet
      <4> QED BY <3>1, <4>2
    <3>3. \E j \in DOMAIN w : w[j] = <<e, a>>
      BY <1>14, <3>2
    <3> QED BY <3>3 DEF IsCovered, w
  <2> QED BY <2>1, <2>2
<1> QED BY <1>12, <1>15, <1>16, <1>17 DEF Covers, w, o

LEMMA ExhaustiveKeeps ==
  ASSUME Oracles, IsSetting, SearchInv(search, outcome, setting), Exhaustive
  PROVE  SearchInv(search', outcome, setting)
<1> DEFINE t == search'
           q == search.queue
           p == q[1][1]
           b == q[1][2]
           c == Child(p, b)
<1>1. /\ search.answer = Nothing /\ search.strategy = "exhaustive" /\ q # <<>>
      /\ search.explored < MaxNodes
  <2>1. search.explored \in Int /\ MaxNodes \in Nat
    BY SearchAssumption DEF SearchInv, HoldsWalks, Searches
  <2> QED BY <2>1 DEF Exhaustive, Running, LimitReached
<1>2. HoldsWalks(search, outcome) /\ RaisesOnce(search, outcome)
  BY DEF SearchInv
<1>3. search \in Searches
  BY <1>2 DEF HoldsWalks
<1>4. q \in Seq(Nodes \X Int) /\ Head(q) = q[1] /\ 1 \in DOMAIN q
  <2>1. q \in Seq(Nodes \X Int)
    BY <1>3 DEF Searches
  <2> QED BY <1>1, <2>1
<1>5. search.strategy \in Selective
  BY <1>1 DEF Selective
<1>6. /\ QueuesAhead(search) /\ search.explored = Cardinality(search.tried)
      /\ \A n \in search.tried : \E e \in search.seen : n.reward <= e.reward + setting.margin
      /\ ~search.cut
  <2>1. Counted(search) /\ Near(search, setting)
    BY DEF SearchInv
  <2>2. search.answer # Failed
    BY <1>1, AnswersDiffer
  <2>3. search.cut => q = <<>>
    BY <1>1, <2>1, <2>2 DEF Counted
  <2> QED BY <1>1, <1>5, <2>1, <2>2, <2>3 DEF Counted, Near
<1>7. IsOption(q[1], outcome)
  BY <1>2, <1>4 DEF HoldsWalks
<1>8. IsWalk(p, outcome) /\ Active(p) /\ b \in ToSet(Offered[p.query])
  BY <1>7 DEF IsOption
<1>9. c.trail = Pending(q[1])
  <2> HIDE DEF p, b
  <2>1. c.trail = Append(p.trail, <<p.query, b>>)
    BY <1>8, ChildIs
  <2> QED BY <2>1 DEF Pending, p, b
<1>10. IsWalk(c, outcome)
  <2> HIDE DEF p, b
  <2> QED BY <1>8, ChildIs
<1> DEFINE after == IF Refused(search, c) THEN [search EXCEPT !.queue = Tail(@)]
                    ELSE [search EXCEPT !.queue = Tail(@) \o Options(c),
                                        !.known = With(@, c.query, c), !.seen = @ \cup {c}]
           r == IF Refused(search, c) THEN <<>> ELSE Options(c)
<1>11. t = Looked(<<c>>, 1, after)
  <2>1. PICK x \in {Child(Head(q)[1], Head(q)[2])} :
          Look(<<x>>, 1, IF Refused(search, x) THEN [search EXCEPT !.queue = Tail(@)]
                         ELSE [search EXCEPT !.queue = Tail(@) \o Options(x),
                                             !.known = With(@, x.query, x), !.seen = @ \cup {x}])
    BY DEF Exhaustive, Refused
  <2>2. x = c
    BY <1>4, <2>1
  <2> HIDE DEF c
  <2> QED BY <2>1, <2>2 DEF Look, Looked
<1>12. c = Child(search.queue[1][1], search.queue[1][2])
  OBVIOUS
<1> HIDE DEF c, t
<1>13. c \in Nodes /\ c.query \in Sql /\ c.reward \in Int /\ setting.margin \in Nat
  BY <1>10, NodeIs DEF IsWalk, IsSetting
<1>14. Options(c) \in Seq(Nodes \X Int)
  BY <1>10, OptionsAre
<1>15. /\ after \in Searches /\ after.tried = search.tried /\ after.explored = search.explored
       /\ after.strategy = search.strategy /\ after.node = search.node /\ after.frontier = search.frontier
       /\ after.answer = search.answer /\ after.cut = search.cut
       /\ after.queue = Tail(q) \o r
       /\ \/ Refused(search, c) /\ r = <<>> /\ after.seen = search.seen /\ after.known = search.known
          \/ /\ ~Refused(search, c) /\ r = Options(c) /\ after.seen = search.seen \cup {c}
             /\ after.known = With(search.known, c.query, c)
  <2>1. CASE Refused(search, c)
    <3> DEFINE queue == Tail(q)
    <3>1. queue \in Seq(Nodes \X Int) /\ queue = Tail(q) \o <<>>
      BY <1>1, <1>4
    <3>2. after = [search EXCEPT !.queue = queue] /\ r = <<>>
      BY <1>3, <2>1 DEF Searches
    <3> HIDE DEF Nodes, queue, after, q, r
    <3>3. after \in Searches
      BY <1>3, <3>1, <3>2 DEF Searches
    <3>4. /\ after.tried = search.tried /\ after.explored = search.explored
          /\ after.strategy = search.strategy /\ after.node = search.node /\ after.frontier = search.frontier
          /\ after.answer = search.answer /\ after.cut = search.cut /\ after.queue = queue
          /\ after.seen = search.seen /\ after.known = search.known
      BY <1>3, <3>2 DEF Searches
    <3> QED BY <2>1, <3>1, <3>2, <3>3, <3>4
  <2>2. CASE ~Refused(search, c)
    <3> DEFINE queue == Tail(q) \o Options(c)
               known == With(search.known, c.query, c)
               seen == search.seen \cup {c}
    <3>1. queue \in Seq(Nodes \X Int)
      <4>1. Tail(q) \in Seq(Nodes \X Int)
        BY <1>1, <1>4
      <4> QED BY <1>14, <4>1
    <3>2. known \in UNION {[D -> Nodes] : D \in SUBSET Sql}
      <4>1. PICK D \in SUBSET Sql : search.known \in [D -> Nodes]
        BY <1>3 DEF Searches
      <4>2. known \in [D \cup {c.query} -> Nodes]
        <5> HIDE DEF Nodes
        <5> QED BY <1>13, <4>1 DEF With
      <4>3. D \cup {c.query} \in SUBSET Sql
        BY <1>13
      <4> HIDE DEF known
      <4> QED BY <4>2, <4>3
    <3>3. seen \in SUBSET Nodes
      BY <1>3, <1>13 DEF Searches
    <3>4. after = [search EXCEPT !.queue = queue, !.known = known, !.seen = seen] /\ r = Options(c)
      BY <1>3, <2>2 DEF Searches
    <3>5. queue = Tail(q) \o Options(c) /\ known = With(search.known, c.query, c)
          /\ seen = search.seen \cup {c}
      OBVIOUS
    <3> HIDE DEF Nodes, queue, known, seen, after, q, r
    <3>6. after \in Searches
      BY <1>3, <3>1, <3>2, <3>3, <3>4 DEF Searches
    <3>7. /\ after.tried = search.tried /\ after.explored = search.explored
          /\ after.strategy = search.strategy /\ after.node = search.node /\ after.frontier = search.frontier
          /\ after.answer = search.answer /\ after.cut = search.cut /\ after.queue = queue
          /\ after.seen = seen /\ after.known = known
      BY <1>3, <3>4 DEF Searches
    <3> QED BY <2>2, <3>4, <3>5, <3>6, <3>7
  <2> QED BY <2>1, <2>2
<1> HIDE DEF after, r, p, b
<1>16. PICK u : IsExpansion(u, search, c, r) /\ u.queue = after.queue /\ u.seen = after.seen
  <2> DEFINE u == [queue |-> after.queue, tried |-> search.tried \cup {c}, seen |-> after.seen,
                   known |-> after.known]
  <2>1. u.queue = after.queue /\ u.tried = search.tried \cup {c} /\ u.seen = after.seen
        /\ u.known = after.known
    OBVIOUS
  <2> HIDE DEF u
  <2>2. IsExpansion(u, search, c, r)
    BY <1>15, <2>1 DEF IsExpansion
  <2> QED BY <2>1, <2>2
<1>17. c \notin search.tried /\ \A i \in DOMAIN after.queue : IsOption(after.queue[i], outcome)
  <2>1. search.queue # <<>> /\ c.trail = Pending(search.queue[1])
    BY <1>1, <1>9
  <2> HIDE DEF q
  <2>2. c \notin search.tried
    BY <1>2, <1>6, <1>10, <1>16, <2>1, ExpansionQueues
  <2>3. \A i \in DOMAIN u.queue : IsOption(u.queue[i], outcome)
    BY <1>2, <1>6, <1>10, <1>16, <2>1, ExpansionQueues
  <2> QED BY <1>16, <2>2, <2>3
<1>18. HoldsWalks(after, outcome)
  <2>1. /\ IsWalk(search.node, outcome) /\ \A i \in DOMAIN search.frontier : IsWalk(search.frontier[i], outcome)
        /\ \A n \in search.seen \cup search.tried : IsWalk(n, outcome)
        /\ \A y \in DOMAIN search.known : search.known[y] \in search.seen
        /\ IsFiniteSet(search.seen) /\ RootNode \in search.seen /\ IsFiniteSet(search.tried)
    BY <1>2 DEF HoldsWalks
  <2>2. IsFiniteSet(after.seen) /\ RootNode \in after.seen /\ \A n \in after.seen : IsWalk(n, outcome)
    <3>1. IsFiniteSet({c}) /\ IsFiniteSet(search.seen)
      BY <2>1, FS_Singleton
    <3>2. IsFiniteSet(search.seen \cup {c})
      BY <3>1, FS_Union
    <3> QED BY <1>10, <1>15, <2>1, <3>2
  <2>3. \A y \in DOMAIN after.known : after.known[y] \in after.seen
    <3>1. CASE Refused(search, c)
      BY <1>15, <2>1, <3>1
    <3>2. CASE ~Refused(search, c)
      <4>1. after.known = With(search.known, c.query, c) /\ after.seen = search.seen \cup {c}
        BY <1>15, <3>2
      <4> QED BY <2>1, <4>1 DEF With
    <3> QED BY <3>1, <3>2
  <2> QED BY <1>15, <1>17, <2>1, <2>2, <2>3 DEF HoldsWalks
<1>19. IsList(<<c>>) /\ IsRow(<<c>>) /\ Range(<<c>>) = {c} /\ Len(<<c>>) = 1
  BY OneNode
<1>20. IsFiniteSet(search.tried) /\ Cardinality(search.tried \cup {c}) = search.explored + 1
  <2>1. IsFiniteSet(search.tried) /\ Range(<<c>>) \cap search.tried = {}
    BY <1>2, <1>17, <1>19 DEF HoldsWalks
  <2>2. Cardinality(search.tried \cup Range(<<c>>)) = Cardinality(search.tried) + Len(<<c>>)
    BY <1>19, <2>1, CountsMore
  <2> QED BY <1>6, <1>19, <2>1, <2>2
<1>21. \/ SearchInv(t, outcome, setting)
       \/ /\ HoldsWalks(t, outcome) /\ RaisesOnce(t, outcome) /\ IsLooked(t, <<c>>, 1, after)
          /\ \A x \in Range(<<c>>) : ~Raised(x)
  <2>1. after.answer # Failed
    BY <1>1, <1>15, AnswersDiffer
  <2> HIDE DEF q
  <2>2. \A x \in Range(<<c>>) : IsWalk(x, outcome)
    BY <1>10, <1>19
  <2>3. 1 \in Int
    OBVIOUS
  <2> QED BY <1>1, <1>2, <1>11, <1>15, <1>18, <1>19, <2>1, <2>2, <2>3, LookedIs
<1>22. ASSUME HoldsWalks(t, outcome), RaisesOnce(t, outcome), IsLooked(t, <<c>>, 1, after),
              \A x \in Range(<<c>>) : ~Raised(x)
       PROVE  SearchInv(t, outcome, setting)
  <2>1. /\ t.strategy = "exhaustive" /\ t.answer = Nothing /\ ~t.cut
        /\ t.tried = search.tried \cup {c} /\ t.explored = search.explored + 1
        /\ t.queue = Tail(q) \o r /\ t.seen = after.seen /\ t.known = after.known
    BY <1>1, <1>6, <1>15, <1>19, <1>22 DEF IsLooked
  <2>2. IsExpansion(t, search, c, r)
    BY <1>15, <2>1 DEF IsExpansion
  <2>3. QueuesAhead(t)
    <3>1. search.queue # <<>> /\ c.trail = Pending(search.queue[1])
      BY <1>1, <1>9
    <3> HIDE DEF q
    <3> QED BY <1>2, <1>6, <1>10, <2>2, <3>1, ExpansionQueues
  <2>4. t.strategy \in Selective /\ t.strategy # "beam"
        /\ t.strategy \notin {"policy_baseline_abstain", "greedy"}
    BY <2>1 DEF Selective
  <2>5. Counted(t)
    <3>1. t.explored = Cardinality(t.tried) /\ t.explored <= MaxNodes
      <4>1. search.explored \in Int /\ MaxNodes \in Nat
        BY <1>3, SearchAssumption DEF Searches
      <4> QED BY <1>1, <1>20, <2>1, <4>1
    <3> QED BY <2>1, <2>3, <2>4, <3>1 DEF Counted
  <2>6. ASSUME NEW n \in t.tried PROVE \E e \in t.seen : n.reward <= e.reward + setting.margin
    <3>1. CASE n \in search.tried
      BY <1>6, <1>15, <2>1, <3>1
    <3>2. CASE n = c
      <4>1. CASE Refused(search, c)
        <5> DEFINE k == search.known[c.query]
        <5>1. k \in search.seen /\ PreferredOrEqual(k, c)
          BY <1>2, <4>1 DEF Refused, HoldsWalks
        <5>2. k \in Nodes
          BY <1>2, <5>1 DEF HoldsWalks, IsWalk
        <5> HIDE DEF k
        <5>3. c.reward <= k.reward + setting.margin
          BY <1>13, <5>1, <5>2, PreferredIs
        <5> QED BY <1>15, <2>1, <3>2, <5>1, <5>3
      <4>2. CASE ~Refused(search, c)
        <5>1. c \in t.seen /\ c.reward <= c.reward + setting.margin
          BY <1>13, <1>15, <2>1, <4>2
        <5> QED BY <3>2, <5>1
      <4> QED BY <4>1, <4>2
    <3> QED BY <2>1, <2>6, <3>1, <3>2
  <2>7. Near(t, setting)
    BY <2>1, <2>4, <2>6 DEF Near
  <2>8. Covers(t, outcome, setting)
    <3>1. ~Raised(c) /\ Covers(search, outcome, setting) /\ search.queue # <<>>
      BY <1>1, <1>19, <1>22 DEF SearchInv
    <3> HIDE DEF q
    <3> QED BY <1>1, <1>2, <1>6, <1>12, <2>1, <2>2, <3>1, ExpansionCovers
  <2> QED BY <1>22, <2>5, <2>7, <2>8 DEF SearchInv
<1>23. SearchInv(t, outcome, setting)
  BY <1>21, <1>22
<1> QED BY <1>23 DEF t

LEMMA ExhaustiveCutKeeps ==
  ASSUME SearchInv(search, outcome, setting), ExhaustiveCut
  PROVE  SearchInv(search', outcome, setting)
<1> DEFINE t == search'
           queue == <<>>
<1>1. /\ search.answer = Nothing /\ search.strategy = "exhaustive" /\ search.queue # <<>>
      /\ search.explored >= MaxNodes /\ t = [search EXCEPT !.queue = queue, !.cut = TRUE]
  BY DEF ExhaustiveCut, Running, LimitReached
<1>2. HoldsWalks(search, outcome) /\ RaisesOnce(search, outcome) /\ search \in Searches
  BY DEF SearchInv, HoldsWalks
<1>3. search.strategy \in Selective /\ search.answer # Failed /\ search.strategy # "beam"
      /\ search.strategy \notin {"policy_baseline_abstain", "greedy"}
  BY <1>1, AnswersDiffer DEF Selective
<1>4. search.explored = Cardinality(search.tried) /\ search.explored = MaxNodes /\ QueuesAhead(search)
  <2>1. search.explored = Cardinality(search.tried) /\ search.explored <= MaxNodes /\ QueuesAhead(search)
    BY <1>1, <1>3 DEF SearchInv, Counted
  <2>2. search.explored \in Int /\ MaxNodes \in Nat
    BY <1>2, SearchAssumption DEF Searches
  <2> QED BY <1>1, <2>1, <2>2
<1>5. \A n \in search.tried : \E e \in search.seen : n.reward <= e.reward + setting.margin
  BY <1>1, <1>3 DEF SearchInv, Near
<1>6. queue \in Seq(Nodes \X Int) /\ DOMAIN queue = {} /\ queue = <<>>
  OBVIOUS
<1> HIDE DEF t, queue
<1>7. t \in Searches
  <2> HIDE DEF Nodes
  <2> QED BY <1>1, <1>2, <1>6 DEF Searches
<1>8. /\ t.strategy = search.strategy /\ t.node = search.node /\ t.frontier = search.frontier
      /\ t.queue = queue /\ t.seen = search.seen /\ t.known = search.known /\ t.tried = search.tried
      /\ t.explored = search.explored /\ t.cut /\ t.answer = search.answer
  <2> HIDE DEF Nodes
  <2> QED BY <1>1, <1>2 DEF Searches
<1>9. HoldsWalks(t, outcome)
  BY <1>2, <1>6, <1>7, <1>8 DEF HoldsWalks
<1>10. AskedBy(t) = AskedBy(search)
  BY <1>8 DEF AskedBy
<1>11. RaisesOnce(t, outcome)
  BY <1>2, <1>8, <1>10 DEF RaisesOnce, Raises
<1>12. Counted(t)
  <2>1. QueuesAhead(t)
    BY <1>4, <1>6, <1>8 DEF QueuesAhead, Trails
  <2>2. t.explored <= MaxNodes
    <3>1. t.explored = MaxNodes /\ MaxNodes \in Nat
      BY <1>4, <1>8, SearchAssumption
    <3> QED BY <3>1
  <2> QED BY <1>1, <1>3, <1>4, <1>6, <1>8, <2>1, <2>2 DEF Counted
<1>13. Near(t, setting)
  BY <1>1, <1>3, <1>5, <1>8 DEF Near
<1>14. Covers(t, outcome, setting)
  BY <1>8 DEF Covers
<1> QED BY <1>9, <1>11, <1>12, <1>13, <1>14 DEF SearchInv, t

(* The search returns a node.                                              *)
LEMMA AnsweredIs ==
  ASSUME SearchInv(search, outcome, setting), search.answer = Nothing, NEW n \in Nodes,
         NEW t, t = [search EXCEPT !.answer = n]
  PROVE  /\ HoldsWalks(t, outcome) /\ RaisesOnce(t, outcome) /\ Counted(t)
         /\ t.answer = n /\ n # Nothing /\ n # Failed
         /\ t.strategy = search.strategy /\ t.seen = search.seen /\ t.tried = search.tried
         /\ t.queue = search.queue /\ t.known = search.known /\ t.cut = search.cut
<1>1. HoldsWalks(search, outcome) /\ RaisesOnce(search, outcome) /\ search \in Searches
  BY DEF SearchInv, HoldsWalks
<1>2. n # Nothing /\ n # Failed /\ Failed # Nothing
  BY AnswersDiffer
<1>3. t \in Searches
  <2> HIDE DEF Nodes
  <2> QED BY <1>1 DEF Searches
<1>4. /\ t.strategy = search.strategy /\ t.node = search.node /\ t.frontier = search.frontier
      /\ t.queue = search.queue /\ t.seen = search.seen /\ t.known = search.known /\ t.tried = search.tried
      /\ t.explored = search.explored /\ t.cut = search.cut /\ t.answer = n
  <2> HIDE DEF Nodes
  <2> QED BY <1>1 DEF Searches
<1>5. HoldsWalks(t, outcome)
  BY <1>1, <1>3, <1>4 DEF HoldsWalks
<1>6. RaisesOnce(t, outcome)
  BY <1>1, <1>2, <1>4 DEF RaisesOnce
<1>7. Counted(search) /\ search.answer # Failed
  BY <1>2 DEF SearchInv
<1>8. Counted(t)
  BY <1>2, <1>4, <1>7 DEF Counted
<1> QED BY <1>2, <1>4, <1>5, <1>6, <1>8

LEMMA FinishKeeps ==
  ASSUME IsSetting, SearchInv(search, outcome, setting), Finish
  PROVE  SearchInv(search', outcome, setting)
<1> DEFINE t == search'
           margin == setting.margin
<1>1. HoldsWalks(search, outcome) /\ search \in Searches /\ margin \in Nat
  BY DEF SearchInv, HoldsWalks, IsSetting
<1>2. \A n \in search.seen \cup search.tried \cup {search.node} : n \in Nodes /\ n.reward \in Int
  BY <1>1, NodeIs DEF HoldsWalks, IsWalk
<1>3. search.answer = Nothing
  BY DEF Finish, Running
<1>4. Near(search, setting) /\ Covers(search, outcome, setting)
  BY DEF SearchInv
<1>5. CASE /\ Running(Rollouts \cup {"policy_baseline_abstain", "greedy"})
           /\ ~Active(search.node)
           /\ t = [search EXCEPT !.answer = search.node]
  <2> DEFINE n == search.node
  <2>1. n \in Nodes /\ t = [search EXCEPT !.answer = n]
    BY <1>2, <1>5
  <2>2. search.strategy \in Rollouts \cup {"policy_baseline_abstain", "greedy"}
    BY <1>5 DEF Running
  <2>3. search.strategy \notin {"beam", "exhaustive"}
    BY <2>2 DEF Rollouts
  <2>4. search.strategy \in Selective =>
          \A x \in search.tried : x.reward <= n.reward + 2 * margin
    <3>1. search.strategy \in Selective => search.strategy \in {"policy_baseline_abstain", "greedy"}
      BY <2>3 DEF Selective
    <3> QED BY <1>3, <1>4, <1>5, <3>1 DEF Near
  <2> HIDE DEF t, n, margin
  <2>5. /\ HoldsWalks(t, outcome) /\ RaisesOnce(t, outcome) /\ Counted(t)
        /\ t.answer = n /\ n # Nothing /\ n # Failed
        /\ t.strategy = search.strategy /\ t.tried = search.tried
    BY <1>3, <2>1, AnsweredIs
  <2>6. Near(t, setting)
    BY <2>4, <2>5 DEF Near, margin
  <2>7. Covers(t, outcome, setting)
    BY <2>3, <2>5 DEF Covers
  <2> QED BY <2>5, <2>6, <2>7 DEF SearchInv, t
<1>6. CASE /\ search.strategy \in {"beam", "exhaustive"}
           /\ search.strategy = "exhaustive" => search.queue = <<>>
           /\ t = [search EXCEPT !.answer = Best(search.seen)]
  <2> DEFINE S == search.seen
             n == Best(S)
  <2>1. IsFiniteSet(S) /\ S # {} /\ S \subseteq Nodes
    BY <1>1, <1>2 DEF HoldsWalks
  <2> HIDE DEF S
  <2>2. n \in S /\ \A x \in S : x.reward <= n.reward + margin
    BY <2>1, BestIs
  <2>3. n \in Nodes /\ t = [search EXCEPT !.answer = n]
    BY <1>6, <2>1, <2>2 DEF S
  <2> HIDE DEF t, n, margin
  <2>4. /\ HoldsWalks(t, outcome) /\ RaisesOnce(t, outcome) /\ Counted(t)
        /\ t.answer = n /\ n # Nothing /\ n # Failed
        /\ t.strategy = search.strategy /\ t.tried = search.tried /\ t.seen = S
        /\ t.queue = search.queue /\ t.known = search.known /\ t.cut = search.cut
    BY <1>3, <2>3, AnsweredIs DEF S
  <2>5. n.reward \in Int /\ \A x \in S \cup search.tried : x.reward \in Int
    BY <1>2, <2>2 DEF S
  <2>6. ASSUME search.strategy = "beam" => margin = 0, NEW x \in search.tried
        PROVE  x.reward <= n.reward + 2 * margin
    <3>1. PICK e \in S : x.reward <= e.reward + margin
      <4>1. CASE search.strategy = "beam"
        <5>1. PICK e \in S : x.reward <= e.reward
          BY <1>3, <1>4, <2>6, <4>1 DEF Near, S, margin
        <5> QED BY <1>1, <2>5, <5>1
      <4>2. CASE search.strategy = "exhaustive"
        BY <1>3, <1>4, <4>2 DEF Near, S, margin
      <4> QED BY <1>6, <4>1, <4>2
    <3>2. e.reward <= n.reward + margin
      BY <2>2
    <3> QED BY <1>1, <2>5, <3>1, <3>2
  <2>7. Near(t, setting)
    BY <2>4, <2>6 DEF Near, margin
  <2>8. Covers(t, outcome, setting)
    <3>1. CASE search.strategy = "exhaustive" /\ ~search.cut
      <4>1. /\ InTurn(search) /\ KnowsTheBest(search, setting)
            /\ \A i \in DOMAIN search.queue :
                 search.queue[i][1] \in search.seen /\ IsOpen(search.queue[i][1], setting)
            /\ \A e \in search.seen : Active(e) =>
                 \A a \in ToSet(Offered[e.query]) : IsCovered(e, a, search, outcome, setting)
        BY <1>3, <1>4, <3>1, AnswersDiffer DEF Covers
      <4>2. InTurn(t) /\ KnowsTheBest(t, setting)
        BY <2>4, <4>1 DEF InTurn, KnowsTheBest, S
      <4>3. \A e \in t.seen : Active(e) =>
              \A a \in ToSet(Offered[e.query]) : IsCovered(e, a, t, outcome, setting)
        BY <2>4, <4>1 DEF IsCovered, S
      <4>4. t.queue = <<>> /\ \A e \in t.seen : e.reward <= t.answer.reward + setting.margin
        BY <1>6, <2>2, <2>4, <3>1 DEF margin
      <4> QED BY <2>4, <4>1, <4>2, <4>3, <4>4 DEF Covers, S
    <3>2. CASE ~(search.strategy = "exhaustive" /\ ~search.cut)
      BY <2>4, <3>2 DEF Covers
    <3> QED BY <3>1, <3>2
  <2> QED BY <2>4, <2>7, <2>8 DEF SearchInv, t
<1> QED BY <1>5, <1>6 DEF Finish, Running

LEMMA StepKeeps ==
  ASSUME Oracles, IsSetting, SearchInv(search, outcome, setting), SearchStep
  PROVE  SearchInv(search', outcome, setting)
BY RolloutKeeps, AbstainKeeps, GreedyKeeps, BeamKeeps, ExhaustiveKeeps, ExhaustiveCutKeeps,
   FinishKeeps DEF SearchStep

LEMMA StartKeeps ==
  ASSUME IsSetting, NEW x \in Rollouts \cup Selective, NEW t, t = Started(x)
  PROVE  SearchInv(t, outcome, setting)
<1> DEFINE o == outcome
           frontier == <<RootNode>>
           queue == Options(RootNode)
           known == [q \in {Root} |-> RootNode]
<1>1. /\ RootNode \in Nodes /\ IsWalk(RootNode, o)
      /\ RootNode.trail = <<>> /\ RootNode.query = Root /\ RootNode.reward = 0
  BY RootIsWalk
<1>2. IsOpen(RootNode, setting) /\ Len(RootNode.trail) = 0
  <2>1. RootNode.end = IF Offered[Root] = <<>> THEN "terminated" ELSE "open"
    BY DEF RootNode, Node
  <2>2. setting.maxSteps \in Nat \ {0} /\ Len(RootNode.trail) = 0
    BY <1>1 DEF IsSetting
  <2>3. Len(RootNode.trail) < setting.maxSteps
    BY <2>2
  <2> QED BY <1>1, <2>1, <2>2, <2>3 DEF IsOpen, Active
<1>3. /\ queue \in Seq(Nodes \X Int)
      /\ \A i \in DOMAIN queue : queue[i][1] = RootNode /\ IsOption(queue[i], o)
      /\ HasActionsOnce(queue)
      /\ DOMAIN queue # {} => Active(RootNode)
  BY <1>1, OptionsAre
<1>4. t = [strategy |-> x, node |-> RootNode, frontier |-> frontier, queue |-> queue, seen |-> {RootNode},
           known |-> known, tried |-> {}, explored |-> 0, early |-> FALSE, cut |-> FALSE, answer |-> Nothing]
  BY DEF Started
<1>5. known \in UNION {[D -> Nodes] : D \in SUBSET Sql} /\ DOMAIN known = {Root} /\ known[Root] = RootNode
  <2> HIDE DEF Nodes, RootNode
  <2>1. known \in [{Root} -> Nodes] /\ {Root} \in SUBSET Sql
    BY <1>1, SearchAssumption
  <2>2. DOMAIN known = {Root} /\ known[Root] = RootNode
    OBVIOUS
  <2> HIDE DEF known
  <2> QED BY <2>1, <2>2
<1>6. frontier \in Seq(Nodes) /\ DOMAIN frontier = {1} /\ frontier[1] = RootNode
  <2> HIDE DEF Nodes, RootNode
  <2> QED BY <1>1
<1>7. \A a \in ToSet(Offered[RootNode.query]) : Active(RootNode) =>
        \E i \in DOMAIN queue : queue[i] = <<RootNode, a>>
  BY DEF Options, ToSet
<1> HIDE DEF frontier, queue, known, o
<1>8. t \in Searches
  <2> DEFINE keys == UNION {[D -> Nodes] : D \in SUBSET Sql}
  <2>1. known \in keys
    BY <1>5
  <2>2. {RootNode} \in SUBSET Nodes /\ {} \in SUBSET Nodes /\ Nothing \in Nodes \cup {Nothing, Failed}
    BY <1>1
  <2>3. Searches =
          [strategy : Rollouts \cup Selective, node : Nodes, frontier : Seq(Nodes),
           queue : Seq(Nodes \X Int), seen : SUBSET Nodes, known : keys, tried : SUBSET Nodes,
           explored : Int, early : BOOLEAN, cut : BOOLEAN, answer : Nodes \cup {Nothing, Failed}]
    BY DEF Searches
  <2> HIDE DEF Nodes, RootNode, keys
  <2> QED BY <1>1, <1>3, <1>4, <1>6, <2>1, <2>2, <2>3
<1>9. /\ t.strategy = x /\ t.node = RootNode /\ t.frontier = frontier /\ t.queue = queue
      /\ t.seen = {RootNode} /\ t.known = known /\ t.tried = {} /\ t.explored = 0
      /\ ~t.cut /\ t.answer = Nothing
  <2> HIDE DEF Nodes, RootNode
  <2> QED BY <1>4
<1> HIDE DEF RootNode
<1>10. IsFiniteSet({}) /\ Cardinality({}) = 0 /\ IsFiniteSet({RootNode})
  BY FS_EmptySet, FS_Singleton
<1>11. HoldsWalks(t, o)
  BY <1>1, <1>3, <1>5, <1>6, <1>8, <1>9, <1>10 DEF HoldsWalks
<1>12. RaisesOnce(t, o)
  BY <1>9, AnswersDiffer DEF RaisesOnce
<1>13. Counted(t)
  <2>1. 0 <= MaxNodes
    BY SearchAssumption
  <2>2. WalksAhead(t)
    BY <1>9 DEF WalksAhead
  <2>3. LooksAhead(t)
    <3>1. 0 \in Nat /\ \A i \in DOMAIN t.frontier : Len(t.frontier[i].trail) = 0
      BY <1>2, <1>6, <1>9
    <3> QED BY <1>6, <1>9, <3>1 DEF LooksAhead
  <2>4. QueuesAhead(t)
    <3>1. Trails(t) = {<<>>}
      BY <1>9 DEF Trails
    <3>2. \A i \in DOMAIN queue : Pending(queue[i]) # <<>>
      BY <1>3, OptionIs
    <3>3. ASSUME NEW i \in DOMAIN queue, NEW j \in DOMAIN queue, Pending(queue[i]) = Pending(queue[j])
          PROVE  i = j
      <4> DEFINE y == <<RootNode.query, queue[i][2]>>
                 z == <<RootNode.query, queue[j][2]>>
      <4>1. /\ y \in Edges /\ Pending(queue[i]) = Append(RootNode.trail, y)
            /\ z \in Edges /\ Pending(queue[j]) = Append(RootNode.trail, z)
        BY <1>3, OptionIs DEF Pending
      <4>2. RootNode.trail \in Seq(Edges) /\ Append(RootNode.trail, y) = Append(RootNode.trail, z)
        BY <1>1, <3>3, <4>1, NodeIs
      <4> HIDE DEF y, z
      <4>3. y = z
        BY <4>1, <4>2, SameLongerTrail
      <4> QED BY <1>3, <4>3 DEF y, z, HasActionsOnce
    <3> QED BY <1>1, <1>3, <1>9, <3>1, <3>2, <3>3 DEF QueuesAhead
  <2> QED BY <1>9, <1>10, <2>1, <2>2, <2>3, <2>4 DEF Counted
<1>14. Near(t, setting)
  BY <1>9 DEF Near
<1>15. Covers(t, o, setting)
  <2>1. InTurn(t)
    <3>1. \A i \in DOMAIN queue : Len(queue[i][1].trail) = 0
      BY <1>2, <1>3
    <3>2. \A n \in t.seen : Len(n.trail) = 0
      BY <1>2, <1>9
    <3> QED BY <1>9, <3>1, <3>2 DEF InTurn
  <2>2. KnowsTheBest(t, setting)
    <3>1. Len(RootNode.trail) <= Len(RootNode.trail) /\ RootNode.reward <= RootNode.reward
      BY <1>1, <1>2
    <3> QED BY <1>1, <1>2, <1>5, <1>9, <3>1 DEF KnowsTheBest
  <2>3. \A i \in DOMAIN t.queue : t.queue[i][1] \in t.seen /\ IsOpen(t.queue[i][1], setting)
    BY <1>2, <1>3, <1>9
  <2>4. \A e \in t.seen : Active(e) => \A a \in ToSet(Offered[e.query]) : IsCovered(e, a, t, o, setting)
    BY <1>7, <1>9 DEF IsCovered
  <2> QED BY <1>9, <2>1, <2>2, <2>3, <2>4 DEF Covers
<1> QED BY <1>11, <1>12, <1>13, <1>14, <1>15 DEF SearchInv, o

-----------------------------------------------------------------------------
(* The counters of the results and of the cache.                           *)
MissesAdd(rs, cs) ==
  Total([i \in DOMAIN rs |-> rs[i].misses])
    = Cardinality(cs) + Cardinality({i \in DOMAIN rs : rs[i].status = "ERROR"})

LEMMA NoneMissed == MissesAdd(<<>>, {})
<1> DEFINE s == [i \in DOMAIN <<>> |-> <<>>[i].misses]
<1>1. s \in [1 .. 0 -> Int] /\ 0 \in Nat /\ DOMAIN <<>> = {}
  OBVIOUS
<1> HIDE DEF s
<1>2. \A i \in 1 .. 0 : s[i] = 0
  OBVIOUS
<1>3. Total(s) = 0
  BY <1>1, <1>2, TotalOfZeros
<1>4. {i \in DOMAIN <<>> : <<>>[i].status = "ERROR"} = {}
  BY <1>1
<1>5. Cardinality({}) = 0
  BY FS_EmptySet
<1> QED BY <1>3, <1>4, <1>5 DEF MissesAdd, s

IsSplit(s, cs, ds) ==
  /\ ds \subseteq Edges /\ IsFiniteSet(ds) /\ Cardinality(AskedBy(s) \ cs) \in Nat
  /\ Cardinality(AskedBy(s) \ cs)
       = Cardinality(ds) - Cardinality(cs) + (IF s.answer = Failed THEN 1 ELSE 0)

LEMMA AskedIsSplit ==
  ASSUME NEW o, NEW s, HoldsWalks(s, o), RaisesOnce(s, o), NEW cs, cs \subseteq Edges, IsFiniteSet(cs),
         \A x \in cs : o[x].kind # "raises",
         NEW ds, ds = cs \cup {x \in AskedBy(s) : o[x].kind # "raises"}
  PROVE  IsSplit(s, cs, ds)
<1> DEFINE A == AskedBy(s)
           N == {x \in A : o[x].kind # "raises"} \ cs
           R == Raises(s, o)
<1>1. A \subseteq Edges /\ IsFiniteSet(A) /\ IsFiniteSet(R)
      /\ Cardinality(R) = IF s.answer = Failed THEN 1 ELSE 0
  BY AskedOfSearch
<1>2. ds = cs \cup N /\ cs \cap N = {} /\ A \ cs = N \cup R /\ N \cap R = {} /\ N \subseteq A
  BY DEF Raises
<1>3. ds \subseteq Edges /\ \A x \in ds : o[x].kind # "raises"
  BY <1>1
<1> HIDE DEF N, R, A
<1>4. IsFiniteSet(N)
  BY <1>1, <1>2, FS_Subset
<1>5. IsFiniteSet(ds) /\ Cardinality(ds) = Cardinality(cs) + Cardinality(N)
  <2>1. IsFiniteSet(cs \cup N)
        /\ Cardinality(cs \cup N) = Cardinality(cs) + Cardinality(N) - Cardinality(cs \cap N)
    BY <1>4, FS_Union
  <2>2. Cardinality(cs \cap N) = 0
    BY <1>2, FS_EmptySet
  <2>3. Cardinality(cs) \in Nat /\ Cardinality(N) \in Nat
    BY <1>4, FS_CardinalityType
  <2>4. ds = cs \cup N
    BY <1>2
  <2> HIDE DEF N
  <2>5. Cardinality(cs \cup N) = Cardinality(cs) + Cardinality(N)
    BY <2>1, <2>2, <2>3
  <2> QED BY <2>1, <2>4, <2>5, Zenon
<1>6. Cardinality(A \ cs) = Cardinality(N) + Cardinality(R)
  <2>1. Cardinality(N \cup R) = Cardinality(N) + Cardinality(R) - Cardinality(N \cap R)
    BY <1>1, <1>4, FS_Union
  <2>2. Cardinality(N \cap R) = 0
    BY <1>2, FS_EmptySet
  <2>3. Cardinality(R) \in Nat /\ Cardinality(N) \in Nat
    BY <1>1, <1>4, FS_CardinalityType
  <2>4. A \ cs = N \cup R
    BY <1>2
  <2>5. Cardinality(N \cup R) = Cardinality(N) + Cardinality(R)
    BY <2>1, <2>2, <2>3
  <2> QED BY <2>4, <2>5, Zenon
<1>7. Cardinality(cs) \in Nat /\ Cardinality(N) \in Nat
  BY <1>4, FS_CardinalityType
<1> QED BY <1>1, <1>3, <1>5, <1>6, <1>7 DEF A, IsSplit

LEMMA ReportAdds ==
  ASSUME NEW rs \in Results, NEW cs, IsFiniteSet(cs), NEW ds, IsFiniteSet(ds), MissesAdd(rs, cs),
         NEW x \in [strategy : Rollouts \cup Selective, status : {"ERROR", "COMPLETED"}, misses : Nat],
         x.misses = Cardinality(ds) - Cardinality(cs) + (IF x.status = "ERROR" THEN 1 ELSE 0),
         NEW more, more = Append(rs, x)
  PROVE  more \in Results /\ MissesAdd(more, ds)
<1> DEFINE n == Len(rs)
           s == [i \in DOMAIN rs |-> rs[i].misses]
           t == [i \in DOMAIN more |-> more[i].misses]
           E == {i \in DOMAIN rs : rs[i].status = "ERROR"}
           F == {i \in DOMAIN more : more[i].status = "ERROR"}
<1>1. /\ n \in Nat /\ DOMAIN rs = 1 .. n /\ DOMAIN more = 1 .. n + 1 /\ more \in Results
      /\ more[n + 1] = x /\ \A i \in 1 .. n : more[i] = rs[i]
  BY DEF Results
<1> DEFINE T == [strategy : Rollouts \cup Selective, status : {"ERROR", "COMPLETED"}, misses : Nat]
<1>11. more \in Seq(T) /\ rs \in Seq(T) /\ \A y \in T : y.misses \in Nat
  BY <1>1 DEF Results
<1> HIDE DEF T
<1>2. \A i \in DOMAIN more : more[i].misses \in Nat
  BY <1>11
<1>3. \A i \in DOMAIN rs : rs[i].misses \in Nat
  BY <1>11
<1>4. /\ s \in [1 .. n -> Int] /\ t \in [1 .. n + 1 -> Int] /\ t[n + 1] = x.misses
      /\ \A i \in 1 .. n : t[i] = s[i]
  BY <1>1, <1>2, <1>3
<1>5. Total(t) = Total(s) + x.misses
  <2> HIDE DEF s, t, n
  <2> QED BY <1>1, <1>4, TotalOfMore
<1>6. IsFiniteSet(E) /\ n + 1 \notin E /\ F = IF x.status = "ERROR" THEN E \cup {n + 1} ELSE E
  <2>1. IsFiniteSet(1 .. n)
    BY <1>1, FS_Interval
  <2>2. E \subseteq 1 .. n
    BY <1>1
  <2>3. IsFiniteSet(E)
    BY <2>1, <2>2, FS_Subset
  <2>4. n + 1 \notin E
    BY <1>1
  <2>5. \A i : i \in 1 .. n + 1 <=> i \in 1 .. n \/ i = n + 1
    BY <1>1
  <2>6. F = IF x.status = "ERROR" THEN E \cup {n + 1} ELSE E
    <3> HIDE DEF n
    <3> QED BY <1>1, <2>5
  <2> QED BY <2>3, <2>4, <2>6
<1> HIDE DEF E, F, s, t
<1>7. Cardinality(F) = Cardinality(E) + (IF x.status = "ERROR" THEN 1 ELSE 0)
  <2>1. Cardinality(E) \in Nat
    BY <1>6, FS_CardinalityType
  <2>2. Cardinality(E \cup {n + 1}) = Cardinality(E) + 1
    BY <1>6, FS_AddElement
  <2> QED BY <1>6, <2>1, <2>2
<1>8. Total(s) = Cardinality(cs) + Cardinality(E)
  BY DEF MissesAdd, s, E
<1>9. Cardinality(cs) \in Nat /\ Cardinality(ds) \in Nat /\ Cardinality(E) \in Nat
  BY <1>6, FS_CardinalityType
<1>10. Total(t) = Cardinality(ds) + Cardinality(F)
  BY <1>5, <1>7, <1>8, <1>9
<1> QED BY <1>1, <1>10 DEF MissesAdd, t, F

LEMMA ReportKeeps ==
  ASSUME CorpusInv, Report
  PROVE  CorpusInv'
<1> DEFINE x == [strategy |-> search.strategy,
                 status   |-> IF search.answer = Failed THEN "ERROR" ELSE "COMPLETED",
                 misses   |-> CacheMisses(search)]
<1>1. /\ search # Nothing /\ results' = Append(results, x)
      /\ cached' = cached \cup {y \in AskedBy(search) : outcome[y].kind # "raises"}
      /\ search' = Nothing /\ outcome' = outcome /\ setting' = setting
  BY DEF Report
<1>2. HoldsWalks(search, outcome) /\ RaisesOnce(search, outcome) /\ search \in Searches
  BY <1>1 DEF CorpusInv, SearchInv, HoldsWalks
<1>3. /\ results \in Results /\ MissesAdd(results, cached) /\ cached \subseteq Edges /\ IsFiniteSet(cached)
      /\ \A y \in cached : outcome[y].kind # "raises"
  BY DEF CorpusInv, MissesAreUniqueEdges, MissesAdd, Errors
<1>4. /\ cached' \subseteq Edges /\ IsFiniteSet(cached') /\ \A y \in cached' : outcome[y].kind # "raises"
      /\ Cardinality(AskedBy(search) \ cached) \in Nat
      /\ Cardinality(AskedBy(search) \ cached)
           = Cardinality(cached') - Cardinality(cached) + (IF search.answer = Failed THEN 1 ELSE 0)
  <2> DEFINE o == outcome
             cs == cached
             ds == cached'
             s == search
  <2>1. /\ HoldsWalks(s, o) /\ RaisesOnce(s, o) /\ cs \subseteq Edges /\ IsFiniteSet(cs)
        /\ \A y \in cs : o[y].kind # "raises"
        /\ ds = cs \cup {y \in AskedBy(s) : o[y].kind # "raises"}
    BY <1>1, <1>2, <1>3
  <2> HIDE DEF o, cs, ds, s
  <2>2. IsSplit(s, cs, ds)
    BY <2>1, AskedIsSplit
  <2>3. \A y \in ds : o[y].kind # "raises"
    BY <2>1
  <2> QED BY <2>2, <2>3 DEF IsSplit, o, cs, ds, s
<1>5. /\ x.misses = Cardinality(cached') - Cardinality(cached) + (IF x.status = "ERROR" THEN 1 ELSE 0)
      /\ x \in [strategy : Rollouts \cup Selective, status : {"ERROR", "COMPLETED"}, misses : Nat]
  <2>1. search.strategy \in Rollouts \cup Selective
    BY <1>2 DEF Searches
  <2>2. CacheMisses(search) \in Nat
    BY <1>4 DEF CacheMisses
  <2>3. x \in [strategy : Rollouts \cup Selective, status : {"ERROR", "COMPLETED"}, misses : Nat]
    BY <2>1, <2>2
  <2>4. x.misses = Cardinality(AskedBy(search) \ cached)
        /\ (x.status = "ERROR" <=> search.answer = Failed)
    BY DEF CacheMisses
  <2> QED BY <1>4, <2>3, <2>4
<1> HIDE DEF x
<1>6. results' \in Results /\ MissesAdd(results', cached')
  BY <1>1, <1>3, <1>4, <1>5, ReportAdds
<1>7. outcome' \in [Edges -> Outcome] /\ IsSetting'
  BY <1>1 DEF CorpusInv, IsSetting
<1>8. MissesAreUniqueEdges'
  BY <1>6 DEF MissesAdd, MissesAreUniqueEdges, Errors
<1> QED BY <1>1, <1>4, <1>6, <1>7, <1>8 DEF CorpusInv

(* A started search satisfies the invariant, each step of a strategy keeps *)
(* it, and a report adds what the search missed.                           *)
LEMMA CorpusInvHolds == CorpusSpec => []CorpusInv
<1>1. CorpusInit => CorpusInv
  <2> SUFFICES ASSUME CorpusInit PROVE CorpusInv
    OBVIOUS
  <2>1. outcome \in [Edges -> Outcome] /\ IsSetting
    BY CorpusAssumption DEF CorpusInit, IsSetting
  <2>2. results = <<>> /\ cached = {} /\ search = Nothing
    BY DEF CorpusInit
  <2>3. results \in Results /\ IsFiniteSet(cached)
    BY <2>2, FS_EmptySet DEF Results
  <2>4. MissesAreUniqueEdges
    BY <2>2, NoneMissed DEF MissesAdd, MissesAreUniqueEdges, Errors
  <2> QED BY <2>1, <2>2, <2>3, <2>4 DEF CorpusInv
<1>2. CorpusInv /\ [CorpusNext]_corpusVars => CorpusInv'
  <2> SUFFICES ASSUME CorpusInv, [CorpusNext]_corpusVars PROVE CorpusInv'
    OBVIOUS
  <2>1. ASSUME UNCHANGED <<outcome, setting, results, cached>>,
               search' # Nothing => SearchInv(search', outcome, setting)
        PROVE  CorpusInv'
    <3>1. outcome' = outcome /\ setting' = setting /\ results' = results /\ cached' = cached
      BY <2>1
    <3>2. MissesAreUniqueEdges'
      BY <3>1 DEF CorpusInv, MissesAreUniqueEdges, Errors
    <3>3. search' # Nothing => SearchInv(search', outcome', setting')
      BY <2>1, <3>1
    <3> QED BY <3>1, <3>2, <3>3 DEF CorpusInv, IsSetting
  <2>2. CASE Start
    <3> DEFINE x == Strategies[Len(results) + 1]
    <3>1. /\ search' = Started(x) /\ Len(results) < Len(Strategies)
          /\ UNCHANGED <<outcome, setting, results, cached>>
      BY <2>2 DEF Start
    <3>2. x \in Rollouts \cup Selective
      <4>1. Len(results) \in Nat
        BY DEF CorpusInv, Results
      <4>2. Strategies \in Seq(Rollouts \cup Selective)
        BY CorpusAssumption
      <4> QED BY <3>1, <4>1, <4>2
    <3> HIDE DEF x
    <3>3. SearchInv(search', outcome, setting)
      BY <3>1, <3>2, StartKeeps DEF CorpusInv
    <3> QED BY <2>1, <3>1, <3>3
  <2>3. CASE Step
    <3>1. SearchStep /\ UNCHANGED <<outcome, setting, results, cached>>
      BY <2>3 DEF Step
    <3>2. search # Nothing
      BY <3>1 DEF SearchStep, Rollout, Abstain, Greedy, Beam, Exhaustive, ExhaustiveCut, Finish, Running
    <3>3. SearchInv(search', outcome, setting)
      BY <3>1, <3>2, StepKeeps DEF CorpusInv, Oracles
    <3> QED BY <2>1, <3>1, <3>3
  <2>4. CASE Report
    BY <2>4, ReportKeeps
  <2>5. CASE UNCHANGED corpusVars
    <3>1. search' = search /\ UNCHANGED <<outcome, setting, results, cached>>
      BY <2>5 DEF corpusVars
    <3> QED BY <2>1, <3>1 DEF CorpusInv
  <2> QED BY <2>2, <2>3, <2>4, <2>5 DEF CorpusNext
<1> QED BY <1>1, <1>2, PTL DEF CorpusSpec

(* The explored nodes of a result are as many as were tried, within the    *)
(* node limit, and the misses of all results together are the entries of   *)
(* the cache and one more for each strategy that an exception ended        *)
(* (algorithms.py:42-309 explored counters, runner.py:260-296, 503-513).   *)
THEOREM CountersAlwaysExact == CorpusSpec => []CountersAreExact
<1>1. CorpusInv => CountersAreExact
  <2> SUFFICES ASSUME CorpusInv PROVE CountersAreExact
    OBVIOUS
  <2>1. ASSUME search # Nothing, search.answer \notin {Nothing, Failed}
        PROVE  Counted(search)
    BY <2>1 DEF CorpusInv, SearchInv
  <2>2. "exhaustive" \in Selective
    BY DEF Selective
  <2>3. NodesAreCounted
    BY <2>1, <2>2 DEF NodesAreCounted, Answered, Counted
  <2> QED BY <2>3 DEF CorpusInv, CountersAreExact
<1> QED BY <1>1, CorpusInvHolds, PTL

-----------------------------------------------------------------------------
(* All paths.                                                              *)
Further(S) == UNION {ToSet(Children(w)) : w \in {w \in S : Active(w)}}

Walking(walks, n) ==
  walks = [i \in 0 .. n |-> IF i = 0 THEN {RootNode} ELSE Further(walks[i - 1])]

LEMMA WalkingExists ==
  ASSUME NEW n \in Nat
  PROVE  \E walks : Walking(walks, n)
<1> DEFINE Good == {m \in Nat : \E walks : Walking(walks, m)}
<1> HIDE DEF RootNode
<1>1. 0 \in Good
  <2>1. Walking([i \in 0 .. 0 |-> {RootNode}], 0)
    BY DEF Walking
  <2> QED BY <2>1
<1>2. ASSUME NEW m \in Nat, m \in Good PROVE m + 1 \in Good
  <2>1. PICK f : Walking(f, m)
    BY <1>2
  <2> DEFINE more == [i \in 0 .. m + 1 |-> IF i <= m THEN f[i] ELSE Further(f[i - 1])]
  <2>2. \A i \in 0 .. m : f[i] = IF i = 0 THEN {RootNode} ELSE Further(f[i - 1])
    BY <2>1 DEF Walking
  <2>3. \A i \in 0 .. m : more[i] = f[i]
    OBVIOUS
  <2>4. more[m + 1] = Further(more[m])
    BY <2>3
  <2>5. more = [i \in 0 .. m + 1 |-> more[i]]
    OBVIOUS
  <2> HIDE DEF more
  <2>6. \A i \in 0 .. m + 1 : more[i] = IF i = 0 THEN {RootNode} ELSE Further(more[i - 1])
    <3> TAKE i \in 0 .. m + 1
    <3>1. CASE i = m + 1
      BY <3>1, <2>4
    <3>2. CASE i \in 0 .. m
      <4>1. i = 0 \/ i - 1 \in 0 .. m
        BY <3>2
      <4> QED BY <3>2, <4>1, <2>2, <2>3
    <3> QED BY <3>1, <3>2
  <2>7. more = [i \in 0 .. m + 1 |-> IF i = 0 THEN {RootNode} ELSE Further(more[i - 1])]
    BY <2>5, <2>6
  <2>8. Walking(more, m + 1)
    BY <2>7 DEF Walking
  <2> QED BY <2>8
<1> HIDE DEF Good
<1>3. Nat \subseteq Good
  BY <1>1, <1>2, Induction
<1> QED BY <1>3 DEF Good

LEMMA WalksAre ==
  ASSUME IsSetting
  PROVE  \E walks : /\ Walks = UNION {walks[n] : n \in 0 .. setting.maxSteps}
                    /\ Walking(walks, setting.maxSteps)
<1> DEFINE walks == CHOOSE f : Walking(f, setting.maxSteps)
<1>1. setting.maxSteps \in Nat
  BY DEF IsSetting
<1>2. Walking(walks, setting.maxSteps)
  BY <1>1, WalkingExists
<1>3. Walks = UNION {walks[n] : n \in 0 .. setting.maxSteps}
  BY DEF Walks, Walking, Further
<1> QED BY <1>2, <1>3

(* What exhaustive search has seen is as good as any path, up to one       *)
(* margin for each step.                                                   *)
IsMatched(n, k, s) ==
  /\ IsWalk(n, outcome) /\ Len(n.trail) = k
  /\ ~Raised(n) =>
       \E e \in s.seen : /\ n.reward <= e.reward + k * setting.margin
                         /\ Active(n) => IsOpen(e, setting) /\ e.query = n.query /\ Len(e.trail) <= k

LEMMA StepIsMatched ==
  ASSUME Oracles, IsSetting, NEW s, HoldsWalks(s, outcome), s.queue = <<>>,
         \A e \in s.seen : Active(e) =>
           \A a \in ToSet(Offered[e.query]) : IsCovered(e, a, s, outcome, setting),
         NEW k \in Nat, k < setting.maxSteps, NEW w, IsMatched(w, k, s), Active(w),
         NEW a \in ToSet(Offered[w.query]), NEW n, n = Child(w, a)
  PROVE  IsMatched(n, k + 1, s)
<1> DEFINE x == <<w.query, a>>
           margin == setting.margin
           d == k * margin
<1>1. IsWalk(w, outcome) /\ Len(w.trail) = k /\ ~Raised(w)
  BY DEF IsMatched, Active, Raised
<1>2. /\ x \in Edges /\ IsWalk(n, outcome) /\ Len(n.trail) = Len(w.trail) + 1
      /\ outcome[x].kind = "proven" => n.query = Target[x] /\ n.reward = w.reward + outcome[x].reward
      /\ outcome[x].kind # "proven" => ~Active(n)
      /\ outcome[x].kind = "rejected" => n.reward <= w.reward
      /\ Raised(n) <=> outcome[x].kind = "raises"
  BY <1>1, ChildIs
<1>3. PICK e \in s.seen : /\ w.reward <= e.reward + d
                          /\ IsOpen(e, setting) /\ e.query = w.query /\ Len(e.trail) <= k
  BY <1>1 DEF IsMatched
<1>4. /\ e \in Nodes /\ w \in Nodes /\ n \in Nodes
      /\ e.reward \in Int /\ w.reward \in Int /\ n.reward \in Int /\ Len(e.trail) \in Nat
      /\ outcome[x].reward \in Int
  <2>1. e \in Nodes /\ w \in Nodes /\ n \in Nodes
    BY <1>1, <1>2 DEF HoldsWalks, IsWalk
  <2> HIDE DEF x
  <2> QED BY <1>2, <2>1, NodeIs, OutcomeIs
<1>5. margin \in Nat /\ d \in Nat /\ (k + 1) * margin = d + margin /\ setting.maxSteps \in Nat
  BY DEF IsSetting
<1>6. Active(e) /\ <<e.query, a>> = x
  <2>1. Offered[w.query] # <<>>
    BY <1>1 DEF IsWalk
  <2>2. Len(e.trail) < setting.maxSteps
    BY <1>3, <1>4, <1>5
  <2> QED BY <1>3, <2>1, <2>2 DEF IsOpen
<1>7. IsCovered(e, a, s, outcome, setting)
  BY <1>3, <1>6
<1> HIDE DEF x, d, margin
<1>8. CASE outcome[x].kind = "proven"
  <2>1. PICK f \in s.seen : StandsFor(f, Target[x], Len(e.trail) + 1, e.reward + outcome[x].reward, setting)
    <3>1. DOMAIN s.queue = {}
      OBVIOUS
    <3> QED BY <1>6, <1>7, <1>8, <3>1 DEF IsCovered
  <2>2. /\ IsOpen(f, setting) /\ f.query = n.query /\ Len(f.trail) <= Len(e.trail) + 1
        /\ e.reward + outcome[x].reward <= f.reward + margin
    BY <1>2, <1>8, <2>1 DEF StandsFor, margin
  <2>3. f.reward \in Int /\ Len(f.trail) \in Nat
    <3>1. f \in Nodes
      BY DEF HoldsWalks, IsWalk
    <3> QED BY <3>1, NodeIs
  <2>4. n.reward = w.reward + outcome[x].reward
    BY <1>2, <1>8
  <2>5. n.reward <= f.reward + (d + margin)
    <3> DEFINE before == w.reward
               stood  == e.reward
               stands == f.reward
               gain   == outcome[x].reward
    <3>1. /\ before \in Int /\ stood \in Int /\ stands \in Int /\ gain \in Int
          /\ before <= stood + d /\ stood + gain <= stands + margin /\ n.reward = before + gain
      BY <1>3, <1>4, <2>2, <2>3, <2>4
    <3> HIDE DEF before, stood, stands, gain
    <3>2. before + gain <= stands + (d + margin)
      BY <1>5, <3>1
    <3> QED BY <3>1, <3>2 DEF stands
  <2>6. Len(f.trail) <= k + 1
    BY <1>3, <1>4, <2>2, <2>3
  <2>7. n.reward <= f.reward + (k + 1) * setting.margin
    BY <1>5, <2>5 DEF margin
  <2> QED BY <1>1, <1>2, <2>2, <2>6, <2>7 DEF IsMatched
<1>9. CASE outcome[x].kind = "rejected"
  <2>1. n.reward <= e.reward + (d + margin)
    BY <1>2, <1>3, <1>4, <1>5, <1>9
  <2>2. n.reward <= e.reward + (k + 1) * setting.margin
    BY <1>5, <2>1 DEF margin
  <2> QED BY <1>1, <1>2, <1>9, <2>2 DEF IsMatched
<1>10. CASE outcome[x].kind = "raises"
  BY <1>1, <1>2, <1>10 DEF IsMatched
<1> QED BY <1>2, <1>8, <1>9, <1>10, OutcomeIs

LEMMA WalksAreMatched ==
  ASSUME Oracles, IsSetting, NEW s, HoldsWalks(s, outcome), s.queue = <<>>,
         \A e \in s.seen : Active(e) =>
           \A a \in ToSet(Offered[e.query]) : IsCovered(e, a, s, outcome, setting)
  PROVE  \A n \in Walks : \E k \in 0 .. setting.maxSteps : IsMatched(n, k, s)
<1> DEFINE M == setting.maxSteps
<1>1. M \in Nat /\ M # 0
  BY DEF IsSetting
<1>2. PICK walks : /\ Walks = UNION {walks[n] : n \in 0 .. M}
                   /\ Walking(walks, M)
  BY WalksAre
<1> DEFINE Good == {k \in Nat : k \in 0 .. M => \A n \in walks[k] : IsMatched(n, k, s)}
<1> HIDE DEF M
<1>3. \A i \in 0 .. M : walks[i] = IF i = 0 THEN {RootNode} ELSE Further(walks[i - 1])
  <2> HIDE DEF RootNode
  <2> QED BY <1>2 DEF Walking
<1>4. 0 \in Good
  <2>1. /\ RootNode \in Nodes /\ IsWalk(RootNode, outcome)
        /\ RootNode.trail = <<>> /\ RootNode.reward = 0
    BY RootIsWalk
  <2>2. Len(RootNode.trail) = 0 /\ 0 * setting.margin = 0 /\ RootNode \in s.seen
    BY <2>1 DEF IsSetting, HoldsWalks
  <2>3. IsOpen(RootNode, setting)
    <3>1. RootNode.end = IF Offered[Root] = <<>> THEN "terminated" ELSE "open"
      BY DEF RootNode, Node
    <3>2. RootNode.query = Root /\ Len(RootNode.trail) < setting.maxSteps
      BY <1>1, <2>2, RootIsWalk DEF M
    <3> QED BY <3>1, <3>2 DEF IsOpen, Active
  <2> HIDE DEF RootNode
  <2>4. IsMatched(RootNode, 0, s)
    <3>1. RootNode.reward <= RootNode.reward + 0 * setting.margin /\ Len(RootNode.trail) <= 0
      BY <2>1, <2>2
    <3> QED BY <2>1, <2>2, <2>3, <3>1 DEF IsMatched
  <2> QED BY <1>1, <1>3, <2>4
<1>5. ASSUME NEW k \in Nat, k \in Good PROVE k + 1 \in Good
  <2> SUFFICES ASSUME k + 1 \in 0 .. M, NEW n \in walks[k + 1] PROVE IsMatched(n, k + 1, s)
    OBVIOUS
  <2>1. k \in 0 .. M /\ k < M /\ k + 1 # 0 /\ (k + 1) - 1 = k
    BY <1>1
  <2>2. n \in Further(walks[k]) /\ \A w \in walks[k] : IsMatched(w, k, s)
    BY <1>3, <1>5, <2>1
  <2>3. PICK w \in walks[k] : Active(w) /\ n \in ToSet(Children(w))
    BY <2>2 DEF Further
  <2>4. PICK a \in ToSet(Offered[w.query]) : n = Child(w, a)
    <3>1. PICK i \in DOMAIN Offered[w.query] : n = Child(w, Offered[w.query][i])
      BY <2>3 DEF ToSet, Children
    <3> QED BY <3>1 DEF ToSet
  <2> QED BY <2>1, <2>2, <2>3, <2>4, StepIsMatched DEF M
<1> HIDE DEF Good
<1>6. Nat \subseteq Good
  BY <1>4, <1>5, Induction
<1>7. \A k \in 0 .. M : \A n \in walks[k] : IsMatched(n, k, s)
  BY <1>6 DEF Good
<1> QED BY <1>2, <1>7 DEF M

LEMMA MoreMargins ==
  ASSUME NEW k \in Nat, NEW m \in Nat, k <= m, NEW margin \in Nat
  PROVE  margin + k * margin <= (m + 1) * margin
<1>1. m - k \in Nat /\ (m - k) * margin \in Nat
  OBVIOUS
<1>2. (m + 1) * margin = margin + k * margin + (m - k) * margin
  OBVIOUS
<1>3. k * margin \in Nat
  OBVIOUS
<1> QED BY <1>1, <1>2, <1>3

(* No path that a strategy tried is better than its answer by more than    *)
(* two margins, and no path at all is better than that of an exhaustive    *)
(* search which was not cut off by more than a margin for each step and    *)
(* one for the choice (algorithms.py:128-310), for any queries, actions,   *)
(* rewards, node limit, beam width, margin and tie policy.                 *)
THEOREM NothingBetterMissed == CorpusSpec => []NothingBetterIsMissed
<1>1. CorpusInv => NothingBetterIsMissed
  <2> SUFFICES ASSUME CorpusInv PROVE NothingBetterIsMissed
    OBVIOUS
  <2>1. ASSUME search # Nothing, search.answer \notin {Nothing, Failed}
        PROVE  SearchInv(search, outcome, setting)
    BY <2>1 DEF CorpusInv
  <2>2. NoTriedPathIsBetter
    BY <2>1 DEF NoTriedPathIsBetter, Answered, SearchInv, Near
  <2>3. ASSUME Answered({"exhaustive"}), ~search.cut, NEW n \in Walks, ~Raised(n)
        PROVE  n.reward - search.answer.reward <= (setting.maxSteps + 1) * setting.margin
    <3> DEFINE s == search
               best == s.answer
    <3>1. s # Nothing /\ s.strategy = "exhaustive" /\ best \notin {Nothing, Failed}
      BY <2>3 DEF Answered
    <3>2. HoldsWalks(s, outcome) /\ Covers(s, outcome, setting)
      BY <2>1, <3>1 DEF SearchInv
    <3>3. /\ s.queue = <<>> /\ \A e \in s.seen : e.reward <= best.reward + setting.margin
          /\ \A e \in s.seen : Active(e) =>
               \A a \in ToSet(Offered[e.query]) : IsCovered(e, a, s, outcome, setting)
      BY <2>3, <3>1, <3>2 DEF Covers
    <3>4. Oracles /\ IsSetting
      BY DEF CorpusInv, Oracles
    <3>5. best \in Nodes
      BY <3>1, <3>2 DEF HoldsWalks, Searches
    <3> HIDE DEF s, best
    <3>6. PICK k \in 0 .. setting.maxSteps : IsMatched(n, k, s)
      BY <3>2, <3>3, <3>4, WalksAreMatched
    <3>7. PICK e \in s.seen : n.reward <= e.reward + k * setting.margin
      BY <2>3, <3>6 DEF IsMatched
    <3>8. e \in Nodes /\ n \in Nodes
      BY <3>2, <3>6 DEF IsMatched, HoldsWalks, IsWalk
    <3>9. e.reward \in Int /\ n.reward \in Int /\ best.reward \in Int
      BY <3>5, <3>8, NodeIs
    <3>10. setting.margin \in Nat /\ setting.maxSteps \in Nat /\ k \in Nat /\ k <= setting.maxSteps
      BY <3>4 DEF IsSetting
    <3> DEFINE d == k * setting.margin
               all == (setting.maxSteps + 1) * setting.margin
    <3>11. setting.margin + d <= all /\ d \in Int /\ all \in Int
      BY <3>10, MoreMargins
    <3>12. n.reward <= e.reward + d /\ e.reward <= best.reward + setting.margin
      BY <3>3, <3>7
    <3> HIDE DEF d, all
    <3>13. n.reward - best.reward <= all
      BY <3>9, <3>10, <3>11, <3>12
    <3> QED BY <3>13 DEF all, best, s
  <2>4. ExhaustiveFindsTheBest
    BY <2>3 DEF ExhaustiveFindsTheBest
  <2> QED BY <2>2, <2>4 DEF NothingBetterIsMissed
<1> QED BY <1>1, CorpusInvHolds, PTL
=============================================================================
