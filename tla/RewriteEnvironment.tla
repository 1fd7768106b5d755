------------------------- MODULE RewriteEnvironment -------------------------
(***************************************************************************)
(* The episode state machine of src/qseal/research/environment/core.py.    *)
(* A caller resets the environment with a task and then steps it with the  *)
(* actions the observation offers.  A step applies one rewrite, asks the   *)
(* verifier about the pair, measures it, re-enumerates the actions of the  *)
(* new query and appends the transition to the trajectory.                 *)
(*                                                                         *)
(* Queries, rewrites and semantic equivalence are parameters here; the     *)
(* module RewriteSession gives them content.                               *)
(***************************************************************************)
EXTENDS Integers, Sequences, Collections

CONSTANTS
  Query,        \* SQL texts, as strip() leaves them
  Parses,       \* the texts parse_select accepts
  Task,         \* the tasks a caller may reset with
  SqlOf,        \* [Task -> Query]: task.sql
  MaxSteps,     \* [Task -> Nat \ {0}]: task.max_steps
  Action,       \* action identifiers, rule_name::match_id
  Matches,      \* [Task -> [Query -> SUBSET Action]]: available_rewrite_matches
  Rewritten,    \* [Query -> [Action -> Query \cup {None}]]: apply_rewrite_match
  Equiv,        \* [Task -> SUBSET (Query \X Query)]: same rows on every
                \* database that satisfies the task's constraints
  RewardModel,  \* "transition" or "state"
  LogMs,        \* the logarithms of the medians a measurement may report
  Unsure,       \* a measurement that failed or missed its confidence threshold
  None          \* Python's None

Status == {"proven", "not_equivalent", "unsupported", "unknown"}

(* EnvironmentObservation, without the labels it carries along.             *)
Observation == [initial : Query, current : Query, step : Nat, actions : SUBSET Action]

EquivAssumption ==
  \A t \in Task :
    /\ \A q \in Query : <<q, q>> \in Equiv[t]
    /\ \A p, q, r \in Query :
         <<p, q>> \in Equiv[t] /\ <<q, r>> \in Equiv[t] => <<p, r>> \in Equiv[t]

ASSUME EnvironmentAssumption ==
  /\ Parses \subseteq Query
  /\ SqlOf \in [Task -> Query]
  /\ MaxSteps \in [Task -> Nat \ {0}]
  /\ Matches \in [Task -> [Query -> SUBSET Action]]
  /\ Rewritten \in [Query -> [Action -> Query \cup {None}]]
  /\ Equiv \in [Task -> SUBSET (Query \X Query)]
  /\ EquivAssumption
  /\ RewardModel \in {"transition", "state"}
  /\ LogMs \subseteq Int
  /\ None \notin Query \cup Task
  /\ None \notin Observation
  /\ None \notin LogMs
  /\ None # Unsure
  /\ Unsure \notin LogMs

VARIABLES
  task,      \* _task
  obs,       \* _observation
  done,      \* _done
  measured,  \* the state measurements of a caching evaluator, by query
  log        \* what the trajectory file holds of the current episode

episode == <<task, obs, done>>
vars == <<task, obs, done, measured, log>>

-----------------------------------------------------------------------------
(* What an evaluator reports of a query: a confident median, or a timeout, *)
(* an error or a low-confidence timing, which all earn the same reward.    *)
Measurement == LogMs \cup {Unsure}

(* What the trajectory keeps of a transition. *)
Transition == [step : Nat, state : Query, action : Action, proposed : Query,
               next : Query, reward : Int, status : Status, benchmark : BOOLEAN,
               terminated : BOOLEAN, truncated : BOOLEAN]

(* Rewards count in hundredths, so that a failed verification (-0.25, -1.0)*)
(* and a difference of logarithms are both whole numbers.                  *)
VerificationFailureReward(status) == IF status = "not_equivalent" THEN -100 ELSE -25

Confident(before, after) == before # Unsure /\ after # Unsure

PerformanceReward(before, after) ==
  IF Confident(before, after) THEN 100 * (before - after) ELSE 0

(* Mutant: a cached verdict that forgets which constraints it was for.     *)
VerdictsOfAnyTask(t, q, r) ==
  {s \in Status : s = "proven" => \E u \in Task : <<q, r>> \in Equiv[u]}

(* A verifier may time out or give up on any pair; a sound one certifies   *)
(* only equivalent queries.  A verdict read back from the cache was given  *)
(* for the same pair under the same constraints: all three are in its key. *)
Verdicts(t, q, r) == {s \in Status : s = "proven" => <<q, r>> \in Equiv[t]}

(* Mutant: the actions enumerated at the reset. *)
ObservationWithFirstActions(t, q, n) ==
  [initial |-> SqlOf[t], current |-> q, step |-> n, actions |-> Matches[t][SqlOf[t]]]

(* The action list of a set operation is empty, and so Matches is too.     *)
ObservationFor(t, q, n) ==
  [initial |-> SqlOf[t], current |-> q, step |-> n, actions |-> Matches[t][q]]

ActiveEpisode ==
  /\ task # None
  /\ ~done
  /\ obs.actions # {}
  /\ obs.step < MaxSteps[task]

(* Terminated: no action is left.  Truncated: the budget is used up. *)
Terminates(next) == next.actions = {}

Truncates(t, next) == next.step >= MaxSteps[t] /\ next.actions # {}

(* Mutants: a transition appended twice, and a proposal recorded as reached. *)
RecordTwice(transition) == log' = log \o <<transition, transition>>
RecordProposed(transition) == log' = Append(log, [transition EXCEPT !.next = transition.proposed])

(* The recorder appends the transition, or its open() or write() raises    *)
(* and the transition is lost although the episode has moved on.           *)
Record(transition) ==
  \/ log' = Append(log, transition)
  \/ UNCHANGED log

-----------------------------------------------------------------------------
Init ==
  /\ task = None
  /\ obs = None
  /\ done = FALSE
  /\ measured = [q \in Query |-> None]
  /\ log = <<>>

(* reset() parses first: a task whose SQL does not parse raises and leaves *)
(* the previous episode running.                                           *)
Reset(t) ==
  /\ SqlOf[t] \in Parses
  /\ task' = t
  /\ obs' = ObservationFor(t, SqlOf[t], 0)
  /\ done' = FALSE
  /\ log' = <<>>
  /\ UNCHANGED measured

(* A verdict other than "proven" ends the episode with the query unchanged.*)
StepRejected(a) ==
  LET r == Rewritten[obs.current][a] IN
  /\ ActiveEpisode
  /\ a \in obs.actions
  /\ r # None
  /\ \E s \in Verdicts(task, obs.current, r) \ {"proven"} :
       /\ done' = TRUE
       /\ Record([step |-> obs.step, state |-> obs.current, action |-> a,
                  proposed |-> r, next |-> obs.current,
                  reward |-> VerificationFailureReward(s), status |-> s,
                  benchmark |-> FALSE, terminated |-> TRUE, truncated |-> FALSE])
  /\ UNCHANGED <<task, obs, measured>>

(* Mutant: every measurement replaces the entry of its query. *)
BenchmarkAfresh(q, r, before, after) ==
  measured' = [measured EXCEPT ![q] = before, ![r] = after]

(* The pair of measurements a performance evaluator returns.  In the state *)
(* model each query is measured once and its entry reused afterwards; in   *)
(* the transition model the pair is measured afresh.                       *)
Benchmark(q, r, before, after) ==
  IF RewardModel = "state"
    THEN /\ measured[q] # None => before = measured[q]
         /\ measured[r] # None => after = measured[r]
         /\ q = r => before = after
         /\ measured' = [measured EXCEPT ![q] = before, ![r] = after]
    ELSE UNCHANGED measured

(* A certified rewrite is measured, parsed and becomes the current query.  *)
(* A text that does not parse, or an evaluator that fails, raises before   *)
(* any of the assignments.                                                 *)
StepAccepted(a) ==
  LET r     == Rewritten[obs.current][a]
      next  == ObservationFor(task, r, obs.step + 1)
      ended == Terminates(next)
      cut   == Truncates(task, next)
  IN
  /\ ActiveEpisode
  /\ a \in obs.actions
  /\ r \in Parses
  /\ "proven" \in Verdicts(task, obs.current, r)
  /\ \E before, after \in Measurement :
       /\ Benchmark(obs.current, r, before, after)
       /\ Record([step |-> obs.step, state |-> obs.current, action |-> a,
                  proposed |-> r, next |-> r,
                  reward |-> PerformanceReward(before, after), status |-> "proven",
                  benchmark |-> Confident(before, after),
                  terminated |-> ended, truncated |-> cut])
  /\ obs' = next
  /\ done' = (ended \/ cut)
  /\ UNCHANGED task

(* A failure between the verdict and the assignments leaves the episode as *)
(* it was: only what the evaluator cached survives.  Either the measured   *)
(* text does not parse, or the evaluator fails with one of its two results *)
(* stored, or with none.                                                   *)
MeasureAlone(q, result) ==
  /\ RewardModel = "state"
  /\ measured[q] = None
  /\ measured' = [measured EXCEPT ![q] = result]

StepRaises(a) ==
  LET r == Rewritten[obs.current][a] IN
  /\ ActiveEpisode
  /\ a \in obs.actions
  /\ r # None
  /\ "proven" \in Verdicts(task, obs.current, r)
  /\ \E before, after \in Measurement :
       \/ r \notin Parses /\ Benchmark(obs.current, r, before, after)
       \/ MeasureAlone(obs.current, before)
       \/ MeasureAlone(r, after)
  /\ UNCHANGED <<task, obs, done, log>>

Next ==
  \/ \E t \in Task : Reset(t)
  \/ \E a \in Action : StepRejected(a) \/ StepAccepted(a) \/ StepRaises(a)

Spec == Init /\ [][Next]_vars

-----------------------------------------------------------------------------
TypeOK ==
  /\ task \in Task \cup {None}
  /\ obs \in Observation \cup {None}
  /\ done \in BOOLEAN
  /\ measured \in [Query -> Measurement \cup {None}]
  /\ log \in Seq(Transition)
  /\ (task = None) <=> (obs = None)

(* The query an episode shows returns the same rows as the task's SQL,     *)
(* under the constraints of that task, however many rewrites, rejections,  *)
(* failed resets and lost records lie in between (step, core.py:175).      *)
CurrentMeansInitial ==
  task # None => <<SqlOf[task], obs.current>> \in Equiv[task]

(* An observation never offers the actions of an older query or of another *)
(* task's constraints: what step() applies to current_sql was enumerated   *)
(* from current_sql (_observation_for, core.py:265).                       *)
ActionsAreCurrent ==
  task # None => /\ obs.actions = Matches[task][obs.current]
                 /\ obs.initial = SqlOf[task]

(* An episode that is not done can be stepped; the one exception is a task *)
(* that offered nothing from the start, which reset() leaves open although *)
(* step() refuses it (_active_episode, core.py:254).                       *)
OpenEpisodeCanStep ==
  task # None /\ ~done =>
    /\ obs.step < MaxSteps[task]
    /\ obs.actions = {} => obs.step = 0

(* The trajectory of an episode replays: the states of consecutive steps   *)
(* fit together, a step that ended the episode is the last one, and its    *)
(* end is where the environment now stands (record, trajectory.py:41).     *)
LogReplays ==
  /\ \A i \in DOMAIN log : log[i].terminated \/ log[i].truncated => i = Len(log) /\ done
  /\ \A i \in 1 .. Len(log) - 1 :
       /\ log[i].step < log[i + 1].step
       /\ log[i].step + 1 = log[i + 1].step => log[i].next = log[i + 1].state
  /\ log # <<>> =>
       /\ log[1].step = 0 => log[1].state = SqlOf[task]
       /\ \/ log[Len(log)].next = obs.current
          \/ log[Len(log)].step + 1 < obs.step

(* Whatever the file keeps, lost lines included, each recorded next state  *)
(* is a query equivalent to the task's SQL: a rejected proposal is recorded*)
(* as proposed and never as reached.                                       *)
LogIsCertified ==
  \A i \in DOMAIN log :
    /\ <<SqlOf[task], log[i].next>> \in Equiv[task]
    /\ log[i].status # "proven" => log[i].next = log[i].state /\ log[i].reward < 0

(* The rewards of an episode whose every transition was recorded. *)
Return == Total([i \in DOMAIN log |-> log[i].reward])
FullyRecorded == task # None /\ Len(log) = obs.step
FullyMeasured == \A i \in DOMAIN log : log[i].benchmark

(* With one stable entry per query the rewards of an episode telescope: in *)
(* the state model an episode in which every measurement was confident     *)
(* earns the difference of its two end queries, by whichever route         *)
(* (_performance_reward, core.py:383, docs/rewrite-environment.md,         *)
(* "Reward").                                                              *)
ConfidentReturnIsStateDifference ==
  RewardModel = "state" /\ FullyRecorded /\ FullyMeasured /\ log # <<>> =>
    Return = 100 * (measured[SqlOf[task]] - measured[obs.current])

(* The environment shows the caller a certified rewriting session. *)
Certified == INSTANCE CertifiedRewriting WITH
  Context <- Task,
  context <- task,
  root    <- IF task = None THEN None ELSE SqlOf[task],
  current <- IF task = None THEN None ELSE obs.current

ImplementsCertifiedRewriting == Certified!Spec
=============================================================================
