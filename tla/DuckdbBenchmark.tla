-------------------------- MODULE DuckdbBenchmark ---------------------------
(***************************************************************************)
(* benchmark/duckdb.py: one benchmark_query or benchmark_query_pair on a   *)
(* connection of its own.  Each statement has a watchdog thread that       *)
(* interrupts the connection when the statement takes too long.  The two   *)
(* queries of a pair take turns, each in batches long enough to be timed.  *)
(*                                                                         *)
(* A query is its label, a time a small number; what is made of the times  *)
(* (medians but for the confidence, deviations, the speedup) is left out,  *)
(* and so is a database that cannot be opened, which raises to the caller. *)
(***************************************************************************)
EXTENDS Integers, Sequences, FiniteSets

CONSTANTS
  Settings,        \* what a benchmark may be called with
  Durations,       \* what an execution may take
  MaxExecutions,   \* _MAX_EXECUTIONS_PER_SAMPLE, 1000 in the code
  None

Labels == {"original", "rewritten"}
Results == [status : {"COMPLETED", "ERROR", "TIMEOUT"}, confident : BOOLEAN]

ASSUME BenchmarkAssumption ==
  /\ Settings \subseteq [pair : BOOLEAN, warmups : Nat, repetitions : Nat \ {0}, minimum : Nat]
  /\ Durations \subseteq Nat
  /\ MaxExecutions \in Nat \ {0}
  /\ None \notin Nat \cup Results

VARIABLES
  settings,     \* the arguments
  endless,      \* the queries that only an interrupt can stop
  main,         \* what the measuring thread does with its statement
  at,           \* the task it is at
  batch,        \* executions and time of the batch under way
  executions,   \* per query, executions per sample
  samples,      \* per query, the times of its batches
  call,         \* calls of _execute_with_timeout so far
  watchdogs,    \* the threads that live, by call: "waiting" or "expired"
  finished,     \* calls whose event of that name is set
  timed_out,    \* likewise
  interrupt,    \* the call whose watchdog interrupted the connection, or None
  result,       \* the status, and whether the timing is confident, or None
  calibrated,   \* history: per query, the time it was calibrated on
  steady,       \* history: no execution of a sample was faster than that
  stopped,      \* history: some statement was stopped by an interrupt
  missed        \* history: an interrupt came before its statement began

thread  == <<call, watchdogs, finished, timed_out, interrupt, stopped, missed>>
timing  == <<batch, executions, samples, calibrated, steady>>
vars == <<settings, endless, main, at, result, thread, timing>>

-----------------------------------------------------------------------------
(* The tasks, counted from 0: warm-ups, plans, calibrations, samples.      *)

Width == IF settings.pair THEN 2 ELSE 1

(* The original goes first in even rounds, the rewritten one in odd ones.  *)
Turn(n) == IF settings.pair /\ (n \div 2) % 2 # n % 2 THEN "rewritten" ELSE "original"
Each(n) == IF n = 0 THEN "original" ELSE "rewritten"

Warmups      == Width * settings.warmups
Calibrations == IF settings.minimum > 0 THEN Width ELSE 0
Samples      == Width * settings.repetitions

FirstPlan        == Warmups
FirstCalibration == FirstPlan + Width
FirstSample      == FirstCalibration + Calibrations
End              == FirstSample + Samples

Kind(n) == CASE n < FirstPlan        -> "warmup"
             [] n \in FirstPlan .. FirstCalibration - 1  -> "plan"
             [] n \in FirstCalibration .. FirstSample - 1 -> "calibration"
             [] OTHER                -> "sample"
Label(n) == CASE Kind(n) = "warmup"      -> Turn(n)
              [] Kind(n) = "plan"        -> Each(n - FirstPlan)
              [] Kind(n) = "calibration" -> Each(n - FirstCalibration)
              [] Kind(n) = "sample"      -> Turn(n - FirstSample)

Measured == IF settings.pair THEN Labels ELSE {"original"}

-----------------------------------------------------------------------------
NoBatch == [runs |-> 0, elapsed |-> 0]

Init ==
  /\ settings \in Settings
  /\ endless \in SUBSET Labels
  /\ main = "opening" /\ at = 0
  /\ batch = NoBatch
  /\ executions = [q \in Labels |-> 1]
  /\ samples = [q \in Labels |-> <<>>]
  /\ call = 0 /\ watchdogs = << >>
  /\ finished = {} /\ timed_out = {}
  /\ interrupt = None
  /\ result = None
  /\ calibrated = [q \in Labels |-> 0]
  /\ steady = [q \in Labels |-> TRUE]
  /\ stopped = FALSE /\ missed = FALSE

Failed(status) == [status |-> status, confident |-> FALSE]

(* The thread count and the set-up run without a watchdog.                 *)
Open ==
  /\ main = "opening"
  /\ \/ main' = "idle" /\ result' = None
     \/ main' = "done" /\ result' = Failed("ERROR")
  /\ UNCHANGED <<settings, endless, at, thread, timing>>

(* _execute_with_timeout: the watchdog is started before the statement.    *)
StartWatchdog ==
  /\ main = "idle" /\ at < End
  /\ main' = "watched"
  /\ call' = call + 1
  /\ watchdogs' = [c \in DOMAIN watchdogs \cup {call + 1} |->
                     IF c = call + 1 THEN "waiting" ELSE watchdogs[c]]
  /\ UNCHANGED <<settings, endless, at, result, timing, finished, timed_out, interrupt,
                 stopped, missed>>

(* A statement that begins forgets an interrupt that came before it.       *)
Begin ==
  /\ main = "watched"
  /\ main' = "running"
  /\ interrupt' = None
  /\ UNCHANGED <<settings, endless, at, result, timing, call, watchdogs, finished, timed_out,
                 stopped, missed>>

(* The statement returns its rows; the event is set in the finally clause. *)
Return ==
  /\ main = "running"
  /\ Kind(at) = "plan" \/ Label(at) \notin endless
  /\ main' = "returned"
  /\ finished' = finished \cup {call}
  /\ UNCHANGED <<settings, endless, at, result, timing, call, watchdogs, timed_out, interrupt,
                 stopped, missed>>

(* A mutant: the clause that tells an interrupt from an error is missing.  *)
ErrorAnyway == "error"

(* The except clause, which looks for a timeout before the watchdog ends.  *)
Outcome == IF call \in timed_out THEN "timeout" ELSE "error"

Raise ==
  /\ main = "running"
  /\ main' = Outcome
  /\ finished' = finished \cup {call}
  /\ stopped' = (stopped \/ interrupt # None)
  /\ UNCHANGED <<settings, endless, at, result, timing, call, watchdogs, timed_out, interrupt,
                 missed>>

-----------------------------------------------------------------------------
(* interrupt_after_timeout.  The wait may give up even as the event is set.  *)

Expire(c) ==
  /\ watchdogs[c] = "waiting"
  /\ timed_out' = timed_out \cup {c}
  /\ watchdogs' = [watchdogs EXCEPT ![c] = "expired"]
  /\ UNCHANGED <<settings, endless, main, at, result, timing, call, finished, interrupt,
                 stopped, missed>>

Gone(c) == [d \in DOMAIN watchdogs \ {c} |-> watchdogs[d]]

Interrupt(c) ==
  /\ watchdogs[c] = "expired"
  /\ interrupt' = c
  /\ watchdogs' = Gone(c)
  /\ missed' = (missed \/ main = "watched")
  /\ UNCHANGED <<settings, endless, main, at, result, timing, call, finished, timed_out, stopped>>

(* A mutant: one event for all calls, never cleared.                       *)
AnySet(c) == finished # {}

EventSet(c) == c \in finished

Leave(c) ==
  /\ watchdogs[c] = "waiting" /\ EventSet(c)
  /\ watchdogs' = Gone(c)
  /\ UNCHANGED <<settings, endless, main, at, result, timing, call, finished, timed_out,
                 interrupt, stopped, missed>>

-----------------------------------------------------------------------------
(* Mutants: the thread is not joined, or not on the way of an exception.   *)
NotJoined == TRUE
JoinedOnReturn == main = "returned" => call \notin DOMAIN watchdogs

Joined == call \notin DOMAIN watchdogs

TooLate == call \in timed_out

(* _calibrate_executions_per_sample.                                       *)
CeilDiv(n, d) == (n + d - 1) \div d
FloorDiv(n, d) == n \div d

Least(a, b) == IF a < b THEN a ELSE b
Most(a, b)  == IF a > b THEN a ELSE b

(* Mutant: as many as surely fit, not as many as are needed.               *)
ExecutionsRoundedDown(d) ==
  IF d = 0 THEN MaxExecutions
  ELSE Least(MaxExecutions, Most(1, FloorDiv(settings.minimum, d)))

Executions(d) ==
  IF d = 0 THEN MaxExecutions
  ELSE Least(MaxExecutions, Most(1, CeilDiv(settings.minimum, d)))

(* What becomes of a statement that returned, and took d.                  *)
Pass == at' = at + 1 /\ UNCHANGED timing

Calibrate(d) ==
  /\ executions' = [executions EXCEPT ![Label(at)] = Executions(d)]
  /\ calibrated' = [calibrated EXCEPT ![Label(at)] = d]
  /\ at' = at + 1
  /\ UNCHANGED <<batch, samples, steady>>

Sample(d) ==
  LET q == Label(at)
      runs == batch.runs + 1
      elapsed == batch.elapsed + d IN
  /\ steady' = [steady EXCEPT ![q] = @ /\ d >= calibrated[q]]
  /\ IF runs < executions[q]
     THEN /\ batch' = [runs |-> runs, elapsed |-> elapsed]
          /\ UNCHANGED <<at, samples>>
     ELSE /\ batch' = NoBatch
          /\ samples' = [samples EXCEPT ![q] = Append(@, elapsed)]
          /\ at' = at + 1
  /\ UNCHANGED <<executions, calibrated>>

(* The thread goes on once the watchdog has ended.                         *)
Continue ==
  /\ main = "returned" /\ Joined /\ ~TooLate
  /\ main' = "idle"
  /\ CASE Kind(at) \in {"warmup", "plan"} -> Pass
       [] Kind(at) = "calibration"        -> \E d \in Durations : Calibrate(d)
       [] Kind(at) = "sample"             -> \E d \in Durations : Sample(d)
  /\ UNCHANGED <<settings, endless, result, thread>>

(* Whatever raises ends the benchmark and closes the connection.           *)
GiveUp ==
  /\ Joined
  /\ \/ main \in {"timeout", "error"}
     \/ main = "returned" /\ TooLate
  /\ main' = "done"
  /\ result' = Failed(IF main = "error" THEN "ERROR" ELSE "TIMEOUT")
  /\ UNCHANGED <<settings, endless, at, thread, timing>>

(* The k-th of the times in order, and twice the median.                   *)
NoLonger(times, v) == {i \in DOMAIN times : times[i] <= v}

Ranked(times, k) ==
  LET reached == {v \in {times[i] : i \in DOMAIN times} : Cardinality(NoLonger(times, v)) >= k}
  IN  CHOOSE v \in reached : \A w \in reached : v <= w

DoubleMedian(times) ==
  Ranked(times, (Len(times) + 1) \div 2) + Ranked(times, Len(times) \div 2 + 1)

(* _timing_target_reached.                                                 *)
TargetReached(q) ==
  \/ settings.minimum = 0
  \/ executions[q] < MaxExecutions
  \/ DoubleMedian(samples[q]) >= 2 * settings.minimum

Complete ==
  /\ main = "idle" /\ at = End
  /\ main' = "done"
  /\ result' = [status |-> "COMPLETED", confident |-> \A q \in Measured : TargetReached(q)]
  /\ UNCHANGED <<settings, endless, at, thread, timing>>

-----------------------------------------------------------------------------
Main == Open \/ StartWatchdog \/ Begin \/ Return \/ Continue \/ GiveUp \/ Complete
Watchdog(c) == Expire(c) \/ Interrupt(c) \/ Leave(c)

Next == Main \/ Raise \/ \E c \in DOMAIN watchdogs : Watchdog(c)

(* Both threads run whenever they can.  An interrupted statement raises;   *)
(* one that is not need not fail.                                          *)
Fairness ==
  /\ WF_vars(Main)
  /\ WF_vars(interrupt # None /\ Raise)
  /\ WF_vars(\E c \in DOMAIN watchdogs : Watchdog(c))

Spec == Init /\ [][Next]_vars /\ Fairness

-----------------------------------------------------------------------------
TypeOK ==
  /\ settings \in Settings /\ endless \subseteq Labels
  /\ main \in {"opening", "idle", "watched", "running", "returned", "timeout", "error", "done"}
  /\ at \in 0 .. End
  /\ batch \in [runs : Nat, elapsed : Nat]
  /\ executions \in [Labels -> 1 .. MaxExecutions]
  /\ samples \in [Labels -> Seq(Nat)]
  /\ call \in Nat
  /\ DOMAIN watchdogs \subseteq 1 .. call
  /\ \A c \in DOMAIN watchdogs : watchdogs[c] \in {"waiting", "expired"}
  /\ finished \subseteq 1 .. call /\ timed_out \subseteq 1 .. call
  /\ interrupt \in 1 .. call \cup {None}
  /\ result \in Results \cup {None}
  /\ calibrated \in [Labels -> Nat] /\ steady \in [Labels -> BOOLEAN]
  /\ stopped \in BOOLEAN /\ missed \in BOOLEAN

(* An interrupt hits the statement whose watchdog sent it, never the next  *)
(* one, although the wait may give up as the statement returns             *)
(* (duckdb.py:349-366).                                                    *)
InterruptsHitTheirStatement ==
  main = "running" => interrupt \in {call, None} /\ DOMAIN watchdogs \subseteq {call}

(* A statement stopped by its watchdog is never reported as an error of    *)
(* the query, and a benchmark in which a watchdog gave up, if only as the  *)
(* rows came, never as completed (duckdb.py:356-369).                      *)
TimeoutsAreReported ==
  result # None =>
    /\ result.status = "COMPLETED" => timed_out = {}
    /\ result.status = "ERROR"     => ~stopped
    /\ result.status = "TIMEOUT"   => call \in timed_out

(* When the connection is closed no thread is left that could use it       *)
(* (duckdb.py:221 and 364-366).                                          *)
NoThreadOutlives == result # None => DOMAIN watchdogs = {}

(* A timing is only called confident of a query whose batches reached the  *)
(* minimum, unless an execution was faster than the one it was calibrated  *)
(* on (duckdb.py:324-338 and 407-415).                                     *)
ConfidentIsLongEnough ==
  result # None /\ result.confident =>
    \A q \in Measured : steady[q] => DoubleMedian(samples[q]) >= 2 * settings.minimum

(* A benchmark ends, whatever its statements do, if no interrupt comes     *)
(* before its statement has begun: there is only one per statement         *)
(* (duckdb.py:349-355).                                                    *)
EndsUnlessMissed == <>(result # None \/ missed)
=============================================================================
