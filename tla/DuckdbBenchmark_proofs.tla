----------------------- MODULE DuckdbBenchmark_proofs -----------------------
(***************************************************************************)
(* Theorems about the threads and the timing of DuckdbBenchmark, for any   *)
(* settings, durations and statements, and any number of statements.       *)
(***************************************************************************)
EXTENDS DuckdbBenchmark, Collections_proofs

(* What holds of the call under way, its watchdog and the connection.      *)
CallInv ==
  /\ call \in Nat
  /\ DOMAIN watchdogs \subseteq {call}
  /\ main \in {"opening", "idle", "done"} => DOMAIN watchdogs = {}
  /\ \A c \in DOMAIN watchdogs :
       watchdogs[c] = "waiting" \/ (watchdogs[c] = "expired" /\ c \in timed_out)

TimeoutInv ==
  /\ timed_out \subseteq {call}
  /\ main \in {"opening", "idle"} => timed_out = {}
  /\ interrupt \notin {None} => interrupt = call /\ call \in timed_out

OutcomeInv ==
  /\ main = "timeout" => call \in timed_out
  /\ stopped => main \in {"timeout", "done"}
  /\ result = None <=> main # "done"
  /\ TimeoutsAreReported

ThreadInv == CallInv /\ TimeoutInv /\ OutcomeInv

LEMMA ThreadInit == Init => ThreadInv
BY BenchmarkAssumption
   DEF Init, ThreadInv, CallInv, TimeoutInv, OutcomeInv, TimeoutsAreReported

LEMMA FailedIsSome ==
  ASSUME NEW s \in {"ERROR", "TIMEOUT"}
  PROVE  Failed(s) # None /\ Failed(s).status = s
<1>1. Failed(s) \in Results
  BY DEF Failed, Results
<1> QED
  BY <1>1, BenchmarkAssumption DEF Failed

LEMMA ThreadStep == ThreadInv /\ [Next]_vars => ThreadInv'
<1> SUFFICES ASSUME ThreadInv, [Next]_vars PROVE ThreadInv'
  OBVIOUS
<1> USE DEF ThreadInv, CallInv, TimeoutInv, OutcomeInv, TimeoutsAreReported
<1>1. CASE Open
  BY <1>1, FailedIsSome DEF Open, thread, timing
<1>2. CASE StartWatchdog
  <2>1. CallInv'
    BY <1>2 DEF StartWatchdog
  <2>2. TimeoutInv'
    BY <1>2 DEF StartWatchdog
  <2>3. OutcomeInv'
    BY <1>2 DEF StartWatchdog
  <2> QED
    BY <2>1, <2>2, <2>3
<1>3. CASE Begin
  BY <1>3 DEF Begin, timing
<1>4. CASE Return
  BY <1>4 DEF Return, timing
<1>5. CASE Raise
  BY <1>5 DEF Raise, Outcome, timing
<1>6. CASE Continue
  BY <1>6 DEF Continue, Joined, TooLate, thread
<1>7. CASE GiveUp
  <2>1. main' = "done" /\ UNCHANGED thread /\ DOMAIN watchdogs = {}
    BY <1>7 DEF GiveUp, Joined
  <2>2. CASE main = "error"
    BY <1>7, <2>1, <2>2, FailedIsSome DEF GiveUp, thread
  <2>3. CASE main # "error"
    <3>1. call \in timed_out
      BY <1>7, <2>3 DEF GiveUp, TooLate
    <3>2. result' = Failed("TIMEOUT")
      BY <1>7, <2>3 DEF GiveUp
    <3> QED
      BY <2>1, <3>1, <3>2, FailedIsSome DEF thread
  <2> QED
    BY <2>2, <2>3
<1>8. CASE Complete
  <2>1. result'.status = "COMPLETED"
    BY <1>8 DEF Complete
  <2>2. result' \in Results
    <3>1. (\A q \in Measured : TargetReached(q)) \in BOOLEAN
      OBVIOUS
    <3> QED
      BY <1>8, <3>1 DEF Complete, Results
  <2>3. result' # None
    BY <2>2, BenchmarkAssumption
  <2> QED
    BY <1>8, <2>1, <2>3 DEF Complete, thread
<1>9. ASSUME NEW c \in DOMAIN watchdogs, Expire(c) PROVE ThreadInv'
  <2>1. c = call /\ main \notin {"opening", "idle", "done"}
    OBVIOUS
  <2> QED
    BY <1>9, <2>1 DEF Expire, timing
<1>10. ASSUME NEW c \in DOMAIN watchdogs, Interrupt(c) PROVE ThreadInv'
  <2>1. c = call /\ c \in timed_out /\ main \notin {"opening", "idle", "done"}
    BY <1>10 DEF Interrupt
  <2> QED
    BY <1>10, <2>1 DEF Interrupt, Gone, timing
<1>11. ASSUME NEW c \in DOMAIN watchdogs, Leave(c) PROVE ThreadInv'
  BY <1>11 DEF Leave, Gone, timing
<1>12. CASE UNCHANGED vars
  BY <1>12 DEF vars, thread
<1> QED
  BY <1>1, <1>2, <1>3, <1>4, <1>5, <1>6, <1>7, <1>8, <1>9, <1>10, <1>11, <1>12
     DEF Next, Main, Watchdog

LEMMA ThreadInvariant == Spec => []ThreadInv
<1> QED
  BY ThreadInit, ThreadStep, PTL DEF Spec

(* Whenever the wait of a watchdog gives up, its interrupt hits the        *)
(* statement it watches or none (duckdb.py:349-366).                       *)
THEOREM InterruptsHit == Spec => []InterruptsHitTheirStatement
<1>1. ThreadInv => InterruptsHitTheirStatement
  BY DEF ThreadInv, CallInv, TimeoutInv, InterruptsHitTheirStatement
<1> QED
  BY <1>1, ThreadInvariant, PTL

(* However the two threads interleave, a statement stopped by its watchdog *)
(* is reported as a timeout, and a completed benchmark had none            *)
(* (duckdb.py:356-369).                                                    *)
THEOREM TimeoutsReported == Spec => []TimeoutsAreReported
<1>1. ThreadInv => TimeoutsAreReported
  BY DEF ThreadInv, OutcomeInv
<1> QED
  BY <1>1, ThreadInvariant, PTL

(* No watchdog lives when the connection is closed, however the benchmark  *)
(* ended (duckdb.py:221 and 364-366).                                      *)
THEOREM NoneOutlives == Spec => []NoThreadOutlives
<1>1. ThreadInv => NoThreadOutlives
  BY DEF ThreadInv, CallInv, OutcomeInv, NoThreadOutlives
<1> QED
  BY <1>1, ThreadInvariant, PTL
-----------------------------------------------------------------------------
(* The median of long times is long, whatever the order of the times.      *)

LongTimes(times, m) == \A i \in DOMAIN times : times[i] >= m

LEMMA SlowestIs ==
  ASSUME NEW times \in Seq(Nat), times # <<>>
  PROVE  \E i \in 1 .. Len(times) : \A j \in 1 .. Len(times) : times[j] <= times[i]
<1> DEFINE Slow == {n \in Nat : n + 1 <= Len(times) =>
                      \E i \in 1 .. n + 1 : \A j \in 1 .. n + 1 : times[j] <= times[i]}
<1>0. Len(times) \in Nat /\ \A i \in 1 .. Len(times) : times[i] \in Nat
  OBVIOUS
<1>1. 0 \in Slow
  BY <1>0
<1>2. ASSUME NEW n \in Nat, n \in Slow PROVE n + 1 \in Slow
  <2> SUFFICES ASSUME n + 2 <= Len(times)
               PROVE  \E i \in 1 .. n + 2 : \A j \in 1 .. n + 2 : times[j] <= times[i]
    OBVIOUS
  <2>1. PICK i \in 1 .. n + 1 : \A j \in 1 .. n + 1 : times[j] <= times[i]
    BY <1>0, <1>2
  <2>2. i \in 1 .. Len(times) /\ n + 2 \in 1 .. Len(times)
    BY <1>0
  <2>3. times[i] \in Nat /\ times[n + 2] \in Nat
    BY <1>0, <2>2
  <2>4. CASE times[n + 2] <= times[i]
    <3>1. \A j \in 1 .. n + 2 : times[j] <= times[i]
      BY <2>1, <2>4
    <3> QED BY <3>1
  <2>5. CASE times[i] <= times[n + 2]
    <3>1. \A j \in 1 .. n + 1 : times[j] <= times[n + 2]
      <4> SUFFICES ASSUME NEW j \in 1 .. n + 1 PROVE times[j] <= times[n + 2]
        OBVIOUS
      <4>1. times[j] <= times[i] /\ times[j] \in Nat
        BY <1>0, <2>1
      <4> QED BY <4>1, <2>3, <2>5
    <3>2. \A j \in 1 .. n + 2 : times[j] <= times[n + 2]
      BY <3>1, <2>3
    <3> QED BY <3>2
  <2>6. times[n + 2] <= times[i] \/ times[i] <= times[n + 2]
    BY <2>3
  <2> QED BY <2>4, <2>5, <2>6
<1>3. Nat \subseteq Slow
  <2> HIDE DEF Slow
  <2> QED BY <1>1, <1>2, Induction
<1>4. Len(times) - 1 \in Nat
  BY <1>0
<1>5. Len(times) - 1 \in Slow
  BY <1>3, <1>4
<1> QED BY <1>0, <1>4, <1>5

LEMMA RankedIsLong ==
  ASSUME NEW times \in Seq(Nat), times # <<>>, NEW m \in Nat, LongTimes(times, m),
         NEW k \in Nat, k <= Len(times)
  PROVE  Ranked(times, k) \in Nat /\ Ranked(times, k) >= m
<1> DEFINE taken == {times[i] : i \in DOMAIN times}
           reached == {v \in taken : Cardinality(NoLonger(times, v)) >= k}
<1>0. Len(times) \in Nat /\ DOMAIN times = 1 .. Len(times)
       /\ \A i \in 1 .. Len(times) : times[i] \in Nat
  OBVIOUS
<1>1. reached \subseteq Nat
  BY <1>0
<1>2. reached # {}
  <2>1. PICK i \in 1 .. Len(times) : \A j \in 1 .. Len(times) : times[j] <= times[i]
    BY SlowestIs
  <2>2. NoLonger(times, times[i]) = 1 .. Len(times)
    BY <1>0, <2>1 DEF NoLonger
  <2>3. Cardinality(NoLonger(times, times[i])) = Len(times)
    <3>1. 1 \in Int /\ Len(times) \in Int /\ ~(1 > Len(times))
      BY <1>0
    <3>2. Cardinality(1 .. Len(times)) = Len(times) - 1 + 1
      BY <3>1, FS_Interval
    <3> QED BY <1>0, <2>2, <3>2
  <2>4. times[i] \in taken
    BY <1>0
  <2>5. times[i] \in reached
    BY <1>0, <2>3, <2>4
  <2> QED BY <2>5
<1>3. \E v \in reached : \A w \in reached : v <= w
  <2> HIDE DEF reached
  <2> QED BY <1>1, <1>2, LeastNumber
<1>4. Ranked(times, k) = CHOOSE v \in reached : \A w \in reached : v <= w
  BY DEF Ranked
<1>5. Ranked(times, k) \in reached
  <2> HIDE DEF reached
  <2> QED BY <1>3, <1>4
<1> QED BY <1>0, <1>5 DEF LongTimes

LEMMA MedianIsLong ==
  ASSUME NEW times \in Seq(Nat), times # <<>>, NEW m \in Nat, LongTimes(times, m)
  PROVE  DoubleMedian(times) >= 2 * m
<1> DEFINE n == Len(times)
<1>1. n \in Nat /\ n >= 1
  OBVIOUS
<1>2. /\ (n + 1) \div 2 \in Nat /\ (n + 1) \div 2 <= n
      /\ n \div 2 + 1 \in Nat /\ n \div 2 + 1 <= n
  BY <1>1
<1>3. /\ Ranked(times, (n + 1) \div 2) \in Nat /\ Ranked(times, (n + 1) \div 2) >= m
      /\ Ranked(times, n \div 2 + 1) \in Nat /\ Ranked(times, n \div 2 + 1) >= m
  <2> HIDE DEF n
  <2>1. n = Len(times)
    BY DEF n
  <2> QED BY <1>2, <2>1, RankedIsLong
<1> DEFINE a == Ranked(times, (n + 1) \div 2)
           b == Ranked(times, n \div 2 + 1)
<1>4. DoubleMedian(times) = a + b
  BY DEF DoubleMedian
<1> HIDE DEF a, b
<1>5. a \in Nat /\ b \in Nat /\ a >= m /\ b >= m
  BY <1>3 DEF a, b
<1> QED BY <1>4, <1>5

(* Batches of that many executions are long enough.                        *)
LEMMA CeilDivIsEnough ==
  ASSUME NEW n \in Nat, NEW d \in Nat \ {0}
  PROVE  CeilDiv(n, d) \in Nat /\ CeilDiv(n, d) * d >= n
<1>1. n + d - 1 \in Nat
  OBVIOUS
<1>2. ASSUME NEW x \in Nat
      PROVE  x \div d \in Nat /\ x % d \in 0 .. d - 1 /\ x = (d * (x \div d)) + (x % d)
  OBVIOUS
<1> DEFINE c == (n + d - 1) \div d
           r == (n + d - 1) % d
<1>3. c \in Nat /\ r \in 0 .. d - 1 /\ n + d - 1 = d * c + r
  BY <1>1, <1>2
<1>4. CeilDiv(n, d) = c
  BY DEF CeilDiv
<1> HIDE DEF c, r
<1>5. d * c = c * d /\ d * c \in Nat
  BY <1>3
<1> QED BY <1>3, <1>4, <1>5
-----------------------------------------------------------------------------
(* What the batches of a query owe to its calibration.                     *)

TimesInv ==
  /\ settings \in Settings
  /\ at \in Nat
  /\ batch.runs \in Nat /\ batch.elapsed \in Nat
  /\ executions \in [Labels -> Nat]
  /\ samples \in [Labels -> Seq(Nat)]
  /\ calibrated \in [Labels -> Nat]
  /\ steady \in [Labels -> BOOLEAN]

(* The place of a query's task among those of its round.                   *)
Place(q) == IF q = "original" THEN 0 ELSE 1

CalibratedInv ==
  settings.minimum > 0 =>
    \A q \in Measured :
      at > FirstCalibration + Place(q) => executions[q] = Executions(calibrated[q])

BatchInv ==
  /\ at < FirstSample => batch = NoBatch /\ \A q \in Labels : samples[q] = <<>>
  /\ steady[Label(at)] => batch.elapsed >= batch.runs * calibrated[Label(at)]

SampledInv ==
  /\ settings.minimum > 0 =>
       \A q \in Labels :
         steady[q] /\ executions[q] < MaxExecutions => LongTimes(samples[q], settings.minimum)
  /\ \A q \in Measured : at > FirstSample + Place(q) => samples[q] # <<>>

TimingInv == TimesInv /\ CalibratedInv /\ BatchInv /\ SampledInv

(* The layout of the tasks, from the settings.                             *)
LEMMA TaskNumbers ==
  ASSUME settings \in Settings
  PROVE  /\ settings.pair \in BOOLEAN /\ settings.minimum \in Nat
         /\ Width \in {1, 2} /\ (Width = 2 <=> settings.pair)
         /\ FirstPlan \in Nat
         /\ FirstCalibration = FirstPlan + Width
         /\ FirstSample = FirstCalibration + Calibrations
         /\ Calibrations = (IF settings.minimum > 0 THEN Width ELSE 0)
         /\ Samples \in Nat /\ Samples >= Width /\ End = FirstSample + Samples
<1>1. settings \in [pair : BOOLEAN, warmups : Nat, repetitions : Nat \ {0}, minimum : Nat]
  BY BenchmarkAssumption
<1>2. Width \in {1, 2} /\ (Width = 2 <=> settings.pair)
  BY DEF Width
<1>3. Warmups \in Nat
  BY <1>1, <1>2 DEF Warmups
<1>4. Samples \in Nat /\ Samples >= Width
  BY <1>1, <1>2 DEF Samples
<1> QED
  BY <1>1, <1>2, <1>3, <1>4 DEF FirstPlan, FirstCalibration, FirstSample, Calibrations, End

LEMMA TasksStay ==
  ASSUME settings' = settings
  PROVE  /\ FirstCalibration' = FirstCalibration /\ FirstSample' = FirstSample
         /\ Measured' = Measured
         /\ \A d : Executions(d)' = Executions(d)
         /\ at' = at => Label(at)' = Label(at)
BY DEF FirstCalibration, FirstPlan, Warmups, Width, FirstSample, Calibrations, Measured,
       Executions, Label, Kind, Turn, Each

LEMMA LabelsOfTasks ==
  ASSUME settings \in Settings, at \in Nat
  PROVE  /\ Label(at) \in Labels
         /\ Kind(at) = "sample" <=> at >= FirstSample
         /\ Kind(at) = "calibration" =>
              /\ Label(at) \in Measured /\ settings.minimum > 0
              /\ at = FirstCalibration + Place(Label(at)) /\ at < FirstSample
         /\ Kind(at) = "sample" => Label(at) \in Measured
         /\ Kind(at) \in {"warmup", "plan"} => at < FirstCalibration
         /\ \A q \in Measured : Kind(at) = "sample" /\ at = FirstSample + Place(q) => Label(at) = q
         /\ \A q \in Measured : Place(q) \in Nat /\ Place(q) < Width
<1>1. /\ Width \in {1, 2} /\ (Width = 2 <=> settings.pair)
      /\ FirstPlan \in Nat /\ FirstCalibration = FirstPlan + Width
      /\ FirstSample = FirstCalibration + Calibrations
      /\ Calibrations = (IF settings.minimum > 0 THEN Width ELSE 0)
  BY TaskNumbers
<1>2. Calibrations \in Nat /\ FirstSample \in Nat /\ FirstCalibration \in Nat
  BY <1>1
<1>3. \A n : Turn(n) \in Measured /\ Turn(n) \in Labels
  BY DEF Turn, Measured, Labels
<1>4. \A n : Each(n) \in Labels
  BY DEF Each, Labels
<1>5. \A q \in Measured : Place(q) \in Nat /\ Place(q) < Width
  BY <1>1 DEF Measured, Labels, Place
<1>6. Kind(at) = "sample" <=> at >= FirstSample
  BY <1>1, <1>2 DEF Kind
<1>7. Kind(at) \in {"warmup", "plan"} => at < FirstCalibration
  BY <1>1, <1>2 DEF Kind
<1>8. ASSUME Kind(at) = "calibration"
      PROVE  /\ Label(at) \in Measured /\ settings.minimum > 0
             /\ at = FirstCalibration + Place(Label(at)) /\ at < FirstSample
  <2>1. at \in FirstCalibration .. FirstSample - 1
    BY <1>1, <1>2, <1>8 DEF Kind
  <2>2. settings.minimum > 0 /\ at - FirstCalibration \in 0 .. Width - 1
    BY <1>1, <1>2, <2>1
  <2>3. Label(at) = Each(at - FirstCalibration)
    BY <1>8 DEF Label
  <2>4. CASE at = FirstCalibration
    BY <1>1, <1>2, <2>1, <2>2, <2>3, <2>4 DEF Each, Place, Measured, Labels
  <2>5. CASE at # FirstCalibration
    <3>1. at = FirstCalibration + 1 /\ Width = 2
      BY <1>1, <1>2, <2>2, <2>5
    <3>2. Label(at) = "rewritten"
      BY <2>2, <2>3, <2>5, <1>2 DEF Each
    <3> QED BY <1>1, <2>1, <2>2, <3>1, <3>2 DEF Place, Measured, Labels
  <2> QED BY <2>4, <2>5
<1>9. Kind(at) = "sample" => Label(at) = Turn(at - FirstSample)
  BY DEF Label
<1>10. \A q \in Measured : Turn(Place(q)) = q
  <2>1. (0 \div 2) % 2 = 0 % 2 /\ (1 \div 2) % 2 # 1 % 2
    OBVIOUS
  <2> QED BY <2>1 DEF Measured, Labels, Place, Turn
<1>11. ASSUME NEW q \in Measured, Kind(at) = "sample", at = FirstSample + Place(q)
       PROVE  Label(at) = q
  <2>1. at - FirstSample = Place(q)
    BY <1>2, <1>5, <1>11
  <2> QED BY <1>9, <1>10, <1>11, <2>1
<1>12. Label(at) \in Labels
  BY <1>3, <1>4 DEF Label, Kind
<1> QED
  BY <1>3, <1>5, <1>6, <1>7, <1>8, <1>9, <1>11, <1>12

LEMMA ExecutionsAreEnough ==
  ASSUME NEW d \in Nat, settings.minimum \in Nat
  PROVE  /\ Executions(d) \in Nat
         /\ Executions(d) < MaxExecutions => Executions(d) * d >= settings.minimum
<1>1. MaxExecutions \in Nat
  BY BenchmarkAssumption
<1>2. CASE d = 0
  BY <1>1, <1>2 DEF Executions
<1>3. CASE d # 0
  <2> DEFINE c == CeilDiv(settings.minimum, d)
             m == settings.minimum
  <2>1. c \in Nat /\ c * d >= m
    BY <1>3, CeilDivIsEnough
  <2>2. Executions(d) = Least(MaxExecutions, Most(1, c))
    BY <1>3 DEF Executions
  <2>3. m \in Nat
    OBVIOUS
  <2> HIDE DEF c, m
  <2>4. Executions(d) \in Nat /\ (Executions(d) < MaxExecutions => Executions(d) >= c)
    BY <1>1, <2>1, <2>2 DEF Least, Most
  <2>5. \A x \in Nat : x >= c => x * d >= c * d
    <3>1. \A x, y \in Nat : y >= x => (y - x) * d \in Nat /\ y * d = (y - x) * d + x * d
      OBVIOUS
    <3> QED BY <2>1, <3>1
  <2>6. Executions(d) < MaxExecutions => Executions(d) * d >= m
    <3>1. \A x \in Nat : x * d \in Nat
      OBVIOUS
    <3> QED BY <2>1, <2>3, <2>4, <2>5, <3>1
  <2> QED BY <2>4, <2>6 DEF m
<1> QED BY <1>2, <1>3

LEMMA TimingInit == Init => TimingInv
<1> SUFFICES ASSUME Init PROVE TimingInv
  OBVIOUS
<1> USE DEF Init
<1>1. TimesInv
  BY DEF TimesInv, NoBatch
<1>2. /\ FirstPlan \in Nat /\ FirstCalibration = FirstPlan + Width /\ Width \in {1, 2}
      /\ FirstSample = FirstCalibration + Calibrations
      /\ Calibrations = (IF settings.minimum > 0 THEN Width ELSE 0)
  BY TaskNumbers
<1>3. \A q : Place(q) \in {0, 1}
  BY DEF Place
<1>4. CalibratedInv
  BY <1>2, <1>3 DEF CalibratedInv
<1>5. Label(at) \in Labels
  BY LabelsOfTasks
<1>6. calibrated[Label(at)] = 0 /\ batch.elapsed = 0 /\ batch.runs = 0
  BY <1>5 DEF NoBatch
<1>7. BatchInv
  BY <1>6 DEF BatchInv
<1>8. SampledInv
  BY <1>2, <1>3 DEF SampledInv, LongTimes
<1> QED BY <1>1, <1>4, <1>7, <1>8 DEF TimingInv

LEMMA TimingStays ==
  ASSUME TimingInv, UNCHANGED <<settings, at, timing>>
  PROVE  TimingInv'
<1>1. TimesInv'
  BY DEF TimingInv, TimesInv, timing
<1>2. CalibratedInv'
  BY TasksStay DEF TimingInv, CalibratedInv, timing
<1>3. BatchInv'
  BY TasksStay DEF TimingInv, BatchInv, timing
<1>4. SampledInv'
  BY TasksStay DEF TimingInv, SampledInv, timing
<1> QED BY <1>1, <1>2, <1>3, <1>4 DEF TimingInv

LEMMA PassStep ==
  ASSUME TimingInv, UNCHANGED settings, Kind(at) \in {"warmup", "plan"}, Pass
  PROVE  TimingInv'
<1>1. settings \in Settings /\ at \in Nat /\ at' = at + 1 /\ UNCHANGED timing
  BY DEF TimingInv, TimesInv, Pass
<1>2. /\ FirstPlan \in Nat /\ FirstCalibration = FirstPlan + Width /\ Width \in {1, 2}
      /\ FirstSample = FirstCalibration + Calibrations /\ Calibrations \in Nat
  BY <1>1, TaskNumbers
<1>3. at' <= FirstCalibration /\ at < FirstSample
  BY <1>1, <1>2, LabelsOfTasks
<1>4. TimesInv'
  BY <1>1 DEF TimingInv, TimesInv, timing
<1>5. CalibratedInv'
  <2>1. \A q : Place(q) \in {0, 1}
    BY DEF Place
  <2> QED BY <1>1, <1>2, <1>3, <2>1, TasksStay DEF CalibratedInv
<1>6. batch' = NoBatch /\ samples' = samples /\ \A q \in Labels : samples[q] = <<>>
  BY <1>1, <1>3 DEF TimingInv, BatchInv, timing
<1>7. BatchInv'
  <2>1. (Label(at) \in Labels)'
    BY DEF Label, Kind, Turn, Each, Labels
  <2>2. calibrated'[Label(at)'] \in Nat
    BY <1>4, <2>1 DEF TimesInv
  <2>3. batch'.runs = 0 /\ batch'.elapsed = 0
    BY <1>6 DEF NoBatch
  <2> QED BY <1>6, <2>2, <2>3 DEF BatchInv, NoBatch
<1>8. SampledInv'
  <2>1. \A q : Place(q) \in {0, 1}
    BY DEF Place
  <2>2. \A q \in Labels : \A m : LongTimes(samples'[q], m)
    BY <1>6 DEF LongTimes
  <2>3. ~(at' > FirstSample)
    BY <1>1, <1>2, <1>3
  <2> QED BY <1>1, <1>2, <2>1, <2>2, <2>3, TasksStay DEF SampledInv
<1> QED BY <1>4, <1>5, <1>7, <1>8 DEF TimingInv

LEMMA CalibrateStep ==
  ASSUME TimingInv, UNCHANGED settings, Kind(at) = "calibration",
         NEW d \in Durations, Calibrate(d)
  PROVE  TimingInv'
<1> DEFINE p == Label(at)
<1>1. settings \in Settings /\ at \in Nat /\ at' = at + 1 /\ d \in Nat
  BY BenchmarkAssumption DEF TimingInv, TimesInv, Calibrate
<1>2. /\ FirstPlan \in Nat /\ FirstCalibration = FirstPlan + Width /\ Width \in {1, 2}
      /\ FirstSample = FirstCalibration + Calibrations /\ Calibrations \in Nat
      /\ settings.minimum \in Nat
  BY <1>1, TaskNumbers
<1>3. p \in Labels /\ p \in Measured /\ at = FirstCalibration + Place(p) /\ at < FirstSample
  BY <1>1, LabelsOfTasks
<1>4. Executions(d) \in Nat
  BY <1>1, <1>2, ExecutionsAreEnough
<1>5. /\ executions' = [executions EXCEPT ![p] = Executions(d)]
      /\ calibrated' = [calibrated EXCEPT ![p] = d]
      /\ UNCHANGED <<batch, samples, steady>>
  BY DEF Calibrate
<1>6. TimesInv'
  BY <1>1, <1>3, <1>4, <1>5 DEF TimingInv, TimesInv
<1> HIDE DEF p
<1>7. CalibratedInv'
  <2> SUFFICES ASSUME settings.minimum > 0, NEW q \in Measured,
                      at' > FirstCalibration + Place(q)
               PROVE  executions'[q] = Executions(calibrated'[q])
    BY TasksStay DEF CalibratedInv, Executions
  <2>1. q \in Labels
    BY DEF Measured, Labels
  <2>3. CASE q = p
    BY <1>3, <1>5, <2>3 DEF TimingInv, TimesInv
  <2>4. CASE q # p
    <3>1. Place(q) # Place(p) /\ Place(q) \in {0, 1} /\ Place(p) \in {0, 1}
      BY <1>3, <2>1, <2>4 DEF Place, Labels
    <3>2. at > FirstCalibration + Place(q)
      BY <1>1, <1>2, <1>3, <2>1, <3>1
    <3>3. executions[q] = Executions(calibrated[q])
      BY <2>1, <3>2 DEF TimingInv, CalibratedInv
    <3> QED BY <1>5, <2>1, <2>4, <3>3 DEF TimingInv, TimesInv
  <2> QED BY <2>3, <2>4
<1>8. batch' = NoBatch /\ samples' = samples /\ \A q \in Labels : samples[q] = <<>>
  BY <1>3, <1>5 DEF TimingInv, BatchInv
<1>9. BatchInv'
  <2>1. (Label(at) \in Labels)'
    BY DEF Label, Kind, Turn, Each, Labels
  <2>2. calibrated'[Label(at)'] \in Nat
    BY <1>6, <2>1 DEF TimesInv
  <2>3. batch'.runs = 0 /\ batch'.elapsed = 0
    BY <1>8 DEF NoBatch
  <2> QED BY <1>8, <2>2, <2>3 DEF BatchInv, NoBatch
<1>10. SampledInv'
  <2>1. \A q : Place(q) \in {0, 1}
    BY DEF Place
  <2>2. \A q \in Labels : \A m : LongTimes(samples'[q], m)
    BY <1>8 DEF LongTimes
  <2>3. ~(at' > FirstSample)
    BY <1>1, <1>2, <1>3
  <2> QED BY <1>1, <1>2, <2>1, <2>2, <2>3, TasksStay DEF SampledInv
<1> QED BY <1>6, <1>7, <1>9, <1>10 DEF TimingInv

LEMMA SampleStep ==
  ASSUME TimingInv, UNCHANGED settings, Kind(at) = "sample",
         NEW d \in Durations, Sample(d)
  PROVE  TimingInv'
<1> DEFINE p == Label(at)
           runs == batch.runs + 1
           elapsed == batch.elapsed + d
<1>1. settings \in Settings /\ at \in Nat /\ d \in Nat
  BY BenchmarkAssumption DEF TimingInv, TimesInv
<1>2. /\ FirstPlan \in Nat /\ FirstCalibration = FirstPlan + Width /\ Width \in {1, 2}
      /\ FirstSample = FirstCalibration + Calibrations
      /\ Calibrations = (IF settings.minimum > 0 THEN Width ELSE 0)
      /\ settings.minimum \in Nat
  BY <1>1, TaskNumbers
<1>3. p \in Labels /\ p \in Measured /\ at >= FirstSample
  BY <1>1, LabelsOfTasks
<1>4. \A q \in Measured : Place(q) \in Nat /\ Place(q) < Width
  BY <1>1, LabelsOfTasks
<1>5. /\ steady' = [steady EXCEPT ![p] = @ /\ d >= calibrated[p]]
      /\ executions' = executions /\ calibrated' = calibrated
  BY DEF Sample
<1>6. \/ /\ runs < executions[p]
         /\ batch' = [runs |-> runs, elapsed |-> elapsed] /\ at' = at /\ samples' = samples
      \/ /\ ~ (runs < executions[p])
         /\ batch' = NoBatch /\ at' = at + 1
         /\ samples' = [samples EXCEPT ![p] = Append(@, elapsed)]
  BY DEF Sample
<1>7. runs \in Nat /\ elapsed \in Nat
  BY <1>1 DEF TimingInv, TimesInv
<1>8. \A q \in Labels : steady'[q] => steady[q]
  BY <1>3, <1>5 DEF TimingInv, TimesInv
<1>9. steady'[p] => d >= calibrated[p]
  BY <1>3, <1>5 DEF TimingInv, TimesInv
(* The batch with this execution is as long as its executions should be.   *)
<1>10. steady'[p] => elapsed >= runs * calibrated[p]
  <2> SUFFICES ASSUME steady'[p] PROVE elapsed >= runs * calibrated[p]
    OBVIOUS
  <2> DEFINE c == calibrated[p]
             r == batch.runs
             e == batch.elapsed
  <2>1. r \in Nat /\ e \in Nat /\ c \in Nat
    BY <1>3 DEF TimingInv, TimesInv
  <2>2. e >= r * c
    BY <1>3, <1>8 DEF TimingInv, BatchInv
  <2>3. d >= c
    BY <1>9
  <2> HIDE DEF c, r, e
  <2>4. \A x, y \in Nat : x * y \in Nat /\ (x + 1) * y = x * y + y
    OBVIOUS
  <2>5. e + d >= (r + 1) * c
    BY <1>1, <2>1, <2>2, <2>3, <2>4
  <2> QED BY <2>5 DEF c, r, e
<1> HIDE DEF p, runs, elapsed
<1>11. TimesInv'
  <2>1. steady' \in [Labels -> BOOLEAN]
    BY <1>3, <1>5 DEF TimingInv, TimesInv
  <2>2. samples' \in [Labels -> Seq(Nat)]
    <3>1. samples \in [Labels -> Seq(Nat)]
      BY DEF TimingInv, TimesInv
    <3>2. Append(samples[p], elapsed) \in Seq(Nat)
      BY <1>3, <1>7, <3>1
    <3> QED BY <1>3, <1>6, <3>1, <3>2
  <2>3. batch'.runs \in Nat /\ batch'.elapsed \in Nat /\ at' \in Nat
    BY <1>1, <1>6, <1>7 DEF NoBatch
  <2> QED BY <1>1, <1>5, <2>1, <2>2, <2>3 DEF TimingInv, TimesInv
<1>12. \A q \in Measured : executions[q] = Executions(calibrated[q]) \/ ~ (settings.minimum > 0)
  <2>1. settings.minimum > 0 => \A q \in Measured : at > FirstCalibration + Place(q)
    BY <1>1, <1>2, <1>3, <1>4
  <2> QED BY <2>1 DEF TimingInv, CalibratedInv
<1>13. CalibratedInv'
  BY <1>5, <1>12, TasksStay DEF CalibratedInv
<1>14. BatchInv'
  <2>1. ~ (at' < FirstSample)
    BY <1>1, <1>2, <1>3, <1>6
  <2>2. (steady[Label(at)] => batch.elapsed >= batch.runs * calibrated[Label(at)])'
    <3>1. CASE batch' = [runs |-> runs, elapsed |-> elapsed] /\ at' = at
      <4>1. Label(at)' = p
        BY <3>1, TasksStay DEF p
      <4> QED BY <1>5, <1>10, <3>1, <4>1
    <3>2. CASE batch' = NoBatch
      <4>1. (Label(at) \in Labels)'
        BY DEF Label, Kind, Turn, Each, Labels
      <4>2. calibrated'[Label(at)'] \in Nat
        BY <1>11, <4>1 DEF TimesInv
      <4> QED BY <3>2, <4>2 DEF NoBatch
    <3> QED BY <1>6, <3>1, <3>2
  <2> QED BY <2>1, <2>2, TasksStay DEF BatchInv
<1>15. ASSUME settings.minimum > 0, NEW q \in Labels, steady'[q], executions[q] < MaxExecutions
       PROVE  LongTimes(samples'[q], settings.minimum)
  <2>1. LongTimes(samples[q], settings.minimum)
    BY <1>8, <1>15 DEF TimingInv, SampledInv
  <2>2. CASE samples'[q] = samples[q]
    BY <2>1, <2>2
  <2>3. CASE samples'[q] # samples[q]
    <3>1. q = p /\ ~ (runs < executions[p]) /\ samples'[p] = Append(samples[p], elapsed)
      BY <1>3, <1>6, <2>3 DEF TimingInv, TimesInv
    <3> DEFINE c == calibrated[p]
               x == executions[p]
               m == settings.minimum
    <3>2. c \in Nat /\ x \in Nat /\ runs >= x
      BY <1>3, <1>7, <3>1 DEF TimingInv, TimesInv
    <3>3. x * c >= m
      BY <1>2, <1>3, <1>12, <1>15, <3>1, <3>2, ExecutionsAreEnough
    <3>4. elapsed >= runs * c
      BY <1>10, <1>15, <3>1
    <3>5. m \in Nat
      BY <1>2
    <3> HIDE DEF c, x, m
    <3>6. \A y, z \in Nat : z >= y => z * c >= y * c
      <4>1. \A y, z \in Nat : z >= y => (z - y) * c \in Nat /\ z * c = (z - y) * c + y * c
        BY <3>2
      <4>2. \A y \in Nat : y * c \in Nat
        BY <3>2
      <4> QED BY <4>1, <4>2
    <3>7. elapsed >= m
      <4>1. runs * c \in Nat /\ x * c \in Nat
        BY <1>7, <3>2
      <4>2. runs * c >= x * c
        BY <1>7, <3>2, <3>6
      <4> QED BY <1>7, <3>3, <3>4, <3>5, <4>1, <4>2
    <3>8. samples[p] \in Seq(Nat)
      BY <1>3 DEF TimingInv, TimesInv
    <3>9. LongTimes(Append(samples[p], elapsed), m)
      BY <1>7, <2>1, <3>1, <3>7, <3>8 DEF LongTimes, m
    <3> QED BY <3>1, <3>9 DEF m
  <2> QED BY <2>2, <2>3
<1>16. ASSUME NEW q \in Measured, at' > FirstSample + Place(q)
       PROVE  samples'[q] # <<>>
  <2>1. q \in Labels /\ samples \in [Labels -> Seq(Nat)]
    BY DEF Measured, Labels, TimingInv, TimesInv
  <2>2. CASE at > FirstSample + Place(q)
    <3>1. samples[q] # <<>>
      BY <2>2 DEF TimingInv, SampledInv
    <3> QED BY <1>3, <1>6, <1>7, <2>1, <3>1
  <2>3. CASE ~ (at > FirstSample + Place(q))
    <3>1. at' = at + 1 /\ at = FirstSample + Place(q)
      BY <1>1, <1>2, <1>4, <1>6, <1>16, <2>3
    <3>2. q = p
      BY <1>1, <3>1, LabelsOfTasks DEF p
    <3>3. samples'[q] = Append(samples[q], elapsed)
      BY <1>1, <1>3, <1>6, <2>1, <3>1, <3>2
    <3> QED BY <1>7, <2>1, <3>3
  <2> QED BY <2>2, <2>3
<1>17. SampledInv'
  BY <1>5, <1>15, <1>16, TasksStay DEF SampledInv, Place
<1> QED BY <1>11, <1>13, <1>14, <1>17 DEF TimingInv

LEMMA TimingStep == TimingInv /\ [Next]_vars => TimingInv'
<1> SUFFICES ASSUME TimingInv, [Next]_vars PROVE TimingInv'
  OBVIOUS
<1>1. CASE Continue
  <2>1. UNCHANGED settings /\ Kind(at) \in {"warmup", "plan", "calibration", "sample"}
    BY <1>1 DEF Continue, Kind
  <2>2. CASE Kind(at) \in {"warmup", "plan"}
    <3>1. Pass
      BY <1>1, <2>2 DEF Continue
    <3> QED BY <2>1, <2>2, <3>1, PassStep
  <2>3. CASE Kind(at) = "calibration"
    <3>1. PICK d \in Durations : Calibrate(d)
      BY <1>1, <2>3 DEF Continue
    <3> QED BY <2>1, <2>3, <3>1, CalibrateStep
  <2>4. CASE Kind(at) = "sample"
    <3>1. PICK d \in Durations : Sample(d)
      BY <1>1, <2>4 DEF Continue
    <3> QED BY <2>1, <2>4, <3>1, SampleStep
  <2> QED BY <2>1, <2>2, <2>3, <2>4
<1>2. CASE UNCHANGED <<settings, at, timing>>
  BY <1>2, TimingStays
<1>3. Continue \/ UNCHANGED <<settings, at, timing>>
  BY DEF Next, Main, Watchdog, Open, StartWatchdog, Begin, Return, GiveUp, Complete, Raise,
         Expire, Interrupt, Leave, vars
<1> QED BY <1>1, <1>2, <1>3

LEMMA ConfidentStep ==
  ThreadInv /\ TimingInv /\ ConfidentIsLongEnough /\ [Next]_vars => ConfidentIsLongEnough'
<1> SUFFICES ASSUME ThreadInv, TimingInv, ConfidentIsLongEnough, [Next]_vars
             PROVE  ConfidentIsLongEnough'
  OBVIOUS
<1>1. CASE Complete
  <2>1. /\ settings \in Settings /\ at \in Nat /\ samples \in [Labels -> Seq(Nat)]
        /\ at = End /\ UNCHANGED <<settings, timing>>
    BY <1>1 DEF Complete, TimingInv, TimesInv
  <2>2. result'.confident => \A q \in Measured : TargetReached(q)
    BY <1>1 DEF Complete
  <2>3. settings.minimum \in Nat
    BY <2>1, TaskNumbers
  <2>4. ASSUME NEW q \in Measured, TargetReached(q), steady[q]
        PROVE  DoubleMedian(samples[q]) >= 2 * settings.minimum
    <3>1. q \in Labels /\ samples[q] \in Seq(Nat)
      BY <2>1 DEF Measured, Labels
    <3>2. samples[q] # <<>>
      <4>1. at > FirstSample + Place(q)
        <5>1. FirstSample \in Nat /\ Samples \in Nat /\ Samples >= Width /\ Width \in Nat
              /\ End = FirstSample + Samples
          BY <2>1, TaskNumbers
        <5>2. Place(q) \in Nat /\ Place(q) < Width
          BY <2>1, LabelsOfTasks
        <5> QED BY <2>1, <5>1, <5>2
      <4> QED BY <4>1 DEF TimingInv, SampledInv
    <3>3. CASE settings.minimum = 0
      <4>1. LongTimes(samples[q], 0)
        BY <3>1 DEF LongTimes
      <4> QED BY <3>1, <3>2, <3>3, <4>1, MedianIsLong
    <3>4. CASE settings.minimum # 0 /\ executions[q] < MaxExecutions
      <4>1. LongTimes(samples[q], settings.minimum)
        BY <2>3, <2>4, <3>1, <3>4 DEF TimingInv, SampledInv
      <4> QED BY <2>3, <3>1, <3>2, <4>1, MedianIsLong
    <3> QED BY <2>4, <3>3, <3>4 DEF TargetReached
  <2>5. Measured' = Measured
    BY <2>1, TasksStay
  <2> QED BY <2>1, <2>2, <2>4, <2>5 DEF ConfidentIsLongEnough, timing
<1>2. CASE UNCHANGED <<settings, timing, result>>
  BY <1>2, TasksStay DEF ConfidentIsLongEnough, timing
<1>3. CASE Open \/ GiveUp
  <2>1. result' = None \/ result'.confident = FALSE
    BY <1>3 DEF Open, GiveUp, Failed
  <2> QED BY <2>1 DEF ConfidentIsLongEnough
<1>4. CASE Continue
  <2>1. result' = None
    BY <1>4 DEF Continue, ThreadInv, OutcomeInv
  <2> QED BY <2>1 DEF ConfidentIsLongEnough
<1>5. \/ Complete \/ Open \/ GiveUp \/ Continue
      \/ UNCHANGED <<settings, timing, result>>
  BY DEF Next, Main, Watchdog, StartWatchdog, Begin, Return, Raise, Expire, Interrupt, Leave, vars
<1> QED BY <1>1, <1>2, <1>3, <1>4, <1>5

(* Whatever the executions take, the median of a query called confident    *)
(* reached the minimum, unless one was faster than the one its batches     *)
(* were calibrated on (duckdb.py:324-338 and 407-415).                     *)
THEOREM ConfidentTimingsAreLong == Spec => []ConfidentIsLongEnough
<1>1. Init => ConfidentIsLongEnough
  BY DEF Init, ConfidentIsLongEnough
<1>2. Spec => []TimingInv
  BY TimingInit, TimingStep, PTL DEF Spec
<1> QED
  BY <1>1, <1>2, ThreadInvariant, ConfidentStep, PTL DEF Spec
=============================================================================
