---------------------------- MODULE RollupProofs ----------------------------
(***************************************************************************)
(* Proofs about Rollup: no sample stored in time is lost between the       *)
(* tables, a series ends at its newest sample, and the strip's results are *)
(* kept, for any writers, retention, delays and bounds.                    *)
(***************************************************************************)
EXTENDS Rollup, WellFoundedInduction, TLAPS

-----------------------------------------------------------------------------
(* The invariant.                                                          *)

Ghost == [ever : [Writers -> SUBSET Time], late : SUBSET (Writers \X Time),
          broken : SUBSET Writers, first : Time \cup {Absent}, aged : Nat]

TablesInv ==
  /\ TypeOK
  /\ ghost \in Ghost
  /\ hourly \in [Writers -> [Time -> SUBSET Time]]
  /\ \A w \in Writers : samples[w] \subseteq ghost.ever[w]

\* The clock is only ever behind by what it was set back, and nothing under way
\* is older than MaxDelay.
ClockInv ==
  /\ 2 * HourLen <= now
  /\ faults \in 0 .. MaxFaults
  /\ \A w \in Writers : writer[w].at # "idle" => now - writer[w].ts <= MaxDelay
  /\ run.at # "idle" => run.now <= now + faults /\ 2 * HourLen <= run.now

\* A run aggregates from the boundary on, and prunes when it is past it.
RangeInv ==
  /\ ghost.first = Absent <=> boundary = Absent
  /\ run.at \in {"aggregate", "store"} =>
       /\ run.from < HourOf(run.now) /\ run.from % HourLen = 0
       /\ boundary # Absent => run.from = boundary
  /\ run.at = "samples" => boundary # Absent /\ HourOf(run.now) <= boundary

\* What NothingLost asks to be kept.
Due(w, t) ==
  /\ t \in OnTime(w)
  /\ ghost.first # Absent => t >= ghost.first
  /\ HourOf(t) >= ghost.aged

\* What is to be kept is in the aggregates before the boundary says so.
StoreInv ==
  run.at = "store" =>
    \A w \in Writers, t \in Time :
      Due(w, t) /\ run.from <= t /\ t < HourOf(run.now) => t \in hourly[w][HourOf(t)]

Tops(s, S) == s \in S /\ \A t \in S : t <= s

\* What last_ts is, or is about to be.
LastOf(w) == IF writer[w].at = "series" /\ ~(series[w] > writer[w].ts)
             THEN writer[w].ts ELSE series[w]

(* A series row is never ahead of its samples but for those that aged out,  *)
(* and right unless a write was cut off; a run finds it so, or removes it.  *)
SeriesInv(w) ==
  /\ writer[w].at = "series" => writer[w].ts \in samples[w]
  /\ series[w] # Absent =>
       series[w] < now + faults - RawKeep \/ \E t \in samples[w] : series[w] <= t
  /\ w \notin ghost.broken /\ samples[w] # {} => Tops(LastOf(w), samples[w])
  /\ run.at = "series" => \A t \in samples[w] : run.now - RawKeep <= t
  /\ faults = 0 =>
       /\ w \notin ghost.broken
       /\ samples[w] = {} =>
            series[w] = Absent \/ (run.at = "series" /\ series[w] < run.now - RawKeep)

IInv ==
  /\ TablesInv /\ ClockInv /\ RangeInv /\ NothingLost /\ StoreInv
  /\ \A w \in Writers : SeriesInv(w)
-----------------------------------------------------------------------------
(* Hours, and the greatest of a set of times.                              *)

\* The hour of a time starts in the hour before it.
LEMMA HourIs ==
  ASSUME RollupAssumption, NEW t \in Nat
  PROVE  /\ HourOf(t) \in Nat /\ HourOf(t) <= t /\ t < HourOf(t) + HourLen
         /\ HourOf(t) % HourLen = 0
  <1> DEFINE h == HourLen
             q == t \div h
  <1>1. h \in Nat \ {0}
    BY DEF RollupAssumption
  <1>2. q \in Nat /\ q * h <= t /\ t < q * h + h
    BY <1>1
  <1>3. q * h \in Nat /\ (q * h) % h = 0
    BY <1>1, <1>2
  <1>4. QED
    BY <1>2, <1>3 DEF HourOf

\* No hour starts between the start of an hour and a time in it.
LEMMA HourAfter ==
  ASSUME RollupAssumption, NEW t \in Nat, NEW b \in Nat, b % HourLen = 0, b <= t
  PROVE  b <= HourOf(t)
  <1> DEFINE h == HourLen
             q == t \div h
             p == b \div h
  <1>1. h \in Nat \ {0}
    BY DEF RollupAssumption
  <1>2. q \in Nat /\ q * h <= t /\ t < q * h + h /\ p \in Nat /\ b = p * h
    BY <1>1
  <1> HIDE DEF h, q, p
  <1>3. p < q + 1
    <2>1. p * h < (q + 1) * h
      BY <1>1, <1>2
    <2>2. QED
      BY <1>1, <1>2, <2>1
  <1>4. p * h <= q * h
    BY <1>1, <1>2, <1>3
  <1>5. QED
    BY <1>2, <1>4 DEF HourOf, q, h

\* Two hours before the start of an hour one starts.
LEMMA HourBack ==
  ASSUME RollupAssumption, NEW b \in Nat, b % HourLen = 0, 2 * HourLen <= b
  PROVE  b - 2 * HourLen \in Nat /\ (b - 2 * HourLen) % HourLen = 0
  <1> DEFINE h == HourLen
             p == b \div h
  <1>1. h \in Nat \ {0}
    BY DEF RollupAssumption
  <1>2. p \in Nat /\ b = p * h
    BY <1>1
  <1> HIDE DEF h, p
  <1>3. b - 2 * h = (p - 2) * h
    BY <1>1, <1>2
  <1>4. ((p - 2) * h) % h = 0
    BY <1>1, <1>2
  <1>5. QED
    BY <1>1, <1>3, <1>4 DEF h

\* The clock starts on the hour.
LEMMA TwoHours ==
  ASSUME RollupAssumption
  PROVE  2 * HourLen \in Nat /\ (2 * HourLen) % HourLen = 0
  BY DEF RollupAssumption
\* Max is what its name says.
LEMMA MaxOf ==
  ASSUME NEW S \in SUBSET Int, NEW s \in S, \A t \in S : t <= s
  PROVE  Max(S) = s
  <1>1. \A x \in S : (\A y \in S : x >= y) => x = s
    BY Z3
  <1>2. \A y \in S : s >= y
    BY Z3
  <1>3. QED
    BY <1>1, <1>2, Zenon DEF Max

\* The greatest of two.
LEMMA MaxTwo ==
  ASSUME NEW a \in Int, NEW b \in Int
  PROVE  Max({a, b}) = IF a >= b THEN a ELSE b
  <1>1. CASE a >= b
    BY <1>1, MaxOf
  <1>2. CASE ~(a >= b)
    BY <1>2, MaxOf
  <1>3. QED
    BY <1>1, <1>2

\* A set of times has a greatest one.
LEMMA GreatestTime ==
  ASSUME RollupAssumption, NEW S \in SUBSET Time, S # {}
  PROVE  Tops(Max(S), S)
  <1> DEFINE top == MaxTime
             D == {top - t : t \in S}
  <1>1. top \in Nat /\ \A t \in S : t \in Nat /\ t <= top /\ top - t \in Nat
    BY DEF RollupAssumption, Time
  <1>2. D \subseteq Nat /\ D # {}
    BY <1>1
  <1>3. PICK d \in D : \A e \in D : ~(<<e, d>> \in OpToRel(<, Nat))
    BY <1>2, WFMin, NatLessThanWellFounded
  <1>4. \A e \in D : ~(e < d)
    BY <1>2, <1>3 DEF OpToRel
  <1>5. PICK s \in S : d = top - s
    OBVIOUS
  <1> HIDE DEF top
  <1>6. \A t \in S : t <= s
    <2>1. ASSUME NEW t \in S PROVE t <= s
      <3>1. ~(top - t < top - s)
        BY <1>4, <1>5
      <3>2. QED
        BY <1>1, <3>1
    <2>2. QED
      BY <2>1
  <1>7. S \in SUBSET Int
    BY <1>1
  <1> HIDE DEF D
  <1>8. Max(S) = s
    BY <1>6, <1>7, MaxOf
  <1>9. QED
    BY <1>6, <1>8 DEF Tops

-----------------------------------------------------------------------------
(* The tables and the clock.                                               *)

LEMMA InitHolds ==
  ASSUME RollupAssumption, Init
  PROVE  IInv
  <1>1. /\ HourLen \in Nat \ {0} /\ MaxTime \in Nat /\ 2 * HourLen \in Nat /\ 2 * HourLen <= MaxTime
        /\ MaxFaults \in Nat
    BY DEF RollupAssumption
  <1>2. 0 \in Time /\ 2 * HourLen \in Time
    BY <1>1 DEF Time
  <1>3. TablesInv
    <2>1. TypeOK
      BY <1>2 DEF Init, TypeOK, Resting, NoRun
    <2>2. ghost \in Ghost
      BY DEF Init, Ghost
    <2>3. QED
      BY <2>1, <2>2 DEF TablesInv, Init
  <1>4. ClockInv
    BY <1>1 DEF Init, ClockInv, Resting, NoRun
  <1>5. RangeInv /\ StoreInv
    BY DEF Init, RangeInv, StoreInv, NoRun
  <1>6. NothingLost
    BY DEF Init, NothingLost, OnTime
  <1>7. \A w \in Writers : SeriesInv(w)
    BY DEF Init, SeriesInv, Resting, NoRun
  <1>8. QED
    BY <1>3, <1>4, <1>5, <1>6, <1>7 DEF IInv

\* What is taken of a writer that has begun.
LEMMA WriterIs ==
  ASSUME RollupAssumption, IInv, NEW w \in Writers
  PROVE  /\ writer[w].ts \in Time /\ writer[w].ts \in Nat
         /\ samples[w] \in SUBSET Time /\ series[w] \in Time \cup {Absent}
         /\ writer[w] \in [at : {"idle", "result", "sample", "series"}, ts : Time]
         /\ now \in Nat /\ now \in Time /\ run.now \in Nat /\ run.from \in Nat
         /\ faults \in Nat /\ faults <= MaxFaults
         /\ boundary \in Nat \cup {Absent}
         /\ RawKeep \in Nat /\ MaxDelay \in Nat /\ MaxFaults \in Nat /\ HourLen \in Nat
         /\ MaxDelay + MaxFaults < RawKeep /\ HourLen <= RawKeep
  BY DEF IInv, TablesInv, ClockInv, TypeOK, Time, RollupAssumption
Steps == {"idle", "aggregate", "store", "samples", "series", "hourly", "results"}

WriterSteps == {"idle", "result", "sample", "series"}

\* The sets of TablesInv one by one.
LEMMA Tables ==
  ASSUME TablesInv
  PROVE  /\ samples \in [Writers -> SUBSET Time] /\ results \subseteq Time
         /\ series \in [Writers -> Time \cup {Absent}]
         /\ boundary \in Time \cup {Absent} /\ (boundary # Absent => boundary % HourLen = 0)
         /\ now \in Time
         /\ writer \in [Writers -> [at : WriterSteps, ts : Time]]
         /\ run \in [at : Steps, now : Time, from : Time]
         /\ \A w \in Writers, h \in Time : hourly[w][h] \subseteq {t \in ghost.ever[w] : HourOf(t) = h}
         /\ ghost \in Ghost
         /\ hourly \in [Writers -> [Time -> SUBSET Time]]
         /\ \A w \in Writers : samples[w] \subseteq ghost.ever[w]
  BY DEF TablesInv, TypeOK, Steps, WriterSteps

\* From starts on the hour, within the clock's range.
LEMMA FromIs ==
  ASSUME RollupAssumption, IInv
  PROVE  /\ From(HourOf(now)) \in Time /\ From(HourOf(now)) % HourLen = 0
         /\ From(HourOf(now)) < HourOf(now) =>
              (boundary # Absent => From(HourOf(now)) = boundary)
         /\ ~(From(HourOf(now)) < HourOf(now)) => boundary # Absent /\ HourOf(now) <= boundary
  <1> DEFINE h == HourOf(now)
             two == 2 * HourLen
  <1>1. now \in Nat /\ now <= MaxTime /\ two <= now /\ MaxTime \in Nat /\ HourLen \in Nat \ {0}
    BY DEF IInv, TablesInv, TypeOK, ClockInv, Time, RollupAssumption
  <1>2. two \in Nat /\ two % HourLen = 0 /\ two > 0
    BY <1>1, TwoHours
  <1>3. h \in Nat /\ h <= now /\ h % HourLen = 0
    BY <1>1, HourIs
  <1>4. two <= h
    BY <1>1, <1>2, HourAfter
  <1>5. h - two \in Nat /\ (h - two) % HourLen = 0
    BY <1>3, <1>4, HourBack
  <1>6. boundary \in Nat \cup {Absent} /\ (boundary # Absent => boundary % HourLen = 0)
    BY DEF IInv, TablesInv, TypeOK, Time
  <1> HIDE DEF h, two
  <1>7. CASE boundary = Absent
    <2>1. From(h) = h - two
      BY <1>2, <1>3, <1>5, <1>7 DEF From, two
    <2>2. QED
      BY <1>1, <1>2, <1>3, <1>5, <1>7, <2>1 DEF Time, h
  <1>8. CASE boundary # Absent
    <2>1. boundary \in Nat /\ From(h) = IF boundary < h THEN boundary ELSE h
      BY <1>6, <1>8 DEF From
    <2>2. QED
      BY <1>1, <1>3, <1>6, <1>8, <2>1 DEF Time, h
  <1>9. QED
    BY <1>7, <1>8

\* The tables keep their types.
LEMMA TablesNext ==
  ASSUME RollupAssumption, IInv, Next
  PROVE  TablesInv'
  <1> USE Tables DEF IInv
  <1>1. 0 \in Time
    BY DEF RollupAssumption, Time
  <1>2. ASSUME NEW w \in Writers, Measure(w) PROVE TablesInv'
    <2>1. writer' \in [Writers -> [at : WriterSteps, ts : Time]]
      BY <1>2 DEF Measure, WriterSteps
    <2>2. QED
      BY <1>2, <2>1 DEF Measure, TablesInv, TypeOK, Steps, WriterSteps
  <1>3. ASSUME NEW w \in Writers, InsertResult(w) PROVE TablesInv'
    <2>1. writer' \in [Writers -> [at : WriterSteps, ts : Time]] /\ results' \subseteq Time
      BY <1>3 DEF InsertResult, WriterSteps
    <2>2. QED
      BY <1>3, <2>1 DEF InsertResult, TablesInv, TypeOK, Steps, WriterSteps
  <1>4. ASSUME NEW w \in Writers, InsertSample(w) PROVE TablesInv'
    <2> DEFINE ts == writer[w].ts
    <2>1. ts \in Time
      BY <1>4
    <2>2. /\ writer' \in [Writers -> [at : WriterSteps, ts : Time]]
          /\ samples' \in [Writers -> SUBSET Time]
          /\ \A v \in Writers : samples'[v] = IF v = w THEN samples[v] \cup {ts} ELSE samples[v]
      BY <1>4, <2>1 DEF InsertSample, WriterSteps
    <2>3. /\ ghost' \in Ghost
          /\ \A v \in Writers : ghost'.ever[v] = IF v = w THEN ghost.ever[v] \cup {ts} ELSE ghost.ever[v]
      <3> DEFINE late == IF ts < boundary \/ (run.at = "store" /\ ts < HourOf(run.now))
                         THEN ghost.late \cup {<<w, ts>>} ELSE ghost.late
      <3>1. late \in SUBSET (Writers \X Time)
        BY <2>1 DEF Ghost
      <3>2. [ghost.ever EXCEPT ![w] = @ \cup {ts}] \in [Writers -> SUBSET Time]
        BY <2>1 DEF Ghost
      <3> HIDE DEF late, ts
      <3>3. ghost' = [ghost EXCEPT !.ever = [ghost.ever EXCEPT ![w] = @ \cup {ts}], !.late = late]
        BY <1>4 DEF InsertSample, Ghost, ts, late
      <3>4. QED
        BY <3>1, <3>2, <3>3 DEF Ghost
    <2>4. \A v \in Writers : ghost.ever[v] \subseteq ghost'.ever[v] /\ samples'[v] \subseteq ghost'.ever[v]
      BY <2>2, <2>3
    <2>5. hourly' = hourly
      BY <1>4 DEF InsertSample
    <2>6. \A v \in Writers, h \in Time : hourly'[v][h] \subseteq {t \in ghost'.ever[v] : HourOf(t) = h}
      BY <2>4, <2>5
    <2> HIDE DEF ts
    <2>7. QED
      BY <1>4, <2>2, <2>3, <2>4, <2>6 DEF InsertSample, TablesInv, TypeOK, Steps, WriterSteps
  <1>5. ASSUME NEW w \in Writers, UpdateSeries(w) PROVE TablesInv'
    <2>1. /\ writer' \in [Writers -> [at : WriterSteps, ts : Time]]
          /\ series' \in [Writers -> Time \cup {Absent}]
      BY <1>1, <1>5 DEF UpdateSeries, WriterSteps, Resting
    <2>2. ghost' \in Ghost /\ ghost'.ever = ghost.ever
      BY <1>5 DEF UpdateSeries, Ghost
    <2>3. QED
      BY <1>5, <2>1, <2>2 DEF UpdateSeries, TablesInv, TypeOK, Steps, WriterSteps
  <1>6. ASSUME NEW w \in Writers, WriteFails(w) PROVE TablesInv'
    <2>1. writer' \in [Writers -> [at : WriterSteps, ts : Time]]
      BY <1>1, <1>6 DEF WriteFails, WriterSteps, Resting
    <2>2. ghost' \in Ghost /\ ghost'.ever = ghost.ever
      BY <1>6 DEF WriteFails, Ghost, Broken
    <2>3. QED
      BY <1>6, <2>1, <2>2 DEF WriteFails, TablesInv, TypeOK, Steps, WriterSteps
  <1>7. CASE Start
    <2>1. run' \in [at : Steps, now : Time, from : Time]
      BY <1>7, FromIs DEF Start, Steps
    <2>2. QED
      BY <1>7, <2>1 DEF Start, TablesInv, TypeOK, Steps, WriterSteps
  <1>8. CASE Aggregate
    <2>1. run' \in [at : Steps, now : Time, from : Time]
      BY <1>8 DEF Aggregate, Steps
    <2>2. \A w \in Writers, h \in Time :
            /\ InRange(w, h) \subseteq {t \in ghost.ever[w] : HourOf(t) = h}
            /\ InRange(w, h) \subseteq Time
      BY DEF InRange
    <2>3. \A w \in Writers, h \in Time :
            hourly'[w][h] = IF InRange(w, h) = {} THEN hourly[w][h] ELSE InRange(w, h)
      BY <1>8 DEF Aggregate
    <2>4. \A w \in Writers, h \in Time : hourly[w][h] \in SUBSET Time
      OBVIOUS
    <2>5. hourly' \in [Writers -> [Time -> SUBSET Time]]
      BY <1>8, <2>2, <2>4 DEF Aggregate
    <2>6. QED
      BY <1>8, <2>1, <2>2, <2>3, <2>5 DEF Aggregate, TablesInv, TypeOK, Steps, WriterSteps
  <1>9. CASE StoreBoundary
    <2>1. run' \in [at : Steps, now : Time, from : Time] /\ ghost' \in Ghost /\ ghost'.ever = ghost.ever
      BY <1>9 DEF StoreBoundary, Steps, Ghost
    <2>2. boundary' \in Time /\ boundary' % HourLen = 0
      <3>1. run.now \in Nat /\ run.now <= MaxTime /\ MaxTime \in Nat
        BY DEF Time, RollupAssumption
      <3>2. QED
        BY <1>9, <3>1, HourIs DEF StoreBoundary, Time
    <2>3. QED
      BY <1>9, <2>1, <2>2 DEF StoreBoundary, TablesInv, TypeOK, Steps, WriterSteps
  <1>10. CASE PruneSamples
    <2>1. run' \in [at : Steps, now : Time, from : Time]
      BY <1>10 DEF PruneSamples, Steps
    <2>2. /\ samples' \in [Writers -> SUBSET Time]
          /\ \A w \in Writers : samples'[w] \subseteq samples[w]
      BY <1>10 DEF PruneSamples
    <2>3. QED
      BY <1>10, <2>1, <2>2 DEF PruneSamples, TablesInv, TypeOK, Steps, WriterSteps
  <1>11. CASE PruneSeries
    <2>1. /\ run' \in [at : Steps, now : Time, from : Time]
          /\ series' \in [Writers -> Time \cup {Absent}]
      BY <1>11 DEF PruneSeries, Steps
    <2>2. QED
      BY <1>11, <2>1 DEF PruneSeries, TablesInv, TypeOK, Steps, WriterSteps
  <1>12. CASE PruneHourly
    <2>1. run' \in [at : Steps, now : Time, from : Time]
      BY <1>12 DEF PruneHourly, Steps
    <2>2. \A w \in Writers, h \in Time :
            hourly'[w][h] = IF h < run.now - HourlyKeep THEN {} ELSE hourly[w][h]
      BY <1>12 DEF PruneHourly
    <2>3. \A w \in Writers, h \in Time : hourly[w][h] \in SUBSET Time
      OBVIOUS
    <2>4. hourly' \in [Writers -> [Time -> SUBSET Time]]
      BY <1>12, <2>3 DEF PruneHourly
    <2>5. ghost' \in Ghost /\ ghost'.ever = ghost.ever
      <3>1. run.now - HourlyKeep \in Int /\ ghost.aged \in Nat
        <4>1. run.now \in Time /\ ghost.aged \in Nat
          BY DEF Ghost
        <4>2. run.now \in Nat /\ HourlyKeep \in Nat
          BY <4>1 DEF Time, RollupAssumption
        <4>3. QED
          BY <4>1, <4>2
      <3>2. Max({ghost.aged, run.now - HourlyKeep}) \in Nat
        <4> DEFINE old == run.now - HourlyKeep
        <4>1. old \in Int
          BY <3>1
        <4> HIDE DEF old
        <4>2. Max({ghost.aged, old}) = IF ghost.aged >= old THEN ghost.aged ELSE old
          BY <3>1, <4>1, MaxTwo
        <4>3. Max({ghost.aged, old}) \in Nat
          BY <3>1, <4>1, <4>2
        <4>4. QED
          BY <4>3 DEF old
      <3>3. QED
        BY <1>12, <3>2 DEF PruneHourly, Ghost
    <2>6. QED
      BY <1>12, <2>1, <2>2, <2>4, <2>5 DEF PruneHourly, TablesInv, TypeOK, Steps, WriterSteps
  <1>13. CASE PruneResults
    BY <1>1, <1>13 DEF PruneResults, NoRun, TablesInv, TypeOK
  <1>14. CASE RunFails
    BY <1>1, <1>14 DEF RunFails, NoRun, TablesInv, TypeOK
  <1>15. CASE Crash
    <2>1. ghost' \in Ghost /\ ghost'.ever = ghost.ever
      BY <1>15 DEF Crash, Ghost, Broken
    <2>2. writer' \in [Writers -> [at : WriterSteps, ts : Time]]
      BY <1>1, <1>15 DEF Crash, WriterSteps, Resting
    <2>3. QED
      BY <1>1, <1>15, <2>1, <2>2 DEF Crash, NoRun, TablesInv, TypeOK, WriterSteps
  <1>16. CASE Tick
    <2>1. now' \in Time
      BY <1>16 DEF Tick, Time, RollupAssumption
    <2>2. QED
      BY <1>16, <2>1 DEF Tick, TablesInv, TypeOK
  <1>17. CASE ClockSetBack
    <2>1. now' \in Time
      <3>1. 2 * HourLen \in Nat
        BY TwoHours
      <3>2. QED
        BY <1>17, <3>1 DEF ClockSetBack, Time, RollupAssumption
    <2>2. QED
      BY <1>17, <2>1 DEF ClockSetBack, TablesInv, TypeOK
  <1>18. QED
    BY <1>2, <1>3, <1>4, <1>5, <1>6, <1>7, <1>8, <1>9, <1>10, <1>11, <1>12, <1>13, <1>14, <1>15,
       <1>16, <1>17 DEF Next
\* The clock lags by what it was set back, and what is under way is fresh.
LEMMA ClockNext ==
  ASSUME RollupAssumption, IInv, Next
  PROVE  ClockInv'
  <1> USE Tables DEF IInv
  <1> DEFINE Fresh == \A w \in Writers : writer[w].at # "idle" => now - writer[w].ts <= MaxDelay
  <1>1. /\ now \in Nat /\ faults \in Nat /\ faults <= MaxFaults /\ MaxFaults \in Nat /\ MaxDelay \in Nat
        /\ run.now \in Nat /\ 2 * HourLen \in Nat /\ 2 * HourLen <= now
        /\ \A w \in Writers : writer[w].ts \in Nat
    BY TwoHours DEF ClockInv, Time, RollupAssumption
  <1>2. ASSUME NEW w \in Writers,
               Measure(w) \/ InsertResult(w) \/ InsertSample(w) \/ UpdateSeries(w) \/ WriteFails(w)
        PROVE  ClockInv'
    <2>1. /\ now' = now /\ run' = run /\ faults' \in {faults, faults + 1} /\ faults' <= MaxFaults
          /\ \A v \in Writers : v # w => writer'[v] = writer[v]
      BY <1>1, <1>2 DEF Measure, InsertResult, InsertSample, UpdateSeries, WriteFails
    <2>2. writer'[w].at # "idle" =>
            writer'[w].ts = now \/ (writer[w].at # "idle" /\ writer'[w].ts = writer[w].ts)
      BY <1>2 DEF Measure, InsertResult, InsertSample, UpdateSeries, WriteFails, Resting
    <2>3. writer'[w].at # "idle" => now' - writer'[w].ts <= MaxDelay
      BY <1>1, <2>1, <2>2 DEF ClockInv
    <2>4. Fresh'
      BY <2>1, <2>3 DEF ClockInv
    <2>5. run'.at # "idle" => run'.now <= now' + faults' /\ 2 * HourLen <= run'.now
      BY <1>1, <2>1 DEF ClockInv
    <2>6. faults' \in 0 .. MaxFaults /\ 2 * HourLen <= now'
      BY <1>1, <2>1
    <2>7. QED
      BY <2>4, <2>5, <2>6 DEF ClockInv
  <1>3. CASE Start \/ Aggregate \/ StoreBoundary \/ PruneSamples \/ PruneSeries \/ PruneHourly
             \/ PruneResults
    <2>1. /\ now' = now /\ writer' = writer /\ faults' = faults
          /\ run'.at # "idle" => \/ run'.now = now
                                 \/ run.at # "idle" /\ run'.now = run.now
      BY <1>3 DEF Start, Aggregate, StoreBoundary, PruneSamples, PruneSeries, PruneHourly,
                  PruneResults, NoRun
    <2>2. QED
      BY <1>1, <2>1 DEF ClockInv
  <1>4. CASE RunFails
    BY <1>1, <1>4 DEF RunFails, NoRun, ClockInv
  <1>5. CASE Crash
    BY <1>1, <1>5 DEF Crash, NoRun, Resting, ClockInv
  <1>6. CASE Tick
    <2>1. /\ now' = now + 1 /\ writer' = writer /\ run' = run /\ faults' = faults
          /\ \A w \in Writers : writer[w].at # "idle" => now' - writer[w].ts <= MaxDelay
      BY <1>6 DEF Tick
    <2>2. QED
      BY <1>1, <2>1 DEF ClockInv
  <1>7. CASE ClockSetBack
    <2>1. /\ now' = now - 1 /\ now > 2 * HourLen /\ writer' = writer /\ run' = run
          /\ faults' = faults + 1 /\ faults < MaxFaults
      BY <1>7 DEF ClockSetBack
    <2>2. Fresh'
      BY <1>1, <2>1 DEF ClockInv
    <2>3. run'.at # "idle" => run'.now <= now' + faults' /\ 2 * HourLen <= run'.now
      BY <1>1, <2>1 DEF ClockInv
    <2>4. QED
      BY <1>1, <2>1, <2>2, <2>3 DEF ClockInv
  <1>8. QED
    BY <1>2, <1>3, <1>4, <1>5, <1>6, <1>7 DEF Next

-----------------------------------------------------------------------------
(* Nothing is lost.                                                        *)

\* The boundary moves by StoreBoundary alone, and no run prunes before it.
LEMMA RangeNext ==
  ASSUME RollupAssumption, IInv, Next
  PROVE  RangeInv'
  <1> USE Tables DEF IInv
  <1>1. run.now \in Nat /\ run.from \in Nat /\ boundary \in Nat \cup {Absent}
    BY DEF Time
  <1>2. HourOf(run.now) \in Nat
    BY <1>1, HourIs
  <1>3. CASE Start
    <2> DEFINE from == From(HourOf(now))
               h == HourOf(now)
    <2>1. /\ run'.from = from /\ run'.now = now
          /\ run'.at = IF from < h THEN "aggregate" ELSE "samples"
          /\ boundary' = boundary /\ ghost' = ghost
      BY <1>3 DEF Start
    <2>2. /\ from % HourLen = 0
          /\ from < h => (boundary # Absent => from = boundary)
          /\ ~(from < h) => boundary # Absent /\ h <= boundary
      BY FromIs
    <2>3. HourOf(run'.now) = h
      BY <2>1
    <2> HIDE DEF from, h
    <2>4. QED
      BY <2>1, <2>2, <2>3 DEF RangeInv
  <1>4. CASE Aggregate
    <2>1. /\ run.at = "aggregate" /\ run'.at = "store" /\ run'.from = run.from /\ run'.now = run.now
          /\ boundary' = boundary /\ ghost' = ghost
      BY <1>4 DEF Aggregate
    <2>2. HourOf(run'.now) = HourOf(run.now)
      BY <2>1
    <2>3. QED
      BY <2>1, <2>2 DEF RangeInv
  <1>5. CASE StoreBoundary
    <2>1. /\ run'.at = "samples" /\ run'.now = run.now /\ boundary' = HourOf(run.now)
          /\ ghost'.first = IF ghost.first = Absent THEN run.from ELSE ghost.first
      BY <1>5 DEF StoreBoundary, Ghost
    <2>2. HourOf(run'.now) = HourOf(run.now) /\ run.from # Absent /\ boundary' # Absent
      BY <1>1, <1>2, <2>1 DEF Absent
    <2>3. ghost'.first # Absent
      BY <2>1, <2>2
    <2>4. HourOf(run'.now) <= boundary'
      BY <1>2, <2>1, <2>2
    <2>5. QED
      BY <2>1, <2>2, <2>3, <2>4 DEF RangeInv
  <1>6. CASE \/ \E w \in Writers : Measure(w) \/ InsertResult(w) \/ InsertSample(w)
                                   \/ UpdateSeries(w) \/ WriteFails(w)
             \/ Tick \/ ClockSetBack
    <2>1. run' = run /\ boundary' = boundary /\ ghost'.first = ghost.first
      BY <1>6 DEF Measure, InsertResult, InsertSample, UpdateSeries, WriteFails, Tick, ClockSetBack, Ghost
    <2>2. HourOf(run'.now) = HourOf(run.now)
      BY <2>1
    <2>3. QED
      BY <2>1, <2>2 DEF RangeInv
  <1>7. CASE PruneSamples \/ PruneSeries \/ PruneHourly \/ PruneResults \/ RunFails \/ Crash
    <2>1. /\ run'.at \notin {"aggregate", "store", "samples"}
          /\ boundary' = boundary /\ ghost'.first = ghost.first
      BY <1>7 DEF PruneSamples, PruneSeries, PruneHourly, PruneResults, RunFails, Crash, NoRun, Ghost
    <2>2. QED
      BY <2>1 DEF RangeInv
  <1>8. QED
    BY <1>3, <1>4, <1>5, <1>6, <1>7 DEF Next
Kept == NothingLost /\ StoreInv

\* Where a sample that is due is.
Held(w, t) == t \in (IF t < boundary THEN hourly[w][HourOf(t)] ELSE samples[w])

Stored(w, t) ==
  run.at = "store" /\ run.from <= t /\ t < HourOf(run.now) => t \in hourly[w][HourOf(t)]

\* Both parts, sample by sample.
LEMMA KeptBySample ==
  Kept <=> \A w \in Writers, t \in Time : Due(w, t) => Held(w, t) /\ Stored(w, t)
  BY Zenon DEF Kept, NothingLost, StoreInv, Due, Held, Stored

LEMMA KeptAfter ==
  ASSUME \A w \in Writers, t \in Time : Due(w, t)' => Held(w, t)' /\ Stored(w, t)'
  PROVE  Kept'
  BY Zenon DEF Kept, NothingLost, StoreInv, Due, Held, Stored

\* A step that takes no sample or aggregate away keeps what is due.
LEMMA KeptSame ==
  ASSUME Kept, boundary' = boundary,
         run'.at = "store" => run' = run,
         \A w \in Writers, t \in Time : Due(w, t)' => Due(w, t),
         \A w \in Writers : samples[w] \subseteq samples'[w],
         \A w \in Writers, t \in Time : Due(w, t) => hourly'[w][HourOf(t)] = hourly[w][HourOf(t)]
  PROVE  Kept'
  <1> SUFFICES ASSUME NEW w \in Writers, NEW t \in Time, Due(w, t)' PROVE Held(w, t)' /\ Stored(w, t)'
    BY KeptAfter
  <1>1. Due(w, t) /\ Held(w, t) /\ Stored(w, t)
    BY KeptBySample
  <1>2. hourly'[w][HourOf(t)] = hourly[w][HourOf(t)]
    BY <1>1
  <1>3. Held(w, t)'
    BY <1>1, <1>2 DEF Held
  <1>4. Stored(w, t)'
    BY <1>1, <1>2 DEF Stored
  <1>5. QED
    BY <1>3, <1>4

\* A sample that comes late is not due; one in time is in the table.
LEMMA InsertKeeps ==
  ASSUME RollupAssumption, IInv, NEW w \in Writers, InsertSample(w)
  PROVE  Kept'
  <1> USE Tables DEF IInv
  <1> DEFINE ts == writer[w].ts
             late == ts < boundary \/ (run.at = "store" /\ ts < HourOf(run.now))
  <1>1. ts \in Time
    BY WriterIs
  <1>2. /\ boundary' = boundary /\ run' = run /\ hourly' = hourly
        /\ \A v \in Writers : samples'[v] = IF v = w THEN samples[v] \cup {ts} ELSE samples[v]
    BY DEF InsertSample
  <1>3. /\ ghost'.first = ghost.first /\ ghost'.aged = ghost.aged
        /\ ghost'.late = IF late THEN ghost.late \cup {<<w, ts>>} ELSE ghost.late
    BY DEF InsertSample, Ghost
  <1>4. \A v \in Writers : ghost'.ever[v] = IF v = w THEN ghost.ever[v] \cup {ts} ELSE ghost.ever[v]
    <2>1. ghost.ever \in [Writers -> SUBSET Time] /\ ghost'.ever = [ghost.ever EXCEPT ![w] = @ \cup {ts}]
      BY DEF InsertSample, Ghost
    <2>2. QED
      BY <2>1
  <1> HIDE DEF ts
  <1>5. SUFFICES ASSUME NEW v \in Writers, NEW t \in Time, Due(v, t)' PROVE Held(v, t)' /\ Stored(v, t)'
    BY KeptAfter
  <1>6. Due(v, t) \/ (v = w /\ t = ts /\ ~late)
    <2>1. t \in ghost'.ever[v] /\ <<v, t>> \notin ghost'.late
      BY <1>5 DEF Due, OnTime
    <2>2. ghost.first # Absent => t >= ghost.first
      BY <1>3, <1>5 DEF Due
    <2>3. HourOf(t) >= ghost.aged
      BY <1>3, <1>5 DEF Due
    <2>4. <<v, t>> \notin ghost.late /\ (late => <<v, t>> # <<w, ts>>)
      <3> HIDE DEF late
      <3>1. CASE late
        <4>1. ghost'.late = ghost.late \cup {<<w, ts>>}
          BY <1>3, <3>1
        <4>2. QED
          BY <2>1, <4>1, Zenon
      <3>2. CASE ~late
        BY <1>3, <2>1, <3>2
      <3>3. QED
        BY <3>1, <3>2
    <2>5. t \in ghost.ever[v] \/ (v = w /\ t = ts)
      <3>1. CASE v = w
        <4>1. ghost'.ever[v] = ghost.ever[v] \cup {ts}
          BY <1>4, <3>1
        <4>2. QED
          BY <2>1, <3>1, <4>1, Zenon
      <3>2. CASE v # w
        BY <1>4, <2>1, <3>2
      <3>3. QED
        BY <3>1, <3>2
    <2>6. QED
      BY <2>2, <2>3, <2>4, <2>5 DEF Due, OnTime
  <1>7. CASE Due(v, t)
    <2>1. Held(v, t) /\ Stored(v, t)
      BY <1>7, KeptBySample DEF Kept
    <2>2. QED
      BY <1>2, <2>1 DEF Held, Stored
  <1>8. CASE v = w /\ t = ts /\ ~late
    BY <1>2, <1>8 DEF Held, Stored
  <1>9. QED
    BY <1>6, <1>7, <1>8

\* rollup_range: what is between the boundary and the run's hour is in the
\* samples, and hours before the boundary are left alone.
LEMMA AggregateKeeps ==
  ASSUME RollupAssumption, IInv, Aggregate
  PROVE  Kept'
  <1> USE Tables DEF IInv
  <1>1. /\ run.at = "aggregate" /\ run' = [run EXCEPT !.at = "store"]
        /\ boundary' = boundary /\ samples' = samples /\ ghost' = ghost
        /\ \A v \in Writers, h \in Time :
             hourly'[v][h] = IF InRange(v, h) = {} THEN hourly[v][h] ELSE InRange(v, h)
    BY DEF Aggregate
  <1>2. run'.from = run.from /\ run'.now = run.now
    BY <1>1
  <1>3. /\ run.from \in Nat /\ boundary \in Nat \cup {Absent} /\ run.from % HourLen = 0
        /\ boundary # Absent => run.from = boundary
    BY <1>1 DEF Time, RangeInv
  <1>4. SUFFICES ASSUME NEW v \in Writers, NEW t \in Time, Due(v, t)' PROVE Held(v, t)' /\ Stored(v, t)'
    BY KeptAfter
  <1>5. Due(v, t)
    BY <1>1, <1>4 DEF Due, OnTime
  <1>6. Held(v, t)
    BY <1>5, KeptBySample DEF Kept
  <1>7. t \in Nat /\ HourOf(t) \in Time /\ HourOf(t) <= t
    <2>1. t \in Nat /\ t <= MaxTime /\ MaxTime \in Nat
      BY DEF Time, RollupAssumption
    <2>2. HourOf(t) \in Nat /\ HourOf(t) <= t
      BY <2>1, HourIs, Zenon
    <2>3. QED
      BY <2>1, <2>2, SMTT(30) DEF Time
  <1>8. t < boundary => hourly'[v][HourOf(t)] = hourly[v][HourOf(t)]
    <2>1. SUFFICES ASSUME t < boundary, NEW u \in InRange(v, HourOf(t)) PROVE FALSE
      BY <1>1, <1>7
    <2>2. boundary = run.from /\ boundary \in Nat
      BY <1>3, <1>7, <2>1 DEF Absent
    <2>3. u \in Nat /\ HourOf(u) = HourOf(t) /\ run.from <= u
      BY <2>1 DEF InRange, Time
    <2>4. run.from <= HourOf(u)
      BY <1>3, <2>3, HourAfter
    <2>5. HourOf(t) \in Nat
      BY <1>7 DEF Time
    <2>6. QED
      BY <1>7, <2>1, <2>2, <2>3, <2>4, <2>5
  <1>9. Held(v, t)'
    BY <1>1, <1>6, <1>8 DEF Held
  <1>10. Stored(v, t)'
    <2>1. SUFFICES ASSUME run.from <= t, t < HourOf(run.now) PROVE t \in hourly'[v][HourOf(t)]
      BY <1>2 DEF Stored
    <2>2. t \in samples[v]
      <3>1. ~(t < boundary)
        BY <1>3, <1>7, <2>1 DEF Absent
      <3>2. QED
        BY <1>6, <3>1 DEF Held
    <2>3. t \in InRange(v, HourOf(t))
      BY <2>1, <2>2 DEF InRange
    <2>4. QED
      BY <1>1, <1>7, <2>3
  <1>11. QED
    BY <1>9, <1>10

\* The boundary moves to the hour up to which everything is in the aggregates.
LEMMA BoundaryKeeps ==
  ASSUME RollupAssumption, IInv, StoreBoundary
  PROVE  Kept'
  <1> USE Tables DEF IInv
  <1>1. /\ run.at = "store" /\ run'.at = "samples" /\ boundary' = HourOf(run.now)
        /\ samples' = samples /\ hourly' = hourly
        /\ ghost'.first = IF ghost.first = Absent THEN run.from ELSE ghost.first
        /\ ghost'.ever = ghost.ever /\ ghost'.late = ghost.late /\ ghost'.aged = ghost.aged
    BY DEF StoreBoundary, Ghost
  <1>2. /\ run.from \in Nat /\ run.now \in Nat /\ boundary \in Nat \cup {Absent}
        /\ boundary # Absent => run.from = boundary
        /\ run.from < HourOf(run.now)
        /\ ghost.first = Absent <=> boundary = Absent
    BY <1>1 DEF Time, RangeInv
  <1>3. HourOf(run.now) \in Nat
    BY <1>2, HourIs
  <1>4. SUFFICES ASSUME NEW v \in Writers, NEW t \in Time, Due(v, t)' PROVE Held(v, t)' /\ Stored(v, t)'
    BY KeptAfter
  <1>5. Due(v, t) /\ (ghost.first = Absent => run.from <= t)
    BY <1>1, <1>2, <1>4 DEF Due, OnTime, Absent
  <1>6. Held(v, t) /\ Stored(v, t)
    BY <1>5, KeptBySample DEF Kept
  <1>7. t \in Nat
    BY DEF Time
  <1>8. Held(v, t)'
    <2>1. CASE t < HourOf(run.now)
      <3>1. t \in hourly[v][HourOf(t)]
        <4>1. CASE t < boundary
          BY <1>6, <4>1 DEF Held
        <4>2. CASE ~(t < boundary)
          <5>1. run.from <= t
            BY <1>2, <1>5, <1>7, <4>2
          <5>2. QED
            BY <1>1, <1>6, <2>1, <5>1 DEF Stored
        <4>3. QED
          BY <4>1, <4>2
      <3>2. QED
        BY <1>1, <2>1, <3>1 DEF Held
    <2>2. CASE ~(t < HourOf(run.now))
      <3>1. ~(t < boundary)
        BY <1>2, <1>3, <1>7, <2>2 DEF Absent
      <3>2. QED
        BY <1>1, <1>6, <2>2, <3>1 DEF Held
    <2>3. QED
      BY <2>1, <2>2
  <1>9. QED
    BY <1>1, <1>8 DEF Stored

\* prune_samples: the retention is an hour at least, so what is pruned was
\* aggregated.
LEMMA PruneKeeps ==
  ASSUME RollupAssumption, IInv, PruneSamples
  PROVE  Kept'
  <1> USE Tables DEF IInv
  <1>1. /\ run.at = "samples" /\ run'.at = "series" /\ boundary' = boundary
        /\ hourly' = hourly /\ ghost' = ghost
        /\ \A w \in Writers : samples'[w] = {t \in samples[w] : t >= run.now - RawKeep}
    BY DEF PruneSamples
  <1>2. /\ run.now \in Nat /\ boundary \in Nat /\ HourOf(run.now) <= boundary
        /\ RawKeep \in Nat /\ HourLen \in Nat /\ HourLen <= RawKeep
    BY <1>1 DEF Time, RangeInv, RollupAssumption
  <1>3. HourOf(run.now) \in Nat /\ run.now < HourOf(run.now) + HourLen
    BY <1>2, HourIs
  <1>4. SUFFICES ASSUME NEW v \in Writers, NEW t \in Time, Due(v, t)' PROVE Held(v, t)' /\ Stored(v, t)'
    BY KeptAfter
  <1>5. Due(v, t)
    BY <1>1, <1>4 DEF Due, OnTime
  <1>6. Held(v, t)
    BY <1>5, KeptBySample DEF Kept
  <1>7. ~(t < boundary) => t >= run.now - RawKeep
    <2>1. t \in Nat
      BY DEF Time
    <2> DEFINE h == HourOf(run.now)
    <2> HIDE DEF h
    <2>2. h \in Nat /\ run.now < h + HourLen /\ h <= boundary
      BY <1>2, <1>3 DEF h
    <2>3. QED
      BY <1>2, <2>1, <2>2
  <1>8. Held(v, t)'
    BY <1>1, <1>6, <1>7 DEF Held
  <1>9. QED
    BY <1>1, <1>8 DEF Stored

\* prune_hourly: what goes is not asked for any more.
LEMMA AgeingKeeps ==
  ASSUME RollupAssumption, IInv, PruneHourly
  PROVE  Kept'
  <1> USE Tables DEF IInv
  <1> DEFINE cut == run.now - HourlyKeep
             aged == ghost.aged
  <1>1. cut \in Int /\ aged \in Nat
    <2>1. run.now \in Nat /\ HourlyKeep \in Nat
      BY DEF Time, RollupAssumption
    <2>2. QED
      BY <2>1 DEF Ghost
  <1>2. /\ boundary' = boundary /\ samples' = samples /\ run'.at = "results"
        /\ ghost'.first = ghost.first /\ ghost'.ever = ghost.ever /\ ghost'.late = ghost.late
        /\ ghost'.aged = Max({aged, cut})
    BY DEF PruneHourly, Ghost
  <1>3. \A w \in Writers, h \in Time : hourly'[w][h] = IF h < cut THEN {} ELSE hourly[w][h]
    BY DEF PruneHourly
  <1> HIDE DEF cut, aged
  <1>4. Max({aged, cut}) = IF aged >= cut THEN aged ELSE cut
    <2>1. aged \in Int
      BY <1>1
    <2>2. QED
      BY <1>1, <2>1, MaxTwo, Zenon
  <1>5. SUFFICES ASSUME NEW v \in Writers, NEW t \in Time, Due(v, t)' PROVE Held(v, t)' /\ Stored(v, t)'
    BY KeptAfter
  <1>6. t \in Nat /\ HourOf(t) \in Time /\ HourOf(t) \in Nat
    <2>1. t \in Nat /\ t <= MaxTime /\ MaxTime \in Nat
      BY DEF Time, RollupAssumption
    <2>2. HourOf(t) \in Nat /\ HourOf(t) <= t
      BY <2>1, HourIs, Zenon
    <2>3. QED
      BY <2>1, <2>2, SMTT(30) DEF Time
  <1>7. HourOf(t) >= aged /\ ~(HourOf(t) < cut)
    <2>1. HourOf(t) >= ghost'.aged
      BY <1>5 DEF Due
    <2>2. QED
      BY <1>1, <1>2, <1>4, <1>6, <2>1
  <1>8. Due(v, t)
    BY <1>2, <1>5, <1>7 DEF Due, OnTime, aged
  <1>9. Held(v, t)
    BY <1>8, KeptBySample DEF Kept
  <1>10. Held(v, t)'
    BY <1>2, <1>3, <1>6, <1>7, <1>9 DEF Held
  <1>11. QED
    BY <1>2, <1>10 DEF Stored

LEMMA KeptNext ==
  ASSUME RollupAssumption, IInv, Next
  PROVE  Kept'
  <1> USE Tables DEF IInv
  <1>1. Kept
    BY DEF Kept
  <1>2. CASE \/ \E w \in Writers : Measure(w) \/ InsertResult(w) \/ UpdateSeries(w) \/ WriteFails(w)
             \/ Start \/ PruneSeries \/ PruneResults \/ RunFails \/ Crash \/ Tick \/ ClockSetBack
    <2>1. /\ boundary' = boundary /\ samples' = samples /\ hourly' = hourly
          /\ ghost'.first = ghost.first /\ ghost'.ever = ghost.ever /\ ghost'.late = ghost.late
          /\ ghost'.aged = ghost.aged
      BY <1>2 DEF Measure, InsertResult, UpdateSeries, WriteFails, Start, PruneSeries, PruneResults,
                  RunFails, Crash, Tick, ClockSetBack, Ghost
    <2>2. run'.at = "store" => run' = run
      <3>1. CASE Start
        <4>1. run'.at = "aggregate" \/ run'.at = "samples"
          BY <3>1 DEF Start
        <4>2. QED
          BY <4>1
      <3>2. CASE PruneSeries \/ PruneResults \/ RunFails \/ Crash
        <4>1. run'.at \in {"hourly", "idle"}
          BY <3>2 DEF PruneSeries, PruneResults, RunFails, Crash, NoRun
        <4>2. QED
          BY <4>1
      <3>3. QED
        BY <1>2, <3>1, <3>2 DEF Measure, InsertResult, UpdateSeries, WriteFails, Tick, ClockSetBack
    <2>3. \A w \in Writers, t \in Time : Due(w, t)' => Due(w, t)
      BY <2>1 DEF Due, OnTime
    <2>4. QED
      BY <1>1, <2>1, <2>2, <2>3, KeptSame
  <1>3. QED
    BY <1>2, InsertKeeps, AggregateKeeps, BoundaryKeeps, PruneKeeps, AgeingKeeps DEF Next

-----------------------------------------------------------------------------
(* A series ends at its newest sample.                                     *)

\* A step that leaves the rows of a writer alone.
LEMMA SeriesSame ==
  ASSUME RollupAssumption, IInv, TablesInv', ClockInv', NEW w \in Writers,
         samples'[w] = samples[w], series'[w] = series[w],
         writer'[w].at = "series" => writer'[w] = writer[w],
         w \notin ghost'.broken =>
           w \notin ghost.broken /\ (writer[w].at = "series" => writer'[w].at = "series"),
         faults' = 0 => /\ faults = 0 /\ w \notin ghost'.broken
                        /\ run.at = "series" => run'.at = "series",
         now + faults <= now' + faults',
         run'.at = "series" => run.at = "series" /\ run'.now = run.now
  PROVE  SeriesInv(w)'
  <1>1. SeriesInv(w)
    BY DEF IInv
  <1>2. writer'[w].at = "series" => writer'[w].ts \in samples'[w]
    BY <1>1 DEF SeriesInv
  <1>3. series'[w] # Absent =>
          series'[w] < now' + faults' - RawKeep \/ \E t \in samples'[w] : series'[w] <= t
    <2>1. now \in Nat /\ faults \in Nat /\ series[w] \in Nat \cup {Absent} /\ RawKeep \in Nat
      BY WriterIs DEF Time
    <2>2. now' \in Nat /\ faults' \in Nat
      BY DEF TablesInv, TypeOK, Time, ClockInv
    <2> DEFINE s == series[w]
               S == samples[w]
               n == now'
               f == faults'
    <2>3. s # Absent => s < now + faults - RawKeep \/ \E t \in S : s <= t
      BY <1>1, Zenon DEF SeriesInv
    <2>4. series'[w] = s /\ samples'[w] = S /\ now + faults <= n + f /\ n \in Nat /\ f \in Nat
      BY <2>2
    <2>5. s \in Nat \cup {Absent}
      BY <2>1
    <2> HIDE DEF s, S, n, f
    <2>6. s # Absent => s < n + f - RawKeep \/ \E t \in S : s <= t
      BY <2>1, <2>3, <2>4, <2>5
    <2>7. QED
      BY <2>4, <2>6, Zenon DEF n, f
  <1>4. w \notin ghost'.broken /\ samples'[w] # {} => Tops(LastOf(w)', samples'[w])
    <2>1. SUFFICES ASSUME w \notin ghost'.broken, samples'[w] # {}
                   PROVE  Tops(LastOf(w)', samples'[w])
      OBVIOUS
    <2>2. Tops(LastOf(w), samples[w])
      BY <1>1, <2>1 DEF SeriesInv
    <2>3. LastOf(w)' = LastOf(w)
      BY <2>1 DEF LastOf
    <2>4. QED
      BY <2>2, <2>3
  <1>5. run'.at = "series" => \A t \in samples'[w] : run'.now - RawKeep <= t
    BY <1>1 DEF SeriesInv
  <1>6. faults' = 0 =>
          /\ w \notin ghost'.broken
          /\ samples'[w] = {} =>
               series'[w] = Absent \/ (run'.at = "series" /\ series'[w] < run'.now - RawKeep)
    BY <1>1 DEF SeriesInv
  <1>7. QED
    BY <1>2, <1>3, <1>4, <1>5, <1>6 DEF SeriesInv

\* Numbers of a writer under way: what it measured will not be pruned yet.
LEMMA FreshWriter ==
  ASSUME RollupAssumption, IInv, NEW w \in Writers, writer[w].at # "idle"
  PROVE  /\ now + faults - RawKeep \in Int /\ now + faults - RawKeep < writer[w].ts
         /\ run.at # "idle" => run.now - RawKeep <= now + faults - RawKeep
  <1>1. /\ now \in Nat /\ faults \in Nat /\ faults <= MaxFaults /\ RawKeep \in Nat /\ MaxDelay \in Nat
        /\ MaxFaults \in Nat /\ MaxDelay + MaxFaults < RawKeep /\ writer[w].ts \in Nat
        /\ run.now \in Nat
    BY WriterIs
  <1>2. now - writer[w].ts <= MaxDelay /\ (run.at # "idle" => run.now <= now + faults)
    BY DEF IInv, ClockInv
  <1> DEFINE ts == writer[w].ts
             n == run.now
  <1> HIDE DEF ts, n
  <1>3. ts \in Nat /\ n \in Nat /\ now - ts <= MaxDelay
    BY <1>1, <1>2 DEF ts, n
  <1>4. now + faults - RawKeep < ts
    BY <1>1, <1>3
  <1>5. run.at # "idle" => n - RawKeep <= now + faults - RawKeep
    BY <1>1, <1>2, <1>3 DEF n
  <1>6. QED
    BY <1>1, <1>4, <1>5 DEF ts, n

\* The second table is about to follow the first: what is stored is the newest,
\* or is behind a newer one.
LEMMA InsertSeries ==
  ASSUME RollupAssumption, IInv, NEW w \in Writers, InsertSample(w)
  PROVE  SeriesInv(w)'
  <1> DEFINE ts == writer[w].ts
             s == series[w]
             S == samples[w]
             cut == now + faults - RawKeep
  <1>1. SeriesInv(w) /\ writer[w].at = "sample"
    BY DEF IInv, InsertSample
  <1>2. /\ samples'[w] = S \cup {ts} /\ series'[w] = s /\ writer'[w].at = "series" /\ writer'[w].ts = ts
        /\ now' = now /\ faults' = faults /\ run' = run /\ ghost'.broken = ghost.broken
    BY Tables DEF IInv, InsertSample, Ghost
  <1>3. /\ ts \in Nat /\ S \in SUBSET Nat /\ s \in Nat \cup {Absent} /\ cut \in Int /\ cut < ts
        /\ run.now - RawKeep \in Int /\ (run.at # "idle" => run.now - RawKeep <= cut)
    BY <1>1, WriterIs, FreshWriter DEF Time
  <1>4. LastOf(w) = s /\ LastOf(w)' = IF ~(s > ts) THEN ts ELSE s
    BY <1>1, <1>2 DEF LastOf
  <1> DEFINE age == run.now - RawKeep
  <1>5. /\ s # Absent => s < cut \/ \E t \in S : s <= t
        /\ w \notin ghost.broken /\ S # {} => Tops(s, S)
        /\ run.at = "series" => \A t \in S : age <= t
        /\ faults = 0 => w \notin ghost.broken
    BY <1>1, <1>4 DEF SeriesInv
  <1> HIDE DEF ts, s, S, cut, age
  <1>6. s # Absent => s < cut \/ \E t \in S \cup {ts} : s <= t
    BY <1>5
  <1>7. w \notin ghost.broken => Tops(IF ~(s > ts) THEN ts ELSE s, S \cup {ts})
    <2>1. SUFFICES ASSUME w \notin ghost.broken PROVE Tops(IF ~(s > ts) THEN ts ELSE s, S \cup {ts})
      OBVIOUS
    <2>2. CASE S = {}
      <3>1. ~(s > ts)
        BY <1>3, <1>5, <2>2 DEF Absent
      <3>2. QED
        BY <1>3, <2>2, <3>1 DEF Tops
    <2>3. CASE S # {}
      BY <1>3, <1>5, <2>1, <2>3 DEF Tops
    <2>4. QED
      BY <2>2, <2>3
  <1>8. run.at = "series" => \A t \in S \cup {ts} : age <= t
    <2>1. SUFFICES ASSUME run.at = "series" PROVE \A t \in S \cup {ts} : age <= t
      OBVIOUS
    <2>2. \A t \in S : age <= t
      BY <1>5, <2>1
    <2>3. age <= ts
      <3>1. age \in Int /\ age <= cut /\ cut \in Int /\ cut < ts /\ ts \in Nat
        BY <1>3, <2>1 DEF age
      <3>2. QED
        BY <3>1
    <2>4. QED
      BY <2>2, <2>3
  <1>9. QED
    BY <1>2, <1>4, <1>5, <1>6, <1>7, <1>8 DEF SeriesInv, age, cut

\* The row takes the newer time, which makes up for a write that was cut off
\* when it is the newest of all.
LEMMA UpdateSeriesKeeps ==
  ASSUME RollupAssumption, IInv, NEW w \in Writers, UpdateSeries(w)
  PROVE  SeriesInv(w)'
  <1> DEFINE ts == writer[w].ts
             s == series[w]
             S == samples[w]
             cut == now + faults - RawKeep
             x == IF s > ts THEN s ELSE ts
             age == run.now - RawKeep
  <1>1. SeriesInv(w) /\ writer[w].at = "series"
    BY DEF IInv, UpdateSeries
  <1>2. /\ samples'[w] = S /\ series'[w] = x /\ writer'[w].at = "idle"
        /\ now' = now /\ faults' = faults /\ run' = run
        /\ ghost'.broken = IF ts = Max(S) THEN ghost.broken \ {w} ELSE ghost.broken
    BY Tables DEF IInv, UpdateSeries, Ghost, Resting
  <1>3. /\ ts \in Nat /\ S \in SUBSET Time /\ S \in SUBSET Nat /\ s \in Nat \cup {Absent}
        /\ cut \in Int /\ cut < ts /\ ts \in S
    BY <1>1, WriterIs, FreshWriter DEF Time, SeriesInv
  <1>4. LastOf(w) = x /\ LastOf(w)' = x
    BY <1>1, <1>2 DEF LastOf
  <1>5. /\ s # Absent => s < cut \/ \E t \in S : s <= t
        /\ w \notin ghost.broken => Tops(x, S)
        /\ run.at = "series" => \A t \in S : age <= t
        /\ faults = 0 => w \notin ghost.broken
    BY <1>1, <1>3, <1>4 DEF SeriesInv
  <1>6. ts = Max(S) => Tops(ts, S)
    BY <1>3, GreatestTime
  <1>7. w \notin ghost'.broken => w \notin ghost.broken \/ Tops(ts, S)
    BY <1>2, <1>6
  <1> HIDE DEF ts, s, S, cut, age
  <1>8. x # Absent => x < cut \/ \E t \in S : x <= t
    BY <1>3, <1>5
  <1>9. w \notin ghost'.broken => Tops(x, S)
    <2>1. CASE w \notin ghost.broken
      BY <1>5, <2>1
    <2>2. CASE Tops(ts, S)
      <3>1. ~(s > ts)
        BY <1>3, <1>5, <2>2 DEF Tops, Absent
      <3>2. QED
        BY <2>2, <3>1
    <2>3. QED
      BY <1>7, <2>1, <2>2
  <1>10. faults = 0 => w \notin ghost'.broken
    BY <1>2, <1>5
  <1> HIDE DEF x
  <1>11. S # {}
    BY <1>3
  <1>12. QED
    BY <1>2, <1>4, <1>5, <1>8, <1>9, <1>10, <1>11 DEF SeriesInv, age, cut

\* prune_samples: a series that loses all its samples is behind the cut.
LEMMA PruneSamplesSeries ==
  ASSUME RollupAssumption, IInv, NEW w \in Writers, PruneSamples
  PROVE  SeriesInv(w)'
  <1> DEFINE ts == writer[w].ts
             s == series[w]
             S == samples[w]
             age == run.now - RawKeep
             cut == now + faults - RawKeep
             K == {t \in S : t >= age}
             l == LastOf(w)
             atSeries == writer[w].at = "series"
  <1>1. SeriesInv(w) /\ run.at = "samples"
    BY DEF IInv, PruneSamples
  <1>2. /\ samples'[w] = K /\ series' = series /\ writer' = writer /\ ghost' = ghost
        /\ now' = now /\ faults' = faults /\ run'.at = "series" /\ run'.now = run.now
    BY Tables DEF IInv, PruneSamples
  <1>3. /\ S \in SUBSET Nat /\ s \in Nat \cup {Absent} /\ cut \in Int /\ age \in Int /\ age <= cut
    <2>1. /\ S \in SUBSET Nat /\ s \in Nat \cup {Absent} /\ now \in Nat /\ faults \in Nat
          /\ RawKeep \in Nat /\ run.now \in Nat
      BY WriterIs DEF Time
    <2>2. run.now <= now + faults
      BY <1>1 DEF IInv, ClockInv
    <2> DEFINE n == run.now
    <2> HIDE DEF n
    <2>3. n \in Nat /\ n <= now + faults
      BY <2>1, <2>2 DEF n
    <2>4. n - RawKeep \in Int /\ now + faults - RawKeep \in Int /\ n - RawKeep <= now + faults - RawKeep
      BY <2>1, <2>3
    <2>5. QED
      BY <2>1, <2>4 DEF n
  <1>4. atSeries => ts \in S /\ age <= ts /\ ts \in Nat
    <2>1. SUFFICES ASSUME atSeries PROVE ts \in S /\ age <= ts /\ ts \in Nat
      OBVIOUS
    <2>2. ts \in S /\ ts \in Nat /\ cut < ts
      BY <1>1, <2>1, FreshWriter, WriterIs DEF SeriesInv
    <2> HIDE DEF ts, cut, age, S, s
    <2>3. QED
      BY <1>3, <2>2
  <1>5. LastOf(w)' = l /\ (~atSeries => l = s)
    BY <1>2 DEF LastOf
  <1>6. /\ s # Absent => s < cut \/ \E t \in S : s <= t
        /\ w \notin ghost.broken /\ S # {} => Tops(l, S)
        /\ faults = 0 => w \notin ghost.broken /\ (S = {} => s = Absent)
    BY <1>1 DEF SeriesInv
  <1>7. atSeries => ts \in K
    BY <1>3, <1>4
  <1> HIDE DEF ts, s, S, cut, age, l, atSeries
  <1>8. s # Absent => s < cut \/ \E t \in K : s <= t
    <2>1. SUFFICES ASSUME NEW t \in S, s <= t, s # Absent PROVE s < cut \/ \E u \in K : s <= u
      BY <1>6
    <2>2. CASE t >= age
      BY <2>1, <2>2
    <2>3. CASE ~(t >= age)
      BY <1>3, <2>1, <2>3
    <2>4. QED
      BY <2>2, <2>3
  <1>9. w \notin ghost.broken /\ K # {} => Tops(l, K)
    <2>1. SUFFICES ASSUME w \notin ghost.broken, K # {} PROVE Tops(l, K)
      OBVIOUS
    <2>2. Tops(l, S)
      BY <1>6, <2>1
    <2>3. PICK t \in S : t >= age
      BY <2>1
    <2>4. l >= age
      BY <1>3, <2>2, <2>3 DEF Tops
    <2>5. QED
      BY <2>2, <2>4 DEF Tops
  <1>10. \A t \in K : age <= t
    BY <1>3
  <1>11. faults = 0 /\ K = {} => s = Absent \/ s < age
    <2>1. SUFFICES ASSUME faults = 0, K = {}, S # {} PROVE s < age
      BY <1>6
    <2>2. Tops(l, S) /\ l = s
      BY <1>5, <1>6, <1>7, <2>1
    <2>3. s \in S /\ ~(s >= age)
      BY <2>1, <2>2 DEF Tops
    <2>4. QED
      BY <1>3, <2>3
  <1> HIDE DEF K
  <1>12. /\ series'[w] = s /\ writer'[w].ts = ts /\ (writer'[w].at = "series" <=> atSeries)
         /\ run'.now - RawKeep = age /\ now' + faults' - RawKeep = cut
    BY <1>2 DEF s, ts, atSeries, age, cut
  <1>13. QED
    BY <1>2, <1>5, <1>6, <1>7, <1>8, <1>9, <1>10, <1>11, <1>12 DEF SeriesInv

\* prune_series: what goes has no samples any more, or a row on its way.
LEMMA PruneSeriesKeeps ==
  ASSUME RollupAssumption, IInv, NEW w \in Writers, PruneSeries
  PROVE  SeriesInv(w)'
  <1> DEFINE ts == writer[w].ts
             s == series[w]
             S == samples[w]
             age == run.now - RawKeep
             cut == now + faults - RawKeep
             x == IF s < age THEN Absent ELSE s
             l == LastOf(w)
             atSeries == writer[w].at = "series"
  <1>1. SeriesInv(w) /\ run.at = "series"
    BY DEF IInv, PruneSeries
  <1>2. /\ samples' = samples /\ series'[w] = x /\ writer' = writer /\ ghost' = ghost
        /\ now' = now /\ faults' = faults /\ run'.at = "hourly"
    BY Tables DEF IInv, PruneSeries
  <1>3. S \in SUBSET Nat /\ s \in Nat \cup {Absent} /\ age \in Int /\ ts \in Nat
    BY WriterIs DEF Time
  <1>4. atSeries => ts \in S
    BY <1>1 DEF SeriesInv
  <1>5. /\ l = IF atSeries /\ ~(s > ts) THEN ts ELSE s
        /\ LastOf(w)' = IF atSeries /\ ~(x > ts) THEN ts ELSE x
    BY <1>2 DEF LastOf
  <1>6. /\ s # Absent => s < cut \/ \E t \in S : s <= t
        /\ w \notin ghost.broken /\ S # {} => Tops(l, S)
        /\ \A t \in S : age <= t
        /\ faults = 0 => w \notin ghost.broken /\ (S = {} => s = Absent \/ s < age)
    BY <1>1 DEF SeriesInv
  <1> HIDE DEF ts, s, S, cut, age, l, atSeries
  <1>7. x # Absent => x < cut \/ \E t \in S : x <= t
    BY <1>6
  <1>8. w \notin ghost.broken /\ S # {} => Tops(IF atSeries /\ ~(x > ts) THEN ts ELSE x, S)
    <2>1. SUFFICES ASSUME w \notin ghost.broken, S # {}
                   PROVE  Tops(IF atSeries /\ ~(x > ts) THEN ts ELSE x, S)
      OBVIOUS
    <2>2. Tops(l, S) /\ l \in S /\ age <= l
      BY <1>6, <2>1 DEF Tops
    <2>3. CASE atSeries /\ ~(s > ts)
      <3>1. ~(x > ts) /\ l = ts
        BY <1>3, <1>5, <2>3 DEF Absent
      <3>2. QED
        BY <2>2, <2>3, <3>1
    <2>4. CASE ~(atSeries /\ ~(s > ts))
      <3>1. l = s /\ x = s
        BY <1>3, <1>5, <2>2, <2>4
      <3>2. QED
        BY <2>2, <2>4, <3>1
    <2>5. QED
      BY <2>3, <2>4
  <1>9. faults = 0 /\ S = {} => x = Absent
    BY <1>6
  <1> HIDE DEF x
  <1>10. /\ samples'[w] = S /\ writer'[w].ts = ts /\ (writer'[w].at = "series" <=> atSeries)
         /\ now' + faults' - RawKeep = cut
    BY <1>2 DEF S, ts, atSeries, cut
  <1>11. QED
    BY <1>2, <1>4, <1>5, <1>6, <1>7, <1>8, <1>9, <1>10 DEF SeriesInv

\* Every step, for the rows of one writer.
LEMMA SeriesNext ==
  ASSUME RollupAssumption, IInv, Next, TablesInv', ClockInv', NEW w \in Writers
  PROVE  SeriesInv(w)'
  <1> USE Tables DEF IInv
  <1>1. faults \in Nat /\ now \in Nat /\ (faults = 0 => w \notin ghost.broken)
    <2>1. SeriesInv(w)
      BY DEF IInv
    <2>2. QED
      BY <2>1, WriterIs DEF SeriesInv
  <1>2. ASSUME NEW v \in Writers,
               \/ Measure(v) \/ InsertResult(v)
               \/ v # w /\ (InsertSample(v) \/ UpdateSeries(v))
        PROVE  SeriesInv(w)'
    <2>1. /\ now' = now /\ faults' = faults /\ run' = run
          /\ samples'[w] = samples[w] /\ series'[w] = series[w]
      BY <1>2 DEF Measure, InsertResult, InsertSample, UpdateSeries
    <2>2. ghost'.broken \in {ghost.broken, ghost.broken \ {v}} /\ (v = w => ghost' = ghost)
      BY <1>2 DEF Measure, InsertResult, InsertSample, UpdateSeries, Ghost
    <2>3. /\ writer'[w].at = "series" => writer'[w] = writer[w]
          /\ writer[w].at = "series" => writer'[w].at = "series"
      BY <1>2 DEF Measure, InsertResult, InsertSample, UpdateSeries
    <2>4. now + faults <= now' + faults'
      BY <1>1, <2>1
    <2>5. w \in ghost'.broken <=> w \in ghost.broken
      BY <2>2
    <2>6. QED
      BY <1>1, <2>1, <2>3, <2>4, <2>5, SeriesSame
  <1>3. ASSUME NEW v \in Writers, WriteFails(v) PROVE SeriesInv(w)'
    <2>1. /\ now' = now /\ faults' = faults + 1 /\ run' = run
          /\ samples' = samples /\ series' = series
          /\ ghost'.broken = ghost.broken \cup {u \in {v} : writer[u].at = "series"}
          /\ writer'[w] = IF w = v THEN Resting ELSE writer[w]
      BY <1>3 DEF WriteFails, Broken, Ghost
    <2>2. /\ writer'[w].at = "series" => writer'[w] = writer[w]
          /\ w \notin ghost'.broken =>
               w \notin ghost.broken /\ (writer[w].at = "series" => writer'[w].at = "series")
      BY <2>1 DEF Resting
    <2>3. now + faults <= now' + faults' /\ faults' # 0
      BY <1>1, <2>1
    <2>4. QED
      BY <2>1, <2>2, <2>3, SeriesSame
  <1>4. CASE Start \/ Aggregate \/ StoreBoundary \/ PruneHourly \/ PruneResults
    <2>1. /\ now' = now /\ faults' = faults /\ writer' = writer
          /\ samples' = samples /\ series' = series /\ ghost'.broken = ghost.broken
      BY <1>4 DEF Start, Aggregate, StoreBoundary, PruneHourly, PruneResults, Ghost
    <2>2. run'.at # "series" /\ run.at # "series"
      BY <1>4 DEF Start, Aggregate, StoreBoundary, PruneHourly, PruneResults, NoRun
    <2>3. now + faults <= now' + faults'
      BY <1>1, <2>1
    <2>4. QED
      BY <1>1, <2>1, <2>2, <2>3, SeriesSame
  <1>5. CASE RunFails
    <2>1. /\ now' = now /\ faults' = faults + 1 /\ writer' = writer /\ run'.at = "idle"
          /\ samples' = samples /\ series' = series /\ ghost'.broken = ghost.broken
      BY <1>5 DEF RunFails, NoRun
    <2>2. now + faults <= now' + faults' /\ faults' # 0
      BY <1>1, <2>1
    <2>3. QED
      BY <2>1, <2>2, SeriesSame
  <1>6. CASE Crash
    <2>1. /\ now' = now /\ faults' = faults + 1 /\ writer'[w] = Resting /\ run'.at = "idle"
          /\ samples' = samples /\ series' = series
          /\ ghost'.broken = ghost.broken \cup {v \in Writers : writer[v].at = "series"}
      BY <1>6 DEF Crash, NoRun, Broken, Ghost
    <2>2. now + faults <= now' + faults' /\ faults' # 0
      BY <1>1, <2>1
    <2>3. /\ writer'[w].at # "series"
          /\ w \notin ghost'.broken => w \notin ghost.broken /\ writer[w].at # "series"
      BY <2>1 DEF Resting
    <2>4. QED
      BY <2>1, <2>2, <2>3, SeriesSame
  <1>7. CASE Tick
    <2>1. /\ now' = now + 1 /\ faults' = faults /\ writer' = writer /\ run' = run
          /\ samples' = samples /\ series' = series /\ ghost' = ghost
      BY <1>7 DEF Tick
    <2>2. now + faults <= now' + faults'
      BY <1>1, <2>1
    <2>3. QED
      BY <1>1, <2>1, <2>2, SeriesSame
  <1>8. CASE ClockSetBack
    <2>1. /\ now' = now - 1 /\ faults' = faults + 1 /\ writer' = writer /\ run' = run
          /\ samples' = samples /\ series' = series /\ ghost' = ghost
      BY <1>8 DEF ClockSetBack
    <2>2. now + faults <= now' + faults' /\ faults' # 0
      BY <1>1, <2>1
    <2>3. QED
      BY <2>1, <2>2, SeriesSame
  <1>9. CASE InsertSample(w) \/ UpdateSeries(w) \/ PruneSamples \/ PruneSeries
    BY <1>9, InsertSeries, UpdateSeriesKeeps, PruneSamplesSeries, PruneSeriesKeeps
  <1>10. QED
    BY <1>2, <1>3, <1>4, <1>5, <1>6, <1>7, <1>8, <1>9 DEF Next

\* Every step keeps the invariant.
LEMMA NextKeeps ==
  ASSUME RollupAssumption, IInv, [Next]_vars
  PROVE  IInv'
  <1>1. CASE Next
    <2>1. TablesInv' /\ ClockInv' /\ RangeInv'
      BY <1>1, TablesNext, ClockNext, RangeNext
    <2>2. NothingLost' /\ StoreInv'
      BY <1>1, KeptNext DEF Kept
    <2>3. \A w \in Writers : SeriesInv(w)'
      BY <1>1, <2>1, SeriesNext
    <2>4. QED
      BY <2>1, <2>2, <2>3 DEF IInv
  <1>2. CASE UNCHANGED vars
    <2>1. UNCHANGED <<samples, series, hourly, results, boundary, now, writer, run, ghost, faults>>
      BY <1>2 DEF vars
    <2>2. TablesInv' /\ ClockInv' /\ RangeInv'
      BY <2>1 DEF IInv, TablesInv, TypeOK, ClockInv, RangeInv
    <2>3. NothingLost' /\ StoreInv'
      BY <2>1 DEF IInv, NothingLost, StoreInv, Due, OnTime
    <2>4. \A w \in Writers : SeriesInv(w)'
      BY <2>1 DEF IInv, SeriesInv, LastOf
    <2>5. QED
      BY <2>2, <2>3, <2>4 DEF IInv
  <1>3. QED
    BY <1>1, <1>2

-----------------------------------------------------------------------------
(* The theorems.                                                           *)

\* The tables, the clock, the boundary and the place of the run fit together in
\* every state, for any writers, retention and bounds.
THEOREM Invariance ==
  ASSUME RollupAssumption
  PROVE  Spec => []IInv
  <1>1. Init => IInv
    BY InitHolds
  <1>2. IInv /\ [Next]_vars => IInv'
    BY NextKeeps
  <1>3. QED
    BY <1>1, <1>2, PTL DEF Spec

\* run_once: whatever runs are missed, repeated or cut short and however the
\* clock is set back, a sample stored before its hour was aggregated is in the
\* aggregate of its hour, or in the table if its hour is to come, until it ages
\* out.
THEOREM NothingIsLost ==
  ASSUME RollupAssumption
  PROVE  Spec => []NothingLost
  <1>1. IInv => NothingLost
    BY DEF IInv
  <1>2. QED
    BY <1>1, Invariance, PTL

\* insert_samples and run_once: last_ts is the newest sample of its series
\* unless a write was cut off between its two statements, and a series row
\* without samples is gone by the end of a run that nothing disturbed.
THEOREM SeriesEndsNewest ==
  ASSUME RollupAssumption
  PROVE  Spec => []SeriesNewest
  <1>1. IInv => SeriesNewest
    <2>1. SUFFICES ASSUME IInv, NEW w \in Writers \ ghost.broken, writer[w].at # "series"
                   PROVE  /\ samples[w] # {} => series[w] = Max(samples[w])
                          /\ (series[w] # Absent /\ samples[w] = {}) => (run.at # "idle" \/ faults > 0)
      BY DEF SeriesNewest
    <2>2. SeriesInv(w) /\ LastOf(w) = series[w]
      BY <2>1 DEF IInv, LastOf
    <2>3. samples[w] # {} => series[w] = Max(samples[w])
      <3>1. SUFFICES ASSUME samples[w] # {} PROVE series[w] = Max(samples[w])
        OBVIOUS
      <3>2. Tops(series[w], samples[w])
        BY <2>1, <2>2, <3>1 DEF SeriesInv
      <3>3. samples[w] \in SUBSET Int
        BY <2>1, WriterIs DEF Time
      <3>4. QED
        BY <3>2, <3>3, MaxOf DEF Tops
    <2>4. (series[w] # Absent /\ samples[w] = {}) => (run.at # "idle" \/ faults > 0)
      <3>1. faults \in Nat
        BY <2>1, WriterIs
      <3>2. QED
        BY <2>2, <3>1 DEF SeriesInv
    <2>5. QED
      BY <2>3, <2>4
  <1>2. QED
    BY <1>1, Invariance, PTL

\* result_days: no result of the strip's days is pruned, whatever the retention
\* and however far the clock is set back within a day.
THEOREM StripIsWhole ==
  ASSUME RollupAssumption
  PROVE  Spec => StripWhole
  <1>1. IInv /\ [Next]_vars => [\A t \in results \ results' : t < now - Strip]_vars
    <2>1. SUFFICES ASSUME IInv, Next, NEW t \in results, t \notin results' PROVE t < now - Strip
      BY DEF vars
    <2>2. CASE PruneResults
      <3> DEFINE keep == ResultKeep
                 n == run.now
      <3>1. ~(t >= n - keep)
        BY <2>1, <2>2 DEF PruneResults
      <3>2. /\ t \in Nat /\ n \in Nat /\ now \in Nat /\ faults \in Nat /\ faults <= MaxFaults
            /\ Strip \in Nat /\ HourlyKeep \in Nat /\ Day \in Nat /\ MaxFaults \in Nat /\ MaxFaults <= Day
            /\ n <= now + faults
        BY <2>1, <2>2 DEF PruneResults, IInv, TablesInv, TypeOK, ClockInv, Time, RollupAssumption
      <3>3. Max({HourlyKeep, Strip}) = IF HourlyKeep >= Strip THEN HourlyKeep ELSE Strip
        BY <3>2, MaxTwo
      <3>4. keep \in Nat /\ keep >= Strip + Day
        BY <3>2, <3>3 DEF ResultKeep
      <3> HIDE DEF keep, n
      <3>5. QED
        BY <3>1, <3>2, <3>4
    <2>3. CASE ~PruneResults
      BY <2>1, <2>3 DEF Next, Measure, InsertResult, InsertSample, UpdateSeries, WriteFails, Start,
                        Aggregate, StoreBoundary, PruneSamples, PruneSeries, PruneHourly, RunFails,
                        Crash, Tick, ClockSetBack
    <2>4. QED
      BY <2>2, <2>3
  <1>2. QED
    BY <1>1, Invariance, PTL DEF Spec, StripWhole

=============================================================================
