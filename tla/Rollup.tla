------------------------------- MODULE Rollup -------------------------------
(***************************************************************************)
(* Samples, their hourly aggregates and retention: insert_samples and the  *)
(* pruning statements of src/src/db.rs, run_once of src/src/rollup.rs and  *)
(* the loops of src/src/app.rs that call them.                             *)
(*                                                                         *)
(* A sample is its time: an aggregate is the set of samples it was worked  *)
(* out from.  Each database call is a step.  A writer is a loop with one   *)
(* series: it takes the time, measures, and stores.                        *)
(***************************************************************************)
EXTENDS Integers, FiniteSetsExt

CONSTANTS Writers,
          HourLen,                    \* 3600 seconds, in ticks of the model
          RawKeep, HourlyKeep, Strip, \* retention, and the status page's days
          Day,                        \* 86400 seconds
          MaxDelay,     \* bound: ticks between a measurement and its insert
          MaxTime, MaxFaults \* bounds; a clock set back is a fault

\* What the constants are; the module that gives them values assumes it.
RollupAssumption ==
  /\ HourLen \in Nat \ {0} /\ Day \in Nat \ {0} /\ Strip \in Nat
  /\ RawKeep \in Nat /\ HourlyKeep \in Nat
  /\ HourLen <= RawKeep /\ RawKeep <= HourlyKeep   \* validate: a day at least
  /\ MaxDelay \in Nat /\ MaxFaults \in Nat
  /\ MaxDelay + MaxFaults < RawKeep /\ MaxFaults <= Day
  /\ MaxTime \in Nat /\ 2 * HourLen <= MaxTime

VARIABLES samples,   \* [Writers -> SUBSET Time]: table samples
          series,    \* [Writers -> Time or Absent]: table series, last_ts
          hourly,    \* [Writers -> [Time -> SUBSET Time]]: table hourly, {} is no row
          results,   \* table check_results
          boundary,  \* meta last_rollup
          now,
          writer,    \* [Writers -> [at, ts]]
          run,       \* run_once: where it is
          ghost,     \* what happened, for the properties
          faults

vars == <<samples, series, hourly, results, boundary, now, writer, run, ghost, faults>>

Absent == -1

Time == 0 .. MaxTime

HourOf(t) == (t \div HourLen) * HourLen

Resting == [at |-> "idle", ts |-> 0]

NoRun == [at |-> "idle", now |-> 0, from |-> 0]

Init ==
  /\ samples = [w \in Writers |-> {}] /\ series = [w \in Writers |-> Absent]
  /\ hourly = [w \in Writers |-> [h \in Time |-> {}]]
  /\ results = {}
  /\ boundary = Absent
  /\ now = 2 * HourLen
  /\ writer = [w \in Writers |-> Resting]
  /\ run = NoRun
  /\ ghost = [ever |-> [w \in Writers |-> {}], late |-> {}, broken |-> {}, first |-> Absent,
              aged |-> 0]
  /\ faults = 0

-----------------------------------------------------------------------------
(* collector_loop and prober_loop: a measurement is stored under the time  *)
(* the round began.                                                        *)

Measure(w) ==
  /\ writer[w].at = "idle"
  /\ writer' = [writer EXCEPT ![w] = [at |-> "result", ts |-> now]]
  /\ UNCHANGED <<samples, series, hourly, results, boundary, now, run, ghost, faults>>

\* The prober stores the result of the check before its samples.
InsertResult(w) ==
  /\ writer[w].at = "result"
  /\ results' = results \cup {writer[w].ts}
  /\ writer' = [writer EXCEPT ![w].at = "sample"]
  /\ UNCHANGED <<samples, series, hourly, boundary, now, run, ghost, faults>>

\* Late: its hour is aggregated already, or is being.
InsertSample(w) ==
  /\ writer[w].at = "sample"
  /\ LET ts == writer[w].ts IN
     /\ samples' = [samples EXCEPT ![w] = @ \cup {ts}]
     /\ ghost' = [ghost EXCEPT
          !.ever[w] = @ \cup {ts},
          !.late = IF ts < boundary \/ (run.at = "store" /\ ts < HourOf(run.now))
                   THEN @ \cup {<<w, ts>>} ELSE @]
  /\ writer' = [writer EXCEPT ![w].at = "series"]
  /\ UNCHANGED <<series, hourly, results, boundary, now, run, faults>>

\* Its mutant: the row takes the sample written last.
UpdateSeries_Last(w) ==
  /\ writer[w].at = "series"
  /\ series' = [series EXCEPT ![w] = writer[w].ts]
  /\ writer' = [writer EXCEPT ![w] = Resting]
  /\ UNCHANGED <<samples, hourly, results, boundary, now, run, ghost, faults>>

UpdateSeries(w) ==
  /\ writer[w].at = "series"
  /\ series' = [series EXCEPT ![w] = IF @ > writer[w].ts THEN @ ELSE writer[w].ts]
  /\ writer' = [writer EXCEPT ![w] = Resting]
  /\ ghost' = [ghost EXCEPT !.broken = IF writer[w].ts = Max(samples[w]) THEN @ \ {w} ELSE @]
  /\ UNCHANGED <<samples, hourly, results, boundary, now, run, faults>>

\* A call fails: the loop logs it and goes on with its next round.
Broken(ws) == ghost.broken \cup {w \in ws : writer[w].at = "series"}

WriteFails(w) ==
  /\ writer[w].at # "idle" /\ faults < MaxFaults
  /\ writer' = [writer EXCEPT ![w] = Resting]
  /\ ghost' = [ghost EXCEPT !.broken = Broken({w})]
  /\ faults' = faults + 1
  /\ UNCHANGED <<samples, series, hourly, results, boundary, now, run>>

-----------------------------------------------------------------------------
(* run_once.                                                               *)


\* From the last boundary on; two hours back the first time; never ahead of
\* a clock that was set back.
From(hour) == LET from == IF boundary = Absent THEN hour - 2 * HourLen ELSE boundary
              IN IF from < hour THEN from ELSE hour

\* Its mutant: old data goes first.
Start_PruneFirst ==
  /\ run.at = "idle"
  /\ run' = [at |-> "aggregate", now |-> now, from |-> From(HourOf(now))]
  /\ samples' = [w \in Writers |-> {t \in samples[w] : t >= now - RawKeep}]
  /\ UNCHANGED <<series, hourly, results, boundary, now, writer, ghost, faults>>

Start ==
  /\ run.at = "idle"
  /\ run' = LET from == From(HourOf(now)) IN
            [at |-> IF from < HourOf(now) THEN "aggregate" ELSE "samples",
             now |-> now, from |-> from]
  /\ UNCHANGED <<samples, series, hourly, results, boundary, now, writer, ghost, faults>>

InRange(w, h) == {t \in samples[w] : HourOf(t) = h /\ run.from <= t /\ t < HourOf(run.now)}

\* rollup_range: a row is made or replaced for every hour with samples.
Aggregate ==
  /\ run.at = "aggregate"
  /\ hourly' = [w \in Writers |-> [h \in Time |->
                  IF InRange(w, h) = {} THEN hourly[w][h] ELSE InRange(w, h)]]
  /\ run' = [run EXCEPT !.at = "store"]
  /\ UNCHANGED <<samples, series, results, boundary, now, writer, ghost, faults>>

\* Its mutant: the boundary is the time of the run.
StoreBoundary_Now ==
  /\ run.at = "store"
  /\ boundary' = run.now
  /\ ghost' = [ghost EXCEPT !.first = IF @ = Absent THEN run.from ELSE @]
  /\ run' = [run EXCEPT !.at = "samples"]
  /\ UNCHANGED <<samples, series, hourly, results, now, writer, faults>>

StoreBoundary ==
  /\ run.at = "store"
  /\ boundary' = HourOf(run.now)
  /\ ghost' = [ghost EXCEPT !.first = IF @ = Absent THEN run.from ELSE @]
  /\ run' = [run EXCEPT !.at = "samples"]
  /\ UNCHANGED <<samples, series, hourly, results, now, writer, faults>>

PruneSamples ==
  /\ run.at = "samples"
  /\ samples' = [w \in Writers |-> {t \in samples[w] : t >= run.now - RawKeep}]
  /\ run' = [run EXCEPT !.at = "series"]
  /\ UNCHANGED <<series, hourly, results, boundary, now, writer, ghost, faults>>

PruneSeries ==
  /\ run.at = "series"
  /\ series' = [w \in Writers |-> IF series[w] < run.now - RawKeep THEN Absent ELSE series[w]]
  /\ run' = [run EXCEPT !.at = "hourly"]
  /\ UNCHANGED <<samples, hourly, results, boundary, now, writer, ghost, faults>>

PruneHourly ==
  /\ run.at = "hourly"
  /\ hourly' = [w \in Writers |-> [h \in Time |->
                  IF h < run.now - HourlyKeep THEN {} ELSE hourly[w][h]]]
  /\ ghost' = [ghost EXCEPT !.aged = Max({@, run.now - HourlyKeep})]
  /\ run' = [run EXCEPT !.at = "results"]
  /\ UNCHANGED <<samples, series, results, boundary, now, writer, faults>>

\* Its mutant: results go with the aggregates.
ResultKeep_Hourly == HourlyKeep

\* result_days.
ResultKeep == Max({HourlyKeep, Strip}) + Day

\* Sessions and subscriptions are pruned next; they are other modules'.
PruneResults ==
  /\ run.at = "results"
  /\ results' = {t \in results : t >= run.now - ResultKeep}
  /\ run' = NoRun
  /\ UNCHANGED <<samples, series, hourly, boundary, now, writer, ghost, faults>>

\* A call fails and the run ends; the next one is an hour away.
RunFails ==
  /\ run.at # "idle" /\ faults < MaxFaults
  /\ run' = NoRun
  /\ faults' = faults + 1
  /\ UNCHANGED <<samples, series, hourly, results, boundary, now, writer, ghost>>

-----------------------------------------------------------------------------

Crash ==
  /\ faults < MaxFaults
  /\ writer' = [w \in Writers |-> Resting] /\ run' = NoRun
  /\ ghost' = [ghost EXCEPT !.broken = Broken(Writers)]
  /\ faults' = faults + 1
  /\ UNCHANGED <<samples, series, hourly, results, boundary, now>>

\* Nothing under way lasts longer than MaxDelay.
Tick ==
  /\ now < MaxTime /\ now' = now + 1
  /\ \A w \in Writers : writer[w].at # "idle" => now' - writer[w].ts <= MaxDelay
  /\ run.at # "idle" => now' - run.now <= MaxDelay
  /\ UNCHANGED <<samples, series, hourly, results, boundary, writer, run, ghost, faults>>

ClockSetBack ==
  /\ faults < MaxFaults /\ now > 2 * HourLen /\ now' = now - 1
  /\ faults' = faults + 1
  /\ UNCHANGED <<samples, series, hourly, results, boundary, writer, run, ghost>>

Next ==
  \/ \E w \in Writers : \/ Measure(w) \/ InsertResult(w) \/ InsertSample(w)
                        \/ UpdateSeries(w) \/ WriteFails(w)
  \/ Start \/ Aggregate \/ StoreBoundary
  \/ PruneSamples \/ PruneSeries \/ PruneHourly \/ PruneResults
  \/ RunFails \/ Crash \/ Tick \/ ClockSetBack

Spec == Init /\ [][Next]_vars

-----------------------------------------------------------------------------
(* Properties.                                                             *)

OnTime(w) == {t \in ghost.ever[w] : <<w, t>> \notin ghost.late}

TypeOK ==
  /\ samples \in [Writers -> SUBSET Time] /\ results \subseteq Time
  /\ series \in [Writers -> Time \cup {Absent}]
  /\ boundary \in Time \cup {Absent} /\ (boundary # Absent => boundary % HourLen = 0)
  /\ now \in Time
  /\ writer \in [Writers -> [at : {"idle", "result", "sample", "series"}, ts : Time]]
  /\ run \in [at : {"idle", "aggregate", "store", "samples", "series", "hourly", "results"},
              now : Time, from : Time]
  /\ \A w \in Writers, h \in Time : hourly[w][h] \subseteq {t \in ghost.ever[w] : HourOf(t) = h}

\* run_once: "a restart or a long gap is caught up without losing or double
\* counting rows", for samples stored before their hour was aggregated: each
\* is in its hour's aggregate or still to be aggregated, until it ages out.
NothingLost ==
  \A w \in Writers, t \in Time :
    (t \in OnTime(w) /\ (ghost.first # Absent => t >= ghost.first) /\ HourOf(t) >= ghost.aged) =>
      t \in (IF t < boundary THEN hourly[w][HourOf(t)] ELSE samples[w])

\* The comment at insert_samples: last_ts "is the newest sample of the
\* series, not the last written", however runs, clocks and writers meet;
\* only a write cut off between its two statements leaves it behind.
SeriesNewest ==
  \A w \in Writers \ ghost.broken : writer[w].at # "series" =>
    /\ samples[w] # {} => series[w] = Max(samples[w])
    /\ (series[w] # Absent /\ samples[w] = {}) => (run.at # "idle" \/ faults > 0)

\* The status page's days are whole whatever the retention: no result of
\* them is pruned (result_days).
StripWhole == [][\A t \in results \ results' : t < now - Strip]_vars

\* run_once, the same comment, for every sample: "without losing or double
\* counting rows".  A sample stored after its hour was aggregated never
\* enters the aggregate.
AggregateWhole ==
  \A w \in Writers : \A t \in samples[w] :
    (ghost.first # Absent /\ ghost.first <= t /\ t < boundary) => t \in hourly[w][HourOf(t)]
===============================================================================
