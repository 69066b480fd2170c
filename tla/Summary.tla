------------------------------- MODULE Summary -------------------------------
(***************************************************************************)
(* The daily summary (summary_loop in src/src/app.rs, should_send in       *)
(* src/src/summary.rs): a loop that sleeps a minute, asks whether today's  *)
(* is due and not sent, sends it and stores the day it was for.            *)
(*                                                                         *)
(* Time passes in slots of the loop's sleep, SlotsPerDay of them in a day; *)
(* a local day is the slots shifted by the zone of the config.  A sleep    *)
(* and a send may each take up to MaxLate slots longer.                    *)
(***************************************************************************)
EXTENDS Integers

CONSTANTS SlotsPerDay,   \* slots in a local day
          Times,         \* times of day a config sets, in slots
          Zones,         \* offsets of the zones a config sets, in slots
          MaxLate,       \* how late a sleep ends, and how long a send takes
          MaxTime,       \* bound: the clock
          MaxReloads,    \* bound: config reloads
          MaxFaults,     \* bound: restarts and failing calls
          Never          \* no day

\* What the constants are; the module that gives them values assumes it.
SummaryAssumption ==
  /\ SlotsPerDay \in Nat \ {0} /\ {MaxLate, MaxTime, MaxReloads, MaxFaults} \subseteq Nat
  /\ Times \subseteq 0 .. SlotsPerDay - 1
  /\ Zones \subseteq (1 - SlotsPerDay) .. SlotsPerDay - 1
  /\ Never \notin Int

VARIABLES
  now,         \* slots since some midnight UTC
  cfg,         \* the config: the summary's time or none, and the zone
  step,        \* summary_loop: asleep, sending or storing
  until,       \* when its sleep ends, or since when it sends
  date,        \* the day it is sending for
  lastSummary, \* meta "last_summary"
  sent,        \* history: the summaries sent for each day
  disturbed,   \* history: days on which the config was changed or off
  reloads, faults

vars == <<now, cfg, step, until, date, lastSummary, sent, disturbed, reloads, faults>>

Day(t) == (t + cfg.zone) \div SlotsPerDay

TimeOfDay(t) == (t + cfg.zone) % SlotsPerDay

Configs == [time : Times \cup {Never}, zone : Zones]

\* Days the bounds can reach, in any zone.
Days == -1 .. (MaxTime \div SlotsPerDay) + 1

Init ==
  /\ now = 0
  /\ cfg \in Configs
  /\ step = "asleep" /\ until = 1 /\ date = Never
  /\ lastSummary = Never
  /\ sent = [d \in Days |-> 0]
  /\ disturbed = {Day(0)}
  /\ reloads = 0 /\ faults = 0

\* Time passes, unless the loop is overdue.
ClockMoves ==
  /\ now < MaxTime /\ now < until + MaxLate
  /\ now' = now + 1
  /\ disturbed' = IF cfg.time = Never THEN disturbed \cup {Day(now')} ELSE disturbed
  /\ UNCHANGED <<cfg, step, until, date, lastSummary, sent, reloads, faults>>

Reload ==
  /\ reloads < MaxReloads
  /\ reloads' = reloads + 1
  /\ cfg' \in Configs \ {cfg}
  /\ now' = now
  /\ disturbed' = disturbed \cup {Day(now), Day(now)'}
  /\ UNCHANGED <<step, until, date, lastSummary, sent, faults>>

\* Asleep for a slot from now.
Sleep ==
  /\ step' = "asleep" /\ until' = now + 1 /\ date' = Never

\* Its mutant: the day of the last summary is not looked at.
ShouldSend_Again(last) == TimeOfDay(now) >= cfg.time

\* should_send: today is due and not the day last sent.
ShouldSend(last) == last # Day(now) /\ TimeOfDay(now) >= cfg.time

\* The loop wakes: the config may have no summary, and a meta that cannot be
\* read counts as none.
Wake ==
  /\ step = "asleep" /\ now >= until
  /\ \E read \in BOOLEAN :
       /\ read \/ (faults < MaxFaults /\ lastSummary # Never)
       /\ faults' = IF read THEN faults ELSE faults + 1
       /\ IF cfg.time # Never /\ ShouldSend(IF read THEN lastSummary ELSE Never)
          THEN step' = "sending" /\ until' = now /\ date' = Day(now)
          ELSE Sleep
  /\ UNCHANGED <<now, cfg, lastSummary, sent, disturbed, reloads>>

\* build_summary and the notifiers' send.
Send ==
  /\ step = "sending"
  /\ sent' = [sent EXCEPT ![date] = @ + 1]
  /\ step' = "storing"
  /\ UNCHANGED <<now, cfg, until, date, lastSummary, disturbed, reloads, faults>>

\* Its mutant: the day on which the send ended is stored.
StoredDay_Now == Day(now)

\* What set_meta is given.
StoredDay == date

\* set_meta, whose failure is ignored.
Store ==
  /\ step = "storing"
  /\ \/ lastSummary' = StoredDay /\ UNCHANGED faults
     \/ /\ faults < MaxFaults /\ faults' = faults + 1
        /\ UNCHANGED lastSummary
  /\ Sleep
  /\ UNCHANGED <<now, cfg, sent, disturbed, reloads>>

\* The process ends anywhere and starts again; the loop begins with a sleep.
Restart ==
  /\ faults < MaxFaults /\ faults' = faults + 1
  /\ Sleep
  /\ UNCHANGED <<now, cfg, lastSummary, sent, disturbed, reloads>>

Next == ClockMoves \/ Reload \/ Wake \/ Send \/ Store \/ Restart

Spec == Init /\ [][Next]_vars

-----------------------------------------------------------------------------
(* Properties. *)

\* should_send over restarts, lost writes and reloads: the summary of a day
\* is sent once, and again only for a call that failed or a process that
\* ended before its day was stored.
SentOnce == \A d \in Days : sent[d] <= 1 + faults

\* A day that passed under a config with a summary has had its own, or is
\* having it ("sent once a day", dunlin.example.toml:77), also when the one
\* of the day before was still being sent, was late, or the process started
\* after the time.
EveryDayTold ==
  \A d \in Days : (d < Day(now) /\ d > Day(0) /\ d \notin disturbed) =>
    sent[d] >= 1 \/ date = d

\* "None when it is not yet due or was already sent that day" (the comment
\* at summary.rs:27), taken without any failing call: no day is sent twice.
NeverTwice == faults = 0 => \A d \in Days : sent[d] <= 1
===============================================================================
