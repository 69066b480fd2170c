-------------------------------- MODULE MCApart --------------------------------
(* The parts of the program that share no state with one another in what is  *)
(* checked of them here: TLC takes each alone, while the others rest in      *)
(* their initial state.  `part` says which.                                  *)
EXTENDS MCRules, Sequences

CONSTANTS Off, NoTime

VARIABLES
  part,
  check, machine, history, base, second, alerted, alertAt,              \* CheckLife
  inbox, offset, bot, open, opened, choice, poll, tried, answered, leaves,
  breaks, moves,                                                         \* TelegramPoll
  samples, series, hourly, results, boundary, hour, writer, run, ghost, losses,  \* Rollup
  probeNow, probed, applied, last, firstRun, slots, step, tickNow, due, listing,
  truth, pings, verdict, held, watched, probeReloads, changes, probeFaults,      \* Prober
  loginNow, failures, login, sessions, drawn, left, tries,               \* Sessions
  sumNow, sumCfg, sumStep, until, date, lastSummary, sumSent, disturbed,
  sumReloads, sumFaults,                                                 \* Summary
  clock, counters, moved, prev, rate, containers, used, lastCpu, cpu, at, netAt,
  cpuAt, upsets                                                          \* Collector

Life == INSTANCE CheckLife
  WITH now <- second, sent <- alerted, MaxResults <- 6, MaxTime <- 6, MaxGap <- 2,
       CheckSet <- [failuresToOpen : 0 .. 3, successesToResolve : 0 .. 3, reminderInterval : {0, 3}]

\* One bot and two chats, so that commands of one may come between the other's.
Bot == INSTANCE TelegramPoll
  WITH cfg <- bot, left <- leaves, faults <- breaks, reloads <- moves, used <- opened,
       Bots <- {"b"}, Chats <- {"c", "d"}, Links <- {"l", "m"},
       MaxUpdates <- 3, MaxFaults <- 1, MaxReloads <- 0, MaxLeaves <- 1

\* Hours of two ticks: time for four of them, and retention within that.
Roll == INSTANCE Rollup
  WITH now <- hour, faults <- losses, Writers <- {"w"}, HourLen <- 2, RawKeep <- 3,
       HourlyKeep <- 3, Strip <- 4, Day <- 1, MaxDelay <- 1, MaxTime <- 8, MaxFaults <- 1

\* The two kinds of source, in which things change as they are asked.
Sources == INSTANCE Prober
  WITH now <- probeNow, cfg <- probed, reloads <- probeReloads, faults <- probeFaults,
       Containers <- {"web"}, Units <- {"cron"}, Heartbeats <- {}, Interval <- 1, Allowed <- 1,
       MaxTime <- 1, MaxReloads <- 1, MaxChanges <- 1, MaxFaults <- 2,
       CallsFail <- FALSE, ReadsFail <- FALSE

\* The same two, of which some cannot be asked about, or are half answered.
Failing == INSTANCE Prober
  WITH now <- probeNow, cfg <- probed, reloads <- probeReloads, faults <- probeFaults,
       Containers <- {"web"}, Units <- {"cron"}, Heartbeats <- {}, Interval <- 1, Allowed <- 1,
       MaxTime <- 1, MaxReloads <- 0, MaxChanges <- 1, MaxFaults <- 1,
       CallsFail <- TRUE, ReadsFail <- FALSE

\* A heartbeat that is removed and added back.
Pings == INSTANCE Prober
  WITH now <- probeNow, cfg <- probed, reloads <- probeReloads, faults <- probeFaults,
       Containers <- {}, Units <- {}, Heartbeats <- {"backup"}, Interval <- 1, Allowed <- 2,
       MaxTime <- 6, MaxReloads <- 3, MaxChanges <- 2, MaxFaults <- 1,
       CallsFail <- FALSE, ReadsFail <- FALSE

\* Two addresses, of which one is swept while the other fails.
Logins == INSTANCE Sessions
  WITH now <- loginNow, Ips <- {"home", "work"}, Requests <- {"r", "s"}, Tokens <- {"t"},
       MaxFailures <- 2, Window <- 2, SweepAt <- 2, Lifetime <- 2, MaxTime <- 3

\* Days of seven slots.
Sum == INSTANCE Summary
  WITH now <- sumNow, cfg <- sumCfg, step <- sumStep, sent <- sumSent, reloads <- sumReloads,
       faults <- sumFaults, Never <- NoTime, SlotsPerDay <- 7, Times <- {0, 2}, Zones <- {0},
       MaxLate <- 1, MaxTime <- 22, MaxReloads <- 2, MaxFaults <- 1

Host == INSTANCE Collector
  WITH Interfaces <- {"eth0", "eth1"}, Physical <- {"eth0", "eth1"}, Ids <- {}, Names <- {},
       MaxClock <- 4, MaxUpsets <- 3

\* Two containers that take turns at one name.
Docker == INSTANCE Collector
  WITH Interfaces <- {}, Physical <- {}, Ids <- {"c1", "c2"}, Names <- {"web"},
       MaxClock <- 3, MaxUpsets <- 3

ASSUME ApartAssumption ==
  /\ Life!CheckLifeAssumption /\ Bot!TelegramAssumption /\ Roll!RollupAssumption
  /\ Sources!ProberAssumption /\ Failing!ProberAssumption /\ Pings!ProberAssumption
  /\ Sum!SummaryAssumption /\ Logins!SessionAssumption /\ Host!CollectorAssumption /\ Docker!CollectorAssumption

life == <<check, machine, history, base, second, alerted, alertAt>>

telegram == <<inbox, offset, bot, open, opened, choice, poll, tried, answered, leaves, breaks, moves>>

rollup == <<samples, series, hourly, results, boundary, hour, writer, run, ghost, losses>>

prober == <<probeNow, probed, applied, last, firstRun, slots, step, tickNow, due, listing, truth,
            pings, verdict, held, watched, probeReloads, changes, probeFaults>>

logins == <<loginNow, failures, login, sessions, drawn, left, tries>>

summary == <<sumNow, sumCfg, sumStep, until, date, lastSummary, sumSent, disturbed, sumReloads, sumFaults>>

collector == <<clock, counters, moved, prev, rate, containers, used, lastCpu, cpu, at, netAt, cpuAt, upsets>>

vars == <<part, input, life, telegram, rollup, prober, logins, summary, collector>>

\* Those that rest have one initial state.
Init ==
  /\ part \in {"rules", "life", "bot", "rollup", "sources", "failing", "pings", "logins", "summary",
               "host", "docker"}
  /\ IF part = "rules" THEN RulesInit ELSE input = [what |-> "nothing"]
  /\ Life!Init /\ (part # "life" => check = [failuresToOpen |-> 1, successesToResolve |-> 1,
                                             reminderInterval |-> 0])
  /\ Bot!Init /\ (part # "bot" => bot = Off)
  /\ Roll!Init
  /\ IF part \in {"sources", "failing"} THEN Sources!Init
     ELSE Pings!Init /\ (part # "pings" => probed.checks = {})
  /\ Logins!Init
  /\ Sum!Init /\ (part # "summary" => sumCfg = [time |-> NoTime, zone |-> 0])
  /\ IF part = "docker" THEN Docker!Init ELSE Host!Init

\* All parts but one rest.
Only(name) ==
  /\ part = name
  /\ UNCHANGED <<part, input>>
  /\ name # "life" => UNCHANGED life
  /\ name # "bot" => UNCHANGED telegram
  /\ name # "rollup" => UNCHANGED rollup
  /\ name \notin {"sources", "failing", "pings"} => UNCHANGED prober
  /\ name # "logins" => UNCHANGED logins
  /\ name # "summary" => UNCHANGED summary
  /\ name \notin {"host", "docker"} => UNCHANGED collector

Next ==
  \/ Only("life") /\ Life!Next
  \/ Only("bot") /\ Bot!Next
  \/ Only("rollup") /\ Roll!Next
  \/ Only("sources") /\ Sources!Next
  \/ Only("failing") /\ Failing!Next
  \/ Only("pings") /\ Pings!Next
  \/ Only("logins") /\ Logins!Next
  \/ Only("summary") /\ Sum!Next
  \/ Only("host") /\ Host!Next
  \/ Only("docker") /\ Docker!Next

Spec == Init /\ [][Next]_vars

-----------------------------------------------------------------------------
(* Properties.                                                             *)

\* Every part keeps its types, and what its handlers rely on between two
\* steps.
TypesHold ==
  /\ part = "life" => Life!TypeOK
  /\ part = "bot" => Bot!TypeOK
  /\ part = "rollup" => Roll!TypeOK
  /\ part = "pings" => Pings!TypeOK
  /\ part = "logins" => Logins!TypeOK
  /\ part = "host" => Host!TypeOK

\* The counters of on_result give the verdict of the whole stream of results,
\* however they flap and whatever restarts or is resolved by hand.
VerdictMatchesHistory == part = "life" => Life!VerdictMatchesHistory

\* A reminder goes out exactly when its interval has passed since the last
\* alert (on_result).
RemindersOnTime == Life!RemindersOnTime

\* The polling task implements CommandLog: commands take effect in order and
\* at most once, though updates are handled again after a crash (poll_once).
InOrderOnce == Bot!InOrderOnce

\* A sample stored in time is in its hour's aggregate or still to be
\* aggregated until it ages out, and a chart's series ends at its newest
\* sample (run_once, insert_samples).
NothingLost == part = "rollup" => Roll!NothingLost /\ Roll!SeriesNewest

\* Pruning takes nothing that is still shown or in use: no result of the
\* strip's days, no session that is valid (run_once, result_days,
\* prune_sessions).
PruningSpares == Roll!StripWhole /\ Logins!SessionKept

\* What is recorded of a container, a unit or an interface was true of it:
\* verdicts are on a state it had since the tick began (evaluate), and up only
\* for one that ran, whichever calls fail (containers); rates and CPU shares cover what it did between two readings of it (collect,
\* containers).
RecordsAreTrue ==
  /\ part = "sources" => Sources!VerdictIsTrue
  /\ part = "failing" => Failing!UpOnlyIfRunning
  /\ part = "host" => Host!RateIsTrue
  /\ part = "docker" => Docker!CpuIsItsOwn

\* A heartbeat is down only when nothing arrived for longer than allowed,
\* counted from when the loop began to watch it, also when it was removed and
\* added back (probe_heartbeat, forget_removed_checks).
LateOnly == [][part = "pings" => Pings!LateStep]_vars

\* The limiter forgets no failure that counts and lets through at most what
\* was being handled when the limit was reached (LoginLimiter).
LimiterHolds == part = "logins" => Logins!NothingForgotten /\ Logins!FailuresBounded

\* The summary of a day goes out once, and on every day that had one due,
\* over lost writes, restarts and late sleeps (summary_loop).
SummaryOnce == part = "summary" => Sum!SentOnce /\ Sum!EveryDayTold
================================================================================
