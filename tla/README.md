# A TLA+ model of dunlin

dunlin is one process that probes services, files incidents when they fail,
shows a status page, and tells operators and subscribers what happens. This
directory holds TLA+ modules of its core, TLC configurations that check them on
small instances, and proofs that TLAPS checks for every instance. Paths below
are relative to the repository; `alert.rs` is `src/src/alert.rs` here.

Run from this directory: `tlc -config AlertEngineSafety.cfg MCAlertEngine`,
`tlapm AlertEngineProofs.tla`. `PROJECT.json` lists the runs, for each property a
mutant that breaks it, the source lines of every definition, the disagreements
found, and the hazards the properties are aimed at.

## 1. The system

| component | source | state | operations | what makes it correct |
|---|---|---|---|---|
| check machine | `alert.rs` 15-94 | up/down, two counters, last reminder, incident id | `on_result`, `default`, `resumed` | its verdict is what the stream of results says; reminders keep the interval |
| alert engine | `alert.rs` 96-350 | a machine per check, in memory | `bootstrap`, `handle`, `forget_unmonitored` | one automatic incident per component, closed exactly once, none left behind by restarts or reloads |
| prober loop | `app.rs` 236-266, 323-527 | `applied` config, `last`, `first_run`, the connected sources | one tick: reconcile, list the sources, judge what is due | works on one config per tick; retries a failed reconciliation; judges a check by its own target or not at all |
| incidents | `web.rs` 2059-2200, `db.rs` 389-500 | tables `incidents`, `incident_updates` | create, update, resolve on /manage | operators and engine may meet in any order |
| subscriptions | `subscriptions/mod.rs`, `web/subscribe.rs` | tables `subscribers`, `subscriber_components`, `outbox` | sign up, confirm, unsubscribe, `fan_out`, `prune` | nobody unconfirmed gets news; one row per address |
| dispatcher | `subscriptions/dispatch.rs` | a batch of rows, the pacer | `dispatch_due`, `count_failure`, retry, quarantine | no message lost or repeated; every message settles |
| Telegram bot | `subscriptions/telegram.rs` | stored update offset | `poll_once`, `link_chat`, `stop_chat` | a chat has one row; a command is handled once or lost |
| maintenance messages | `subscriptions/mod.rs` 263-378, `web.rs` 2233-2304 | table `maintenance` with three flags | plan, end, `maintenance_tick` | each message once, in a sensible order |
| rollup | `rollup.rs`, `db.rs` 59-251 | `last_rollup`, samples, series, hourly rows, results | `run_once` each hour | nothing counted twice or pruned before it is counted |
| config reload | `app.rs` 38-146, 215-234 | watch channel | coalesce, load, swap, rebuild channels | the last edit is the one in force everywhere |
| config | `config.rs` | - | `parse_duration`, `validate`, `load` | accepts only what the rest can run on |
| summary | `summary.rs`, `app.rs` 547-606 | `last_summary` | once a day after a time | once a day |
| operator notifiers | `notifier.rs` | list of channels | fan out, one retry | one broken channel stops no other |
| sessions, limiter | `web_auth.rs`, `auth.rs`, `web.rs` 1965-2031 | table `sessions`, failures per address | login, logout, limit, prune | no failure forgotten, no valid session pruned |
| status, days | `status.rs`, `days.rs`, `badge.rs`, `sentence.rs`, `web.rs` 377-811 | - | pure functions | every instant in one day; no trouble hidden; figures and words agree |
| probes | `prober.rs` | - | a verdict from what was seen | no cause of failure hidden by the order of the tests |
| collectors | `collector.rs`, `procfs.rs`, `docker.rs`, `systemd.rs` | the last counters per host and container | rates from one reading to the next | a rate is of one thing and of the interval it is divided by |
| email, webhook | `subscriptions/email.rs`, `webhook.rs` | - | rendering, one request | - |
| pages | `web.rs`, `templates.rs`, `theme.rs`, `prometheus.rs`, `templates/` | - | rendering | - |

How they meet: everything is a tokio task over one SQLite pool and one
`watch` channel that carries the running config. The prober loop calls the
engine, which writes incidents and calls `publish_incident`; operators write the
same rows from web handlers; both fan out into the outbox, from which one
dispatcher task sends. There are few transactions: most handlers are a sequence
of single statements, so two tasks interleave between any two of them, and a
failing call or a crash may come between any two. That is what is hard here, and
what the steps of the modules are.

## 2. The modules

**CheckMachine** - `on_result` as operators over a machine record, `Saturate`,
and the mutants of both. No state. **CheckLife** is one machine's life: a
stream of results, an operator who resolves the incident (`StartOver`), restarts
(`Restart`). It keeps the stream beside the machine and compares the counters
with a definition over the stream that has none.

**AlertEngine** - the engine, the prober loop that drives it, operators and
reloads. `incidents` is the table; `machines` the engine's map; `eng` the program
counter of the one task that runs the engine, with what it holds between two
database calls; `op` what each web handler holds; `cfg` and `applied` the config in
the channel and the one reconciled last; `sick` which services fail.
Actions carry the names of the code's steps: `Forget`, `Close`,
`CloseUpdate`, `ClosePublish`, `Retain`, `Reconcile` are `forget_unmonitored`;
`Start`, `Forgotten`, `Resume`, `Serve` are `run` and `bootstrap`; `Tick`, `Skip`,
`Probe`, `Lookup`, `Create`, `FirstUpdate`, `Announce`, `ResolveRow`,
`ResolveUpdate`, `ResolvePublish` are the loop and `handle`; `OpCreate` ...
`OpPublish` are the three handlers. `DbFails`, `PublishFails` and `OpFails` are a
failing call, `Crash` a restart. `told` in a row is not a column: it is what was
queued for subscribers.

Abstractions: a config is its checks and which components mirror them, in order;
it also carries a generation, since the loop compares pointers. Counters are capped at their thresholds;
`SaturationExact` proves that this loses nothing. `created_at` orders incidents
by id: ties within a second are not modelled. Operator notifications are not:
they are sent with no answer that the engine uses.

**Subscriptions** - tables, form and chat sign-ups, publishing and the
dispatcher. A round reads its batch in `Poll` and works from what it read;
`Send` is the network call, `RecordSent`, `ClearFailures`, `RemoveGone`,
`CountFailure`, `Quarantine` and `RecordFailure` its single statements.
`sign_up`, `link_chat`, `fan_out` are transactions and so one step. Times are ages
(of a link, a failure window, a quarantine) that `Tick` moves up to the largest
value anything compares, so no bound on the clock is needed. Rows carry what
happened outside the tables (`tried`, `arrived`, `unheard`, `refused`, `inHand`,
`streak`) for the properties only. The abstract channel answers with `ok`, `busy`
(retry), `limited` (429), `broken` (counted), `refused` (permanent), `gone`. `busy`
and `broken` also stand for no answer: `SEND_LIMIT` ran out (dispatch.rs 429-435), a
client timed out or lost the connection (webhook.rs 445-448, email.rs 246-249,
telegram.rs 83-95). The service may have taken such a send: `ArrivesLate` is that
it did, at once or any time later.
Not modelled: channels and subscriptions switched off, two sign-ups of one
address in one second (their tokens would be equal), dropping sent messages
after 30 days.

**Outbox** is the abstract specification of what subscribers are promised: people
who join, confirm, are held and leave, and messages that are accepted, arrive and
are settled, with no queue of a round, no retries and no clock. The refinement
mapping reads it off the tables: `People` is the status of each row, `Mail` what is
left to see of each message, `cuts` the rounds cut short, `lost` the sends that arrived
although they ended in an error. A deleted message keeps its place, is no news any
more and is not followed: what a round that read it before still sends of it, or what
was on its way, is in neither module. Sign-up, link, publishing, deletion and
the send and its late arrival each are one step of it; `Poll`, counting failures, clearing and
postponing change nothing it sees.

**Maintenance** - windows planned and ended by operators, and the dispatcher's
`maintenance_tick`. Handler and tick take the time once; claim and messages
are one transaction, so `TellStarted` and `TellOver` are one step per window.

**TelegramPoll** - the polling task: a round (`GetUpdates`, then `Answer` and
`StoreOffset` for each update) from an offset kept per bot, rounds that end in an
error or a crash, answers that fail, and beside them sign-ups on the page, links
that expire, people who leave on the page and configs that switch the bot. It
implements **CommandLog**, the abstract specification of what the bot promises:
the commands of chats take effect in the order they were sent, each at most
once. The mapping takes as done what was answered or passed. Left out: replies.

**Rollup** - `insert_samples`, `run_once` with a step per statement, and the loops
that call them. A sample is its time and an aggregate the set of samples it was
made of, so that nothing but the arithmetic of averages is abstracted. `ghost`
remembers what was ever stored and what came too late.

**ConfigReload** - a file, the watcher's thread, `coalesce_reloads`,
`apply_reload`, and the two loops that rebuild channels. A content loads, is
invalid, or makes `parse_duration` panic. **ConfigRules** is what such a file must
satisfy: `parse_duration` by its parts, `validate` over the references, thresholds,
channels and required fields, and what `load` reports.

**Probes** - the verdict of each kind of probe from what was seen. **Prober** - one
tick of `prober_loop` after another with each await a step: sources that connect
or not, the two listings, and the outcome recorded for each due check, while
containers change, heartbeats arrive and the config is swapped. `held` and
`watched` are history: the states a target had during the tick, and since when
the loop has known a check. A listing may be half answered: a container that cannot be
inspected is what the list of all says of it (`Summary`), one without statistics or a
unit that cannot be asked is missing (`Answer`). AlertEngine has the same loop for what it does to
incidents; here it is what it records.

**Collector** - `collector_loop`: host counters with `samples_from_readings`, and
Docker's listing with `cpu_percent` against the counters kept per container id.
`moved` and `used` are what really happened, which the program cannot see.

**Notifiers** - `MultiNotifier::send` with a future per channel and
`post_json_retry_once`; seconds are counted per request, not on a clock.

**Summary** - `summary_loop` and `should_send` in slots of the loop's sleep.

**Sessions** - `LoginLimiter`, the login handler in its two critical sections, and
the session table. The limiter of the sign-up form is of the same kind.

**Days** and **Status** - the calendar in a zone, given as the sequence of its
offsets, and what the status page makes of the results, incidents and windows it has
read. A read that fails is to the code one that found nothing (`unwrap_or_default`,
`ok().flatten()`: web.rs 375-389, 582-589), so the page may then show "operational"
over trouble; `PageTrue` speaks of the rows that were read.

`MC*` modules give TLC its values and, for modules of functions (MCProbes,
MCConfigRules, MCDays, MCStatus), the inputs and the reference definitions they
are held against. **MCRules** puts these four together: one initial state per
input. **MCApart** takes the parts that share no state in what is checked
of them: `part` names the one that moves, the others rest in one initial
state, so the state space is the sum of the parts' and not their product, and one
run answers for all. **MCServices** does the same for the parts with liveness;
resting parts have nothing to do, so the fairness of all of them can be
assumed at once.

The theorems and their proofs are in modules of their own: **CheckMachineProofs**
and **CheckLifeProofs**; **AlertEngineProofs**; **SubscriptionsProofs**, with the refinement of Outbox;
**MaintenanceProofs**; **TelegramPollProofs**, with the refinement of CommandLog;
**RollupProofs**; and **TasksProofs** for Notifiers, ConfigReload, Prober,
Summary, Collector and Sessions.

## 3. What the runs show

| run | bounds | result |
|---|---|---|
| `engine_safety` | two checks, two configs, one operator, 2 reloads, 1 crash, 1 failing call, 1 request (two of these in all), 2 turns of a service | types; one open automatic incident per component; no automatic incident on an unmonitored component after reconciling; machine down iff it tracks an incident; closed once; told in order |
| `engine_live` | one check that moves between two components or leaves | recovered and unmonitored components end without an automatic incident, failing checks end with an incident |
| `engine_restart` | one component, one manual incident, one crash | **violated**: see below |
| `subscriptions_form` | one address, 2 sign-ups, 2 events, 1 cut, 1 answer lost, batch of 2, 2 attempts, quarantine at 3 | nobody unconfirmed has news; no message lost, or repeated but for the cut and the lost answer; quarantine deserved; it implements Outbox; the queue drains |
| `subscriptions_chat` | one chat, several links, two choices and two kinds of event | one row per address; the queue drains |
| `subscriptions_quarantine`, `subscriptions_signup` | as the form, with no cut and no answer lost | **violated** |
| `maintenance` | one window, two operators, one cut, one toggle | each message once; the end comes last; what started is completed; what is over is noticed |
| `maintenance_cancel` | one planned window, two operators | **violated** |
| `apart` | see the next table | the parts of MCApart |
| `services` | two bots, 2 messages each, 1 fault, 2 switches; 3 saves; two sends to two channels and 1 reload of them | every update of the bot in use handled; the last valid save in force; every send returns; nothing skipped, shown twice or waited for too long on the way |
| `reload_panics` | two saves, one of which panics | **violated** |

What `apart` takes in turn, and the properties that speak of it (each of them
holds of the other parts for want of anything to say):

| part | bounds | properties |
|---|---|---|
| `life` (CheckLife) | thresholds 0-3, 6 results, gaps up to 2 s, reminders 0 or 3 s | `VerdictMatchesHistory`: the verdict is what the stream says; `RemindersOnTime` |
| `bot` (TelegramPoll) | one bot, two chats, two links, 3 messages, 1 fault, 1 leaves | `InOrderOnce`: implements CommandLog |
| `rollup` | hours of 2 ticks, 8 ticks, retention of 3, one failing call, crash or clock set back | `NothingLost`: every sample stored in time is in its hour's aggregate, once, until it ages out, and `last_ts` is the newest sample's; `PruningSpares`: no result of the strip's days is pruned |
| `sources` (Prober) | a container and a unit, 2 ticks, 1 reload, 1 change, 2 faults | `RecordsAreTrue`: an outcome is the verdict on a state the target had since the tick began |
| `failing` (Prober) | the same, no reload, 1 fault, which may be a call for one target | `RecordsAreTrue`: up is only what ran during the tick, whichever calls fail |
| `pings` (Prober) | a heartbeat, 6 ticks, allowed 2, 3 reloads, 1 fault | `LateOnly` |
| `logins` (Sessions) | two addresses, two logins at a time, limit 2 in a window of 2, sweep at 2 | `LimiterHolds`, `PruningSpares`: no valid session is pruned |
| `summary` | days of 7 slots, 3 of them, late by 1, 2 reloads, 1 fault | `SummaryOnce`: every day one, but for the failing calls after it was sent |
| `host`, `docker` (Collector) | two interfaces that come and go; two containers that take turns at a name; 3 upsets | `RecordsAreTrue`: a rate or a CPU share is of one interval and of the thing itself |
| `rules` (MCRules) | some 170,000 inputs | `ProbesJudge`, `ConfigHolds`, `CalendarHolds`, `PageTrue`, `WordsAgree` |

`TypesHold` and `ServicesHold` are the type invariants of these parts, the
latter with what no task may do on its way.

Why the bounds are enough for what is asked: two checks on one component are
what lookup, attach and close can confuse; two reloads are one that leaves and
one that returns, with a failure between; one crash and one failing call reach
every step, since they may come at each. `MaxUpsets` caps reloads, crashes, failing
calls and requests together at two: any two of them meet, no three do. In Subscriptions, `MaxAttempts <
QuarantineFailures` as in the code (8 < 10), so that a quarantine takes several
messages; a batch of two is the smallest in which an earlier row changes what a
later one was read from. One answer lost may be any send's, known at once, on the
next attempt or when the row is settled, and with the cut a message arrives up to
three times. In Maintenance the flags are per window and windows
share nothing but the order of a read, so one window shows every interleaving
of its own steps; two operators are the planner and the one who ends it.
In TelegramPoll three messages are a sign-up, a stop and one that a repeated
update could disturb. In Rollup eight ticks are four hours of the model, so that an
hour is measured, aggregated and aged out, with a run missed between; a range
that is repeated after a fault covers a boundary that was stored before. In
Sessions the second address is what a sweep for the first could forget. Summary's
three days are one before, one disturbed and one after. The zones of MCDays are one
for each way a clock has moved: forward and back by day, over midnight, from
midnight, and by a whole date.

Every property has a mutant, an operator beside the original that
changes it the way a plausible slip would: `X_Y` is the mutant `Y` of `X`.
`PROJECT.json` names one for each property; where a property has several
conjuncts, the other mutants beside the definitions break the other ones:
for instance `ResultKeep_Hourly`, `CpuPercent_SinceBoot` and `Failed_Empty` under
`apart`, `Posting_Alone`, `StartOf_Shared` and `ClampWait_Unbounded` under `services`.

### Counterexamples

Ten configurations are no runs of `PROJECT.json`: each takes one module alone,
shows one disagreement and ends in a counterexample (below).

### Deadlock and fairness

Deadlock is checked except in `engine_live`, where a config without checks leaves
nothing to do but wait for a reload, and in `apart`, `services` and `reload_panics`,
where the bounds on time, messages and saves end the runs. `AlertEngine` assumes weak
fairness of the engine's own steps, of empty ticks, and of every handler that has
started: tokio runs a ready task, and calls return. Each check that stays in
the config is due again and again (`SF` on ticks that include it) and its source
answers again and again (`SF` on `Probe`; `Skip` is the other outcome). Reloads,
requests, failing calls and crashes are bounded and never required.
`Subscriptions` assumes the dispatcher runs and time passes; a round lasts
at most `MaxLag`. `Maintenance` assumes the same and that handlers end.
`TelegramPoll` assumes weak fairness of the round's three steps (the task loops,
its calls return); `ConfigReload` of the start of the threads and tasks, of
`Receive` and `Reload` (a burst of finitely many saves ends) and of the loops;
`Notifiers` that each request ends, since every client has a timeout.

### Disagreements between code and docs

Runs:

1. `engine_restart` - `bootstrap` takes over the *newest* open incident of a
   component. With a manual incident filed beside an automatic one, a restart
   attaches the machine to the manual one and the automatic one stays open for good.
2. `subscriptions_quarantine` - the round that quarantines a subscriber sends
   the rest of its batch to it ("nothing more is sent").
3. `subscriptions_signup` - a sign-up between the two statements of
   `count_failure` is quarantined at once, with no failures on its count.
4. `maintenance_cancel` - `scheduled_sent` is read before the claim, so a
   cancellation can be swallowed while "scheduled" goes out.
5. `reload_panics` - a duration that does not fit makes `parse_duration` panic, which
   ends the task that reloads: the corrected file never comes into force.

Counterexamples of one module, each by `tlc -config X.cfg M`:

| configuration | module | property | what happens |
|---|---|---|---|
| `TelegramTwice` | TelegramPoll | `HandledOnce` | a crash between an answer and its offset has the update answered twice (telegram.rs:521 "so a restart does not handle a message twice"); its effect is not repeated |
| `RollupLate` | Rollup | `AggregateWhole` | a sample stored after its hour was aggregated never enters the aggregate (rollup.rs:18 "without losing or double counting rows") |
| `ReloadStartup` | ConfigReload | `SaveInForce` | a save between the first load and the start of the watcher is not reloaded |
| `ProberCallFails` | Prober | `VerdictIsTrue` | a container without statistics is judged as missing (app.rs:466-468), one that cannot be inspected by the listing alone, so that an unhealthy one is up (docker.rs:161, 173-178) |
| `ProberReadFails` | Prober | `LateOnly` | a last ping that cannot be read counts as none (prober.rs:231) |
| `SummaryZone` | Summary | `NeverTwice` | a zone moved west over midnight has yesterday's summary sent again (summary.rs:26-27) |
| `SummaryLate` | Summary | `EveryDayTold` | with 23:59 the one minute of the day may pass between two looks (dunlin.example.toml:77) |
| `ConfigReport` | MCConfigRules | `EveryProblemReported` | problems of three kinds are reported in as many runs (README.md:82-83) |
| `StatusBars` | MCStatus | `BarsShowOpen` | an incident open since before the strip colours no bar (web.rs:743-744) |
| `CollectorPhysical` | Collector | `PhysicalOnly` | bridges and tunnels are summed with the hardware (procfs.rs:128) |

Other behaviour the models showed, that no doc rules out: a failed resolve leaves
an incident that nothing tracks until a restart; a reload between `bootstrap` and
the prober's first look is never reconciled (`EarlyReload`); a crash between
creating an incident and marking it quiet tells subscribers about a muted one; the
engine attaches to an operator's open incident and resolves it on recovery; an
operator may resolve between the engine's test and its own resolve, so two
resolutions are told; an update posted to a resolved incident leaves `resolved_at`
set; two mirrors reordered across a restart leave an incident behind; a check
moved while its machine holds a manual incident files nothing on its new
component; a window that ends in the second it started in was "started" and is
never "completed"; an answer of the bot that fails is given up, so a /stop can be
lost; a crash after the summary went out sends it again; a subscriber gets a message
again when the answer to it was lost or late, and may get one that is already given up
(dispatch.rs 429-435). The properties say under
which condition they hold, and these are the reasons.

## 4. What is proved

All theorems hold for every value of the constants that satisfies the named
assumptions of the modules: any checks, addresses, windows, operators, bots, limits
and bounds. `TypeOK` comes first in each module, since a step's proof needs the types.
Where a property holds only while nothing fails (`used.faults = 0`, `used.cuts = 0`,
`used.requests = 0`), the condition is part of the property the runs check, and section
3 says what happens otherwise.

### The engine (CheckMachineProofs, CheckLifeProofs, AlertEngineProofs)

- `SaturationExact`: capping both counters commutes with `on_result`, for any
  thresholds. It justifies the finite engine model.
- `VerdictAlwaysMatches` and `RemindersAlwaysOnTime`, from `CheckLifeAssumption`: what
  CheckLife promises of one machine, for streams of any length. `LifeInv` says what the
  counters are: the failures counted are the run of failures the stream ends in, and
  while the check is down the passes counted are its run of passes (`EndsIn`,
  `RunLength`). One more result can only end the outage of the
  stream or begin one (`OutageAfter`).
- `TypeCorrect`: `[]TypeOK`. TypeOK is inductive; each action has a lemma.
  The table only grows and rows keep their shape (`RowsKept`), so ids held by
  machines, handlers and the engine stay valid.
- `OneOpenAutoAlways`: not inductive alone, since `Create` runs a step after `Lookup`.
  `AboutToCreate` says that between the two no automatic incident is open on the
  component; it is preserved because only the engine opens automatic incidents
  (`OnlyCreateOpens`) and operators can only close them (`AutoKept`).
- `ReconciledMonitoredAlways`, assuming `EarlyReload = FALSE` (otherwise it does not
  hold, see section 3). `MonitoredInv` adds: generations only grow
  (`Generations`); what a start or a reconciliation has not yet closed is among its
  victims (`Booting`, `VictimsLeft`), nothing is left at its end (`Cleared`); the
  checks still due belong to the tick's config (`DueInConfig`).
- `DownTracksAlways`: between the results a check is down iff it holds an
  incident. `TracksInv` adds the exception, the check whose incident is being opened
  by the four calls of `handle` in between.
- `ClosedOnceAlways`, `ToldInOrderAlways`: from one invariant over the table,
  `HistoryInv`. For each row and the call the engine is making about it, `Timely` bounds
  how often its timeline says "resolved" and `Announced` says exactly what
  subscribers have heard. Neither holds without `VictimsOpen`: what is on the list of
  `forget_unmonitored` is still open when its turn comes.

### Subscriptions (SubscriptionsProofs)

From `SubscriptionsAssumption`. `Invariance` is the inductive invariant of

- `TypesHold`: `[]TypeOK`, with no message outliving its subscriber;
- `NoNewsForPending`: `[]PendingHoldsNoNews`;
- `OneRowEach`: `[]OneRowPerAddress`;
- `OnceEach`: `[]EachMessageOnce`.

Its parts: `UnlinkedInv`, a chat not known yet has confirmed nothing and was sent
nothing, so that a link may give it an address; `UniqueInv`; `BatchInv`, what a
round still holds of a row that may have been changed or deleted since it was read;
`MessageInv`, which relates the tries, the arrivals and the attempts of a message
to where the round is with it, and allows one more for each round that was cut
short and each send that was taken although it ended in an error.

`ImplementsOutbox`: Subscriptions implements Outbox, `Spec => EachSettledOnce`, from the
same invariant. What it adds to `OnceEach` is about steps: a message that was settled or
withdrawn is neither sent nor queued again, with rounds cut short too, and what
arrives of it later is a send that had ended in an error (`unheard`); a sign-up and a deletion withdraw in one step all that waits; `fan_out` accepts an
event once for each subscriber (`InOrder` lists a set without repetition). `StepImplements`
takes the actions one by one. `RecordSent` can only settle what arrived, by
`MessageInv` for the message at hand. `Send` can only deliver what is queued or gone
although it looks at neither: `BatchInv` says that nothing else settles what the
round still holds. When somebody pending signs up again only confirmations wait,
by `PendingHoldsNoNews`, so that withdrawing those is enough; a chat that takes over
another row leaves no message behind, by `UnlinkedInv`. Nothing is said of messages of
a row that is deleted: what the round still sends of one is a stutter.

`AddressInv` and `CountInv` (`CountInvariance`) are added for
the action property `QuarantineDeserved` (`DeservedAlways`), with no round cut short.
`failure_count` and `failure_window_start` say less than the streak of failures;
`RowCount` says how much they do say of it, and `Deserves` what remains true of a row
between the two updates of `count_failure`, when a sign-up, a deletion or a
confirmation may come in: the row is gone, or signed up anew and not confirmable, or
still has its full streak. Not confirmable takes `Untold` and `Unreached`: no round has
sent the new link and none of its sends failed, so a lost answer cannot bring it
either before the dispatcher sends again (`BoxQuiet`).

### Maintenance (MaintenanceProofs)

From `MaintenanceAssumption`: `TypesHold`, `ToldOnce` (`[]EachToldOnce`), `EndLast`
(`[]EndComesLast`) and `CompletionTold` (`[]StartedIsCompleted`), all from
`Invariance`. `WindowInv` ties the three flags to what was told of the window and
orders it; `PublishInv` says that a window has one planner at most; `RowInv`, that what
a tick read of a row can differ from the row only by an end moved forward and a
"scheduled" claimed since; `SettingInv`, that without a reload the tick works with the
setting in force.

### The Telegram bot (TelegramPollProofs)

From `TelegramAssumption`: `TypesHold` and `NothingSkippedEver` (`[]NothingSkipped`: the
stored offset of no bot passes an update nobody looked at). `OffsetInv` says what
was tried and answered up to the offset, `RoundInv` that a round holds consecutive
updates from it on, `LinkInv` that an answered link is used up.

`ImplementsCommandLog`: with one bot (`OneBot`), TelegramPoll implements CommandLog,
`Spec => InOrderOnce`. An answer that takes effect maps to the step of the log;
one that is repeated after a crash maps to a stutter, which takes `LinkInv` for a
link and `StopInv` for a /stop. With two bots in turn the commands of
one interleave with the other's and the log does not promise an order.

### Rollup and retention (RollupProofs)

From `RollupAssumption`: the raw retention is an hour at least (`validate` asks
for a day), the delay of a write and what the clock is set back together stay
below it, and the clock is set back by a day at most. All from `Invariance`:

- `NothingIsLost` (`[]NothingLost` of Rollup) and `StripIsWhole` (`StripWhole`),
  which `apart` checks as the first halves of its `NothingLost` and
  `PruningSpares`.
- `SeriesEndsNewest` (`[]SeriesNewest`), which `apart` checks in `NothingLost` too.

None of the three is inductive. `ClockInv` bounds the age of what is under way by
the clock and what it was set back. `RangeInv` says that a run aggregates from
the boundary on, and prunes samples only when the boundary has reached its hour.
`StoreInv`: what the boundary is about to pass is in the aggregates already.
`SeriesInv` follows a series row through the two statements of an insert and of a
pruning: it is never ahead of the samples but by what aged out, so the next
sample stored is again the newest.

### The tasks beside the engine (TasksProofs)

- `ShownAtMostOnce` and `WaitIsBounded` (with `SendsAreTyped`), from `NotifierAssumption`.
  `FutureIs` says of one future what it has spent where it is: nothing before its
  first request, a request and a wait before its second, so that another request fits
  and none follows one that may have been shown.
- `BuiltIsRunningAlways` (with `ReloadIsTyped`), from `ReloadAssumption`. It is not
  inductive: a loop has seen a version before it has built it, and one that has
  not run yet starts from the first config. `LoopIs` says what a loop works from,
  building or not.
- `VerdictIsAlwaysTrue` and `DownOnlyWhenLate` (with `ProbesAreTyped`), from
  `ProberAssumption`, for any targets, intervals and reloads. `ListingIs`: what the
  tick still holds of a listing was true of the target since the tick began; `TimesIs`:
  the loop's first look at a check is not before it began to watch it. The first
  assumes that calls for single targets answer (`~CallsFail`), the second that the
  last ping can be read (`~ReadsFail`). The code does not promise either: without
  them the properties fail, as `ProberCallFails` and `ProberReadFails` show (section
  3). What is left of the first with failing calls, `UpOnlyIfRunning`, is
  model-checked.
- `EveryDayIsTold`, from `SummaryAssumption` and `EnoughTime`: between each configured time
  and midnight there is room for every fault and for a last late look, and zones are a
  day apart at most. The code does not see to the former: without it `SummaryLate` shows
  a day with no summary. `ToldInv` is a deadline that moves: while today's is to come the
  loop looks by `LatestAt`, which each fault puts off by a late send, a late sleep and
  a slot.
- `SentOnceAlways`, from `SummaryAssumption` and `OneZone`, which allows a day one
  more message for each failing call and each process that ended before the day was
  stored: the config may change its time
  but not its zone, since a zone moved west repeats a date (`SummaryZone`). `OftenInv`: a
  date to come has nothing yet, and today's, when neither the day stored nor the one
  being sent is today, has room for one more.
- `CpuIsAlwaysItsOwn`, from `CollectorAssumption`. `KeptCounters`: the counters kept of an
  id are those of its last reading, and its counter now is ahead of them by no more
  than it used since, also after a restart or under a second container of that id.
- `SessionsAreKept`, from `SessionAssumption`, rests on tokens being drawn once: what was
  logged out was drawn and is not in the table (`SessionInv`).

### Only model-checked

- Liveness (`RecoveredCloses`, `FailingIsFiled`, `UnmonitoredCloses`, `MessagesSettle`,
  `OverIsNoticed`, `NobodyWaitsForEver`, `LastSaveInForce`) and ENABLED are
  out of the prover's reach.
- What functions compute for every input (`ProbesJudge`, `ConfigHolds`, `CalendarHolds`,
  `PageTrue`, `WordsAgree`): the definitions they are held against are sums, folds and
  recursions over data, and induction over data is out of reach too.
- `LimiterHolds` (Sessions) counts in sequences filtered by `SelectSeq`, and `RateIsTrue`
  (Collector, in `RecordsAreTrue`) adds up the counters of the interfaces: both are
  recursions over data.

## 5. Plan

Done: a module for every component that keeps state or decides something; every
safety property of the engine, the subscriptions, the maintenance messages,
the bot, the rollup, the notifiers, the reload, the prober, the summary, the CPU
shares and the sessions as a theorem; the refinements of CommandLog and of Outbox,
step by step.

Next, in this order:

1. An abstract specification of an incident ("open, then closed") that AlertEngine
   implements.
2. Prober and AlertEngine in one run, so that an outcome recorded from a stale
   listing is followed to the incident it files.

## 6. Not modelled

- Email and webhook channels: building one message and one request. What a send can
  end in (delivered, busy, limited, broken, refused, gone) is an input of
  Subscriptions; connection reuse and address checks have no state that
  outlives the send.
- Pages, feeds, search, theme and metrics: rendering of rows that Status works
  out; the wording of messages and sentences. Of the sentence its claims are in
  Status.
- The HTTP layer, decoding of forms and cookies, password hashing; access to
  /manage.
- Network and file I/O itself: a probe's or collector's answer is an input. Parsing
  of /proc, memory, load and disk figures are functions of one reading.
- Parsing of TOML, addresses, zone names and templates: libraries. What
  `validate` asks of them is an input of ConfigRules.
- Migration, `check-config` and the other commands run once and alone.

Integer widths do not matter to the properties: timestamps are 64-bit seconds and
counters would need years of failing results. The one width that does, a
duration that does not fit, is in ConfigRules and `reload_panics`.
