----------------------------- MODULE AlertEngine -----------------------------
(***************************************************************************)
(* The alert engine and the incidents it shares with operators.            *)
(*                                                                         *)
(* One process: prober_loop (src/src/app.rs) feeds results, one at a time, *)
(* to AlertEngine (src/src/alert.rs), while web handlers (src/src/web.rs)  *)
(* create, update and resolve the same incidents and the config watcher    *)
(* swaps the config.  Each database call is a step of its own, since the   *)
(* other tasks run at every await and any call can fail; memory is lost in *)
(* a crash and rebuilt by bootstrap, the database is not.                  *)
(*                                                                         *)
(* A config shape is [checks, mirror]: the ids of its checks, and the      *)
(* components that mirror a check as a sequence of [id, check], in file    *)
(* order.  Reminders are sent on every failure (reminder_interval 0), the  *)
(* time they need is the subject of CheckLife.                             *)
(***************************************************************************)
EXTENDS CheckMachine, Sequences, FiniteSets

CONSTANTS Checks, Components,   \* ids; a check's id can be a component's
          Shapes,               \* the config files an operator may write
          Settings,             \* thresholds of every check
          Operators,            \* concurrent requests of operators
          ManualOn,             \* components operators file incidents under
          Muting,               \* may results fall in a maintenance window?
          EarlyReload,          \* may a reload land before prober_loop starts?
          NoCheck,              \* no check is being handled
          MaxIncidents, MaxReloads, MaxCrashes, MaxFaults, MaxRequests,
          MaxFlips,             \* bounds on each kind of upset
          MaxUpsets             \* bound on all of them but flips together

Shape == [checks : SUBSET Checks, mirror : Seq([id : Components, check : Checks])]

ASSUME EngineAssumption ==
  /\ Checks \subseteq Components
  /\ Shapes \subseteq Shape /\ Shapes # {}
  /\ \A s \in Shapes : \A k \in DOMAIN s.mirror : s.mirror[k].check \in s.checks
  /\ Settings \in Check
  /\ ManualOn \subseteq Components
  /\ Muting \subseteq BOOLEAN /\ EarlyReload \in BOOLEAN
  /\ NoCheck \notin Checks
  /\ MaxIncidents \in Nat /\ MaxReloads \in Nat /\ MaxCrashes \in Nat
  /\ MaxFaults \in Nat /\ MaxRequests \in Nat /\ MaxFlips \in Nat /\ MaxUpsets \in Nat

VARIABLES incidents, \* table incidents: a row per id, oldest first
          cfg,       \* the config in the watch channel
          applied,   \* prober_loop: the config last reconciled
          eng,       \* prober_loop and the engine: where they are
          machines,  \* AlertEngine::machines; an absent one is the default
          op,        \* the web handler each operator request runs
          sick,      \* the checks whose targets fail at present
          used       \* how much of each bound is used

vars == <<incidents, cfg, applied, eng, machines, op, sick, used>>

Ids == 1..MaxIncidents
Config == [gen : Nat, shape : Shapes]
Phase == {"ongoing", "resolved"}

(* A row: resolved_at is NULL (open), state, auto, quiet, the states of its *)
(* timeline entries and the messages queued for subscribers.                *)
Incident == [component : Components, auto : BOOLEAN, open : BOOLEAN,
             state : Phase, quiet : BOOLEAN, timeline : Seq(Phase),
             told : Seq({"opened", "updated", "resolved"})]

-----------------------------------------------------------------------------
(* Config::incident_component and the components a config still monitors.  *)

MirrorOf(s, c) == {k \in DOMAIN s.mirror : s.mirror[k].check = c}

IncidentComponent(s, c) ==
  IF MirrorOf(s, c) = {} THEN c
  ELSE s.mirror[CHOOSE k \in MirrorOf(s, c) : \A j \in MirrorOf(s, c) : k <= j].id

Monitored(s) ==
  {IncidentComponent(s, c) : c \in s.checks} \cup {s.mirror[k].id : k \in DOMAIN s.mirror}

-----------------------------------------------------------------------------
(* The incidents table.                                                    *)

OpenOn(k) == {i \in DOMAIN incidents : incidents[i].open /\ incidents[i].component = k}

Newest(S) == CHOOSE i \in S : \A j \in S : j <= i

NewIncident(k, auto) ==
  [component |-> k, auto |-> auto, open |-> TRUE, state |-> "ongoing",
   quiet |-> FALSE, timeline |-> <<>>, told |-> <<>>]

CreateIncident(k, auto) ==
  /\ Len(incidents) < MaxIncidents
  /\ incidents' = Append(incidents, NewIncident(k, auto))

AddUpdate(id, p) ==
  incidents' = [incidents EXCEPT ![id].timeline = Append(@, p)]

ResolveIncident(id) ==
  incidents' = [incidents EXCEPT ![id].open = FALSE, ![id].state = "resolved"]

SetIncidentState(id, p) == incidents' = [incidents EXCEPT ![id].state = p]

MarkQuiet(id) == incidents' = [incidents EXCEPT ![id].quiet = TRUE]

\* subscriptions::publish_incident: reads quiet, then queues in a transaction.
PublishIncident(id, change) ==
  incidents' = IF incidents[id].quiet THEN incidents
               ELSE [incidents EXCEPT ![id].told = Append(@, change)]

-----------------------------------------------------------------------------
(* The engine's position.  "boot" steps run before the server listens.     *)

Steps == {"down", "forget", "close", "closeUpdate", "closePublish", "resume",
          "starting", "idle", "probe", "lookup", "create", "firstUpdate",
          "announce", "resolve", "resolveUpdate", "resolvePublish"}

\* The calls of handle().
HandleSteps == {"lookup", "create", "firstUpdate", "announce",
                "resolve", "resolveUpdate", "resolvePublish"}

\* The calls forget_unmonitored makes for an incident after closing it.
ForgetSteps == {"closeUpdate", "closePublish"}

Engine == [at : Steps, phase : {"boot", "tick"},
           tick : Config,                 \* the config this pass works from
           todo : SUBSET Checks,          \* checks due, or left to resume
           check : Checks \cup {NoCheck}, \* the check handle() is about
           muted : BOOLEAN, id : Nat,
           victims : SUBSET Ids, closed : SUBSET Ids]  \* of forget_unmonitored

At(step, phase, tick, todo) ==
  [at |-> step, phase |-> phase, tick |-> tick, todo |-> todo, check |-> NoCheck,
   muted |-> FALSE, id |-> NoId, victims |-> {}, closed |-> {}]

Go(step) == eng' = [eng EXCEPT !.at = step]

\* handle() returned, with or without an error: the next due check is probed.
NextCheck == eng' = At("probe", "tick", eng.tick, eng.todo \ {eng.check})

Component == IncidentComponent(eng.tick.shape, eng.check)

Fresh == [c \in Checks |-> DefaultMachine]

Request == [at : {"idle", "update", "set", "publish"},
            kind : {"none", "create", "update", "resolve"}, id : Nat, to : Phase]

IdleOp == [at |-> "idle", kind |-> "none", id |-> NoId, to |-> "ongoing"]

Spend(what) == used' = [used EXCEPT ![what] = @ + 1]

Bounds == [reloads |-> MaxReloads, crashes |-> MaxCrashes, faults |-> MaxFaults,
           requests |-> MaxRequests, flips |-> MaxFlips]

Left(what) ==
  /\ used[what] < Bounds[what]
  /\ what # "flips" =>
       used.reloads + used.crashes + used.faults + used.requests < MaxUpsets

Init ==
  /\ incidents = <<>>
  /\ \E s \in Shapes : cfg = [gen |-> 0, shape |-> s]
  /\ applied = cfg
  /\ eng = At("forget", "boot", cfg, {})
  /\ machines = Fresh
  /\ op = [o \in Operators |-> IdleOp]
  /\ sick \in SUBSET Checks
  /\ used = [b \in DOMAIN Bounds |-> 0]

-----------------------------------------------------------------------------
(* forget_unmonitored: at startup on the loaded config, later on a swap.   *)

Unmonitored(s) ==
  {i \in DOMAIN incidents : /\ incidents[i].open
                            /\ incidents[i].auto
                            /\ incidents[i].component \notin Monitored(s)}

Forget ==
  /\ eng.at = "forget"
  /\ eng' = [eng EXCEPT !.at = "close", !.victims = Unmonitored(eng.tick.shape)]
  /\ UNCHANGED <<incidents, cfg, applied, machines, op, sick, used>>

Close ==
  /\ eng.at = "close" /\ eng.victims # {}
  /\ ResolveIncident(Newest(eng.victims))
  /\ eng' = [eng EXCEPT !.at = "closeUpdate", !.id = Newest(eng.victims)]
  /\ UNCHANGED <<cfg, applied, machines, op, sick, used>>

CloseUpdate ==
  /\ eng.at = "closeUpdate"
  /\ AddUpdate(eng.id, "resolved")
  /\ Go("closePublish")
  /\ UNCHANGED <<cfg, applied, machines, op, sick, used>>

Closed == eng' = [eng EXCEPT !.at = "close", !.id = NoId,
                             !.victims = @ \ {eng.id}, !.closed = @ \cup {eng.id}]

\* Its mutant: subscribers are not told that the incident was closed.
ClosePublish_Silent ==
  /\ eng.at = "closePublish"
  /\ Closed
  /\ UNCHANGED <<incidents, cfg, applied, machines, op, sick, used>>

ClosePublish ==
  /\ eng.at = "closePublish"
  /\ PublishIncident(eng.id, "resolved")
  /\ Closed
  /\ UNCHANGED <<cfg, applied, machines, op, sick, used>>

\* Machines of removed checks, and those still on an incident closed here, go.
Retain ==
  machines' = [c \in Checks |->
                 IF c \in eng.tick.shape.checks /\ machines[c].incident \notin eng.closed
                 THEN machines[c] ELSE DefaultMachine]

Reconcile ==
  /\ eng.at = "close" /\ eng.victims = {} /\ eng.phase = "tick"
  /\ Retain
  /\ applied' = eng.tick
  /\ eng' = At("probe", "tick", eng.tick, eng.todo)
  /\ UNCHANGED <<incidents, cfg, op, sick, used>>

-----------------------------------------------------------------------------
(* Startup: run() and AlertEngine::bootstrap.                              *)

\* A supervisor starts the process on the config file as it is by then.
Start ==
  /\ eng.at = "down"
  /\ \E s \in Shapes :
       \/ s = cfg.shape /\ UNCHANGED <<cfg, used>>
       \/ /\ s # cfg.shape /\ Left("reloads") /\ Spend("reloads")
          /\ cfg' = [gen |-> cfg.gen + 1, shape |-> s]
  /\ applied' = cfg'
  /\ eng' = At("forget", "boot", cfg', {})
  /\ UNCHANGED <<incidents, machines, op, sick>>

Forgotten ==
  /\ eng.at = "close" /\ eng.victims = {} /\ eng.phase = "boot"
  /\ Retain
  /\ eng' = At("resume", "boot", eng.tick, eng.tick.shape.checks)
  /\ UNCHANGED <<incidents, cfg, applied, op, sick, used>>

Resume(c) ==
  /\ eng.at = "resume" /\ c \in eng.todo
  /\ LET open == OpenOn(IncidentComponent(eng.tick.shape, c))
     IN machines' = IF open = {} THEN machines
                    ELSE [machines EXCEPT ![c] = Resumed(Newest(open))]
  /\ eng' = [eng EXCEPT !.todo = @ \ {c}]
  /\ UNCHANGED <<incidents, cfg, applied, op, sick, used>>

\* The watcher, the loops and the server are started.
Serve ==
  /\ eng.at = "resume" /\ eng.todo = {}
  /\ eng' = At("starting", "tick", eng.tick, {})
  /\ UNCHANGED <<incidents, cfg, applied, machines, op, sick, used>>

\* prober_loop runs for the first time and reads the config it starts from.
EnterProber ==
  /\ eng.at = "starting"
  /\ applied' = cfg
  /\ eng' = At("idle", "tick", cfg, {})
  /\ UNCHANGED <<incidents, cfg, machines, op, sick, used>>

-----------------------------------------------------------------------------
(* prober_loop: one pass over the checks that are due, on one config.      *)

\* Its mutant: a reload takes effect without reconciling.
Tick_NoReconcile(due) ==
  /\ eng.at = "idle"
  /\ due \subseteq cfg.shape.checks
  /\ due # {} \/ cfg.gen # applied.gen
  /\ eng' = At("probe", "tick", cfg, due)
  /\ applied' = cfg
  /\ UNCHANGED <<incidents, cfg, machines, op, sick, used>>

\* Its mutant: the loop keeps the config it started with.
Tick_StartupConfig(due) ==
  /\ eng.at = "idle"
  /\ due \subseteq applied.shape.checks /\ due # {}
  /\ eng' = At("probe", "tick", applied, due)
  /\ UNCHANGED <<incidents, cfg, applied, machines, op, sick, used>>

Tick(due) ==
  /\ eng.at = "idle"
  /\ due \subseteq cfg.shape.checks
  /\ due # {} \/ cfg.gen # applied.gen
  /\ eng' = At(IF cfg.gen # applied.gen THEN "forget" ELSE "probe", "tick", cfg, due)
  /\ UNCHANGED <<incidents, cfg, applied, machines, op, sick, used>>

\* No data from the check's source, or handle() cannot read its incident.
Skip(c) ==
  /\ eng.at = "probe" /\ c \in eng.todo
  /\ eng' = [eng EXCEPT !.todo = @ \ {c}]
  /\ UNCHANGED <<incidents, cfg, applied, machines, op, sick, used>>

EndTick ==
  /\ eng.at = "probe" /\ eng.todo = {}
  /\ eng' = At("idle", "tick", applied, {})
  /\ UNCHANGED <<incidents, cfg, applied, machines, op, sick, used>>

-----------------------------------------------------------------------------
(* handle(): the machine first, then the transition it wants, call by call. *)

\* Mutant of Current: an incident closed by somebody else is not noticed.
Current_NoClosedCheck(c) == machines[c]

\* The machine handle() works on: a new one when its incident was closed.
Current(c) ==
  LET id == machines[c].incident
  IN IF id # NoId /\ ~incidents[id].open THEN DefaultMachine ELSE machines[c]

\* The next call, by transition; a reminder only notifies operators.
StepFor == [nothing |-> "probe", remind |-> "probe", open |-> "lookup", resolve |-> "resolve"]

Probe(c) ==
  /\ eng.at = "probe" /\ c \in eng.todo
  /\ LET r == OnResult(Current(c), Settings, c \notin sick, 0)
     IN /\ machines' = [machines EXCEPT ![c] = Saturate(r.m, Settings)]
        /\ IF StepFor[r.t.kind] = "probe"
           THEN eng' = [eng EXCEPT !.todo = @ \ {c}]
           ELSE \E m \in Muting :  \* read by the opening calls only
                  eng' = [eng EXCEPT !.at = StepFor[r.t.kind], !.check = c, !.id = r.t.id,
                                     !.muted = m /\ r.t = Open]
  /\ UNCHANGED <<incidents, cfg, applied, op, sick, used>>

\* Mutants of Attach: the machine gets the id of the next row, or none.
Attach_OffByOne(id) == machines' = [machines EXCEPT ![eng.check].incident = id + 1]
Attach_Nothing(id) == UNCHANGED machines

Attach(id) == machines' = [machines EXCEPT ![eng.check].incident = id]

\* Its mutant: a check that goes down always opens an incident of its own.
Lookup_AlwaysCreates ==
  /\ eng.at = "lookup"
  /\ Go("create") /\ UNCHANGED machines
  /\ UNCHANGED <<incidents, cfg, applied, op, sick, used>>

Lookup ==
  /\ eng.at = "lookup"
  /\ IF OpenOn(Component) # {}
     THEN Attach(Newest(OpenOn(Component))) /\ NextCheck
     ELSE Go("create") /\ UNCHANGED machines
  /\ UNCHANGED <<incidents, cfg, applied, op, sick, used>>

Create ==
  /\ eng.at = "create"
  /\ CreateIncident(Component, TRUE)
  /\ eng' = [eng EXCEPT !.at = "firstUpdate", !.id = Len(incidents')]
  /\ UNCHANGED <<cfg, applied, machines, op, sick, used>>

FirstUpdate ==
  /\ eng.at = "firstUpdate"
  /\ AddUpdate(eng.id, "ongoing")
  /\ Go("announce")
  /\ UNCHANGED <<cfg, applied, machines, op, sick, used>>

\* Its mutant: an incident opened in a window is not kept from subscribers.
Announce_Unmuted ==
  /\ eng.at = "announce"
  /\ IF eng.muted THEN UNCHANGED incidents ELSE PublishIncident(eng.id, "opened")
  /\ Attach(eng.id)
  /\ NextCheck
  /\ UNCHANGED <<cfg, applied, op, sick, used>>

Announce ==
  /\ eng.at = "announce"
  /\ IF eng.muted THEN MarkQuiet(eng.id) ELSE PublishIncident(eng.id, "opened")
  /\ Attach(eng.id)
  /\ NextCheck
  /\ UNCHANGED <<cfg, applied, op, sick, used>>

ResolveRow ==
  /\ eng.at = "resolve"
  /\ ResolveIncident(eng.id)
  /\ Go("resolveUpdate")
  /\ UNCHANGED <<cfg, applied, machines, op, sick, used>>

ResolveUpdate ==
  /\ eng.at = "resolveUpdate"
  /\ AddUpdate(eng.id, "resolved")
  /\ Go("resolvePublish")
  /\ UNCHANGED <<cfg, applied, machines, op, sick, used>>

ResolvePublish ==
  /\ eng.at = "resolvePublish"
  /\ PublishIncident(eng.id, "resolved")
  /\ NextCheck
  /\ UNCHANGED <<cfg, applied, machines, op, sick, used>>

-----------------------------------------------------------------------------
(* Operators on /manage: create_incident, add_update, resolve_incident.    *)

Serving == eng.phase = "tick"

OpCreate(o, k) ==
  /\ Serving /\ op[o].at = "idle" /\ Left("requests") /\ Spend("requests")
  /\ CreateIncident(k, FALSE)
  /\ op' = [op EXCEPT ![o] = [at |-> "update", kind |-> "create",
                              id |-> Len(incidents'), to |-> "ongoing"]]
  /\ UNCHANGED <<cfg, applied, eng, machines, sick>>

OpUpdate(o, id, to) ==
  /\ Serving /\ op[o].at = "idle" /\ Left("requests") /\ Spend("requests")
  /\ AddUpdate(id, to)
  /\ op' = [op EXCEPT ![o] = [at |-> "set", kind |-> "update", id |-> id, to |-> to]]
  /\ UNCHANGED <<cfg, applied, eng, machines, sick>>

OpResolve(o, id) ==
  /\ Serving /\ op[o].at = "idle" /\ Left("requests") /\ Spend("requests")
  /\ ResolveIncident(id)
  /\ op' = [op EXCEPT ![o] = [at |-> "update", kind |-> "resolve", id |-> id, to |-> "resolved"]]
  /\ UNCHANGED <<cfg, applied, eng, machines, sick>>

OpEntry(o) ==
  /\ op[o].at = "update"
  /\ AddUpdate(op[o].id, op[o].to)
  /\ op' = [op EXCEPT ![o].at = "publish"]
  /\ UNCHANGED <<cfg, applied, eng, machines, sick, used>>

OpSet(o) ==
  /\ op[o].at = "set"
  /\ IF op[o].to = "resolved" THEN ResolveIncident(op[o].id)
     ELSE SetIncidentState(op[o].id, op[o].to)
  /\ op' = [op EXCEPT ![o].at = "publish"]
  /\ UNCHANGED <<cfg, applied, eng, machines, sick, used>>

\* The change a handler announces: create opens, change_for maps the others.
Change(r) == IF r.kind = "create" THEN "opened"
             ELSE IF r.to = "resolved" THEN "resolved" ELSE "updated"

OpPublish(o) ==
  /\ op[o].at = "publish"
  /\ PublishIncident(op[o].id, Change(op[o]))
  /\ op' = [op EXCEPT ![o] = IdleOp]
  /\ UNCHANGED <<cfg, applied, eng, machines, sick, used>>

-----------------------------------------------------------------------------
(* Failing calls, crashes, reloads, and the targets of the checks.         *)

\* publish_incident logs an error and returns; every other call passes it up.
Publishing == \/ eng.at \in {"closePublish", "resolvePublish"}
              \/ eng.at = "announce" /\ ~eng.muted

\* Mutant of DbFails: a swap whose reconciliation failed is not tried again.
DbFails_NoRetry ==
  /\ Left("faults") /\ Spend("faults")
  /\ eng.phase = "tick"
  /\ eng.at \in {"forget", "close", "closeUpdate"}
  /\ eng' = At("probe", "tick", eng.tick, eng.todo)
  /\ applied' = eng.tick
  /\ UNCHANGED <<incidents, cfg, machines, op, sick>>

\* An error ends handle(), leaves a swap to be reconciled by the next tick,
\* or, during bootstrap, ends the process before it serves.
DbFails ==
  /\ Left("faults") /\ Spend("faults")
  /\ ~Publishing
  /\ \/ /\ eng.at \in HandleSteps
        /\ NextCheck
        /\ UNCHANGED machines
     \/ /\ eng.phase = "tick"
        /\ eng.at \in {"forget", "close", "closeUpdate"}
        /\ eng.at = "close" => eng.victims # {}
        /\ eng' = At("probe", "tick", eng.tick, eng.todo)
        /\ UNCHANGED machines
     \/ /\ eng.phase = "boot" /\ eng.at # "down"
        /\ eng.at = "close" => eng.victims # {}
        /\ eng.at = "resume" => eng.todo # {}
        /\ eng' = At("down", "boot", cfg, {})
        /\ machines' = Fresh
  /\ UNCHANGED <<incidents, cfg, applied, op, sick>>

PublishFails ==
  /\ Left("faults") /\ Spend("faults")
  /\ Publishing
  /\ \/ eng.at = "closePublish" /\ Closed /\ UNCHANGED machines
     \/ eng.at = "resolvePublish" /\ NextCheck /\ UNCHANGED machines
     \/ eng.at = "announce" /\ Attach(eng.id) /\ NextCheck
  /\ UNCHANGED <<incidents, cfg, applied, op, sick>>

\* A handler answers with an error page and does not go on.
OpFails(o) ==
  /\ Left("faults") /\ Spend("faults")
  /\ op[o].at # "idle"
  /\ op' = [op EXCEPT ![o] = IdleOp]
  /\ UNCHANGED <<incidents, cfg, applied, eng, machines, sick>>

Crash ==
  /\ Left("crashes") /\ Spend("crashes")
  /\ eng.at # "down"
  /\ eng' = At("down", "boot", cfg, {})
  /\ machines' = Fresh
  /\ op' = [o \in Operators |-> IdleOp]
  /\ UNCHANGED <<incidents, cfg, applied, sick>>

\* apply_reload puts a new Arc<Config> in the watch channel.
Reload(s) ==
  /\ Left("reloads") /\ Spend("reloads")
  /\ Serving
  /\ eng.at = "starting" => EarlyReload
  /\ cfg' = [gen |-> cfg.gen + 1, shape |-> s]
  /\ UNCHANGED <<incidents, applied, eng, machines, op, sick>>

\* A probed target fails or recovers.
Flip(c) ==
  /\ Left("flips") /\ Spend("flips")
  /\ sick' = IF c \in sick THEN sick \ {c} ELSE sick \cup {c}
  /\ UNCHANGED <<incidents, cfg, applied, eng, machines, op>>

-----------------------------------------------------------------------------
EngineStep ==
  \/ Start \/ Forget \/ Close \/ CloseUpdate \/ ClosePublish \/ Reconcile
  \/ Forgotten \/ (\E c \in Checks : Resume(c)) \/ Serve \/ EnterProber
  \/ EndTick \/ Lookup \/ Create \/ FirstUpdate \/ Announce
  \/ ResolveRow \/ ResolveUpdate \/ ResolvePublish

OpRequest(o) ==
  \/ \E k \in ManualOn : OpCreate(o, k)
  \/ \E id \in DOMAIN incidents :
       OpResolve(o, id) \/ (\E to \in Phase : OpUpdate(o, id, to))

OpStep(o) == OpEntry(o) \/ OpSet(o) \/ OpPublish(o)

Environment ==
  \/ DbFails \/ PublishFails \/ Crash
  \/ \E s \in Shapes : Reload(s)
  \/ \E c \in Checks : Flip(c)
  \/ \E o \in Operators : OpFails(o)

Next ==
  \/ EngineStep
  \/ \E due \in SUBSET Checks : Tick(due)
  \/ \E c \in Checks : Probe(c) \/ Skip(c)
  \/ \E o \in Operators : OpRequest(o) \/ OpStep(o)
  \/ Environment

Spec == Init /\ [][Next]_vars

(* The tasks run, a supervisor restarts the process, requests are carried  *)
(* through; a check in the config is due again and again, and its source   *)
(* answers again and again.  Nothing else is promised.                     *)
Fairness ==
  /\ WF_vars(EngineStep)
  /\ WF_vars(Tick({}))
  /\ \A c \in Checks : /\ SF_vars(\E due \in SUBSET Checks : c \in due /\ Tick(due))
                       /\ SF_vars(Probe(c))
  /\ \A o \in Operators : WF_vars(OpStep(o))

FairSpec == Spec /\ Fairness

-----------------------------------------------------------------------------
(* Properties                                                              *)

RowsOK == incidents \in Seq(Incident) /\ Len(incidents) <= MaxIncidents

ConfigOK == cfg \in Config /\ applied \in Config

EngineOK ==
  /\ eng \in Engine /\ eng.id <= Len(incidents)
  /\ eng.victims \cup eng.closed \subseteq DOMAIN incidents
  /\ eng.at \in HandleSteps => eng.check \in Checks
  /\ eng.at \in ForgetSteps => eng.id \in eng.victims

MachinesOK ==
  /\ machines \in [Checks -> Machine]
  /\ \A c \in Checks : machines[c].incident <= Len(incidents)

OpsOK ==
  /\ op \in [Operators -> Request]
  /\ \A o \in Operators : op[o].id <= Len(incidents)

\* Every variable has its type, and every id the engine, a machine or a web
\* handler keeps between two database calls names a row of the table.
TypeOK ==
  /\ RowsOK /\ ConfigOK /\ EngineOK /\ MachinesOK /\ OpsOK
  /\ sick \subseteq Checks
  /\ used \in [DOMAIN Bounds -> Nat]

OpenAuto(i) == incidents[i].open /\ incidents[i].auto

\* handle() and bootstrap never leave two automatic incidents open on one
\* component, whatever operators, reloads, failing calls and crashes come
\* between active_incident_for and create_incident.
OneOpenAuto ==
  \A i, j \in DOMAIN incidents :
    OpenAuto(i) /\ OpenAuto(j) /\ incidents[i].component = incidents[j].component => i = j

\* Once prober_loop has reconciled the config it runs on, no automatic
\* incident is open on a component no check reports to, even after swaps
\* that failed half-way or came during a tick.
ReconciledMonitored ==
  eng.phase = "tick" /\ eng.at # "starting" /\ applied.gen = cfg.gen
    => \A i \in DOMAIN incidents : OpenAuto(i) => incidents[i].component \in Monitored(cfg.shape)

\* Between results, a check is down exactly when its machine has an incident
\* to remind about and to resolve, unless a call of handle() failed.
DownTracks ==
  used.faults = 0 /\ eng.at \in {"idle", "probe"} =>
    \A c \in Checks : machines[c].state = "down" <=> machines[c].incident # NoId

\* handle() and forget_unmonitored never close one incident twice between
\* them, across shared components, swaps, failing calls and crashes: a
\* timeline has one "resolved" entry at most, unless operators write some.
ClosedOnce ==
  used.requests = 0 =>
    \A i \in DOMAIN incidents :
      Cardinality({k \in DOMAIN incidents[i].timeline : incidents[i].timeline[k] = "resolved"}) <= 1

\* Left to itself, with no call failing, the engine tells subscribers that an
\* incident opened and then, once it is closed, that it is resolved, each once;
\* they hear neither of one that opened in a maintenance window.
ToldInOrder ==
  used.requests = 0 /\ used.faults = 0 /\ used.crashes = 0 =>
    \A i \in DOMAIN incidents :
      /\ incidents[i].told \in {<<>>, <<"opened">>, <<"opened", "resolved">>}
      /\ incidents[i].quiet => incidents[i].told = <<>>
      /\ eng.at = "idle" /\ incidents[i].told # <<>> =>
           (incidents[i].open <=> incidents[i].told = <<"opened">>)

-----------------------------------------------------------------------------
Feeding(k) ==
  {c \in cfg.shape.checks :
     \/ IncidentComponent(cfg.shape, c) = k
     \/ \E j \in DOMAIN cfg.shape.mirror : cfg.shape.mirror[j] = [id |-> k, check |-> c]}

AutoOpenOn(k) == \E i \in OpenOn(k) : incidents[i].auto

\* A component whose checks pass from some time on, or that has none, is left
\* with no automatic incident open, across reloads and restarts.
Recovers(k) == <>[](Feeding(k) \cap sick = {}) => <>[]~AutoOpenOn(k)

AutoIncidentsResolve == \A k \in Components : Recovers(k)

\* The same where it holds: no call fails, and a restart does not meet an
\* incident that an operator filed beside the automatic one.
RecoveredCloses ==
  [](used.faults = 0 /\ (used.crashes = 0 \/ used.requests = 0)) => AutoIncidentsResolve

\* A check that keeps failing has an open incident on its component, however
\* operators close it, unless a call failed or its machine still holds a manual
\* incident of the component it was moved away from.
FailingIsFiled ==
  [](used.faults = 0 /\ (used.reloads = 0 \/ used.requests = 0)) =>
    \A c \in Checks :
      <>[](c \in sick \cap cfg.shape.checks)
        => <>[](OpenOn(IncidentComponent(cfg.shape, c)) # {})

\* An automatic incident on a component that stays unmonitored is closed in
\* the end, even when the calls that close it fail at first.
UnmonitoredCloses ==
  \A k \in Components : <>[](k \notin Monitored(cfg.shape)) => <>[]~AutoOpenOn(k)
=============================================================================
