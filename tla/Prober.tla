------------------------------- MODULE Prober -------------------------------
(***************************************************************************)
(* One tick after another of prober_loop (src/src/app.rs): what it reads   *)
(* from its sources, which checks are due, and the outcome it records for  *)
(* each.  What the alert engine makes of an outcome is AlertEngine's; the  *)
(* probes are those of Probes, here for the checks whose verdict rests on  *)
(* state somebody else keeps: docker, systemd and heartbeat.               *)
(*                                                                         *)
(* Every await is a step of its own: a container may stop, a ping arrive   *)
(* or the config be swapped between the listing and the verdict.           *)
(***************************************************************************)
EXTENDS Probes, FiniteSets

CONSTANTS Containers,    \* docker checks, one container each
          Units,         \* systemd checks, one unit each
          Heartbeats,    \* heartbeat checks, a token each
          Interval,      \* seconds between runs of a check
          Allowed,       \* period + grace of a heartbeat
          MaxTime,       \* bound: the clock
          MaxReloads,    \* bound: config reloads
          MaxChanges,    \* bound: changes of a container or a unit
          MaxFaults,     \* bound: failures and restarts
          CallsFail,     \* TRUE: the calls about one container or unit can fail
          ReadsFail      \* TRUE: reading the last ping can fail

\* What the constants are: every check has an id, and one kind.  The module
\* that gives them values assumes it.
ProberAssumption ==
  /\ Containers \cap Units = {} /\ (Containers \cup Units) \cap Heartbeats = {}
  /\ {Interval, Allowed, MaxTime} \subseteq Nat
  /\ Unset \notin Outcome

VARIABLES
  now,        \* the clock
  cfg,        \* the config in force: its checks, and which sources are on
  applied,    \* prober_loop: the config it last reconciled with
  last,       \* prober_loop: when each check last ran
  firstRun,   \* prober_loop: when this process first ran each check
  slots,      \* prober_loop: the sources it is connected to
  step,       \* where the loop is
  tickNow,    \* prober_loop: the time its tick began
  due,        \* the checks of this tick not evaluated yet
  listing,    \* what the sources answered, Unset for no answer
  truth,      \* the containers and units as they are
  pings,      \* table heartbeats: the last ping, Unset for none
  verdict,    \* the outcomes recorded in this tick
  held,       \* history: the states each container and unit had in it
  watched,    \* history: since when the loop has known each check
  reloads, changes, faults

vars == <<now, cfg, applied, last, firstRun, slots, step, tickNow, due, listing, truth, pings,
          verdict, held, watched, reloads, changes, faults>>

Checks == Containers \cup Units \cup Heartbeats

Sources == {"docker", "systemd"}

ChecksOf(source) == IF source = "docker" THEN Containers ELSE Units

\* A source without a check of its kind may as well be off.
Used == {s \in Sources : ChecksOf(s) # {}}

Config == [checks : SUBSET Checks, on : SUBSET Used]

\* A container as the probe sees it, and the ActiveState of a unit.
Healthy == [running |-> TRUE, health |-> "healthy", restarts |-> 0]

States(c) == IF c \in Containers THEN {Unset, Healthy, [Healthy EXCEPT !.health = "unhealthy"]}
             ELSE {"active", "failed"}

\* A function on some of the checks, kept for those in s.
Retain(f, s) == [c \in DOMAIN f \cap s |-> f[c]]

Init ==
  /\ now = 0
  /\ cfg \in [checks : SUBSET Checks, on : {Used}]
  /\ applied = cfg
  /\ last = <<>> /\ firstRun = <<>> /\ watched = <<>>
  /\ slots = {}
  /\ step = "idle" /\ tickNow = 0 /\ due = {}
  /\ listing = [s \in Sources |-> Unset]
  /\ truth = [c \in Containers \cup Units |-> IF c \in Containers THEN Healthy ELSE "active"]
  /\ pings = [c \in Heartbeats |-> Unset]
  /\ verdict = [c \in Checks |-> Unset]
  /\ held = [c \in Containers \cup Units |-> {}]
  /\ reloads = 0 /\ changes = 0 /\ faults = 0

-----------------------------------------------------------------------------
(* The world outside the loop. *)

ClockMoves ==
  /\ now < MaxTime
  /\ now' = now + 1
  /\ UNCHANGED <<cfg, applied, last, firstRun, slots, step, tickNow, due, listing, truth, pings,
                 verdict, held, watched, reloads, changes, faults>>

Changes ==
  /\ changes < MaxChanges
  /\ changes' = changes + 1
  /\ \E c \in DOMAIN truth :
       \E to \in States(c) \ {truth[c]} :
         /\ truth' = [truth EXCEPT ![c] = to]
         /\ held' = [held EXCEPT ![c] = @ \cup {to}]
  /\ UNCHANGED <<now, cfg, applied, last, firstRun, slots, step, tickNow, due, listing, pings,
                 verdict, watched, reloads, faults>>

\* Web handler heartbeat and record_ping: a check that is configured, found
\* by its token.
Heartbeat(c) ==
  /\ c \in cfg.checks \cap Heartbeats
  /\ pings' = [pings EXCEPT ![c] = now]
  /\ UNCHANGED <<now, cfg, applied, last, firstRun, slots, step, tickNow, due, listing, truth,
                 verdict, held, watched, reloads, changes, faults>>

\* A reload swaps the config the loop reads at its next tick.
Reload ==
  /\ reloads < MaxReloads
  /\ reloads' = reloads + 1
  /\ cfg' \in Config \ {cfg}
  /\ UNCHANGED <<now, applied, last, firstRun, slots, step, tickNow, due, listing, truth, pings,
                 verdict, held, watched, changes, faults>>

\* The process ends and starts again with nothing in memory; its first tick
\* finds the config it started with reconciled by the bootstrap.
Restart ==
  /\ faults < MaxFaults
  /\ faults' = faults + 1
  /\ applied' = cfg
  /\ last' = <<>> /\ firstRun' = <<>> /\ watched' = <<>>
  /\ slots' = {}
  /\ step' = "idle" /\ due' = {}
  /\ listing' = [s \in Sources |-> Unset]
  /\ verdict' = [c \in Checks |-> Unset]
  /\ held' = [c \in DOMAIN held |-> {}]
  /\ UNCHANGED <<now, cfg, tickNow, truth, pings, reloads, changes>>

-----------------------------------------------------------------------------
(* A tick. *)

\* ensure_docker and ensure_systemd: a source that is off is let go, one that
\* is on is connected to, unless connecting fails.
Ensure(on, connected) == {s \in on : s \in connected \cup slots}

\* The filter of the checks that are due.
Due(checks, lastRun) ==
  {c \in checks : c \in DOMAIN lastRun => now - lastRun[c] >= Interval}

\* Its mutant: what the loop knows of a removed check stays.
ForgetRemoved_Nothing(f) == f

\* forget_removed_checks, on one of its two tables.
ForgetRemoved(f) == Retain(f, cfg.checks)

\* A tick as far as the listings: it reconciles with a config that was
\* swapped, fails to, or has nothing to reconcile.  A failure leaves applied,
\* so that the next tick tries again.  (The code compares the two configs by
\* identity; reconciling with an equal one changes nothing.)
Tick ==
  /\ step = "idle"
  /\ tickNow' = now
  /\ \E reconciled \in BOOLEAN, connected \in SUBSET Sources :
       LET kept == IF cfg # applied /\ reconciled THEN ForgetRemoved(last) ELSE last
           first == IF cfg # applied /\ reconciled THEN ForgetRemoved(firstRun) ELSE firstRun
           known == IF cfg # applied /\ reconciled THEN Retain(watched, cfg.checks) ELSE watched
           run == Due(cfg.checks, kept)
       IN /\ reconciled \/ (cfg # applied /\ faults < MaxFaults)
          /\ faults' = IF reconciled THEN faults ELSE faults + 1
          /\ applied' = IF reconciled THEN cfg ELSE applied
          /\ slots' = Ensure(cfg.on, connected)
          /\ due' = run
          /\ last' = [c \in DOMAIN kept \cup run |-> IF c \in run THEN now ELSE kept[c]]
          /\ firstRun' = [c \in DOMAIN first \cup run |-> IF c \in DOMAIN first THEN first[c] ELSE now]
          /\ watched' = [c \in DOMAIN known \cup cfg.checks |->
                           IF c \in DOMAIN known THEN known[c] ELSE now]
          /\ step' = IF run = {} THEN "idle" ELSE "docker"
  /\ listing' = [s \in Sources |-> Unset]
  /\ verdict' = [c \in Checks |-> Unset]
  /\ held' = [c \in DOMAIN truth |-> {truth[c]}]
  /\ UNCHANGED <<now, cfg, truth, pings, reloads, changes>>

\* What the list of all containers says of one: whether it runs.
Summary(c) == [c EXCEPT !.health = Unset, !.restarts = 0]

\* BollardDocker::containers: one that cannot be inspected is what the list
\* says of it, one whose statistics cannot be read is left out.
\* ZbusSystemd::unit_states: one that cannot be asked is "not-found" or
\* "unknown".
Answer(source, uninspected, unread) ==
  [c \in ChecksOf(source) |->
     IF c \in unread THEN IF source = "docker" THEN Unset ELSE "unknown"
     ELSE IF c \in uninspected /\ truth[c] # Unset THEN Summary(truth[c])
     ELSE truth[c]]

\* Its mutant: a listing that failed is taken for an empty one.
Failed_Empty(source) ==
  [c \in ChecksOf(source) |-> IF source = "docker" THEN Unset ELSE "unknown"]

\* What is left of a listing that failed as a whole: no data.
Failed(source) == Unset

\* The two listings, each made only when a due check needs it and its source
\* is connected.
List(source, next) ==
  /\ step = source
  /\ step' = next
  /\ \E ok \in BOOLEAN, uninspected \in SUBSET (ChecksOf(source) \cap Containers),
        unread \in SUBSET ChecksOf(source) :
       /\ uninspected \cup unread # {} => CallsFail /\ ok
       /\ LET asked == source \in slots /\ due \cap ChecksOf(source) # {}
              cost == (IF ok THEN 0 ELSE 1) + Cardinality(uninspected) + Cardinality(unread)
          IN /\ cost > 0 => asked /\ faults + cost <= MaxFaults
             /\ faults' = faults + cost
             /\ listing' = [listing EXCEPT ![source] =
                              IF ~asked THEN Unset
                              ELSE IF ok THEN Answer(source, uninspected, unread)
                              ELSE Failed(source)]
  /\ UNCHANGED <<now, cfg, applied, last, firstRun, slots, tickNow, due, truth, pings, verdict,
                 held, watched, reloads, changes>>

ListDocker == List("docker", "systemd")

ListSystemd == List("systemd", "evaluate")

\* What a check of this module's kinds asks for.
DockerCheck == [limit |-> Unset]

SystemdCheck == [expected |-> {"active"}]

\* evaluate: Unset for a check whose source gave nothing.  A last ping that
\* cannot be read counts as none.
Evaluated(c, ping) ==
  IF c \in Heartbeats THEN ProbeHeartbeat(Allowed, ping, firstRun[c], tickNow)
  ELSE IF c \in Containers
  THEN IF listing["docker"] = Unset THEN Unset ELSE ProbeDocker(DockerCheck, listing["docker"][c])
  ELSE IF listing["systemd"] = Unset THEN Unset
       ELSE ProbeSystemd(SystemdCheck, listing["systemd"][c])

\* One check of the tick: its outcome is recorded and handed to the engine,
\* or the check is skipped.
Evaluate(c) ==
  /\ step = "evaluate"
  /\ c \in due
  /\ due' = due \ {c}
  /\ step' = IF due' = {} THEN "idle" ELSE "evaluate"
  /\ \E read \in BOOLEAN :
       LET ping == IF c \in Heartbeats /\ read THEN pings[c] ELSE Unset IN
       /\ ~read => ReadsFail /\ c \in Heartbeats /\ faults < MaxFaults
       /\ faults' = IF read THEN faults ELSE faults + 1
       /\ verdict' = [verdict EXCEPT ![c] = Evaluated(c, ping)]
  /\ UNCHANGED <<now, cfg, applied, last, firstRun, slots, tickNow, listing, truth, pings, held,
                 watched, reloads, changes>>

Next ==
  \/ ClockMoves \/ Changes \/ Reload \/ Restart
  \/ \E c \in Heartbeats : Heartbeat(c)
  \/ Tick \/ ListDocker \/ ListSystemd
  \/ \E c \in Checks : Evaluate(c)

Spec == Init /\ [][Next]_vars

-----------------------------------------------------------------------------
(* Properties. *)

\* Every variable has its type; a check that is due has its times, and what
\* the loop knows of a check it has known it at least as long as it watched.
TypeOK ==
  /\ now \in 0 .. MaxTime /\ tickNow \in 0 .. now
  /\ cfg \in Config /\ applied \in Config
  /\ slots \subseteq Sources
  /\ step \in {"idle", "docker", "systemd", "evaluate"}
  /\ DOMAIN firstRun = DOMAIN last /\ DOMAIN last \subseteq DOMAIN watched
  /\ due \subseteq DOMAIN last /\ (step = "idle" => due = {})
  /\ \A c \in DOMAIN last :
       /\ watched[c] <= firstRun[c] /\ firstRun[c] <= last[c] /\ last[c] <= tickNow
       /\ c \in due => last[c] = tickNow
  /\ \A c \in Checks : verdict[c] \in Outcome \cup {Unset}

\* evaluate: a docker or systemd check is judged by its own container or
\* unit or not at all.  Every outcome recorded in a tick is the probe's
\* verdict on a state the target had since the tick began, whatever of the
\* sources is off, unreachable or lost between, as long as the calls for
\* single targets answer (CallsFail).  (The comment at app.rs:466.)
VerdictIsTrue ==
  /\ \A c \in Containers : verdict[c] # Unset =>
       \E s \in held[c] : verdict[c] = ProbeDocker(DockerCheck, s)
  /\ \A c \in Units : verdict[c] # Unset =>
       \E s \in held[c] : verdict[c] = ProbeSystemd(SystemdCheck, s)

\* containers and unit_states: whichever calls fail, a container is up only
\* when it ran during the tick and a unit only when it was active.  More is
\* not to be had of a container that cannot be inspected: it is up as long as
\* it runs, be it unhealthy.
UpOnlyIfRunning ==
  /\ \A c \in Containers : verdict[c] = "up" => \E s \in held[c] : s # Unset /\ s.running
  /\ \A c \in Units : verdict[c] = "up" => "active" \in held[c]

\* probe_heartbeat with the loop's tables: a heartbeat is down only when
\* nothing arrived for longer than allowed; while none ever arrived, the time
\* runs from when the loop began to watch the check, also when the check was
\* removed and added back.
LateStep ==
  \A c \in Heartbeats :
    (verdict'[c] = "down" /\ verdict[c] # "down") =>
      IF pings[c] = Unset THEN tickNow - watched[c] > Allowed
      ELSE tickNow - pings[c] > Allowed

LateOnly == [][LateStep]_vars
===============================================================================
