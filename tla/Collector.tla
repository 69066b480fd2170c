------------------------------- MODULE Collector -------------------------------
(***************************************************************************)
(* The collector (collector_loop in src/src/app.rs, with collector.rs,     *)
(* procfs.rs and docker.rs): counters that only mean something against an  *)
(* earlier reading of the same thing, read while interfaces and containers *)
(* come and go.                                                            *)
(*                                                                         *)
(* moved and used are what really went through an interface and what a     *)
(* container really used, which the program cannot see: it reads counters  *)
(* that start again from nothing.                                          *)
(***************************************************************************)
EXTENDS Integers, FiniteSetsExt

CONSTANTS Interfaces,   \* the interfaces of the host but loopback
          Physical,     \* those of them that are hardware
          Ids, Names,   \* containers, and the names they may have
          Unset,        \* no value
          MaxClock,     \* bound on time
          MaxUpsets     \* bound on failing calls and on things that come and go

\* What the constants are; the module that gives them values assumes it.
CollectorAssumption ==
  /\ Physical \subseteq Interfaces /\ MaxClock \in Nat /\ MaxUpsets \in Nat
  /\ Unset \notin [used : Nat, clock : Nat]

VARIABLES clock,     \* the time, and the host's CPU time
          counters,  \* /proc/net/dev: bytes per interface that is up
          moved,     \* bytes each interface has moved, ever
          prev,      \* HostCollector: the totals and the time of the last reading, or Unset
          rate,      \* the last rate stored, or Unset
          containers, \* per id that exists: its name, CPU counter and whether it runs
          used,      \* CPU each container has used, ever
          lastCpu,   \* BollardDocker: the last counters per id
          cpu,       \* per id, its last CPU sample: what was used, and over how long
          at,        \* where the loop is, and the containers it has listed and not asked
          netAt, cpuAt, \* moved and the time, and per id used and the time, as they
                     \* were when they were last read
          upsets

vars == <<clock, counters, moved, prev, rate, netAt,
          containers, used, lastCpu, cpu, cpuAt, at, upsets>>

host == <<counters, moved, prev, rate, netAt>>

docker == <<containers, used, lastCpu, cpu, cpuAt>>

Total(f) == FoldSet(LAMBDA k, sum : sum + f[k], 0, DOMAIN f)

Init ==
  /\ clock = 0 /\ upsets = 0
  /\ counters = [i \in Interfaces |-> 0] /\ moved = [i \in Interfaces |-> 0]
  /\ prev = Unset /\ rate = Unset
  /\ containers = <<>> /\ used = [id \in Ids |-> 0]
  /\ lastCpu = <<>> /\ cpu = [id \in Ids |-> Unset]
  /\ at = [step |-> "host", listed |-> {}]
  /\ netAt = [moved |-> moved, clock |-> 0]
  /\ cpuAt = [id \in Ids |-> Unset]

-----------------------------------------------------------------------------
(* The host.                                                               *)

\* parse_netdev: every line but loopback's.
ParseNetdev == Total(counters)

Sub(a, b) == IF a >= b THEN a - b ELSE 0

\* Its mutant: the time of a reading is kept though the reading failed.
HostReadFails_KeepsTime ==
  /\ prev' = IF prev = Unset THEN Unset ELSE [prev EXCEPT !.ts = clock]
  /\ UNCHANGED <<rate, netAt>>

\* read_host fails: collect returns before it changes anything.
HostReadFails == UNCHANGED <<prev, rate, netAt>>

\* HostCollector::collect.
Collect ==
  /\ prev' = [total |-> ParseNetdev, ts |-> clock]
  /\ rate' = IF prev # Unset /\ clock > prev.ts
             THEN [bytes |-> Sub(ParseNetdev, prev.total), over |-> clock - prev.ts,
                   since |-> netAt, until |-> [moved |-> moved, clock |-> clock]]
             ELSE rate
  /\ netAt' = [moved |-> moved, clock |-> clock]

ReadHost ==
  /\ at.step = "host"
  /\ at' = [at EXCEPT !.step = "list"]
  /\ UNCHANGED <<clock, counters, moved, docker>>
  /\ \/ Collect /\ UNCHANGED upsets
     \/ upsets < MaxUpsets /\ upsets' = upsets + 1 /\ HostReadFails

-----------------------------------------------------------------------------
(* Docker: containers(), a call to the daemon at a time.                   *)

\* list_containers, and the counters of containers that are gone forgotten.
List ==
  /\ at.step = "list"
  /\ at' = [step |-> "stats", listed |-> DOMAIN containers]
  /\ lastCpu' = [id \in DOMAIN lastCpu \cap DOMAIN containers |-> lastCpu[id]]
  /\ UNCHANGED <<clock, host, containers, used, cpu, cpuAt, upsets>>

ListFails ==
  /\ at.step = "list" /\ upsets < MaxUpsets
  /\ at' = [at EXCEPT !.step = "sleep"]
  /\ upsets' = upsets + 1
  /\ UNCHANGED <<clock, host, docker>>

\* One container's counters; a container that does not run has none.
Counters(id) ==
  IF containers[id].running THEN [container |-> containers[id].counter, system |-> clock]
  ELSE [container |-> 0, system |-> 0]

\* Its mutant: without a previous reading, the average since the host booted.
CpuPercent_SinceBoot(cur, last) ==
  LET spent == Sub(cur.container, last.container)  over == Sub(cur.system, last.system)
  IN IF spent = 0 \/ over = 0 THEN [used |-> 0, over |-> 0] ELSE [used |-> spent, over |-> over]

\* cpu_percent: nothing without a previous reading, and nothing when either
\* counter did not grow.
CpuPercent(cur, last) ==
  LET spent == Sub(cur.container, last.container)  over == Sub(cur.system, last.system)
  IN IF last.system = 0 \/ spent = 0 \/ over = 0 THEN [used |-> 0, over |-> 0]
     ELSE [used |-> spent, over |-> over]

Nothing == [container |-> 0, system |-> 0]

\* The last counters of this id, since a one-shot call brings none itself.
Previous(id) == IF id \in DOMAIN lastCpu THEN lastCpu[id] ELSE Nothing

\* One container's statistics.
Stats(id) ==
  /\ at.step = "stats" /\ id \in at.listed /\ id \in DOMAIN containers
  /\ at' = [at EXCEPT !.listed = @ \ {id}]
  /\ lastCpu' = [k \in DOMAIN lastCpu \cup {id} |-> IF k = id THEN Counters(id) ELSE lastCpu[k]]
  /\ LET percent == CpuPercent(Counters(id), Previous(id)) IN
     cpu' = [cpu EXCEPT ![id] = [used |-> percent.used, over |-> percent.over, since |-> cpuAt[id],
                                 until |-> [used |-> used[id], clock |-> clock]]]
  /\ cpuAt' = [cpuAt EXCEPT ![id] = [used |-> used[id], clock |-> clock]]
  /\ UNCHANGED <<clock, host, containers, used, upsets>>

\* The container is gone by then, or the call fails: it is skipped.
StatsFail(id) ==
  /\ at.step = "stats" /\ id \in at.listed
  /\ at' = [at EXCEPT !.listed = @ \ {id}]
  /\ IF id \in DOMAIN containers THEN upsets < MaxUpsets /\ upsets' = upsets + 1
     ELSE UNCHANGED upsets
  /\ UNCHANGED <<clock, host, docker>>

\* The samples are stored, and after a minute the loop starts over.
Sleep ==
  /\ at.step = "sleep" \/ (at.step = "stats" /\ at.listed = {})
  /\ at' = [step |-> "host", listed |-> {}]
  /\ UNCHANGED <<clock, host, docker, upsets>>

-----------------------------------------------------------------------------
(* What is measured.                                                       *)

\* Time passes; an interface moves a byte, a container uses its share.
Tick ==
  /\ clock < MaxClock /\ clock' = clock + 1
  /\ \/ UNCHANGED <<counters, moved>>
     \/ \E i \in DOMAIN counters : /\ counters' = [counters EXCEPT ![i] = @ + 1]
                                   /\ moved' = [moved EXCEPT ![i] = @ + 1]
  /\ \/ UNCHANGED <<containers, used>>
     \/ \E id \in DOMAIN containers : /\ containers[id].running
                                      /\ containers' = [containers EXCEPT ![id].counter = @ + 1]
                                      /\ used' = [used EXCEPT ![id] = @ + 1]
  /\ UNCHANGED <<prev, rate, netAt, lastCpu, cpu, cpuAt, at, upsets>>

Upset == upsets < MaxUpsets /\ upsets' = upsets + 1

\* An interface goes, or comes back with a counter of its own.
Replug(i) ==
  /\ Upset
  /\ counters' = IF i \in DOMAIN counters
                 THEN [j \in DOMAIN counters \ {i} |-> counters[j]]
                 ELSE [j \in DOMAIN counters \cup {i} |-> IF j = i THEN 0 ELSE counters[j]]
  /\ UNCHANGED <<clock, moved, prev, rate, netAt, docker, at>>

\* A container is created under a name that is free, with an id of its own.
Create(id, name) ==
  /\ Upset /\ used[id] = 0 /\ cpu[id] = Unset /\ id \notin DOMAIN containers
  /\ \A k \in DOMAIN containers : containers[k].name # name
  /\ containers' = [k \in DOMAIN containers \cup {id} |->
                      IF k = id THEN [name |-> name, counter |-> 0, running |-> TRUE] ELSE containers[k]]
  /\ UNCHANGED <<clock, host, used, lastCpu, cpu, cpuAt, at>>

Remove(id) ==
  /\ Upset /\ id \in DOMAIN containers
  /\ containers' = [k \in DOMAIN containers \ {id} |-> containers[k]]
  /\ UNCHANGED <<clock, host, used, lastCpu, cpu, cpuAt, at>>

\* It stops, and starts again with its counters at nothing.
Restart(id) ==
  /\ Upset /\ id \in DOMAIN containers
  /\ containers' = [containers EXCEPT ![id].counter = 0, ![id].running = ~@]
  /\ UNCHANGED <<clock, host, used, lastCpu, cpu, cpuAt, at>>

Next ==
  \/ ReadHost \/ List \/ ListFails \/ Sleep \/ Tick
  \/ \E id \in Ids : Stats(id) \/ StatsFail(id) \/ Remove(id) \/ Restart(id)
  \/ \E id \in Ids, name \in Names : Create(id, name)
  \/ \E i \in Interfaces : Replug(i)

Spec == Init /\ [][Next]_vars

-----------------------------------------------------------------------------
(* Properties.                                                             *)

\* A stored rate covers the time since the reading it is a difference to, and
\* no more bytes than the interfaces moved in it: not after a reading that
\* failed, nor when an interface went or came back between the two.
RateIsTrue ==
  rate # Unset =>
    /\ rate.over = rate.until.clock - rate.since.clock /\ rate.over > 0
    /\ rate.bytes <= Total(rate.until.moved) - Total(rate.since.moved)

\* The CPU stored for a container is its own, and of the interval between two
\* readings of it: never what it used before the first of them, nor what
\* another container of that name used, through restarts, failing calls and
\* containers that go between the listing and their statistics.  Without an
\* earlier reading there is none (docker.rs, cpu_percent).
CpuIsItsOwn ==
  \A id \in Ids : cpu[id] # Unset =>
    IF cpu[id].since = Unset THEN cpu[id].used = 0
    ELSE /\ cpu[id].used <= cpu[id].until.used - cpu[id].since.used
         /\ cpu[id].over <= cpu[id].until.clock - cpu[id].since.clock

\* parse_netdev: "Sum receive/transmit bytes over physical interfaces".
PhysicalOnly ==
  rate # Unset =>
    LET bytes(m) == FoldSet(LAMBDA i, sum : sum + m[i], 0, Physical)
    IN rate.bytes <= bytes(rate.until.moved) - bytes(rate.since.moved)

TypeOK ==
  /\ clock \in 0 .. MaxClock /\ upsets \in 0 .. MaxUpsets
  /\ DOMAIN counters \subseteq Interfaces /\ \A i \in DOMAIN counters : counters[i] \in 0 .. moved[i]
  /\ at.step \in {"host", "list", "stats", "sleep"} /\ at.listed \subseteq Ids
  /\ DOMAIN containers \subseteq Ids /\ DOMAIN lastCpu \subseteq Ids
  /\ prev # Unset => prev.ts = netAt.clock
===============================================================================
