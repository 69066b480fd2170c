----------------------------- MODULE ConfigReload -----------------------------
(***************************************************************************)
(* The config file on its way into the running program: run, the watcher,  *)
(* coalesce_reloads and apply_reload of src/src/app.rs, and the two loops  *)
(* that rebuild what was made from one part of the config, the notifiers   *)
(* (app.rs) and the subscription channels (subscriptions/dispatch.rs).     *)
(*                                                                         *)
(* A file's content loads or not, and has a value for each part.  A        *)
(* half-written file is a content of its own; so is one whose durations    *)
(* are too long for parse_duration, which panics (ConfigRules).            *)
(***************************************************************************)
EXTENDS Integers, FiniteSets

CONSTANTS Values,     \* what a part of the config can say
          Outcomes,   \* what loading a file can come to
          MaxEdits    \* bound

\* What the constants are; the module that gives them values assumes it.
ReloadAssumption ==
  MaxEdits \in Nat /\ "loads" \in Outcomes /\ Outcomes \subseteq {"loads", "invalid", "panics"}

\* notifier_reload_loop and channel_reload_loop, by the part each compares.
Parts == {"notifiers", "subscriptions"}

Content == [load : Outcomes, says : [Parts -> Values]]

Loads(content) == content.load = "loads"

VARIABLES disk,      \* the config file
          running,   \* the value of the config watch channel
          sent,      \* its version: how often it was replaced
          main,      \* run: "load", "watch" or "serving"
          watcher,   \* the watcher thread: "none", "watching" or "failed"
          events,    \* change events on their way to coalesce_reloads
          burst,     \* coalesce_reloads: "idle", "open" in a burst, "ended"
          reported,  \* the last save was seen by the watcher
          loop,      \* [Parts -> the loop that rebuilds it]
          built,     \* [Parts -> Values]: what the channels were made from
          edits

vars == <<disk, running, sent, main, watcher, events, burst, reported, loop, built, edits>>

Loop == [at : {"off", "wait", "build"}, seen : Nat, current : Values, cfg : Values]

TypeOK ==
  /\ disk \in Content
  /\ running \in Content /\ Loads(running)
  /\ sent \in Nat /\ events \in Nat /\ edits \in Nat
  /\ main \in {"load", "watch", "serving"}
  /\ watcher \in {"none", "watching", "failed"} /\ burst \in {"idle", "open", "ended"}
  /\ reported \in BOOLEAN
  /\ loop \in [Parts -> Loop]
  /\ built \in [Parts -> Values]
  /\ \A p \in Parts : loop[p].at = "wait" => built[p] = loop[p].current

\* The program starts only on a valid file; its first load is state "load",
\* its tables and the engine follow before anything is watched.
Init ==
  /\ disk \in {c \in Content : Loads(c)}
  /\ running = disk /\ sent = 0
  /\ main = "load"
  /\ watcher = "none" /\ events = 0 /\ burst = "idle" /\ reported = TRUE
  /\ built = disk.says
  /\ loop = [p \in Parts |-> [at |-> "off", seen |-> 0, current |-> disk.says[p],
                              cfg |-> disk.says[p]]]
  /\ edits = 0

-----------------------------------------------------------------------------

\* A save: the watcher, if it is there, reports it.
Edit(c) ==
  /\ edits < MaxEdits /\ edits' = edits + 1
  /\ disk' = c
  /\ reported' = (watcher = "watching")
  /\ events' = IF watcher = "watching" THEN events + 1 ELSE events
  /\ UNCHANGED <<running, sent, main, watcher, burst, loop, built>>

\* spawn_config_watcher: the thread begins after the function returned.
SpawnWatcher ==
  /\ main = "load" /\ main' = "watch"
  /\ UNCHANGED <<disk, running, sent, watcher, events, burst, reported, loop, built, edits>>

Watch ==
  /\ main # "load" /\ watcher = "none" /\ watcher' = "watching"
  /\ UNCHANGED <<disk, running, sent, main, events, burst, reported, loop, built, edits>>

\* The thread ends, and coalesce_reloads with it: logged, nothing reloads.
WatchFails ==
  /\ main # "load" /\ watcher = "none" /\ watcher' = "failed" /\ burst' = "ended"
  /\ UNCHANGED <<disk, running, sent, main, events, reported, loop, built, edits>>

\* Its mutant: the loop compares with what it finds when it starts.
FirstCurrent_Running(p) == running.says[p]

\* built_from: what run made the channels from.
FirstCurrent(p) == loop[p].current

\* The tasks start once run spawned them, with a receiver that saw the
\* config run loaded.
StartLoop(p) ==
  /\ main = "watch" /\ loop[p].at = "off"
  /\ loop' = [loop EXCEPT ![p].at = "wait", ![p].current = FirstCurrent(p)]
  /\ main' = IF \A q \in Parts \ {p} : loop[q].at # "off" THEN "serving" ELSE main
  /\ UNCHANGED <<disk, running, sent, watcher, events, burst, reported, built, edits>>

-----------------------------------------------------------------------------
(* coalesce_reloads and apply_reload.                                      *)

\* The first event opens a burst, each further one keeps it open.
Receive ==
  /\ burst # "ended" /\ events > 0 /\ events' = events - 1 /\ burst' = "open"
  /\ UNCHANGED <<disk, running, sent, main, watcher, reported, loop, built, edits>>

\* Its mutants: an invalid file ends the task, or is put in force.
Reload_StopsOnError ==
  /\ burst = "open" /\ events = 0 /\ burst' = IF Loads(disk) THEN "idle" ELSE "ended"
  /\ IF Loads(disk) THEN running' = disk /\ sent' = sent + 1 ELSE UNCHANGED <<running, sent>>
  /\ UNCHANGED <<disk, main, watcher, events, reported, loop, built, edits>>

Reload_Unchecked ==
  /\ burst = "open" /\ events = 0 /\ burst' = "idle"
  /\ running' = disk /\ sent' = sent + 1
  /\ UNCHANGED <<disk, main, watcher, events, reported, loop, built, edits>>

\* No event for RELOAD_QUIET: load, and keep the old one when invalid.  A
\* panic ends the task.
Reload ==
  /\ burst = "open" /\ events = 0
  /\ burst' = IF disk.load = "panics" THEN "ended" ELSE "idle"
  /\ IF Loads(disk) THEN running' = disk /\ sent' = sent + 1 ELSE UNCHANGED <<running, sent>>
  /\ UNCHANGED <<disk, main, watcher, events, reported, loop, built, edits>>

-----------------------------------------------------------------------------
(* The reload loops.                                                       *)

\* changed() and borrow_and_update(): the latest config, however many
\* versions were missed.
Changed(p) ==
  /\ loop[p].at = "wait" /\ loop[p].seen < sent
  /\ loop' = [loop EXCEPT ![p] = [@ EXCEPT !.at = "build", !.seen = sent,
                                           !.cfg = running.says[p]]]
  /\ UNCHANGED <<disk, running, sent, main, watcher, events, burst, reported, built, edits>>

\* The channels are replaced only when their part changed.
Build(p) ==
  /\ loop[p].at = "build"
  /\ built' = IF loop[p].cfg # loop[p].current THEN [built EXCEPT ![p] = loop[p].cfg] ELSE built
  /\ loop' = [loop EXCEPT ![p] = [@ EXCEPT !.at = "wait", !.current = loop[p].cfg]]
  /\ UNCHANGED <<disk, running, sent, main, watcher, events, burst, reported, edits>>

Next ==
  \/ \E c \in Content : Edit(c)
  \/ SpawnWatcher \/ Watch \/ WatchFails \/ Receive \/ Reload
  \/ \E p \in Parts : StartLoop(p) \/ Changed(p) \/ Build(p)

\* Threads and tasks run on, and a burst of finitely many edits ends.
Fairness ==
  /\ WF_vars(SpawnWatcher) /\ WF_vars(Watch \/ WatchFails) /\ WF_vars(Receive) /\ WF_vars(Reload)
  /\ \A p \in Parts : WF_vars(StartLoop(p)) /\ WF_vars(Changed(p)) /\ WF_vars(Build(p))

Spec == Init /\ [][Next]_vars /\ Fairness

-----------------------------------------------------------------------------
(* Properties.                                                             *)

\* Once a loop has seen the running config, what it built is that config's
\* part, also for a reload that landed before the loop first ran (the
\* comment at notifier_reload_loop).
BuiltIsRunning ==
  \A p \in Parts : loop[p].at = "wait" /\ loop[p].seen = sent => built[p] = running.says[p]

InForce == running = disk /\ built = disk.says

\* The last save, when the watcher saw it and it is valid, is in force in
\* the end, with everything built from it, whatever came before it: no burst
\* loses its last event, no invalid file ends the reloading.
LastSaveInForce == <>[](reported /\ Loads(disk) => InForce)

\* src/README.md:126: "The config file is watched.  When it changes, dunlin
\* reloads it".  A file saved after run loaded it and before the watcher
\* watches is not reloaded.
SaveInForce == <>[](Loads(disk) /\ watcher = "watching" => InForce)
===============================================================================
