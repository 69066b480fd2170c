----------------------------- MODULE Maintenance -----------------------------
(***************************************************************************)
(* Maintenance windows and what subscribers are told about them.           *)
(*                                                                         *)
(* Operators plan windows and end them on /manage (src/src/web.rs); the    *)
(* dispatcher's maintenance_tick (src/src/subscriptions/mod.rs) notices    *)
(* windows that began or are over.  A handler and a tick take the time     *)
(* once, at their start; each database call or transaction is a step.      *)
(***************************************************************************)
EXTENDS Integers, Sequences, FiniteSets

CONSTANTS Operators,     \* concurrent requests of operators
          Starts,        \* how far ahead a window may be planned (0 is now)
          Durations,
          MaxTime, MaxWindows, MaxCuts, MaxToggles   \* bounds

ASSUME MaintenanceAssumption ==
  /\ Starts \subseteq Nat /\ Durations \subseteq Nat \ {0}
  /\ MaxTime \in Nat /\ MaxWindows \in Nat /\ MaxCuts \in Nat /\ MaxToggles \in Nat

VARIABLES windows,   \* table maintenance, by id
          now,
          enabled,   \* subscriptions.enabled of the running config
          op,        \* the web handler each operator request runs
          tick,      \* maintenance_tick: where it is
          used       \* how much of each bound is used

vars == <<windows, now, enabled, op, tick, used>>

Kind == {"scheduled", "started", "completed", "cancelled"}

\* A row, and the messages queued about it, which is no column.
Window == [starts : Nat, ends : Nat, scheduledSent : BOOLEAN, startedSent : BOOLEAN,
           completedSent : BOOLEAN, told : Seq(Kind)]

Request == [at : {"idle", "create", "publish", "end"}, now : Nat,
            starts : Nat, ends : Nat, id : Nat]

IdleOp == [at |-> "idle", now |-> 0, starts |-> 0, ends |-> 0, id |-> 0]

\* What a tick read of a row, and keeps while it handles the rows before it.
Row == [id : Nat, starts : Nat, ends : Nat, scheduled : BOOLEAN]

Ticker == [at : {"idle", "awake", "started", "over"}, now : Nat, enabled : BOOLEAN, rows : SUBSET Row]

Sleeping == [at |-> "idle", now |-> 0, enabled |-> FALSE, rows |-> {}]

Init ==
  /\ windows = <<>>
  /\ now = 0
  /\ enabled \in BOOLEAN
  /\ op = [o \in Operators |-> IdleOp]
  /\ tick = Sleeping
  /\ used = [cuts |-> 0, toggles |-> 0]

Spend(what) == used' = [used EXCEPT ![what] = @ + 1]

Tell(w, kind) == [w EXCEPT !.told = Append(@, kind)]

-----------------------------------------------------------------------------
(* start_maintenance and end_maintenance on /manage.                       *)

StartMaintenance(o, ahead, duration) ==
  /\ op[o].at = "idle"
  /\ op' = [op EXCEPT ![o] = [IdleOp EXCEPT !.at = "create", !.now = now,
                                            !.starts = now + ahead,
                                            !.ends = now + ahead + duration]]
  /\ UNCHANGED <<windows, now, enabled, tick, used>>

\* A window starting now is announced by the next tick.
CreateMaintenance(o) ==
  /\ op[o].at = "create" /\ Len(windows) < MaxWindows
  /\ windows' = Append(windows,
       [starts |-> op[o].starts, ends |-> op[o].ends, scheduledSent |-> FALSE,
        startedSent |-> FALSE, completedSent |-> FALSE, told |-> <<>>])
  /\ op' = [op EXCEPT ![o] = IF op[o].starts > op[o].now
                             THEN [@ EXCEPT !.at = "publish", !.id = Len(windows')]
                             ELSE IdleOp]
  /\ UNCHANGED <<now, enabled, tick, used>>

\* Its mutant: the flag says that messages went out while none are queued.
PublishScheduled_FlagOnly(o) ==
  /\ op[o].at = "publish"
  /\ windows' = [windows EXCEPT ![op[o].id] = [@ EXCEPT !.scheduledSent = TRUE]]
  /\ op' = [op EXCEPT ![o] = IdleOp]
  /\ UNCHANGED <<now, enabled, tick, used>>

\* The flag and the messages are one transaction.
PublishScheduled(o) ==
  /\ op[o].at = "publish"
  /\ windows' = IF ~enabled THEN windows
                ELSE [windows EXCEPT ![op[o].id] =
                        Tell([@ EXCEPT !.scheduledSent = TRUE], "scheduled")]
  /\ op' = [op EXCEPT ![o] = IdleOp]
  /\ UNCHANGED <<now, enabled, tick, used>>

EndMaintenance(o, id) ==
  /\ op[o].at = "idle"
  /\ op' = [op EXCEPT ![o] = [IdleOp EXCEPT !.at = "end", !.now = now, !.id = id]]
  /\ UNCHANGED <<windows, now, enabled, tick, used>>

\* Never extends a window, nor touches one that is over.
EndWindow(o) ==
  /\ op[o].at = "end"
  /\ windows' = IF windows[op[o].id].ends > op[o].now
                THEN [windows EXCEPT ![op[o].id].ends = op[o].now]
                ELSE windows
  /\ op' = [op EXCEPT ![o] = IdleOp]
  /\ UNCHANGED <<now, enabled, tick, used>>

-----------------------------------------------------------------------------
(* maintenance_tick.                                                       *)

Read(id) == [id |-> id, starts |-> windows[id].starts, ends |-> windows[id].ends,
             scheduled |-> windows[id].scheduledSent]

\* The dispatcher takes the config and the time.
Wake ==
  /\ tick.at = "idle"
  /\ tick' = [at |-> "awake", now |-> now, enabled |-> enabled, rows |-> {}]
  /\ UNCHANGED <<windows, now, enabled, op, used>>

ReadStarted ==
  /\ tick.at = "awake"
  /\ tick' = [tick EXCEPT
       !.at = "started",
       !.rows = {Read(id) : id \in {i \in DOMAIN windows :
                   ~windows[i].startedSent /\ windows[i].starts <= tick.now}}]
  /\ UNCHANGED <<windows, now, enabled, op, used>>

\* The rows of a read are handled in order of the time that made them due.
EarliestStart(row) == row \in tick.rows /\ \A r \in tick.rows : row.starts <= r.starts
EarliestEnd(row) == row \in tick.rows /\ \A r \in tick.rows : row.ends <= r.ends

\* Its mutant: the claim is left out.
TellStarted_NotClaimed(row) ==
  /\ tick.at = "started" /\ EarliestStart(row)
  /\ windows' = [windows EXCEPT ![row.id] =
                   IF ~@.startedSent /\ row.ends > tick.now /\ tick.enabled
                   THEN Tell(@, "started") ELSE @]
  /\ tick' = [tick EXCEPT !.rows = @ \ {row}]
  /\ UNCHANGED <<now, enabled, op, used>>

\* One transaction: the claim, and the messages unless it is already over.
TellStarted(row) ==
  /\ tick.at = "started" /\ EarliestStart(row)
  /\ windows' = [windows EXCEPT ![row.id] =
                   IF @.startedSent THEN @
                   ELSE IF row.ends > tick.now /\ tick.enabled
                   THEN Tell([@ EXCEPT !.startedSent = TRUE], "started")
                   ELSE [@ EXCEPT !.startedSent = TRUE]]
  /\ tick' = [tick EXCEPT !.rows = @ \ {row}]
  /\ UNCHANGED <<now, enabled, op, used>>

\* Its mutant: only windows that end this very second are found.
ReadOver_OnTheDot ==
  /\ tick.at = "started" /\ tick.rows = {}
  /\ tick' = [tick EXCEPT
       !.at = "over",
       !.rows = {Read(id) : id \in {i \in DOMAIN windows :
                   ~windows[i].completedSent /\ windows[i].ends = tick.now}}]
  /\ UNCHANGED <<windows, now, enabled, op, used>>

ReadOver ==
  /\ tick.at = "started" /\ tick.rows = {}
  /\ tick' = [tick EXCEPT
       !.at = "over",
       !.rows = {Read(id) : id \in {i \in DOMAIN windows :
                   ~windows[i].completedSent /\ windows[i].ends <= tick.now}}]
  /\ UNCHANGED <<windows, now, enabled, op, used>>

\* Its mutant: everybody hears that a window was called off.
Final_CancelsAlways(row) == IF row.ends > row.starts THEN "completed" ELSE "cancelled"

\* What to say of a window that is over: one that ended before it began was
\* called off, which only those hear who were told that it was planned.
Final(row) ==
  CASE row.ends > row.starts -> "completed"
    [] row.ends <= row.starts /\ row.scheduled -> "cancelled"
    [] OTHER -> "none"

\* Its mutant: the end of a window is not told.
TellOver_Silent(row) ==
  /\ tick.at = "over" /\ EarliestEnd(row)
  /\ windows' = [windows EXCEPT ![row.id].startedSent = TRUE, ![row.id].completedSent = TRUE]
  /\ tick' = [tick EXCEPT !.rows = @ \ {row}]
  /\ UNCHANGED <<now, enabled, op, used>>

\* One transaction again.
TellOver(row) ==
  /\ tick.at = "over" /\ EarliestEnd(row)
  /\ LET claimed == [windows[row.id] EXCEPT !.startedSent = TRUE, !.completedSent = TRUE]
     IN windows' = [windows EXCEPT ![row.id] =
                      IF @.completedSent THEN @
                      ELSE IF tick.enabled /\ Final(row) # "none" THEN Tell(claimed, Final(row))
                      ELSE claimed]
  /\ tick' = [tick EXCEPT !.rows = @ \ {row}]
  /\ UNCHANGED <<now, enabled, op, used>>

EndTick ==
  /\ tick.at = "over" /\ tick.rows = {}
  /\ tick' = Sleeping
  /\ UNCHANGED <<windows, now, enabled, op, used>>

-----------------------------------------------------------------------------
(* A failed call ends the handler or the tick, and a crash all of them.    *)

OpFails(o) ==
  /\ used.cuts < MaxCuts /\ Spend("cuts")
  /\ op[o].at # "idle"
  /\ op' = [op EXCEPT ![o] = IdleOp]
  /\ UNCHANGED <<windows, now, enabled, tick>>

TickFails ==
  /\ used.cuts < MaxCuts /\ Spend("cuts")
  /\ tick.at # "idle"
  /\ tick' = Sleeping
  /\ UNCHANGED <<windows, now, enabled, op>>

Crash ==
  /\ used.cuts < MaxCuts /\ Spend("cuts")
  /\ tick' = Sleeping
  /\ op' = [o \in Operators |-> IdleOp]
  /\ UNCHANGED <<windows, now, enabled>>

\* A reload switches subscriptions on or off.
Toggle ==
  /\ used.toggles < MaxToggles /\ Spend("toggles")
  /\ enabled' = ~enabled
  /\ UNCHANGED <<windows, now, op, tick>>

Pass ==
  /\ now < MaxTime
  /\ now' = now + 1
  /\ UNCHANGED <<windows, enabled, op, tick, used>>

OpStep(o) == CreateMaintenance(o) \/ PublishScheduled(o) \/ EndWindow(o)

TickStep ==
  \/ Wake \/ ReadStarted \/ ReadOver \/ EndTick
  \/ \E row \in tick.rows : TellStarted(row) \/ TellOver(row)

Next ==
  \/ \E o \in Operators :
       \/ \E ahead \in Starts, duration \in Durations : StartMaintenance(o, ahead, duration)
       \/ \E id \in DOMAIN windows : EndMaintenance(o, id)
       \/ OpStep(o) \/ OpFails(o)
  \/ TickStep \/ TickFails \/ Crash \/ Toggle \/ Pass

Spec == Init /\ [][Next]_vars

\* The dispatcher goes on ticking, time passes, and handlers run to their end.
FairSpec ==
  /\ Spec /\ WF_vars(TickStep) /\ WF_vars(Pass)
  /\ \A o \in Operators : WF_vars(OpStep(o))

-----------------------------------------------------------------------------
(* Properties                                                              *)

Told(id) == {windows[id].told[k] : k \in DOMAIN windows[id].told}
Times(id, kind) == Cardinality({k \in DOMAIN windows[id].told : windows[id].told[k] = kind})

\* Every variable has its type, and whatever has a message queued is claimed:
\* the flags and the messages of a window change together.
TypeOK ==
  /\ windows \in Seq(Window)
  /\ \A id \in DOMAIN windows :
       /\ windows[id].scheduledSent <=> "scheduled" \in Told(id)
       /\ "started" \in Told(id) => windows[id].startedSent
       /\ Told(id) \cap {"completed", "cancelled"} # {} => windows[id].completedSent
       /\ windows[id].completedSent => windows[id].startedSent
  /\ now \in Nat /\ enabled \in BOOLEAN
  /\ op \in [Operators -> Request] /\ \A o \in Operators : op[o].id <= Len(windows)
  /\ tick \in Ticker /\ \A row \in tick.rows : row.id \in DOMAIN windows
  /\ used \in [{"cuts", "toggles"} -> Nat]

\* maintenance_tick: "a restart neither repeats nor loses a message".  Each
\* message about a window goes out once at most, and one word at its end, that
\* it was completed or called off, whatever fails, restarts or changes meanwhile.
EachToldOnce ==
  \A id \in DOMAIN windows :
    /\ \A kind \in Kind : Times(id, kind) <= 1
    /\ ~({"completed", "cancelled"} \subseteq Told(id))

Before(id, first, second) ==
  \A i, j \in DOMAIN windows[id].told :
    windows[id].told[i] = second /\ windows[id].told[j] = first => j < i

\* Nobody hears that a window was called off who was not told before that it
\* was planned, nor that one starts after hearing how it ended.
EndComesLast ==
  \A id \in DOMAIN windows :
    /\ "cancelled" \in Told(id) => "scheduled" \in Told(id) /\ Before(id, "scheduled", "cancelled")
    /\ Before(id, "started", "completed") /\ Before(id, "started", "cancelled")

\* Those who were told that a window started are told that it is completed,
\* once it is over, if subscriptions stay on and it lasted any time at all.
StartedIsCompleted ==
  \A id \in DOMAIN windows :
    used.toggles = 0 /\ windows[id].completedSent /\ "started" \in Told(id)
      /\ windows[id].ends > windows[id].starts => "completed" \in Told(id)

\* A window that is over is noticed: ticks that fail are made up for by later
\* ones, and an operator who ends it again later does not reopen it.
OverIsNoticed ==
  \A id \in 1..MaxWindows :
    (id \in DOMAIN windows /\ windows[id].ends <= MaxTime)
      ~> (id \in DOMAIN windows /\ windows[id].completedSent)

-----------------------------------------------------------------------------
\* publish_scheduled: its flag is "recorded with the messages, so a later
\* cancellation goes out exactly when this did".  A tick that read the flag
\* before the messages went out claims the window and calls nothing off.
CancelledWhenScheduled ==
  \A id \in DOMAIN windows :
    used.toggles = 0 /\ windows[id].completedSent /\ "scheduled" \in Told(id)
      => Told(id) \cap {"completed", "cancelled"} # {}
=============================================================================
