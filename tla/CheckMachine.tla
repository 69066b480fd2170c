---------------------------- MODULE CheckMachine ----------------------------
(***************************************************************************)
(* The per-check alert state machine of src/src/alert.rs, as operators on  *)
(* machine records.  It has no state of its own: CheckLife drives one      *)
(* machine with a stream of results, AlertEngine keeps one per check.      *)
(*                                                                         *)
(* A check is a record of the three settings on_result reads:              *)
(* failuresToOpen, successesToResolve and reminderInterval (seconds).      *)
(***************************************************************************)
EXTENDS Integers

\* None of an Option<i64>: incident ids count from 1, times from 0.
NoId == 0
Never == -1

Check == [failuresToOpen : Nat, successesToResolve : Nat, reminderInterval : Nat]

Machine == [state : {"up", "down"}, failures : Nat, successes : Nat,
            lastReminder : Nat \cup {Never}, incident : Nat]

Transition == [kind : {"nothing", "open", "resolve", "remind"}, id : Nat]

Nothing == [kind |-> "nothing", id |-> NoId]
Open == [kind |-> "open", id |-> NoId]
Resolve(id) == [kind |-> "resolve", id |-> id]
Remind(id) == [kind |-> "remind", id |-> id]

DefaultMachine == [state |-> "up", failures |-> 0, successes |-> 0,
                   lastReminder |-> Never, incident |-> NoId]

\* Mutant of Resumed: the machine starts over as if the check were up.
Resumed_Up(id) == [DefaultMachine EXCEPT !.incident = id]

\* A machine rebuilt after a restart from an incident that is still open.
Resumed(id) == [DefaultMachine EXCEPT !.state = "down", !.incident = id]

-----------------------------------------------------------------------------
(* Mutants of OnFailure.                                                   *)

\* The success counter survives a failure, so scattered passes resolve.
OnFailure_KeepsSuccesses(m, check, now) ==
  LET opens == m.state = "up" /\ m.failures + 1 >= check.failuresToOpen
      due == /\ m.state = "down"
             /\ m.lastReminder = Never \/ now - m.lastReminder >= check.reminderInterval
      counted == [m EXCEPT !.failures = @ + 1]
  IN [m |-> IF opens THEN [counted EXCEPT !.state = "down", !.lastReminder = now]
            ELSE IF due THEN [counted EXCEPT !.lastReminder = now] ELSE counted,
      t |-> IF opens THEN Open
            ELSE IF due /\ m.incident # NoId THEN Remind(m.incident) ELSE Nothing]

\* Opening does not count as the first alert: the next failure reminds at once.
OnFailure_OpenNotTimed(m, check, now) ==
  LET opens == m.state = "up" /\ m.failures + 1 >= check.failuresToOpen
      due == /\ m.state = "down"
             /\ m.lastReminder = Never \/ now - m.lastReminder >= check.reminderInterval
      counted == [m EXCEPT !.failures = @ + 1, !.successes = 0]
  IN [m |-> IF opens THEN [counted EXCEPT !.state = "down"]
            ELSE IF due THEN [counted EXCEPT !.lastReminder = now] ELSE counted,
      t |-> IF opens THEN Open
            ELSE IF due /\ m.incident # NoId THEN Remind(m.incident) ELSE Nothing]

-----------------------------------------------------------------------------
(* on_result: the machine after one result, and what it wants done.        *)

\* Mutant of OnSuccess: a success takes back one failure, never having had any.
OnSuccess_TakesBackOne(m, check) ==
  LET closes == m.state = "down" /\ m.successes + 1 >= check.successesToResolve
  IN [m |-> IF closes THEN DefaultMachine
            ELSE [m EXCEPT !.failures = @ - 1, !.successes = @ + 1],
      t |-> IF closes /\ m.incident # NoId THEN Resolve(m.incident) ELSE Nothing]

OnSuccess(m, check) ==
  LET closes == m.state = "down" /\ m.successes + 1 >= check.successesToResolve
  IN [m |-> IF closes THEN DefaultMachine
            ELSE [m EXCEPT !.failures = 0, !.successes = @ + 1],
      t |-> IF closes /\ m.incident # NoId THEN Resolve(m.incident) ELSE Nothing]

OnFailure(m, check, now) ==
  LET opens == m.state = "up" /\ m.failures + 1 >= check.failuresToOpen
      due == /\ m.state = "down"
             /\ m.lastReminder = Never \/ now - m.lastReminder >= check.reminderInterval
      counted == [m EXCEPT !.failures = @ + 1, !.successes = 0]
  IN [m |-> IF opens THEN [counted EXCEPT !.state = "down", !.lastReminder = now]
            ELSE IF due THEN [counted EXCEPT !.lastReminder = now] ELSE counted,
      t |-> IF opens THEN Open
            ELSE IF due /\ m.incident # NoId THEN Remind(m.incident) ELSE Nothing]

OnResult(m, check, ok, now) ==
  IF ok THEN OnSuccess(m, check) ELSE OnFailure(m, check, now)

-----------------------------------------------------------------------------
(* Counters only ever meet their thresholds, so a finite-state client may  *)
(* cap each of them there; CheckMachineProofs shows nothing is lost.       *)

Lesser(a, b) == IF a <= b THEN a ELSE b

Saturate(m, check) ==
  [m EXCEPT !.failures = Lesser(@, check.failuresToOpen),
            !.successes = Lesser(@, check.successesToResolve)]
=============================================================================
