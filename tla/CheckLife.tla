------------------------------ MODULE CheckLife ------------------------------
(***************************************************************************)
(* One check's machine over the life of a process: results arrive, an      *)
(* operator may resolve the incident, the process may restart.  The        *)
(* machine's verdict is compared with a reference definition over the      *)
(* whole stream of results, and the alerts it sends with the clock.        *)
(***************************************************************************)
EXTENDS CheckMachine, Sequences

CONSTANTS CheckSet,     \* the check settings to try
          MaxResults,   \* bound: results between two starts
          MaxTime,      \* bound: last second of the clock
          MaxGap        \* bound: seconds between two results

\* What the bounds must be.
CheckLifeAssumption ==
  /\ CheckSet \subseteq Check
  /\ MaxResults \in Nat /\ MaxTime \in Nat /\ MaxGap \in Nat

VARIABLES check,    \* the settings of the check
          machine,
          history,  \* results since the machine was made, oldest first
          base,     \* the state it was made in
          now,
          sent,     \* the transition the last result caused
          alertAt   \* when the last alert of the open incident went out, or Never

vars == <<check, machine, history, base, now, sent, alertAt>>

\* The incident the engine files for this check.
Filed == 1

Init ==
  /\ check \in CheckSet
  /\ machine = DefaultMachine
  /\ history = <<>>
  /\ base = "up"
  /\ now = 0
  /\ sent = "nothing"
  /\ alertAt = Never

\* AlertEngine::handle without a database: a result is counted, and an
\* incident that opens is attached to the machine.
Result(ok, gap) ==
  /\ Len(history) < MaxResults
  /\ now + gap <= MaxTime
  /\ now' = now + gap
  /\ history' = Append(history, ok)
  /\ LET r == OnResult(machine, check, ok, now')
     IN /\ machine' = IF r.t = Open THEN [r.m EXCEPT !.incident = Filed] ELSE r.m
        /\ sent' = r.t.kind
        /\ alertAt' = CASE r.t.kind \in {"open", "remind"} -> now'
                        [] r.t.kind = "resolve" -> Never
                        [] OTHER -> alertAt
  /\ UNCHANGED <<check, base>>

Begin(m, state) ==
  /\ machine' = m
  /\ base' = state
  /\ history' = <<>>
  /\ sent' = "nothing"
  /\ alertAt' = Never
  /\ UNCHANGED <<check, now>>

\* handle finds the machine's incident closed by an operator.
StartOver ==
  /\ machine.incident # NoId
  /\ Begin(DefaultMachine, "up")

\* A restart loses the machine; bootstrap rebuilds it from an open incident.
Restart ==
  IF machine.incident = NoId THEN Begin(DefaultMachine, "up")
  ELSE Begin(Resumed(machine.incident), "down")

Next ==
  \/ \E ok \in BOOLEAN, gap \in 0..MaxGap : Result(ok, gap)
  \/ StartOver
  \/ Restart

Spec == Init /\ [][Next]_vars

-----------------------------------------------------------------------------
(* The reference: what the stream of results says, without counters.       *)

FailedEnough(i) ==
  /\ i >= check.failuresToOpen
  /\ \A k \in (i + 1 - check.failuresToOpen)..i : ~history[k]
  /\ ~history[i]

PassedEnough(j) ==
  /\ j >= check.successesToResolve
  /\ \A k \in (j + 1 - check.successesToResolve)..j : history[k]
  /\ history[j]

\* Some outage began and no long enough run of passes ended since.
OutageInHistory ==
  \/ base = "down" /\ \A j \in DOMAIN history : ~PassedEnough(j)
  \/ \E i \in DOMAIN history :
       FailedEnough(i) /\ \A j \in DOMAIN history : j > i => ~PassedEnough(j)

-----------------------------------------------------------------------------
(* Properties                                                              *)

\* Every variable has its type.
TypeOK ==
  /\ check \in CheckSet
  /\ machine \in Machine
  /\ history \in Seq(BOOLEAN)
  /\ base \in {"up", "down"}
  /\ now \in 0..MaxTime
  /\ sent \in {"nothing", "open", "resolve", "remind"}
  /\ alertAt \in Nat \cup {Never}

\* The counters of on_result give exactly the verdict of the result stream: a
\* check is down when failures_to_open results in a row failed and
\* successes_to_resolve in a row have not passed since, however results
\* flap in between, and down exactly when it has an incident.
VerdictMatchesHistory ==
  /\ machine.state = "down" <=> OutageInHistory
  /\ machine.state = "down" <=> machine.incident # NoId

\* While a check stays down, a failing result sends a reminder exactly when
\* reminder_interval has passed since the last alert about the outage, the
\* "down" alert included; the first failure after a restart reminds.
RemindersOnTime ==
  [][(machine.state = "down" /\ Len(history') > Len(history) /\ ~history'[Len(history')])
       => (sent' = "remind"
             <=> alertAt = Never \/ now' - alertAt >= check.reminderInterval)]_vars
=============================================================================
