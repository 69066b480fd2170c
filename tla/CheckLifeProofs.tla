--------------------------- MODULE CheckLifeProofs ---------------------------
(***************************************************************************)
(* Proofs about CheckLife: the counters of on_result give the verdict of   *)
(* the whole stream of results, and reminders follow the clock, for any    *)
(* settings, any number of results and any bounds.                         *)
(***************************************************************************)
EXTENDS CheckLife, CheckMachineProofs

-----------------------------------------------------------------------------
(* Runs of equal results at the end of a stream.                           *)

\* The last k results are v, and the one before them is not.
EndsIn(h, v, k) ==
  /\ k <= Len(h)
  /\ \A i \in DOMAIN h : i > Len(h) - k => h[i] = v
  /\ k < Len(h) => h[Len(h) - k] # v

LEMMA Appended ==
  ASSUME NEW h \in Seq(BOOLEAN), NEW ok \in BOOLEAN
  PROVE  /\ Append(h, ok) \in Seq(BOOLEAN) /\ Len(Append(h, ok)) = Len(h) + 1
         /\ DOMAIN h = 1 .. Len(h) /\ DOMAIN Append(h, ok) = 1 .. Len(h) + 1
         /\ Append(h, ok)[Len(h) + 1] = ok
         /\ \A i \in 1 .. Len(h) : Append(h, ok)[i] = h[i]
         /\ Len(h) \in Nat
  OBVIOUS

\* A further result makes the run longer, or begins one anew.
LEMMA RunAppends ==
  ASSUME NEW h \in Seq(BOOLEAN), NEW ok \in BOOLEAN, NEW v \in BOOLEAN, NEW k \in Nat,
         EndsIn(h, v, k)
  PROVE  /\ ok = v => EndsIn(Append(h, ok), v, k + 1)
         /\ ok # v => EndsIn(Append(h, ok), v, 0)
  <1> DEFINE g == Append(h, ok)
             n == Len(h)
  <1>1. /\ Len(g) = n + 1 /\ DOMAIN h = 1 .. n /\ DOMAIN g = 1 .. n + 1 /\ n \in Nat
        /\ g[n + 1] = ok /\ \A i \in 1 .. n : g[i] = h[i]
    BY Appended
  <1>2. /\ k <= n
        /\ \A i \in 1 .. n : i > n - k => h[i] = v
        /\ k < n => h[n - k] # v
    BY <1>1 DEF EndsIn
  <1> HIDE DEF g, n
  <1>3. CASE ok = v
    <2>1. k + 1 <= n + 1 /\ (k + 1 < n + 1 => g[(n + 1) - (k + 1)] # v)
      <3>1. (n + 1) - (k + 1) = n - k
        BY <1>1
      <3>2. k < n => n - k \in 1 .. n
        BY <1>1, <1>2
      <3>3. QED
        BY <1>1, <1>2, <3>1, <3>2
    <2>2. \A i \in 1 .. n + 1 : i > (n + 1) - (k + 1) => g[i] = v
      BY <1>1, <1>2, <1>3
    <2>3. EndsIn(g, v, k + 1)
      BY <1>1, <2>1, <2>2 DEF EndsIn
    <2>4. QED
      BY <1>3, <2>3 DEF g
  <1>4. CASE ok # v
    <2>1. EndsIn(g, v, 0)
      BY <1>1, <1>4 DEF EndsIn
    <2>2. QED
      BY <1>4, <2>1 DEF g
  <1>5. QED
    BY <1>3, <1>4

\* The last results are v, as many as are needed and one at least, exactly
\* when the run is that long.
LEMMA RunLength ==
  ASSUME NEW h \in Seq(BOOLEAN), NEW v \in BOOLEAN, NEW k \in Nat, NEW need \in Nat,
         EndsIn(h, v, k), Len(h) >= 1
  PROVE  (k >= 1 /\ k >= need)
           <=> /\ Len(h) >= need
               /\ \A i \in (Len(h) + 1 - need) .. Len(h) : h[i] = v
               /\ h[Len(h)] = v
  <1> DEFINE n == Len(h)
  <1>1. /\ n \in Nat /\ n >= 1 /\ k <= n
        /\ \A i \in 1 .. n : i > n - k => h[i] = v
        /\ k < n => h[n - k] # v
    BY DEF EndsIn
  <1> HIDE DEF n
  <1>2. ASSUME k >= 1, k >= need
        PROVE  n >= need /\ (\A i \in (n + 1 - need) .. n : h[i] = v) /\ h[n] = v
    BY <1>1, <1>2
  <1>3. ASSUME n >= need, \A i \in (n + 1 - need) .. n : h[i] = v, h[n] = v
        PROVE  k >= 1 /\ k >= need
    <2>1. k >= 1
      BY <1>1, <1>3
    <2>2. SUFFICES ASSUME k < need PROVE FALSE
      BY <2>1
    <2>3. k < n /\ n - k \in (n + 1 - need) .. n
      BY <1>1, <1>3, <2>2
    <2>4. QED
      BY <1>1, <1>3, <2>3
  <1>4. QED
    BY <1>2, <1>3 DEF n

-----------------------------------------------------------------------------
(* The invariant.                                                          *)

\* The failures counted are the run of failures the stream ends in; the passes
\* counted are its run of passes while the check is down, and decide nothing
\* before.  The last reminder is the last alert.
LifeInv ==
  /\ TypeOK
  /\ EndsIn(history, FALSE, machine.failures)
  /\ machine.state = "down" => /\ EndsIn(history, TRUE, machine.successes)
                               /\ machine.lastReminder = alertAt
  /\ VerdictMatchesHistory

\* What on_result makes of a pass.
LEMMA PassIs ==
  ASSUME NEW m \in Machine, NEW c \in Check, NEW t \in Nat
  PROVE  LET r == OnResult(m, c, TRUE, t)
             closes == m.state = "down" /\ m.successes + 1 >= c.successesToResolve
         IN /\ r.m \in Machine /\ r.t.kind \in {"nothing", "resolve"} /\ r.t # Open
            /\ closes => r.m = DefaultMachine
            /\ ~closes => r.t.kind = "nothing" /\ r.m = Passed(m)
            /\ r.t.kind = "resolve" => closes
  <1> DEFINE r == OnResult(m, c, TRUE, t)
             closes == m.state = "down" /\ m.successes + 1 >= c.successesToResolve
  <1>1. r.m \in Machine
    BY OnResultType
  <1>2. r = OnSuccess(m, c)
    BY DEF OnResult
  <1>3. OnSuccess(m, c).m = IF closes THEN DefaultMachine ELSE Passed(m)
    BY Zenon DEF OnSuccess, Passed
  <1>4. OnSuccess(m, c).t = IF closes /\ m.incident # NoId THEN Resolve(m.incident) ELSE Nothing
    BY Zenon DEF OnSuccess
  <1>5. /\ Resolve(m.incident).kind = "resolve" /\ Nothing.kind = "nothing" /\ Open.kind = "open"
    BY DEF Resolve, Nothing, Open
  <1> HIDE DEF r, closes
  <1>6. /\ r.t.kind \in {"nothing", "resolve"} /\ r.t # Open
        /\ closes => r.m = DefaultMachine
        /\ ~closes => r.t.kind = "nothing" /\ r.m = Passed(m)
        /\ r.t.kind = "resolve" => closes
    BY <1>2, <1>3, <1>4, <1>5
  <1>7. QED
    BY <1>1, <1>6 DEF r, closes

\* A failure opens an outage, or is due for a reminder of one.
Opens(m, c) == m.state = "up" /\ m.failures + 1 >= c.failuresToOpen

IsDue(m, c, t) ==
  m.state = "down" /\ (m.lastReminder = Never \/ t - m.lastReminder >= c.reminderInterval)

\* What on_result makes of a failure.
LEMMA FailIs ==
  ASSUME NEW m \in Machine, NEW c \in Check, NEW t \in Nat
  PROVE  LET r == OnResult(m, c, FALSE, t)
         IN /\ r.m \in Machine /\ r.m.incident = m.incident
            /\ r.m.failures = m.failures + 1 /\ r.m.successes = 0
            /\ r.m.state = IF Opens(m, c) THEN "down" ELSE m.state
            /\ r.m.lastReminder = IF Opens(m, c) \/ IsDue(m, c, t) THEN t ELSE m.lastReminder
            /\ Opens(m, c) => r.t = Open
            /\ ~Opens(m, c) =>
                 /\ r.t # Open
                 /\ r.t.kind = IF IsDue(m, c, t) /\ m.incident # NoId THEN "remind" ELSE "nothing"
  <1> DEFINE r == OnResult(m, c, FALSE, t)
             opens == Opens(m, c)
             due == IsDue(m, c, t)
             counted == Failed(m)
             opened == [counted EXCEPT !.state = "down", !.lastReminder = t]
             alerted == [counted EXCEPT !.lastReminder = t]
  <1>1. r.m \in Machine
    BY OnResultType
  <1>2. r = OnFailure(m, c, t)
    BY DEF OnResult
  <1>3. OnFailure(m, c, t).m = IF opens THEN opened ELSE IF due THEN alerted ELSE counted
    BY Zenon DEF OnFailure, Failed, Opens, IsDue
  <1>4. OnFailure(m, c, t).t = IF opens THEN Open
                               ELSE IF due /\ m.incident # NoId THEN Remind(m.incident) ELSE Nothing
    BY Zenon DEF OnFailure, Opens, IsDue
  <1>5. Remind(m.incident).kind = "remind" /\ Nothing.kind = "nothing" /\ Open.kind = "open"
    BY DEF Remind, Nothing, Open
  <1>6. /\ counted \in Machine /\ counted.state = m.state /\ counted.incident = m.incident
        /\ counted.lastReminder = m.lastReminder /\ counted.failures = m.failures + 1
        /\ counted.successes = 0
    BY FailedFields
  <1> HIDE DEF counted
  <1>7. /\ opened.state = "down" /\ opened.lastReminder = t /\ opened.incident = m.incident
        /\ opened.failures = m.failures + 1 /\ opened.successes = 0
    BY <1>6 DEF Machine
  <1>8. /\ alerted.state = m.state /\ alerted.lastReminder = t /\ alerted.incident = m.incident
        /\ alerted.failures = m.failures + 1 /\ alerted.successes = 0
    BY <1>6 DEF Machine
  <1>9. opens => ~due
    BY DEF Opens, IsDue
  <1> HIDE DEF r, opens, due, opened, alerted
  <1>10. /\ r.m.incident = m.incident
         /\ r.m.failures = m.failures + 1 /\ r.m.successes = 0
         /\ r.m.state = IF opens THEN "down" ELSE m.state
         /\ r.m.lastReminder = IF opens \/ due THEN t ELSE m.lastReminder
    BY <1>2, <1>3, <1>6, <1>7, <1>8
  <1>11. /\ opens => r.t = Open
         /\ ~opens => r.t # Open /\ r.t.kind = IF due /\ m.incident # NoId THEN "remind" ELSE "nothing"
    BY <1>2, <1>4, <1>5
  <1>12. QED
    BY <1>1, <1>10, <1>11 DEF r, opens, due

-----------------------------------------------------------------------------
(* The reference, one result later.                                        *)

\* What was said of the results so far stays true of them.
LEMMA EnoughKept ==
  ASSUME TypeOK, check \in Check, NEW ok \in BOOLEAN, history' = Append(history, ok),
         UNCHANGED check, NEW i \in 1 .. Len(history)
  PROVE  /\ FailedEnough(i)' <=> FailedEnough(i)
         /\ PassedEnough(i)' <=> PassedEnough(i)
  <1>1. /\ Len(history) \in Nat /\ check.failuresToOpen \in Nat /\ check.successesToResolve \in Nat
        /\ \A k \in 1 .. Len(history) : history'[k] = history[k]
    BY Appended DEF TypeOK, Check
  <1>2. ASSUME NEW need \in Nat, i >= need
        PROVE  \A k \in (i + 1 - need) .. i : history'[k] = history[k]
    BY <1>1, <1>2
  <1>3. check' = check /\ history'[i] = history[i]
    BY <1>1
  <1>4. FailedEnough(i)' <=> FailedEnough(i)
    BY <1>1, <1>2, <1>3 DEF FailedEnough
  <1>5. PassedEnough(i)' <=> PassedEnough(i)
    BY <1>1, <1>2, <1>3 DEF PassedEnough
  <1>6. QED
    BY <1>4, <1>5

\* A pass can only end an outage, a failure only begin one.
LEMMA OutageAfter ==
  ASSUME TypeOK, check \in Check, NEW ok \in BOOLEAN, history' = Append(history, ok),
         UNCHANGED <<check, base>>
  PROVE  /\ ok => (OutageInHistory' <=> OutageInHistory /\ ~PassedEnough(Len(history))')
         /\ ~ok => (OutageInHistory' <=> OutageInHistory \/ FailedEnough(Len(history))')
  <1> DEFINE n == Len(history)
             F == {i \in 1 .. n : FailedEnough(i)}
             P == {i \in 1 .. n : PassedEnough(i)}
             G == {i \in 1 .. n + 1 : FailedEnough(i)'}
             Q == {i \in 1 .. n + 1 : PassedEnough(i)'}
  <1>1. /\ n \in Nat /\ DOMAIN history = 1 .. n /\ DOMAIN history' = 1 .. n + 1
        /\ history'[n + 1] = ok /\ Len(history') = n + 1
    BY Appended DEF TypeOK
  <1>2. \A i \in 1 .. n : (i \in G <=> i \in F) /\ (i \in Q <=> i \in P)
    BY <1>1, EnoughKept
  <1>3. /\ n + 1 \in G <=> FailedEnough(Len(history))'
        /\ n + 1 \in Q <=> PassedEnough(Len(history))'
    BY <1>1
  <1>4. (ok => n + 1 \notin G) /\ (~ok => n + 1 \notin Q)
    BY <1>1, <1>3 DEF FailedEnough, PassedEnough
  <1>5. OutageInHistory <=> \/ base = "down" /\ \A j \in 1 .. n : j \notin P
                            \/ \E i \in 1 .. n : i \in F /\ \A j \in 1 .. n : j > i => j \notin P
    BY <1>1 DEF OutageInHistory
  <1>6. OutageInHistory' <=>
          \/ base = "down" /\ \A j \in 1 .. n + 1 : j \notin Q
          \/ \E i \in 1 .. n + 1 : i \in G /\ \A j \in 1 .. n + 1 : j > i => j \notin Q
    BY <1>1 DEF OutageInHistory
  <1> HIDE DEF n, F, P, G, Q
  <1>7. /\ 1 .. n + 1 = (1 .. n) \cup {n + 1}
        /\ \A i \in 1 .. n : n + 1 > i /\ ~(i > n + 1)
        /\ ~(n + 1 > n + 1)
    BY <1>1
  <1>8. ASSUME ok PROVE OutageInHistory' <=> OutageInHistory /\ n + 1 \notin Q
    BY <1>2, <1>4, <1>5, <1>6, <1>7, <1>8
  <1>9. ASSUME ~ok PROVE OutageInHistory' <=> OutageInHistory \/ n + 1 \in G
    <2>1. CASE n + 1 \in G
      BY <1>6, <1>7, <2>1
    <2>2. CASE n + 1 \notin G
      BY <1>2, <1>4, <1>5, <1>6, <1>7, <1>9, <2>2
    <2>3. QED
      BY <2>1, <2>2
  <1>10. QED
    BY <1>3, <1>8, <1>9

-----------------------------------------------------------------------------
(* The steps.                                                              *)

\* A pass closes the outage exactly when enough passes end the stream.
LEMMA PassKeeps ==
  ASSUME CheckLifeAssumption, LifeInv, NEW gap \in 0 .. MaxGap, Result(TRUE, gap)
  PROVE  LifeInv'
  <1> DEFINE m == machine
             r == OnResult(m, check, TRUE, now + gap)
             n == Len(history)
             closes == m.state = "down" /\ m.successes + 1 >= check.successesToResolve
  <1>1. /\ check \in Check /\ m \in Machine /\ history \in Seq(BOOLEAN) /\ n \in Nat
        /\ now + gap \in 0 .. MaxTime /\ now + gap \in Nat /\ check.successesToResolve \in Nat
    BY DEF LifeInv, TypeOK, CheckLifeAssumption, Result, Check
  <1>2. /\ r.m \in Machine /\ r.t.kind \in {"nothing", "resolve"} /\ r.t # Open
        /\ closes => r.m = DefaultMachine
        /\ ~closes => r.t.kind = "nothing" /\ r.m = Passed(m)
        /\ r.t.kind = "resolve" => closes
    BY <1>1, PassIs
  <1> HIDE DEF r, closes
  <1>3. /\ now' = now + gap /\ history' = Append(history, TRUE) /\ UNCHANGED <<check, base>>
        /\ machine' = r.m /\ sent' = r.t.kind
        /\ alertAt' = IF r.t.kind = "resolve" THEN Never ELSE alertAt
    BY <1>2 DEF Result, r
  <1>4. TypeOK'
    BY <1>1, <1>2, <1>3, Appended DEF LifeInv, TypeOK
  <1>5. /\ Passed(m).state = m.state /\ Passed(m).incident = m.incident
        /\ Passed(m).lastReminder = m.lastReminder
        /\ Passed(m).failures = 0 /\ Passed(m).successes = m.successes + 1
        /\ m.failures \in Nat /\ m.successes \in Nat /\ m.state \in {"up", "down"}
    BY <1>1, PassedFields DEF Machine
  <1>6. DefaultMachine.failures = 0 /\ DefaultMachine.state = "up" /\ DefaultMachine.incident = NoId
    BY DEF DefaultMachine
  <1>7. EndsIn(history', FALSE, machine'.failures)
    BY <1>1, <1>2, <1>3, <1>5, <1>6, RunAppends DEF LifeInv
  <1>8. m.state = "down" => EndsIn(history', TRUE, m.successes + 1)
    BY <1>1, <1>3, <1>5, RunAppends DEF LifeInv
  <1>9. OutageInHistory' <=> OutageInHistory /\ ~PassedEnough(n)'
    BY <1>1, <1>3, OutageAfter DEF LifeInv
  <1>10. m.state = "down" => (PassedEnough(n)' <=> closes)
    <2>1. SUFFICES ASSUME m.state = "down" PROVE PassedEnough(n)' <=> closes
      OBVIOUS
    <2>2. /\ history' \in Seq(BOOLEAN) /\ Len(history') = n + 1 /\ n + 1 >= 1
          /\ m.successes + 1 \in Nat /\ m.successes + 1 >= 1
      BY <1>1, <1>3, <1>5, Appended
    <2>3. (m.successes + 1 >= 1 /\ m.successes + 1 >= check.successesToResolve)
            <=> /\ Len(history') >= check.successesToResolve
                /\ \A i \in (Len(history') + 1 - check.successesToResolve) .. Len(history') :
                     history'[i] = TRUE
                /\ history'[Len(history')] = TRUE
      <3> DEFINE h == history'
                 k == m.successes + 1
                 need == check.successesToResolve
      <3>1. /\ h \in Seq(BOOLEAN) /\ Len(h) >= 1 /\ k \in Nat /\ need \in Nat
            /\ EndsIn(h, TRUE, k)
        BY <1>1, <1>8, <2>1, <2>2 DEF Check
      <3> HIDE DEF h, k, need
      <3>2. (k >= 1 /\ k >= need)
              <=> Len(h) >= need /\ (\A i \in (Len(h) + 1 - need) .. Len(h) : h[i] = TRUE) /\ h[Len(h)] = TRUE
        BY <3>1, RunLength, ZenonT(30)
      <3>3. QED
        BY <3>2, Zenon DEF h, k, need
    <2>4. \A i \in DOMAIN history' : history'[i] \in BOOLEAN
      BY <2>2
    <2>5. ASSUME Len(history') >= check.successesToResolve
          PROVE  (Len(history') + 1 - check.successesToResolve) .. Len(history')
                   \subseteq DOMAIN history'
      BY <1>1, <2>2, <2>5
    <2>6. Len(history') \in DOMAIN history'
      BY <1>1, <2>2
    <2>7. PassedEnough(n)' <=>
            /\ Len(history') >= check.successesToResolve
            /\ \A i \in (Len(history') + 1 - check.successesToResolve) .. Len(history') : history'[i]
            /\ history'[Len(history')]
      BY <1>3 DEF PassedEnough
    <2>8. QED
      BY <2>1, <2>2, <2>3, <2>4, <2>5, <2>6, <2>7 DEF closes
  <1>11. VerdictMatchesHistory'
    <2>1. /\ m.state = "down" <=> OutageInHistory
          /\ m.state = "down" <=> m.incident # NoId
      BY DEF LifeInv, VerdictMatchesHistory
    <2>2. CASE closes
      BY <1>2, <1>3, <1>6, <1>9, <1>10, <2>1, <2>2 DEF VerdictMatchesHistory, closes
    <2>3. CASE ~closes
      BY <1>2, <1>3, <1>5, <1>9, <1>10, <2>1, <2>3 DEF VerdictMatchesHistory
    <2>4. QED
      BY <2>2, <2>3
  <1>12. machine'.state = "down" => EndsIn(history', TRUE, machine'.successes)
                                    /\ machine'.lastReminder = alertAt'
    BY <1>2, <1>3, <1>5, <1>6, <1>8 DEF LifeInv
  <1>13. QED
    BY <1>4, <1>7, <1>11, <1>12 DEF LifeInv

\* A failure begins an outage exactly when enough failures end the stream.
LEMMA FailKeeps ==
  ASSUME CheckLifeAssumption, LifeInv, NEW gap \in 0 .. MaxGap, Result(FALSE, gap)
  PROVE  LifeInv'
  <1> DEFINE m == machine
             t == now + gap
             r == OnResult(m, check, FALSE, t)
             n == Len(history)
             opens == Opens(m, check)
             due == IsDue(m, check, t)
  <1>1. /\ check \in Check /\ m \in Machine /\ history \in Seq(BOOLEAN) /\ n \in Nat
        /\ t \in 0 .. MaxTime /\ t \in Nat /\ check.failuresToOpen \in Nat
        /\ m.failures \in Nat /\ m.state \in {"up", "down"}
    BY DEF LifeInv, TypeOK, CheckLifeAssumption, Result, Check, Machine
  <1>2. /\ r.m \in Machine /\ r.m.incident = m.incident
        /\ r.m.failures = m.failures + 1 /\ r.m.successes = 0
        /\ r.m.state = IF opens THEN "down" ELSE m.state
        /\ r.m.lastReminder = IF opens \/ due THEN t ELSE m.lastReminder
        /\ opens => r.t = Open
        /\ ~opens => r.t # Open /\ r.t.kind = IF due /\ m.incident # NoId THEN "remind" ELSE "nothing"
    BY <1>1, FailIs
  <1>3. Open.kind = "open"
    BY DEF Open
  <1>4. m.state = "down" <=> m.incident # NoId
    BY DEF LifeInv, VerdictMatchesHistory
  <1>5. opens => ~due
    BY DEF Opens, IsDue
  <1> HIDE DEF r, opens, due
  <1>6. /\ now' = t /\ history' = Append(history, FALSE) /\ UNCHANGED <<check, base>>
        /\ machine' = IF opens THEN [r.m EXCEPT !.incident = Filed] ELSE r.m
        /\ sent' = r.t.kind
        /\ alertAt' = IF r.t.kind \in {"open", "remind"} THEN t ELSE alertAt
    <2>1. /\ now' = t /\ history' = Append(history, FALSE) /\ UNCHANGED <<check, base>>
          /\ machine' = IF r.t = Open THEN [r.m EXCEPT !.incident = Filed] ELSE r.m
          /\ sent' = r.t.kind
          /\ alertAt' = CASE r.t.kind \in {"open", "remind"} -> now'
                          [] r.t.kind = "resolve" -> Never
                          [] OTHER -> alertAt
      BY DEF Result, r
    <2>2. r.t.kind # "resolve"
      BY <1>2, <1>3
    <2>3. QED
      BY <1>2, <2>1, <2>2
  <1>7. /\ machine' \in Machine /\ machine'.state = (IF opens THEN "down" ELSE m.state)
        /\ machine'.incident = (IF opens THEN Filed ELSE m.incident)
        /\ machine'.failures = m.failures + 1 /\ machine'.successes = 0
        /\ machine'.lastReminder = IF opens \/ due THEN t ELSE m.lastReminder
    BY <1>2, <1>6 DEF Machine, Filed
  <1>8. /\ sent' \in {"nothing", "open", "resolve", "remind"}
        /\ alertAt' = IF opens \/ (due /\ m.incident # NoId) THEN t ELSE alertAt
    BY <1>2, <1>3, <1>6
  <1>9. TypeOK'
    BY <1>1, <1>6, <1>7, <1>8, Appended DEF LifeInv, TypeOK
  <1>10. EndsIn(history', FALSE, machine'.failures) /\ EndsIn(history', FALSE, m.failures + 1)
    BY <1>1, <1>6, <1>7, RunAppends DEF LifeInv
  <1>11. machine'.state = "down" => EndsIn(history', TRUE, machine'.successes)
                                    /\ machine'.lastReminder = alertAt'
    <2>1. SUFFICES ASSUME machine'.state = "down"
                   PROVE  EndsIn(history', TRUE, 0) /\ machine'.lastReminder = alertAt'
      BY <1>7
    <2>2. history' \in Seq(BOOLEAN) /\ Len(history') = n + 1 /\ history'[n + 1] = FALSE
          /\ DOMAIN history' = 1 .. n + 1
      BY <1>1, <1>6, Appended
    <2>3. EndsIn(history', TRUE, 0)
      <3>1. Len(history') - 0 = n + 1 /\ 0 <= Len(history')
        BY <1>1, <2>2
      <3>2. \A i \in 1 .. n + 1 : ~(i > n + 1)
        BY <1>1
      <3>3. QED
        BY <2>2, <3>1, <3>2 DEF EndsIn
    <2>4. due => m.state = "down"
      BY DEF due, IsDue
    <2>5. machine'.lastReminder = alertAt'
      BY <1>1, <1>4, <1>7, <1>8, <2>1, <2>4 DEF LifeInv
    <2>6. QED
      BY <2>3, <2>5
  <1>12. OutageInHistory' <=> OutageInHistory \/ FailedEnough(n)'
    BY <1>1, <1>6, OutageAfter DEF LifeInv
  <1>13. FailedEnough(n)' <=> m.failures + 1 >= check.failuresToOpen
    <2>1. /\ history' \in Seq(BOOLEAN) /\ Len(history') = n + 1 /\ n + 1 >= 1
          /\ m.failures + 1 \in Nat /\ m.failures + 1 >= 1
      BY <1>1, <1>6, Appended
    <2>2. (m.failures + 1 >= 1 /\ m.failures + 1 >= check.failuresToOpen)
            <=> /\ Len(history') >= check.failuresToOpen
                /\ \A i \in (Len(history') + 1 - check.failuresToOpen) .. Len(history') :
                     history'[i] = FALSE
                /\ history'[Len(history')] = FALSE
      BY <1>1, <1>10, <2>1, RunLength
    <2>3. /\ \A i \in DOMAIN history' : history'[i] \in BOOLEAN
          /\ Len(history') \in DOMAIN history'
      BY <1>1, <2>1
    <2>4. ASSUME Len(history') >= check.failuresToOpen
          PROVE  (Len(history') + 1 - check.failuresToOpen) .. Len(history') \subseteq DOMAIN history'
      BY <1>1, <2>1, <2>4
    <2>5. FailedEnough(n)' <=>
            /\ Len(history') >= check.failuresToOpen
            /\ \A i \in (Len(history') + 1 - check.failuresToOpen) .. Len(history') : ~history'[i]
            /\ ~history'[Len(history')]
      BY <1>6 DEF FailedEnough
    <2>6. QED
      BY <2>1, <2>2, <2>3, <2>4, <2>5
  <1>14. VerdictMatchesHistory'
    <2>1. (m.state = "down" <=> OutageInHistory) /\ Filed # NoId
      BY DEF LifeInv, VerdictMatchesHistory, Filed, NoId
    <2>2. opens <=> m.state = "up" /\ FailedEnough(n)'
      BY <1>13 DEF opens, Opens
    <2>3. QED
      BY <1>1, <1>4, <1>7, <1>12, <2>1, <2>2 DEF VerdictMatchesHistory
  <1>15. QED
    BY <1>9, <1>10, <1>11, <1>14 DEF LifeInv

\* A machine that is made new starts with no results, in the state it has.
LEMMA BeginKeeps ==
  ASSUME LifeInv, NEW m \in Machine, NEW state \in {"up", "down"}, Begin(m, state),
         m.state = state, m.failures = 0, m.successes = 0, m.lastReminder = Never,
         m.state = "down" <=> m.incident # NoId
  PROVE  LifeInv'
  <1>1. /\ machine' = m /\ base' = state /\ history' = <<>> /\ sent' = "nothing"
        /\ alertAt' = Never /\ UNCHANGED <<check, now>>
    BY DEF Begin
  <1>2. Len(history') = 0 /\ DOMAIN history' = {} /\ history' \in Seq(BOOLEAN)
    BY <1>1
  <1>3. TypeOK'
    BY <1>1, <1>2 DEF LifeInv, TypeOK
  <1>4. \A v \in BOOLEAN : EndsIn(history', v, 0)
    BY <1>2 DEF EndsIn
  <1>5. OutageInHistory' <=> state = "down"
    BY <1>1, <1>2 DEF OutageInHistory
  <1>6. QED
    BY <1>1, <1>3, <1>4, <1>5 DEF LifeInv, VerdictMatchesHistory

LEMMA NewMachines ==
  /\ DefaultMachine \in Machine /\ DefaultMachine.state = "up" /\ DefaultMachine.incident = NoId
  /\ DefaultMachine.failures = 0 /\ DefaultMachine.successes = 0
  /\ DefaultMachine.lastReminder = Never
  /\ \A id \in Nat \ {NoId} :
       /\ Resumed(id) \in Machine /\ Resumed(id).state = "down" /\ Resumed(id).incident = id
       /\ Resumed(id).failures = 0 /\ Resumed(id).successes = 0
       /\ Resumed(id).lastReminder = Never
  BY DEF DefaultMachine, Resumed, Machine, NoId, Never

LEMMA LifeStarts ==
  ASSUME CheckLifeAssumption, Init
  PROVE  LifeInv
  <1>1. Len(history) = 0 /\ DOMAIN history = {} /\ history \in Seq(BOOLEAN)
    BY DEF Init
  <1>2. TypeOK
    BY <1>1, NewMachines DEF CheckLifeAssumption, Init, TypeOK
  <1>3. \A v \in BOOLEAN : EndsIn(history, v, 0)
    BY <1>1 DEF EndsIn
  <1>4. ~OutageInHistory
    BY <1>1 DEF Init, OutageInHistory
  <1>5. QED
    BY <1>2, <1>3, <1>4, NewMachines DEF Init, LifeInv, VerdictMatchesHistory

LEMMA LifeKeeps == CheckLifeAssumption /\ LifeInv /\ [Next]_vars => LifeInv'
  <1> SUFFICES ASSUME CheckLifeAssumption, LifeInv, [Next]_vars PROVE LifeInv'
    OBVIOUS
  <1>1. ASSUME NEW ok \in BOOLEAN, NEW gap \in 0 .. MaxGap, Result(ok, gap) PROVE LifeInv'
    <2>1. CASE ok = TRUE
      BY <1>1, <2>1, PassKeeps
    <2>2. CASE ok = FALSE
      BY <1>1, <2>2, FailKeeps
    <2>3. QED
      BY <2>1, <2>2
  <1>2. CASE StartOver
    <2>1. Begin(DefaultMachine, "up")
      BY <1>2 DEF StartOver
    <2>2. QED
      BY <2>1, NewMachines, BeginKeeps
  <1>3. CASE Restart
    <2>1. CASE machine.incident = NoId
      <3>1. Begin(DefaultMachine, "up")
        BY <1>3, <2>1 DEF Restart
      <3>2. QED
        BY <3>1, NewMachines, BeginKeeps
    <2>2. CASE machine.incident # NoId
      <3>1. Begin(Resumed(machine.incident), "down") /\ machine.incident \in Nat \ {NoId}
        BY <1>3, <2>2 DEF Restart, LifeInv, TypeOK, Machine
      <3>2. QED
        BY <3>1, NewMachines, BeginKeeps
    <2>3. QED
      BY <2>1, <2>2
  <1>4. CASE UNCHANGED vars
    BY <1>4 DEF vars, LifeInv, TypeOK, VerdictMatchesHistory, OutageInHistory, FailedEnough, PassedEnough
  <1>5. QED
    BY <1>1, <1>2, <1>3, <1>4 DEF Next

-----------------------------------------------------------------------------
(* The theorems.                                                           *)

THEOREM LifeInvariance ==
  ASSUME CheckLifeAssumption
  PROVE  Spec => []LifeInv
  <1>1. Init => LifeInv
    BY LifeStarts
  <1>2. LifeInv /\ [Next]_vars => LifeInv'
    BY LifeKeeps
  <1>3. QED
    BY <1>1, <1>2, PTL DEF Spec

\* on_result: for any thresholds and any stream of results, a check is down
\* when failures_to_open in a row failed and successes_to_resolve in a row have
\* not passed since, and then it holds an incident.
THEOREM VerdictAlwaysMatches ==
  ASSUME CheckLifeAssumption
  PROVE  Spec => []VerdictMatchesHistory
  <1>1. LifeInv => VerdictMatchesHistory
    BY DEF LifeInv
  <1>2. QED
    BY <1>1, LifeInvariance, PTL

\* on_result: while a check is down, a failing result reminds exactly when
\* reminder_interval has passed since the last alert.
THEOREM RemindersAlwaysOnTime ==
  ASSUME CheckLifeAssumption
  PROVE  Spec => RemindersOnTime
  <1> DEFINE Reminds ==
        (machine.state = "down" /\ Len(history') > Len(history) /\ ~history'[Len(history')])
          => (sent' = "remind"
                <=> alertAt = Never \/ now' - alertAt >= check.reminderInterval)
  <1>1. LifeInv /\ [Next]_vars => [Reminds]_vars
    <2>1. SUFFICES ASSUME LifeInv, Next, machine.state = "down",
                          Len(history') > Len(history), ~history'[Len(history')]
                   PROVE  sent' = "remind"
                            <=> alertAt = Never \/ now' - alertAt >= check.reminderInterval
      OBVIOUS
    <2>2. history \in Seq(BOOLEAN) /\ Len(history) \in Nat
      BY <2>1 DEF LifeInv, TypeOK
    <2>3. ASSUME history' = <<>> PROVE FALSE
      BY <2>1, <2>2, <2>3
    <2>4. PICK ok \in BOOLEAN, gap \in 0 .. MaxGap : Result(ok, gap)
      BY <2>1, <2>3 DEF Next, StartOver, Restart, Begin
    <2>5. history' = Append(history, ok) /\ ok = FALSE
      <3>1. history' = Append(history, ok)
        BY <2>4 DEF Result
      <3>2. Len(history') = Len(history) + 1 /\ history'[Len(history) + 1] = ok
        BY <2>2, <3>1, Appended
      <3>3. QED
        BY <2>1, <3>1, <3>2
    <2> DEFINE t == now + gap
               r == OnResult(machine, check, FALSE, t)
               due == machine.lastReminder = Never
                        \/ t - machine.lastReminder >= check.reminderInterval
    <2>6. now' = t /\ sent' = r.t.kind
      BY <2>4, <2>5 DEF Result
    <2>7. /\ check \in Check /\ machine \in Machine /\ t \in Nat
          /\ machine.incident # NoId /\ machine.lastReminder = alertAt
      BY <2>1, <2>4 DEF LifeInv, TypeOK, CheckLifeAssumption, VerdictMatchesHistory
    <2>8. r.t.kind = IF due THEN "remind" ELSE "nothing"
      <3>1. ~Opens(machine, check) =>
              r.t.kind = IF IsDue(machine, check, t) /\ machine.incident # NoId
                         THEN "remind" ELSE "nothing"
        BY <2>7, FailIs
      <3>2. ~Opens(machine, check) /\ (IsDue(machine, check, t) <=> due)
        BY <2>1 DEF Opens, IsDue
      <3> HIDE DEF r, due
      <3>3. QED
        BY <2>7, <3>1, <3>2
    <2> HIDE DEF r
    <2>9. QED
      BY <2>6, <2>7, <2>8
  <1>2. QED
    BY <1>1, LifeInvariance, PTL DEF Spec, RemindersOnTime

=============================================================================
