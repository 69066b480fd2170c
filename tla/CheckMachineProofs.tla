------------------------- MODULE CheckMachineProofs -------------------------
(***************************************************************************)
(* What on_result keeps, for every setting of a check: machines stay       *)
(* machines, and a machine whose counters are capped at the thresholds     *)
(* behaves as one whose counters run free.                                 *)
(***************************************************************************)
EXTENDS CheckMachine, TLAPS

Passed(m) == [m EXCEPT !.failures = 0, !.successes = @ + 1]

\* Counting a passing result changes the counters and nothing else.
LEMMA PassedFields ==
  ASSUME NEW m \in Machine
  PROVE  /\ Passed(m) \in Machine
         /\ Passed(m).state = m.state
         /\ Passed(m).incident = m.incident
         /\ Passed(m).lastReminder = m.lastReminder
         /\ Passed(m).failures = 0
         /\ Passed(m).successes = m.successes + 1
  <1> DEFINE half == [m EXCEPT !.successes = @ + 1]
  <1>1. half \in Machine
    BY DEF Machine
  <1>2. Passed(m) = [half EXCEPT !.failures = 0]
    BY DEF Passed
  <1> HIDE DEF half
  <1>3. Passed(m) \in Machine
    BY <1>1, <1>2 DEF Machine
  <1>4. QED
    BY <1>3 DEF Machine, Passed

Failed(m) == [m EXCEPT !.failures = @ + 1, !.successes = 0]

\* Counting a failing result changes the counters and nothing else.
LEMMA FailedFields ==
  ASSUME NEW m \in Machine
  PROVE  /\ Failed(m) \in Machine
         /\ Failed(m).state = m.state
         /\ Failed(m).incident = m.incident
         /\ Failed(m).lastReminder = m.lastReminder
         /\ Failed(m).failures = m.failures + 1
         /\ Failed(m).successes = 0
  <1> DEFINE half == [m EXCEPT !.failures = @ + 1]
  <1>1. half \in Machine
    BY DEF Machine
  <1>2. Failed(m) = [half EXCEPT !.successes = 0]
    BY DEF Failed
  <1> HIDE DEF half
  <1>3. Failed(m) \in Machine
    BY <1>1, <1>2 DEF Machine
  <1>4. QED
    BY <1>3 DEF Machine, Failed

\* A passing result maps a machine to a machine and a transition.
LEMMA OnSuccessType ==
  ASSUME NEW m \in Machine, NEW check \in Check
  PROVE  OnSuccess(m, check).m \in Machine /\ OnSuccess(m, check).t \in Transition
  <1> DEFINE closes == m.state = "down" /\ m.successes + 1 >= check.successesToResolve
             counted == Passed(m)
  <1>1. OnSuccess(m, check).m = IF closes THEN DefaultMachine ELSE counted
    BY Zenon DEF OnSuccess, Passed
  <1>2. OnSuccess(m, check).t =
          IF closes /\ m.incident # NoId THEN Resolve(m.incident) ELSE Nothing
    BY Zenon DEF OnSuccess, Passed
  <1>3. DefaultMachine \in Machine
    BY DEF DefaultMachine, Machine, NoId
  <1>4. counted \in Machine
    BY PassedFields
  <1>5. Resolve(m.incident) \in Transition /\ Nothing \in Transition
    BY DEF Machine, Transition, Resolve, Nothing, NoId
  <1> HIDE DEF closes, counted
  <1>6. QED
    BY <1>1, <1>2, <1>3, <1>4, <1>5, Zenon

\* A failing result maps a machine to a machine and a transition.
LEMMA OnFailureType ==
  ASSUME NEW m \in Machine, NEW check \in Check, NEW now \in Nat
  PROVE  OnFailure(m, check, now).m \in Machine /\ OnFailure(m, check, now).t \in Transition
  <1> DEFINE opens == m.state = "up" /\ m.failures + 1 >= check.failuresToOpen
             due == /\ m.state = "down"
                    /\ m.lastReminder = Never \/ now - m.lastReminder >= check.reminderInterval
             counted == Failed(m)
             opened == [counted EXCEPT !.state = "down", !.lastReminder = now]
             alerted == [counted EXCEPT !.lastReminder = now]
  <1>1. OnFailure(m, check, now).m =
          IF opens THEN opened ELSE IF due THEN alerted ELSE counted
    BY Zenon DEF OnFailure, Failed
  <1>2. OnFailure(m, check, now).t =
          IF opens THEN Open
          ELSE IF due /\ m.incident # NoId THEN Remind(m.incident) ELSE Nothing
    BY Zenon DEF OnFailure, Failed
  <1>3. counted \in Machine
    BY FailedFields
  <1> HIDE DEF counted
  <1>4. opened \in Machine /\ alerted \in Machine
    BY <1>3 DEF Machine
  <1>5. Open \in Transition /\ Remind(m.incident) \in Transition /\ Nothing \in Transition
    BY DEF Machine, Transition, Open, Remind, Nothing, NoId
  <1> HIDE DEF opens, due, opened, alerted
  <1>6. QED
    BY <1>1, <1>2, <1>3, <1>4, <1>5, Zenon

\* on_result maps a machine to a machine and a transition.
LEMMA OnResultType ==
  ASSUME NEW m \in Machine, NEW check \in Check, NEW ok \in BOOLEAN, NEW now \in Nat
  PROVE  /\ OnResult(m, check, ok, now).m \in Machine
         /\ OnResult(m, check, ok, now).t \in Transition
  <1>1. CASE ok
    BY <1>1, OnSuccessType, Zenon DEF OnResult
  <1>2. CASE ~ok
    BY <1>2, OnFailureType, Zenon DEF OnResult
  <1>3. QED
    BY <1>1, <1>2

\* The part of a machine that capping leaves alone, and the capped part.
LEMMA SaturateFields ==
  ASSUME NEW m \in Machine, NEW check \in Check
  PROVE  /\ Saturate(m, check) \in Machine
         /\ Saturate(m, check).state = m.state
         /\ Saturate(m, check).incident = m.incident
         /\ Saturate(m, check).lastReminder = m.lastReminder
         /\ Saturate(m, check).failures = Lesser(m.failures, check.failuresToOpen)
         /\ Saturate(m, check).successes = Lesser(m.successes, check.successesToResolve)
  BY DEF Saturate, Lesser, Machine, Check

\* Machines that agree on every field are the same machine.
LEMMA MachineFields ==
  ASSUME NEW m \in Machine, NEW n \in Machine,
         m.state = n.state, m.failures = n.failures, m.successes = n.successes,
         m.lastReminder = n.lastReminder, m.incident = n.incident
  PROVE  m = n
  BY DEF Machine

\* Capping the counters at the thresholds loses nothing: the capped machine
\* wants the same of every result, and capping commutes with counting.
LEMMA SuccessSaturates ==
  ASSUME NEW m \in Machine, NEW check \in Check
  PROVE  /\ OnSuccess(Saturate(m, check), check).t = OnSuccess(m, check).t
         /\ Saturate(OnSuccess(Saturate(m, check), check).m, check)
              = Saturate(OnSuccess(m, check).m, check)
  <1> DEFINE s == Saturate(m, check)
             closes(n) == n.state = "down" /\ n.successes + 1 >= check.successesToResolve
             counted(n) == Passed(n)
  <1>1. ASSUME NEW n \in Machine
        PROVE  /\ OnSuccess(n, check).m = IF closes(n) THEN DefaultMachine ELSE counted(n)
               /\ OnSuccess(n, check).t =
                    IF closes(n) /\ n.incident # NoId THEN Resolve(n.incident) ELSE Nothing
    BY Zenon DEF OnSuccess, Passed
  <1>2. s \in Machine /\ s.incident = m.incident
    BY SaturateFields, Zenon
  <1>3. closes(s) <=> closes(m)
    BY SaturateFields DEF Lesser, Machine, Check
  <1>4. Saturate(counted(s), check) = Saturate(counted(m), check)
    <2>1. m.successes + 1 \in Nat /\ s.successes + 1 \in Nat
      BY <1>2 DEF Machine
    <2> HIDE DEF s
    <2>2. Lesser(s.successes + 1, check.successesToResolve)
            = Lesser(m.successes + 1, check.successesToResolve)
      BY <2>1, SaturateFields DEF s, Lesser, Machine, Check
    <2>3. /\ counted(s) \in Machine /\ counted(m) \in Machine
          /\ counted(s).state = counted(m).state
          /\ counted(s).incident = counted(m).incident
          /\ counted(s).lastReminder = counted(m).lastReminder
          /\ counted(s).failures = counted(m).failures
          /\ counted(s).successes = s.successes + 1
          /\ counted(m).successes = m.successes + 1
      <3>1. /\ counted(s) \in Machine
            /\ counted(s).state = s.state /\ counted(s).incident = s.incident
            /\ counted(s).lastReminder = s.lastReminder
            /\ counted(s).failures = 0 /\ counted(s).successes = s.successes + 1
        BY <1>2, PassedFields
      <3>2. /\ counted(m) \in Machine
            /\ counted(m).state = m.state /\ counted(m).incident = m.incident
            /\ counted(m).lastReminder = m.lastReminder
            /\ counted(m).failures = 0 /\ counted(m).successes = m.successes + 1
        BY PassedFields
      <3>3. s.state = m.state /\ s.incident = m.incident /\ s.lastReminder = m.lastReminder
        BY SaturateFields DEF s
      <3> HIDE DEF counted
      <3>4. QED
        BY <3>1, <3>2, <3>3
    <2> HIDE DEF counted
    <2>4. QED
      BY <2>2, <2>3, SaturateFields, MachineFields
  <1> HIDE DEF closes, counted, s
  <1>5. QED
    BY <1>1, <1>2, <1>3, <1>4, Zenon DEF s

\* The same for a failing result.
LEMMA FailureSaturates ==
  ASSUME NEW m \in Machine, NEW check \in Check, NEW now \in Nat
  PROVE  /\ OnFailure(Saturate(m, check), check, now).t = OnFailure(m, check, now).t
         /\ Saturate(OnFailure(Saturate(m, check), check, now).m, check)
              = Saturate(OnFailure(m, check, now).m, check)
  <1> DEFINE s == Saturate(m, check)
             opens(n) == n.state = "up" /\ n.failures + 1 >= check.failuresToOpen
             due(n) == /\ n.state = "down"
                       /\ n.lastReminder = Never \/ now - n.lastReminder >= check.reminderInterval
             counted(n) == Failed(n)
             opened(n) == [counted(n) EXCEPT !.state = "down", !.lastReminder = now]
             alerted(n) == [counted(n) EXCEPT !.lastReminder = now]
  <1>1. ASSUME NEW n \in Machine
        PROVE  /\ OnFailure(n, check, now).m =
                    IF opens(n) THEN opened(n) ELSE IF due(n) THEN alerted(n) ELSE counted(n)
               /\ OnFailure(n, check, now).t =
                    IF opens(n) THEN Open
                    ELSE IF due(n) /\ n.incident # NoId THEN Remind(n.incident) ELSE Nothing
    BY Zenon DEF OnFailure, Failed
  <1>2. s \in Machine /\ s.incident = m.incident
    BY SaturateFields, Zenon
  <1>3. (opens(s) <=> opens(m)) /\ (due(s) <=> due(m))
    BY SaturateFields DEF Lesser, Machine, Check
  <1>4. /\ Saturate(counted(s), check) = Saturate(counted(m), check)
        /\ Saturate(opened(s), check) = Saturate(opened(m), check)
        /\ Saturate(alerted(s), check) = Saturate(alerted(m), check)
    <2>1. m.failures + 1 \in Nat /\ s.failures + 1 \in Nat
      BY <1>2 DEF Machine
    <2> HIDE DEF s
    <2>2. Lesser(s.failures + 1, check.failuresToOpen)
            = Lesser(m.failures + 1, check.failuresToOpen)
      BY <2>1, SaturateFields DEF s, Lesser, Machine, Check
    <2>3. /\ counted(s) \in Machine /\ counted(m) \in Machine
          /\ counted(s).state = counted(m).state
          /\ counted(s).incident = counted(m).incident
          /\ counted(s).lastReminder = counted(m).lastReminder
          /\ counted(s).successes = counted(m).successes
          /\ counted(s).failures = s.failures + 1
          /\ counted(m).failures = m.failures + 1
      <3>1. /\ counted(s) \in Machine
            /\ counted(s).state = s.state /\ counted(s).incident = s.incident
            /\ counted(s).lastReminder = s.lastReminder
            /\ counted(s).successes = 0 /\ counted(s).failures = s.failures + 1
        BY <1>2, FailedFields
      <3>2. /\ counted(m) \in Machine
            /\ counted(m).state = m.state /\ counted(m).incident = m.incident
            /\ counted(m).lastReminder = m.lastReminder
            /\ counted(m).successes = 0 /\ counted(m).failures = m.failures + 1
        BY FailedFields
      <3>3. s.state = m.state /\ s.incident = m.incident /\ s.lastReminder = m.lastReminder
        BY SaturateFields DEF s
      <3> HIDE DEF counted
      <3>4. QED
        BY <3>1, <3>2, <3>3
    <2> HIDE DEF counted
    <2>4. opened(s) \in Machine /\ opened(m) \in Machine
      BY <2>3 DEF Machine
    <2>5. alerted(s) \in Machine /\ alerted(m) \in Machine
      BY <2>3 DEF Machine
    <2>6. Saturate(counted(s), check) = Saturate(counted(m), check)
      BY <2>2, <2>3, SaturateFields, MachineFields
    <2>7. Saturate(opened(s), check) = Saturate(opened(m), check)
      <3>1. /\ opened(s).state = opened(m).state
            /\ opened(s).incident = opened(m).incident
            /\ opened(s).lastReminder = opened(m).lastReminder
            /\ opened(s).successes = opened(m).successes
            /\ opened(s).failures = s.failures + 1
            /\ opened(m).failures = m.failures + 1
        BY <2>3 DEF Machine
      <3> HIDE DEF opened
      <3>2. QED
        BY <2>2, <2>4, <3>1, SaturateFields, MachineFields
    <2>8. Saturate(alerted(s), check) = Saturate(alerted(m), check)
      <3>1. /\ alerted(s).state = alerted(m).state
            /\ alerted(s).incident = alerted(m).incident
            /\ alerted(s).lastReminder = alerted(m).lastReminder
            /\ alerted(s).successes = alerted(m).successes
            /\ alerted(s).failures = s.failures + 1
            /\ alerted(m).failures = m.failures + 1
        BY <2>3 DEF Machine
      <3> HIDE DEF alerted
      <3>2. QED
        BY <2>2, <2>5, <3>1, SaturateFields, MachineFields
    <2>9. QED
      BY <2>6, <2>7, <2>8
  <1> HIDE DEF opens, due, counted, opened, alerted, s
  <1>5. QED
    BY <1>1, <1>2, <1>3, <1>4, Zenon DEF s

\* on_result cannot tell a machine from one with its counters capped.
THEOREM SaturationExact ==
  ASSUME NEW m \in Machine, NEW check \in Check, NEW ok \in BOOLEAN, NEW now \in Nat
  PROVE  /\ OnResult(Saturate(m, check), check, ok, now).t = OnResult(m, check, ok, now).t
         /\ Saturate(OnResult(Saturate(m, check), check, ok, now).m, check)
              = Saturate(OnResult(m, check, ok, now).m, check)
  <1>1. CASE ok
    BY <1>1, SuccessSaturates, Zenon DEF OnResult
  <1>2. CASE ~ok
    BY <1>2, FailureSaturates, Zenon DEF OnResult
  <1>3. QED
    BY <1>1, <1>2
=============================================================================
