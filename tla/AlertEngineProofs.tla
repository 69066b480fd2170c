-------------------------- MODULE AlertEngineProofs --------------------------
(***************************************************************************)
(* Proofs about AlertEngine for any checks, configs and bounds.            *)
(***************************************************************************)
EXTENDS AlertEngine, CheckMachineProofs, SequenceTheorems, FiniteSetTheorems, WellFoundedInduction

-----------------------------------------------------------------------------
(* The incidents table: every call keeps its rows.                         *)

\* What a call that files no incident may do to the table: rows stay rows of
\* their component, and a closed one is not opened again.
RowsKept ==
  /\ incidents' \in Seq(Incident)
  /\ Len(incidents') = Len(incidents)
  /\ \A i \in DOMAIN incidents :
       /\ incidents'[i].component = incidents[i].component
       /\ incidents'[i].auto = incidents[i].auto
       /\ incidents'[i].open => incidents[i].open

\* Rewriting a row by one that only differs in the columns a call may write.
LEMMA RowRewritten ==
  ASSUME incidents \in Seq(Incident), NEW id, NEW r,
         id \in DOMAIN incidents => /\ r \in Incident
                                    /\ r.component = incidents[id].component
                                    /\ r.auto = incidents[id].auto
                                    /\ r.open => incidents[id].open,
         incidents' = [incidents EXCEPT ![id] = r]
  PROVE  RowsKept
  <1>1. CASE id \in DOMAIN incidents
    <2>1. incidents' \in Seq(Incident) /\ Len(incidents') = Len(incidents)
      BY <1>1, ExceptSeq
    <2>2. QED
      BY <1>1, <2>1 DEF RowsKept
  <1>2. CASE id \notin DOMAIN incidents
    <2>1. incidents \in [1..Len(incidents) -> Incident]
      BY LenProperties
    <2>2. incidents' = incidents
      BY <1>2, <2>1, Zenon
    <2>3. QED
      BY <2>2 DEF RowsKept
  <1>3. QED
    BY <1>1, <1>2

\* A step that does not touch the table keeps every row.
LEMMA RowsUnchanged ==
  ASSUME incidents \in Seq(Incident), UNCHANGED incidents
  PROVE  RowsKept
  BY DEF RowsKept

\* add_update only appends to the timeline of one row.
LEMMA AddUpdateKeeps ==
  ASSUME incidents \in Seq(Incident), NEW id, NEW p \in Phase, AddUpdate(id, p)
  PROVE  RowsKept
  <1> DEFINE r == [incidents[id] EXCEPT !.timeline = Append(@, p)]
  <1>1. incidents' = [incidents EXCEPT ![id] = r]
    BY DEF AddUpdate
  <1>2. ASSUME id \in DOMAIN incidents PROVE r \in Incident
    <2>1. incidents[id] \in Incident
      BY <1>2
    <2>2. Append(incidents[id].timeline, p) \in Seq(Phase)
      BY <2>1 DEF Incident
    <2>3. QED
      BY <2>1, <2>2 DEF Incident
  <1>3. ASSUME id \in DOMAIN incidents
        PROVE  /\ r.component = incidents[id].component
               /\ r.auto = incidents[id].auto
               /\ r.open = incidents[id].open
    BY <1>3 DEF Incident
  <1> HIDE DEF r
  <1>4. QED
    BY <1>1, <1>2, <1>3, RowRewritten

\* resolve_incident only closes one row.
LEMMA ResolveIncidentKeeps ==
  ASSUME incidents \in Seq(Incident), NEW id, ResolveIncident(id)
  PROVE  RowsKept
  <1> DEFINE r == [incidents[id] EXCEPT !.open = FALSE, !.state = "resolved"]
  <1>1. incidents' = [incidents EXCEPT ![id] = r]
    BY DEF ResolveIncident
  <1>2. ASSUME id \in DOMAIN incidents
        PROVE  /\ r \in Incident
               /\ r.component = incidents[id].component
               /\ r.auto = incidents[id].auto
               /\ ~r.open
    <2>1. incidents[id] \in Incident
      BY <1>2
    <2>2. r = [[incidents[id] EXCEPT !.open = FALSE] EXCEPT !.state = "resolved"]
      OBVIOUS
    <2>3. [incidents[id] EXCEPT !.open = FALSE] \in Incident /\ "resolved" \in Phase
      BY <2>1 DEF Incident, Phase
    <2>4. r \in Incident
      <3> HIDE DEF r
      <3>1. QED
        BY <2>2, <2>3 DEF Incident
    <2>5. r.component = incidents[id].component /\ r.auto = incidents[id].auto /\ ~r.open
      BY <2>1 DEF Incident
    <2>6. QED
      BY <2>4, <2>5
  <1> HIDE DEF r
  <1>3. QED
    BY <1>1, <1>2, RowRewritten

\* set_incident_state only writes the state of one row.
LEMMA SetIncidentStateKeeps ==
  ASSUME incidents \in Seq(Incident), NEW id, NEW p \in Phase, SetIncidentState(id, p)
  PROVE  RowsKept
  <1> DEFINE r == [incidents[id] EXCEPT !.state = p]
  <1>1. incidents' = [incidents EXCEPT ![id] = r]
    BY DEF SetIncidentState
  <1>2. ASSUME id \in DOMAIN incidents
        PROVE  /\ r \in Incident
               /\ r.component = incidents[id].component
               /\ r.auto = incidents[id].auto
               /\ r.open = incidents[id].open
    <2>1. incidents[id] \in Incident
      BY <1>2
    <2>2. r \in Incident
      BY <2>1 DEF Incident
    <2>3. /\ r.component = incidents[id].component
          /\ r.auto = incidents[id].auto
          /\ r.open = incidents[id].open
      BY <2>1 DEF Incident
    <2>4. QED
      BY <2>2, <2>3
  <1> HIDE DEF r
  <1>3. QED
    BY <1>1, <1>2, RowRewritten

\* mark_quiet only sets the flag of one row.
LEMMA MarkQuietKeeps ==
  ASSUME incidents \in Seq(Incident), NEW id, MarkQuiet(id)
  PROVE  RowsKept
  <1> DEFINE r == [incidents[id] EXCEPT !.quiet = TRUE]
  <1>1. incidents' = [incidents EXCEPT ![id] = r]
    BY DEF MarkQuiet
  <1>2. ASSUME id \in DOMAIN incidents
        PROVE  /\ r \in Incident
               /\ r.component = incidents[id].component
               /\ r.auto = incidents[id].auto
               /\ r.open = incidents[id].open
    <2>1. incidents[id] \in Incident
      BY <1>2
    <2>2. r \in Incident
      BY <2>1 DEF Incident
    <2>3. /\ r.component = incidents[id].component
          /\ r.auto = incidents[id].auto
          /\ r.open = incidents[id].open
      BY <2>1 DEF Incident
    <2>4. QED
      BY <2>2, <2>3
  <1> HIDE DEF r
  <1>3. QED
    BY <1>1, <1>2, RowRewritten

\* publish_incident only adds to what was told of one row.
LEMMA PublishIncidentKeeps ==
  ASSUME incidents \in Seq(Incident), NEW id,
         NEW change \in {"opened", "updated", "resolved"}, PublishIncident(id, change)
  PROVE  RowsKept
  <1> DEFINE r == [incidents[id] EXCEPT !.told = Append(@, change)]
  <1>1. UNCHANGED incidents \/ incidents' = [incidents EXCEPT ![id] = r]
    BY DEF PublishIncident
  <1>2. ASSUME id \in DOMAIN incidents PROVE r \in Incident
    <2> DEFINE Messages == {"opened", "updated", "resolved"}
    <2>1. incidents[id] \in Incident
      BY <1>2
    <2>2. change \in Messages /\ incidents[id].told \in Seq(Messages)
      BY <2>1 DEF Incident
    <2> HIDE DEF Messages
    <2>3. Append(incidents[id].told, change) \in Seq(Messages)
      BY <2>2
    <2>4. QED
      BY <2>1, <2>3 DEF Incident, Messages
  <1>3. ASSUME id \in DOMAIN incidents
        PROVE  /\ r.component = incidents[id].component
               /\ r.auto = incidents[id].auto
               /\ r.open = incidents[id].open
    BY <1>3 DEF Incident
  <1> HIDE DEF r
  <1>4. QED
    BY <1>1, <1>2, <1>3, RowRewritten, RowsUnchanged

\* A call that files an incident adds a row at the end and touches no other.
RowAdded(k, auto) ==
  /\ incidents' \in Seq(Incident)
  /\ Len(incidents') = Len(incidents) + 1 /\ Len(incidents') <= MaxIncidents
  /\ \A i \in DOMAIN incidents : incidents'[i] = incidents[i]
  /\ LET new == incidents'[Len(incidents')]
     IN new.component = k /\ new.auto = auto /\ new.open

\* create_incident appends one open row and keeps the others.
LEMMA CreateIncidentAdds ==
  ASSUME EngineAssumption, incidents \in Seq(Incident),
         NEW k \in Components, NEW auto \in BOOLEAN, CreateIncident(k, auto)
  PROVE  RowAdded(k, auto)
  <1> DEFINE new == NewIncident(k, auto)
  <1>1. new \in Incident
    BY DEF NewIncident, Incident, Phase
  <1>2. new.component = k /\ new.auto = auto /\ new.open
    BY DEF NewIncident
  <1>3. incidents' = Append(incidents, new) /\ Len(incidents) < MaxIncidents
    BY DEF CreateIncident
  <1> HIDE DEF new
  <1>4. QED
    BY <1>1, <1>2, <1>3 DEF RowAdded, EngineAssumption

-----------------------------------------------------------------------------
(* Least and greatest elements of the sets the code picks rows from.       *)

\* A nonempty set of naturals has a least element.
LEMMA LeastExists ==
  ASSUME NEW S, S \subseteq Nat, S # {}
  PROVE  \E i \in S : \A j \in S : i <= j
  <1>1. PICK i \in S : \A j \in S : ~(<<j, i>> \in OpToRel(<, Nat))
    BY WFMin, NatLessThanWellFounded
  <1>2. ASSUME NEW j \in S, j < i PROVE <<j, i>> \in OpToRel(<, Nat)
    BY <1>2 DEF OpToRel
  <1>3. \A j \in S : ~(j < i)
    BY <1>1, <1>2, Zenon
  <1>4. QED
    BY <1>3

\* The newest of some ids is one of them, and none is greater (ORDER BY id DESC LIMIT 1).
LEMMA NewestIs ==
  ASSUME NEW S, NEW n \in Nat, S \subseteq 1..n, S # {}
  PROVE  Newest(S) \in S /\ \A j \in S : j <= Newest(S)
  <1> DEFINE T == {n - i : i \in S}
  <1>1. T \subseteq Nat /\ T # {}
    <2>1. \A i \in S : i \in Nat /\ i <= n
      OBVIOUS
    <2>2. \A i \in S : n - i \in Nat
      BY <2>1
    <2>3. QED
      BY <2>2, Zenon
  <1>2. PICK t \in T : \A u \in T : t <= u
    BY <1>1, LeastExists
  <1>3. PICK i \in S : t = n - i
    BY <1>2
  <1>4. \A j \in S : j <= i
    <2>1. ASSUME NEW j \in S PROVE n - i <= n - j
      BY <1>2, <1>3
    <2>2. QED
      BY <2>1
  <1>5. QED
    BY <1>4 DEF Newest

\* A check reports to a component: the first that mirrors it, or its own.
LEMMA IncidentComponentType ==
  ASSUME EngineAssumption, NEW s \in Shapes, NEW c \in Checks
  PROVE  IncidentComponent(s, c) \in Components
  <1>1. CASE MirrorOf(s, c) = {}
    BY <1>1 DEF IncidentComponent, EngineAssumption
  <1>2. CASE MirrorOf(s, c) # {}
    <2>1. s.mirror \in Seq([id : Components, check : Checks])
      BY DEF EngineAssumption, Shape
    <2>2. MirrorOf(s, c) \subseteq DOMAIN s.mirror /\ DOMAIN s.mirror \subseteq Nat
      BY <2>1 DEF MirrorOf
    <2>3. \E k \in MirrorOf(s, c) : \A j \in MirrorOf(s, c) : k <= j
      BY <1>2, <2>2, LeastExists
    <2>4. PICK k \in DOMAIN s.mirror : IncidentComponent(s, c) = s.mirror[k].id
      BY <1>2, <2>2, <2>3 DEF IncidentComponent
    <2>5. s.mirror[k] \in [id : Components, check : Checks]
      BY <2>1, <2>4, LenProperties, ElementOfSeq
    <2>6. QED
      BY <2>4, <2>5
  <1>3. QED
    BY <1>1, <1>2

-----------------------------------------------------------------------------
(* Type correctness.                                                       *)

\* No row goes away, and the table stays within its bound.
Grown == RowsOK' /\ Len(incidents) <= Len(incidents')

\* A table whose rows are kept is no shorter.
LEMMA KeptGrown ==
  ASSUME TypeOK, RowsKept
  PROVE  Grown
  BY LenProperties DEF TypeOK, RowsOK, RowsKept, Grown

\* A table with one row more is longer.
LEMMA AddedGrown ==
  ASSUME TypeOK, NEW k, NEW auto, RowAdded(k, auto)
  PROVE  Grown
  BY LenProperties DEF TypeOK, RowsOK, RowAdded, Grown

\* Ids in use stay ids of rows when the table grows.
LEMMA GrownIds ==
  ASSUME TypeOK, Grown
  PROVE  /\ DOMAIN incidents \subseteq DOMAIN incidents'
         /\ \A n \in Nat : n <= Len(incidents) => n <= Len(incidents')
         /\ Len(incidents) \in Nat /\ Len(incidents') \in Nat
  <1>1. /\ Len(incidents) \in Nat /\ Len(incidents') \in Nat
        /\ DOMAIN incidents = 1..Len(incidents) /\ DOMAIN incidents' = 1..Len(incidents')
    BY LenProperties DEF TypeOK, RowsOK, Grown
  <1>2. QED
    BY <1>1 DEF Grown

\* The type of the engine survives a step that writes only the table.
LEMMA EngineCarried ==
  ASSUME TypeOK, Grown, UNCHANGED eng
  PROVE  EngineOK'
  <1>1. eng.id \in Nat
    BY DEF TypeOK, EngineOK, Engine
  <1>2. QED
    BY <1>1, GrownIds DEF TypeOK, EngineOK

\* The types of the machines survive a step that writes only the table.
LEMMA MachinesCarried ==
  ASSUME TypeOK, Grown, UNCHANGED machines
  PROVE  MachinesOK'
  <1>1. \A c \in Checks : machines[c].incident \in Nat
    BY DEF TypeOK, MachinesOK, Machine
  <1>2. QED
    BY <1>1, GrownIds DEF TypeOK, MachinesOK

\* The types of the requests survive a step that writes only the table.
LEMMA OpsCarried ==
  ASSUME TypeOK, Grown, UNCHANGED op
  PROVE  OpsOK'
  <1>1. \A o \in Operators : op[o].id \in Nat
    BY DEF TypeOK, OpsOK, Request
  <1>2. QED
    BY <1>1, GrownIds DEF TypeOK, OpsOK

\* An engine that starts a pass over some checks is an engine.
LEMMA AtType ==
  ASSUME NEW step \in Steps, NEW phase \in {"boot", "tick"}, NEW tick \in Config,
         NEW todo, todo \subseteq Checks
  PROVE  At(step, phase, tick, todo) \in Engine
  BY DEF At, Engine, NoId

\* The engine between two calls of handle(), or out of it.
LEMMA EngineAt ==
  ASSUME TypeOK, Grown, NEW step \in Steps, step \notin HandleSteps \cup ForgetSteps,
         NEW phase \in {"boot", "tick"}, NEW tick \in Config,
         NEW todo, todo \subseteq Checks, eng' = At(step, phase, tick, todo)
  PROVE  EngineOK'
  <1>1. eng' \in Engine
    BY AtType
  <1>2. eng'.at = step /\ eng'.id = 0 /\ eng'.victims = {} /\ eng'.closed = {}
    BY DEF At, NoId
  <1>3. Len(incidents') \in Nat
    BY GrownIds
  <1>4. QED
    BY <1>1, <1>2, <1>3 DEF EngineOK

\* The engine at the next call of the same task, its arguments kept.
LEMMA EngineGoes ==
  ASSUME TypeOK, Grown, NEW step \in Steps, step \in HandleSteps => eng.check \in Checks,
         step \in ForgetSteps => eng.id \in eng.victims, Go(step)
  PROVE  EngineOK'
  <1>1. eng \in Engine /\ eng.id \in Nat
    BY DEF TypeOK, EngineOK, Engine
  <1>2. eng' \in Engine
    BY <1>1 DEF Go, Engine
  <1>3. /\ eng'.at = step /\ eng'.id = eng.id /\ eng'.check = eng.check
        /\ eng'.victims = eng.victims /\ eng'.closed = eng.closed
    BY <1>1 DEF Go, Engine
  <1>4. QED
    BY <1>1, <1>2, <1>3, GrownIds DEF TypeOK, EngineOK

\* handle() returns and the loop takes the next check.
LEMMA EngineNextCheck ==
  ASSUME TypeOK, Grown, NextCheck
  PROVE  EngineOK'
  <1>1. eng.tick \in Config /\ eng.todo \ {eng.check} \subseteq Checks
    BY DEF TypeOK, EngineOK, Engine
  <1>2. "probe" \in Steps /\ "probe" \notin HandleSteps \cup ForgetSteps
    BY DEF Steps, HandleSteps, ForgetSteps
  <1>3. QED
    BY <1>1, <1>2, EngineAt DEF NextCheck

\* The machines of a new process are machines without an incident.
LEMMA MachinesFresh ==
  ASSUME TypeOK, Grown, machines' = Fresh
  PROVE  MachinesOK'
  <1>1. DefaultMachine \in Machine /\ DefaultMachine.incident = 0
    BY DEF DefaultMachine, Machine, NoId
  <1>2. QED
    BY <1>1, GrownIds DEF MachinesOK, Fresh

\* The machine of the check in hand takes the id of a row.
LEMMA MachineAttached ==
  ASSUME TypeOK, Grown, eng.check \in Checks,
         NEW id \in Nat, id <= Len(incidents'), Attach(id)
  PROVE  MachinesOK'
  <1>1. machines[eng.check] \in Machine
    BY DEF TypeOK, MachinesOK
  <1>2. /\ [machines[eng.check] EXCEPT !.incident = id] \in Machine
        /\ [machines[eng.check] EXCEPT !.incident = id].incident = id
    BY <1>1 DEF Machine
  <1>3. machines' = [machines EXCEPT ![eng.check] = [machines[eng.check] EXCEPT !.incident = id]]
    BY DEF Attach
  <1>4. \A c \in Checks : machines[c].incident \in Nat
    BY DEF TypeOK, MachinesOK, Machine
  <1>5. QED
    BY <1>2, <1>3, <1>4, GrownIds DEF TypeOK, MachinesOK

\* A result only keeps or drops the incident of its machine.
LEMMA OnResultIncident ==
  ASSUME NEW m \in Machine, NEW check \in Check, NEW ok \in BOOLEAN, NEW now \in Nat
  PROVE  /\ OnResult(m, check, ok, now).m.incident \in {m.incident, NoId}
         /\ OnResult(m, check, ok, now).t.id \in {m.incident, NoId}
  <1>1. CASE ok
    <2>1. OnResult(m, check, ok, now) = OnSuccess(m, check)
      BY <1>1, Zenon DEF OnResult
    <2>2. /\ OnSuccess(m, check).m = DefaultMachine \/ OnSuccess(m, check).m = Passed(m)
          /\ OnSuccess(m, check).t = Resolve(m.incident) \/ OnSuccess(m, check).t = Nothing
      BY Zenon DEF OnSuccess, Passed
    <2>3. /\ DefaultMachine.incident = NoId /\ Passed(m).incident = m.incident
          /\ Resolve(m.incident).id = m.incident /\ Nothing.id = NoId
      BY PassedFields, Zenon DEF DefaultMachine, Resolve, Nothing
    <2>4. QED
      BY <2>1, <2>2, <2>3, Zenon
  <1>2. CASE ~ok
    <2> DEFINE opened == [Failed(m) EXCEPT !.state = "down", !.lastReminder = now]
               alerted == [Failed(m) EXCEPT !.lastReminder = now]
               r == OnFailure(m, check, now)
    <2>1. OnResult(m, check, ok, now) = r
      BY <1>2, Zenon DEF OnResult
    <2>2. /\ r.m = opened \/ r.m = alerted \/ r.m = Failed(m)
          /\ r.t = Open \/ r.t = Remind(m.incident) \/ r.t = Nothing
      BY Zenon DEF OnFailure, Failed
    <2>3. Failed(m) \in Machine /\ Failed(m).incident = m.incident
      BY FailedFields
    <2>4. opened.incident = m.incident /\ alerted.incident = m.incident
      BY <2>3 DEF Machine
    <2>5. Open.id = NoId /\ Remind(m.incident).id = m.incident /\ Nothing.id = NoId
      BY DEF Open, Remind, Nothing
    <2> HIDE DEF opened, alerted, r
    <2>6. QED
      BY <2>1, <2>2, <2>3, <2>4, <2>5, Zenon
  <1>3. QED
    BY <1>1, <1>2

UsedOK == used \in [DOMAIN Bounds -> Nat]

\* Using up some of a bound keeps the counts natural.
LEMMA SpendType ==
  ASSUME TypeOK, NEW what \in DOMAIN Bounds, Spend(what)
  PROVE  UsedOK'
  <1> DEFINE D == DOMAIN Bounds
  <1>1. used \in [D -> Nat] /\ what \in D
    BY DEF TypeOK
  <1> HIDE DEF D
  <1>2. [used EXCEPT ![what] = @ + 1] \in [D -> Nat]
    BY <1>1
  <1>3. QED
    BY <1>2, Zenon DEF Spend, UsedOK, D, Bounds

\* A step keeps the types when it keeps those of what it writes.
LEMMA TypeAssembled ==
  ASSUME TypeOK, Grown, EngineOK',
         UNCHANGED machines \/ MachinesOK',
         UNCHANGED op \/ OpsOK',
         UNCHANGED <<cfg, applied>> \/ ConfigOK',
         UNCHANGED sick \/ sick' \subseteq Checks,
         UNCHANGED used \/ UsedOK'
  PROVE  TypeOK'
  <1>1. MachinesOK'
    BY MachinesCarried
  <1>2. OpsOK'
    BY OpsCarried
  <1>3. ConfigOK'
    BY DEF TypeOK, ConfigOK
  <1>4. sick' \subseteq Checks
    BY DEF TypeOK
  <1>5. (used \in [DOMAIN Bounds -> Nat])'
    BY Zenon DEF TypeOK, UsedOK, Bounds
  <1>6. RowsOK'
    BY DEF Grown
  <1>7. QED
    BY <1>1, <1>2, <1>3, <1>4, <1>5, <1>6, Zenon DEF TypeOK

\* A step that leaves the table alone does not shrink it.
LEMMA Steadily ==
  ASSUME TypeOK, UNCHANGED incidents
  PROVE  Grown
  BY RowsUnchanged, KeptGrown DEF TypeOK, RowsOK

\* The incident forget_unmonitored closes next is one of its list, and a row.
LEMMA NewestVictim ==
  ASSUME EngineAssumption, TypeOK, eng.victims # {}
  PROVE  Newest(eng.victims) \in eng.victims /\ Newest(eng.victims) \in 1..Len(incidents)
  <1>1. Len(incidents) \in Nat /\ eng.victims \subseteq 1..Len(incidents)
    BY LenProperties DEF TypeOK, RowsOK, EngineOK
  <1>2. QED
    BY <1>1, NewestIs

\* What active_incident_for returns is an open row of the component.
LEMMA NewestOpen ==
  ASSUME TypeOK, NEW k, OpenOn(k) # {}
  PROVE  Newest(OpenOn(k)) \in OpenOn(k) /\ Newest(OpenOn(k)) \in 1..Len(incidents)
  <1>1. Len(incidents) \in Nat /\ OpenOn(k) \subseteq 1..Len(incidents)
    BY LenProperties DEF TypeOK, RowsOK, OpenOn
  <1>2. QED
    BY <1>1, NewestIs

-----------------------------------------------------------------------------
(* One lemma per action: it keeps the types.                               *)

\* Start (run) keeps the types.
LEMMA StartType ==
  ASSUME EngineAssumption, TypeOK, Start
  PROVE  TypeOK'
  <1>1. Grown
    BY Steadily DEF Start
  <1>2. PICK s \in Shapes : cfg' = cfg \/ cfg' = [gen |-> cfg.gen + 1, shape |-> s]
    BY DEF Start
  <1>3. cfg' \in Config
    BY <1>2 DEF TypeOK, ConfigOK, Config
  <1>4. ConfigOK'
    BY <1>3 DEF Start, ConfigOK
  <1>5. EngineOK'
    <2>1. eng' = At("forget", "boot", cfg', {})
      BY DEF Start
    <2>2. "forget" \in Steps /\ "forget" \notin HandleSteps \cup ForgetSteps
      BY DEF Steps, HandleSteps, ForgetSteps
    <2>3. QED
      BY <1>1, <1>3, <2>1, <2>2, EngineAt
  <1>6. UNCHANGED used \/ UsedOK'
    <2>1. "reloads" \in DOMAIN Bounds
      BY DEF Bounds
    <2>2. QED
      BY <2>1, SpendType DEF Start
  <1>7. UNCHANGED <<machines, op, sick>>
    BY DEF Start
  <1>8. QED
    BY <1>1, <1>4, <1>5, <1>6, <1>7, TypeAssembled

\* Forget (AlertEngine::forget_unmonitored) keeps the types.
LEMMA ForgetType ==
  ASSUME EngineAssumption, TypeOK, Forget
  PROVE  TypeOK'
  <1> DEFINE found == Unmonitored(eng.tick.shape)
  <1>1. Grown
    BY Steadily DEF Forget
  <1>2. found \subseteq DOMAIN incidents /\ found \subseteq Ids
    BY LenProperties DEF Unmonitored, TypeOK, RowsOK, Ids, EngineAssumption
  <1>3. eng' = [eng EXCEPT !.at = "close", !.victims = found]
    BY DEF Forget
  <1>4. EngineOK'
    <2> HIDE DEF found
    <2>1. eng \in Engine /\ eng.id <= Len(incidents) /\ eng.closed \subseteq DOMAIN incidents
      BY DEF TypeOK, EngineOK
    <2>2. "close" \in Steps /\ "close" \notin HandleSteps \cup ForgetSteps
      BY DEF Steps, HandleSteps, ForgetSteps
    <2>3. eng' \in Engine
      BY <1>2, <1>3, <2>1, <2>2 DEF Engine
    <2>4. eng'.at = "close" /\ eng'.id = eng.id /\ eng'.victims = found /\ eng'.closed = eng.closed
      BY <1>3, <2>1 DEF Engine
    <2>5. UNCHANGED incidents
      BY DEF Forget
    <2>6. QED
      BY <1>2, <2>1, <2>2, <2>3, <2>4, <2>5 DEF EngineOK
  <1>5. UNCHANGED <<cfg, applied, machines, op, sick, used>>
    BY DEF Forget
  <1>6. QED
    BY <1>1, <1>4, <1>5, TypeAssembled

\* Close (AlertEngine::forget_unmonitored) keeps the types.
LEMMA CloseType ==
  ASSUME EngineAssumption, TypeOK, Close
  PROVE  TypeOK'
  <1> DEFINE v == Newest(eng.victims)
  <1>1. v \in eng.victims /\ v \in 1..Len(incidents)
    BY NewestVictim DEF Close
  <1> HIDE DEF v
  <1>2. Grown
    BY ResolveIncidentKeeps, KeptGrown DEF Close, v, TypeOK, RowsOK
  <1>3. EngineOK'
    <2>1. eng \in Engine /\ eng.victims \cup eng.closed \subseteq DOMAIN incidents
      BY DEF TypeOK, EngineOK
    <2>2. "closeUpdate" \in Steps /\ "closeUpdate" \notin HandleSteps
      BY DEF Steps, HandleSteps
    <2>3. eng' = [eng EXCEPT !.at = "closeUpdate", !.id = v]
      BY DEF Close, v
    <2>4. v \in Nat
      BY <1>1
    <2>5. eng' \in Engine
      BY <2>1, <2>2, <2>3, <2>4 DEF Engine
    <2>6. /\ eng'.at = "closeUpdate" /\ eng'.id = v
          /\ eng'.victims = eng.victims /\ eng'.closed = eng.closed
      BY <2>1, <2>3 DEF Engine
    <2>7. QED
      BY <1>1, <1>2, <2>1, <2>2, <2>5, <2>6, GrownIds DEF EngineOK
  <1>4. UNCHANGED <<cfg, applied, machines, op, sick, used>>
    BY DEF Close
  <1>5. QED
    BY <1>2, <1>3, <1>4, TypeAssembled

\* CloseUpdate (AlertEngine::forget_unmonitored) keeps the types.
LEMMA CloseUpdateType ==
  ASSUME TypeOK, CloseUpdate
  PROVE  TypeOK'
  <1>1. Grown
    BY AddUpdateKeeps, KeptGrown DEF CloseUpdate, Phase, TypeOK, RowsOK
  <1>2. EngineOK'
    <2>1. "closePublish" \in Steps /\ "closePublish" \notin HandleSteps
      BY DEF Steps, HandleSteps
    <2>2. eng.id \in eng.victims
      BY DEF CloseUpdate, TypeOK, EngineOK, ForgetSteps
    <2>3. QED
      BY <1>1, <2>1, <2>2, EngineGoes DEF CloseUpdate
  <1>3. UNCHANGED <<cfg, applied, machines, op, sick, used>>
    BY DEF CloseUpdate
  <1>4. QED
    BY <1>1, <1>2, <1>3, TypeAssembled

\* The loop over the closed incidents goes on.
LEMMA EngineClosed ==
  ASSUME TypeOK, Grown, eng.at = "closePublish", Closed
  PROVE  EngineOK'
  <1>1. /\ eng \in Engine /\ eng.id \in eng.victims
        /\ eng.victims \cup eng.closed \subseteq DOMAIN incidents
    BY DEF TypeOK, EngineOK, ForgetSteps
  <1>2. "close" \in Steps /\ "close" \notin HandleSteps \cup ForgetSteps
    BY DEF Steps, HandleSteps, ForgetSteps
  <1>3. /\ eng' \in Engine /\ eng'.at = "close" /\ eng'.id = 0
        /\ eng'.victims = eng.victims \ {eng.id} /\ eng'.closed = eng.closed \cup {eng.id}
    BY <1>1, <1>2 DEF Closed, Engine, NoId
  <1>4. QED
    BY <1>1, <1>2, <1>3, GrownIds DEF EngineOK

\* ClosePublish (AlertEngine::forget_unmonitored) keeps the types.
LEMMA ClosePublishType ==
  ASSUME TypeOK, ClosePublish
  PROVE  TypeOK'
  <1>1. Grown
    BY PublishIncidentKeeps, KeptGrown DEF ClosePublish, TypeOK, RowsOK
  <1>2. EngineOK'
    BY <1>1, EngineClosed DEF ClosePublish
  <1>3. UNCHANGED <<cfg, applied, machines, op, sick, used>>
    BY DEF ClosePublish
  <1>4. QED
    BY <1>1, <1>2, <1>3, TypeAssembled

\* The machines that survive a reconciliation, and new ones.
LEMMA MachinesRetained ==
  ASSUME TypeOK, Grown, Retain
  PROVE  MachinesOK'
  <1>1. DefaultMachine \in Machine /\ DefaultMachine.incident = 0
    BY DEF DefaultMachine, Machine, NoId
  <1>2. machines \in [Checks -> Machine] /\ \A c \in Checks : machines[c].incident \in Nat
    BY DEF TypeOK, MachinesOK, Machine
  <1>3. \A c \in Checks : machines'[c] \in {machines[c], DefaultMachine}
    BY Zenon DEF Retain
  <1>4. machines' \in [Checks -> Machine]
    BY <1>1, <1>2, <1>3 DEF Retain
  <1>5. \A c \in Checks : machines'[c].incident <= Len(incidents')
    BY <1>1, <1>2, <1>3, GrownIds DEF TypeOK, MachinesOK
  <1>6. QED
    BY <1>4, <1>5 DEF MachinesOK

\* Reconcile (prober_loop) keeps the types.
LEMMA ReconcileType ==
  ASSUME TypeOK, Reconcile
  PROVE  TypeOK'
  <1>1. Grown
    BY Steadily DEF Reconcile
  <1>2. eng.tick \in Config /\ eng.todo \subseteq Checks
    BY DEF TypeOK, EngineOK, Engine
  <1>3. EngineOK'
    <2>1. "probe" \in Steps /\ "probe" \notin HandleSteps \cup ForgetSteps
      BY DEF Steps, HandleSteps, ForgetSteps
    <2>2. QED
      BY <1>1, <1>2, <2>1, EngineAt DEF Reconcile
  <1>4. MachinesOK'
    BY <1>1, MachinesRetained DEF Reconcile
  <1>5. ConfigOK'
    BY <1>2 DEF Reconcile, TypeOK, ConfigOK
  <1>6. UNCHANGED <<op, sick, used>>
    BY DEF Reconcile
  <1>7. QED
    BY <1>1, <1>3, <1>4, <1>5, <1>6, TypeAssembled

\* Forgotten (AlertEngine::bootstrap) keeps the types.
LEMMA ForgottenType ==
  ASSUME EngineAssumption, TypeOK, Forgotten
  PROVE  TypeOK'
  <1>1. Grown
    BY Steadily DEF Forgotten
  <1>2. eng.tick \in Config /\ eng.tick.shape.checks \subseteq Checks
    BY DEF TypeOK, EngineOK, Engine, Config, EngineAssumption, Shape
  <1>3. EngineOK'
    <2>1. "resume" \in Steps /\ "resume" \notin HandleSteps \cup ForgetSteps
      BY DEF Steps, HandleSteps, ForgetSteps
    <2>2. QED
      BY <1>1, <1>2, <2>1, EngineAt DEF Forgotten
  <1>4. MachinesOK'
    BY <1>1, MachinesRetained DEF Forgotten
  <1>5. UNCHANGED <<cfg, applied, op, sick, used>>
    BY DEF Forgotten
  <1>6. QED
    BY <1>1, <1>3, <1>4, <1>5, TypeAssembled

\* A pass over the checks that only takes one from the list.
LEMMA EngineDrops ==
  ASSUME TypeOK, Grown, NEW c, eng' = [eng EXCEPT !.todo = @ \ {c}]
  PROVE  EngineOK'
  <1>1. eng \in Engine /\ eng.id \in Nat
    BY DEF TypeOK, EngineOK, Engine
  <1>2. eng' \in Engine
    BY <1>1 DEF Engine
  <1>3. /\ eng'.at = eng.at /\ eng'.id = eng.id /\ eng'.check = eng.check
        /\ eng'.victims = eng.victims /\ eng'.closed = eng.closed
    BY <1>1 DEF Engine
  <1>4. QED
    BY <1>1, <1>2, <1>3, GrownIds DEF TypeOK, EngineOK

\* Resume (AlertEngine::bootstrap) keeps the types.
LEMMA ResumeType ==
  ASSUME TypeOK, NEW c \in Checks, Resume(c)
  PROVE  TypeOK'
  <1> DEFINE open == OpenOn(IncidentComponent(eng.tick.shape, c))
  <1>1. Grown
    BY Steadily DEF Resume
  <1>2. EngineOK'
    BY <1>1, EngineDrops DEF Resume
  <1>3. UNCHANGED machines \/ MachinesOK'
    <2>1. CASE open = {}
      BY <2>1 DEF Resume
    <2>2. CASE open # {}
      <3> DEFINE id == Newest(open)
      <3>1. id \in 1..Len(incidents)
        BY <2>2, NewestOpen
      <3>2. machines' = [machines EXCEPT ![c] = Resumed(id)]
        BY <2>2 DEF Resume
      <3> HIDE DEF id
      <3>3. Resumed(id) \in Machine /\ Resumed(id).incident = id
        <4> DEFINE half == [DefaultMachine EXCEPT !.state = "down"]
        <4>1. DefaultMachine \in Machine
          BY DEF DefaultMachine, Machine, NoId
        <4>2. half \in Machine
          BY <4>1 DEF Machine
        <4>3. Resumed(id) = [half EXCEPT !.incident = id]
          BY DEF Resumed
        <4> HIDE DEF half
        <4>4. id \in Nat
          BY <3>1
        <4>5. QED
          BY <4>2, <4>3, <4>4 DEF Machine
      <3>4. \A d \in Checks : machines[d].incident \in Nat
        BY DEF TypeOK, MachinesOK, Machine
      <3>5. QED
        BY <1>1, <3>1, <3>2, <3>3, <3>4, GrownIds DEF TypeOK, MachinesOK
    <2>3. QED
      BY <2>1, <2>2
  <1>4. UNCHANGED <<cfg, applied, op, sick, used>>
    BY DEF Resume
  <1>5. QED
    BY <1>1, <1>2, <1>3, <1>4, TypeAssembled

\* Serve (run) keeps the types.
LEMMA ServeType ==
  ASSUME TypeOK, Serve
  PROVE  TypeOK'
  <1>1. Grown
    BY Steadily DEF Serve
  <1>2. EngineOK'
    <2>1. eng.tick \in Config
      BY DEF TypeOK, EngineOK, Engine
    <2>2. "starting" \in Steps /\ "starting" \notin HandleSteps \cup ForgetSteps
      BY DEF Steps, HandleSteps, ForgetSteps
    <2>3. QED
      BY <1>1, <2>1, <2>2, EngineAt DEF Serve
  <1>3. UNCHANGED <<cfg, applied, machines, op, sick, used>>
    BY DEF Serve
  <1>4. QED
    BY <1>1, <1>2, <1>3, TypeAssembled

\* EnterProber (prober_loop) keeps the types.
LEMMA EnterProberType ==
  ASSUME TypeOK, EnterProber
  PROVE  TypeOK'
  <1>1. Grown
    BY Steadily DEF EnterProber
  <1>2. ConfigOK'
    BY DEF EnterProber, TypeOK, ConfigOK
  <1>3. EngineOK'
    <2>1. "idle" \in Steps /\ "idle" \notin HandleSteps \cup ForgetSteps
      BY DEF Steps, HandleSteps, ForgetSteps
    <2>2. cfg \in Config
      BY DEF TypeOK, ConfigOK
    <2>3. QED
      BY <1>1, <2>1, <2>2, EngineAt DEF EnterProber
  <1>4. UNCHANGED <<machines, op, sick, used>>
    BY DEF EnterProber
  <1>5. QED
    BY <1>1, <1>2, <1>3, <1>4, TypeAssembled

\* Tick (prober_loop) keeps the types.
LEMMA TickType ==
  ASSUME TypeOK, NEW due \in SUBSET Checks, Tick(due)
  PROVE  TypeOK'
  <1>1. Grown
    BY Steadily DEF Tick
  <1>2. EngineOK'
    <2>1. PICK step \in {"forget", "probe"} : eng' = At(step, "tick", cfg, due)
      BY DEF Tick
    <2>2. step \in Steps /\ step \notin HandleSteps \cup ForgetSteps
      BY DEF Steps, HandleSteps, ForgetSteps
    <2>3. cfg \in Config
      BY DEF TypeOK, ConfigOK
    <2>4. QED
      BY <1>1, <2>1, <2>2, <2>3, EngineAt
  <1>3. UNCHANGED <<cfg, applied, machines, op, sick, used>>
    BY DEF Tick
  <1>4. QED
    BY <1>1, <1>2, <1>3, TypeAssembled

\* Skip (prober_loop) keeps the types.
LEMMA SkipType ==
  ASSUME TypeOK, NEW c \in Checks, Skip(c)
  PROVE  TypeOK'
  <1>1. Grown
    BY Steadily DEF Skip
  <1>2. EngineOK'
    BY <1>1, EngineDrops DEF Skip
  <1>3. UNCHANGED <<cfg, applied, machines, op, sick, used>>
    BY DEF Skip
  <1>4. QED
    BY <1>1, <1>2, <1>3, TypeAssembled

\* EndTick (prober_loop) keeps the types.
LEMMA EndTickType ==
  ASSUME TypeOK, EndTick
  PROVE  TypeOK'
  <1>1. Grown
    BY Steadily DEF EndTick
  <1>2. EngineOK'
    <2>1. "idle" \in Steps /\ "idle" \notin HandleSteps \cup ForgetSteps
      BY DEF Steps, HandleSteps, ForgetSteps
    <2>2. applied \in Config
      BY DEF TypeOK, ConfigOK
    <2>3. QED
      BY <1>1, <2>1, <2>2, EngineAt DEF EndTick
  <1>3. UNCHANGED <<cfg, applied, machines, op, sick, used>>
    BY DEF EndTick
  <1>4. QED
    BY <1>1, <1>2, <1>3, TypeAssembled

\* The machine handle() applies a result to is a machine.
LEMMA CurrentType ==
  ASSUME TypeOK, NEW c \in Checks
  PROVE  /\ Current(c) \in Machine
         /\ Current(c).incident \in {machines[c].incident, NoId}
  <1>1. DefaultMachine \in Machine /\ DefaultMachine.incident = NoId
    BY DEF DefaultMachine, Machine, NoId
  <1>2. machines[c] \in Machine
    BY DEF TypeOK, MachinesOK
  <1>3. QED
    BY <1>1, <1>2 DEF Current

\* Probe (prober_loop) keeps the types.
LEMMA ProbeType ==
  ASSUME EngineAssumption, TypeOK, NEW c \in Checks, Probe(c)
  PROVE  TypeOK'
  <1> DEFINE r == OnResult(Current(c), Settings, c \notin sick, 0)
  <1>1. Grown
    BY Steadily DEF Probe
  <1>2. Settings \in Check /\ (c \notin sick) \in BOOLEAN /\ 0 \in Nat
    BY DEF EngineAssumption
  <1>3. r.m \in Machine /\ r.t \in Transition
    BY <1>2, CurrentType, OnResultType, Zenon
  <1>4. machines[c].incident \in Nat /\ machines[c].incident <= Len(incidents)
    BY DEF TypeOK, MachinesOK, Machine
  <1>5. /\ r.m.incident \in {machines[c].incident, NoId}
        /\ r.t.id \in {machines[c].incident, NoId}
    BY <1>2, CurrentType, OnResultIncident, Zenon
  <1>6. machines' = [machines EXCEPT ![c] = Saturate(r.m, Settings)]
    BY DEF Probe
  <1>7. \/ eng' = [eng EXCEPT !.todo = @ \ {c}]
        \/ \E m \in Muting : /\ StepFor[r.t.kind] # "probe"
                              /\ eng' = [eng EXCEPT !.at = StepFor[r.t.kind], !.check = c,
                                                   !.id = r.t.id, !.muted = m /\ r.t = Open]
    BY Zenon DEF Probe
  <1> HIDE DEF r
  <1>8. MachinesOK'
    <2>1. Saturate(r.m, Settings) \in Machine /\ Saturate(r.m, Settings).incident = r.m.incident
      BY <1>2, <1>3, SaturateFields
    <2>2. r.m.incident <= Len(incidents')
      BY <1>1, <1>4, <1>5, GrownIds DEF NoId
    <2>3. \A d \in Checks : machines[d].incident \in Nat
      BY DEF TypeOK, MachinesOK, Machine
    <2>4. QED
      BY <1>1, <1>6, <2>1, <2>2, <2>3, GrownIds DEF TypeOK, MachinesOK
  <1>9. EngineOK'
    <2>1. CASE eng' = [eng EXCEPT !.todo = @ \ {c}]
      BY <1>1, <2>1, EngineDrops
    <2>2. ASSUME NEW step \in {"lookup", "resolve"}, NEW m \in BOOLEAN, NEW id \in Nat,
                 id <= Len(incidents'),
                 eng' = [eng EXCEPT !.at = step, !.check = c, !.id = id, !.muted = m]
          PROVE  EngineOK'
      <3>1. eng \in Engine
        BY DEF TypeOK, EngineOK
      <3>2. step \in Steps /\ step \notin ForgetSteps
        BY DEF Steps, ForgetSteps
      <3>3. eng' \in Engine
        BY <2>2, <3>1, <3>2 DEF Engine
      <3>4. /\ eng'.at = step /\ eng'.id = id /\ eng'.check = c
            /\ eng'.victims = eng.victims /\ eng'.closed = eng.closed
        BY <2>2, <3>1 DEF Engine
      <3>5. eng'.victims \cup eng'.closed \subseteq DOMAIN incidents'
        BY <1>1, <3>4, GrownIds DEF TypeOK, EngineOK
      <3>6. QED
        BY <2>2, <3>2, <3>3, <3>4, <3>5 DEF EngineOK
    <2>3. r.t.id \in Nat /\ r.t.id <= Len(incidents')
      BY <1>1, <1>4, <1>5, GrownIds DEF NoId
    <2>4. StepFor[r.t.kind] # "probe" => StepFor[r.t.kind] \in {"lookup", "resolve"}
      BY <1>3 DEF StepFor, Transition
    <2>5. ASSUME NEW m PROVE (m /\ r.t = Open) \in BOOLEAN
      OBVIOUS
    <2>6. QED
      BY <1>7, <2>1, <2>2, <2>3, <2>4, <2>5
  <1>10. UNCHANGED <<cfg, applied, op, sick, used>>
    BY DEF Probe
  <1>11. QED
    BY <1>1, <1>8, <1>9, <1>10, TypeAssembled

\* Lookup (AlertEngine::handle) keeps the types.
LEMMA LookupType ==
  ASSUME TypeOK, Lookup
  PROVE  TypeOK'
  <1> DEFINE open == OpenOn(Component)
  <1>1. Grown
    BY Steadily DEF Lookup
  <1>2. eng.check \in Checks
    BY DEF Lookup, TypeOK, EngineOK, HandleSteps
  <1>3. UNCHANGED <<cfg, applied, op, sick, used>>
    BY DEF Lookup
  <1>4. CASE open # {}
    <2>1. Newest(open) \in Nat /\ Newest(open) <= Len(incidents')
      BY <1>1, <1>4, NewestOpen, GrownIds
    <2>2. Attach(Newest(open)) /\ NextCheck
      BY <1>4 DEF Lookup
    <2>3. MachinesOK'
      BY <1>1, <1>2, <2>1, <2>2, MachineAttached
    <2>4. EngineOK'
      BY <1>1, <2>2, EngineNextCheck
    <2>5. QED
      BY <1>1, <1>3, <2>3, <2>4, TypeAssembled
  <1>5. CASE open = {}
    <2>1. Go("create") /\ UNCHANGED machines
      BY <1>5 DEF Lookup
    <2>2. "create" \in Steps /\ "create" \notin ForgetSteps
      BY DEF Steps, ForgetSteps
    <2>3. EngineOK'
      BY <1>1, <1>2, <2>1, <2>2, EngineGoes
    <2>4. QED
      BY <1>1, <1>3, <2>1, <2>3, TypeAssembled
  <1>6. QED
    BY <1>4, <1>5

\* The component handle() works on is one.
LEMMA ComponentType ==
  ASSUME EngineAssumption, TypeOK, eng.check \in Checks
  PROVE  Component \in Components
  <1>1. eng.tick.shape \in Shapes
    BY DEF TypeOK, EngineOK, Engine, Config
  <1>2. QED
    BY <1>1, IncidentComponentType DEF Component

\* Create (AlertEngine::handle) keeps the types.
LEMMA CreateType ==
  ASSUME EngineAssumption, TypeOK, Create
  PROVE  TypeOK'
  <1>1. eng.check \in Checks
    BY DEF Create, TypeOK, EngineOK, HandleSteps
  <1>2. Component \in Components
    BY <1>1, ComponentType
  <1>3. RowAdded(Component, TRUE)
    BY <1>2, CreateIncidentAdds DEF Create, TypeOK, RowsOK
  <1>4. Grown
    BY <1>3, AddedGrown
  <1>5. EngineOK'
    <2>1. eng \in Engine
      BY DEF TypeOK, EngineOK
    <2>2. "firstUpdate" \in Steps /\ "firstUpdate" \notin ForgetSteps
      BY DEF Steps, ForgetSteps
    <2>3. eng' = [eng EXCEPT !.at = "firstUpdate", !.id = Len(incidents')]
      BY DEF Create
    <2>4. Len(incidents') \in Nat
      BY <1>4, GrownIds
    <2>5. eng' \in Engine
      BY <2>1, <2>2, <2>3, <2>4 DEF Engine
    <2>6. /\ eng'.at = "firstUpdate" /\ eng'.id = Len(incidents') /\ eng'.check = eng.check
          /\ eng'.victims = eng.victims /\ eng'.closed = eng.closed
      BY <2>1, <2>3 DEF Engine
    <2>7. eng'.victims \cup eng'.closed \subseteq DOMAIN incidents'
      BY <1>4, <2>6, GrownIds DEF TypeOK, EngineOK
    <2>8. QED
      BY <1>1, <2>2, <2>4, <2>5, <2>6, <2>7 DEF EngineOK
  <1>6. UNCHANGED <<cfg, applied, machines, op, sick, used>>
    BY DEF Create
  <1>7. QED
    BY <1>4, <1>5, <1>6, TypeAssembled

\* FirstUpdate (AlertEngine::handle) keeps the types.
LEMMA FirstUpdateType ==
  ASSUME TypeOK, FirstUpdate
  PROVE  TypeOK'
  <1>1. Grown
    BY AddUpdateKeeps, KeptGrown DEF FirstUpdate, Phase, TypeOK, RowsOK
  <1>2. EngineOK'
    <2>1. "announce" \in Steps /\ "announce" \notin ForgetSteps
      BY DEF Steps, ForgetSteps
    <2>2. eng.check \in Checks
      BY DEF FirstUpdate, TypeOK, EngineOK, HandleSteps
    <2>3. QED
      BY <1>1, <2>1, <2>2, EngineGoes DEF FirstUpdate
  <1>3. UNCHANGED <<cfg, applied, machines, op, sick, used>>
    BY DEF FirstUpdate
  <1>4. QED
    BY <1>1, <1>2, <1>3, TypeAssembled

\* Announce (AlertEngine::handle) keeps the types.
LEMMA AnnounceType ==
  ASSUME TypeOK, Announce
  PROVE  TypeOK'
  <1>1. Grown
    BY MarkQuietKeeps, PublishIncidentKeeps, KeptGrown DEF Announce, TypeOK, RowsOK
  <1>2. EngineOK'
    BY <1>1, EngineNextCheck DEF Announce
  <1>3. MachinesOK'
    <2>1. eng.id \in Nat /\ eng.id <= Len(incidents') /\ eng.check \in Checks
      BY <1>1, GrownIds DEF Announce, TypeOK, EngineOK, Engine, HandleSteps
    <2>2. QED
      BY <1>1, <2>1, MachineAttached DEF Announce
  <1>4. UNCHANGED <<cfg, applied, op, sick, used>>
    BY DEF Announce
  <1>5. QED
    BY <1>1, <1>2, <1>3, <1>4, TypeAssembled

\* ResolveRow (AlertEngine::handle) keeps the types.
LEMMA ResolveRowType ==
  ASSUME TypeOK, ResolveRow
  PROVE  TypeOK'
  <1>1. Grown
    BY ResolveIncidentKeeps, KeptGrown DEF ResolveRow, TypeOK, RowsOK
  <1>2. EngineOK'
    <2>1. "resolveUpdate" \in Steps /\ "resolveUpdate" \notin ForgetSteps
      BY DEF Steps, ForgetSteps
    <2>2. eng.check \in Checks
      BY DEF ResolveRow, TypeOK, EngineOK, HandleSteps
    <2>3. QED
      BY <1>1, <2>1, <2>2, EngineGoes DEF ResolveRow
  <1>3. UNCHANGED <<cfg, applied, machines, op, sick, used>>
    BY DEF ResolveRow
  <1>4. QED
    BY <1>1, <1>2, <1>3, TypeAssembled

\* ResolveUpdate (AlertEngine::handle) keeps the types.
LEMMA ResolveUpdateType ==
  ASSUME TypeOK, ResolveUpdate
  PROVE  TypeOK'
  <1>1. Grown
    BY AddUpdateKeeps, KeptGrown DEF ResolveUpdate, Phase, TypeOK, RowsOK
  <1>2. EngineOK'
    <2>1. "resolvePublish" \in Steps /\ "resolvePublish" \notin ForgetSteps
      BY DEF Steps, ForgetSteps
    <2>2. eng.check \in Checks
      BY DEF ResolveUpdate, TypeOK, EngineOK, HandleSteps
    <2>3. QED
      BY <1>1, <2>1, <2>2, EngineGoes DEF ResolveUpdate
  <1>3. UNCHANGED <<cfg, applied, machines, op, sick, used>>
    BY DEF ResolveUpdate
  <1>4. QED
    BY <1>1, <1>2, <1>3, TypeAssembled

\* ResolvePublish (AlertEngine::handle) keeps the types.
LEMMA ResolvePublishType ==
  ASSUME TypeOK, ResolvePublish
  PROVE  TypeOK'
  <1>1. Grown
    BY PublishIncidentKeeps, KeptGrown DEF ResolvePublish, TypeOK, RowsOK
  <1>2. EngineOK'
    BY <1>1, EngineNextCheck DEF ResolvePublish
  <1>3. UNCHANGED <<cfg, applied, machines, op, sick, used>>
    BY DEF ResolvePublish
  <1>4. QED
    BY <1>1, <1>2, <1>3, TypeAssembled

-----------------------------------------------------------------------------
(* Web handlers.                                                           *)

\* A request that holds an id of a row is a request.
LEMMA RequestStored ==
  ASSUME TypeOK, Grown, NEW o \in Operators, NEW r \in Request, r.id <= Len(incidents'),
         op' = [op EXCEPT ![o] = r]
  PROVE  OpsOK'
  <1>1. \A x \in Operators : op[x].id \in Nat
    BY DEF TypeOK, OpsOK, Request
  <1>2. QED
    BY <1>1, GrownIds DEF TypeOK, OpsOK

\* A request at its next call keeps its type.
LEMMA RequestMoved ==
  ASSUME TypeOK, Grown, NEW o \in Operators,
         NEW step \in {"idle", "update", "set", "publish"},
         op' = [op EXCEPT ![o].at = step]
  PROVE  OpsOK'
  <1>1. op[o] \in Request /\ op[o].id <= Len(incidents) /\ op[o].id \in Nat
    BY DEF TypeOK, OpsOK, Request
  <1> DEFINE r == [op[o] EXCEPT !.at = step]
  <1>2. r \in Request /\ r.id = op[o].id
    BY <1>1 DEF Request
  <1>3. op' = [op EXCEPT ![o] = r]
    OBVIOUS
  <1> HIDE DEF r
  <1>4. QED
    BY <1>1, <1>2, <1>3, RequestStored, GrownIds

\* A request that is answered leaves its operator idle.
LEMMA RequestEnded ==
  ASSUME TypeOK, Grown, NEW o \in Operators, op' = [op EXCEPT ![o] = IdleOp]
  PROVE  OpsOK'
  <1>1. IdleOp \in Request /\ IdleOp.id = 0
    BY DEF IdleOp, Request, Phase, NoId
  <1>2. IdleOp.id <= Len(incidents')
    BY <1>1, GrownIds
  <1>3. QED
    BY <1>1, <1>2, RequestStored

\* A request begins: it uses up some of its bound.
LEMMA RequestSpent ==
  ASSUME TypeOK, Spend("requests")
  PROVE  UsedOK'
  <1>1. "requests" \in DOMAIN Bounds
    BY DEF Bounds
  <1>2. QED
    BY <1>1, SpendType

\* OpCreate (create_incident) keeps the types.
LEMMA OpCreateType ==
  ASSUME EngineAssumption, TypeOK, NEW o \in Operators, NEW k \in ManualOn, OpCreate(o, k)
  PROVE  TypeOK'
  <1>1. RowAdded(k, FALSE)
    BY CreateIncidentAdds DEF OpCreate, TypeOK, RowsOK, EngineAssumption
  <1>2. Grown
    BY <1>1, AddedGrown
  <1>3. EngineOK'
    BY <1>2, EngineCarried DEF OpCreate
  <1>4. OpsOK'
    <2> DEFINE r == [at |-> "update", kind |-> "create", id |-> Len(incidents'), to |-> "ongoing"]
    <2>1. r \in Request /\ r.id <= Len(incidents')
      BY <1>2, GrownIds DEF Request, Phase
    <2>2. op' = [op EXCEPT ![o] = r]
      BY DEF OpCreate
    <2> HIDE DEF r
    <2>3. QED
      BY <1>2, <2>1, <2>2, RequestStored
  <1>5. UsedOK'
    BY RequestSpent DEF OpCreate
  <1>6. UNCHANGED <<cfg, applied, machines, sick>>
    BY DEF OpCreate
  <1>7. QED
    BY <1>2, <1>3, <1>4, <1>5, <1>6, TypeAssembled

\* OpUpdate (add_update) keeps the types.
LEMMA OpUpdateType ==
  ASSUME TypeOK, NEW o \in Operators, NEW id \in DOMAIN incidents, NEW to \in Phase,
         OpUpdate(o, id, to)
  PROVE  TypeOK'
  <1>1. Grown
    BY AddUpdateKeeps, KeptGrown DEF OpUpdate, TypeOK, RowsOK
  <1>2. EngineOK'
    BY <1>1, EngineCarried DEF OpUpdate
  <1>3. OpsOK'
    <2> DEFINE r == [at |-> "set", kind |-> "update", id |-> id, to |-> to]
    <2>1. id \in Nat /\ id <= Len(incidents')
      BY <1>1, LenProperties, GrownIds DEF TypeOK, RowsOK
    <2>2. r \in Request /\ r.id <= Len(incidents')
      BY <2>1 DEF Request
    <2>3. op' = [op EXCEPT ![o] = r]
      BY DEF OpUpdate
    <2> HIDE DEF r
    <2>4. QED
      BY <1>1, <2>2, <2>3, RequestStored
  <1>4. UsedOK'
    BY RequestSpent DEF OpUpdate
  <1>5. UNCHANGED <<cfg, applied, machines, sick>>
    BY DEF OpUpdate
  <1>6. QED
    BY <1>1, <1>2, <1>3, <1>4, <1>5, TypeAssembled

\* OpResolve (resolve_incident) keeps the types.
LEMMA OpResolveType ==
  ASSUME TypeOK, NEW o \in Operators, NEW id \in DOMAIN incidents, OpResolve(o, id)
  PROVE  TypeOK'
  <1>1. Grown
    BY ResolveIncidentKeeps, KeptGrown DEF OpResolve, TypeOK, RowsOK
  <1>2. EngineOK'
    BY <1>1, EngineCarried DEF OpResolve
  <1>3. OpsOK'
    <2> DEFINE r == [at |-> "update", kind |-> "resolve", id |-> id, to |-> "resolved"]
    <2>1. id \in Nat /\ id <= Len(incidents')
      BY <1>1, LenProperties, GrownIds DEF TypeOK, RowsOK
    <2>2. r \in Request /\ r.id <= Len(incidents')
      BY <2>1 DEF Request, Phase
    <2>3. op' = [op EXCEPT ![o] = r]
      BY DEF OpResolve
    <2> HIDE DEF r
    <2>4. QED
      BY <1>1, <2>2, <2>3, RequestStored
  <1>4. UsedOK'
    BY RequestSpent DEF OpResolve
  <1>5. UNCHANGED <<cfg, applied, machines, sick>>
    BY DEF OpResolve
  <1>6. QED
    BY <1>1, <1>2, <1>3, <1>4, <1>5, TypeAssembled

\* OpEntry keeps the types.
LEMMA OpEntryType ==
  ASSUME TypeOK, NEW o \in Operators, OpEntry(o)
  PROVE  TypeOK'
  <1>1. op[o].to \in Phase
    BY DEF TypeOK, OpsOK, Request
  <1>2. Grown
    BY <1>1, AddUpdateKeeps, KeptGrown DEF OpEntry, TypeOK, RowsOK
  <1>3. EngineOK'
    BY <1>2, EngineCarried DEF OpEntry
  <1>4. OpsOK'
    BY <1>2, RequestMoved DEF OpEntry
  <1>5. UNCHANGED <<cfg, applied, machines, sick, used>>
    BY DEF OpEntry
  <1>6. QED
    BY <1>2, <1>3, <1>4, <1>5, TypeAssembled

\* OpSet (add_update) keeps the types.
LEMMA OpSetType ==
  ASSUME TypeOK, NEW o \in Operators, OpSet(o)
  PROVE  TypeOK'
  <1>1. op[o].to \in Phase
    BY DEF TypeOK, OpsOK, Request
  <1>2. RowsKept
    BY <1>1, ResolveIncidentKeeps, SetIncidentStateKeeps DEF OpSet, TypeOK, RowsOK
  <1>3. Grown
    BY <1>2, KeptGrown
  <1>4. EngineOK'
    BY <1>3, EngineCarried DEF OpSet
  <1>5. OpsOK'
    BY <1>3, RequestMoved DEF OpSet
  <1>6. UNCHANGED <<cfg, applied, machines, sick, used>>
    BY DEF OpSet
  <1>7. QED
    BY <1>3, <1>4, <1>5, <1>6, TypeAssembled

\* OpPublish keeps the types.
LEMMA OpPublishType ==
  ASSUME TypeOK, NEW o \in Operators, OpPublish(o)
  PROVE  TypeOK'
  <1>1. Change(op[o]) \in {"opened", "updated", "resolved"}
    BY DEF Change
  <1>2. Grown
    BY <1>1, PublishIncidentKeeps, KeptGrown DEF OpPublish, TypeOK, RowsOK
  <1>3. EngineOK'
    BY <1>2, EngineCarried DEF OpPublish
  <1>4. OpsOK'
    BY <1>2, RequestEnded DEF OpPublish
  <1>5. UNCHANGED <<cfg, applied, machines, sick, used>>
    BY DEF OpPublish
  <1>6. QED
    BY <1>2, <1>3, <1>4, <1>5, TypeAssembled

-----------------------------------------------------------------------------
(* Failures, crashes, reloads and targets.                                 *)

\* The process stops: its memory is gone.
EngineDown == eng' = At("down", "boot", cfg, {})

\* A process that is gone leaves an engine that is down.
LEMMA EngineStopped ==
  ASSUME TypeOK, Grown, EngineDown
  PROVE  EngineOK'
  <1>1. "down" \in Steps /\ "down" \notin HandleSteps \cup ForgetSteps
    BY DEF Steps, HandleSteps, ForgetSteps
  <1>2. cfg \in Config
    BY DEF TypeOK, ConfigOK
  <1>3. QED
    BY <1>1, <1>2, EngineAt DEF EngineDown

\* A failing call uses up some of its bound.
LEMMA FaultSpent ==
  ASSUME TypeOK, Spend("faults")
  PROVE  UsedOK'
  <1>1. "faults" \in DOMAIN Bounds
    BY DEF Bounds
  <1>2. QED
    BY <1>1, SpendType

\* DbFails (prober_loop) keeps the types.
LEMMA DbFailsType ==
  ASSUME TypeOK, DbFails
  PROVE  TypeOK'
  <1>1. Grown
    BY Steadily DEF DbFails
  <1>2. UsedOK'
    BY FaultSpent DEF DbFails
  <1>3. UNCHANGED <<cfg, applied, op, sick>>
    BY DEF DbFails
  <1>4. CASE NextCheck /\ UNCHANGED machines
    BY <1>1, <1>2, <1>3, <1>4, EngineNextCheck, TypeAssembled
  <1>5. CASE eng' = At("probe", "tick", eng.tick, eng.todo) /\ UNCHANGED machines
    <2>1. "probe" \in Steps /\ "probe" \notin HandleSteps \cup ForgetSteps
      BY DEF Steps, HandleSteps, ForgetSteps
    <2>2. eng.tick \in Config /\ eng.todo \subseteq Checks
      BY DEF TypeOK, EngineOK, Engine
    <2>3. EngineOK'
      BY <1>1, <1>5, <2>1, <2>2, EngineAt
    <2>4. QED
      BY <1>1, <1>2, <1>3, <1>5, <2>3, TypeAssembled
  <1>6. CASE EngineDown /\ machines' = Fresh
    BY <1>1, <1>2, <1>3, <1>6, EngineStopped, MachinesFresh, TypeAssembled
  <1>7. QED
    BY <1>4, <1>5, <1>6 DEF DbFails, EngineDown

\* PublishFails (publish_incident) keeps the types.
LEMMA PublishFailsType ==
  ASSUME TypeOK, PublishFails
  PROVE  TypeOK'
  <1>1. Grown
    BY Steadily DEF PublishFails
  <1>2. UsedOK'
    BY FaultSpent DEF PublishFails
  <1>3. UNCHANGED <<cfg, applied, op, sick>>
    BY DEF PublishFails
  <1>4. CASE eng.at = "closePublish" /\ Closed /\ UNCHANGED machines
    BY <1>1, <1>2, <1>3, <1>4, EngineClosed, TypeAssembled
  <1>5. CASE NextCheck /\ UNCHANGED machines
    BY <1>1, <1>2, <1>3, <1>5, EngineNextCheck, TypeAssembled
  <1>6. CASE eng.at = "announce" /\ Attach(eng.id) /\ NextCheck
    <2>1. eng.id \in Nat /\ eng.id <= Len(incidents') /\ eng.check \in Checks
      BY <1>1, <1>6, GrownIds DEF TypeOK, EngineOK, Engine, HandleSteps
    <2>2. MachinesOK'
      BY <1>1, <1>6, <2>1, MachineAttached
    <2>3. EngineOK'
      BY <1>1, <1>6, EngineNextCheck
    <2>4. QED
      BY <1>1, <1>2, <1>3, <2>2, <2>3, TypeAssembled
  <1>7. QED
    BY <1>4, <1>5, <1>6 DEF PublishFails

\* OpFails (resolve_incident) keeps the types.
LEMMA OpFailsType ==
  ASSUME TypeOK, NEW o \in Operators, OpFails(o)
  PROVE  TypeOK'
  <1>1. Grown
    BY Steadily DEF OpFails
  <1>2. EngineOK'
    BY <1>1, EngineCarried DEF OpFails
  <1>3. OpsOK'
    BY <1>1, RequestEnded DEF OpFails
  <1>4. UsedOK'
    BY FaultSpent DEF OpFails
  <1>5. UNCHANGED <<cfg, applied, machines, sick>>
    BY DEF OpFails
  <1>6. QED
    BY <1>1, <1>2, <1>3, <1>4, <1>5, TypeAssembled

\* Crash (AlertEngine) keeps the types.
LEMMA CrashType ==
  ASSUME TypeOK, Crash
  PROVE  TypeOK'
  <1>1. Grown
    BY Steadily DEF Crash
  <1>2. EngineOK'
    BY <1>1, EngineStopped DEF Crash, EngineDown
  <1>3. MachinesOK'
    BY <1>1, MachinesFresh DEF Crash
  <1>4. OpsOK'
    <2>1. IdleOp \in Request /\ IdleOp.id = 0
      BY DEF IdleOp, Request, Phase, NoId
    <2>2. op' = [o \in Operators |-> IdleOp]
      BY DEF Crash
    <2>3. QED
      BY <1>1, <2>1, <2>2, GrownIds DEF OpsOK
  <1>5. UsedOK'
    <2>1. "crashes" \in DOMAIN Bounds
      BY DEF Bounds
    <2>2. QED
      BY <2>1, SpendType DEF Crash
  <1>6. UNCHANGED <<cfg, applied, sick>>
    BY DEF Crash
  <1>7. QED
    BY <1>1, <1>2, <1>3, <1>4, <1>5, <1>6, TypeAssembled

\* Reload (apply_reload) keeps the types.
LEMMA ReloadType ==
  ASSUME TypeOK, NEW s \in Shapes, Reload(s)
  PROVE  TypeOK'
  <1>1. Grown
    BY Steadily DEF Reload
  <1>2. EngineOK'
    BY <1>1, EngineCarried DEF Reload
  <1>3. ConfigOK'
    <2>1. cfg' = [gen |-> cfg.gen + 1, shape |-> s] /\ UNCHANGED applied
      BY DEF Reload
    <2>2. QED
      BY <2>1 DEF TypeOK, ConfigOK, Config
  <1>4. UsedOK'
    <2>1. "reloads" \in DOMAIN Bounds
      BY DEF Bounds
    <2>2. QED
      BY <2>1, SpendType DEF Reload
  <1>5. UNCHANGED <<machines, op, sick>>
    BY DEF Reload
  <1>6. QED
    BY <1>1, <1>2, <1>3, <1>4, <1>5, TypeAssembled

\* Flip (the service a check probes) keeps the types.
LEMMA FlipType ==
  ASSUME TypeOK, NEW c \in Checks, Flip(c)
  PROVE  TypeOK'
  <1>1. Grown
    BY Steadily DEF Flip
  <1>2. EngineOK'
    BY <1>1, EngineCarried DEF Flip
  <1>3. sick' \subseteq Checks
    BY DEF Flip, TypeOK
  <1>4. UsedOK'
    <2>1. "flips" \in DOMAIN Bounds
      BY DEF Bounds
    <2>2. QED
      BY <2>1, SpendType DEF Flip
  <1>5. UNCHANGED <<cfg, applied, machines, op>>
    BY DEF Flip
  <1>6. QED
    BY <1>1, <1>2, <1>3, <1>4, <1>5, TypeAssembled

\* The initial states have their types.
LEMMA TypeInit ==
  ASSUME EngineAssumption, Init
  PROVE  TypeOK
  <1>1. PICK s \in Shapes : cfg = [gen |-> 0, shape |-> s]
    BY DEF Init
  <1>2. cfg \in Config
    BY <1>1 DEF Config
  <1>3. incidents = <<>> /\ Len(incidents) = 0 /\ DOMAIN incidents = {}
    BY DEF Init
  <1>4. RowsOK
    BY <1>3, EmptySeq DEF RowsOK, EngineAssumption
  <1>5. ConfigOK
    BY <1>2 DEF Init, ConfigOK
  <1>6. EngineOK
    <2>1. "forget" \in Steps /\ "forget" \notin HandleSteps \cup ForgetSteps
      BY DEF Steps, HandleSteps, ForgetSteps
    <2>2. eng = At("forget", "boot", cfg, {})
      BY DEF Init
    <2>3. eng \in Engine
      BY <1>2, <2>1, <2>2, AtType
    <2>4. eng.at = "forget" /\ eng.id = 0 /\ eng.victims = {} /\ eng.closed = {}
      BY <2>2 DEF At, NoId
    <2>5. QED
      BY <1>3, <2>1, <2>3, <2>4 DEF EngineOK
  <1>7. MachinesOK
    <2>1. DefaultMachine \in Machine /\ DefaultMachine.incident = 0
      BY DEF DefaultMachine, Machine, NoId
    <2>2. QED
      BY <1>3, <2>1 DEF Init, Fresh, MachinesOK
  <1>8. OpsOK
    <2>1. IdleOp \in Request /\ IdleOp.id = 0
      BY DEF IdleOp, Request, Phase, NoId
    <2>2. QED
      BY <1>3, <2>1 DEF Init, OpsOK
  <1>9. sick \subseteq Checks /\ used \in [DOMAIN Bounds -> Nat]
    BY DEF Init
  <1>10. QED
    BY <1>4, <1>5, <1>6, <1>7, <1>8, <1>9 DEF TypeOK

\* Every step keeps the types, one case for each action.
LEMMA TypeNext ==
  ASSUME EngineAssumption, TypeOK, [Next]_vars
  PROVE  TypeOK'
  <1>1. CASE EngineStep
    BY <1>1, StartType, ForgetType, CloseType, CloseUpdateType, ClosePublishType,
       ReconcileType, ForgottenType, ResumeType, ServeType, EnterProberType, EndTickType,
       LookupType, CreateType, FirstUpdateType, AnnounceType, ResolveRowType,
       ResolveUpdateType, ResolvePublishType, Zenon DEF EngineStep
  <1>2. CASE \E due \in SUBSET Checks : Tick(due)
    BY <1>2, TickType
  <1>3. CASE \E c \in Checks : Probe(c) \/ Skip(c)
    BY <1>3, ProbeType, SkipType
  <1>4. CASE \E o \in Operators : OpRequest(o) \/ OpStep(o)
    BY <1>4, OpCreateType, OpUpdateType, OpResolveType, OpEntryType, OpSetType,
       OpPublishType, Zenon DEF OpRequest, OpStep
  <1>5. CASE Environment
    BY <1>5, DbFailsType, PublishFailsType, CrashType, ReloadType, FlipType, OpFailsType,
       Zenon DEF Environment
  <1>6. CASE UNCHANGED vars
    <2>1. Grown
      BY <1>6, Steadily DEF vars
    <2>2. EngineOK'
      BY <1>6, <2>1, EngineCarried DEF vars
    <2>3. QED
      BY <1>6, <2>1, <2>2, TypeAssembled DEF vars
  <1>7. QED
    BY <1>1, <1>2, <1>3, <1>4, <1>5, <1>6 DEF Next

\* In every behaviour of the engine, its operators and its environment, every
\* variable has its type and every id in use names a row.
THEOREM TypeCorrect == Spec => []TypeOK
  <1>1. Init => TypeOK
    BY EngineAssumption, TypeInit
  <1>2. TypeOK /\ [Next]_vars => TypeOK'
    BY EngineAssumption, TypeNext
  <1>3. QED
    BY <1>1, <1>2, PTL DEF Spec

-----------------------------------------------------------------------------
(* One open automatic incident to a component.                             *)

\* No automatic incident is open that was not, on the same component.
AutoKept ==
  \A i \in DOMAIN incidents' :
    OpenAuto(i)' => /\ i \in DOMAIN incidents /\ OpenAuto(i)
                    /\ incidents'[i].component = incidents[i].component

\* A step that keeps the rows opens no automatic incident.
LEMMA KeptAuto ==
  ASSUME TypeOK, RowsKept
  PROVE  AutoKept
  <1>1. DOMAIN incidents' = DOMAIN incidents
    BY LenProperties DEF TypeOK, RowsOK, RowsKept
  <1>2. QED
    BY <1>1 DEF RowsKept, AutoKept, OpenAuto

\* A step that adds an operator's row opens no automatic incident.
LEMMA AddedAuto ==
  ASSUME TypeOK, NEW k, RowAdded(k, FALSE)
  PROVE  AutoKept
  <1>1. /\ DOMAIN incidents' = 1..Len(incidents') /\ DOMAIN incidents = 1..Len(incidents)
        /\ Len(incidents) \in Nat /\ Len(incidents') = Len(incidents) + 1
    BY LenProperties DEF TypeOK, RowsOK, RowAdded
  <1>2. QED
    BY <1>1 DEF RowAdded, AutoKept, OpenAuto

\* A step that leaves the table alone opens no automatic incident.
LEMMA SameAuto ==
  ASSUME TypeOK, UNCHANGED incidents
  PROVE  AutoKept
  BY RowsUnchanged, KeptAuto DEF TypeOK, RowsOK

\* Only create_incident as handle() calls it opens an automatic incident.
LEMMA OnlyCreateOpens ==
  ASSUME EngineAssumption, TypeOK, [Next]_vars, ~Create
  PROVE  AutoKept
  <1> USE DEF TypeOK, RowsOK
  <1>1. CASE UNCHANGED incidents
    BY <1>1, SameAuto
  <1>2. CASE EngineStep
    <2>1. CASE Close
      BY <2>1, ResolveIncidentKeeps, KeptAuto DEF Close
    <2>2. CASE CloseUpdate
      BY <2>2, AddUpdateKeeps, KeptAuto DEF CloseUpdate, Phase
    <2>3. CASE ClosePublish
      BY <2>3, PublishIncidentKeeps, KeptAuto DEF ClosePublish
    <2>4. CASE FirstUpdate
      BY <2>4, AddUpdateKeeps, KeptAuto DEF FirstUpdate, Phase
    <2>5. CASE Announce
      BY <2>5, MarkQuietKeeps, PublishIncidentKeeps, KeptAuto DEF Announce
    <2>6. CASE ResolveRow
      BY <2>6, ResolveIncidentKeeps, KeptAuto DEF ResolveRow
    <2>7. CASE ResolveUpdate
      BY <2>7, AddUpdateKeeps, KeptAuto DEF ResolveUpdate, Phase
    <2>8. CASE ResolvePublish
      BY <2>8, PublishIncidentKeeps, KeptAuto DEF ResolvePublish
    <2>9. QED
      BY <1>1, <1>2, <2>1, <2>2, <2>3, <2>4, <2>5, <2>6, <2>7, <2>8
      DEF EngineStep, Start, Forget, Reconcile, Forgotten, Resume, Serve, EnterProber,
          EndTick, Lookup
  <1>3. CASE \E o \in Operators : OpRequest(o) \/ OpStep(o)
    <2>1. PICK o \in Operators : OpRequest(o) \/ OpStep(o)
      BY <1>3
    <2>2. CASE \E k \in ManualOn : OpCreate(o, k)
      BY <2>2, CreateIncidentAdds, AddedAuto DEF OpCreate, EngineAssumption
    <2>3. CASE \E id \in DOMAIN incidents : OpResolve(o, id)
      BY <2>3, ResolveIncidentKeeps, KeptAuto DEF OpResolve
    <2>4. CASE \E id \in DOMAIN incidents, to \in Phase : OpUpdate(o, id, to)
      BY <2>4, AddUpdateKeeps, KeptAuto DEF OpUpdate
    <2>5. op[o].to \in Phase
      BY DEF OpsOK, Request
    <2>6. CASE OpEntry(o)
      BY <2>5, <2>6, AddUpdateKeeps, KeptAuto DEF OpEntry
    <2>7. CASE OpSet(o)
      BY <2>5, <2>7, ResolveIncidentKeeps, SetIncidentStateKeeps, KeptAuto DEF OpSet
    <2>8. CASE OpPublish(o)
      <3>1. Change(op[o]) \in {"opened", "updated", "resolved"}
        BY DEF Change
      <3>2. QED
        BY <2>8, <3>1, PublishIncidentKeeps, KeptAuto DEF OpPublish
    <2>9. QED
      BY <2>1, <2>2, <2>3, <2>4, <2>6, <2>7, <2>8 DEF OpRequest, OpStep
  <1>4. CASE Environment
    BY <1>1, <1>4 DEF Environment, DbFails, PublishFails, Crash, Reload, Flip, OpFails
  <1>5. CASE (\E due \in SUBSET Checks : Tick(due)) \/ (\E c \in Checks : Probe(c) \/ Skip(c))
    BY <1>1, <1>5 DEF Tick, Probe, Skip
  <1>6. QED
    BY <1>1, <1>2, <1>3, <1>4, <1>5 DEF Next, vars

\* handle() comes to create_incident from active_incident_for alone.
LEMMA OnlyLookupCreates ==
  ASSUME EngineAssumption, TypeOK, [Next]_vars, eng'.at = "create"
  PROVE  \/ UNCHANGED eng
         \/ /\ eng.at = "lookup" /\ OpenOn(Component) = {} /\ Go("create")
            /\ UNCHANGED incidents
  <1>1. eng \in Engine
    BY DEF TypeOK, EngineOK
  <1>2. ASSUME NEW c, eng' = [eng EXCEPT !.todo = @ \ {c}], eng.at \in {"probe", "resume"}
        PROVE  FALSE
    BY <1>1, <1>2 DEF Engine
  <1>3. ASSUME NEW step, NEW phase, NEW tick, NEW todo,
               eng' = At(step, phase, tick, todo), step # "create"
        PROVE  FALSE
    BY <1>3 DEF At
  <1>4. ASSUME NEW step, Go(step), step # "create" PROVE FALSE
    BY <1>1, <1>4 DEF Go, Engine
  <1>5. ~Closed
    BY <1>1 DEF Closed, Engine
  <1>6. CASE EngineStep
    <2>1. ~Start /\ ~Reconcile /\ ~Forgotten /\ ~Serve /\ ~EnterProber /\ ~EndTick
      BY <1>3 DEF Start, Reconcile, Forgotten, Serve, EnterProber, EndTick
    <2>2. ~CloseUpdate /\ ~FirstUpdate /\ ~ResolveRow /\ ~ResolveUpdate
      BY <1>4 DEF CloseUpdate, FirstUpdate, ResolveRow, ResolveUpdate
    <2>3. ~ClosePublish /\ ~Announce /\ ~ResolvePublish
      BY <1>3, <1>5 DEF ClosePublish, Announce, ResolvePublish, NextCheck
    <2>4. ~Forget /\ ~Close /\ ~Create
      BY <1>1 DEF Forget, Close, Create, Engine
    <2>5. ~(\E c \in Checks : Resume(c))
      BY <1>2 DEF Resume
    <2>6. Lookup
      BY <1>6, <2>1, <2>2, <2>3, <2>4, <2>5 DEF EngineStep
    <2>7. QED
      BY <1>3, <2>6 DEF Lookup, NextCheck
  <1>7. ~(\E due \in SUBSET Checks : Tick(due))
    BY <1>3 DEF Tick
  <1>8. ~(\E c \in Checks : Probe(c) \/ Skip(c))
    <2>1. ASSUME NEW c \in Checks, Probe(c) PROVE FALSE
      <3> DEFINE r == OnResult(Current(c), Settings, c \notin sick, 0)
      <3>1. ~(eng' = [eng EXCEPT !.todo = @ \ {c}])
        BY <1>2, <2>1 DEF Probe
      <3>2. PICK m \in Muting :
              eng' = [eng EXCEPT !.at = StepFor[r.t.kind], !.check = c, !.id = r.t.id,
                                 !.muted = m /\ r.t = Open]
        BY <2>1, <3>1, Zenon DEF Probe
      <3>3. Settings \in Check /\ (c \notin sick) \in BOOLEAN /\ 0 \in Nat
        BY DEF EngineAssumption
      <3>4. r.t \in Transition
        BY <3>3, CurrentType, OnResultType, Zenon
      <3> HIDE DEF r
      <3>5. eng'.at = StepFor[r.t.kind]
        BY <1>1, <3>2 DEF Engine
      <3>6. StepFor[r.t.kind] # "create"
        BY <3>4 DEF StepFor, Transition
      <3>7. QED
        BY <3>5, <3>6
    <2>2. QED
      BY <1>2, <2>1 DEF Skip
  <1>9. CASE \E o \in Operators : OpRequest(o) \/ OpStep(o)
    BY <1>9, Zenon DEF OpRequest, OpStep, OpCreate, OpResolve, OpUpdate, OpEntry, OpSet, OpPublish
  <1>10. CASE Environment
    <2>1. ~DbFails /\ ~PublishFails /\ ~Crash
      BY <1>3, <1>5 DEF DbFails, PublishFails, Crash, NextCheck
    <2>2. QED
      BY <1>10, <2>1, Zenon DEF Environment, Reload, Flip, OpFails
  <1>11. CASE UNCHANGED vars
    BY <1>11, Zenon DEF vars
  <1>12. QED
    BY <1>6, <1>7, <1>8, <1>9, <1>10, <1>11, Zenon DEF Next

\* The component handle() is about to open an incident on has none.
AboutToCreate ==
  eng.at = "create" =>
    \A i \in DOMAIN incidents : OpenAuto(i) => incidents[i].component # Component

\* Every step keeps the invariant behind OneOpenAuto: a second open automatic
\* incident would need a create_incident that its active_incident_for did not guard.
LEMMA OneOpenAutoNext ==
  ASSUME EngineAssumption, TypeOK, OneOpenAuto, AboutToCreate, [Next]_vars
  PROVE  OneOpenAuto' /\ AboutToCreate'
  <1>1. CASE Create
    <2>1. eng.check \in Checks /\ eng \in Engine
      BY <1>1 DEF Create, TypeOK, EngineOK, HandleSteps
    <2>2. Component \in Components
      BY <2>1, ComponentType
    <2>3. RowAdded(Component, TRUE)
      BY <1>1, <2>2, CreateIncidentAdds DEF Create, TypeOK, RowsOK
    <2>4. /\ DOMAIN incidents' = 1..Len(incidents') /\ DOMAIN incidents = 1..Len(incidents)
          /\ Len(incidents) \in Nat /\ Len(incidents') = Len(incidents) + 1
      BY <2>3, LenProperties DEF TypeOK, RowsOK, RowAdded
    <2>5. ASSUME NEW i \in DOMAIN incidents', NEW j \in DOMAIN incidents',
                 OpenAuto(i)', OpenAuto(j)', incidents'[i].component = incidents'[j].component
          PROVE  i = j
      BY <1>1, <2>3, <2>4, <2>5 DEF RowAdded, Create, AboutToCreate, OneOpenAuto, OpenAuto
    <2>6. eng'.at = "firstUpdate"
      BY <1>1, <2>1 DEF Create, Engine
    <2>7. QED
      BY <2>5, <2>6 DEF OneOpenAuto, AboutToCreate
  <1>2. CASE ~Create
    <2>1. AutoKept
      BY <1>2, OnlyCreateOpens
    <2>2. OneOpenAuto'
      BY <2>1 DEF AutoKept, OneOpenAuto
    <2>3. ASSUME eng'.at = "create", NEW i \in DOMAIN incidents', OpenAuto(i)'
          PROVE  incidents'[i].component # Component'
      <3>1. CASE UNCHANGED eng
        BY <2>1, <2>3, <3>1 DEF AutoKept, AboutToCreate, Component
      <3>2. CASE OpenOn(Component) = {} /\ Go("create") /\ UNCHANGED incidents
        <4>1. eng \in Engine
          BY DEF TypeOK, EngineOK
        <4>2. Component' = Component
          BY <3>2, <4>1 DEF Component, Go, Engine
        <4>3. incidents[i].open /\ i \in DOMAIN incidents
          BY <2>1, <2>3 DEF AutoKept, OpenAuto
        <4>4. QED
          BY <3>2, <4>2, <4>3 DEF OpenOn
      <3>3. QED
        BY <2>3, <3>1, <3>2, OnlyLookupCreates
    <2>4. QED
      BY <2>2, <2>3 DEF AboutToCreate
  <1>3. QED
    BY <1>1, <1>2

\* Two automatic incidents are never open on one component: nothing that runs
\* between active_incident_for and create_incident can open another one.
THEOREM OneOpenAutoAlways == Spec => []OneOpenAuto
  <1>1. Init => OneOpenAuto /\ AboutToCreate
    BY DEF Init, OneOpenAuto, AboutToCreate, At
  <1>2. TypeOK /\ OneOpenAuto /\ AboutToCreate /\ [Next]_vars => OneOpenAuto' /\ AboutToCreate'
    BY EngineAssumption, OneOpenAutoNext
  <1>3. QED
    BY <1>1, <1>2, TypeCorrect, PTL DEF Spec

-----------------------------------------------------------------------------
(* Automatic incidents are open on monitored components only, once the     *)
(* config has been reconciled, as long as no reload lands before           *)
(* prober_loop starts.                                                     *)

\* The automatic incidents that are open are on components a shape monitors.
AllMonitored(s) ==
  \A i \in DOMAIN incidents : OpenAuto(i) => incidents[i].component \in Monitored(s)

\* The configs prober_loop holds follow the one in the channel.
Generations ==
  /\ applied.gen <= eng.tick.gen /\ eng.tick.gen <= cfg.gen
  /\ applied.gen = eng.tick.gen => eng.tick = applied
  /\ eng.tick.gen = cfg.gen => eng.tick = cfg

\* Until prober_loop starts there is one config.
Booting ==
  /\ (eng.phase = "boot" /\ eng.at # "down") \/ eng.at = "starting" =>
       eng.tick = cfg /\ applied = cfg
  /\ eng.at \in {"resume", "down"} => eng.phase = "boot"
  /\ eng.at \in HandleSteps \cup {"starting", "idle", "probe"} => eng.phase = "tick"

\* A pass only handles checks of its config.
DueInConfig ==
  /\ eng.todo \subseteq eng.tick.shape.checks
  /\ eng.at \in HandleSteps => eng.check \in eng.tick.shape.checks

\* While incidents are being closed, those left to close are on the list.
VictimsLeft ==
  eng.at \in ForgetSteps \cup {"close"} =>
    \A i \in DOMAIN incidents : OpenAuto(i) =>
      \/ incidents[i].component \in Monitored(eng.tick.shape)
      \/ i \in eng.victims /\ (eng.at \in ForgetSteps => i # eng.id)

\* Bootstrap is done with them before it resumes machines.
Cleared == eng.at \in {"resume", "starting"} => AllMonitored(eng.tick.shape)

MonitoredInv ==
  /\ Generations /\ Booting /\ DueInConfig /\ VictimsLeft /\ Cleared /\ ReconciledMonitored

\* The same after a step, for the components monitored before it.
MonitoredAfter(s) ==
  \A i \in DOMAIN incidents' : OpenAuto(i)' => incidents'[i].component \in Monitored(s)

\* What is open on monitored components only stays so when no automatic incident opens.
LEMMA MonitoredKept ==
  ASSUME AutoKept, NEW s, AllMonitored(s)
  PROVE  MonitoredAfter(s)
  BY DEF AutoKept, AllMonitored, MonitoredAfter

\* A configuration in use is one of Config, and its checks are checks.
LEMMA ConfigFacts ==
  ASSUME TypeOK
  PROVE  /\ cfg \in Config /\ applied \in Config /\ eng.tick \in Config /\ eng \in Engine
         /\ cfg.gen \in Nat /\ applied.gen \in Nat /\ eng.tick.gen \in Nat
  BY DEF TypeOK, ConfigOK, EngineOK, Engine, Config

\* The parts of the invariant about an engine that is in no list of incidents.
LEMMA MonitoredIdle ==
  ASSUME TypeOK, MonitoredInv, AutoKept, UNCHANGED <<cfg, applied>>,
         NEW step \in {"idle", "probe"}, NEW todo, todo \subseteq eng.tick.shape.checks,
         eng' = At(step, "tick", eng.tick, todo),
         applied.gen # cfg.gen \/ AllMonitored(cfg.shape)
  PROVE  MonitoredInv'
  <1>1. /\ eng'.at = step /\ eng'.phase = "tick" /\ eng'.tick = eng.tick /\ eng'.todo = todo
    BY DEF At
  <1>2. step \notin HandleSteps \cup ForgetSteps
    BY DEF HandleSteps, ForgetSteps
  <1>3. Generations' /\ Booting' /\ DueInConfig' /\ VictimsLeft' /\ Cleared'
    BY <1>1, <1>2 DEF MonitoredInv, Generations, Booting, DueInConfig, VictimsLeft, Cleared
  <1>4. ReconciledMonitored'
    BY MonitoredKept DEF AllMonitored, MonitoredAfter, ReconciledMonitored
  <1>5. QED
    BY <1>3, <1>4 DEF MonitoredInv

\* Steps that keep the engine where it is, or move it on within one task.
LEMMA MonitoredOnward ==
  ASSUME TypeOK, MonitoredInv, AutoKept, UNCHANGED <<cfg, applied>>,
         eng'.phase = eng.phase, eng'.tick = eng.tick, eng'.todo \subseteq eng.todo,
         eng'.victims = eng.victims, eng'.id = eng.id, eng'.check = eng.check,
         \/ eng'.at = eng.at
         \/ eng'.at \in HandleSteps /\ eng.at \in HandleSteps
         \/ eng'.at \in ForgetSteps /\ eng.at \in ForgetSteps
  PROVE  MonitoredInv'
  <1>1. "starting" \notin HandleSteps \cup ForgetSteps /\ "close" \notin HandleSteps \cup ForgetSteps
    BY DEF HandleSteps, ForgetSteps
  <1>2. /\ "resume" \notin HandleSteps \cup ForgetSteps /\ "down" \notin HandleSteps \cup ForgetSteps
        /\ "idle" \notin ForgetSteps /\ "probe" \notin ForgetSteps
        /\ HandleSteps \cap ForgetSteps = {}
    BY DEF HandleSteps, ForgetSteps
  <1>3. Generations'
    BY DEF MonitoredInv, Generations
  <1>4. Booting'
    BY <1>1, <1>2 DEF MonitoredInv, Booting
  <1>5. DueInConfig'
    BY <1>2 DEF MonitoredInv, DueInConfig
  <1>6. VictimsLeft'
    <2>1. eng'.at \in ForgetSteps \cup {"close"} => eng.at \in ForgetSteps \cup {"close"}
      BY <1>1, <1>2
    <2>2. eng'.at \in ForgetSteps <=> eng.at \in ForgetSteps
      BY <1>2
    <2>3. ASSUME eng'.at \in ForgetSteps \cup {"close"}, NEW i \in DOMAIN incidents', OpenAuto(i)'
          PROVE  \/ incidents'[i].component \in Monitored(eng.tick.shape)
                 \/ i \in eng.victims /\ (eng'.at \in ForgetSteps => i # eng.id)
      BY <2>1, <2>2, <2>3 DEF MonitoredInv, VictimsLeft, AutoKept
    <2>4. QED
      BY <2>3 DEF VictimsLeft
  <1>7. Cleared'
    BY <1>1, <1>2, MonitoredKept DEF MonitoredInv, Cleared, AllMonitored, MonitoredAfter
  <1>8. ReconciledMonitored'
    BY <1>1, <1>2, MonitoredKept DEF MonitoredInv, ReconciledMonitored, AllMonitored, MonitoredAfter
  <1>9. QED
    BY <1>3, <1>4, <1>5, <1>6, <1>7, <1>8 DEF MonitoredInv

\* Which of the groups a step is in.
LEMMA StepGroups ==
  /\ HandleSteps \cap ForgetSteps = {}
  /\ \A s \in {"down", "forget", "close", "resume", "starting", "idle", "probe"} :
       s \notin HandleSteps \cup ForgetSteps
  BY DEF HandleSteps, ForgetSteps

\* handle() is over.
LEMMA MonitoredNextCheck ==
  ASSUME TypeOK, MonitoredInv, AutoKept, UNCHANGED <<cfg, applied>>,
         eng.at \in HandleSteps, NextCheck
  PROVE  MonitoredInv'
  <1>1. eng.phase = "tick" /\ eng.at # "starting"
    BY StepGroups DEF MonitoredInv, Booting
  <1>2. applied.gen # cfg.gen \/ AllMonitored(cfg.shape)
    BY <1>1 DEF MonitoredInv, ReconciledMonitored, AllMonitored, MonitoredAfter
  <1>3. eng.todo \ {eng.check} \subseteq eng.tick.shape.checks
    BY DEF MonitoredInv, DueInConfig
  <1>4. QED
    BY <1>2, <1>3, MonitoredIdle DEF NextCheck

\* The next call of the same task.
LEMMA MonitoredGoes ==
  ASSUME TypeOK, MonitoredInv, AutoKept, UNCHANGED <<cfg, applied>>, NEW step, Go(step),
         \/ step \in HandleSteps /\ eng.at \in HandleSteps
         \/ step \in ForgetSteps /\ eng.at \in ForgetSteps
  PROVE  MonitoredInv'
  <1>1. eng \in Engine
    BY ConfigFacts
  <1>2. /\ eng'.at = step /\ eng'.phase = eng.phase /\ eng'.tick = eng.tick
        /\ eng'.todo = eng.todo /\ eng'.victims = eng.victims
        /\ eng'.id = eng.id /\ eng'.check = eng.check
    BY <1>1 DEF Go, Engine
  <1>3. QED
    BY <1>2, MonitoredOnward

\* A step that touches neither the engine nor the rows keeps the invariant.
LEMMA MonitoredSame ==
  ASSUME TypeOK, MonitoredInv, AutoKept, UNCHANGED <<cfg, applied, eng>>
  PROVE  MonitoredInv'
  BY MonitoredOnward

\* Taking a check off the list of the pass keeps the invariant.
LEMMA MonitoredDrops ==
  ASSUME TypeOK, MonitoredInv, AutoKept, UNCHANGED <<cfg, applied>>,
         NEW c, eng' = [eng EXCEPT !.todo = @ \ {c}]
  PROVE  MonitoredInv'
  <1>1. eng \in Engine
    BY ConfigFacts
  <1>2. /\ eng'.at = eng.at /\ eng'.phase = eng.phase /\ eng'.tick = eng.tick
        /\ eng'.todo \subseteq eng.todo /\ eng'.victims = eng.victims
        /\ eng'.id = eng.id /\ eng'.check = eng.check
    BY <1>1 DEF Engine
  <1>3. QED
    BY <1>2, MonitoredOnward

\* The process stops.
LEMMA MonitoredStops ==
  ASSUME TypeOK, MonitoredInv, AutoKept, UNCHANGED <<cfg, applied>>, EngineDown
  PROVE  MonitoredInv'
  <1>1. /\ eng'.at = "down" /\ eng'.phase = "boot" /\ eng'.tick = cfg /\ eng'.todo = {}
    BY DEF EngineDown, At
  <1>2. Generations'
    BY <1>1, ConfigFacts DEF MonitoredInv, Generations
  <1>3. Booting' /\ DueInConfig' /\ VictimsLeft' /\ Cleared' /\ ReconciledMonitored'
    BY <1>1, StepGroups DEF Booting, DueInConfig, VictimsLeft, Cleared, ReconciledMonitored
  <1>4. QED
    BY <1>2, <1>3 DEF MonitoredInv

\* Start (run) keeps the invariant behind ReconciledMonitored.
LEMMA MonitoredStart ==
  ASSUME TypeOK, MonitoredInv, Start
  PROVE  MonitoredInv'
  <1>1. /\ eng'.at = "forget" /\ eng'.phase = "boot" /\ eng'.tick = cfg' /\ eng'.todo = {}
        /\ applied' = cfg'
    BY DEF Start, At
  <1>2. cfg'.gen \in Nat
    BY ConfigFacts DEF Start
  <1>3. QED
    BY <1>1, <1>2, StepGroups
    DEF MonitoredInv, Generations, Booting, DueInConfig, VictimsLeft, Cleared, ReconciledMonitored

\* Forget (AlertEngine::forget_unmonitored) keeps the invariant behind ReconciledMonitored.
LEMMA MonitoredForget ==
  ASSUME TypeOK, MonitoredInv, Forget
  PROVE  MonitoredInv'
  <1> DEFINE found == Unmonitored(eng.tick.shape)
  <1>1. eng \in Engine /\ UNCHANGED <<incidents, cfg, applied>>
    BY ConfigFacts DEF Forget
  <1>2. /\ eng'.at = "close" /\ eng'.phase = eng.phase /\ eng'.tick = eng.tick
        /\ eng'.todo = eng.todo /\ eng'.victims = found
    BY <1>1 DEF Forget, Engine
  <1>3. \A i \in DOMAIN incidents :
          OpenAuto(i) => incidents[i].component \in Monitored(eng.tick.shape) \/ i \in found
    BY DEF Unmonitored, OpenAuto
  <1> HIDE DEF found
  <1>4. VictimsLeft'
    BY <1>1, <1>2, <1>3, StepGroups DEF VictimsLeft, OpenAuto
  <1>5. Generations' /\ Booting' /\ DueInConfig' /\ Cleared'
    BY <1>1, <1>2, StepGroups DEF Forget, MonitoredInv, Generations, Booting, DueInConfig, Cleared
  <1>6. ReconciledMonitored'
    BY <1>1, <1>2 DEF Forget, MonitoredInv, ReconciledMonitored, OpenAuto
  <1>7. QED
    BY <1>4, <1>5, <1>6 DEF MonitoredInv

\* Close (AlertEngine::forget_unmonitored) keeps the invariant behind ReconciledMonitored.
LEMMA MonitoredClose ==
  ASSUME EngineAssumption, TypeOK, MonitoredInv, AutoKept, Close
  PROVE  MonitoredInv'
  <1> DEFINE v == Newest(eng.victims)
  <1>1. v \in eng.victims /\ v \in 1..Len(incidents)
    BY NewestVictim DEF Close
  <1>2. eng \in Engine /\ UNCHANGED <<cfg, applied>> /\ eng.at = "close"
    BY ConfigFacts DEF Close
  <1>3. /\ eng'.at = "closeUpdate" /\ eng'.phase = eng.phase /\ eng'.tick = eng.tick
        /\ eng'.todo = eng.todo /\ eng'.victims = eng.victims /\ eng'.id = v
    BY <1>2 DEF Close, Engine
  <1>4. ~incidents'[v].open
    <2>1. v \in DOMAIN incidents /\ incidents[v] \in Incident
      BY <1>1, LenProperties, ElementOfSeq DEF TypeOK, RowsOK
    <2>2. incidents' = [incidents EXCEPT ![v].open = FALSE, ![v].state = "resolved"]
      BY DEF Close, ResolveIncident
    <2> HIDE DEF v
    <2>3. QED
      BY <2>1, <2>2 DEF Incident
  <1> HIDE DEF v
  <1>5. "closeUpdate" \in ForgetSteps /\ "closeUpdate" \notin HandleSteps
    BY DEF ForgetSteps, HandleSteps
  <1>6. VictimsLeft'
    <2>1. ASSUME NEW i \in DOMAIN incidents', OpenAuto(i)'
          PROVE  \/ incidents'[i].component \in Monitored(eng.tick.shape)
                 \/ i \in eng.victims /\ i # v
      BY <1>2, <1>4, <2>1, StepGroups DEF MonitoredInv, VictimsLeft, AutoKept, OpenAuto
    <2>2. QED
      BY <1>3, <2>1 DEF VictimsLeft
  <1>7. Generations' /\ Booting' /\ DueInConfig' /\ Cleared'
    BY <1>2, <1>3, <1>5, StepGroups DEF MonitoredInv, Generations, Booting, DueInConfig, Cleared
  <1>8. ReconciledMonitored'
    BY <1>2, <1>3, MonitoredKept DEF MonitoredInv, ReconciledMonitored, AllMonitored, MonitoredAfter
  <1>9. QED
    BY <1>6, <1>7, <1>8 DEF MonitoredInv

\* Closed (AlertEngine::forget_unmonitored) keeps the invariant behind ReconciledMonitored.
LEMMA MonitoredClosed ==
  ASSUME TypeOK, MonitoredInv, AutoKept, UNCHANGED <<cfg, applied>>,
         eng.at = "closePublish", Closed
  PROVE  MonitoredInv'
  <1>1. eng \in Engine /\ "closePublish" \in ForgetSteps
    BY ConfigFacts DEF ForgetSteps
  <1>2. /\ eng'.at = "close" /\ eng'.phase = eng.phase /\ eng'.tick = eng.tick
        /\ eng'.todo = eng.todo /\ eng'.victims = eng.victims \ {eng.id}
    BY <1>1 DEF Closed, Engine
  <1>3. VictimsLeft'
    <2>1. ASSUME NEW i \in DOMAIN incidents', OpenAuto(i)'
          PROVE  \/ incidents'[i].component \in Monitored(eng.tick.shape)
                 \/ i \in eng.victims \ {eng.id}
      BY <1>1, <2>1 DEF MonitoredInv, VictimsLeft, AutoKept
    <2>2. QED
      BY <1>2, <2>1, StepGroups DEF VictimsLeft
  <1>4. Generations' /\ Booting' /\ DueInConfig' /\ Cleared'
    BY <1>2, StepGroups DEF MonitoredInv, Generations, Booting, DueInConfig, Cleared
  <1>5. ReconciledMonitored'
    BY <1>2, MonitoredKept DEF MonitoredInv, ReconciledMonitored, AllMonitored, MonitoredAfter
  <1>6. QED
    BY <1>3, <1>4, <1>5 DEF MonitoredInv

\* No incident is left to close.
LEMMA AllClosed ==
  ASSUME TypeOK, MonitoredInv, eng.at = "close", eng.victims = {}
  PROVE  AllMonitored(eng.tick.shape)
  BY StepGroups DEF MonitoredInv, VictimsLeft, AllMonitored, MonitoredAfter

\* Reconcile (prober_loop) keeps the invariant behind ReconciledMonitored.
LEMMA MonitoredReconcile ==
  ASSUME TypeOK, MonitoredInv, AutoKept, Reconcile
  PROVE  MonitoredInv'
  <1>1. MonitoredAfter(eng.tick.shape)
    BY AllClosed, MonitoredKept DEF Reconcile
  <1>2. /\ eng'.at = "probe" /\ eng'.phase = "tick" /\ eng'.tick = eng.tick
        /\ eng'.todo = eng.todo /\ applied' = eng.tick /\ UNCHANGED cfg
    BY DEF Reconcile, At
  <1>3. Generations' /\ Booting' /\ DueInConfig' /\ VictimsLeft' /\ Cleared'
    BY <1>2, ConfigFacts, StepGroups
    DEF MonitoredInv, Generations, Booting, DueInConfig, VictimsLeft, Cleared
  <1>4. ReconciledMonitored'
    BY <1>1, <1>2 DEF MonitoredInv, Generations, ReconciledMonitored, AllMonitored, MonitoredAfter
  <1>5. QED
    BY <1>3, <1>4 DEF MonitoredInv

\* Forgotten (AlertEngine::bootstrap) keeps the invariant behind ReconciledMonitored.
LEMMA MonitoredForgotten ==
  ASSUME TypeOK, MonitoredInv, AutoKept, Forgotten
  PROVE  MonitoredInv'
  <1>1. MonitoredAfter(eng.tick.shape)
    BY AllClosed, MonitoredKept DEF Forgotten
  <1>2. /\ eng'.at = "resume" /\ eng'.phase = "boot" /\ eng'.tick = eng.tick
        /\ eng'.todo = eng.tick.shape.checks /\ UNCHANGED <<cfg, applied>>
    BY DEF Forgotten, At
  <1>3. eng.tick = cfg /\ applied = cfg
    BY DEF Forgotten, MonitoredInv, Booting
  <1>4. Generations' /\ Booting' /\ DueInConfig' /\ VictimsLeft'
    BY <1>2, <1>3, StepGroups DEF MonitoredInv, Generations, Booting, DueInConfig, VictimsLeft
  <1>5. Cleared' /\ ReconciledMonitored'
    BY <1>1, <1>2 DEF Cleared, ReconciledMonitored, AllMonitored, MonitoredAfter
  <1>6. QED
    BY <1>4, <1>5 DEF MonitoredInv

\* Serve (run) keeps the invariant behind ReconciledMonitored.
LEMMA MonitoredServe ==
  ASSUME TypeOK, MonitoredInv, AutoKept, Serve
  PROVE  MonitoredInv'
  <1>1. /\ eng'.at = "starting" /\ eng'.phase = "tick" /\ eng'.tick = eng.tick
        /\ eng'.todo = {} /\ UNCHANGED <<cfg, applied>>
    BY DEF Serve, At
  <1>2. eng.tick = cfg /\ applied = cfg
    BY DEF Serve, MonitoredInv, Booting
  <1>3. MonitoredAfter(eng.tick.shape)
    BY MonitoredKept DEF Serve, MonitoredInv, Cleared
  <1>4. QED
    BY <1>1, <1>2, <1>3, StepGroups
    DEF MonitoredInv, Generations, Booting, DueInConfig, VictimsLeft, Cleared,
        ReconciledMonitored, AllMonitored, MonitoredAfter

\* EnterProber (prober_loop) keeps the invariant behind ReconciledMonitored.
LEMMA MonitoredEnterProber ==
  ASSUME TypeOK, MonitoredInv, AutoKept, EnterProber
  PROVE  MonitoredInv'
  <1>1. /\ eng'.at = "idle" /\ eng'.phase = "tick" /\ eng'.tick = cfg
        /\ eng'.todo = {} /\ applied' = cfg /\ UNCHANGED cfg
    BY DEF EnterProber, At
  <1>2. eng.tick = cfg
    BY DEF EnterProber, MonitoredInv, Booting
  <1>3. MonitoredAfter(cfg.shape)
    BY <1>2, MonitoredKept DEF EnterProber, MonitoredInv, Cleared
  <1>4. QED
    BY <1>1, <1>2, <1>3, StepGroups, ConfigFacts
    DEF MonitoredInv, Generations, Booting, DueInConfig, VictimsLeft, Cleared,
        ReconciledMonitored, AllMonitored, MonitoredAfter

\* Tick (prober_loop) keeps the invariant behind ReconciledMonitored.
LEMMA MonitoredTick ==
  ASSUME TypeOK, MonitoredInv, AutoKept, NEW due, Tick(due)
  PROVE  MonitoredInv'
  <1>1. PICK step \in {"forget", "probe"} :
          /\ eng' = At(step, "tick", cfg, due)
          /\ cfg.gen # applied.gen <=> step = "forget"
    BY DEF Tick
  <1>2. /\ eng'.at = step /\ eng'.phase = "tick" /\ eng'.tick = cfg
        /\ eng'.todo = due /\ UNCHANGED <<cfg, applied>> /\ due \subseteq cfg.shape.checks
    BY <1>1 DEF Tick, At
  <1>3. eng.phase = "tick" /\ eng.at = "idle"
    BY DEF Tick, MonitoredInv, Booting
  <1>4. Generations' /\ Booting' /\ DueInConfig' /\ VictimsLeft' /\ Cleared'
    BY <1>2, StepGroups, ConfigFacts
    DEF MonitoredInv, Generations, Booting, DueInConfig, VictimsLeft, Cleared
  <1>5. ReconciledMonitored'
    BY <1>2, <1>3, MonitoredKept DEF MonitoredInv, ReconciledMonitored, AllMonitored, MonitoredAfter
  <1>6. QED
    BY <1>4, <1>5 DEF MonitoredInv

\* EndTick (prober_loop) keeps the invariant behind ReconciledMonitored.
LEMMA MonitoredEndTick ==
  ASSUME TypeOK, MonitoredInv, AutoKept, EndTick
  PROVE  MonitoredInv'
  <1>1. /\ eng'.at = "idle" /\ eng'.phase = "tick" /\ eng'.tick = applied
        /\ eng'.todo = {} /\ UNCHANGED <<cfg, applied>>
    BY DEF EndTick, At
  <1>2. eng.phase = "tick" /\ eng.at = "probe"
    BY DEF EndTick, MonitoredInv, Booting
  <1>3. Generations' /\ Booting' /\ DueInConfig' /\ VictimsLeft' /\ Cleared'
    BY <1>1, StepGroups, ConfigFacts
    DEF MonitoredInv, Generations, Booting, DueInConfig, VictimsLeft, Cleared
  <1>4. ReconciledMonitored'
    BY <1>1, <1>2, MonitoredKept DEF MonitoredInv, ReconciledMonitored, AllMonitored, MonitoredAfter
  <1>5. QED
    BY <1>3, <1>4 DEF MonitoredInv

\* Probe (prober_loop) keeps the invariant behind ReconciledMonitored.
LEMMA MonitoredProbe ==
  ASSUME EngineAssumption, TypeOK, MonitoredInv, AutoKept, NEW c \in Checks, Probe(c)
  PROVE  MonitoredInv'
  <1> DEFINE r == OnResult(Current(c), Settings, c \notin sick, 0)
  <1>1. eng \in Engine /\ UNCHANGED <<cfg, applied>> /\ eng.at = "probe" /\ c \in eng.todo
    BY ConfigFacts DEF Probe
  <1>2. CASE eng' = [eng EXCEPT !.todo = @ \ {c}]
    BY <1>1, <1>2, MonitoredDrops
  <1>3. CASE ~(eng' = [eng EXCEPT !.todo = @ \ {c}])
    <2>1. StepFor[r.t.kind] # "probe" /\ r.t \in Transition
      <3>1. Settings \in Check /\ (c \notin sick) \in BOOLEAN /\ 0 \in Nat
        BY DEF EngineAssumption
      <3>2. r.t \in Transition
        BY <3>1, CurrentType, OnResultType, Zenon
      <3>3. QED
        BY <1>3, <3>2, Zenon DEF Probe
    <2>2. PICK m \in Muting :
            eng' = [eng EXCEPT !.at = StepFor[r.t.kind], !.check = c, !.id = r.t.id,
                               !.muted = m /\ r.t = Open]
      BY <1>3, Zenon DEF Probe
    <2> HIDE DEF r
    <2>3. StepFor[r.t.kind] \in HandleSteps
      BY <2>1 DEF StepFor, Transition, HandleSteps
    <2>4. /\ eng'.at \in HandleSteps /\ eng'.check = c /\ eng'.phase = eng.phase
          /\ eng'.tick = eng.tick /\ eng'.todo = eng.todo
      BY <1>1, <2>2, <2>3 DEF Engine
    <2>5. eng.phase = "tick"
      BY <1>1 DEF MonitoredInv, Booting
    <2>6. Generations' /\ Booting' /\ VictimsLeft' /\ Cleared'
      BY <1>1, <2>4, <2>5, StepGroups
      DEF MonitoredInv, Generations, Booting, VictimsLeft, Cleared
    <2>7. DueInConfig'
      BY <1>1, <2>4 DEF MonitoredInv, DueInConfig
    <2>8. ReconciledMonitored'
      BY <1>1, <2>4, <2>5, MonitoredKept
      DEF MonitoredInv, ReconciledMonitored, AllMonitored, MonitoredAfter
    <2>9. QED
      BY <2>6, <2>7, <2>8 DEF MonitoredInv
  <1>4. QED
    BY <1>2, <1>3

\* Create (AlertEngine::handle) keeps the invariant behind ReconciledMonitored.
LEMMA MonitoredCreate ==
  ASSUME EngineAssumption, TypeOK, MonitoredInv, Create
  PROVE  MonitoredInv'
  <1>1. eng.at = "create" /\ "create" \in HandleSteps /\ "firstUpdate" \in HandleSteps
    BY DEF Create, HandleSteps
  <1>2. /\ eng.check \in Checks /\ eng \in Engine /\ UNCHANGED <<cfg, applied>>
        /\ eng.check \in eng.tick.shape.checks
    BY <1>1, ConfigFacts DEF Create, TypeOK, EngineOK, MonitoredInv, DueInConfig
  <1>3. Component \in Components /\ Component \in Monitored(eng.tick.shape)
    BY <1>2, ComponentType DEF Component, Monitored
  <1>4. RowAdded(Component, TRUE)
    BY <1>3, CreateIncidentAdds DEF Create, TypeOK, RowsOK
  <1>5. /\ DOMAIN incidents' = 1..Len(incidents') /\ DOMAIN incidents = 1..Len(incidents)
        /\ Len(incidents) \in Nat /\ Len(incidents') = Len(incidents) + 1
    BY <1>4, LenProperties DEF TypeOK, RowsOK, RowAdded
  <1>6. /\ eng'.at = "firstUpdate" /\ eng'.phase = eng.phase /\ eng'.tick = eng.tick
        /\ eng'.todo = eng.todo /\ eng'.check = eng.check
    BY <1>2 DEF Create, Engine
  <1>7. eng.phase = "tick" /\ eng.at # "starting"
    BY <1>1, StepGroups DEF MonitoredInv, Booting
  <1>8. Generations' /\ Booting' /\ DueInConfig' /\ VictimsLeft' /\ Cleared'
    BY <1>1, <1>2, <1>6, <1>7, StepGroups
    DEF MonitoredInv, Generations, Booting, DueInConfig, VictimsLeft, Cleared
  <1>9. ASSUME applied.gen = cfg.gen PROVE MonitoredAfter(cfg.shape)
    <2>1. eng.tick = cfg
      BY <1>9, ConfigFacts DEF MonitoredInv, Generations
    <2>2. AllMonitored(cfg.shape)
      BY <1>7, <1>9 DEF MonitoredInv, ReconciledMonitored, AllMonitored
    <2>3. QED
      BY <1>3, <1>4, <1>5, <2>1, <2>2 DEF RowAdded, AllMonitored, MonitoredAfter, OpenAuto
  <1>10. ReconciledMonitored'
    BY <1>2, <1>9 DEF ReconciledMonitored, MonitoredAfter
  <1>11. QED
    BY <1>8, <1>10 DEF MonitoredInv

\* Reload (apply_reload) keeps the invariant behind ReconciledMonitored.
LEMMA MonitoredReload ==
  ASSUME EarlyReload = FALSE, TypeOK, MonitoredInv, NEW s \in Shapes, Reload(s)
  PROVE  MonitoredInv'
  <1>1. /\ cfg'.gen = cfg.gen + 1 /\ UNCHANGED <<incidents, applied, eng>>
        /\ eng.phase = "tick" /\ eng.at # "starting"
    BY DEF Reload, Serving
  <1>2. Generations' /\ Booting' /\ ReconciledMonitored'
    BY <1>1, ConfigFacts DEF MonitoredInv, Generations, Booting, ReconciledMonitored
  <1>3. DueInConfig' /\ VictimsLeft' /\ Cleared'
    BY <1>1 DEF MonitoredInv, DueInConfig, VictimsLeft, Cleared, OpenAuto, AllMonitored
  <1>4. QED
    BY <1>2, <1>3 DEF MonitoredInv

\* The initial states satisfy the invariant behind ReconciledMonitored.
LEMMA MonitoredInit ==
  ASSUME EngineAssumption, Init
  PROVE  MonitoredInv
  <1>1. TypeOK
    BY TypeInit
  <1>2. /\ eng.at = "forget" /\ eng.phase = "boot" /\ eng.tick = cfg /\ eng.todo = {}
        /\ applied = cfg
    BY DEF Init, At
  <1>3. QED
    BY <1>1, <1>2, StepGroups, ConfigFacts
    DEF MonitoredInv, Generations, Booting, DueInConfig, VictimsLeft, Cleared, ReconciledMonitored

\* DbFails (prober_loop) keeps the invariant behind ReconciledMonitored.
LEMMA MonitoredDbFails ==
  ASSUME TypeOK, MonitoredInv, AutoKept, DbFails
  PROVE  MonitoredInv'
  <1>1. UNCHANGED <<cfg, applied>>
    BY DEF DbFails
  <1>2. CASE eng.at \in HandleSteps /\ NextCheck
    BY <1>1, <1>2, MonitoredNextCheck
  <1>3. CASE eng.phase = "tick" /\ eng.at \in {"forget", "close", "closeUpdate"}
             /\ eng' = At("probe", "tick", eng.tick, eng.todo)
    <2>1. eng.todo \subseteq eng.tick.shape.checks
      BY DEF MonitoredInv, DueInConfig
    <2>2. applied.gen # cfg.gen \/ AllMonitored(cfg.shape)
      BY <1>3 DEF MonitoredInv, ReconciledMonitored, AllMonitored
    <2>3. QED
      BY <1>1, <1>3, <2>1, <2>2, MonitoredIdle
  <1>4. CASE EngineDown
    BY <1>1, <1>4, MonitoredStops
  <1>5. QED
    BY <1>2, <1>3, <1>4 DEF DbFails, EngineDown

\* Every step keeps the invariant behind ReconciledMonitored, when no reload
\* lands before prober_loop starts.
LEMMA MonitoredNext ==
  ASSUME EngineAssumption, EarlyReload = FALSE, TypeOK, MonitoredInv, [Next]_vars
  PROVE  MonitoredInv'
  <1>1. ~Create => AutoKept
    BY OnlyCreateOpens
  <1>2. CASE Create
    BY <1>2, MonitoredCreate
  <1>3. CASE ~Create /\ EngineStep
    <2>1. AutoKept
      BY <1>1, <1>3
    <2>2. "closePublish" \in ForgetSteps /\ "closeUpdate" \in ForgetSteps
      BY DEF ForgetSteps
    <2>3. /\ "lookup" \in HandleSteps /\ "create" \in HandleSteps
          /\ "firstUpdate" \in HandleSteps /\ "announce" \in HandleSteps
          /\ "resolve" \in HandleSteps /\ "resolveUpdate" \in HandleSteps
          /\ "resolvePublish" \in HandleSteps
      BY DEF HandleSteps
    <2>4. CASE Start
      BY <2>4, MonitoredStart
    <2>5. CASE Forget
      BY <2>5, MonitoredForget
    <2>6. CASE Close
      BY <2>1, <2>6, MonitoredClose
    <2>7. CASE CloseUpdate
      BY <2>1, <2>2, <2>7, MonitoredGoes DEF CloseUpdate
    <2>8. CASE ClosePublish
      BY <2>1, <2>8, MonitoredClosed DEF ClosePublish
    <2>9. CASE Reconcile
      BY <2>1, <2>9, MonitoredReconcile
    <2>10. CASE Forgotten
      BY <2>1, <2>10, MonitoredForgotten
    <2>11. CASE \E c \in Checks : Resume(c)
      BY <2>1, <2>11, MonitoredDrops DEF Resume
    <2>12. CASE Serve
      BY <2>1, <2>12, MonitoredServe
    <2>13. CASE EnterProber
      BY <2>1, <2>13, MonitoredEnterProber
    <2>14. CASE EndTick
      BY <2>1, <2>14, MonitoredEndTick
    <2>15. CASE Lookup
      BY <2>1, <2>3, <2>15, MonitoredGoes, MonitoredNextCheck DEF Lookup
    <2>16. CASE FirstUpdate
      BY <2>1, <2>3, <2>16, MonitoredGoes DEF FirstUpdate
    <2>17. CASE Announce
      BY <2>1, <2>3, <2>17, MonitoredNextCheck DEF Announce
    <2>18. CASE ResolveRow
      BY <2>1, <2>3, <2>18, MonitoredGoes DEF ResolveRow
    <2>19. CASE ResolveUpdate
      BY <2>1, <2>3, <2>19, MonitoredGoes DEF ResolveUpdate
    <2>20. CASE ResolvePublish
      BY <2>1, <2>3, <2>20, MonitoredNextCheck DEF ResolvePublish
    <2>21. QED
      BY <1>3, <2>4, <2>5, <2>6, <2>7, <2>8, <2>9, <2>10, <2>11, <2>12, <2>13, <2>14, <2>15,
         <2>16, <2>17, <2>18, <2>19, <2>20, Zenon DEF EngineStep
  <1>4. CASE ~Create /\ \E due \in SUBSET Checks : Tick(due)
    BY <1>1, <1>4, MonitoredTick
  <1>5. CASE ~Create /\ \E c \in Checks : Probe(c)
    BY <1>1, <1>5, MonitoredProbe
  <1>6. CASE ~Create /\ \E c \in Checks : Skip(c)
    BY <1>1, <1>6, MonitoredDrops DEF Skip
  <1>7. CASE ~Create /\ \E o \in Operators : OpRequest(o) \/ OpStep(o)
    <2>1. UNCHANGED <<cfg, applied, eng>>
      BY <1>7, Zenon DEF OpRequest, OpStep, OpCreate, OpResolve, OpUpdate, OpEntry, OpSet, OpPublish
    <2>2. QED
      BY <1>1, <1>7, <2>1, MonitoredSame
  <1>8. CASE ~Create /\ Environment
    <2>1. AutoKept
      BY <1>1, <1>8
    <2>2. CASE DbFails
      BY <2>1, <2>2, MonitoredDbFails
    <2>3. CASE PublishFails
      <3>1. UNCHANGED <<cfg, applied>>
        BY <2>3 DEF PublishFails
      <3>2. "resolvePublish" \in HandleSteps /\ "announce" \in HandleSteps
        BY DEF HandleSteps
      <3>3. QED
        BY <2>1, <2>3, <3>1, <3>2, MonitoredClosed, MonitoredNextCheck DEF PublishFails
    <2>4. CASE Crash
      BY <2>1, <2>4, MonitoredStops DEF Crash, EngineDown
    <2>5. CASE \E s \in Shapes : Reload(s)
      BY <2>5, MonitoredReload
    <2>6. CASE \E c \in Checks : Flip(c)
      BY <2>1, <2>6, MonitoredSame DEF Flip
    <2>7. CASE \E o \in Operators : OpFails(o)
      BY <2>1, <2>7, MonitoredSame DEF OpFails
    <2>8. QED
      BY <1>8, <2>2, <2>3, <2>4, <2>5, <2>6, <2>7, Zenon DEF Environment
  <1>9. CASE ~Create /\ UNCHANGED vars
    BY <1>1, <1>9, MonitoredSame DEF vars
  <1>10. QED
    BY <1>2, <1>3, <1>4, <1>5, <1>6, <1>7, <1>8, <1>9, Zenon DEF Next

\* Once the config prober_loop runs on has been reconciled, every automatic
\* incident that is open is on a component it monitors, as long as no reload
\* lands between bootstrap and the start of prober_loop.
THEOREM ReconciledMonitoredAlways ==
  ASSUME EarlyReload = FALSE
  PROVE  Spec => []ReconciledMonitored
  <1>1. Init => MonitoredInv
    BY EngineAssumption, MonitoredInit
  <1>2. TypeOK /\ MonitoredInv /\ [Next]_vars => MonitoredInv'
    BY EngineAssumption, MonitoredNext
  <1>3. MonitoredInv => ReconciledMonitored
    BY DEF MonitoredInv
  <1>4. QED
    BY <1>1, <1>2, <1>3, TypeCorrect, PTL DEF Spec

-----------------------------------------------------------------------------
(* The history: what the engine's memory and the history of the incidents  *)
(* say of each other.                                                      *)

(* The invariants.                                                         *)

\* The calls of handle() between a check going down and its machine holding
\* an incident.
Opening == {"lookup", "create", "firstUpdate", "announce"}

(* A machine is down exactly when it holds an incident, but for the check   *)
(* whose incident is being opened.                                         *)
TracksInv ==
  used.faults = 0 =>
    /\ \A c \in Checks : machines[c].state = "down" <=>
         machines[c].incident # NoId \/ (eng.at \in Opening /\ c = eng.check)
    /\ eng.at \in {"firstUpdate", "announce"} => eng.id # NoId

(* The calls about one incident, and what the engine is doing to a row.    *)
Busy == {"firstUpdate", "announce", "resolve", "resolveUpdate", "resolvePublish",
         "closeUpdate", "closePublish"}

Closing == {"closeUpdate", "closePublish", "resolveUpdate", "resolvePublish"}

Doing(i) == IF eng.at \in Busy /\ eng.id = i THEN eng.at ELSE "rest"

Positions(s, x) == {k \in DOMAIN s : s[k] = x}

(* A row's timeline says "resolved" once at most, and not before the row is *)
(* closed and the call that writes it has been made; the calls made after   *)
(* closing it are about a closed one.                                      *)
Timely(r, step) ==
  /\ \A j, k \in Positions(r.timeline, "resolved") : j = k
  /\ r.open \/ step \in {"resolve", "closeUpdate", "resolveUpdate"} =>
       Positions(r.timeline, "resolved") = {}
  /\ step = "resolve" => r.open
  /\ step \in Closing => ~r.open

(* What subscribers were told of a row, when no call failed.               *)
Announced(r, step) ==
  /\ r.told = IF r.quiet \/ step \in {"firstUpdate", "announce"} THEN <<>>
              ELSE IF r.open \/ step \in Closing THEN <<"opened">>
              ELSE <<"opened", "resolved">>
  /\ step \in {"firstUpdate", "announce"} => r.open /\ ~r.quiet

Calm == used.faults = 0 /\ used.crashes = 0

RowAt(r, step, calm) == Timely(r, step) /\ (calm => Announced(r, step))

HistoryRows == \A i \in DOMAIN incidents : RowAt(incidents[i], Doing(i), Calm)

(* What is on the list of incidents to close is open but for the one in    *)
(* hand, and there is no list outside forget_unmonitored.                  *)
VictimsOpen ==
  /\ eng.victims # {} => eng.at \in ForgetSteps \cup {"close"}
  /\ \A i \in eng.victims : incidents[i].open \/ (eng.at \in ForgetSteps /\ i = eng.id)

HistoryInv ==
  used.requests = 0 => HistoryRows /\ VictimsOpen /\ \A o \in Operators : op[o].at = "idle"

-----------------------------------------------------------------------------
(* What was used up stays used up.                                         *)

\* A count that is zero was zero.
UsedStill == \A b \in DOMAIN Bounds : used'[b] = 0 => used[b] = 0

\* The kinds of upset that are counted.
LEMMA UsedKinds ==
  ASSUME TypeOK
  PROVE  /\ DOMAIN Bounds = {"reloads", "crashes", "faults", "requests", "flips"}
         /\ \A b \in DOMAIN Bounds : used[b] \in Nat
  <1>1. DOMAIN Bounds = {"reloads", "crashes", "faults", "requests", "flips"}
    BY DEF Bounds
  <1>2. QED
    BY <1>1 DEF TypeOK

\* Spending counts one kind of upset up.
LEMMA Spent ==
  ASSUME TypeOK, NEW what \in DOMAIN Bounds, Spend(what)
  PROVE  UsedStill /\ used'[what] # 0
  <1> DEFINE D == DOMAIN Bounds
  <1>1. used \in [D -> Nat] /\ what \in D
    BY DEF TypeOK
  <1>2. used' = [used EXCEPT ![what] = @ + 1]
    BY DEF Spend
  <1> HIDE DEF D
  <1>3. used'[what] # 0 /\ \A b \in D : used'[b] = 0 => used[b] = 0
    BY <1>1, <1>2
  <1>4. QED
    BY <1>3 DEF UsedStill, D, Bounds

\* Each upset is counted as what it is, and no step takes a count back.
LEMMA UsedCounts ==
  ASSUME TypeOK, [Next]_vars
  PROVE  /\ UsedStill
         /\ DbFails \/ PublishFails \/ (\E o \in Operators : OpFails(o)) => used'.faults # 0
         /\ Crash => used'.crashes # 0
         /\ (\E o \in Operators : OpRequest(o)) => used'.requests # 0
  <1>1. /\ "faults" \in DOMAIN Bounds /\ "crashes" \in DOMAIN Bounds /\ "requests" \in DOMAIN Bounds
        /\ "reloads" \in DOMAIN Bounds /\ "flips" \in DOMAIN Bounds
    BY UsedKinds
  <1>2. UNCHANGED used => UsedStill
    BY DEF UsedStill
  <1>3. DbFails \/ PublishFails \/ (\E o \in Operators : OpFails(o)) => UsedStill /\ used'.faults # 0
    BY <1>1, Spent DEF DbFails, PublishFails, OpFails
  <1>4. Crash => UsedStill /\ used'.crashes # 0
    BY <1>1, Spent DEF Crash
  <1>5. (\E o \in Operators : OpRequest(o)) => UsedStill /\ used'.requests # 0
    BY <1>1, Spent DEF OpRequest, OpCreate, OpUpdate, OpResolve
  <1>6. Start \/ (\E s \in Shapes : Reload(s)) => UsedStill
    BY <1>1, <1>2, Spent DEF Start, Reload
  <1>7. (\E c \in Checks : Flip(c)) => UsedStill
    BY <1>1, Spent DEF Flip
  <1>8. EngineStep => UsedStill
    BY <1>2, <1>6 DEF EngineStep, Forget, Close, CloseUpdate, ClosePublish, Reconcile, Forgotten,
       Resume, Serve, EnterProber, EndTick, Lookup, Create, FirstUpdate, Announce, ResolveRow,
       ResolveUpdate, ResolvePublish
  <1>9. (\E due \in SUBSET Checks : Tick(due)) \/ (\E c \in Checks : Probe(c) \/ Skip(c)) => UsedStill
    BY <1>2 DEF Tick, Probe, Skip
  <1>10. (\E o \in Operators : OpStep(o)) => UsedStill
    BY <1>2 DEF OpStep, OpEntry, OpSet, OpPublish
  <1>11. UNCHANGED vars => UsedStill
    BY <1>2 DEF vars
  <1>12. UsedStill
    BY <1>3, <1>4, <1>5, <1>6, <1>7, <1>8, <1>9, <1>10, <1>11, Zenon DEF Next, Environment
  <1>13. QED
    BY <1>3, <1>4, <1>5, <1>12, Zenon

-----------------------------------------------------------------------------
(* Where the engine goes.                                                  *)

\* The engine in a pass, between two calls about incidents.
LEMMA AtFields ==
  ASSUME NEW step, NEW phase, NEW tick, NEW todo, eng' = At(step, phase, tick, todo)
  PROVE  eng'.at = step /\ eng'.id = NoId /\ eng'.victims = {} /\ eng'.todo = todo
  BY DEF At

\* The next call of a task keeps what the task is about.
LEMMA GoFields ==
  ASSUME TypeOK, NEW step, Go(step)
  PROVE  /\ eng'.at = step /\ eng'.id = eng.id /\ eng'.check = eng.check
         /\ eng'.victims = eng.victims
  <1>1. eng \in Engine
    BY DEF TypeOK, EngineOK
  <1>2. QED
    BY <1>1 DEF Go, Engine

\* A closed incident goes off the list.
LEMMA ClosedFields ==
  ASSUME TypeOK, Closed
  PROVE  eng'.at = "close" /\ eng'.id = NoId /\ eng'.victims = eng.victims \ {eng.id}
  <1>1. eng \in Engine
    BY DEF TypeOK, EngineOK
  <1>2. QED
    BY <1>1 DEF Closed, Engine

\* A check goes off the list of the pass.
LEMMA DropFields ==
  ASSUME TypeOK, NEW c, eng' = [eng EXCEPT !.todo = @ \ {c}]
  PROVE  /\ eng'.at = eng.at /\ eng'.id = eng.id /\ eng'.check = eng.check
         /\ eng'.victims = eng.victims
  <1>1. eng \in Engine
    BY DEF TypeOK, EngineOK
  <1>2. QED
    BY <1>1 DEF Engine

\* What a result wants done, and of which incident.
LEMMA ProbeOutcome ==
  ASSUME EngineAssumption, TypeOK, NEW c \in Checks, Probe(c)
  PROVE  \E r \in [m : Machine, t : Transition] :
           /\ r = OnResult(Current(c), Settings, c \notin sick, 0)
           /\ machines' = [machines EXCEPT ![c] = Saturate(r.m, Settings)]
           /\ \/ /\ r.t.kind \in {"nothing", "remind"}
                 /\ eng'.at = eng.at /\ eng'.id = eng.id /\ eng'.victims = eng.victims
              \/ /\ r.t.kind = "open" /\ eng'.at = "lookup"
                 /\ eng'.check = c /\ eng'.id = r.t.id /\ eng'.victims = eng.victims
              \/ /\ r.t.kind = "resolve" /\ eng'.at = "resolve"
                 /\ eng'.check = c /\ eng'.id = r.t.id /\ eng'.victims = eng.victims
  <1> DEFINE r == OnResult(Current(c), Settings, c \notin sick, 0)
  <1>1. Settings \in Check /\ (c \notin sick) \in BOOLEAN /\ 0 \in Nat
    BY DEF EngineAssumption
  <1>2. r.m \in Machine /\ r.t \in Transition
    BY <1>1, CurrentType, OnResultType, Zenon
  <1>3. r \in [m : Machine, t : Transition]
    <2>1. r = [m |-> r.m, t |-> r.t]
      BY DEF OnResult, OnSuccess, OnFailure
    <2> HIDE DEF r
    <2>2. QED
      BY <1>2, <2>1
  <1>4. machines' = [machines EXCEPT ![c] = Saturate(r.m, Settings)]
    BY DEF Probe
  <1>5. \/ StepFor[r.t.kind] = "probe" /\ eng' = [eng EXCEPT !.todo = @ \ {c}]
        \/ \E m \in Muting : /\ StepFor[r.t.kind] # "probe"
                              /\ eng' = [eng EXCEPT !.at = StepFor[r.t.kind], !.check = c,
                                                   !.id = r.t.id, !.muted = m /\ r.t = Open]
    BY Zenon DEF Probe
  <1> HIDE DEF r
  <1>6. r.t.kind \in {"nothing", "remind", "open", "resolve"}
    BY <1>2 DEF Transition
  <1>7. /\ StepFor["nothing"] = "probe" /\ StepFor["remind"] = "probe"
        /\ StepFor["open"] = "lookup" /\ StepFor["resolve"] = "resolve"
    BY DEF StepFor
  <1>8. eng \in Engine
    BY DEF TypeOK, EngineOK
  <1>9. CASE StepFor[r.t.kind] = "probe"
    <2>1. eng' = [eng EXCEPT !.todo = @ \ {c}]
      BY <1>5, <1>9
    <2>2. r.t.kind \in {"nothing", "remind"}
      BY <1>6, <1>7, <1>9
    <2>3. QED
      BY <1>3, <1>4, <2>1, <2>2, DropFields DEF r
  <1>10. CASE StepFor[r.t.kind] # "probe"
    <2>1. PICK m \in Muting : eng' = [eng EXCEPT !.at = StepFor[r.t.kind], !.check = c,
                                                 !.id = r.t.id, !.muted = m /\ r.t = Open]
      BY <1>5, <1>10
    <2>2. /\ eng'.at = StepFor[r.t.kind] /\ eng'.check = c /\ eng'.id = r.t.id
          /\ eng'.victims = eng.victims
      BY <1>8, <2>1 DEF Engine
    <2>3. \/ r.t.kind = "open" /\ eng'.at = "lookup"
          \/ r.t.kind = "resolve" /\ eng'.at = "resolve"
      BY <1>6, <1>7, <1>10, <2>2
    <2>4. QED
      BY <1>3, <1>4, <2>2, <2>3 DEF r
  <1>11. QED
    BY <1>9, <1>10

-----------------------------------------------------------------------------
(* A check is down exactly when its machine holds an incident.             *)

\* What one machine says.
Tracks(m) == m.state = "down" <=> m.incident # NoId

\* A result leaves a machine that tracks, or one that goes down and has its
\* incident opened.
LEMMA ResultTracks ==
  ASSUME NEW m \in Machine, Tracks(m), NEW check \in Check, NEW ok \in BOOLEAN, NEW now \in Nat
  PROVE  LET r == OnResult(m, check, ok, now)
         IN IF r.t.kind = "open" THEN r.m.state = "down" ELSE Tracks(r.m)
  <1> DEFINE r == OnResult(m, check, ok, now)
  <1>1. DefaultMachine.state = "up" /\ DefaultMachine.incident = NoId
    BY DEF DefaultMachine
  <1>2. CASE ok
    <2>1. r = OnSuccess(m, check)
      BY <1>2 DEF OnResult
    <2>2. /\ OnSuccess(m, check).m = DefaultMachine \/ OnSuccess(m, check).m = Passed(m)
          /\ OnSuccess(m, check).t = Resolve(m.incident) \/ OnSuccess(m, check).t = Nothing
      BY Zenon DEF OnSuccess, Passed
    <2>3. Passed(m).state = m.state /\ Passed(m).incident = m.incident
      BY PassedFields
    <2>4. Resolve(m.incident).kind # "open" /\ Nothing.kind # "open"
      BY DEF Resolve, Nothing
    <2> HIDE DEF r
    <2>5. QED
      BY <1>1, <2>1, <2>2, <2>3, <2>4 DEF Tracks, r
  <1>3. CASE ~ok
    <2> DEFINE opened == [Failed(m) EXCEPT !.state = "down", !.lastReminder = now]
               alerted == [Failed(m) EXCEPT !.lastReminder = now]
               f == OnFailure(m, check, now)
    <2>1. r = f
      BY <1>3 DEF OnResult
    <2>2. \/ f.m = opened /\ f.t = Open
          \/ /\ f.m = alerted \/ f.m = Failed(m)
             /\ f.t = Remind(m.incident) \/ f.t = Nothing
      BY Zenon DEF OnFailure, Failed
    <2>3. Failed(m) \in Machine /\ Failed(m).incident = m.incident /\ Failed(m).state = m.state
      BY FailedFields
    <2>4. /\ opened.state = "down" /\ alerted.incident = m.incident /\ alerted.state = m.state
      BY <2>3 DEF Machine
    <2>5. Open.kind = "open" /\ Remind(m.incident).kind # "open" /\ Nothing.kind # "open"
      BY DEF Open, Remind, Nothing
    <2> HIDE DEF r, f, opened, alerted
    <2>6. QED
      BY <2>1, <2>2, <2>3, <2>4, <2>5 DEF Tracks, r
  <1>4. QED
    BY <1>2, <1>3

\* A step that leaves the machines alone, in a call that opens nothing.
LEMMA TracksStays ==
  ASSUME TypeOK, TracksInv, UsedStill, UNCHANGED machines,
         eng.at \notin Opening, eng'.at \notin Opening
  PROVE  TracksInv'
  BY UsedKinds DEF TracksInv, UsedStill, Opening

\* A step that leaves machines and engine alone.
LEMMA TracksSame ==
  ASSUME TypeOK, TracksInv, UsedStill, UNCHANGED <<machines, eng>>
  PROVE  TracksInv'
  BY UsedKinds DEF TracksInv, UsedStill

\* The next call of handle() on the way to an incident.
LEMMA TracksOnward ==
  ASSUME TypeOK, TracksInv, UsedStill, UNCHANGED machines,
         eng.at \in Opening, eng'.at \in Opening, eng'.check = eng.check,
         eng'.at \in {"firstUpdate", "announce"} => eng'.id # NoId
  PROVE  TracksInv'
  BY UsedKinds DEF TracksInv, UsedStill

\* Every machine of a new process tracks.
LEMMA TracksFresh ==
  ASSUME machines' = Fresh, eng'.at \notin Opening
  PROVE  TracksInv'
  BY DEF TracksInv, Fresh, DefaultMachine, Opening

\* Some machines are dropped, the others keep tracking.
LEMMA TracksRetained ==
  ASSUME TypeOK, TracksInv, UsedStill, Retain, eng.at \notin Opening, eng'.at \notin Opening
  PROVE  TracksInv'
  <1>1. \A c \in Checks : machines'[c] = machines[c] \/ machines'[c] = DefaultMachine
    BY DEF Retain
  <1>2. DefaultMachine.state = "up" /\ DefaultMachine.incident = NoId
    BY DEF DefaultMachine
  <1>3. QED
    BY <1>1, <1>2, UsedKinds DEF TracksInv, UsedStill, Opening

\* A machine that goes down gets its incident.
LEMMA TracksAttached ==
  ASSUME TypeOK, TracksInv, UsedStill, eng.at \in Opening, eng.check \in Checks,
         NEW id \in Nat, id # NoId, Attach(id), NextCheck
  PROVE  TracksInv'
  <1>1. machines[eng.check] \in Machine /\ machines \in [Checks -> Machine]
    BY DEF TypeOK, MachinesOK
  <1>2. machines' = [machines EXCEPT ![eng.check] = [machines[eng.check] EXCEPT !.incident = id]]
    BY DEF Attach
  <1>3. /\ machines'[eng.check].incident = id
        /\ machines'[eng.check].state = machines[eng.check].state
    BY <1>1, <1>2 DEF Machine
  <1>4. \A c \in Checks : c # eng.check => machines'[c] = machines[c]
    BY <1>1, <1>2
  <1>5. eng'.at = "probe"
    BY AtFields DEF NextCheck
  <1>6. QED
    BY <1>3, <1>4, <1>5, UsedKinds DEF TracksInv, UsedStill, Opening

\* A check whose component has an open incident is resumed as down, on it.
LEMMA TracksResume ==
  ASSUME TypeOK, TracksInv, UsedStill, NEW c \in Checks, Resume(c)
  PROVE  TracksInv'
  <1> DEFINE open == OpenOn(IncidentComponent(eng.tick.shape, c))
  <1>1. eng.at = "resume" /\ eng'.at = "resume"
    BY DropFields DEF Resume
  <1>2. CASE open = {}
    BY <1>1, <1>2, TracksStays DEF Resume, Opening
  <1>3. CASE open # {}
    <2>1. machines' = [machines EXCEPT ![c] = Resumed(Newest(open))]
      BY <1>3 DEF Resume
    <2>2. Newest(open) \in open /\ open \subseteq DOMAIN incidents
      <3>1. Len(incidents) \in Nat /\ DOMAIN incidents = 1..Len(incidents)
        BY LenProperties DEF TypeOK, RowsOK
      <3>2. open \subseteq 1..Len(incidents)
        BY <3>1 DEF OpenOn
      <3>3. QED
        BY <1>3, <3>1, <3>2, NewestIs
    <2>3. Newest(open) \in Nat /\ Newest(open) # NoId
      BY <2>2, LenProperties DEF TypeOK, RowsOK, NoId
    <2> HIDE DEF open
    <2>4. /\ Resumed(Newest(open)).state = "down" /\ Resumed(Newest(open)).incident = Newest(open)
      BY DEF Resumed, DefaultMachine
    <2>5. machines \in [Checks -> Machine]
      BY DEF TypeOK, MachinesOK
    <2>6. \A d \in Checks : machines'[d] = IF d = c THEN Resumed(Newest(open)) ELSE machines[d]
      BY <2>1, <2>5
    <2>7. QED
      BY <1>1, <2>3, <2>4, <2>6, UsedKinds DEF TracksInv, UsedStill, Opening
  <1>4. QED
    BY <1>2, <1>3

\* A result goes to a machine that tracks, and leaves one that does.
LEMMA TracksProbe ==
  ASSUME EngineAssumption, TypeOK, TracksInv, UsedStill, NEW c \in Checks, Probe(c)
  PROVE  TracksInv'
  <1>1. PICK r \in [m : Machine, t : Transition] :
           /\ r = OnResult(Current(c), Settings, c \notin sick, 0)
           /\ machines' = [machines EXCEPT ![c] = Saturate(r.m, Settings)]
           /\ \/ /\ r.t.kind \in {"nothing", "remind"}
                 /\ eng'.at = eng.at /\ eng'.id = eng.id /\ eng'.victims = eng.victims
              \/ /\ r.t.kind = "open" /\ eng'.at = "lookup"
                 /\ eng'.check = c /\ eng'.id = r.t.id /\ eng'.victims = eng.victims
              \/ /\ r.t.kind = "resolve" /\ eng'.at = "resolve"
                 /\ eng'.check = c /\ eng'.id = r.t.id /\ eng'.victims = eng.victims
    BY ProbeOutcome
  <1>2. eng.at = "probe"
    BY DEF Probe
  <1> SUFFICES ASSUME used'.faults = 0 PROVE TracksInv'
    BY DEF TracksInv
  <1>3. \A d \in Checks : Tracks(machines[d])
    BY <1>2, UsedKinds DEF TracksInv, UsedStill, Opening, Tracks
  <1>4. Tracks(Current(c)) /\ Current(c) \in Machine
    BY <1>3, CurrentType DEF Current, Tracks, DefaultMachine
  <1>5. Settings \in Check /\ (c \notin sick) \in BOOLEAN /\ 0 \in Nat
    BY DEF EngineAssumption
  <1>6. IF r.t.kind = "open" THEN r.m.state = "down" ELSE Tracks(r.m)
    <2> DEFINE x == OnResult(Current(c), Settings, c \notin sick, 0)
    <2>1. IF x.t.kind = "open" THEN x.m.state = "down" ELSE Tracks(x.m)
      BY <1>4, <1>5, ResultTracks, ZenonT(60)
    <2>2. r = x
      BY <1>1, Zenon
    <2> HIDE DEF x
    <2>3. QED
      BY <2>1, <2>2, ZenonT(30)
  <1>7. /\ Saturate(r.m, Settings).state = r.m.state
        /\ Saturate(r.m, Settings).incident = r.m.incident
    BY <1>1, <1>5, SaturateFields
  <1>8. machines \in [Checks -> Machine]
    BY DEF TypeOK, MachinesOK
  <1>9. \A d \in Checks : machines'[d] = IF d = c THEN Saturate(r.m, Settings) ELSE machines[d]
    BY <1>1, <1>8
  <1>10. QED
    BY <1>1, <1>2, <1>3, <1>6, <1>7, <1>9 DEF TracksInv, Tracks, Opening

\* An error ends the task in hand, and spends the promise; a crash starts over.
LEMMA TracksFault ==
  ASSUME used'.faults # 0
  PROVE  TracksInv'
  BY DEF TracksInv

\* Each call of the engine keeps the invariant behind DownTracks.
LEMMA TracksEngineStep ==
  ASSUME EngineAssumption, TypeOK, TracksInv, UsedStill, EngineStep
  PROVE  TracksInv'
  <1> USE DEF Opening
  <1>1. CASE Start
    BY <1>1, AtFields, TracksStays DEF Start
  <1>2. CASE Forget
    <2>1. eng \in Engine
      BY DEF TypeOK, EngineOK
    <2>2. eng'.at = "close"
      BY <1>2, <2>1 DEF Forget, Engine
    <2>3. QED
      BY <1>2, <2>2, TracksStays DEF Forget
  <1>3. CASE Close
    <2>1. eng \in Engine
      BY DEF TypeOK, EngineOK
    <2>2. eng'.at = "closeUpdate"
      BY <1>3, <2>1 DEF Close, Engine
    <2>3. QED
      BY <1>3, <2>2, TracksStays DEF Close
  <1>4. CASE CloseUpdate
    BY <1>4, GoFields, TracksStays DEF CloseUpdate
  <1>5. CASE ClosePublish
    BY <1>5, ClosedFields, TracksStays DEF ClosePublish
  <1>6. CASE Reconcile
    BY <1>6, AtFields, TracksRetained DEF Reconcile
  <1>7. CASE Forgotten
    BY <1>7, AtFields, TracksRetained DEF Forgotten
  <1>8. CASE \E c \in Checks : Resume(c)
    BY <1>8, TracksResume
  <1>9. CASE Serve
    BY <1>9, AtFields, TracksStays DEF Serve
  <1>10. CASE EnterProber
    BY <1>10, AtFields, TracksStays DEF EnterProber
  <1>11. CASE EndTick
    BY <1>11, AtFields, TracksStays DEF EndTick
  <1>12. CASE Lookup
    <2> DEFINE open == OpenOn(Component)
    <2>1. eng.check \in Checks
      BY <1>12 DEF Lookup, TypeOK, EngineOK, HandleSteps
    <2>2. CASE open = {}
      BY <1>12, <2>2, GoFields, TracksOnward DEF Lookup
    <2>3. CASE open # {}
      <3>1. Len(incidents) \in Nat /\ DOMAIN incidents = 1..Len(incidents)
        BY LenProperties DEF TypeOK, RowsOK
      <3>2. open \subseteq 1..Len(incidents)
        BY <3>1 DEF OpenOn
      <3>3. Newest(open) \in 1..Len(incidents)
        BY <2>3, <3>1, <3>2, NewestIs
      <3>4. Newest(open) \in Nat /\ Newest(open) # NoId
        BY <3>1, <3>3 DEF NoId
      <3>5. Attach(Newest(open)) /\ NextCheck /\ eng.at = "lookup"
        BY <1>12, <2>3 DEF Lookup
      <3>6. QED
        BY <2>1, <3>4, <3>5, TracksAttached
    <2>4. QED
      BY <2>2, <2>3
  <1>13. CASE Create
    <2>1. eng.check \in Checks /\ eng \in Engine
      BY <1>13 DEF Create, TypeOK, EngineOK, HandleSteps
    <2>2. RowAdded(Component, TRUE)
      BY <1>13, <2>1, ComponentType, CreateIncidentAdds DEF Create, TypeOK, RowsOK
    <2>3. Len(incidents') # NoId
      BY <2>2, LenProperties DEF RowAdded, TypeOK, RowsOK, NoId
    <2>4. eng'.at = "firstUpdate" /\ eng'.id = Len(incidents') /\ eng'.check = eng.check
      BY <1>13, <2>1 DEF Create, Engine
    <2>5. QED
      BY <1>13, <2>3, <2>4, TracksOnward DEF Create
  <1>14. CASE FirstUpdate
    <2>1. eng.at = "firstUpdate" /\ UNCHANGED machines /\ Go("announce")
      BY <1>14 DEF FirstUpdate
    <2>2. eng'.at = "announce" /\ eng'.id = eng.id /\ eng'.check = eng.check
      BY <2>1, GoFields
    <2>3. CASE eng.id # NoId
      BY <2>1, <2>2, <2>3, TracksOnward
    <2>4. CASE eng.id = NoId
      BY <2>1, <2>4, UsedKinds DEF TracksInv, UsedStill
    <2>5. QED
      BY <2>3, <2>4
  <1>15. CASE Announce
    <2>1. eng.at = "announce" /\ Attach(eng.id) /\ NextCheck
      BY <1>15 DEF Announce
    <2>2. eng.check \in Checks /\ eng.id \in Nat
      BY <2>1 DEF TypeOK, EngineOK, HandleSteps, Engine
    <2>3. CASE eng.id # NoId
      BY <2>1, <2>2, <2>3, TracksAttached
    <2>4. CASE eng.id = NoId
      BY <2>1, <2>4, UsedKinds DEF TracksInv, UsedStill
    <2>5. QED
      BY <2>3, <2>4
  <1>16. CASE ResolveRow
    BY <1>16, GoFields, TracksStays DEF ResolveRow
  <1>17. CASE ResolveUpdate
    BY <1>17, GoFields, TracksStays DEF ResolveUpdate
  <1>18. CASE ResolvePublish
    <2>1. NextCheck /\ UNCHANGED machines /\ eng.at = "resolvePublish"
      BY <1>18 DEF ResolvePublish
    <2>2. eng'.at = "probe"
      BY <2>1, AtFields DEF NextCheck
    <2>3. QED
      BY <2>1, <2>2, TracksStays
  <1>19. QED
    BY <1>1, <1>2, <1>3, <1>4, <1>5, <1>6, <1>7, <1>8, <1>9, <1>10, <1>11, <1>12, <1>13, <1>14,
       <1>15, <1>16, <1>17, <1>18, Zenon DEF EngineStep

\* Every step keeps the invariant behind DownTracks.
LEMMA TracksNext ==
  ASSUME EngineAssumption, TypeOK, TracksInv, [Next]_vars
  PROVE  TracksInv'
  <1>1. UsedStill
    BY UsedCounts
  <1>2. CASE EngineStep
    BY <1>1, <1>2, TracksEngineStep
  <1>3. CASE \E due \in SUBSET Checks : Tick(due)
    <2>1. eng'.at \in {"forget", "probe"} /\ UNCHANGED machines /\ eng.at = "idle"
      BY <1>3, AtFields DEF Tick
    <2>2. QED
      BY <1>1, <2>1, TracksStays DEF Opening
  <1>4. CASE \E c \in Checks : Probe(c)
    BY <1>1, <1>4, TracksProbe
  <1>5. CASE \E c \in Checks : Skip(c)
    <2>1. eng'.at = eng.at /\ UNCHANGED machines /\ eng.at = "probe"
      BY <1>5, DropFields DEF Skip
    <2>2. QED
      BY <1>1, <2>1, TracksStays DEF Opening
  <1>6. CASE \E o \in Operators : OpRequest(o) \/ OpStep(o)
    <2>1. UNCHANGED <<eng, machines>>
      BY <1>6, Zenon DEF OpRequest, OpStep, OpCreate, OpResolve, OpUpdate, OpEntry, OpSet, OpPublish
    <2>2. QED
      BY <1>1, <2>1, TracksSame
  <1>7. CASE DbFails \/ PublishFails \/ (\E o \in Operators : OpFails(o))
    BY <1>7, UsedCounts, TracksFault
  <1>8. CASE Crash
    <2>1. machines' = Fresh /\ eng'.at = "down"
      BY <1>8, AtFields DEF Crash
    <2>2. QED
      BY <2>1, TracksFresh DEF Opening
  <1>9. CASE (\E s \in Shapes : Reload(s)) \/ (\E c \in Checks : Flip(c))
    BY <1>1, <1>9, TracksSame DEF Reload, Flip
  <1>10. CASE UNCHANGED vars
    BY <1>1, <1>10, TracksSame DEF vars
  <1>11. QED
    BY <1>2, <1>3, <1>4, <1>5, <1>6, <1>7, <1>8, <1>9, <1>10, Zenon DEF Next, Environment

\* Between results, a check is down exactly when its machine has an incident
\* to remind about and to resolve, as long as no call fails: whoever closes
\* incidents, across reloads, restarts and components that checks share.
THEOREM DownTracksAlways == Spec => []DownTracks
  <1>1. Init => TracksInv
    <2> SUFFICES ASSUME Init PROVE TracksInv
      OBVIOUS
    <2>1. machines = Fresh /\ eng.at = "forget"
      BY DEF Init, At
    <2>2. QED
      BY <2>1 DEF TracksInv, Fresh, DefaultMachine, Opening
  <1>2. TypeOK /\ TracksInv /\ [Next]_vars => TracksInv'
    BY EngineAssumption, TracksNext
  <1>3. TracksInv => DownTracks
    BY DEF TracksInv, DownTracks, Opening
  <1>4. QED
    BY <1>1, <1>2, <1>3, TypeCorrect, PTL DEF Spec

-----------------------------------------------------------------------------
(* What each call does to the history of a row.                            *)

\* Appending an entry to a timeline.
LEMMA EntryAdded ==
  ASSUME NEW s \in Seq(Phase), NEW p \in Phase
  PROVE  /\ Append(s, p) \in Seq(Phase) /\ Len(s) + 1 \notin DOMAIN s
         /\ Positions(Append(s, p), "resolved") =
              IF p = "resolved" THEN Positions(s, "resolved") \cup {Len(s) + 1}
              ELSE Positions(s, "resolved")
  <1> DEFINE n == Len(s) + 1
             t == Append(s, p)
  <1>1. /\ t \in Seq(Phase) /\ Len(s) \in Nat /\ DOMAIN s = 1..Len(s) /\ DOMAIN t = 1..n
        /\ \A k \in 1..Len(s) : t[k] = s[k]
        /\ t[n] = p
    BY AppendProperties, LenProperties
  <1> HIDE DEF t
  <1>2. \A k : k \in Positions(t, "resolved") <=>
               k \in Positions(s, "resolved") \/ (k = n /\ p = "resolved")
    BY <1>1 DEF Positions
  <1>3. n \notin DOMAIN s
    BY <1>1
  <1>4. CASE p = "resolved"
    BY <1>1, <1>2, <1>3, <1>4 DEF t
  <1>5. CASE p # "resolved"
    BY <1>1, <1>2, <1>3, <1>5 DEF t
  <1>6. QED
    BY <1>4, <1>5

\* The two messages of an incident, one after the other.
LEMMA OpenedThenResolved ==
  Append(<<"opened">>, "resolved") = <<"opened", "resolved">>
  <1> DEFINE M == {"opened", "resolved"}
             s == <<"opened">>
             t == <<"opened", "resolved">>
             u == Append(s, "resolved")
  <1>1. s \in Seq(M) /\ t \in Seq(M) /\ "resolved" \in M
    OBVIOUS
  <1>2. Len(s) = 1 /\ s[1] = "opened" /\ Len(t) = 2 /\ t[1] = "opened" /\ t[2] = "resolved"
    OBVIOUS
  <1> HIDE DEF M, s, t
  <1>3. u \in Seq(M) /\ Len(u) = 2 /\ u[1] = s[1] /\ u[2] = "resolved"
    <2>1. /\ u \in Seq(M) /\ Len(u) = Len(s) + 1 /\ u[Len(s) + 1] = "resolved"
          /\ \A i \in 1..Len(s) : u[i] = s[i]
      BY <1>1, AppendProperties
    <2> HIDE DEF u
    <2>2. QED
      BY <1>2, <2>1
  <1> HIDE DEF u
  <1>4. \A i \in 1..Len(u) : u[i] = t[i]
    <2>1. \A i \in 1..2 : i = 1 \/ i = 2
      OBVIOUS
    <2>2. QED
      BY <1>2, <1>3, <2>1
  <1>5. u = t
    BY <1>1, <1>2, <1>3, <1>4, SeqEqual
  <1>6. QED
    BY <1>5 DEF s, t, u

\* What a row is made of.
LEMMA RowTypes ==
  ASSUME TypeOK
  PROVE  /\ incidents \in Seq(Incident) /\ Len(incidents) \in Nat
         /\ DOMAIN incidents = 1..Len(incidents)
         /\ \A i \in DOMAIN incidents : incidents[i] \in Incident /\ incidents[i].timeline \in Seq(Phase)
  <1>1. /\ incidents \in Seq(Incident) /\ Len(incidents) \in Nat
        /\ DOMAIN incidents = 1..Len(incidents)
    BY LenProperties DEF TypeOK, RowsOK
  <1>2. \A i \in DOMAIN incidents : incidents[i] \in Incident
    BY <1>1, ElementOfSeq
  <1>3. QED
    BY <1>1, <1>2 DEF Incident

\* Closing an open row: its entry and its message are to follow.
LEMMA RowCloses ==
  ASSUME NEW r \in Incident, r.open, NEW from \in {"rest", "resolve"}, NEW calm, RowAt(r, from, calm),
         NEW step \in {"closeUpdate", "resolveUpdate"},
         NEW v, v = [r EXCEPT !.open = FALSE, !.state = "resolved"]
  PROVE  RowAt(v, step, calm)
  <1>1. /\ ~v.open /\ v.timeline = r.timeline /\ v.quiet = r.quiet /\ v.told = r.told
    BY DEF Incident
  <1>2. QED
    BY <1>1 DEF RowAt, Timely, Announced, Closing

\* The entry that says so.
LEMMA RowEntered ==
  ASSUME NEW r \in Incident, NEW calm,
         NEW from \in {"closeUpdate", "resolveUpdate"}, RowAt(r, from, calm),
         NEW step \in {"closePublish", "resolvePublish"},
         NEW v, v = [r EXCEPT !.timeline = Append(@, "resolved")]
  PROVE  RowAt(v, step, calm)
  <1>1. r.timeline \in Seq(Phase) /\ "resolved" \in Phase
    BY DEF Incident, Phase
  <1>2. /\ v.open = r.open /\ v.quiet = r.quiet /\ v.told = r.told
        /\ v.timeline = Append(r.timeline, "resolved")
    BY DEF Incident
  <1>3. Positions(r.timeline, "resolved") = {}
    BY DEF RowAt, Timely, Closing
  <1>4. Positions(v.timeline, "resolved") = {Len(r.timeline) + 1}
    BY <1>1, <1>2, <1>3, EntryAdded
  <1>5. QED
    BY <1>2, <1>4 DEF RowAt, Timely, Announced, Closing

\* The message about it, which a quiet incident does not send.
LEMMA RowTold ==
  ASSUME NEW r \in Incident, NEW calm,
         NEW from \in {"closePublish", "resolvePublish"}, RowAt(r, from, calm),
         NEW v, v = IF r.quiet THEN r ELSE [r EXCEPT !.told = Append(@, "resolved")]
  PROVE  RowAt(v, "rest", calm)
  <1>1. CASE r.quiet
    BY <1>1 DEF RowAt, Timely, Announced, Closing
  <1>2. CASE ~r.quiet
    <2>1. /\ v.open = r.open /\ v.quiet = r.quiet /\ v.timeline = r.timeline
          /\ v.told = Append(r.told, "resolved")
      BY <1>2 DEF Incident
    <2>2. calm => r.told = <<"opened">>
      BY <1>2 DEF RowAt, Timely, Announced, Closing
    <2>3. calm => v.told = <<"opened", "resolved">>
      BY <2>1, <2>2, OpenedThenResolved, Zenon
    <2>4. QED
      BY <1>2, <2>1, <2>3 DEF RowAt, Timely, Announced, Closing
  <1>3. QED
    BY <1>1, <1>2

\* The first entry of an incident.
LEMMA RowBegun ==
  ASSUME NEW r \in Incident, NEW calm, RowAt(r, "firstUpdate", calm),
         NEW v, v = [r EXCEPT !.timeline = Append(@, "ongoing")]
  PROVE  RowAt(v, "announce", calm)
  <1>1. r.timeline \in Seq(Phase) /\ "ongoing" \in Phase
    BY DEF Incident, Phase
  <1>2. /\ v.open = r.open /\ v.quiet = r.quiet /\ v.told = r.told
        /\ v.timeline = Append(r.timeline, "ongoing")
    BY DEF Incident
  <1>3. Positions(v.timeline, "resolved") = Positions(r.timeline, "resolved")
    BY <1>1, <1>2, EntryAdded
  <1>4. QED
    BY <1>2, <1>3 DEF RowAt, Timely, Announced, Closing

\* It is kept from subscribers for good, or they are told that it opened.
LEMMA RowAnnounced ==
  ASSUME NEW r \in Incident, NEW calm, RowAt(r, "announce", calm),
         NEW v, \/ v = [r EXCEPT !.quiet = TRUE]
                \/ v = IF r.quiet THEN r ELSE [r EXCEPT !.told = Append(@, "opened")]
  PROVE  RowAt(v, "rest", calm)
  <1>1. CASE v = [r EXCEPT !.quiet = TRUE]
    <2>1. v.open = r.open /\ v.quiet /\ v.told = r.told /\ v.timeline = r.timeline
      BY <1>1 DEF Incident
    <2>2. QED
      BY <2>1 DEF RowAt, Timely, Announced, Closing
  <1>2. CASE v = r /\ r.quiet
    BY <1>2 DEF RowAt, Timely, Announced, Closing
  <1>3. CASE ~r.quiet /\ v = [r EXCEPT !.told = Append(@, "opened")]
    <2>1. /\ v.open = r.open /\ v.quiet = r.quiet /\ v.timeline = r.timeline
          /\ v.told = Append(r.told, "opened")
      BY <1>3 DEF Incident
    <2>2. calm => r.told = <<>> /\ r.open
      BY DEF RowAt, Announced
    <2>3. calm => v.told = <<"opened">>
      <3>1. Append(<<>>, "opened") = <<"opened">>
        OBVIOUS
      <3>2. QED
        BY <2>1, <2>2, <3>1, Zenon
    <2>4. QED
      BY <1>3, <2>1, <2>2, <2>3 DEF RowAt, Timely, Announced, Closing
  <1>4. QED
    BY <1>1, <1>2, <1>3

\* When a call fails, nothing is said any more of what subscribers hear.
LEMMA RowLeft ==
  ASSUME NEW r, NEW from, NEW calm, RowAt(r, from, calm), NEW after, ~after
  PROVE  RowAt(r, "rest", after)
  BY DEF RowAt, Timely, Closing

\* With nothing to do, a row stays as it is.
LEMMA RowRests ==
  ASSUME NEW r, NEW step, NEW calm, RowAt(r, step, calm), NEW after, after => calm
  PROVE  RowAt(r, step, after)
  BY DEF RowAt

-----------------------------------------------------------------------------
(* What each step does to the table.                                       *)

\* The part of the invariant that the engine may disturb.
History == HistoryRows /\ VictimsOpen

\* A step that writes one row, the one the engine is or was busy with.
LEMMA HistoryOneRow ==
  ASSUME TypeOK, HistoryRows, Calm' => Calm, NEW id, NEW v,
         incidents' = [incidents EXCEPT ![id] = v],
         eng.at \in Busy => eng.id = id, eng'.at \in Busy => eng'.id = id,
         id \in DOMAIN incidents => RowAt(v, Doing(id)', Calm')
  PROVE  HistoryRows'
  <1>1. DOMAIN incidents' = DOMAIN incidents
    OBVIOUS
  <1>2. ASSUME NEW i \in DOMAIN incidents, i # id
        PROVE  RowAt(incidents'[i], Doing(i)', Calm')
    <2>1. incidents'[i] = incidents[i]
      BY <1>2
    <2>2. Doing(i) = "rest" /\ Doing(i)' = "rest"
      BY <1>2 DEF Doing
    <2>3. RowAt(incidents[i], "rest", Calm)
      BY <2>2 DEF HistoryRows
    <2>4. QED
      BY <2>1, <2>2, <2>3, RowRests
  <1>3. id \in DOMAIN incidents => incidents'[id] = v
    OBVIOUS
  <1>4. QED
    BY <1>1, <1>2, <1>3 DEF HistoryRows

\* A step that writes none.
LEMMA HistoryNoRow ==
  ASSUME HistoryRows, Calm' => Calm, UNCHANGED incidents,
         \/ eng'.at = eng.at /\ eng'.id = eng.id
         \/ eng'.at \notin Busy /\ (eng.at \in Busy => ~Calm')
  PROVE  HistoryRows'
  <1>1. ASSUME NEW i \in DOMAIN incidents PROVE RowAt(incidents[i], Doing(i)', Calm')
    <2>1. RowAt(incidents[i], Doing(i), Calm)
      BY DEF HistoryRows
    <2>2. CASE Doing(i)' = Doing(i)
      BY <2>1, <2>2, RowRests
    <2>3. CASE Doing(i)' # Doing(i)
      <3>1. Doing(i)' = "rest" /\ ~Calm'
        BY <2>3 DEF Doing
      <3>2. QED
        BY <2>1, <3>1, RowLeft
    <2>4. QED
      BY <2>2, <2>3
  <1>2. QED
    BY <1>1 DEF HistoryRows

\* The engine goes to a new pass, or down, from outside the calls about an
\* incident or because one failed.
LEMMA HistoryAt ==
  ASSUME HistoryRows, Calm' => Calm, UNCHANGED incidents, eng.at \in Busy => ~Calm',
         NEW step, step \notin Busy, NEW phase, NEW tick, NEW todo, eng' = At(step, phase, tick, todo)
  PROVE  History'
  <1>1. eng'.at = step /\ eng'.victims = {}
    BY AtFields
  <1>2. HistoryRows'
    BY <1>1, HistoryNoRow
  <1>3. QED
    BY <1>1, <1>2 DEF History, VictimsOpen

\* Nothing is written, and the engine stays in the same call.
LEMMA HistorySame ==
  ASSUME History, Calm' => Calm, UNCHANGED incidents, eng'.at = eng.at, eng'.id = eng.id,
         eng'.victims = eng.victims
  PROVE  History'
  BY HistoryNoRow DEF History, VictimsOpen

\* handle() has no list of incidents to close.
LEMMA NoVictims ==
  ASSUME VictimsOpen, eng.at \notin ForgetSteps \cup {"close"}
  PROVE  eng.victims = {}
  BY DEF VictimsOpen

\* publish_incident rewrites a row, by itself when the incident is quiet.
LEMMA PublishRow ==
  ASSUME TypeOK, NEW id, NEW change, PublishIncident(id, change)
  PROVE  incidents' = [incidents EXCEPT ![id] =
           IF incidents[id].quiet THEN incidents[id]
           ELSE [incidents[id] EXCEPT !.told = Append(@, change)]]
  <1>1. incidents \in [1..Len(incidents) -> Incident]
    BY LenProperties DEF TypeOK, RowsOK
  <1>2. CASE incidents[id].quiet
    <2>1. incidents' = incidents
      BY <1>2 DEF PublishIncident
    <2>2. incidents = [incidents EXCEPT ![id] = incidents[id]]
      BY <1>1, Zenon
    <2>3. QED
      BY <1>2, <2>1, <2>2
  <1>3. CASE ~incidents[id].quiet
    BY <1>3 DEF PublishIncident
  <1>4. QED
    BY <1>2, <1>3

\* The row that a call is about.
LEMMA RowInHand ==
  ASSUME TypeOK, HistoryRows, eng.id \in DOMAIN incidents, eng.at \in Busy
  PROVE  incidents[eng.id] \in Incident /\ RowAt(incidents[eng.id], eng.at, Calm)
  BY RowTypes DEF HistoryRows, Doing

\* forget_unmonitored lists open incidents.
LEMMA HistoryForget ==
  ASSUME TypeOK, History, Calm' => Calm, Forget
  PROVE  History'
  <1>1. eng \in Engine
    BY DEF TypeOK, EngineOK
  <1>2. /\ eng.at = "forget" /\ eng'.at = "close" /\ UNCHANGED incidents
        /\ eng'.victims = Unmonitored(eng.tick.shape)
    BY <1>1 DEF Forget, Engine
  <1>3. HistoryRows'
    BY <1>2, HistoryNoRow DEF History, Busy
  <1>4. VictimsOpen'
    BY <1>2 DEF VictimsOpen, Unmonitored
  <1>5. QED
    BY <1>3, <1>4 DEF History

\* It closes the newest, which nobody closed in between.
LEMMA HistoryClose ==
  ASSUME TypeOK, History, Calm' => Calm, Close
  PROVE  History'
  <1> DEFINE id == Newest(eng.victims)
             v == [incidents[id] EXCEPT !.open = FALSE, !.state = "resolved"]
  <1>1. eng \in Engine
    BY DEF TypeOK, EngineOK
  <1>2. id \in eng.victims /\ id \in 1..Len(incidents)
    BY EngineAssumption, NewestVictim DEF Close
  <1>3. /\ eng.at = "close" /\ eng'.at = "closeUpdate" /\ eng'.id = id /\ eng'.victims = eng.victims
    BY <1>1 DEF Close, Engine
  <1>4. incidents' = [incidents EXCEPT ![id] = v]
    BY DEF Close, ResolveIncident
  <1>5. id \in DOMAIN incidents /\ incidents[id] \in Incident /\ incidents[id].open
    BY <1>2, <1>3, StepGroups, RowTypes DEF History, VictimsOpen
  <1>6. RowAt(v, "closeUpdate", Calm')
    <2>1. RowAt(incidents[id], "rest", Calm)
      BY <1>3, <1>5 DEF History, HistoryRows, Doing, Busy
    <2>2. RowAt(v, "closeUpdate", Calm)
      BY <1>5, <2>1, RowCloses
    <2>3. QED
      BY <2>2, RowRests
  <1> HIDE DEF v, id
  <1>7. HistoryRows'
    BY <1>3, <1>4, <1>6, HistoryOneRow DEF History, Doing, Busy
  <1>8. VictimsOpen'
    <2>1. \A i \in DOMAIN incidents : i # id => incidents'[i] = incidents[i]
      BY <1>4
    <2>2. \A i \in eng.victims : i \in DOMAIN incidents
      BY DEF TypeOK, EngineOK
    <2>3. QED
      BY <1>3, <2>1, <2>2, StepGroups DEF History, VictimsOpen, ForgetSteps
  <1>9. QED
    BY <1>7, <1>8 DEF History

\* The entry of a closed incident, and what is left on the list.
LEMMA HistoryEntered ==
  ASSUME TypeOK, History, Calm' => Calm,
         NEW step, NEW next,
         <<step, next>> \in {<<"closeUpdate", "closePublish">>, <<"resolveUpdate", "resolvePublish">>},
         eng.at = step, AddUpdate(eng.id, "resolved"), Go(next)
  PROVE  History'
  <1> DEFINE id == eng.id
             v == [incidents[id] EXCEPT !.timeline = Append(@, "resolved")]
  <1>1. /\ step \in {"closeUpdate", "resolveUpdate"} /\ next \in {"closePublish", "resolvePublish"}
        /\ step \in ForgetSteps <=> next \in ForgetSteps
        /\ step = "resolveUpdate" => step \notin ForgetSteps \cup {"close"}
    BY DEF ForgetSteps
  <1>2. eng'.at = next /\ eng'.id = id /\ eng'.victims = eng.victims
    BY GoFields
  <1>3. incidents' = [incidents EXCEPT ![id] = v]
    BY DEF AddUpdate
  <1>4. ASSUME id \in DOMAIN incidents PROVE RowAt(v, next, Calm')
    <2>1. incidents[id] \in Incident /\ RowAt(incidents[id], step, Calm)
      BY <1>1, <1>4, RowInHand DEF History, Busy
    <2>2. RowAt(v, next, Calm)
      BY <1>1, <2>1, RowEntered
    <2>3. QED
      BY <2>2, RowRests
  <1>5. id \in DOMAIN incidents => v.open = incidents[id].open
    BY RowTypes DEF Incident
  <1> HIDE DEF v
  <1>6. HistoryRows'
    BY <1>1, <1>2, <1>3, <1>4, HistoryOneRow DEF History, Doing, Busy
  <1>7. VictimsOpen'
    <2>1. \A i \in DOMAIN incidents : incidents'[i].open = incidents[i].open
      BY <1>3, <1>5
    <2>2. \A i \in eng.victims : i \in DOMAIN incidents
      BY DEF TypeOK, EngineOK
    <2>3. QED
      BY <1>1, <1>2, <2>1, <2>2 DEF History, VictimsOpen
  <1>8. QED
    BY <1>6, <1>7 DEF History

\* The message of a closed incident.
LEMMA HistoryTold ==
  ASSUME TypeOK, History, Calm' => Calm, eng.at \in {"closePublish", "resolvePublish"},
         PublishIncident(eng.id, "resolved"), eng'.at \notin Busy
  PROVE  /\ HistoryRows'
         /\ \A i \in DOMAIN incidents : incidents'[i].open = incidents[i].open
  <1> DEFINE id == eng.id
             v == IF incidents[id].quiet THEN incidents[id]
                  ELSE [incidents[id] EXCEPT !.told = Append(@, "resolved")]
  <1>1. incidents' = [incidents EXCEPT ![id] = v]
    BY PublishRow
  <1>2. eng.at \in Busy
    BY DEF Busy
  <1>3. ASSUME id \in DOMAIN incidents PROVE RowAt(v, "rest", Calm')
    <2>1. incidents[id] \in Incident /\ RowAt(incidents[id], eng.at, Calm)
      BY <1>2, <1>3, RowInHand DEF History
    <2>2. RowAt(v, "rest", Calm)
      BY <2>1, RowTold
    <2>3. QED
      BY <2>2, RowRests
  <1>4. id \in DOMAIN incidents => v.open = incidents[id].open
    <2>1. id \in DOMAIN incidents =>
            [incidents[id] EXCEPT !.told = Append(@, "resolved")].open = incidents[id].open
      BY RowTypes DEF Incident
    <2>2. QED
      BY <2>1
  <1> HIDE DEF v
  <1>5. HistoryRows'
    BY <1>1, <1>3, HistoryOneRow DEF History, Doing
  <1>6. \A i \in DOMAIN incidents : incidents'[i] = IF i = id THEN v ELSE incidents[i]
    BY <1>1
  <1>7. QED
    BY <1>4, <1>5, <1>6

\* forget_unmonitored is done with an incident, told or not.
LEMMA HistoryClosed ==
  ASSUME TypeOK, History, HistoryRows', eng.at = "closePublish", Closed,
         \A i \in DOMAIN incidents : incidents'[i].open = incidents[i].open
  PROVE  History'
  <1>1. eng'.at = "close" /\ eng'.victims = eng.victims \ {eng.id}
    BY ClosedFields
  <1>2. \A i \in eng.victims : i \in DOMAIN incidents
    BY DEF TypeOK, EngineOK
  <1>3. VictimsOpen'
    BY <1>1, <1>2 DEF History, VictimsOpen
  <1>4. QED
    BY <1>3 DEF History

\* handle() is done with an incident.
LEMMA HistoryNextCheck ==
  ASSUME HistoryRows', NextCheck
  PROVE  History'
  BY AtFields DEF NextCheck, History, VictimsOpen

\* resolve_incident as handle() calls it: on an incident that was open when
\* the machine was read, and that nobody else closes.
LEMMA HistoryResolveRow ==
  ASSUME TypeOK, History, Calm' => Calm, ResolveRow
  PROVE  History'
  <1> DEFINE id == eng.id
             v == [incidents[id] EXCEPT !.open = FALSE, !.state = "resolved"]
  <1>1. eng.at = "resolve" /\ incidents' = [incidents EXCEPT ![id] = v]
    BY DEF ResolveRow, ResolveIncident
  <1>2. eng'.at = "resolveUpdate" /\ eng'.id = id /\ eng'.victims = eng.victims
    BY GoFields DEF ResolveRow
  <1>3. ASSUME id \in DOMAIN incidents PROVE RowAt(v, "resolveUpdate", Calm')
    <2>1. incidents[id] \in Incident /\ RowAt(incidents[id], "resolve", Calm)
      BY <1>1, <1>3, RowInHand DEF History, Busy
    <2>2. incidents[id].open
      BY <2>1 DEF RowAt, Timely
    <2>3. RowAt(v, "resolveUpdate", Calm)
      BY <2>1, <2>2, RowCloses
    <2>4. QED
      BY <2>3, RowRests
  <1> HIDE DEF v
  <1>4. HistoryRows'
    BY <1>1, <1>2, <1>3, HistoryOneRow DEF History, Doing, Busy
  <1>5. eng.victims = {}
    BY <1>1, NoVictims DEF History, ForgetSteps
  <1>6. QED
    BY <1>2, <1>4, <1>5 DEF History, VictimsOpen

\* The first entry of an incident that handle() opened.
LEMMA HistoryFirstUpdate ==
  ASSUME TypeOK, History, Calm' => Calm, FirstUpdate
  PROVE  History'
  <1> DEFINE id == eng.id
             v == [incidents[id] EXCEPT !.timeline = Append(@, "ongoing")]
  <1>1. eng.at = "firstUpdate" /\ incidents' = [incidents EXCEPT ![id] = v]
    BY DEF FirstUpdate, AddUpdate
  <1>2. eng'.at = "announce" /\ eng'.id = id /\ eng'.victims = eng.victims
    BY GoFields DEF FirstUpdate
  <1>3. ASSUME id \in DOMAIN incidents PROVE RowAt(v, "announce", Calm')
    <2>1. incidents[id] \in Incident /\ RowAt(incidents[id], "firstUpdate", Calm)
      BY <1>1, <1>3, RowInHand DEF History, Busy
    <2>2. RowAt(v, "announce", Calm)
      BY <2>1, RowBegun
    <2>3. QED
      BY <2>2, RowRests
  <1> HIDE DEF v
  <1>4. HistoryRows'
    BY <1>1, <1>2, <1>3, HistoryOneRow DEF History, Doing, Busy
  <1>5. eng.victims = {}
    BY <1>1, NoVictims DEF History, ForgetSteps
  <1>6. QED
    BY <1>2, <1>4, <1>5 DEF History, VictimsOpen

\* Subscribers are told of it, unless it opened in a maintenance window.
LEMMA HistoryAnnounce ==
  ASSUME TypeOK, History, Calm' => Calm, Announce
  PROVE  History'
  <1> DEFINE id == eng.id
             q == [incidents[id] EXCEPT !.quiet = TRUE]
             t == IF incidents[id].quiet THEN incidents[id]
                  ELSE [incidents[id] EXCEPT !.told = Append(@, "opened")]
  <1>1. eng.at = "announce" /\ NextCheck /\ (MarkQuiet(id) \/ PublishIncident(id, "opened"))
    BY DEF Announce
  <1>2. eng'.at = "probe" /\ eng.at \in Busy /\ eng'.at \notin Busy
    BY <1>1, AtFields DEF NextCheck, Busy
  <1>3. PICK v : incidents' = [incidents EXCEPT ![id] = v] /\ (v = q \/ v = t)
    BY <1>1, PublishRow DEF MarkQuiet
  <1>4. ASSUME id \in DOMAIN incidents PROVE RowAt(v, "rest", Calm')
    <2>1. incidents[id] \in Incident /\ RowAt(incidents[id], "announce", Calm)
      BY <1>1, <1>2, <1>4, RowInHand DEF History
    <2>2. RowAt(v, "rest", Calm)
      BY <1>3, <2>1, RowAnnounced
    <2>3. QED
      BY <2>2, RowRests
  <1>5. HistoryRows'
    BY <1>2, <1>3, <1>4, HistoryOneRow DEF History, Doing
  <1>6. QED
    BY <1>1, <1>5, HistoryNextCheck

\* create_incident: a new row without a history.
LEMMA HistoryCreate ==
  ASSUME EngineAssumption, TypeOK, History, Calm' => Calm, Create
  PROVE  History'
  <1> DEFINE new == NewIncident(Component, TRUE)
             n == Len(incidents) + 1
  <1>1. eng.at = "create" /\ incidents' = Append(incidents, new)
    BY DEF Create, CreateIncident
  <1>2. eng.check \in Checks /\ eng \in Engine
    BY <1>1 DEF TypeOK, EngineOK, HandleSteps
  <1>3. new \in Incident
    BY <1>2, ComponentType DEF NewIncident, Incident, Phase
  <1>4. new.open /\ ~new.quiet /\ new.told = <<>> /\ new.timeline = <<>>
    BY DEF NewIncident
  <1> HIDE DEF new
  <1>5. /\ Len(incidents') = n /\ DOMAIN incidents' = 1..n /\ incidents'[n] = new
        /\ \A i \in 1..Len(incidents) : incidents'[i] = incidents[i]
    BY <1>1, <1>3, RowTypes, AppendProperties, LenProperties
  <1>6. eng'.at = "firstUpdate" /\ eng'.id = n /\ eng'.victims = eng.victims
    BY <1>2, <1>5 DEF Create, Engine
  <1>7. Positions(new.timeline, "resolved") = {}
    BY <1>4 DEF Positions
  <1>8. RowAt(new, "firstUpdate", Calm')
    BY <1>4, <1>7 DEF RowAt, Timely, Announced, Closing
  <1>9. ASSUME NEW i \in 1..Len(incidents) PROVE RowAt(incidents'[i], Doing(i)', Calm')
    <2>1. Len(incidents) \in Nat /\ DOMAIN incidents = 1..Len(incidents)
      BY RowTypes
    <2>2. Doing(i) = "rest" /\ Doing(i)' = "rest"
      BY <1>1, <1>6, <2>1 DEF Doing, Busy
    <2>3. RowAt(incidents[i], "rest", Calm)
      BY <2>1, <2>2 DEF History, HistoryRows
    <2>4. QED
      BY <1>5, <2>2, <2>3, RowRests
  <1>10. \A i \in 1..n : i = n \/ i \in 1..Len(incidents)
    BY RowTypes
  <1>11. \A i : i = n => Doing(i)' = "firstUpdate"
    BY <1>6 DEF Doing, Busy
  <1>12. HistoryRows'
    BY <1>5, <1>8, <1>9, <1>10, <1>11 DEF HistoryRows
  <1>13. eng.victims = {}
    BY <1>1, NoVictims DEF History, ForgetSteps
  <1>14. QED
    BY <1>6, <1>12, <1>13 DEF History, VictimsOpen

\* A result that resolves names the incident of its machine.
LEMMA ResultResolves ==
  ASSUME NEW m \in Machine, NEW check \in Check, NEW ok \in BOOLEAN, NEW now \in Nat,
         OnResult(m, check, ok, now).t.kind = "resolve"
  PROVE  OnResult(m, check, ok, now).t.id = m.incident /\ m.incident # NoId
  <1>1. OnSuccess(m, check).t = Nothing \/ (OnSuccess(m, check).t = Resolve(m.incident) /\ m.incident # NoId)
    BY Zenon DEF OnSuccess
  <1>2. \/ OnFailure(m, check, now).t = Open \/ OnFailure(m, check, now).t = Nothing
        \/ OnFailure(m, check, now).t = Remind(m.incident)
    BY Zenon DEF OnFailure
  <1>3. /\ Nothing.kind = "nothing" /\ Open.kind = "open" /\ Remind(m.incident).kind = "remind"
        /\ Resolve(m.incident).id = m.incident
    BY DEF Nothing, Open, Remind, Resolve
  <1>4. OnResult(m, check, ok, now) = OnSuccess(m, check) \/ OnResult(m, check, ok, now) = OnFailure(m, check, now)
    BY Zenon DEF OnResult
  <1>5. QED
    BY <1>1, <1>2, <1>3, <1>4

\* handle() resolves an incident that it has just read, and found open.
LEMMA HistoryProbe ==
  ASSUME EngineAssumption, TypeOK, History, Calm' => Calm, NEW c \in Checks, Probe(c)
  PROVE  History'
  <1>1. PICK r \in [m : Machine, t : Transition] :
           /\ r = OnResult(Current(c), Settings, c \notin sick, 0)
           /\ machines' = [machines EXCEPT ![c] = Saturate(r.m, Settings)]
           /\ \/ /\ r.t.kind \in {"nothing", "remind"}
                 /\ eng'.at = eng.at /\ eng'.id = eng.id /\ eng'.victims = eng.victims
              \/ /\ r.t.kind = "open" /\ eng'.at = "lookup"
                 /\ eng'.check = c /\ eng'.id = r.t.id /\ eng'.victims = eng.victims
              \/ /\ r.t.kind = "resolve" /\ eng'.at = "resolve"
                 /\ eng'.check = c /\ eng'.id = r.t.id /\ eng'.victims = eng.victims
    BY ProbeOutcome
  <1>2. eng.at = "probe" /\ UNCHANGED incidents
    BY DEF Probe
  <1>3. eng.victims = {} /\ eng'.victims = {}
    BY <1>1, <1>2, NoVictims DEF History, ForgetSteps
  <1>4. CASE r.t.kind # "resolve"
    <2>1. eng'.at \in {"probe", "lookup"}
      BY <1>1, <1>2, <1>4
    <2>2. HistoryRows'
      BY <1>2, <2>1, HistoryNoRow DEF History, Busy
    <2>3. QED
      BY <1>3, <2>2 DEF History, VictimsOpen
  <1>5. CASE r.t.kind = "resolve"
    <2>1. Settings \in Check /\ (c \notin sick) \in BOOLEAN /\ 0 \in Nat
      BY DEF EngineAssumption
    <2>2. r.t.id = Current(c).incident /\ Current(c).incident # NoId
      <3>1. OnResult(Current(c), Settings, c \notin sick, 0).t.kind = "resolve"
        BY <1>1, <1>5, Zenon
      <3>2. Current(c) \in Machine
        BY CurrentType
      <3>3. /\ OnResult(Current(c), Settings, c \notin sick, 0).t.id = Current(c).incident
            /\ Current(c).incident # NoId
        BY <2>1, <3>1, <3>2, ResultResolves, ZenonT(60)
      <3>4. QED
        BY <1>1, <3>3, Zenon
    <2>3. incidents[r.t.id].open
      BY <2>2 DEF Current, DefaultMachine
    <2>4. eng'.at = "resolve" /\ eng'.id = r.t.id
      BY <1>1, <1>5
    <2>5. ASSUME NEW i \in DOMAIN incidents PROVE RowAt(incidents[i], Doing(i)', Calm')
      <3>1. Doing(i)' = IF i = r.t.id THEN "resolve" ELSE "rest"
        BY <2>4 DEF Doing, Busy
      <3>2. RowAt(incidents[i], "rest", Calm)
        BY <1>2 DEF History, HistoryRows, Doing, Busy
      <3>3. i = r.t.id => RowAt(incidents[i], "resolve", Calm)
        BY <2>3, <3>2 DEF RowAt, Timely, Announced, Closing
      <3>4. QED
        BY <3>1, <3>2, <3>3, RowRests
    <2>6. QED
      BY <1>2, <1>3, <2>5 DEF History, HistoryRows, VictimsOpen
  <1>6. QED
    BY <1>4, <1>5

-----------------------------------------------------------------------------
(* The history of every incident holds up.                                 *)

\* Each call of the engine keeps the invariant behind ClosedOnce.
LEMMA HistoryEngineStep ==
  ASSUME EngineAssumption, TypeOK, History, Calm' => Calm, EngineStep
  PROVE  History'
  <1>1. HistoryRows /\ VictimsOpen
    BY DEF History
  <1>2. CASE Start \/ Reconcile \/ Forgotten \/ Serve \/ EnterProber \/ EndTick
    <2>1. eng.at \notin Busy /\ UNCHANGED incidents
      BY <1>2 DEF Start, Reconcile, Forgotten, Serve, EnterProber, EndTick, Busy
    <2>2. \E step \in {"forget", "probe", "resume", "starting", "idle"} :
            \E phase, tick, todo : eng' = At(step, phase, tick, todo)
      BY <1>2, Zenon DEF Start, Reconcile, Forgotten, Serve, EnterProber, EndTick
    <2>3. \A step \in {"forget", "probe", "resume", "starting", "idle"} : step \notin Busy
      BY DEF Busy
    <2>4. QED
      BY <1>1, <2>1, <2>2, <2>3, HistoryAt
  <1>3. CASE Forget
    BY <1>3, HistoryForget
  <1>4. CASE Close
    BY <1>4, HistoryClose
  <1>5. CASE CloseUpdate
    BY <1>5, HistoryEntered DEF CloseUpdate
  <1>6. CASE ClosePublish
    <2>1. eng.at = "closePublish" /\ PublishIncident(eng.id, "resolved") /\ Closed
      BY <1>6 DEF ClosePublish
    <2>2. eng'.at \notin Busy
      BY <2>1, ClosedFields DEF Busy
    <2>3. HistoryRows' /\ \A i \in DOMAIN incidents : incidents'[i].open = incidents[i].open
      BY <2>1, <2>2, HistoryTold
    <2>4. QED
      BY <2>1, <2>3, HistoryClosed
  <1>7. CASE \E c \in Checks : Resume(c)
    <2>1. PICK c \in Checks : Resume(c)
      BY <1>7
    <2>2. UNCHANGED incidents /\ eng' = [eng EXCEPT !.todo = @ \ {c}]
      BY <2>1 DEF Resume
    <2>3. QED
      BY <2>2, DropFields, HistorySame
  <1>8. CASE Lookup
    <2>1. eng.at = "lookup" /\ UNCHANGED incidents
      BY <1>8 DEF Lookup
    <2>2. eng.at \notin Busy /\ eng.victims = {}
      BY <1>1, <2>1, NoVictims DEF Busy, ForgetSteps
    <2>3. CASE NextCheck
      BY <1>1, <2>1, <2>2, <2>3, HistoryAt DEF NextCheck, Busy
    <2>4. CASE Go("create")
      <3>1. eng'.at = "create" /\ eng'.victims = {}
        BY <2>2, <2>4, GoFields
      <3>2. HistoryRows'
        BY <1>1, <2>1, <2>2, <3>1, HistoryNoRow DEF Busy
      <3>3. QED
        BY <3>1, <3>2 DEF History, VictimsOpen
    <2>5. QED
      BY <1>8, <2>3, <2>4 DEF Lookup
  <1>9. CASE Create
    BY <1>9, HistoryCreate
  <1>10. CASE FirstUpdate
    BY <1>10, HistoryFirstUpdate
  <1>11. CASE Announce
    BY <1>11, HistoryAnnounce
  <1>12. CASE ResolveRow
    BY <1>12, HistoryResolveRow
  <1>13. CASE ResolveUpdate
    BY <1>13, HistoryEntered DEF ResolveUpdate
  <1>14. CASE ResolvePublish
    <2>1. eng.at = "resolvePublish" /\ PublishIncident(eng.id, "resolved") /\ NextCheck
      BY <1>14 DEF ResolvePublish
    <2>2. eng'.at = "probe"
      BY <2>1, AtFields DEF NextCheck
    <2>3. eng'.at \notin Busy
      BY <2>2 DEF Busy
    <2>4. QED
      BY <2>1, <2>3, HistoryTold, HistoryNextCheck
  <1>15. QED
    BY <1>2, <1>3, <1>4, <1>5, <1>6, <1>7, <1>8, <1>9, <1>10, <1>11, <1>12, <1>13, <1>14, Zenon
    DEF EngineStep

\* A call that fails: what subscribers hear is promised no longer, and what
\* the call was to write is left out.
LEMMA HistoryFault ==
  ASSUME TypeOK, History, ~Calm', DbFails \/ PublishFails
  PROVE  History'
  <1>1. HistoryRows /\ VictimsOpen /\ UNCHANGED incidents
    BY DEF History, DbFails, PublishFails
  <1>2. CASE \E step \in {"probe", "down"} :
               \E phase, tick, todo : eng' = At(step, phase, tick, todo)
    <2>1. \A step \in {"probe", "down"} : step \notin Busy
      BY DEF Busy
    <2>2. QED
      BY <1>1, <1>2, <2>1, HistoryAt
  <1>3. CASE eng.at = "closePublish" /\ Closed
    <2>1. eng'.at \notin Busy
      BY <1>3, ClosedFields DEF Busy
    <2>2. HistoryRows'
      BY <1>1, <2>1, HistoryNoRow
    <2>3. QED
      BY <1>1, <1>3, <2>2, HistoryClosed
  <1>4. NextCheck => eng' = At("probe", "tick", eng.tick, eng.todo \ {eng.check})
    BY DEF NextCheck
  <1>5. QED
    BY <1>2, <1>3, <1>4, Zenon DEF DbFails, PublishFails

\* Without requests of operators, each step keeps the histories.
LEMMA HistoryNext ==
  ASSUME EngineAssumption, TypeOK, HistoryInv, [Next]_vars
  PROVE  HistoryInv'
  <1> SUFFICES ASSUME used'.requests = 0
               PROVE  History' /\ \A o \in Operators : op'[o].at = "idle"
    BY DEF HistoryInv, History
  <1>1. used.requests = 0 /\ (Calm' => Calm)
    <2>1. UsedStill
      BY UsedCounts
    <2>2. QED
      BY <2>1, UsedKinds DEF UsedStill, Calm
  <1>2. History /\ \A o \in Operators : op[o].at = "idle"
    BY <1>1 DEF HistoryInv, History
  <1>3. HistoryRows /\ VictimsOpen
    BY <1>2 DEF History
  <1>4. ~(\E o \in Operators : OpRequest(o) \/ OpStep(o) \/ OpFails(o))
    <2>1. ~(\E o \in Operators : OpRequest(o))
      BY UsedCounts
    <2>2. QED
      BY <1>2, <2>1 DEF OpStep, OpEntry, OpSet, OpPublish, OpFails
  <1>5. CASE EngineStep
    <2>1. UNCHANGED op
      BY <1>5 DEF EngineStep, Start, Forget, Close, CloseUpdate, ClosePublish, Reconcile, Forgotten,
         Resume, Serve, EnterProber, EndTick, Lookup, Create, FirstUpdate, Announce, ResolveRow,
         ResolveUpdate, ResolvePublish
    <2>2. QED
      BY <1>1, <1>2, <1>5, <2>1, HistoryEngineStep
  <1>6. CASE \E due \in SUBSET Checks : Tick(due)
    <2>1. eng.at \notin Busy /\ UNCHANGED <<incidents, op>>
      BY <1>6 DEF Tick, Busy
    <2>2. \E step \in {"forget", "probe"} : \E phase, tick, todo : eng' = At(step, phase, tick, todo)
      BY <1>6, Zenon DEF Tick
    <2>3. \A step \in {"forget", "probe"} : step \notin Busy
      BY DEF Busy
    <2>4. QED
      BY <1>1, <1>2, <1>3, <2>1, <2>2, <2>3, HistoryAt
  <1>7. CASE \E c \in Checks : Probe(c)
    <2>1. UNCHANGED op
      BY <1>7 DEF Probe
    <2>2. QED
      BY <1>1, <1>2, <1>7, <2>1, HistoryProbe
  <1>8. CASE \E c \in Checks : Skip(c)
    BY <1>1, <1>2, <1>8, DropFields, HistorySame DEF Skip
  <1>9. CASE DbFails \/ PublishFails
    <2>1. ~Calm'
      BY <1>9, UsedCounts DEF Calm
    <2>2. UNCHANGED op
      BY <1>9 DEF DbFails, PublishFails
    <2>3. QED
      BY <1>2, <1>9, <2>1, <2>2, HistoryFault
  <1>10. CASE Crash
    <2>1. ~Calm'
      BY <1>10, UsedCounts DEF Calm
    <2>2. History'
      BY <1>3, <1>10, <2>1, HistoryAt DEF Crash, Busy
    <2>3. \A o \in Operators : op'[o].at = "idle"
      BY <1>10 DEF Crash, IdleOp
    <2>4. QED
      BY <2>2, <2>3
  <1>11. CASE (\E s \in Shapes : Reload(s)) \/ (\E c \in Checks : Flip(c)) \/ UNCHANGED vars
    <2>1. UNCHANGED <<incidents, eng, op>>
      BY <1>11 DEF Reload, Flip, vars
    <2>2. QED
      BY <1>1, <1>2, <2>1, HistorySame
  <1>12. QED
    BY <1>4, <1>5, <1>6, <1>7, <1>8, <1>9, <1>10, <1>11, Zenon DEF Next, Environment

\* No incident has a history at first.
LEMMA HistoryInit ==
  ASSUME Init
  PROVE  HistoryInv
  <1>1. incidents = <<>> /\ eng.at = "forget" /\ eng.victims = {}
    BY DEF Init, At
  <1>2. \A o \in Operators : op[o].at = "idle"
    BY DEF Init, IdleOp
  <1>3. QED
    BY <1>1, <1>2 DEF HistoryInv, HistoryRows, VictimsOpen

LEMMA HistoryAlways == Spec => [](TypeOK /\ HistoryInv)
  <1>1. TypeOK /\ HistoryInv /\ [Next]_vars => HistoryInv'
    BY EngineAssumption, HistoryNext
  <1>2. QED
    BY <1>1, HistoryInit, TypeCorrect, PTL DEF Spec

-----------------------------------------------------------------------------
(* What the histories promise.                                             *)

\* A set with one position at most.
LEMMA OneAtMost ==
  ASSUME NEW n \in Nat, NEW S, S \subseteq 1..n, \A i, j \in S : i = j
  PROVE  Cardinality(S) <= 1
  <1>1. CASE S = {}
    BY <1>1, FS_EmptySet
  <1>2. CASE S # {}
    <2>1. PICK i \in S : S = {i}
      BY <1>2
    <2>2. QED
      BY <2>1, FS_Singleton
  <1>3. QED
    BY <1>1, <1>2

\* handle() and forget_unmonitored never write that one incident is resolved
\* twice, whatever they share, swap, fail or lose in a crash, as long as no
\* operator writes to it.
THEOREM ClosedOnceAlways == Spec => []ClosedOnce
  <1>1. ASSUME TypeOK, HistoryInv PROVE ClosedOnce
    <2> SUFFICES ASSUME used.requests = 0, NEW i \in DOMAIN incidents
                 PROVE  Cardinality({k \in DOMAIN incidents[i].timeline :
                                       incidents[i].timeline[k] = "resolved"}) <= 1
      BY DEF ClosedOnce
    <2> DEFINE s == incidents[i].timeline
    <2>1. s \in Seq(Phase)
      BY <1>1, RowTypes
    <2>2. \A j, k \in Positions(s, "resolved") : j = k
      BY <1>1 DEF HistoryInv, HistoryRows, RowAt, Timely
    <2> HIDE DEF s
    <2>3. Len(s) \in Nat /\ Positions(s, "resolved") \subseteq 1..Len(s)
      BY <2>1, LenProperties DEF Positions
    <2>4. Cardinality(Positions(s, "resolved")) <= 1
      BY <2>2, <2>3, OneAtMost
    <2>5. QED
      BY <2>4 DEF Positions, s
  <1>2. QED
    BY <1>1, HistoryAlways, PTL

\* With no call failing, no crash and no operator, subscribers hear that an
\* incident opened and, once the engine closed it, that it is resolved, each
\* once and in this order; of one that opened in a maintenance window, nothing.
THEOREM ToldInOrderAlways == Spec => []ToldInOrder
  <1>1. ASSUME HistoryInv PROVE ToldInOrder
    <2> SUFFICES ASSUME used.requests = 0, used.faults = 0, used.crashes = 0,
                        NEW i \in DOMAIN incidents
                 PROVE  /\ incidents[i].told \in {<<>>, <<"opened">>, <<"opened", "resolved">>}
                        /\ incidents[i].quiet => incidents[i].told = <<>>
                        /\ eng.at = "idle" /\ incidents[i].told # <<>> =>
                             (incidents[i].open <=> incidents[i].told = <<"opened">>)
      BY DEF ToldInOrder
    <2>1. Announced(incidents[i], Doing(i))
      BY <1>1 DEF HistoryInv, HistoryRows, RowAt, Calm
    <2>2. eng.at = "idle" => Doing(i) = "rest"
      BY DEF Doing, Busy
    <2>3. <<"opened">> # <<"opened", "resolved">>
      OBVIOUS
    <2>4. QED
      BY <2>1, <2>2, <2>3 DEF Announced, Closing
  <1>2. QED
    BY <1>1, HistoryAlways, PTL
=============================================================================
