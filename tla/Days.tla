--------------------------------- MODULE Days ---------------------------------
(***************************************************************************)
(* Calendar days in the configured zone (src/src/days.rs): which day an    *)
(* instant is of, where a day starts when the clocks move, and what        *)
(* instant a time of the day names.                                        *)
(*                                                                         *)
(* A zone is the sequence of its offsets, each from an instant on; what    *)
(* the clock reads is the instant plus the offset.  Time is counted in     *)
(* small units, a day being DayLen of them and a slot SlotLen.             *)
(***************************************************************************)
EXTENDS Integers, Sequences, FiniteSetsExt

CONSTANTS DayLen, SlotLen,   \* a day by the clock (86400 s) and a slot (900 s)
          None               \* no instant

\* What the constants are; the module that gives them values assumes it.
DaysAssumption ==
  SlotLen \in Nat \ {0} /\ DayLen \in Nat \ {0} /\ DayLen % SlotLen = 0

\* A zone as its database has it: the first offset is from ever, and the
\* later ones come in order.
OffsetAt(zone, ts) == zone[Max({k \in DOMAIN zone : k = 1 \/ zone[k].at <= ts})].offset

Local(zone, ts) == ts + OffsetAt(zone, ts)

DateOf(zone, ts) == Local(zone, ts) \div DayLen

\* The instants at which the clock reads local: none, one or two.
Readings(zone, local) ==
  {ts \in {local - zone[k].offset : k \in DOMAIN zone} : Local(zone, ts) = local}

\* Its mutant: the later of two.
Earliest_Latest(zone, local) ==
  LET at == Readings(zone, local) IN IF at = {} THEN None ELSE Max(at)

\* earliest: the first of them.
Earliest(zone, local) ==
  LET at == Readings(zone, local) IN IF at = {} THEN None ELSE Min(at)

\* The first of local + step, local + 2 * step, ... within two days that the
\* clock reads, or local taken for UTC.
FirstAfter(zone, local, step) ==
  LET turns == {n \in 1 .. (2 * DayLen) \div step : Earliest(zone, local + n * step) # None}
  IN IF turns = {} THEN local ELSE Earliest(zone, local + Min(turns) * step)

\* Its mutant: a midnight in a gap is taken for UTC.
StartOf_Utc(zone, date) ==
  IF Earliest(zone, date * DayLen) # None THEN Earliest(zone, date * DayLen) ELSE date * DayLen

\* start_of.
StartOf(zone, date) ==
  LET midnight == date * DayLen
  IN IF Earliest(zone, midnight) # None THEN Earliest(zone, midnight)
     ELSE FirstAfter(zone, midnight, SlotLen)

\* Day::on and Day::of.
DayOn(zone, date) ==
  LET start == StartOf(zone, date)
  IN [date |-> date, start |-> start, end |-> Max({start, StartOf(zone, date + 1)})]

DayContains(day, ts) == day.start <= ts /\ ts < day.end

Overlaps(day, from, to) == from < day.end /\ to > day.start

\* last_days: oldest first.
LastDays(zone, now, n) == [k \in 1 .. n |-> DayOn(zone, DateOf(zone, now) - (n - k))]

\* local_to_ts: a time that is skipped is when the clock resumes.
LocalToTs(zone, local) ==
  IF Earliest(zone, local) # None THEN Earliest(zone, local) ELSE FirstAfter(zone, local, 1)
===============================================================================
