-------------------------------- MODULE MCDays --------------------------------
(* The calendar on a few kinds of zone: one state per zone, instant or time  *)
(* of the clock.                                                             *)
EXTENDS Days

VARIABLE input

From(at, offset) == [at |-> at, offset |-> offset]

\* A zone without changes; clocks put forward and back within a day, forward
\* over midnight (America/Santiago) and from it (to 0:00 of the same day, and
\* to the end of the day before); a zone that skipped a whole date (Samoa);
\* and one with a change each way.
Zones ==
  {<<From(0, 0)>>, <<From(0, SlotLen)>>, <<From(0, -2 * SlotLen)>>}
  \cup {<<From(0, o), From(at, o + move)>> :
          o \in {0, SlotLen}, at \in {5 * SlotLen, 6 * SlotLen}, move \in {SlotLen, -SlotLen}}
  \cup {<<From(0, 0), From(DayLen, move)>> : move \in {SlotLen, 2 * SlotLen, -SlotLen, DayLen}}
  \cup {<<From(0, 0), From(DayLen + SlotLen, -SlotLen)>>,
        <<From(0, -SlotLen), From(DayLen + SlotLen, 0)>>}
  \cup {<<From(0, 0), From(SlotLen, SlotLen), From(DayLen + 2 * SlotLen, 0)>>}

Nows == 0 .. 3 * DayLen

Init ==
  \/ input \in [what : {"days"}, zone : Zones, now : Nows]
  \/ input \in [what : {"local"}, zone : Zones, local : Nows]

-----------------------------------------------------------------------------
(* Properties.                                                             *)

\* days.rs: "every instant falls in exactly one day".  The days of the strip
\* follow one another without a gap, the last one holds now, and the day an
\* instant lies in is the one whose date the clock shows then, in short and
\* long days and around a day that never was.
DaysTile ==
  input.what = "days" =>
    LET days == LastDays(input.zone, input.now, 3) IN
    /\ \A k \in 1 .. 2 : days[k].end = days[k + 1].start
    /\ DayContains(days[3], input.now)
    /\ \A ts \in days[1].start .. days[3].end - 1 :
         \A k \in 1 .. 3 : DayContains(days[k], ts) = (days[k].date = DateOf(input.zone, ts))

\* README.md:95-97: a time that a clock change skips is the instant the clock
\* resumes, a repeated one its first occurrence: in either case the first
\* instant at which the clock has come that far.
FirstOccurrence ==
  input.what = "local" =>
    LocalToTs(input.zone, input.local) = Min({ts \in -DayLen .. 5 * DayLen : Local(input.zone, ts) >= input.local})
===============================================================================
