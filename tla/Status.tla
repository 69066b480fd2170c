-------------------------------- MODULE Status --------------------------------
(***************************************************************************)
(* What the status page makes of the recorded results, incidents and       *)
(* maintenance (src/src/status.rs, sentence.rs, and the page's functions   *)
(* in web.rs): a component's state, its uptime and bars, the days below,   *)
(* and the sentence on top.                                                *)
(*                                                                         *)
(* Percentages are in hundredths.  A check's results come newest first.    *)
(***************************************************************************)
EXTENDS Days, SequencesExt

CONSTANTS Unset,      \* no value
          Zone,       \* the configured zone
          StripDays,  \* STRIP_DAYS, days of the strip
          PastLen     \* PAST_DAYS, day rows below

\* What the constants are; the module that gives them values assumes it.
StatusAssumption == PastLen \in 1 .. StripDays

-----------------------------------------------------------------------------
(* States, worst last.                                                     *)

State == <<"operational", "maintenance", "degraded", "partial_outage", "major_outage">>

Rank(state) == CHOOSE k \in DOMAIN State : State[k] = state

\* The worst of a set, Unset of none.
Worst(states) == IF states = {} THEN Unset ELSE State[Max({Rank(s) : s \in states})]

\* overall.
Overall(states) == Worst(states \cup {"operational"})

-----------------------------------------------------------------------------
(* A component now.                                                        *)

\* consecutive_failures: how many of the newest results failed, up to limit.
ConsecutiveFailures(results, limit) ==
  Cardinality({k \in DOMAIN results : k <= limit /\ \A j \in 1 .. k : results[j] = "fail"})

\* check_state.
CheckState(results, failuresToOpen) ==
  IF results = <<>> THEN "operational"
  ELSE CASE results[1] = "fail" ->
              IF ConsecutiveFailures(results, failuresToOpen) >= failuresToOpen
              THEN "major_outage" ELSE "partial_outage"
         [] results[1] = "degraded" -> "degraded"
         [] results[1] = "ok" -> "operational"

\* component_state: maintenance stands for what the check says, and an open
\* incident can make it worse; maintenance is no impact.
ComponentState(base, maintenance, impact) ==
  Worst({IF maintenance THEN "maintenance" ELSE base} \cup ({impact} \ {Unset, "maintenance"}))

\* affects, and the component of a window: "" is all of them.
Affects(target, id) == target \in {"", id}

\* Maintenance::covers.
Covers(window, id, now) ==
  window.starts <= now /\ now < window.ends /\ Affects(window.component, id)

\* Its mutant: an incident on all components is nobody's.
ComponentNow_OwnOnly(comp, seen) ==
  LET mine == {i \in seen.active : i.component = comp.id}
      base == IF comp.check = Unset THEN "operational"
              ELSE CheckState(seen.results[comp.check.id], comp.check.failuresToOpen)
  IN [state |-> ComponentState(base, \E w \in seen.windows : Covers(w, comp.id, seen.now),
                               Worst({i.impact : i \in mine})),
      since |-> IF mine = {} THEN Unset ELSE Min({i.created : i \in mine})]

\* component_now, which the page, the badges and the API all show; seen holds
\* the results per check, the open incidents, the windows and the time.
ComponentNow(comp, seen) ==
  LET mine == {i \in seen.active : Affects(i.component, comp.id)}
      base == IF comp.check = Unset THEN "operational"
              ELSE CheckState(seen.results[comp.check.id], comp.check.failuresToOpen)
  IN [state |-> ComponentState(base, \E w \in seen.windows : Covers(w, comp.id, seen.now),
                               Worst({i.impact : i \in mine})),
      since |-> IF mine = {} THEN Unset ELSE Min({i.created : i \in mine})]

-----------------------------------------------------------------------------
(* Uptime.  probes is a set of [ts, ok], one per result of the check.      *)

SlotOf(ts) == (ts \div SlotLen) * SlotLen

\* uptime_slots: the totals of each slot from a time on.
UptimeSlots(probes, from) ==
  LET seen == {p \in probes : p.ts >= from}
  IN [slot \in {SlotOf(p.ts) : p \in seen} |->
        [total |-> Cardinality({p \in seen : SlotOf(p.ts) = slot}),
         up |-> Cardinality({p \in seen : SlotOf(p.ts) = slot /\ p.ok})]]

SumOver(slots, S, field) == FoldSet(LAMBDA slot, sum : sum + slots[slot][field], 0, S)

\* Its mutant: a slot is of the day it has in UTC.
DayOfSlot_Utc(slot) == slot \div DayLen

\* The date uptime_bars counts a slot for.
DayOfSlot(slot) == DateOf(Zone, slot)

\* uptime_bars: the totals of a day; none when no probe was recorded.
DayTotals(slots, day) ==
  LET S == {slot \in DOMAIN slots : DayOfSlot(slot) = day.date}
  IN [total |-> SumOver(slots, S, "total"), up |-> SumOver(slots, S, "up")]

\* day_state.
DayState(t) ==
  IF t.up * 10000 >= 9999 * t.total THEN "operational"
  ELSE IF t.up * 100 >= 95 * t.total THEN "degraded"
  ELSE IF t.up * 2 >= t.total THEN "partial_outage" ELSE "major_outage"

\* format_pct: rounded to hundredths of a percent, 99.99 when that would be a
\* clean 100 with a failure in it.
FormatPct(t) ==
  LET rounded == (t.up * 20000 + t.total) \div (2 * t.total)
  IN IF rounded = 10000 /\ t.up < t.total THEN 9999 ELSE rounded

\* uptime_color, by the state whose colour it takes.
UptimeColor(shown) ==
  IF shown = Unset THEN "no data"
  ELSE IF shown >= 9990 THEN "operational"
  ELSE IF shown >= 9900 THEN "degraded"
  ELSE IF shown >= 9500 THEN "partial_outage" ELSE "major_outage"

\* Its mutant: the colour of the exact figure.
UptimeBadge_Exact(t) ==
  IF t.total = 0 THEN [message |-> Unset, color |-> UptimeColor(Unset)]
  ELSE [message |-> FormatPct(t), color |-> UptimeColor((t.up * 10000) \div t.total)]

\* uptime_badge: coloured by the figure as shown.
UptimeBadge(t) ==
  IF t.total = 0 THEN [message |-> Unset, color |-> UptimeColor(Unset)]
  ELSE [message |-> FormatPct(t), color |-> UptimeColor(FormatPct(t))]

\* Its mutant: an incident counts for the day it began.
OpenOn_Began(incident, day, now) == DayContains(day, incident.created)

\* An incident of a bar's day: open at some time of it.
OpenOn(incident, day, now) ==
  /\ incident.created < day.end
  /\ (IF incident.resolved = Unset THEN now ELSE incident.resolved) >= day.start

\* build_bars, one bar: the worst of the day's uptime and of the incidents
\* open on it; maintenance when there was nothing worse; Unset for no data.
Bar(slots, day, incidents, windows, now) ==
  LET t == DayTotals(slots, day)
      worst == Worst((IF t.total = 0 THEN {} ELSE {DayState(t)})
                     \cup ({i.impact : i \in {j \in incidents : OpenOn(j, day, now)}} \ {"maintenance"}))
  IN IF worst \in {"operational", Unset} /\ \E w \in windows : Overlaps(day, w.starts, w.ends)
     THEN "maintenance" ELSE worst

\* incidents_since and maintenance_between: what status_page reads for the
\* strip, and build_component's part of it.
IncidentsSince(incidents, from) == {i \in incidents : i.created >= from}

MaintenanceBetween(windows, from, to) == {w \in windows : w.starts < to /\ w.ends > from}

Strip(now) == LastDays(Zone, now, StripDays)

Bars(id, probes, incidents, windows, now) ==
  LET strip == Strip(now)
      from == strip[1].start
      mine == {i \in IncidentsSince(incidents, from) : Affects(i.component, id)}
      shut == {w \in MaintenanceBetween(windows, from, now + 1) : Affects(w.component, id)}
  IN [k \in DOMAIN strip |-> Bar(UptimeSlots(probes, from), strip[k], mine, shut, now)]

-----------------------------------------------------------------------------
(* The day rows and the sentence.                                          *)

\* The items of a day row: incidents opened and windows begun on it.
PastItems(incidents, windows, day, now) ==
  {[at |-> i.created, item |-> i] : i \in {j \in incidents : DayContains(day, j.created)}}
  \cup {[at |-> w.starts, item |-> w] :
          w \in {v \in windows : DayContains(day, v.starts) /\ v.starts <= now}}

\* Its mutant: the strip's oldest days.
PastDays_Oldest(incidents, windows, now) ==
  LET strip == Strip(now)
      from == strip[1].start
  IN [k \in 1 .. PastLen |->
        [date |-> strip[k].date,
         items |-> SetToSortSeq(PastItems(IncidentsSince(incidents, from),
                                          MaintenanceBetween(windows, from, now + 1), strip[k], now),
                                LAMBDA a, b : a.at > b.at)]]

\* past_days: a row per day, newest first, and its items the same way.
PastDays(incidents, windows, now) ==
  LET strip == Strip(now)
      from == strip[1].start
  IN [k \in 1 .. PastLen |->
        LET day == strip[StripDays + 1 - k] IN
        [date |-> day.date,
         items |-> SetToSortSeq(PastItems(IncidentsSince(incidents, from),
                                          MaintenanceBetween(windows, from, now + 1), day, now),
                                LAMBDA a, b : a.at > b.at)]]

\* Its mutant: spans of 24 hours.
QuietDays_Spans(lastResolved, now) == (now - Min({lastResolved, now})) \div DayLen

\* quiet_since: calendar days between the last resolution and now.
QuietDays(lastResolved, now) == DateOf(Zone, now) - DateOf(Zone, Min({lastResolved, now}))

\* name_list: at most three names, or two and how many more.
NameList(names) ==
  IF Len(names) <= 3 THEN [names |-> names, more |-> 0]
  ELSE [names |-> SubSeq(names, 1, 2), more |-> Len(names) - 2]

\* headline_for: its subject and predicate.
HeadlineFor(state, group, all) ==
  [everything |-> state = "maintenance" /\ Len(group) > 1 /\ Len(group) = all,
   list |-> NameList(group), state |-> state]

\* Its mutant: components outside the headline are not told.
Detail_Headline(comps, worst) ==
  [asides |-> <<>>,
   fine |-> Len(SelectSeq(comps, LAMBDA c : c.state = "operational"))]

\* The sentences of status_say on what is not the headline's subject: one for
\* each component in another kind of trouble, and the number that are fine.
Detail(comps, worst) ==
  [asides |-> SelectSeq(comps, LAMBDA c : c.state \notin {worst, "operational"}),
   fine |-> Len(SelectSeq(comps, LAMBDA c : c.state = "operational"))]

\* status_say; comps is a sequence of [name, state].
StatusSay(comps, lastResolved, now) ==
  LET worst == Overall({comps[k].state : k \in DOMAIN comps})
      group == SelectSeq(comps, LAMBDA c : c.state = worst)
  IN IF comps = <<>> THEN [headline |-> "nothing to watch"]
     ELSE IF worst = "operational"
     THEN [headline |-> "everything is up",
           quiet |-> IF lastResolved = Unset THEN Unset ELSE QuietDays(lastResolved, now)]
     ELSE [headline |-> HeadlineFor(worst, [k \in DOMAIN group |-> group[k].name], Len(comps)),
           detail |-> Detail(comps, worst)]
===============================================================================
