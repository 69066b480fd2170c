------------------------------- MODULE MCStatus -------------------------------
(* The status page on small histories: one state per component with its      *)
(* results, incidents and windows, per day of probes, per figure, and per    *)
(* list of components.                                                       *)
EXTENDS Status

CONSTANTS Now   \* the time of the request

VARIABLE input

Day == DayLen

\* The clock goes back in the night between the strip's second and third day.
MCZone == <<[at |-> 0, offset |-> SlotLen], [at |-> 2 * Day, offset |-> 0]>>

Results == UNION {[1 .. n -> {"ok", "degraded", "fail"}] : n \in 0 .. 3}

Impacts == {State[k] : k \in DOMAIN State}

Incident == [component : {"", "x", "y"}, impact : Impacts, created : {Now - 3}]

Window == {w \in [component : {"", "x", "y"}, starts : {Now - 1, Now, Now + 1}, ends : {Now, Now + 2}] :
             w.starts < w.ends}

\* Times around the edges of the strip's days.
Edges == {DayOn(Zone, d).start + e : d \in DateOf(Zone, Now) - 2 .. DateOf(Zone, Now), e \in {-1, 0, 1}}
           \cap 0 .. Now

Opened == [component : {"x"}, impact : {"degraded", "major_outage", "maintenance"},
           created : Edges, resolved : Edges \cup {Unset}]

Comps == UNION {[1 .. n -> Impacts] : n \in 0 .. 5}

Init ==
  \/ \E r \in Results, n \in 1 .. 2, i \in {{}} \cup {{a, b} : a, b \in Incident},
        w \in {{}} \cup {{v} : v \in Window} :
       input = [what |-> "component",
                comp |-> [id |-> "x", check |-> [id |-> "c", failuresToOpen |-> n]],
                seen |-> [results |-> [c |-> r], active |-> i, windows |-> w, now |-> Now]]
  \/ input \in [what : {"uptime"}, probes : {{[ts |-> t, ok |-> o]} \cup {[ts |-> u, ok |-> TRUE]} :
                                               t, u \in Edges, o \in BOOLEAN}]
  \/ input \in [what : {"incident"}, incident : {i \in Opened : i.resolved = Unset \/ i.resolved >= i.created},
                windows : {{}} \cup {{[component |-> "", starts |-> s, ends |-> s + 2]} : s \in Edges}]
  \/ \E t \in {1, 3, 20, 999, 1000, 9999, 10000, 20001, 30000}, failed \in 0 .. 60 :
       input = [what |-> "figure", t |-> [total |-> t, up |-> Max({0, t - failed})]]
  \/ \E c \in Comps, r \in {Unset, Now - Day, Now + 1} :
       input = [what |-> "say", comps |-> [k \in DOMAIN c |-> [name |-> k, state |-> c[k]]], resolved |-> r]
  \/ input \in [what : {"quiet"}, resolved : 0 .. 3 * Day, now : {2 * Day, 2 * Day + 2, 3 * Day - 1}]

Next == UNCHANGED input

Spec == Init /\ [][Next]_input

\* A component is shown no better than an open incident that concerns it, by
\* name or as one on all components; as down only when such an incident says
\* so or its last failuresToOpen results all failed, and then always, unless
\* it is in maintenance; as operational only when nothing speaks against it.
WorstShown ==
  input.what = "component" =>
    LET seen == input.seen  r == seen.results.c  n == input.comp.check.failuresToOpen
        s == ComponentNow(input.comp, seen).state
        impacts == {i.impact : i \in {j \in seen.active : j.component # "y"}} \ {"maintenance"}
        shut == \E w \in seen.windows : w.component # "y" /\ w.starts <= Now /\ Now < w.ends
        down == Len(r) >= n /\ \A k \in 1 .. n : r[k] = "fail"
    IN /\ \A impact \in impacts : Rank(s) >= Rank(impact)
       /\ (s = "major_outage") = ("major_outage" \in impacts \/ (down /\ ~shut))
       /\ s = "operational" => ~shut /\ (r = <<>> \/ r[1] = "ok")

\* days.rs: "each slot sits wholly inside one local day".  A bar counts the
\* probes of its day and of no other, in long days too, and the bars together
\* count every probe that the 90-day figure does.
BarsCountProbes ==
  input.what = "uptime" =>
    LET strip == Strip(Now)
        slots == UptimeSlots(input.probes, strip[1].start)
        count(from, to) == Cardinality({p \in input.probes : from <= p.ts /\ p.ts < to})
    IN /\ \A k \in DOMAIN strip : DayTotals(slots, strip[k]).total = count(strip[k].start, strip[k].end)
       /\ SumOver(slots, DOMAIN slots, "total") = count(strip[1].start, Now + 1)

\* The bars of x show one incident: which days it colours.
Shows(k) ==
  LET i == input.incident IN
  Rank(i.impact) <= Rank(Overall({Bars("x", {}, {i}, input.windows, Now)[k]} \ {Unset}))

OpenIn(day) ==
  LET i == input.incident IN
  i.created < day.end /\ (IF i.resolved = Unset THEN Now ELSE i.resolved) > day.start

\* build_bars: "An incident counts for every day it was open", one that began
\* on a day of the strip, whatever maintenance there was; and for no other day.
BarsShowTrouble ==
  input.what = "incident" /\ input.incident.impact # "maintenance" =>
    \A k \in 1 .. StripDays :
      LET i == input.incident  day == Strip(Now)[k] IN
      /\ i.created >= Strip(Now)[1].start /\ OpenIn(day) => Shows(k)
      /\ Shows(k) => i.created < day.end /\ (i.resolved # Unset => i.resolved >= day.start)

\* The same of every incident.
BarsShowOpen ==
  input.what = "incident" /\ input.incident.impact # "maintenance" =>
    \A k \in 1 .. StripDays : OpenIn(Strip(Now)[k]) => Shows(k)

\* The rows below the strip run from today backwards a day at a time, and
\* list what began on those days in the row of its date, once, newest first.
ListedOnItsDay ==
  input.what = "incident" =>
    LET rows == PastDays({input.incident}, input.windows, Now)
        things == {[at |-> input.incident.created, item |-> input.incident]}
                    \cup {[at |-> w.starts, item |-> w] : w \in input.windows}
    IN /\ rows[1].date = DateOf(Zone, Now)
       /\ \A k \in 1 .. PastLen - 1 : rows[k].date = rows[k + 1].date + 1
       /\ \A k \in 1 .. PastLen :
            /\ ToSet(rows[k].items) = {t \in things : DateOf(Zone, t.at) = rows[k].date}
            /\ \A a, b \in DOMAIN rows[k].items : a < b => rows[k].items[a].at >= rows[k].items[b].at

\* "never round a day with downtime up to a clean 100%", and "Colour by the
\* figure as shown": the figure is right to a hundredth of a percent, is 100
\* only without a failure, and never has the colour of another band.
ShownHonest ==
  input.what = "figure" =>
    LET t == input.t  badge == UptimeBadge(t)  off == badge.message * t.total - t.up * 10000
        band == CASE badge.message >= 9990 -> "operational" [] badge.message \in 9900 .. 9989 -> "degraded"
                  [] badge.message \in 9500 .. 9899 -> "partial_outage" [] OTHER -> "major_outage"
    IN /\ (badge.message = 10000) = (t.up = t.total)
       /\ off <= t.total /\ -off <= t.total
       /\ badge.color = band

\* The sentence and the column agree: a component in trouble is the subject of
\* the headline, by name or as one of "more", or has a sentence of its own,
\* one of the two; the number said to be fine is the number that is.
SayCovers ==
  input.what = "say" /\ input.comps # <<>> =>
    LET comps == input.comps
        say == StatusSay(comps, input.resolved, Now)
        in(states) == {k \in DOMAIN comps : comps[k].state \in states}
        bad == in(Impacts \ {"operational"})
    IN IF bad = {} THEN say.headline = "everything is up"
       ELSE LET told == {say.detail.asides[k].name : k \in DOMAIN say.detail.asides}
                group == in({say.headline.state})
                list == say.headline.list
            IN /\ told = bad \ group /\ Cardinality(told) = Len(say.detail.asides)
               /\ say.detail.fine = Len(comps) - Cardinality(bad)
               /\ \A k \in bad : Rank(comps[k].state) <= Rank(say.headline.state)
               /\ say.headline.everything => in({"maintenance"}) = DOMAIN comps
               /\ ToSet(list.names) \subseteq group
               /\ Len(list.names) + list.more = Cardinality(group)

\* quiet_since: "earlier today" and the day rows agree: the number of days
\* said is the row in which the last resolution lies.
QuietAgrees ==
  input.what = "quiet" =>
    LET n == QuietDays(input.resolved, input.now)
        days == LastDays(Zone, input.now, n + 1)
    IN n >= 0 /\ DayContains(days[1], Min({input.resolved, input.now}))
===============================================================================
