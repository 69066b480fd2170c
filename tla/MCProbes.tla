------------------------------- MODULE MCProbes -------------------------------
(* The probes on every combination of a few options and observations: one    *)
(* state per HTTP or resource check and what it saw.                         *)
EXTENDS Probes

CONSTANTS Day, Now   \* a day, and the time of the probe

VARIABLE input

Statuses == {200, 301, 500}

NotAfter == {Now - Day - 1, Now - 1, Now, Now + 1, Now + Day, Now + 2 * Day}

HttpCheck == [expected : {{200}, {200, 301}}, body : BOOLEAN, slow : {Unset, 5},
              certWarn : {Unset, 1, 2}]

HttpSeen == [answer : {"response", "timeout", "failed"}, status : Statuses,
             body : {"found", "missing", "unreadable"}, elapsed : {5, 6},
             notAfter : NotAfter \cup {Uninspected}]

\* The certificate is looked at only when the check asks for it.
Seen(s) == [answer |-> s.answer, status |-> s.status, body |-> s.body, elapsed |-> s.elapsed,
            days |-> IF s.notAfter = Uninspected THEN Uninspected ELSE DaysLeft(s.notAfter, Now, Day)]

\* validate: critical is not below warn.
ResourceCheck == {c \in [warn : {Unset, 1, 2, 3}, critical : {Unset, 2, 3}] :
                    c.warn = Unset \/ c.critical = Unset \/ c.critical >= c.warn}

Init ==
  \/ input \in [what : {"http"}, check : HttpCheck, seen : HttpSeen]
  \/ input \in [what : {"resource"}, check : ResourceCheck, seen : {Unset, 0, 1, 2, 3, 4}]

-----------------------------------------------------------------------------
(* Properties.                                                             *)

\* probe_http is down exactly when some cause of being down is there, and
\* degraded exactly when there is none but a reason to warn: the order of its
\* tests hides no cause, and a certificate counts as expired from the second
\* after its time on, whatever the rounding to days.
HttpByCauses ==
  input.what = "http" =>
    LET c == input.check  s == input.seen
        cert == c.certWarn # Unset /\ s.notAfter # Uninspected
        bad == \/ s.answer # "response" \/ s.status \notin c.expected
               \/ c.body /\ s.body # "found"
               \/ cert /\ s.notAfter < Now
        warn == \/ c.slow # Unset /\ s.elapsed > c.slow
                \/ cert /\ s.notAfter < Now + c.certWarn * Day
    IN ProbeHttp(c, Seen(s)) = (IF bad THEN "down" ELSE IF warn THEN "degraded" ELSE "up")

\* A higher reading is never judged better, and a warning threshold never
\* softens what the critical one says of it, wherever the two lie.
Rank(outcome) == CASE outcome = "up" -> 0 [] outcome = "degraded" -> 1 [] outcome = "down" -> 2

ResourceBands ==
  input.what = "resource" /\ input.seen # Unset =>
    LET verdict == ProbeResource(input.check, input.seen) IN
    /\ \A v \in 0 .. input.seen : Rank(ProbeResource(input.check, v)) <= Rank(verdict)
    /\ (verdict = "down") = (ProbeResource([input.check EXCEPT !.warn = Unset], input.seen) = "down")
===============================================================================
