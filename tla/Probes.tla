------------------------------- MODULE Probes -------------------------------
(***************************************************************************)
(* What a probe makes of what it saw (src/src/prober.rs), as functions:    *)
(* an outcome is "up", "degraded" (passing, in a warning band) or "down".  *)
(* Latencies and messages are left out, except where one decides.          *)
(*                                                                         *)
(* Numbers are whole here; the code compares floats the same way.          *)
(***************************************************************************)
EXTENDS Integers, Sequences

CONSTANTS Unset,        \* an option the config does not give
          Uninspected   \* in place of a time: the certificate could not be read

Outcome == {"up", "degraded", "down"}

Ok(outcome) == outcome # "down"

\* days_left: whole days, rounded down, so a certificate past its time has
\* a negative number of them.
DaysLeft(notAfter, now, day) == (notAfter - now) \div day

\* What looking at the certificate adds; one that could not be read is no
\* failure.
CertVerdict(days, warnDays) ==
  IF days = Uninspected THEN "up"
  ELSE IF days < 0 THEN "down"
  ELSE IF days < warnDays THEN "degraded" ELSE "up"

\* Its mutants: a failed inspection hides that the answer was slow; a
\* certificate is looked at first, so that a bad body does not matter.
ProbeHttp_CertLast(check, seen) ==
  IF seen.answer # "response" \/ ~(seen.status \in check.expected)
     \/ (check.body /\ seen.body # "found") THEN "down"
  ELSE IF check.certWarn # Unset THEN CertVerdict(seen.days, check.certWarn)
  ELSE IF check.slow # Unset /\ seen.elapsed > check.slow THEN "degraded" ELSE "up"

\* probe_http: no answer, a status that is not allowed, or a body without the
\* text is down at once; then slowness, then the certificate.
ProbeHttp(check, seen) ==
  IF seen.answer # "response" \/ ~(seen.status \in check.expected)
     \/ (check.body /\ seen.body # "found") THEN "down"
  ELSE LET slow == IF check.slow # Unset /\ seen.elapsed > check.slow THEN "degraded" ELSE "up"
           cert == IF check.certWarn = Unset THEN "up" ELSE CertVerdict(seen.days, check.certWarn)
       IN IF cert = "up" THEN slow ELSE cert

\* probe_tcp: seen is "connected", "refused" or "timeout".
ProbeTcp(seen) == IF seen = "connected" THEN "up" ELSE "down"

\* Its mutant: the warning is tested first.
ProbeResource_WarnFirst(check, value) ==
  IF value = Unset THEN "up"
  ELSE IF check.warn # Unset /\ value >= check.warn THEN "degraded"
  ELSE IF check.critical # Unset /\ value >= check.critical THEN "down" ELSE "up"

\* probe_resource; without a sample there is nothing to hold against it.
ProbeResource(check, value) ==
  IF value = Unset THEN "up"
  ELSE IF check.critical # Unset /\ value >= check.critical THEN "down"
  ELSE IF check.warn # Unset /\ value >= check.warn THEN "degraded" ELSE "up"

\* probe_docker on the container of that name, Unset when the list has none.
ProbeDocker(check, c) ==
  IF c = Unset \/ ~c.running \/ c.health = "unhealthy" THEN "down"
  ELSE IF c.health = "starting" THEN "degraded"
  ELSE IF check.limit # Unset /\ c.restarts > check.limit THEN "down" ELSE "up"

\* probe_systemd; unit is its ActiveState, Unset when the list lacks it.
ProbeSystemd(check, unit) == IF unit \in check.expected THEN "up" ELSE "down"

\* probe_heartbeat; allowed is period + grace.
ProbeHeartbeat(allowed, lastPing, watchingSince, now) ==
  IF now - (IF lastPing = Unset THEN watchingSince ELSE lastPing) > allowed THEN "down" ELSE "up"
===============================================================================
