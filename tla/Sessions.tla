------------------------------ MODULE Sessions ------------------------------
(***************************************************************************)
(* Signing in: the limiter of failed logins (src/src/web_auth.rs), the     *)
(* login and logout handlers (src/src/web.rs) and the table of sessions    *)
(* (src/src/db.rs).                                                        *)
(*                                                                         *)
(* Handlers run side by side on the threads of the runtime.  The limiter   *)
(* is one map behind one lock, but a login asks it and tells it in two     *)
(* critical sections, and checks the password between them.  The sign-up   *)
(* form has a limiter of the same kind and counts every attempt in it.     *)
(***************************************************************************)
EXTENDS Naturals, Sequences, FiniteSets, SequencesExt

CONSTANTS Ips,          \* addresses logins come from
          Requests,     \* logins that can be handled at one time
          Tokens,       \* session tokens, every one drawn once
          MaxFailures,  \* MAX_FAILURES
          Window,       \* WINDOW_SECS
          SweepAt,      \* SWEEP_AT
          Lifetime,     \* SESSION_TTL_SECS
          MaxTime       \* bound: the clock

\* What the constants are; the module that gives them values assumes it.
SessionAssumption ==
  {MaxFailures, Window, SweepAt, Lifetime} \subseteq Nat \ {0}

VARIABLES
  now,        \* the clock
  failures,   \* LoginLimiter.failures: times by address
  login,      \* the logins being handled
  sessions,   \* table sessions: expires_at by token
  drawn,      \* history: the tokens drawn so far
  left,       \* history: the sessions that were logged out
  tries       \* history: the failures of each address since its last success

vars == <<now, failures, login, sessions, drawn, left, tries>>

NoLogin == [at |-> "none"]

Init ==
  /\ now = 0
  /\ failures = <<>>
  /\ login = [r \in Requests |-> NoLogin]
  /\ sessions = <<>>
  /\ drawn = {} /\ left = {}
  /\ tries = [ip \in Ips |-> <<>>]

-----------------------------------------------------------------------------
(* LoginLimiter *)

InWindow(times, t) == SelectSeq(times, LAMBDA f : t - f < Window)

\* The map with the entry of ip set, or taken out.
With(map, ip, times) ==
  [i \in DOMAIN map \cup {ip} |-> IF i = ip THEN times ELSE map[i]]

Without(map, ips) == [i \in DOMAIN map \ ips |-> map[i]]

\* Its mutant: the limit may be reached once more.
Reached_Late(times) == Len(times) > MaxFailures

Reached(times) == Len(times) >= MaxFailures

\* is_blocked, and the map after it; t is the time the handler took.
IsBlocked(ip, t) == ip \in DOMAIN failures /\ Reached(InWindow(failures[ip], t))

\* Its mutant: an entry that got empty stays.
AfterIsBlocked_Empty(ip, t) ==
  IF ip \notin DOMAIN failures THEN failures ELSE With(failures, ip, InWindow(failures[ip], t))

AfterIsBlocked(ip, t) ==
  IF ip \notin DOMAIN failures THEN failures
  ELSE IF InWindow(failures[ip], t) = <<>> THEN Without(failures, {ip})
  ELSE With(failures, ip, InWindow(failures[ip], t))

\* Its mutant: a map that got large is emptied.
Sweep_All(t) == IF Cardinality(DOMAIN failures) < SweepAt THEN failures ELSE <<>>

\* The sweep of record_failure.
Sweep(t) ==
  IF Cardinality(DOMAIN failures) < SweepAt THEN failures
  ELSE LET trimmed == [i \in DOMAIN failures |-> InWindow(failures[i], t)]
       IN Without(trimmed, {i \in DOMAIN failures : trimmed[i] = <<>>})

\* The map after record_failure.
AfterFailure(ip, t) ==
  LET map == Sweep(t)
      old == IF ip \in DOMAIN map THEN InWindow(map[ip], t) ELSE <<>>
  IN With(map, ip, Append(old, t))

-----------------------------------------------------------------------------
(* The handlers. *)

\* login_submit up to the limiter's answer: a blocked address is turned away.
Submit(r, ip) ==
  /\ login[r] = NoLogin
  /\ failures' = AfterIsBlocked(ip, now)
  /\ login' = [login EXCEPT ![r] = IF IsBlocked(ip, now) THEN NoLogin
                                   ELSE [at |-> "verify", ip |-> ip, time |-> now]]
  /\ UNCHANGED <<now, sessions, drawn, left, tries>>

\* The password was wrong: record_failure with the time the handler took.
Wrong(r) ==
  /\ login[r].at = "verify"
  /\ LET ip == login[r].ip  t == login[r].time IN
     /\ failures' = AfterFailure(ip, t)
     /\ tries' = [tries EXCEPT ![ip] = Append(InWindow(@, now), t)]
  /\ login' = [login EXCEPT ![r] = NoLogin]
  /\ UNCHANGED <<now, sessions, drawn, left>>

\* It was right: record_success forgets the address.
Right(r) ==
  /\ login[r].at = "verify"
  /\ failures' = Without(failures, {login[r].ip})
  /\ tries' = [tries EXCEPT ![login[r].ip] = <<>>]
  /\ login' = [login EXCEPT ![r].at = "open"]
  /\ UNCHANGED <<now, sessions, drawn, left>>

\* What create_session is given.
ExpiresAt(r) == login[r].time + Lifetime

\* create_session under a fresh token, or its failure.
Open(r) ==
  /\ login[r].at = "open"
  /\ login' = [login EXCEPT ![r] = NoLogin]
  /\ \/ \E token \in Tokens \ drawn :
          /\ drawn' = drawn \cup {token}
          /\ sessions' = With(sessions, token, ExpiresAt(r))
     \/ UNCHANGED <<sessions, drawn>>
  /\ UNCHANGED <<now, failures, left, tries>>

\* session_valid, asked by is_logged_in for read and write guards.
Valid(table, t) == {token \in DOMAIN table : table[token] > t}

\* logout with the token of a session; the call may fail, which the handler
\* ignores.
Logout(token) ==
  /\ token \in DOMAIN sessions
  /\ sessions' = Without(sessions, {token})
  /\ left' = left \cup {token}
  /\ UNCHANGED <<now, failures, login, drawn, tries>>

\* Its mutant: a session is pruned a second before its end.
Pruned_Early(t) == {token \in DOMAIN sessions : sessions[token] <= t + 1}

\* The sessions prune_sessions deletes.
Pruned(t) == {token \in DOMAIN sessions : sessions[token] <= t}

\* prune_sessions, in the run of the rollup.
Prune ==
  /\ Pruned(now) # {}
  /\ sessions' = Without(sessions, Pruned(now))
  /\ UNCHANGED <<now, failures, login, drawn, left, tries>>

\* The process starts again: the limiter is empty, the table stays.
Restart ==
  /\ failures' = <<>>
  /\ login' = [r \in Requests |-> NoLogin]
  /\ tries' = [ip \in Ips |-> <<>>]
  /\ failures # <<>> \/ \E r \in Requests : login[r] # NoLogin
  /\ UNCHANGED <<now, sessions, drawn, left>>

ClockMoves ==
  /\ now < MaxTime
  /\ now' = now + 1
  /\ tries' = [ip \in Ips |-> InWindow(tries[ip], now')]
  /\ UNCHANGED <<failures, login, sessions, drawn, left>>

Next ==
  \/ \E r \in Requests : Wrong(r) \/ Right(r) \/ Open(r)
  \/ \E r \in Requests, ip \in Ips : Submit(r, ip)
  \/ \E token \in Tokens : Logout(token)
  \/ Prune \/ Restart \/ ClockMoves

Spec == Init /\ [][Next]_vars

-----------------------------------------------------------------------------
(* Properties. *)

\* LoginLimiter under concurrent handlers: the limiter never forgets a
\* failure that still counts, also when it sweeps its map for one address
\* while others have failures in it, and counts none twice.
NothingForgotten ==
  \A ip \in Ips :
    LET kept == IF ip \in DOMAIN failures THEN failures[ip] ELSE <<>>
    IN InWindow(kept, now) = InWindow(tries[ip], now)

\* is_blocked and record_failure are two critical sections: the failures of
\* an address within a window exceed the limit by at most the logins that
\* were let through together with the last one allowed.
FailuresBounded ==
  \A ip \in Ips :
    Len(InWindow(tries[ip], now)) <= MaxFailures + Cardinality(Requests) - 1

\* prune_sessions against session_valid: a session is in the table from its
\* login on for as long as it is valid, whatever is pruned and restarted, and
\* is gone for good once it was logged out.
SessionKept ==
  [][/\ \A token \in Valid(sessions, now) : token \in Valid(sessions', now') \/ token \in left' \/
                                            sessions[token] <= now'
     /\ \A token \in DOMAIN sessions' : token \notin left]_vars

\* Every variable has its type; a session never outlives its lifetime, and
\* only a drawn token has one.
TypeOK ==
  /\ now \in 0 .. MaxTime
  /\ DOMAIN failures \subseteq Ips
  /\ \A ip \in DOMAIN failures : failures[ip] # <<>> /\ \A i \in DOMAIN failures[ip] : failures[ip][i] <= now
  /\ \A r \in Requests : login[r].at \in {"none", "verify", "open"}
  /\ DOMAIN sessions \subseteq drawn \ left
  /\ \A token \in DOMAIN sessions : sessions[token] <= now + Lifetime
===============================================================================
