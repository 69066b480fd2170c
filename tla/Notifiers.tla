------------------------------ MODULE Notifiers ------------------------------
(***************************************************************************)
(* Telling the operators (src/src/notifier.rs): MultiNotifier sends one    *)
(* message to every configured channel at once, while a reload may replace *)
(* the channels.  Alerts and the daily summary call it from tasks of their *)
(* own; an alert is sent from the probe loop, which waits for it.          *)
(*                                                                         *)
(* Time is counted per request, in the seconds it takes.  The server of a  *)
(* channel may take a request and answer too late to be heard.             *)
(***************************************************************************)
EXTENDS Naturals, FiniteSets

CONSTANTS Messages,      \* the calls of send, one message each
          Channels,      \* every channel some config lists
          Retrying,      \* those that post with post_json_retry_once
          Timeout,       \* SEND_TIMEOUT
          MaxRetryWait,  \* MAX_RETRY_WAIT
          Hints,         \* the waits a 429 asks for; 0 for no usable hint
          MaxReplaces    \* bound: reloads of the channels

\* What the constants are; the module that gives them values assumes it.
NotifierAssumption ==
  /\ Retrying \subseteq Channels
  /\ {Timeout, MaxRetryWait} \subseteq Nat \ {0} /\ Hints \subseteq Nat

VARIABLES
  inner,     \* MultiNotifier.inner
  chosen,    \* send: the channels it took when it began, by message
  sending,   \* send: what its future for each channel is at
  spent,     \* send: the seconds each future took so far
  shown,     \* the servers: how often each channel took each message
  replaces

vars == <<inner, chosen, sending, spent, shown, replaces>>

Idle == [ch \in Channels |-> "idle"]

Init ==
  /\ inner \in SUBSET Channels
  /\ chosen = [m \in Messages |-> {}]
  /\ sending = [m \in Messages |-> Idle]
  /\ spent = [m \in Messages |-> [ch \in Channels |-> 0]]
  /\ shown = [m \in Messages |-> [ch \in Channels |-> 0]]
  /\ replaces = 0

Started(m) == \E ch \in Channels : sending[m][ch] # "idle"

Ended == {"sent", "failed"}

\* send, up to join_all: it clones the list and polls every future.
Begin(m) ==
  /\ ~Started(m)
  /\ inner # {}
  /\ chosen' = [chosen EXCEPT ![m] = inner]
  /\ sending' = [sending EXCEPT ![m] = [ch \in Channels |-> IF ch \in inner THEN "post" ELSE "idle"]]
  /\ UNCHANGED <<inner, spent, shown, replaces>>

\* What WaitBounded allows; the count stops just above.
Longest == 2 * Timeout + MaxRetryWait

\* The future of one channel goes to a state after some seconds.
Moves(m, ch, to, secs) ==
  /\ sending' = [sending EXCEPT ![m][ch] = to]
  /\ spent' = [spent EXCEPT ![m][ch] = IF @ + secs > Longest THEN Longest + 1 ELSE @ + secs]
  /\ UNCHANGED <<inner, chosen, replaces>>

\* Its mutant: one channel that fails ends the send for all.
Posting_Alone(m, ch) ==
  sending[m][ch] \in {"post", "again"} /\ \A other \in Channels : sending[m][other] # "failed"

\* The channel's future has a request to make, whatever the others do.
Posting(m, ch) == sending[m][ch] \in {"post", "again"}

\* The server takes the message and says so, quickly or just in time.
Accepted(m, ch) ==
  /\ Posting(m, ch)
  /\ \E secs \in {0, Timeout} : Moves(m, ch, "sent", secs)
  /\ shown' = [shown EXCEPT ![m][ch] = @ + 1]

\* Its mutant: a request that failed is posted once more.
AfterFailure_Retry(m, ch) ==
  IF ch \in Retrying /\ sending[m][ch] = "post" THEN "again" ELSE "failed"

\* A request that fails, or an answer that is no success, ends the send.
AfterFailure(m, ch) == "failed"

\* No connection, an error status, or no answer in time; in the last case the
\* server may have taken the message.
Refused(m, ch) ==
  /\ Posting(m, ch)
  /\ \E secs \in {0, Timeout} :
       /\ Moves(m, ch, AfterFailure(m, ch), secs)
       /\ \/ UNCHANGED shown
          \/ secs = Timeout /\ shown' = [shown EXCEPT ![m][ch] = @ + 1]

\* Its mutant: the wait is whatever the server asks for.
ClampWait_Unbounded(hint) == IF hint = 0 THEN 1 ELSE hint

\* clamp_wait: a second without a usable hint, never more than the limit.
ClampWait(hint) ==
  LET wait == IF hint = 0 THEN 1 ELSE hint
  IN IF wait < MaxRetryWait THEN wait ELSE MaxRetryWait

MayRetry(m, ch) == ch \in Retrying /\ sending[m][ch] = "post"

\* A 429: a channel that retries waits and posts again, once; for the others,
\* and the second time, it is a failure.
RateLimited(m, ch) ==
  /\ Posting(m, ch)
  /\ \E secs \in {0, Timeout}, hint \in Hints :
       IF MayRetry(m, ch) THEN Moves(m, ch, "again", secs + ClampWait(hint))
       ELSE Moves(m, ch, AfterFailure(m, ch), secs)
  /\ UNCHANGED shown

\* Its mutant: what is under way on a channel that is gone ends there.
Replace_Drops ==
  /\ replaces < MaxReplaces
  /\ replaces' = replaces + 1
  /\ inner' \in SUBSET Channels \ {inner}
  /\ sending' = [m \in Messages |-> [ch \in Channels |->
                   IF ch \in inner' THEN sending[m][ch] ELSE "idle"]]
  /\ UNCHANGED <<chosen, spent, shown>>

\* replace, by notifier_reload_loop.
Replace ==
  /\ replaces < MaxReplaces
  /\ replaces' = replaces + 1
  /\ inner' \in SUBSET Channels \ {inner}
  /\ UNCHANGED <<chosen, sending, spent, shown>>

Next ==
  \/ Replace
  \/ \E m \in Messages : Begin(m)
  \/ \E m \in Messages, ch \in Channels : Accepted(m, ch) \/ Refused(m, ch) \/ RateLimited(m, ch)

\* Every request ends: in an answer, or in the timeout of its client.
Fairness ==
  \A m \in Messages, ch \in Channels :
    WF_vars(Accepted(m, ch) \/ Refused(m, ch) \/ RateLimited(m, ch))

Spec == Init /\ [][Next]_vars /\ Fairness

-----------------------------------------------------------------------------
(* Properties. *)

\* join_all is over: what the caller of send waits for.
Returned(m) == Started(m) /\ \A ch \in chosen[m] : sending[m][ch] \in Ended

\* Every variable has its type; a send works on the channels it took, whatever
\* replaced them since, and only a channel that retries posts again.
TypeOK ==
  /\ inner \subseteq Channels
  /\ \A m \in Messages, ch \in Channels :
       /\ sending[m][ch] \in {"idle", "post", "again"} \cup Ended
       /\ (sending[m][ch] = "idle") = (ch \notin chosen[m])
       /\ sending[m][ch] = "again" => ch \in Retrying
       /\ spent[m][ch] \in Nat

\* post_json_retry_once: a channel shows a message at most once, though a
\* 429 is retried and an answer can come too late: what may have been taken
\* is never posted again.
ShownOnce == \A m \in Messages, ch \in Channels : shown[m][ch] <= 1

\* SEND_TIMEOUT and MAX_RETRY_WAIT: whatever the channels do, a send holds
\* its caller, the probe loop, for two requests and one wait at most.
WaitBounded ==
  \A m \in Messages, ch \in Channels : spent[m][ch] <= Longest

\* One broken channel never stops the others, and a reload none: every send
\* that began returns, and when it has, every channel it took was tried.
SendReturns == \A m \in Messages : Started(m) ~> Returned(m)
===============================================================================
