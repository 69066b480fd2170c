------------------------------ MODULE CommandLog ------------------------------
(***************************************************************************)
(* What the Telegram bot promises: the commands that chats send it take    *)
(* effect in the order they were sent, each at most once.                  *)
(* TelegramPoll implements it.                                             *)
(***************************************************************************)
EXTENDS Integers, Sequences

CONSTANTS Chats, Links, None

VARIABLES log,      \* the commands sent so far
          done,     \* how many of them took effect or were dropped
          open,     \* links that still work
          choice,   \* the link whose choices a chat follows, or None
          leaves    \* how often somebody unsubscribed on the page

vars == <<log, done, open, choice, leaves>>

Command == [chat : Chats, kind : {"link", "stop", "other"}, link : Links \cup {None}]

Init == log = <<>> /\ done = 0 /\ open = {} /\ choice = [c \in Chats |-> None] /\ leaves = 0

Send == \E u \in Command : log' = Append(log, u) /\ UNCHANGED <<done, open, choice, leaves>>

Follow(u) ==
  /\ u.kind = "link" /\ u.link \in open
  /\ open' = open \ {u.link} /\ choice' = [choice EXCEPT ![u.chat] = u.link]

Stop(u) == u.kind = "stop" /\ choice' = [choice EXCEPT ![u.chat] = None] /\ UNCHANGED open

\* The next command takes effect, or has none: it is no command, its link
\* does not work, or it was dropped.
Take ==
  /\ done < Len(log) /\ done' = done + 1
  /\ LET u == log[done + 1] IN Follow(u) \/ Stop(u) \/ UNCHANGED <<open, choice>>
  /\ UNCHANGED <<log, leaves>>

Offer(l) == l \notin open /\ open' = open \cup {l} /\ UNCHANGED <<log, done, choice, leaves>>

Expire(l) == l \in open /\ open' = open \ {l} /\ UNCHANGED <<log, done, choice, leaves>>

Leave(c) ==
  /\ choice[c] # None /\ choice' = [choice EXCEPT ![c] = None] /\ leaves' = leaves + 1
  /\ UNCHANGED <<log, done, open>>

Next == Send \/ Take \/ (\E l \in Links : Offer(l) \/ Expire(l)) \/ (\E c \in Chats : Leave(c))

Spec == Init /\ [][Next]_vars
===============================================================================
