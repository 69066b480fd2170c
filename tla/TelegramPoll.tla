----------------------------- MODULE TelegramPoll -----------------------------
(***************************************************************************)
(* The bot's polling task (src/src/subscriptions/telegram.rs): it asks     *)
(* Telegram for updates from a stored offset on, answers each and moves    *)
(* the offset past it.  Telegram repeats an update until it is asked for a *)
(* later one.                                                              *)
(*                                                                         *)
(* link_chat and stop_chat are given by what they do to a chat's choices;  *)
(* their rows are those of module Subscriptions.  What a reply says is     *)
(* left out: one that fails is only logged.                                *)
(***************************************************************************)
EXTENDS Integers, Sequences, FiniteSets

CONSTANTS Bots, Chats, Links, None,
          Off,                  \* Telegram subscriptions switched off
          MaxUpdates,           \* bound: messages sent to one bot
          MaxFaults, MaxReloads, MaxLeaves   \* bounds

\* What the constants are; the module that gives them values assumes it.
TelegramAssumption ==
  /\ None \notin Links /\ Off \notin Bots
  /\ MaxUpdates \in Nat /\ MaxFaults \in Nat /\ MaxReloads \in Nat /\ MaxLeaves \in Nat

VARIABLES inbox,    \* [Bots -> Seq(Update)]: what was sent; the id is the position
          offset,   \* [Bots -> Nat]: meta telegram_offset:<bot>, 0 when it has no row
          cfg,      \* the bot of the running config, or Off
          open,     \* pending sign-ups whose link still works
          used,     \* links already opened by a sign-up, working or not
          choice,   \* [Chats -> Links or None]
          poll,     \* the round of poll_once that is under way
          tried,    \* [Bots -> SUBSET Nat]: updates looked at, with an answer or an error
          answered, \* [Bots -> SUBSET Nat]: updates whose answer was worked out
          left,     \* how often somebody unsubscribed on the page
          faults, reloads

vars == <<inbox, offset, cfg, open, used, choice, poll, tried, answered, left, faults, reloads>>

\* "other": no text, no command, or a command without a link.
Update == [chat : Chats, kind : {"link"}, link : Links]
          \cup [chat : Chats, kind : {"stop", "other"}, link : {None}]

\* A round: the updates it got and has not yet dealt with; "store" is after
\* the answer to the first of them.
Round == [at : {"idle", "answer", "store"}, bot : Bots \cup {Off}, batch : Seq(Nat)]

Idle == [at |-> "idle", bot |-> Off, batch |-> <<>>]

TypeOK ==
  /\ inbox \in [Bots -> Seq(Update)]
  /\ offset \in [Bots -> Nat]
  /\ cfg \in Bots \cup {Off}
  /\ open \subseteq used /\ used \subseteq Links
  /\ choice \in [Chats -> Links \cup {None}]
  /\ \A c \in Chats : choice[c] \in (used \cup {None}) \ open   \* a link works once
  /\ poll \in Round
  /\ tried \in [Bots -> SUBSET Nat] /\ answered \in [Bots -> SUBSET Nat]
  /\ left \in Nat /\ faults \in Nat /\ reloads \in Nat

Init ==
  /\ inbox = [b \in Bots |-> <<>>]
  /\ offset = [b \in Bots |-> 0]
  /\ cfg \in Bots \cup {Off}
  /\ open = {} /\ used = {}
  /\ choice = [c \in Chats |-> None]
  /\ poll = Idle
  /\ tried = [b \in Bots |-> {}] /\ answered = [b \in Bots |-> {}]
  /\ left = 0 /\ faults = 0 /\ reloads = 0

-----------------------------------------------------------------------------
(* The poller.                                                             *)

\* Its mutant: one key for all bots.
StartOf_Shared(b) == LET all == {offset[x] : x \in Bots} IN
                     CHOOSE n \in all : \A k \in all : k <= n

StartOf(b) == offset[b]

NextRound(rest) == IF rest = <<>> THEN Idle ELSE [poll EXCEPT !.at = "answer", !.batch = rest]

\* Telegram answers with what it has from the offset on, in order, or waits.
GetUpdates ==
  /\ poll.at = "idle" /\ cfg \in Bots
  /\ LET first == IF StartOf(cfg) = 0 THEN 1 ELSE StartOf(cfg)
         count == Len(inbox[cfg]) - first + 1
     IN /\ count > 0
        /\ poll' = [at |-> "answer", bot |-> cfg, batch |-> [i \in 1..count |-> first + i - 1]]
  /\ UNCHANGED <<inbox, offset, cfg, open, used, choice, tried, answered, left, faults, reloads>>

Current == inbox[poll.bot][Head(poll.batch)]

\* Its mutant: a chat already subscribed leaves the pending row behind.
LinkChat_KeepsPending(u) ==
  IF u.link \in open
  THEN /\ open' = IF choice[u.chat] = None THEN open \ {u.link} ELSE open
       /\ choice' = [choice EXCEPT ![u.chat] = u.link]
  ELSE UNCHANGED <<open, choice>>

\* link_chat: a working link ties its pending sign-up to the chat, in the
\* place of what the chat followed before.
LinkChat(u) ==
  IF u.link \in open
  THEN open' = open \ {u.link} /\ choice' = [choice EXCEPT ![u.chat] = u.link]
  ELSE UNCHANGED <<open, choice>>

StopChat(u) == choice' = [choice EXCEPT ![u.chat] = None] /\ UNCHANGED open

\* answer: at most one database transaction.
Answer ==
  /\ poll.at = "answer"
  /\ CASE Current.kind = "link"  -> LinkChat(Current)
       [] Current.kind = "stop"  -> StopChat(Current)
       [] Current.kind = "other" -> UNCHANGED <<open, choice>>
  /\ tried' = [tried EXCEPT ![poll.bot] = @ \cup {Head(poll.batch)}]
  /\ answered' = [answered EXCEPT ![poll.bot] = @ \cup {Head(poll.batch)}]
  /\ poll' = [poll EXCEPT !.at = "store"]
  /\ UNCHANGED <<inbox, offset, cfg, used, left, faults, reloads>>

\* An answer that fails is logged, and the offset moves on all the same.
AnswerFails ==
  /\ poll.at = "answer" /\ Current.kind # "other" /\ faults < MaxFaults
  /\ tried' = [tried EXCEPT ![poll.bot] = @ \cup {Head(poll.batch)}]
  /\ poll' = [poll EXCEPT !.at = "store"]
  /\ faults' = faults + 1
  /\ UNCHANGED <<inbox, offset, cfg, open, used, choice, answered, left, reloads>>

\* Its mutants: the offset once per batch, or not for what is no command.
StoreOffset_Last ==
  /\ poll.at = "store"
  /\ offset' = IF Len(poll.batch) > 1 THEN offset
               ELSE [offset EXCEPT ![poll.bot] = Head(poll.batch) + 1]
  /\ poll' = NextRound(Tail(poll.batch))
  /\ UNCHANGED <<inbox, cfg, open, used, choice, tried, answered, left, faults, reloads>>

StoreOffset_Commands ==
  /\ poll.at = "store"
  /\ offset' = IF Current.kind = "other" THEN offset
               ELSE [offset EXCEPT ![poll.bot] = Head(poll.batch) + 1]
  /\ poll' = NextRound(Tail(poll.batch))
  /\ UNCHANGED <<inbox, cfg, open, used, choice, tried, answered, left, faults, reloads>>

StoreOffset ==
  /\ poll.at = "store"
  /\ offset' = [offset EXCEPT ![poll.bot] = Head(poll.batch) + 1]
  /\ poll' = NextRound(Tail(poll.batch))
  /\ UNCHANGED <<inbox, cfg, open, used, choice, tried, answered, left, faults, reloads>>

\* A failing set_meta ends the round; a crash ends it anywhere.
RoundEnds ==
  /\ poll.at \in {"answer", "store"} /\ faults < MaxFaults
  /\ poll' = Idle
  /\ faults' = faults + 1
  /\ UNCHANGED <<inbox, offset, cfg, open, used, choice, tried, answered, left, reloads>>

-----------------------------------------------------------------------------
(* What happens around it.                                                 *)

\* A chat can only send a link it was shown.
Send(b, u) ==
  /\ Len(inbox[b]) < MaxUpdates
  /\ u.link \in used \cup {None}
  /\ inbox' = [inbox EXCEPT ![b] = Append(@, u)]
  /\ UNCHANGED <<offset, cfg, open, used, choice, poll, tried, answered, left, faults, reloads>>

\* sign_up_by_link: the page shows a link to the bot.
SignUpByLink(l) ==
  /\ l \notin used
  /\ open' = open \cup {l} /\ used' = used \cup {l}
  /\ UNCHANGED <<inbox, offset, cfg, choice, poll, tried, answered, left, faults, reloads>>

Expire(l) ==
  /\ l \in open /\ open' = open \ {l}
  /\ UNCHANGED <<inbox, offset, cfg, used, choice, poll, tried, answered, left, faults, reloads>>

\* The unsubscribe page deletes the chat's row.
Leave(c) ==
  /\ choice[c] # None /\ left < MaxLeaves
  /\ choice' = [choice EXCEPT ![c] = None] /\ left' = left + 1
  /\ UNCHANGED <<inbox, offset, cfg, open, used, poll, tried, answered, faults, reloads>>

\* The round under way keeps the config it started with.
Reload(b) ==
  /\ reloads < MaxReloads /\ b # cfg
  /\ cfg' = b /\ reloads' = reloads + 1
  /\ UNCHANGED <<inbox, offset, open, used, choice, poll, tried, answered, left, faults>>

Next ==
  \/ GetUpdates \/ Answer \/ AnswerFails \/ StoreOffset \/ RoundEnds
  \/ \E b \in Bots, u \in Update : Send(b, u)
  \/ \E l \in Links : SignUpByLink(l) \/ Expire(l)
  \/ \E c \in Chats : Leave(c)
  \/ \E b \in Bots \cup {Off} : Reload(b)

\* The task runs while its process does; a round's calls return.
Fairness == WF_vars(GetUpdates) /\ WF_vars(Answer) /\ WF_vars(StoreOffset)

Spec == Init /\ [][Next]_vars /\ Fairness

-----------------------------------------------------------------------------
(* Properties.                                                             *)

\* The offset never passes an update nobody looked at: it is stored after
\* the answer, and per bot (poll_once, offset_key).
NothingSkipped == \A b \in Bots : 1 .. (offset[b] - 1) \subseteq tried[b]

\* Whatever fails or restarts, every message sent to the bot in use is dealt
\* with in the end, also when other kinds of updates stand before it.
EveryUpdateHandled ==
  \A b \in Bots : <>[](cfg = b => 1 .. Len(inbox[b]) \subseteq tried[b] /\ poll.at = "idle")

\* The comment at offset_key: "so a restart does not handle a message
\* twice".  An update answered but not yet stored is handled again.
HandledOnce ==
  [][poll.at = "answer" /\ poll'.at = "store" => Head(poll.batch) \notin answered[poll.bot]]_vars

\* With one bot, commands take effect in order and at most once although
\* updates are handled again after a crash: a used link does nothing, and a
\* repeated /stop comes before anything that could subscribe the chat anew.
TheBot == CHOOSE b \in Bots : TRUE

\* Taken once it was answered, or passed without one.
Taken == answered[TheBot] \cup 1 .. (offset[TheBot] - 1)

Log == INSTANCE CommandLog WITH log <- inbox[TheBot], done <- Cardinality(Taken),
                                leaves <- left

InOrderOnce == Log!Spec
===============================================================================
