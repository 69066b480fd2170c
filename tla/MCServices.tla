------------------------------ MODULE MCServices ------------------------------
(* The tasks that must get things done in the end, each taken alone as in    *)
(* MCApart: the bot's polling, the reload of the config, and the sends to    *)
(* the operators.                                                            *)
EXTENDS Integers, Sequences

CONSTANTS None, Off

VARIABLES
  part,
  inbox, offset, bot, open, opened, choice, poll, tried, answered, leaves, breaks,
  moves,                                                                 \* TelegramPoll
  disk, running, version, main, watcher, events, burst, reported, loop, built, edits,  \* ConfigReload
  inner, chosen, sending, spent, shown, replaces                         \* Notifiers

\* Two bots, between which the config is switched.
Bot == INSTANCE TelegramPoll
  WITH cfg <- bot, left <- leaves, faults <- breaks, reloads <- moves, used <- opened,
       Bots <- {"b", "c"}, Chats <- {"d"}, Links <- {"l"},
       MaxUpdates <- 2, MaxFaults <- 1, MaxReloads <- 2, MaxLeaves <- 0

\* Three saves, the last of which may follow an invalid one.
File == INSTANCE ConfigReload
  WITH sent <- version, Values <- {"a", "b"}, Outcomes <- {"loads", "invalid"}, MaxEdits <- 3

\* Two messages at once, to a channel that retries and one that does not.
Tell == INSTANCE Notifiers
  WITH Messages <- {"down", "summary"}, Channels <- {"slack", "ntfy"}, Retrying <- {"slack"},
       Timeout <- 2, MaxRetryWait <- 1, Hints <- {0, 1, 9}, MaxReplaces <- 1

ASSUME ServicesAssumption ==
  Bot!TelegramAssumption /\ File!ReloadAssumption /\ Tell!NotifierAssumption

telegram == <<inbox, offset, bot, open, opened, choice, poll, tried, answered, leaves, breaks, moves>>

reload == <<disk, running, version, main, watcher, events, burst, reported, loop, built, edits>>

notifiers == <<inner, chosen, sending, spent, shown, replaces>>

vars == <<part, telegram, reload, notifiers>>

\* A program whose watcher failed and in which nothing is saved any more.
FileRests ==
  /\ disk = [load |-> "loads", says |-> [p \in File!Parts |-> "a"]]
  /\ running = disk /\ built = disk.says
  /\ version = 0 /\ events = 0 /\ edits = 0
  /\ main = "serving" /\ watcher = "failed" /\ burst = "ended" /\ reported = TRUE
  /\ loop = [p \in File!Parts |-> [at |-> "wait", seen |-> 0, current |-> "a", cfg |-> "a"]]

\* Those that rest have one state, in which nothing is to be done.
Init ==
  /\ part \in {"bot", "file", "tell"}
  /\ Bot!Init /\ (part # "bot" => bot = Off)
  /\ IF part = "file" THEN File!Init ELSE FileRests
  /\ Tell!Init /\ (part # "tell" => inner = {})

\* All parts but one rest.
Only(name) ==
  /\ part = name
  /\ UNCHANGED part
  /\ name # "bot" => UNCHANGED telegram
  /\ name # "file" => UNCHANGED reload
  /\ name # "tell" => UNCHANGED notifiers

Next ==
  \/ Only("bot") /\ Bot!Next
  \/ Only("file") /\ File!Next
  \/ Only("tell") /\ Tell!Next

Spec == Init /\ [][Next]_vars /\ Bot!Fairness /\ File!Fairness /\ Tell!Fairness

-----------------------------------------------------------------------------
(* Properties.                                                             *)

\* What no task may do on its way: pass over an update nobody looked at
\* (poll_once), keep channels built from an older config than the one it saw
\* (notifier_reload_loop), show a message twice or hold the probe loop longer
\* than two requests and a wait (post_json_retry_once).
ServicesHold ==
  /\ part = "bot" => Bot!NothingSkipped
  /\ part = "file" => File!TypeOK /\ File!BuiltIsRunning
  /\ part = "tell" => Tell!TypeOK /\ Tell!ShownOnce /\ Tell!WaitBounded

\* Nobody waits for ever: every message sent to the bot in use is dealt with in
\* the end, whatever fails or restarts (poll_loop), and every send that began
\* returns, whatever a channel or a reload does (MultiNotifier).
NobodyWaitsForEver == Bot!EveryUpdateHandled /\ Tell!SendReturns

\* The last save, when the watcher saw it and it is valid, is in force in the
\* end, with everything built from it (coalesce_reloads, apply_reload).
LastSaveInForce == File!LastSaveInForce
================================================================================
