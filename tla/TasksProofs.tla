----------------------------- MODULE TasksProofs -----------------------------
(***************************************************************************)
(* Proofs about tasks that run beside the engine, for any constants: the   *)
(* sends to the operators (Notifiers), the reload of the config            *)
(* (ConfigReload), the probe loop (Prober), the daily summary (Summary),   *)
(* the CPU of containers (Collector) and the sessions (Sessions).  Each    *)
(* theorem is about one of them alone: a name that two of them declare     *)
(* stands for the one the theorem is about.                                *)
(***************************************************************************)
EXTENDS Integers, FiniteSets, TLAPS

CONSTANTS
  Messages, Channels, Retrying, Timeout, MaxRetryWait, Hints, MaxReplaces,     \* Notifiers
  Values, Outcomes, MaxEdits,                                                  \* ConfigReload
  Containers, Units, Heartbeats, Interval, Allowed, MaxTime, MaxReloads,
  MaxChanges, MaxFaults, CallsFail, ReadsFail, Unset, Uninspected,             \* Prober
  SlotsPerDay, Times, Zones, MaxLate, Never,                                   \* Summary
  Interfaces, Physical, Ids, Names, MaxClock, MaxUpsets,                       \* Collector
  Ips, Requests, Tokens, MaxFailures, Window, SweepAt, Lifetime                \* Sessions

VARIABLES
  inner, chosen, sending, spent, shown, replaces,                              \* Notifiers
  disk, running, sent, main, watcher, events, burst, reported, loop, built,
  edits,                                                                       \* ConfigReload
  now, cfg, applied, last, firstRun, slots, step, tickNow, due, listing,
  truth, pings, verdict, held, watched, reloads, changes, faults,              \* Prober
  until, date, lastSummary, disturbed,                                         \* Summary
  clock, counters, moved, prev, rate, containers, used, lastCpu, cpu, at,
  netAt, cpuAt, upsets,                                                        \* Collector
  failures, login, sessions, drawn, left, tries                                \* Sessions

Tell == INSTANCE Notifiers

File == INSTANCE ConfigReload

Probe == INSTANCE Prober

Daily == INSTANCE Summary

Stat == INSTANCE Collector

Login == INSTANCE Sessions

-----------------------------------------------------------------------------
(* Notifiers: the invariant.                                               *)

Step == {"idle", "post", "again", "sent", "failed"}

TellTypes ==
  /\ inner \subseteq Channels
  /\ chosen \in [Messages -> SUBSET Channels]
  /\ sending \in [Messages -> [Channels -> Step]]
  /\ spent \in [Messages -> [Channels -> Nat]]
  /\ shown \in [Messages -> [Channels -> Nat]]

\* What one future has taken so far, and whether its server may have shown the
\* message: never while a request of it is still to be made.
FutureIs(place, secs, taken) ==
  /\ place \in {"idle", "post"} => secs = 0
  /\ place = "again" => secs <= Timeout + MaxRetryWait
  /\ secs <= Tell!Longest
  /\ taken <= 1
  /\ place \notin Tell!Ended => taken = 0

Future(m, ch) == FutureIs(sending[m][ch], spent[m][ch], shown[m][ch])

TellInv ==
  /\ TellTypes
  /\ \A m \in Messages, ch \in Channels :
       /\ sending[m][ch] = "idle" <=> ch \notin chosen[m]
       /\ sending[m][ch] = "again" => ch \in Retrying
       /\ Future(m, ch)

LEMMA TellStarts ==
  ASSUME Tell!NotifierAssumption, Tell!Init
  PROVE  TellInv
  <1>1. TellTypes
    BY DEF Tell!Init, Tell!Idle, TellTypes, Step
  <1>2. ASSUME NEW m \in Messages, NEW ch \in Channels
        PROVE  sending[m][ch] = "idle" /\ chosen[m] = {} /\ spent[m][ch] = 0 /\ shown[m][ch] = 0
    BY <1>2 DEF Tell!Init, Tell!Idle
  <1>3. Tell!Longest \in Nat
    BY DEF Tell!NotifierAssumption, Tell!Longest
  <1>4. QED
    BY <1>1, <1>2, <1>3 DEF TellInv, Future, FutureIs, Tell!Ended

\* A second never comes to more than a request or a wait allows.
LEMMA ClampBounds ==
  ASSUME Tell!NotifierAssumption, NEW hint \in Hints
  PROVE  Tell!ClampWait(hint) \in Nat /\ Tell!ClampWait(hint) <= MaxRetryWait
  BY DEF Tell!NotifierAssumption, Tell!ClampWait

\* Moves touches one future.
LEMMA MovesOne ==
  ASSUME TellInv, NEW m \in Messages, NEW ch \in Channels, NEW to \in Step, NEW secs \in Nat,
         Tell!Longest \in Nat, Tell!Moves(m, ch, to, secs)
  PROVE  /\ sending' \in [Messages -> [Channels -> Step]] /\ spent' \in [Messages -> [Channels -> Nat]]
         /\ sending'[m][ch] = to
         /\ spent[m][ch] + secs <= Tell!Longest => spent'[m][ch] = spent[m][ch] + secs
         /\ \A n \in Messages, c \in Channels : <<n, c>> # <<m, ch>> =>
              sending'[n][c] = sending[n][c] /\ spent'[n][c] = spent[n][c]
         /\ UNCHANGED <<inner, chosen>>
  <1> DEFINE total == IF spent[m][ch] + secs > Tell!Longest THEN Tell!Longest + 1
                      ELSE spent[m][ch] + secs
  <1>1. /\ sending' = [sending EXCEPT ![m][ch] = to]
        /\ spent' = [spent EXCEPT ![m][ch] = total]
        /\ UNCHANGED <<inner, chosen>>
    BY DEF Tell!Moves
  <1>2. /\ sending \in [Messages -> [Channels -> Step]] /\ spent \in [Messages -> [Channels -> Nat]]
        /\ spent[m][ch] \in Nat
    BY DEF TellInv, TellTypes
  <1>3. total \in Nat /\ (spent[m][ch] + secs <= Tell!Longest => total = spent[m][ch] + secs)
    BY <1>2
  <1> HIDE DEF total
  <1>4. QED
    BY <1>1, <1>2, <1>3

\* What a step of one future has to show.
LEMMA OneFuture ==
  ASSUME TellInv, NEW m \in Messages, NEW ch \in Channels, Tell!Posting(m, ch),
         NEW to \in Step \ {"idle"}, NEW secs \in Nat, Tell!Longest \in Nat,
         Tell!Moves(m, ch, to, secs),
         to = "again" => ch \in Retrying,
         spent[m][ch] + secs <= Tell!Longest,
         \/ UNCHANGED shown
         \/ to \in Tell!Ended /\ shown' = [shown EXCEPT ![m][ch] = @ + 1],
         FutureIs(to, spent[m][ch] + secs, 0)
  PROVE  TellInv'
  <1>1. /\ sending' \in [Messages -> [Channels -> Step]] /\ spent' \in [Messages -> [Channels -> Nat]]
        /\ sending'[m][ch] = to /\ spent'[m][ch] = spent[m][ch] + secs
        /\ \A n \in Messages, c \in Channels : <<n, c>> # <<m, ch>> =>
             sending'[n][c] = sending[n][c] /\ spent'[n][c] = spent[n][c]
        /\ UNCHANGED <<inner, chosen>>
    BY MovesOne
  <1>2. shown \in [Messages -> [Channels -> Nat]] /\ shown[m][ch] = 0 /\ ch \in chosen[m]
    BY DEF TellInv, TellTypes, Future, FutureIs, Tell!Posting, Tell!Ended
  <1>3. /\ shown' \in [Messages -> [Channels -> Nat]]
        /\ shown'[m][ch] \in {0, 1} /\ (to \notin Tell!Ended => shown'[m][ch] = 0)
        /\ \A n \in Messages, c \in Channels : <<n, c>> # <<m, ch>> => shown'[n][c] = shown[n][c]
    BY <1>2
  <1>4. TellTypes'
    BY <1>1, <1>3 DEF TellInv, TellTypes
  <1>5. ASSUME NEW n \in Messages, NEW c \in Channels
        PROVE  /\ sending'[n][c] = "idle" <=> c \notin chosen'[n]
               /\ sending'[n][c] = "again" => c \in Retrying
               /\ Future(n, c)'
    <2>1. CASE <<n, c>> = <<m, ch>>
      <3>1. n = m /\ c = ch
        BY <2>1
      <3>2. FutureIs(to, spent[m][ch] + secs, shown'[m][ch])
        BY <1>3 DEF FutureIs
      <3>3. QED
        BY <1>1, <1>2, <3>1, <3>2 DEF Future
    <2>2. CASE <<n, c>> # <<m, ch>>
      <3>1. /\ sending'[n][c] = sending[n][c] /\ spent'[n][c] = spent[n][c]
            /\ shown'[n][c] = shown[n][c] /\ chosen'[n] = chosen[n]
        BY <1>1, <1>3, <2>2
      <3>2. /\ sending[n][c] = "idle" <=> c \notin chosen[n]
            /\ sending[n][c] = "again" => c \in Retrying
            /\ FutureIs(sending[n][c], spent[n][c], shown[n][c])
        BY DEF TellInv, Future
      <3>3. QED
        BY <3>1, <3>2 DEF Future
    <2>3. QED
      BY <2>1, <2>2
  <1>6. QED
    BY <1>4, <1>5 DEF TellInv

\* A future with a request to make has spent what one request leaves room for.
LEMMA RoomToPost ==
  ASSUME Tell!NotifierAssumption, TellInv, NEW m \in Messages, NEW ch \in Channels,
         Tell!Posting(m, ch), NEW secs \in {0, Timeout}
  PROVE  /\ secs \in Nat /\ spent[m][ch] \in Nat /\ Tell!Longest \in Nat
         /\ spent[m][ch] + secs <= Tell!Longest
         /\ sending[m][ch] = "post" => spent[m][ch] = 0
  <1>1. Timeout \in Nat /\ MaxRetryWait \in Nat
    BY DEF Tell!NotifierAssumption
  <1>2. /\ spent[m][ch] \in Nat
        /\ sending[m][ch] = "post" => spent[m][ch] = 0
        /\ sending[m][ch] = "again" => spent[m][ch] <= Timeout + MaxRetryWait
    BY DEF TellInv, TellTypes, Future, FutureIs
  <1>3. QED
    BY <1>1, <1>2 DEF Tell!Posting, Tell!Longest

LEMMA AcceptedKeeps ==
  ASSUME Tell!NotifierAssumption, TellInv, NEW m \in Messages, NEW ch \in Channels,
         Tell!Accepted(m, ch)
  PROVE  TellInv'
  <1>1. PICK secs \in {0, Timeout} : Tell!Moves(m, ch, "sent", secs)
    BY DEF Tell!Accepted
  <1>2. Tell!Posting(m, ch) /\ shown' = [shown EXCEPT ![m][ch] = @ + 1]
    BY DEF Tell!Accepted
  <1>3. /\ secs \in Nat /\ spent[m][ch] \in Nat /\ Tell!Longest \in Nat
        /\ spent[m][ch] + secs <= Tell!Longest
    BY <1>2, RoomToPost
  <1>4. FutureIs("sent", spent[m][ch] + secs, 0) /\ "sent" \in Tell!Ended
    BY <1>3 DEF FutureIs, Tell!Ended
  <1>5. QED
    BY <1>1, <1>2, <1>3, <1>4, OneFuture DEF Step

LEMMA RefusedKeeps ==
  ASSUME Tell!NotifierAssumption, TellInv, NEW m \in Messages, NEW ch \in Channels,
         Tell!Refused(m, ch)
  PROVE  TellInv'
  <1>1. Tell!Posting(m, ch)
    BY DEF Tell!Refused
  <1>2. PICK secs \in {0, Timeout} :
          /\ Tell!Moves(m, ch, "failed", secs)
          /\ \/ UNCHANGED shown
             \/ shown' = [shown EXCEPT ![m][ch] = @ + 1]
    BY DEF Tell!Refused, Tell!AfterFailure
  <1>3. /\ secs \in Nat /\ spent[m][ch] \in Nat /\ Tell!Longest \in Nat
        /\ spent[m][ch] + secs <= Tell!Longest
    BY <1>1, RoomToPost
  <1>4. FutureIs("failed", spent[m][ch] + secs, 0) /\ "failed" \in Tell!Ended
    BY <1>3 DEF FutureIs, Tell!Ended
  <1>5. QED
    BY <1>1, <1>2, <1>3, <1>4, OneFuture DEF Step

\* A 429 leaves room for the wait, the second request, and nothing more.
LEMMA RateLimitedKeeps ==
  ASSUME Tell!NotifierAssumption, TellInv, NEW m \in Messages, NEW ch \in Channels,
         Tell!RateLimited(m, ch)
  PROVE  TellInv'
  <1>1. Tell!Posting(m, ch) /\ UNCHANGED shown
    BY DEF Tell!RateLimited
  <1>2. PICK secs \in {0, Timeout}, hint \in Hints :
          IF Tell!MayRetry(m, ch) THEN Tell!Moves(m, ch, "again", secs + Tell!ClampWait(hint))
          ELSE Tell!Moves(m, ch, "failed", secs)
    BY DEF Tell!RateLimited, Tell!AfterFailure
  <1>3. /\ secs \in Nat /\ spent[m][ch] \in Nat /\ Tell!Longest \in Nat
        /\ spent[m][ch] + secs <= Tell!Longest
        /\ sending[m][ch] = "post" => spent[m][ch] = 0
    BY <1>1, RoomToPost
  <1>4. CASE Tell!MayRetry(m, ch)
    <2> DEFINE wait == Tell!ClampWait(hint)
    <2>1. wait \in Nat /\ wait <= MaxRetryWait
      BY ClampBounds
    <2>2. Timeout \in Nat /\ MaxRetryWait \in Nat
      BY DEF Tell!NotifierAssumption
    <2>3. ch \in Retrying /\ spent[m][ch] = 0 /\ Tell!Moves(m, ch, "again", secs + wait)
      BY <1>2, <1>3, <1>4 DEF Tell!MayRetry
    <2> HIDE DEF wait
    <2>4. secs + wait \in Nat /\ spent[m][ch] + (secs + wait) = secs + wait
          /\ secs + wait <= Timeout + MaxRetryWait
      BY <1>3, <2>1, <2>2, <2>3
    <2>5. spent[m][ch] + (secs + wait) <= Tell!Longest
      BY <2>2, <2>4 DEF Tell!Longest
    <2>6. FutureIs("again", spent[m][ch] + (secs + wait), 0)
      BY <2>4, <2>5 DEF FutureIs
    <2>7. QED
      BY <1>1, <1>3, <2>3, <2>4, <2>5, <2>6, OneFuture DEF Step
  <1>5. CASE ~Tell!MayRetry(m, ch)
    <2>1. FutureIs("failed", spent[m][ch] + secs, 0)
      BY <1>3 DEF FutureIs, Tell!Ended
    <2>2. QED
      BY <1>1, <1>2, <1>3, <1>5, <2>1, OneFuture DEF Step
  <1>6. QED
    BY <1>4, <1>5

LEMMA BeginKeeps ==
  ASSUME TellInv, NEW m \in Messages, Tell!Begin(m)
  PROVE  TellInv'
  <1> DEFINE row == [ch \in Channels |-> IF ch \in inner THEN "post" ELSE "idle"]
  <1>1. /\ chosen' = [chosen EXCEPT ![m] = inner] /\ sending' = [sending EXCEPT ![m] = row]
        /\ UNCHANGED <<inner, spent, shown>>
        /\ \A ch \in Channels : sending[m][ch] = "idle"
    BY DEF Tell!Begin, Tell!Started
  <1>2. row \in [Channels -> Step]
    BY DEF Step
  <1>3. TellTypes'
    BY <1>1, <1>2 DEF TellInv, TellTypes
  <1>4. ASSUME NEW n \in Messages, NEW c \in Channels
        PROVE  /\ sending'[n][c] = "idle" <=> c \notin chosen'[n]
               /\ sending'[n][c] = "again" => c \in Retrying
               /\ Future(n, c)'
    <2>1. CASE n = m
      <3>1. sending'[n][c] = (IF c \in inner THEN "post" ELSE "idle") /\ chosen'[n] = inner
        BY <1>1, <2>1 DEF TellInv, TellTypes
      <3>2. FutureIs("idle", spent[n][c], shown[n][c])
        BY <1>1, <2>1 DEF TellInv, Future
      <3>3. FutureIs(sending'[n][c], spent[n][c], shown[n][c])
        BY <3>1, <3>2 DEF FutureIs, Tell!Ended
      <3>4. QED
        BY <1>1, <3>1, <3>3 DEF Future
    <2>2. CASE n # m
      BY <1>1, <2>2 DEF TellInv, TellTypes, Future
    <2>3. QED
      BY <2>1, <2>2
  <1>5. QED
    BY <1>3, <1>4 DEF TellInv

LEMMA TellKeeps == Tell!NotifierAssumption /\ TellInv /\ [Tell!Next]_(Tell!vars) => TellInv'
  <1> SUFFICES ASSUME Tell!NotifierAssumption, TellInv, [Tell!Next]_(Tell!vars) PROVE TellInv'
    OBVIOUS
  <1>1. CASE Tell!Replace
    BY <1>1 DEF Tell!Replace, TellInv, TellTypes, Future
  <1>2. ASSUME NEW m \in Messages, Tell!Begin(m) PROVE TellInv'
    BY <1>2, BeginKeeps
  <1>3. ASSUME NEW m \in Messages, NEW ch \in Channels, Tell!Accepted(m, ch) PROVE TellInv'
    BY <1>3, AcceptedKeeps
  <1>4. ASSUME NEW m \in Messages, NEW ch \in Channels, Tell!Refused(m, ch) PROVE TellInv'
    BY <1>4, RefusedKeeps
  <1>5. ASSUME NEW m \in Messages, NEW ch \in Channels, Tell!RateLimited(m, ch) PROVE TellInv'
    BY <1>5, RateLimitedKeeps
  <1>6. CASE UNCHANGED Tell!vars
    BY <1>6 DEF Tell!vars, TellInv, TellTypes, Future
  <1>7. QED
    BY <1>1, <1>2, <1>3, <1>4, <1>5, <1>6 DEF Tell!Next

-----------------------------------------------------------------------------
(* ConfigReload: the invariant.                                            *)

\* The config a loop works from: what it read and builds, or has built.
Working(p) == IF loop[p].at = "build" THEN loop[p].cfg ELSE loop[p].current

\* A loop that saw the last version works from the running config, also before
\* it first ran; what is built is what it compares with.
LoopIs(p) ==
  /\ built[p] = loop[p].current
  /\ loop[p].seen <= sent
  /\ loop[p].seen = sent => Working(p) = running.says[p]

FileInv ==
  /\ File!TypeOK
  /\ \A p \in File!Parts : LoopIs(p)

LEMMA FileStarts ==
  ASSUME File!ReloadAssumption, File!Init
  PROVE  FileInv
  <1>1. /\ disk \in File!Content /\ File!Loads(disk) /\ running = disk /\ sent = 0
        /\ built = disk.says /\ disk.says \in [File!Parts -> Values]
    BY DEF File!Init, File!Content
  <1>2. loop \in [File!Parts -> File!Loop]
    BY <1>1 DEF File!Init, File!Loop
  <1>3. ASSUME NEW p \in File!Parts
        PROVE  loop[p].at = "off" /\ loop[p].seen = 0 /\ loop[p].current = disk.says[p]
    BY <1>3 DEF File!Init
  <1>4. File!TypeOK
    BY <1>1, <1>2, <1>3 DEF File!Init, File!TypeOK
  <1>5. QED
    BY <1>1, <1>3, <1>4 DEF FileInv, LoopIs, Working

\* The steps that leave the loops, what they built and the running config alone.
LEMMA QuietKeeps ==
  ASSUME FileInv, File!TypeOK', UNCHANGED <<running, sent, loop, built>>
  PROVE  FileInv'
  BY DEF FileInv, LoopIs, Working

\* Edit, Watch and the rest save, watch and receive: no loop takes part.
LEMMA EditKeeps ==
  ASSUME FileInv, NEW c \in File!Content, File!Edit(c)
  PROVE  FileInv'
  <1>1. File!TypeOK' /\ UNCHANGED <<running, sent, loop, built>>
    BY DEF File!Edit, FileInv, File!TypeOK
  <1>2. QED
    BY <1>1, QuietKeeps

LEMMA WatchingKeeps ==
  ASSUME FileInv,
         File!SpawnWatcher \/ File!Watch \/ File!WatchFails \/ File!Receive
  PROVE  FileInv'
  <1>1. UNCHANGED <<running, sent, loop, built>>
    BY DEF File!SpawnWatcher, File!Watch, File!WatchFails, File!Receive
  <1>2. CASE File!SpawnWatcher \/ File!Watch \/ File!WatchFails
    BY <1>1, <1>2, QuietKeeps
       DEF File!SpawnWatcher, File!Watch, File!WatchFails, FileInv, File!TypeOK
  <1>3. CASE File!Receive
    BY <1>1, <1>3, QuietKeeps DEF File!Receive, FileInv, File!TypeOK
  <1>4. QED
    BY <1>2, <1>3

\* A reload puts a version in force that no loop has seen.
LEMMA ReloadKeeps ==
  ASSUME FileInv, File!Reload
  PROVE  FileInv'
  <1>1. UNCHANGED <<loop, built, main, watcher, events, reported, disk, edits>>
        /\ burst' \in {"ended", "idle"}
    BY DEF File!Reload
  <1>2. CASE File!Loads(disk)
    <2>1. running' = disk /\ sent' = sent + 1
      BY <1>2 DEF File!Reload
    <2>2. File!TypeOK'
      BY <1>1, <1>2, <2>1 DEF FileInv, File!TypeOK, File!Loads
    <2>3. ASSUME NEW p \in File!Parts
          PROVE  LoopIs(p)'
      <3>1. loop[p].seen \in Nat /\ sent \in Nat /\ loop[p].seen <= sent
        BY DEF FileInv, File!TypeOK, File!Loop, LoopIs
      <3>2. QED
        BY <1>1, <2>1, <3>1 DEF FileInv, LoopIs
    <2>4. QED
      BY <2>2, <2>3 DEF FileInv
  <1>3. CASE ~File!Loads(disk)
    <2>1. UNCHANGED <<running, sent>>
      BY <1>3 DEF File!Reload
    <2>2. File!TypeOK'
      BY <1>1, <2>1 DEF FileInv, File!TypeOK, File!Loads
    <2>3. QED
      BY <1>1, <2>1, <2>2, QuietKeeps
  <1>4. QED
    BY <1>2, <1>3

\* What a step of one loop has to show.
LEMMA OneLoop ==
  ASSUME FileInv, NEW p \in File!Parts, NEW row \in File!Loop, NEW made \in Values,
         loop' = [loop EXCEPT ![p] = row], built' = [built EXCEPT ![p] = made],
         main' \in {"load", "watch", "serving"},
         UNCHANGED <<disk, running, sent, watcher, events, burst, reported, edits>>,
         made = row.current, row.seen <= sent,
         row.seen = sent =>
           (IF row.at = "build" THEN row.cfg ELSE row.current) = running.says[p]
  PROVE  FileInv'
  <1>1. loop \in [File!Parts -> File!Loop] /\ built \in [File!Parts -> Values]
    BY DEF FileInv, File!TypeOK
  <1>2. /\ loop' \in [File!Parts -> File!Loop] /\ built' \in [File!Parts -> Values]
        /\ loop'[p] = row /\ built'[p] = made
        /\ \A q \in File!Parts \ {p} : loop'[q] = loop[q] /\ built'[q] = built[q]
    BY <1>1
  <1>3. ASSUME NEW q \in File!Parts PROVE LoopIs(q)'
    <2>1. CASE q = p
      BY <1>2, <2>1 DEF LoopIs, Working
    <2>2. CASE q # p
      BY <1>2, <2>2 DEF FileInv, LoopIs, Working
    <2>3. QED
      BY <2>1, <2>2
  <1>4. File!TypeOK'
    BY <1>2, <1>3 DEF FileInv, File!TypeOK, File!Loads, LoopIs
  <1>5. QED
    BY <1>3, <1>4 DEF FileInv

LEMMA StartLoopKeeps ==
  ASSUME FileInv, NEW p \in File!Parts, File!StartLoop(p)
  PROVE  FileInv'
  <1> DEFINE row == [loop[p] EXCEPT !.at = "wait", !.current = loop[p].current]
  <1>1. loop[p] \in File!Loop /\ loop \in [File!Parts -> File!Loop] /\ built[p] \in Values
        /\ built \in [File!Parts -> Values]
    BY DEF FileInv, File!TypeOK
  <1>2. loop' = [loop EXCEPT ![p].at = "wait", ![p].current = loop[p].current]
    BY DEF File!StartLoop, File!FirstCurrent
  <1>3. /\ loop' = [loop EXCEPT ![p] = row] /\ row \in File!Loop
        /\ row.at = "wait" /\ row.seen = loop[p].seen /\ row.current = loop[p].current
    <2>1. loop' = [loop EXCEPT ![p] = row]
      BY <1>1, <1>2
    <2>2. QED
      BY <1>1, <2>1 DEF File!Loop
  <1>4. built' = [built EXCEPT ![p] = built[p]]
    BY <1>1 DEF File!StartLoop
  <1>5. /\ main' \in {"load", "watch", "serving"}
        /\ UNCHANGED <<disk, running, sent, watcher, events, burst, reported, edits>>
        /\ loop[p].at = "off"
    BY DEF File!StartLoop, FileInv, File!TypeOK
  <1>6. /\ built[p] = row.current /\ row.seen <= sent
        /\ row.seen = sent =>
             (IF row.at = "build" THEN row.cfg ELSE row.current) = running.says[p]
    BY <1>3, <1>5 DEF FileInv, LoopIs, Working
  <1> HIDE DEF row
  <1>7. QED
    BY <1>1, <1>3, <1>4, <1>5, <1>6, OneLoop

\* changed(): the loop takes the latest config with the latest version.
LEMMA ChangedKeeps ==
  ASSUME FileInv, NEW p \in File!Parts, File!Changed(p)
  PROVE  FileInv'
  <1> DEFINE row == [loop[p] EXCEPT !.at = "build", !.seen = sent, !.cfg = running.says[p]]
  <1>1. /\ loop[p] \in File!Loop /\ loop \in [File!Parts -> File!Loop] /\ built[p] \in Values
        /\ built \in [File!Parts -> Values] /\ running.says[p] \in Values /\ sent \in Nat
    BY DEF FileInv, File!TypeOK, File!Content
  <1>2. /\ loop' = [loop EXCEPT ![p] = row] /\ row \in File!Loop
        /\ row.at = "build" /\ row.seen = sent /\ row.current = loop[p].current
        /\ row.cfg = running.says[p]
    <2>1. loop' = [loop EXCEPT ![p] = row]
      BY DEF File!Changed
    <2>2. QED
      BY <1>1, <2>1 DEF File!Loop
  <1>3. built' = [built EXCEPT ![p] = built[p]]
    BY <1>1 DEF File!Changed
  <1>4. /\ main' \in {"load", "watch", "serving"}
        /\ UNCHANGED <<disk, running, sent, watcher, events, burst, reported, edits>>
    BY DEF File!Changed, FileInv, File!TypeOK
  <1>5. /\ built[p] = row.current /\ row.seen <= sent
        /\ (IF row.at = "build" THEN row.cfg ELSE row.current) = running.says[p]
    BY <1>1, <1>2 DEF FileInv, LoopIs
  <1> HIDE DEF row
  <1>6. QED
    BY <1>1, <1>2, <1>3, <1>4, <1>5, OneLoop

\* The channels are left alone only when they say what the config says.
LEMMA BuildKeeps ==
  ASSUME FileInv, NEW p \in File!Parts, File!Build(p)
  PROVE  FileInv'
  <1> DEFINE row == [loop[p] EXCEPT !.at = "wait", !.current = loop[p].cfg]
  <1>1. /\ loop[p] \in File!Loop /\ loop \in [File!Parts -> File!Loop]
        /\ built \in [File!Parts -> Values] /\ loop[p].cfg \in Values
    BY DEF FileInv, File!TypeOK, File!Loop
  <1>2. loop[p].at = "build" /\ built[p] = loop[p].current
    BY DEF File!Build, FileInv, LoopIs
  <1>3. /\ loop' = [loop EXCEPT ![p] = row] /\ row \in File!Loop
        /\ row.at = "wait" /\ row.seen = loop[p].seen /\ row.current = loop[p].cfg
    <2>1. loop' = [loop EXCEPT ![p] = row]
      BY DEF File!Build
    <2>2. QED
      BY <1>1, <2>1 DEF File!Loop
  <1>4. built' = [built EXCEPT ![p] = loop[p].cfg]
    BY <1>1, <1>2 DEF File!Build
  <1>5. /\ main' \in {"load", "watch", "serving"}
        /\ UNCHANGED <<disk, running, sent, watcher, events, burst, reported, edits>>
    BY DEF File!Build, FileInv, File!TypeOK
  <1>6. /\ loop[p].cfg = row.current /\ row.seen <= sent
        /\ row.seen = sent =>
             (IF row.at = "build" THEN row.cfg ELSE row.current) = running.says[p]
    BY <1>2, <1>3 DEF FileInv, LoopIs, Working
  <1> HIDE DEF row
  <1>7. QED
    BY <1>1, <1>3, <1>4, <1>5, <1>6, OneLoop

LEMMA FileKeeps == FileInv /\ [File!Next]_(File!vars) => FileInv'
  <1> SUFFICES ASSUME FileInv, [File!Next]_(File!vars) PROVE FileInv'
    OBVIOUS
  <1>1. ASSUME NEW c \in File!Content, File!Edit(c) PROVE FileInv'
    BY <1>1, EditKeeps
  <1>2. CASE File!SpawnWatcher \/ File!Watch \/ File!WatchFails \/ File!Receive
    BY <1>2, WatchingKeeps
  <1>3. CASE File!Reload
    BY <1>3, ReloadKeeps
  <1>4. ASSUME NEW p \in File!Parts, File!StartLoop(p) PROVE FileInv'
    BY <1>4, StartLoopKeeps
  <1>5. ASSUME NEW p \in File!Parts, File!Changed(p) PROVE FileInv'
    BY <1>5, ChangedKeeps
  <1>6. ASSUME NEW p \in File!Parts, File!Build(p) PROVE FileInv'
    BY <1>6, BuildKeeps
  <1>7. CASE UNCHANGED File!vars
    <2>1. UNCHANGED <<running, sent, loop, built>> /\ File!TypeOK'
      BY <1>7 DEF File!vars, FileInv, File!TypeOK
    <2>2. QED
      BY <2>1, QuietKeeps
  <1>8. QED
    BY <1>1, <1>2, <1>3, <1>4, <1>5, <1>6, <1>7 DEF File!Next

-----------------------------------------------------------------------------
(* Prober: the invariant.                                                  *)

Targets == Containers \cup Units

\* The loop's times of a check: it knew the check before it ran it, and what is
\* due ran in this tick.
TimesIs(c) ==
  /\ c \in DOMAIN watched => watched[c] \in Nat /\ watched[c] <= tickNow
  /\ c \in DOMAIN last =>
       /\ firstRun[c] \in Nat /\ last[c] \in Nat
       /\ watched[c] <= firstRun[c] /\ firstRun[c] <= last[c] /\ last[c] <= tickNow
       /\ c \in due => last[c] = tickNow

FunctionsAre ==
  /\ listing = [s \in Probe!Sources |-> listing[s]]
  /\ verdict = [c \in Probe!Checks |-> verdict[c]]
  /\ held = [c \in Targets |-> held[c]]
  /\ DOMAIN truth = Targets

\* A listing, when there is one, gives every target a state it held since the
\* tick began, unless a call about one of them can fail.
ListingIs ==
  /\ step # "idle" => \A c \in Targets : truth[c] \in held[c]
  /\ ~CallsFail =>
       /\ listing["docker"] # Unset => \A c \in Containers : listing["docker"][c] \in held[c]
       /\ listing["systemd"] # Unset => \A c \in Units : listing["systemd"][c] \in held[c]

ProbeInv ==
  /\ Probe!TypeOK
  /\ FunctionsAre
  /\ \A c \in DOMAIN watched : TimesIs(c)
  /\ ListingIs
  /\ ~CallsFail => Probe!VerdictIsTrue

\* A probe comes to an outcome.
LEMMA ProbesAnswer ==
  /\ \A check, c : Probe!ProbeDocker(check, c) \in Probe!Outcome
  /\ \A check, u : Probe!ProbeSystemd(check, u) \in Probe!Outcome
  /\ \A allowed, ping, since, t : Probe!ProbeHeartbeat(allowed, ping, since, t) \in Probe!Outcome
  BY DEF Probe!ProbeDocker, Probe!ProbeSystemd, Probe!ProbeHeartbeat, Probe!Outcome

LEMMA ProbeStarts ==
  ASSUME Probe!ProberAssumption, Probe!Init
  PROVE  ProbeInv
  <1>1. DOMAIN last = {} /\ DOMAIN firstRun = {} /\ DOMAIN watched = {}
    BY DEF Probe!Init
  <1>2. FunctionsAre
    BY DEF FunctionsAre, Probe!Init, Targets
  <1>3. \A c \in Probe!Checks : verdict[c] = Unset
    BY DEF Probe!Init
  <1>4. listing["docker"] = Unset /\ listing["systemd"] = Unset /\ step = "idle"
    BY DEF Probe!Init, Probe!Sources
  <1>5. Probe!TypeOK
    BY <1>1, <1>3 DEF Probe!Init, Probe!TypeOK, Probe!Config, Probe!ProberAssumption, Probe!Sources
  <1>6. Probe!VerdictIsTrue
    BY <1>3 DEF Probe!VerdictIsTrue, Probe!Checks
  <1>7. QED
    BY <1>1, <1>2, <1>4, <1>5, <1>6 DEF ProbeInv, ListingIs

\* The steps outside the loop, but for the changes, leave its tick alone.
LEMMA OutsideKeeps ==
  ASSUME Probe!ProberAssumption, ProbeInv,
         \/ Probe!ClockMoves \/ Probe!Reload \/ \E c \in Heartbeats : Probe!Heartbeat(c)
         \/ UNCHANGED Probe!vars
  PROVE  ProbeInv'
  <1>1. UNCHANGED <<applied, last, firstRun, slots, step, tickNow, due, listing, truth,
                    verdict, held, watched>>
    BY DEF Probe!ClockMoves, Probe!Reload, Probe!Heartbeat, Probe!vars
  <1>2. now' \in 0 .. MaxTime /\ tickNow' \in 0 .. now' /\ cfg' \in Probe!Config
    <2>1. now \in 0 .. MaxTime /\ tickNow \in 0 .. now /\ cfg \in Probe!Config
      BY DEF ProbeInv, Probe!TypeOK
    <2>2. CASE Probe!ClockMoves
      BY <1>1, <2>1, <2>2 DEF Probe!ClockMoves, Probe!ProberAssumption
    <2>3. CASE Probe!Reload
      BY <1>1, <2>1, <2>3 DEF Probe!Reload
    <2>4. CASE (\E c \in Heartbeats : Probe!Heartbeat(c)) \/ UNCHANGED Probe!vars
      BY <1>1, <2>1, <2>4 DEF Probe!Heartbeat, Probe!vars
    <2>5. QED
      BY <2>2, <2>3, <2>4
  <1>3. Probe!TypeOK'
    BY <1>1, <1>2 DEF ProbeInv, Probe!TypeOK
  <1>4. FunctionsAre' /\ ListingIs' /\ (~CallsFail => Probe!VerdictIsTrue')
    BY <1>1 DEF ProbeInv, FunctionsAre, ListingIs, Probe!VerdictIsTrue
  <1>5. \A c \in DOMAIN watched' : TimesIs(c)'
    BY <1>1 DEF ProbeInv, TimesIs
  <1>6. QED
    BY <1>3, <1>4, <1>5 DEF ProbeInv

\* A target that changes still held what it was.
LEMMA ChangesKeep ==
  ASSUME ProbeInv, Probe!Changes
  PROVE  ProbeInv'
  <1>1. UNCHANGED <<now, cfg, applied, last, firstRun, slots, step, tickNow, due, listing,
                    verdict, watched>>
    BY DEF Probe!Changes
  <1>2. PICK d \in DOMAIN truth : \E to :
          /\ truth' = [truth EXCEPT ![d] = to] /\ held' = [held EXCEPT ![d] = @ \cup {to}]
    BY DEF Probe!Changes
  <1>3. /\ held = [c \in Targets |-> held[c]] /\ DOMAIN truth = Targets /\ d \in Targets
    BY DEF ProbeInv, FunctionsAre
  <1>4. /\ held' = [c \in Targets |-> held'[c]] /\ DOMAIN truth' = Targets
        /\ \A c \in Targets : held[c] \subseteq held'[c]
        /\ \A c \in Targets : truth[c] \in held[c] => truth'[c] \in held'[c]
    <2>1. PICK to :
            /\ truth' = [truth EXCEPT ![d] = to] /\ held' = [held EXCEPT ![d] = @ \cup {to}]
      BY <1>2
    <2>2. QED
      BY <1>3, <2>1
  <1>5. FunctionsAre'
    BY <1>1, <1>4 DEF ProbeInv, FunctionsAre
  <1>6. ListingIs'
    BY <1>1, <1>4 DEF ProbeInv, ListingIs, Targets
  <1>7. ~CallsFail => Probe!VerdictIsTrue'
    BY <1>1, <1>4 DEF ProbeInv, Probe!VerdictIsTrue, Targets
  <1>8. Probe!TypeOK' /\ \A c \in DOMAIN watched' : TimesIs(c)'
    BY <1>1 DEF ProbeInv, Probe!TypeOK, TimesIs
  <1>9. QED
    BY <1>5, <1>6, <1>7, <1>8 DEF ProbeInv

\* A restart forgets the tick and the times.
LEMMA RestartKeeps ==
  ASSUME Probe!ProberAssumption, ProbeInv, Probe!Restart
  PROVE  ProbeInv'
  <1>1. /\ DOMAIN last' = {} /\ DOMAIN firstRun' = {} /\ DOMAIN watched' = {}
        /\ slots' = {} /\ step' = "idle" /\ due' = {} /\ applied' = cfg
        /\ listing' = [s \in Probe!Sources |-> Unset] /\ verdict' = [c \in Probe!Checks |-> Unset]
        /\ held' = [c \in DOMAIN held |-> {}]
        /\ UNCHANGED <<now, cfg, tickNow, truth>>
    BY DEF Probe!Restart
  <1>2. FunctionsAre'
    BY <1>1 DEF ProbeInv, FunctionsAre
  <1>3. \A c \in Probe!Checks : verdict'[c] = Unset
    BY <1>1
  <1>4. ListingIs'
    BY <1>1 DEF ListingIs, Probe!Sources
  <1>5. Probe!TypeOK'
    BY <1>1, <1>3 DEF ProbeInv, Probe!TypeOK
  <1>6. Probe!VerdictIsTrue'
    BY <1>3 DEF Probe!VerdictIsTrue, Probe!Checks
  <1>7. QED
    BY <1>1, <1>2, <1>4, <1>5, <1>6 DEF ProbeInv

\* A tick forgets what was recorded in the last one, and notes its time for
\* every check that is due.
LEMMA TickKeeps ==
  ASSUME Probe!ProberAssumption, ProbeInv, Probe!Tick
  PROVE  ProbeInv'
  <1>1. /\ now \in Nat /\ tickNow \in 0 .. now /\ cfg \in Probe!Config /\ applied \in Probe!Config
        /\ DOMAIN firstRun = DOMAIN last /\ DOMAIN last \subseteq DOMAIN watched
    BY DEF ProbeInv, Probe!TypeOK
  <1>2. PICK reconciled \in BOOLEAN, connected \in SUBSET Probe!Sources :
          LET kept == IF cfg # applied /\ reconciled THEN Probe!ForgetRemoved(last) ELSE last
              first == IF cfg # applied /\ reconciled THEN Probe!ForgetRemoved(firstRun) ELSE firstRun
              known == IF cfg # applied /\ reconciled THEN Probe!Retain(watched, cfg.checks) ELSE watched
              run == Probe!Due(cfg.checks, kept)
          IN /\ applied' = IF reconciled THEN cfg ELSE applied
             /\ slots' = Probe!Ensure(cfg.on, connected)
             /\ due' = run
             /\ last' = [c \in DOMAIN kept \cup run |-> IF c \in run THEN now ELSE kept[c]]
             /\ firstRun' = [c \in DOMAIN first \cup run |-> IF c \in DOMAIN first THEN first[c] ELSE now]
             /\ watched' = [c \in DOMAIN known \cup cfg.checks |->
                              IF c \in DOMAIN known THEN known[c] ELSE now]
             /\ step' = IF run = {} THEN "idle" ELSE "docker"
    BY DEF Probe!Tick
  <1> DEFINE kept == IF cfg # applied /\ reconciled THEN Probe!ForgetRemoved(last) ELSE last
             first == IF cfg # applied /\ reconciled THEN Probe!ForgetRemoved(firstRun) ELSE firstRun
             known == IF cfg # applied /\ reconciled THEN Probe!Retain(watched, cfg.checks) ELSE watched
             run == Probe!Due(cfg.checks, kept)
  <1>3. /\ applied' = (IF reconciled THEN cfg ELSE applied)
        /\ slots' = Probe!Ensure(cfg.on, connected)
        /\ due' = run
        /\ last' = [c \in DOMAIN kept \cup run |-> IF c \in run THEN now ELSE kept[c]]
        /\ firstRun' = [c \in DOMAIN first \cup run |-> IF c \in DOMAIN first THEN first[c] ELSE now]
        /\ watched' = [c \in DOMAIN known \cup cfg.checks |->
                         IF c \in DOMAIN known THEN known[c] ELSE now]
        /\ step' = IF run = {} THEN "idle" ELSE "docker"
    BY <1>2
  <1>4. /\ tickNow' = now /\ UNCHANGED <<now, cfg, truth>>
        /\ listing' = [s \in Probe!Sources |-> Unset] /\ verdict' = [c \in Probe!Checks |-> Unset]
        /\ held' = [c \in DOMAIN truth |-> {truth[c]}]
    BY DEF Probe!Tick
  <1>5. /\ DOMAIN kept = DOMAIN first /\ DOMAIN kept \subseteq DOMAIN known
        /\ DOMAIN kept \subseteq DOMAIN last /\ DOMAIN known \subseteq DOMAIN watched
        /\ \A c \in DOMAIN kept : kept[c] = last[c] /\ first[c] = firstRun[c]
        /\ \A c \in DOMAIN known : known[c] = watched[c]
    <2>1. CASE cfg # applied /\ reconciled
      BY <1>1, <2>1 DEF Probe!ForgetRemoved, Probe!Retain
    <2>2. CASE ~(cfg # applied /\ reconciled)
      BY <1>1, <2>2
    <2>3. QED
      BY <2>1, <2>2
  <1>6. run \subseteq cfg.checks
    BY DEF Probe!Due
  <1>7. slots' \subseteq Probe!Sources
    <2>1. cfg.on \subseteq Probe!Sources
      BY <1>1 DEF Probe!Config, Probe!Used
    <2>2. QED
      BY <1>3, <2>1 DEF Probe!Ensure
  <1> HIDE DEF kept, first, known, run
  <1>8. /\ DOMAIN firstRun' = DOMAIN last' /\ DOMAIN last' \subseteq DOMAIN watched'
        /\ due' \subseteq DOMAIN last' /\ (step' = "idle" => due' = {})
        /\ step' \in {"idle", "docker", "systemd", "evaluate"}
    BY <1>3, <1>5, <1>6
  <1>9. ASSUME NEW c \in DOMAIN watched'
        PROVE  TimesIs(c)'
    <2>1. watched'[c] = (IF c \in DOMAIN known THEN watched[c] ELSE now)
      BY <1>3, <1>5, <1>9
    <2>2. c \in DOMAIN known => watched[c] \in Nat /\ watched[c] <= tickNow
      BY <1>5 DEF ProbeInv, TimesIs
    <2>3. watched'[c] \in Nat /\ watched'[c] <= now
      BY <1>1, <2>1, <2>2
    <2>4. ASSUME c \in DOMAIN last'
          PROVE  /\ firstRun'[c] \in Nat /\ last'[c] \in Nat
                 /\ watched'[c] <= firstRun'[c] /\ firstRun'[c] <= last'[c] /\ last'[c] <= now
                 /\ c \in due' => last'[c] = now
      <3>1. CASE c \in DOMAIN kept
        <4>1. /\ c \in DOMAIN known /\ c \in DOMAIN last /\ c \in DOMAIN watched
              /\ firstRun'[c] = firstRun[c] /\ watched'[c] = watched[c]
              /\ last'[c] = (IF c \in run THEN now ELSE last[c])
          BY <1>3, <1>5, <2>1, <2>4, <3>1
        <4>2. /\ firstRun[c] \in Nat /\ last[c] \in Nat /\ watched[c] \in Nat
              /\ watched[c] <= firstRun[c] /\ firstRun[c] <= last[c] /\ last[c] <= tickNow
          BY <4>1 DEF ProbeInv, TimesIs
        <4>3. QED
          BY <1>1, <1>3, <4>1, <4>2
      <3>2. CASE c \notin DOMAIN kept
        <4>1. firstRun'[c] = now /\ last'[c] = now
          BY <1>3, <1>5, <2>4, <3>2
        <4>2. QED
          BY <1>1, <2>3, <4>1
      <3>3. QED
        BY <3>1, <3>2
    <2>5. QED
      BY <1>4, <2>3, <2>4 DEF TimesIs
  <1>10. \A c \in Probe!Checks : verdict'[c] = Unset
    BY <1>4
  <1>11. FunctionsAre' /\ ListingIs'
    BY <1>4 DEF ProbeInv, FunctionsAre, ListingIs, Probe!Sources
  <1>12. Probe!VerdictIsTrue'
    BY <1>10 DEF Probe!VerdictIsTrue, Probe!Checks
  <1>13. Probe!TypeOK'
    <2>1. /\ now' \in 0 .. MaxTime /\ tickNow' \in 0 .. now' /\ cfg' \in Probe!Config
          /\ applied' \in Probe!Config
      BY <1>1, <1>3, <1>4 DEF ProbeInv, Probe!TypeOK
    <2>2. \A c \in DOMAIN last' :
            /\ watched'[c] <= firstRun'[c] /\ firstRun'[c] <= last'[c] /\ last'[c] <= tickNow'
            /\ c \in due' => last'[c] = tickNow'
      BY <1>8, <1>9 DEF TimesIs
    <2>3. QED
      BY <1>7, <1>8, <1>10, <2>1, <2>2 DEF Probe!TypeOK
  <1>14. QED
    BY <1>9, <1>11, <1>12, <1>13 DEF ProbeInv

\* A listing that fails leaves nothing; one that does not, the states of the
\* moment.
LEMMA ListKeeps ==
  ASSUME ProbeInv, NEW source \in Probe!Sources,
         NEW next \in {"systemd", "evaluate"}, Probe!List(source, next)
  PROVE  ProbeInv'
  <1>1. /\ step = source /\ step' = next
        /\ UNCHANGED <<now, cfg, applied, last, firstRun, slots, tickNow, due, truth, verdict,
                       held, watched>>
    BY DEF Probe!List
  <1>2. /\ listing' = [listing EXCEPT ![source] = listing'[source]]
        /\ ~CallsFail => listing'[source] \in {Unset, Probe!Answer(source, {}, {})}
    <2>1. PICK ok \in BOOLEAN,
               uninspected \in SUBSET (Probe!ChecksOf(source) \cap Containers),
               unread \in SUBSET Probe!ChecksOf(source) :
            /\ uninspected \cup unread # {} => CallsFail /\ ok
            /\ LET asked == source \in slots /\ due \cap Probe!ChecksOf(source) # {}
               IN listing' = [listing EXCEPT ![source] =
                                IF ~asked THEN Unset
                                ELSE IF ok THEN Probe!Answer(source, uninspected, unread)
                                ELSE Probe!Failed(source)]
      BY DEF Probe!List
    <2>2. ~CallsFail => uninspected = {} /\ unread = {}
      BY <2>1
    <2>3. listing = [s \in Probe!Sources |-> listing[s]]
      BY DEF ProbeInv, FunctionsAre
    <2>4. QED
      BY <2>1, <2>2, <2>3 DEF Probe!Failed
  <1>3. /\ listing = [s \in Probe!Sources |-> listing[s]] /\ step \in Probe!Sources
        /\ \A c \in Targets : truth[c] \in held[c]
    BY <1>1 DEF ProbeInv, FunctionsAre, ListingIs, Probe!Sources
  <1>4. \A c \in Probe!ChecksOf(source) : Probe!Answer(source, {}, {})[c] = truth[c]
    BY DEF Probe!Answer
  <1>5. /\ listing' = [s \in Probe!Sources |-> listing'[s]]
        /\ \A s \in Probe!Sources \ {source} : listing'[s] = listing[s]
        /\ ~CallsFail /\ listing'[source] # Unset =>
             \A c \in Probe!ChecksOf(source) : listing'[source][c] = truth[c]
    BY <1>2, <1>3, <1>4
  <1>6. FunctionsAre'
    BY <1>1, <1>5 DEF ProbeInv, FunctionsAre
  <1>7. ListingIs'
    <2>1. ASSUME ~CallsFail, listing'["docker"] # Unset, NEW c \in Containers
          PROVE  listing'["docker"][c] \in held[c]
      BY <1>3, <1>5, <2>1 DEF ProbeInv, ListingIs, Probe!ChecksOf, Probe!Sources, Targets
    <2>2. ASSUME ~CallsFail, listing'["systemd"] # Unset, NEW c \in Units
          PROVE  listing'["systemd"][c] \in held[c]
      BY <1>3, <1>5, <2>2 DEF ProbeInv, ListingIs, Probe!ChecksOf, Probe!Sources, Targets
    <2>3. QED
      BY <1>1, <1>3, <2>1, <2>2 DEF ListingIs
  <1>8. Probe!TypeOK' /\ (~CallsFail => Probe!VerdictIsTrue') /\ \A c \in DOMAIN watched' : TimesIs(c)'
    BY <1>1 DEF ProbeInv, Probe!TypeOK, Probe!VerdictIsTrue, TimesIs, Probe!Sources
  <1>9. QED
    BY <1>6, <1>7, <1>8 DEF ProbeInv

\* The verdict on a check is its probe's on a state it held, or there is none.
LEMMA EvaluateKeeps ==
  ASSUME Probe!ProberAssumption, ProbeInv, NEW d \in Probe!Checks, Probe!Evaluate(d)
  PROVE  ProbeInv'
  <1>1. /\ step = "evaluate" /\ due' = due \ {d}
        /\ step' = (IF due' = {} THEN "idle" ELSE "evaluate")
        /\ UNCHANGED <<now, cfg, applied, last, firstRun, slots, tickNow, listing, truth, held,
                       watched>>
    BY DEF Probe!Evaluate
  <1>2. PICK ping : verdict' = [verdict EXCEPT ![d] = Probe!Evaluated(d, ping)]
    BY DEF Probe!Evaluate
  <1>3. /\ verdict = [c \in Probe!Checks |-> verdict[c]]
        /\ \A c \in Probe!Checks : verdict[c] \in Probe!Outcome \cup {Unset}
    BY DEF ProbeInv, FunctionsAre, Probe!TypeOK
  <1>4. /\ verdict' = [c \in Probe!Checks |-> verdict'[c]]
        /\ verdict'[d] = Probe!Evaluated(d, ping)
        /\ \A c \in Probe!Checks \ {d} : verdict'[c] = verdict[c]
    BY <1>2, <1>3
  <1>5. Probe!Evaluated(d, ping) \in Probe!Outcome \cup {Unset}
    BY ProbesAnswer DEF Probe!Evaluated
  <1>6. Probe!TypeOK'
    <2>1. \A c \in Probe!Checks : verdict'[c] \in Probe!Outcome \cup {Unset}
      BY <1>3, <1>4, <1>5
    <2>2. /\ due' \subseteq due /\ step' \in {"idle", "docker", "systemd", "evaluate"}
          /\ step' = "idle" => due' = {}
      BY <1>1
    <2>3. QED
      BY <1>1, <2>1, <2>2 DEF ProbeInv, Probe!TypeOK
  <1>7. FunctionsAre'
    BY <1>1, <1>4 DEF ProbeInv, FunctionsAre
  <1>8. ListingIs' /\ \A c \in DOMAIN watched' : TimesIs(c)'
    BY <1>1 DEF ProbeInv, ListingIs, TimesIs
  <1>9. ASSUME ~CallsFail PROVE Probe!VerdictIsTrue'
    <2>1. ASSUME NEW c \in Containers, verdict'[c] # Unset
          PROVE  \E s \in held[c] : verdict'[c] = Probe!ProbeDocker(Probe!DockerCheck, s)
      <3>1. CASE c = d
        <4>1. d \notin Heartbeats
          BY <3>1 DEF Probe!ProberAssumption
        <4>2. /\ listing["docker"] # Unset
              /\ verdict'[c] = Probe!ProbeDocker(Probe!DockerCheck, listing["docker"][c])
          BY <1>4, <2>1, <3>1, <4>1 DEF Probe!Evaluated
        <4>3. QED
          BY <1>9, <4>2 DEF ProbeInv, ListingIs
      <3>2. CASE c # d
        BY <1>4, <2>1, <3>2, <1>9 DEF ProbeInv, Probe!VerdictIsTrue, Probe!Checks
      <3>3. QED
        BY <3>1, <3>2
    <2>2. ASSUME NEW c \in Units, verdict'[c] # Unset
          PROVE  \E s \in held[c] : verdict'[c] = Probe!ProbeSystemd(Probe!SystemdCheck, s)
      <3>1. CASE c = d
        <4>1. d \notin Heartbeats /\ d \notin Containers
          BY <3>1 DEF Probe!ProberAssumption
        <4>2. /\ listing["systemd"] # Unset
              /\ verdict'[c] = Probe!ProbeSystemd(Probe!SystemdCheck, listing["systemd"][c])
          BY <1>4, <2>2, <3>1, <4>1 DEF Probe!Evaluated
        <4>3. QED
          BY <1>9, <4>2 DEF ProbeInv, ListingIs
      <3>2. CASE c # d
        BY <1>4, <2>2, <3>2, <1>9 DEF ProbeInv, Probe!VerdictIsTrue, Probe!Checks
      <3>3. QED
        BY <3>1, <3>2
    <2>3. QED
      BY <1>1, <2>1, <2>2 DEF Probe!VerdictIsTrue
  <1>10. QED
    BY <1>6, <1>7, <1>8, <1>9 DEF ProbeInv

LEMMA ProbeKeeps ==
  Probe!ProberAssumption /\ ProbeInv /\ [Probe!Next]_(Probe!vars) => ProbeInv'
  <1> SUFFICES ASSUME Probe!ProberAssumption, ProbeInv, [Probe!Next]_(Probe!vars)
               PROVE  ProbeInv'
    OBVIOUS
  <1>1. CASE Probe!ClockMoves \/ Probe!Reload \/ (\E c \in Heartbeats : Probe!Heartbeat(c))
             \/ UNCHANGED Probe!vars
    BY <1>1, OutsideKeeps
  <1>2. CASE Probe!Changes
    BY <1>2, ChangesKeep
  <1>3. CASE Probe!Restart
    BY <1>3, RestartKeeps
  <1>4. CASE Probe!Tick
    BY <1>4, TickKeeps
  <1>5. CASE Probe!ListDocker \/ Probe!ListSystemd
    BY <1>5, ListKeeps DEF Probe!ListDocker, Probe!ListSystemd, Probe!Sources
  <1>6. ASSUME NEW c \in Probe!Checks, Probe!Evaluate(c) PROVE ProbeInv'
    BY <1>6, EvaluateKeeps
  <1>7. QED
    BY <1>1, <1>2, <1>3, <1>4, <1>5, <1>6 DEF Probe!Next

-----------------------------------------------------------------------------
(* Summary: days and slots.                                                *)

DayAt(z, t) == (t + z) \div SlotsPerDay

Begins(z, d) == d * SlotsPerDay - z

\* A slot is in its day.
LEMMA DayIs ==
  ASSUME Daily!SummaryAssumption, NEW z \in Int, NEW t \in Int
  PROVE  /\ DayAt(z, t) \in Int /\ Begins(z, DayAt(z, t)) \in Int
         /\ Begins(z, DayAt(z, t)) <= t /\ t < Begins(z, DayAt(z, t)) + SlotsPerDay
         /\ (t + z) % SlotsPerDay = t - Begins(z, DayAt(z, t))
  <1> DEFINE s == SlotsPerDay
             u == t + z
             q == u \div s
  <1>1. s \in Nat \ {0} /\ u \in Int
    BY DEF Daily!SummaryAssumption
  <1> HIDE DEF s, u
  <1>2. q \in Int /\ q * s <= u /\ u < q * s + s /\ u % s = u - q * s
    BY <1>1, SMTT(30)
  <1>3. q * s \in Int
    BY <1>1, <1>2
  <1> HIDE DEF q
  <1>4. Begins(z, q) = q * s - z /\ DayAt(z, t) = q
    BY DEF Begins, DayAt, q, s, u
  <1> DEFINE p == q * s
  <1>5. p \in Int /\ p <= t + z /\ t + z < p + s /\ u % s = (t + z) - p /\ Begins(z, q) = p - z
    BY <1>2, <1>3, <1>4 DEF u
  <1> HIDE DEF p
  <1>6. p - z \in Int /\ p - z <= t /\ t < (p - z) + s /\ u % s = t - (p - z)
    BY <1>1, <1>5
  <1>7. QED
    BY <1>2, <1>4, <1>5, <1>6 DEF s, u

\* A later day begins when the earlier one is over.
LEMMA DaysApart ==
  ASSUME Daily!SummaryAssumption, NEW z \in Int, NEW d \in Int, NEW e \in Int
  PROVE  /\ Begins(z, d) \in Int /\ Begins(z, d + 1) = Begins(z, d) + SlotsPerDay
         /\ d < e => Begins(z, d) + SlotsPerDay <= Begins(z, e)
  <1> DEFINE s == SlotsPerDay
  <1>1. s \in Nat \ {0}
    BY DEF Daily!SummaryAssumption
  <1> HIDE DEF s
  <1>2. d * s \in Int /\ (d + 1) * s = d * s + s
    BY <1>1
  <1>3. ASSUME d < e PROVE d * s + s <= e * s
    <2>1. (e - (d + 1)) \in Nat
      BY <1>3
    <2>2. (e - (d + 1)) * s \in Nat
      BY <1>1, <2>1
    <2>3. e * s = d * s + s + (e - (d + 1)) * s
      BY <1>1
    <2>4. QED
      BY <1>1, <1>2, <2>2, <2>3
  <1> DEFINE p == d * s
             q == e * s
  <1>4. e * s \in Int
    BY <1>1
  <1>5. /\ Begins(z, d) = p - z /\ Begins(z, d + 1) = (p + s) - z /\ Begins(z, e) = q - z
        /\ p \in Int /\ q \in Int /\ (d < e => p + s <= q)
    BY <1>2, <1>3, <1>4 DEF Begins, s
  <1> HIDE DEF p, q
  <1>6. QED
    BY <1>1, <1>5 DEF s

\* From one slot to the next the day stays or the next one begins.
LEMMA NextSlot ==
  ASSUME Daily!SummaryAssumption, NEW z \in Int, NEW t \in Int
  PROVE  \/ DayAt(z, t + 1) = DayAt(z, t)
         \/ DayAt(z, t + 1) = DayAt(z, t) + 1 /\ Begins(z, DayAt(z, t) + 1) = t + 1
  <1> DEFINE d == DayAt(z, t)
             e == DayAt(z, t + 1)
             s == SlotsPerDay
  <1>1. /\ d \in Int /\ Begins(z, d) \in Int /\ Begins(z, d) <= t /\ t < Begins(z, d) + s
        /\ e \in Int /\ Begins(z, e) \in Int /\ Begins(z, e) <= t + 1 /\ t + 1 < Begins(z, e) + s
    BY DayIs
  <1>2. s \in Nat \ {0}
    BY DEF Daily!SummaryAssumption
  <1> HIDE DEF d, e
  <1>3. /\ e < d => Begins(z, e) + s <= Begins(z, d)
        /\ d < e => Begins(z, d) + s <= Begins(z, e)
        /\ Begins(z, d + 1) = Begins(z, d) + s
    BY <1>1, DaysApart
  <1>4. d + 1 \in Int /\ (d + 1 < e => Begins(z, d + 1) + s <= Begins(z, e))
    BY <1>1, DaysApart
  <1> DEFINE p == Begins(z, d)
             q == Begins(z, e)
             r == Begins(z, d + 1)
  <1>5. /\ p \in Int /\ q \in Int /\ s \in Nat \ {0}
        /\ p <= t /\ t < p + s /\ q <= t + 1 /\ t + 1 < q + s
        /\ e < d => q + s <= p
        /\ d < e => p + s <= q
        /\ r = p + s /\ (d + 1 < e => r + s <= q)
    BY <1>1, <1>2, <1>3, <1>4
  <1> HIDE DEF p, q, r, s
  <1>6. ~(e < d) /\ ~(d + 1 < e) /\ (d < e => q = t + 1 /\ r = t + 1)
    BY <1>5
  <1>7. e = d \/ (e = d + 1 /\ r = t + 1)
    BY <1>1, <1>6
  <1>8. QED
    BY <1>7 DEF d, e, r

\* A change of the zone by a day at most moves the date by one at most.
LEMMA DayShifts ==
  ASSUME Daily!SummaryAssumption, NEW y \in Int, NEW z \in Int, y - z <= SlotsPerDay, NEW t \in Int
  PROVE  DayAt(y, t) <= DayAt(z, t) + 1
  <1> DEFINE d == DayAt(z, t)
             e == DayAt(y, t)
             s == SlotsPerDay
  <1>1. /\ d \in Int /\ Begins(z, d) \in Int /\ t < Begins(z, d) + s
        /\ e \in Int /\ Begins(y, e) \in Int /\ Begins(y, e) <= t
    BY DayIs
  <1>2. s \in Nat \ {0}
    BY DEF Daily!SummaryAssumption
  <1> HIDE DEF d, e
  <1>3. SUFFICES ASSUME d + 1 < e PROVE FALSE
    BY <1>1 DEF d, e
  <1>4. /\ Begins(y, d + 1) + s <= Begins(y, e) /\ Begins(y, d + 1) = Begins(y, d) + s
        /\ Begins(y, d) \in Int
    BY <1>1, <1>3, DaysApart
  <1>5. Begins(y, d) - Begins(z, d) = z - y
    <2>1. d * s \in Int
      BY <1>1, <1>2
    <2>2. QED
      BY <1>1, <2>1 DEF Begins
  <1>6. QED
    BY <1>1, <1>2, <1>4, <1>5

\* The dates the clock can come to.
LEMMA DayBounds ==
  ASSUME Daily!SummaryAssumption, NEW z \in Zones, NEW t \in 0 .. MaxTime
  PROVE  /\ z \in Int /\ DayAt(z, t) \in Daily!Days /\ DayAt(z, t) \in Int
         /\ Daily!Days \subseteq Int
         /\ -1 <= DayAt(z, 0) /\ DayAt(z, 0) <= 0
  <1> DEFINE s == SlotsPerDay
             m == MaxTime \div s
             d == DayAt(z, t)
             e == DayAt(z, 0)
  <1>1. s \in Nat \ {0} /\ MaxTime \in Nat /\ z \in Int /\ 0 - s < z /\ z < s
    BY DEF Daily!SummaryAssumption
  <1>2. m = DayAt(0, MaxTime)
    BY <1>1 DEF DayAt
  <1>3. /\ m \in Int /\ Begins(0, m) \in Int /\ MaxTime < Begins(0, m) + s
        /\ d \in Int /\ Begins(z, d) \in Int /\ Begins(z, d) <= t /\ t < Begins(z, d) + s
        /\ e \in Int /\ Begins(z, e) \in Int /\ Begins(z, e) <= 0 /\ 0 < Begins(z, e) + s
    <2>1. m \in Int /\ Begins(0, m) \in Int /\ MaxTime < Begins(0, m) + s
      <3>1. 0 \in Int /\ MaxTime \in Int
        BY <1>1
      <3>2. QED
        BY <1>2, <3>1, DayIs
    <2>2. d \in Int /\ Begins(z, d) \in Int /\ Begins(z, d) <= t /\ t < Begins(z, d) + s
      <3>1. z \in Int /\ t \in Int
        BY <1>1
      <3>2. QED
        BY <3>1, DayIs
    <2>3. e \in Int /\ Begins(z, e) \in Int /\ Begins(z, e) <= 0 /\ 0 < Begins(z, e) + s
      <3>1. z \in Int /\ 0 \in Int
        BY <1>1
      <3>2. QED
        BY <3>1, DayIs
    <2>4. QED
      BY <2>1, <2>2, <2>3
  <1> HIDE DEF m, d, e
  <1>4. /\ Begins(z, m + 1) = Begins(z, m) + s /\ Begins(z, m) = Begins(0, m) - z
        /\ Begins(z, 1) = s - z /\ Begins(z, -1) = 0 - s - z
    <2>1. m * s \in Int /\ (m + 1) * s = m * s + s
      BY <1>1, <1>3
    <2>2. QED
      BY <1>1, <1>3, <2>1 DEF Begins
  <1>5. /\ m + 1 < d => Begins(z, m + 1) + s <= Begins(z, d)
        /\ 1 < e => Begins(z, 1) + s <= Begins(z, e)
        /\ e < -1 => Begins(z, e) + s <= Begins(z, -1)
        /\ d < -1 => Begins(z, d) + s <= Begins(z, -1)
    <2>1. m + 1 \in Int /\ 1 \in Int /\ -1 \in Int
      BY <1>3
    <2>2. m + 1 < d => Begins(z, m + 1) + s <= Begins(z, d)
      BY <1>1, <1>3, <2>1, DaysApart
    <2>3. 1 < e => Begins(z, 1) + s <= Begins(z, e)
      BY <1>1, <1>3, <2>1, DaysApart
    <2>4. /\ e < -1 => Begins(z, e) + s <= Begins(z, -1)
          /\ d < -1 => Begins(z, d) + s <= Begins(z, -1)
      BY <1>1, <1>3, <2>1, DaysApart
    <2>5. QED
      BY <2>2, <2>3, <2>4
  <1>6. t \in Int /\ 0 <= t /\ t <= MaxTime
    BY <1>1
  <1> HIDE DEF s
  <1>7. ~(m + 1 < d)
    BY <1>1, <1>3, <1>4, <1>5, <1>6
  <1>8. -1 <= d /\ -1 <= e
    BY <1>1, <1>3, <1>4, <1>5, <1>6
  <1>9. e <= 0
    <2>1. e # 1
      BY <1>1, <1>3, <1>4
    <2>2. ~(1 < e)
      BY <1>1, <1>3, <1>4, <1>5
    <2>3. QED
      BY <1>3, <2>1, <2>2
  <1>10. Daily!Days = -1 .. m + 1
    BY DEF Daily!Days, m, s
  <1>11. QED
    BY <1>1, <1>3, <1>7, <1>8, <1>9, <1>10 DEF d, e

-----------------------------------------------------------------------------
(* Summary: every day is told.                                             *)

Larger(a, b) == IF a >= b THEN a ELSE b

\* What restarts and failing calls cost: a late sleep or send, and a sleep.
Restarts(n) == n * (2 * MaxLate + 1)

\* When the loop looks at the latest, with a time to send at and n faults.
LatestAt(z, time, n, d) == Begins(z, d) + Larger(time, MaxLate) + Restarts(n)

\* The times leave room before midnight for the faults, and zones are a day
\* apart at most.
EnoughTime ==
  /\ \A time \in Times : Larger(time, MaxLate) + Restarts(MaxFaults) + MaxLate < SlotsPerDay
  /\ \A y, z \in Zones : y - z <= SlotsPerDay

LEMMA LatestIs ==
  ASSUME Daily!SummaryAssumption, EnoughTime, NEW z \in Zones, NEW time \in Times,
         NEW n \in 0 .. MaxFaults, NEW d \in Int
  PROVE  /\ Begins(z, d) \in Int /\ LatestAt(z, time, n, d) \in Int /\ time \in Nat
         /\ LatestAt(z, time, n, d) >= Begins(z, d) + time
         /\ LatestAt(z, time, n, d) >= Begins(z, d) + MaxLate
         /\ LatestAt(z, time, n, d) + MaxLate < Begins(z, d) + SlotsPerDay
         /\ LatestAt(z, time, n + 1, d) = LatestAt(z, time, n, d) + 2 * MaxLate + 1
  <1> DEFINE b == Begins(z, d)
             g == Larger(time, MaxLate)
             c == 2 * MaxLate + 1
  <1>1. b \in Int
    BY DaysApart DEF Daily!SummaryAssumption
  <1>2. time \in Nat /\ MaxLate \in Nat /\ c \in Nat /\ MaxFaults \in Nat /\ n \in Nat /\ SlotsPerDay \in Nat
    BY DEF Daily!SummaryAssumption
  <1>3. g \in Nat /\ g >= time /\ g >= MaxLate
    BY <1>2 DEF Larger
  <1>4. g + MaxFaults * c + MaxLate < SlotsPerDay
    BY DEF EnoughTime, Restarts
  <1> HIDE DEF c, g, b
  <1>5. n * c \in Nat /\ MaxFaults * c \in Nat /\ (n + 1) * c = n * c + c
    BY <1>2
  <1>6. n * c <= MaxFaults * c
    <2>1. MaxFaults - n \in Nat
      BY <1>2
    <2>2. (MaxFaults - n) * c \in Nat
      BY <1>2, <2>1
    <2>3. MaxFaults * c = n * c + (MaxFaults - n) * c
      BY <1>2
    <2>4. QED
      BY <1>5, <2>2, <2>3
  <1> DEFINE p == n * c
             q == MaxFaults * c
             r == (n + 1) * c
  <1>7. /\ p \in Nat /\ q \in Nat /\ p <= q /\ r = p + c /\ g + q + MaxLate < SlotsPerDay
        /\ LatestAt(z, time, n, d) = b + g + p /\ LatestAt(z, time, n + 1, d) = b + g + r
    BY <1>4, <1>5, <1>6 DEF LatestAt, Restarts, b, g, c
  <1> HIDE DEF p, q, r
  <1>8. /\ b + g + p \in Int /\ b + g + p >= b + time /\ b + g + p >= b + MaxLate
        /\ b + g + p + MaxLate < b + SlotsPerDay /\ b + g + r = b + g + p + c
    BY <1>1, <1>2, <1>3, <1>7
  <1>9. b + g + p + c = b + g + p + 2 * MaxLate + 1
    BY <1>1, <1>2, <1>3, <1>7 DEF c
  <1>10. QED
    BY <1>1, <1>2, <1>7, <1>8, <1>9 DEF b

SummaryTypes ==
  /\ now \in 0 .. MaxTime /\ cfg \in Daily!Configs /\ step \in {"asleep", "sending", "storing"}
  /\ until \in Nat /\ now <= until + MaxLate
  /\ until <= IF step = "asleep" THEN now + 1 ELSE now
  /\ date \in Daily!Days \cup {Never} /\ (date = Never <=> step = "asleep")
  /\ lastSummary \in Daily!Days \cup {Never}
  /\ sent \in [Daily!Days -> Nat]
  /\ faults \in 0 .. MaxFaults
  /\ lastSummary # Never => sent[lastSummary] >= 1
  /\ step = "storing" => sent[date] >= 1

\* A day that had a summary due all along and none yet.
Untold(d) == d >= 0 /\ d \notin disturbed /\ sent[d] = 0

\* While today's is to come the loop looks, or is done with another, in time.
TodayComes(d) ==
  /\ cfg.time # Never
  /\ step = "asleep" => until <= LatestAt(cfg.zone, cfg.time, faults, d)
  /\ step # "asleep" /\ date = d => until <= LatestAt(cfg.zone, cfg.time, faults, d) + MaxLate
  /\ step # "asleep" /\ date # d => until < Begins(cfg.zone, d)

\* A day goes by untold only while its summary is on its way, and then nothing
\* can fail any more.
ToldInv ==
  \A d \in Daily!Days :
    /\ d = Daily!Day(now) /\ Untold(d) => TodayComes(d)
    /\ d < Daily!Day(now) /\ Untold(d) => date = d /\ faults = MaxFaults

DayInv == SummaryTypes /\ ToldInv

\* What is known of the slot it is.
LEMMA TodayIs ==
  ASSUME Daily!SummaryAssumption, SummaryTypes
  PROVE  /\ Daily!Day(now) = DayAt(cfg.zone, now) /\ Daily!Day(now) \in Daily!Days
         /\ Daily!Days \subseteq Int /\ Never \notin Daily!Days
         /\ cfg.zone \in Zones /\ cfg.zone \in Int
         /\ now \in Nat /\ until \in Nat /\ MaxLate \in Nat /\ SlotsPerDay \in Nat \ {0}
         /\ cfg.time # Never => cfg.time \in Times
         /\ Daily!TimeOfDay(now) = now - Begins(cfg.zone, Daily!Day(now))
  <1>1. cfg.zone \in Zones /\ (cfg.time # Never => cfg.time \in Times)
    BY DEF SummaryTypes, Daily!Configs
  <1>2. Daily!Day(now) = DayAt(cfg.zone, now)
    BY DEF Daily!Day, DayAt
  <1>3. now \in 0 .. MaxTime /\ now \in Nat /\ until \in Nat /\ MaxLate \in Nat /\ SlotsPerDay \in Nat \ {0}
    BY DEF SummaryTypes, Daily!SummaryAssumption
  <1>4. cfg.zone \in Int /\ DayAt(cfg.zone, now) \in Daily!Days /\ Daily!Days \subseteq Int
    BY <1>1, <1>3, DayBounds, Zenon
  <1>5. Daily!TimeOfDay(now) = now - Begins(cfg.zone, DayAt(cfg.zone, now))
    <2>1. now \in Int
      BY <1>3
    <2>2. (now + cfg.zone) % SlotsPerDay = now - Begins(cfg.zone, DayAt(cfg.zone, now))
      BY <1>4, <2>1, DayIs, Zenon
    <2>3. QED
      BY <2>2 DEF Daily!TimeOfDay
  <1>6. QED
    BY <1>1, <1>2, <1>3, <1>4, <1>5 DEF Daily!SummaryAssumption

LEMMA DayStarts ==
  ASSUME Daily!SummaryAssumption, Daily!Init
  PROVE  DayInv
  <1>1. /\ now = 0 /\ cfg \in Daily!Configs /\ step = "asleep" /\ until = 1 /\ date = Never
        /\ lastSummary = Never /\ sent = [d \in Daily!Days |-> 0] /\ disturbed = {Daily!Day(0)}
        /\ faults = 0 /\ MaxTime \in Nat /\ MaxLate \in Nat /\ MaxFaults \in Nat
    BY DEF Daily!Init, Daily!SummaryAssumption
  <1>2. SummaryTypes
    BY <1>1 DEF SummaryTypes
  <1>3. Daily!Day(now) <= 0 /\ Daily!Days \subseteq Int /\ Daily!Day(now) \in Int
    <2>1. cfg.zone \in Zones /\ 0 \in 0 .. MaxTime
      BY <1>1 DEF Daily!Configs
    <2>2. DayAt(cfg.zone, 0) <= 0
      BY <2>1, DayBounds
    <2>3. QED
      BY <1>1, <1>2, <2>2, TodayIs
  <1>4. ToldInv
    BY <1>1, <1>3 DEF ToldInv, Untold
  <1>5. QED
    BY <1>2, <1>4 DEF DayInv

LEMMA ClockKeepsDay ==
  ASSUME Daily!SummaryAssumption, EnoughTime, DayInv, Daily!ClockMoves
  PROVE  DayInv'
  <1> DEFINE z == cfg.zone
             d0 == Daily!Day(now)
  <1>1. /\ now < MaxTime /\ now < until + MaxLate /\ now' = now + 1
        /\ disturbed \subseteq disturbed' /\ (cfg.time = Never => Daily!Day(now)' \in disturbed')
        /\ UNCHANGED <<cfg, step, until, date, lastSummary, sent, faults>>
    BY DEF Daily!ClockMoves, Daily!Day
  <1>2. SummaryTypes /\ ToldInv
    BY DEF DayInv
  <1>3. MaxTime \in Nat /\ MaxLate \in Nat /\ MaxFaults \in Nat /\ SlotsPerDay \in Nat \ {0}
    BY DEF Daily!SummaryAssumption
  <1>4. SummaryTypes'
    BY <1>1, <1>2, <1>3 DEF SummaryTypes, Daily!Days, Daily!Configs
  <1>5. /\ d0 = DayAt(z, now) /\ d0 \in Int /\ d0 \in Daily!Days /\ z \in Int /\ z \in Zones
        /\ now \in Nat /\ until \in Nat /\ Daily!Days \subseteq Int /\ Never \notin Daily!Days
        /\ (cfg.time # Never => cfg.time \in Times) /\ faults \in 0 .. MaxFaults /\ faults \in Nat
    BY <1>2, TodayIs DEF SummaryTypes
  <1>6. Daily!Day(now)' = DayAt(z, now + 1)
    BY <1>1 DEF Daily!Day, DayAt
  <1>7. \/ Daily!Day(now)' = d0
        \/ Daily!Day(now)' = d0 + 1 /\ Begins(z, d0 + 1) = now + 1 /\ Begins(z, d0) + SlotsPerDay = now + 1
    <2>1. Begins(z, d0 + 1) = Begins(z, d0) + SlotsPerDay
      BY <1>5, DaysApart
    <2>2. QED
      BY <1>5, <1>6, <2>1, NextSlot
  <1> HIDE DEF d0, z
  <1>8. ASSUME NEW d \in Daily!Days, d = Daily!Day(now)', Untold(d)' PROVE TodayComes(d)'
    <2>1. cfg.time # Never /\ Untold(d)
      BY <1>1, <1>8 DEF Untold
    <2>2. CASE d = d0
      BY <1>1, <1>2, <2>1, <2>2 DEF ToldInv, TodayComes, d0
    <2>3. CASE d # d0
      <3>1. Begins(z, d) = now + 1
        BY <1>7, <1>8, <2>3
      <3>2. LatestAt(z, cfg.time, faults, d) \in Int /\ LatestAt(z, cfg.time, faults, d) >= now + 1 + MaxLate
        BY <1>5, <2>1, <3>1, LatestIs
      <3>3. until <= now + 1 /\ (step # "asleep" => until <= now)
        BY <1>2, <1>5 DEF SummaryTypes
      <3>4. until <= LatestAt(z, cfg.time, faults, d) /\ until <= LatestAt(z, cfg.time, faults, d) + MaxLate
        BY <1>3, <1>5, <3>2, <3>3
      <3>5. step # "asleep" => until < Begins(z, d)
        BY <1>5, <3>1, <3>3
      <3>6. QED
        BY <1>1, <2>1, <3>4, <3>5 DEF TodayComes, z
    <2>4. QED
      BY <2>2, <2>3
  <1>9. ASSUME NEW d \in Daily!Days, d < Daily!Day(now)', Untold(d)' PROVE date' = d /\ faults' = MaxFaults
    <2>1. Untold(d) /\ d \in Int
      BY <1>1, <1>5, <1>9 DEF Untold
    <2>2. CASE d < d0
      BY <1>1, <1>2, <2>1, <2>2 DEF ToldInv, d0
    <2>3. CASE ~(d < d0)
      <3>1. d = d0 /\ Begins(z, d) + SlotsPerDay = now + 1
        BY <1>5, <1>7, <1>9, <2>1, <2>3
      <3>2. TodayComes(d) /\ cfg.time \in Times
        BY <1>2, <1>5, <2>1, <3>1 DEF ToldInv, d0, TodayComes
      <3> DEFINE latest == LatestAt(z, cfg.time, faults, d)
                 b == Begins(z, d)
      <3>3. /\ b \in Int /\ latest \in Int /\ latest >= b + MaxLate /\ latest + MaxLate < b + SlotsPerDay
        BY <1>5, <2>1, <3>2, LatestIs
      <3>4. faults # MaxFaults => latest + 2 * MaxLate + 1 + MaxLate < b + SlotsPerDay
        <4>1. SUFFICES ASSUME faults # MaxFaults PROVE latest + 2 * MaxLate + 1 + MaxLate < b + SlotsPerDay
          OBVIOUS
        <4>2. faults + 1 \in 0 .. MaxFaults
          BY <1>3, <1>5, <4>1
        <4>3. LatestAt(z, cfg.time, faults + 1, d) + MaxLate < b + SlotsPerDay
          BY <1>5, <2>1, <3>2, <4>2, LatestIs
        <4>4. LatestAt(z, cfg.time, faults + 1, d) = latest + 2 * MaxLate + 1
          BY <1>5, <2>1, <3>2, LatestIs
        <4>5. QED
          BY <4>3, <4>4
      <3>5. /\ step = "asleep" => until <= latest
            /\ step # "asleep" /\ date = d => until <= latest + MaxLate
            /\ step # "asleep" /\ date # d => until < b
        BY <3>2 DEF TodayComes, z
      <3>6. b + SlotsPerDay = now + 1
        BY <3>1
      <3> HIDE DEF latest, b
      <3>7. step # "asleep" /\ date = d /\ faults = MaxFaults
        BY <1>1, <1>3, <1>5, <3>3, <3>4, <3>5, <3>6
      <3>8. QED
        BY <1>1, <3>7
    <2>4. QED
      BY <2>2, <2>3
  <1>10. ToldInv'
    BY <1>8, <1>9 DEF ToldInv, Daily!Days
  <1>11. QED
    BY <1>4, <1>10 DEF DayInv

\* The date and the zone it goes by stay.
LEMMA SameDay ==
  ASSUME Daily!SummaryAssumption, SummaryTypes, now' = now, cfg' = cfg
  PROVE  Daily!Day(now)' = Daily!Day(now) /\ Daily!Days' = Daily!Days
  BY DEF Daily!Day, Daily!Days

\* What a day still to be told says of the steps left.
LEMMA RoomToday ==
  ASSUME Daily!SummaryAssumption, EnoughTime, SummaryTypes, NEW d \in Int, TodayComes(d)
  PROVE  LET latest(n) == LatestAt(cfg.zone, cfg.time, n, d)
         IN /\ latest(faults) \in Int /\ Begins(cfg.zone, d) \in Int /\ cfg.time \in Nat
            /\ latest(faults) >= Begins(cfg.zone, d) + cfg.time
            /\ latest(faults) >= Begins(cfg.zone, d) + MaxLate
            /\ latest(faults + 1) = latest(faults) + 2 * MaxLate + 1
  <1>1. cfg.time \in Times /\ cfg.zone \in Zones /\ faults \in 0 .. MaxFaults
    BY TodayIs DEF TodayComes, SummaryTypes
  <1>2. QED
    BY <1>1, LatestIs

\* The loop goes back to sleep: it told no day of before, and today's comes.
LEMMA SleepKeepsDay ==
  ASSUME Daily!SummaryAssumption, EnoughTime, DayInv, SummaryTypes', now' = now, cfg' = cfg,
         Daily!Sleep, UNCHANGED <<sent, disturbed>>, faults' \in {faults, faults + 1},
         \A d \in Daily!Days : d < Daily!Day(now) => ~Untold(d) \/ faults' # faults,
         \A d \in Daily!Days : d = Daily!Day(now) /\ Untold(d) /\ TodayComes(d) =>
           now + 1 <= LatestAt(cfg.zone, cfg.time, faults', d)
  PROVE  DayInv'
  <1>1. SummaryTypes /\ ToldInv
    BY DEF DayInv
  <1>2. Daily!Day(now)' = Daily!Day(now) /\ Daily!Days' = Daily!Days
    BY <1>1, SameDay
  <1>3. step' = "asleep" /\ until' = now + 1 /\ date' = Never
    BY DEF Daily!Sleep
  <1>4. ASSUME NEW d \in Daily!Days, d = Daily!Day(now), Untold(d)' PROVE TodayComes(d)'
    <2>1. Untold(d)
      BY <1>4 DEF Untold
    <2>2. TodayComes(d)
      BY <1>1, <1>4, <2>1 DEF ToldInv
    <2>3. now + 1 <= LatestAt(cfg.zone, cfg.time, faults', d)
      BY <1>4, <2>1, <2>2
    <2>4. QED
      BY <1>3, <2>2, <2>3 DEF TodayComes
  <1>5. ASSUME NEW d \in Daily!Days, d < Daily!Day(now), Untold(d)' PROVE FALSE
    <2>1. Untold(d)
      BY <1>5 DEF Untold
    <2>2. faults' # faults /\ faults = MaxFaults
      BY <1>1, <1>5, <2>1 DEF ToldInv
    <2>3. faults' = MaxFaults + 1 /\ faults' \in 0 .. MaxFaults /\ MaxFaults \in Nat
      BY <2>2 DEF SummaryTypes, Daily!SummaryAssumption
    <2>4. QED
      BY <2>3
  <1>6. ToldInv'
    BY <1>2, <1>4, <1>5 DEF ToldInv
  <1>7. QED
    BY <1>6 DEF DayInv

LEMMA ReloadKeepsDay ==
  ASSUME Daily!SummaryAssumption, EnoughTime, DayInv, Daily!Reload
  PROVE  DayInv'
  <1>1. /\ cfg' \in Daily!Configs /\ now' = now
        /\ disturbed' = disturbed \cup {Daily!Day(now), Daily!Day(now)'}
        /\ UNCHANGED <<step, until, date, lastSummary, sent, faults>>
    BY DEF Daily!Reload
  <1>2. SummaryTypes /\ ToldInv
    BY DEF DayInv
  <1>3. SummaryTypes'
    BY <1>1, <1>2 DEF SummaryTypes, Daily!Days, Daily!Configs
  <1>4. Daily!Day(now)' <= Daily!Day(now) + 1 /\ Daily!Day(now)' \in Int
    <2>1. /\ cfg.zone \in Zones /\ cfg.zone \in Int /\ cfg'.zone \in Zones /\ now \in Int
          /\ Daily!Day(now) = DayAt(cfg.zone, now) /\ Daily!Day(now)' = DayAt(cfg'.zone, now)
      BY <1>1, <1>2, TodayIs DEF Daily!Configs, Daily!Day, DayAt
    <2>2. cfg'.zone - cfg.zone <= SlotsPerDay /\ cfg'.zone \in Int
      <3>1. \A y, z \in Zones : y - z <= SlotsPerDay /\ y \in Int
        BY DEF EnoughTime, Daily!SummaryAssumption
      <3>2. QED
        BY <2>1, <3>1
    <2>3. DayAt(cfg'.zone, now) <= DayAt(cfg.zone, now) + 1
      BY <2>1, <2>2, DayShifts, Zenon
    <2>4. DayAt(cfg'.zone, now) \in Int
      BY <2>1, <2>2, DayIs, Zenon
    <2>5. QED
      BY <2>1, <2>3, <2>4
  <1>5. Daily!Days' = Daily!Days /\ Daily!Days \subseteq Int /\ Daily!Day(now) \in Int
    BY <1>2, TodayIs DEF Daily!Days
  <1>6. ASSUME NEW d \in Daily!Days, Untold(d)'
        PROVE  d # Daily!Day(now) /\ d # Daily!Day(now)' /\ Untold(d)
    BY <1>1, <1>6 DEF Untold
  <1>7. ASSUME NEW d \in Daily!Days, d < Daily!Day(now)', Untold(d)' PROVE date' = d /\ faults' = MaxFaults
    <2>1. d < Daily!Day(now)
      BY <1>4, <1>5, <1>6, <1>7
    <2>2. QED
      BY <1>1, <1>2, <1>6, <1>7, <2>1 DEF ToldInv
  <1>8. ToldInv'
    BY <1>5, <1>6, <1>7 DEF ToldInv
  <1>9. QED
    BY <1>3, <1>8 DEF DayInv

LEMMA WakeKeepsDay ==
  ASSUME Daily!SummaryAssumption, EnoughTime, DayInv, Daily!Wake
  PROVE  DayInv'
  <1> DEFINE d0 == Daily!Day(now)
  <1>1. PICK read \in BOOLEAN :
          /\ read \/ (faults < MaxFaults /\ lastSummary # Never)
          /\ faults' = IF read THEN faults ELSE faults + 1
          /\ IF cfg.time # Never /\ Daily!ShouldSend(IF read THEN lastSummary ELSE Never)
             THEN step' = "sending" /\ until' = now /\ date' = Daily!Day(now)
             ELSE Daily!Sleep
    BY DEF Daily!Wake
  <1>2. /\ step = "asleep" /\ now >= until
        /\ UNCHANGED <<now, cfg, lastSummary, sent, disturbed>>
    BY DEF Daily!Wake
  <1>3. SummaryTypes /\ ToldInv
    BY DEF DayInv
  <1>4. /\ now \in 0 .. MaxTime /\ now \in Nat /\ until \in Nat /\ MaxLate \in Nat /\ MaxFaults \in Nat
        /\ now <= until + MaxLate /\ faults \in 0 .. MaxFaults /\ date = Never
        /\ d0 \in Daily!Days /\ d0 \in Int /\ Never \notin Daily!Days
    BY <1>2, <1>3, TodayIs DEF SummaryTypes, Daily!SummaryAssumption
  <1>5. faults' \in 0 .. MaxFaults /\ faults' \in {faults, faults + 1}
    BY <1>1, <1>4
  <1>6. Daily!Day(now)' = d0 /\ Daily!Days' = Daily!Days
    BY <1>2, <1>3, SameDay
  <1> HIDE DEF d0
  <1>7. \A d \in Daily!Days : d < d0 => ~Untold(d)
    BY <1>3, <1>4 DEF ToldInv, d0
  <1>8. CASE cfg.time # Never /\ Daily!ShouldSend(IF read THEN lastSummary ELSE Never)
    <2>1. step' = "sending" /\ until' = now /\ date' = d0
      BY <1>1, <1>8 DEF d0
    <2>2. SummaryTypes'
      BY <1>2, <1>3, <1>4, <1>5, <1>6, <2>1 DEF SummaryTypes, Daily!Configs
    <2>3. ASSUME NEW d \in Daily!Days, d = d0, Untold(d)' PROVE TodayComes(d)'
      <3>1. TodayComes(d) /\ d \in Int
        BY <1>2, <1>3, <1>4, <2>3 DEF ToldInv, Untold, d0
      <3> DEFINE latest(n) == LatestAt(cfg.zone, cfg.time, n, d)
      <3>2. latest(faults) \in Int /\ latest(faults + 1) = latest(faults) + 2 * MaxLate + 1
        BY <1>3, <3>1, RoomToday
      <3>3. until <= latest(faults)
        BY <1>2, <3>1 DEF TodayComes
      <3> HIDE DEF latest
      <3>4. now <= latest(faults') + MaxLate
        BY <1>4, <1>5, <3>2, <3>3
      <3>5. QED
        BY <1>2, <2>1, <2>3, <3>1, <3>4 DEF TodayComes, latest
    <2>4. ASSUME NEW d \in Daily!Days, d < d0, Untold(d)' PROVE FALSE
      BY <1>2, <1>7, <2>4 DEF Untold
    <2>5. ToldInv'
      BY <1>6, <2>3, <2>4 DEF ToldInv
    <2>6. QED
      BY <2>2, <2>5 DEF DayInv
  <1>9. CASE ~(cfg.time # Never /\ Daily!ShouldSend(IF read THEN lastSummary ELSE Never))
    <2>1. Daily!Sleep /\ step' = "asleep" /\ until' = now + 1 /\ date' = Never
      BY <1>1, <1>9 DEF Daily!Sleep
    <2>2. SummaryTypes'
      BY <1>2, <1>3, <1>4, <1>5, <1>6, <2>1 DEF SummaryTypes, Daily!Configs
    <2>3. ASSUME NEW d \in Daily!Days, d = d0, Untold(d), TodayComes(d)
          PROVE  now + 1 <= LatestAt(cfg.zone, cfg.time, faults', d)
      <3> DEFINE latest(n) == LatestAt(cfg.zone, cfg.time, n, d)
                 b == Begins(cfg.zone, d)
      <3>1. /\ latest(faults) \in Int /\ latest(faults + 1) = latest(faults) + 2 * MaxLate + 1
            /\ latest(faults) >= b + cfg.time /\ b \in Int /\ cfg.time \in Nat
        BY <1>3, <1>4, <2>3, RoomToday
      <3>2. lastSummary # d /\ Never # d
        BY <1>3, <1>4, <2>3 DEF Untold, SummaryTypes
      <3>3. ~(Daily!TimeOfDay(now) >= cfg.time)
        BY <1>9, <2>3, <3>2 DEF Daily!ShouldSend, TodayComes, d0
      <3>4. Daily!TimeOfDay(now) = now - b
        BY <1>3, <2>3, TodayIs DEF d0
      <3> HIDE DEF latest, b
      <3>5. now + 1 <= b + cfg.time
        BY <1>4, <3>1, <3>3, <3>4
      <3>6. now + 1 <= latest(faults')
        BY <1>4, <1>5, <3>1, <3>5
      <3>7. QED
        BY <3>6 DEF latest
    <2>4. QED
      BY <1>2, <1>5, <1>7, <2>1, <2>2, <2>3, SleepKeepsDay DEF d0
  <1>10. QED
    BY <1>8, <1>9

LEMMA SendKeepsDay ==
  ASSUME Daily!SummaryAssumption, DayInv, Daily!Send
  PROVE  DayInv'
  <1>1. /\ step = "sending" /\ sent' = [sent EXCEPT ![date] = @ + 1] /\ step' = "storing"
        /\ UNCHANGED <<now, cfg, until, date, lastSummary, disturbed, faults>>
    BY DEF Daily!Send
  <1>2. SummaryTypes /\ ToldInv
    BY DEF DayInv
  <1>3. date \in Daily!Days /\ sent[date] \in Nat /\ Daily!Days \subseteq Int /\ Never \notin Daily!Days
    BY <1>1, <1>2, TodayIs DEF SummaryTypes
  <1>4. /\ sent' \in [Daily!Days -> Nat] /\ sent'[date] >= 1
        /\ \A d \in Daily!Days : d # date => sent'[d] = sent[d]
        /\ \A d \in Daily!Days : sent'[d] \in Nat /\ sent'[d] >= sent[d] /\ sent[d] \in Nat
    BY <1>1, <1>2, <1>3 DEF SummaryTypes
  <1>5. Daily!Day(now)' = Daily!Day(now) /\ Daily!Days' = Daily!Days
    BY <1>1, <1>2, SameDay
  <1>6. SummaryTypes'
    <2>1. lastSummary' # Never => sent'[lastSummary'] >= 1
      BY <1>1, <1>2, <1>4 DEF SummaryTypes
    <2>2. QED
      BY <1>1, <1>2, <1>3, <1>4, <1>5, <2>1 DEF SummaryTypes, Daily!Configs
  <1>7. ASSUME NEW d \in Daily!Days, Untold(d)' PROVE Untold(d) /\ d # date
    BY <1>1, <1>4, <1>7 DEF Untold
  <1>8. ASSUME NEW d \in Daily!Days, d = Daily!Day(now), Untold(d)' PROVE TodayComes(d)'
    <2>1. TodayComes(d)
      BY <1>2, <1>7, <1>8 DEF ToldInv
    <2>2. QED
      BY <1>1, <1>7, <1>8, <2>1 DEF TodayComes
  <1>9. ASSUME NEW d \in Daily!Days, d < Daily!Day(now), Untold(d)' PROVE FALSE
    BY <1>2, <1>7, <1>9 DEF ToldInv
  <1>10. ToldInv'
    BY <1>5, <1>8, <1>9 DEF ToldInv
  <1>11. QED
    BY <1>6, <1>10 DEF DayInv

LEMMA StoreKeepsDay ==
  ASSUME Daily!SummaryAssumption, EnoughTime, DayInv, Daily!Store
  PROVE  DayInv'
  <1>1. /\ step = "storing" /\ Daily!Sleep
        /\ \/ lastSummary' = date /\ faults' = faults
           \/ faults < MaxFaults /\ faults' = faults + 1 /\ lastSummary' = lastSummary
        /\ UNCHANGED <<now, cfg, sent, disturbed>>
    BY DEF Daily!Store, Daily!StoredDay
  <1>2. SummaryTypes /\ ToldInv
    BY DEF DayInv
  <1>3. /\ date \in Daily!Days /\ sent[date] >= 1 /\ Never \notin Daily!Days /\ Daily!Days \subseteq Int
        /\ now \in Nat /\ until \in Nat /\ MaxLate \in Nat /\ MaxFaults \in Nat
        /\ now <= until + MaxLate /\ faults \in 0 .. MaxFaults
    BY <1>1, <1>2, TodayIs DEF SummaryTypes, Daily!SummaryAssumption
  <1>4. step' = "asleep" /\ until' = now + 1 /\ date' = Never
    BY <1>1 DEF Daily!Sleep
  <1>5. faults' \in 0 .. MaxFaults /\ faults' \in {faults, faults + 1}
    BY <1>1, <1>3
  <1>6. Daily!Day(now)' = Daily!Day(now) /\ Daily!Days' = Daily!Days
    BY <1>1, <1>2, SameDay
  <1>7. SummaryTypes'
    <2>1. lastSummary' \in Daily!Days \cup {Never} /\ (lastSummary' # Never => sent'[lastSummary'] >= 1)
      BY <1>1, <1>2, <1>3 DEF SummaryTypes
    <2>2. QED
      BY <1>1, <1>2, <1>3, <1>4, <1>5, <1>6, <2>1 DEF SummaryTypes, Daily!Configs
  <1>8. \A d \in Daily!Days : Untold(d) => d # date
    BY <1>3 DEF Untold
  <1>9. \A d \in Daily!Days : d < Daily!Day(now) => ~Untold(d)
    BY <1>2, <1>8 DEF ToldInv
  <1>10. ASSUME NEW d \in Daily!Days, Untold(d), TodayComes(d)
         PROVE  now + 1 <= LatestAt(cfg.zone, cfg.time, faults', d)
    <2> DEFINE latest(n) == LatestAt(cfg.zone, cfg.time, n, d)
               b == Begins(cfg.zone, d)
    <2>1. /\ latest(faults) \in Int /\ latest(faults + 1) = latest(faults) + 2 * MaxLate + 1
          /\ latest(faults) >= b + MaxLate /\ b \in Int
      BY <1>2, <1>3, <1>10, RoomToday
    <2>2. until < b
      BY <1>1, <1>8, <1>10 DEF TodayComes
    <2> HIDE DEF latest, b
    <2>3. now + 1 <= latest(faults)
      BY <1>3, <2>1, <2>2
    <2>4. now + 1 <= latest(faults')
      BY <1>3, <1>5, <2>1, <2>3
    <2>5. QED
      BY <2>4 DEF latest
  <1>11. QED
    BY <1>1, <1>5, <1>7, <1>9, <1>10, SleepKeepsDay

LEMMA RestartKeepsDay ==
  ASSUME Daily!SummaryAssumption, EnoughTime, DayInv, Daily!Restart
  PROVE  DayInv'
  <1>1. /\ faults < MaxFaults /\ faults' = faults + 1 /\ Daily!Sleep
        /\ UNCHANGED <<now, cfg, lastSummary, sent, disturbed>>
    BY DEF Daily!Restart
  <1>2. SummaryTypes /\ ToldInv
    BY DEF DayInv
  <1>3. /\ Never \notin Daily!Days /\ Daily!Days \subseteq Int
        /\ now \in Nat /\ until \in Nat /\ MaxLate \in Nat /\ MaxFaults \in Nat
        /\ now <= until + MaxLate /\ faults \in 0 .. MaxFaults
    BY <1>2, TodayIs DEF SummaryTypes, Daily!SummaryAssumption
  <1>4. step' = "asleep" /\ until' = now + 1 /\ date' = Never
    BY <1>1 DEF Daily!Sleep
  <1>5. faults' \in 0 .. MaxFaults /\ faults' # faults
    BY <1>1, <1>3
  <1>6. Daily!Day(now)' = Daily!Day(now) /\ Daily!Days' = Daily!Days
    BY <1>1, <1>2, SameDay
  <1>7. SummaryTypes'
    BY <1>1, <1>2, <1>3, <1>4, <1>5, <1>6 DEF SummaryTypes, Daily!Configs
  <1>8. ASSUME NEW d \in Daily!Days, TodayComes(d)
        PROVE  now + 1 <= LatestAt(cfg.zone, cfg.time, faults', d)
    <2> DEFINE latest(n) == LatestAt(cfg.zone, cfg.time, n, d)
               b == Begins(cfg.zone, d)
    <2>1. /\ latest(faults) \in Int /\ latest(faults') = latest(faults) + 2 * MaxLate + 1
          /\ latest(faults) >= b + MaxLate /\ b \in Int
      BY <1>1, <1>2, <1>3, <1>8, RoomToday
    <2>2. \/ until <= latest(faults)
          \/ until <= latest(faults) + MaxLate
          \/ until < b
      BY <1>8 DEF TodayComes
    <2> HIDE DEF latest, b
    <2>3. now + 1 <= latest(faults')
      BY <1>3, <2>1, <2>2
    <2>4. QED
      BY <2>3 DEF latest
  <1>9. QED
    BY <1>1, <1>5, <1>7, <1>8, SleepKeepsDay

LEMMA DayKeeps ==
  Daily!SummaryAssumption /\ EnoughTime /\ DayInv /\ [Daily!Next]_(Daily!vars) => DayInv'
  <1> SUFFICES ASSUME Daily!SummaryAssumption, EnoughTime, DayInv, [Daily!Next]_(Daily!vars)
               PROVE  DayInv'
    OBVIOUS
  <1>1. CASE UNCHANGED Daily!vars
    BY <1>1 DEF Daily!vars, DayInv, SummaryTypes, ToldInv, Untold, TodayComes, Daily!Day,
         Daily!Days, Daily!Configs
  <1>2. QED
    BY <1>1, ClockKeepsDay, ReloadKeepsDay, WakeKeepsDay, SendKeepsDay, StoreKeepsDay,
       RestartKeepsDay DEF Daily!Next

-----------------------------------------------------------------------------
(* Summary: no day is told too often.                                      *)

\* The date moves on only.
OneZone == \A y, z \in Zones : y = z

\* A day to come has nothing of it; a summary on its way, or one that today's
\* date and the stored day would not stop, leaves room for one more.
DayNotOften(d) ==
  /\ sent[d] <= 1 + faults
  /\ d > Daily!Day(now) => sent[d] = 0 /\ date # d /\ lastSummary # d
  /\ step = "sending" /\ date = d => sent[d] <= faults
  /\ d = Daily!Day(now) /\ date # d /\ lastSummary # d => sent[d] <= faults

OftenInv ==
  /\ SummaryTypes
  /\ \A d \in Daily!Days : DayNotOften(d)
  /\ step # "asleep" /\ lastSummary # Never => lastSummary <= date

\* Of SummaryTypes nothing needs EnoughTime.
LEMMA SummaryTypesKept ==
  ASSUME Daily!SummaryAssumption, SummaryTypes, [Daily!Next]_(Daily!vars)
  PROVE  SummaryTypes'
  <1>1. /\ MaxTime \in Nat /\ MaxLate \in Nat /\ MaxFaults \in Nat /\ now \in Nat /\ until \in Nat
        /\ Daily!Day(now) \in Daily!Days /\ Never \notin Daily!Days
    BY TodayIs DEF Daily!SummaryAssumption
  <1>2. CASE Daily!ClockMoves
    BY <1>1, <1>2 DEF Daily!ClockMoves, SummaryTypes, Daily!Days, Daily!Configs
  <1>3. CASE Daily!Reload
    BY <1>1, <1>3 DEF Daily!Reload, SummaryTypes, Daily!Days, Daily!Configs
  <1>4. CASE Daily!Wake
    <2>1. PICK read \in BOOLEAN :
            /\ read \/ (faults < MaxFaults /\ lastSummary # Never)
            /\ faults' = IF read THEN faults ELSE faults + 1
            /\ \/ step' = "sending" /\ until' = now /\ date' = Daily!Day(now)
               \/ Daily!Sleep
      BY <1>4 DEF Daily!Wake
    <2>2. UNCHANGED <<now, cfg, lastSummary, sent>>
      BY <1>4 DEF Daily!Wake
    <2>3. faults' \in 0 .. MaxFaults
      BY <1>1, <2>1 DEF SummaryTypes
    <2>4. QED
      BY <1>1, <2>1, <2>2, <2>3 DEF SummaryTypes, Daily!Sleep, Daily!Days, Daily!Configs
  <1>5. CASE Daily!Send
    <2>1. /\ date \in Daily!Days /\ sent' = [sent EXCEPT ![date] = @ + 1] /\ step' = "storing"
          /\ UNCHANGED <<now, cfg, until, date, lastSummary, faults>> /\ step = "sending"
      BY <1>1, <1>5 DEF Daily!Send, SummaryTypes
    <2>2. /\ sent' \in [Daily!Days -> Nat] /\ sent'[date] >= 1
          /\ \A d \in Daily!Days : sent'[d] \in Nat /\ sent'[d] >= sent[d] /\ sent[d] \in Nat
      BY <2>1 DEF SummaryTypes
    <2>3. lastSummary' # Never => sent'[lastSummary'] >= 1
      BY <2>1, <2>2 DEF SummaryTypes
    <2>4. QED
      BY <1>1, <2>1, <2>2, <2>3 DEF SummaryTypes, Daily!Days, Daily!Configs
  <1>6. CASE Daily!Store
    <2>1. /\ step = "storing" /\ Daily!Sleep /\ UNCHANGED <<now, cfg, sent>>
          /\ \/ lastSummary' = date /\ faults' = faults
             \/ faults < MaxFaults /\ faults' = faults + 1 /\ lastSummary' = lastSummary
      BY <1>6 DEF Daily!Store, Daily!StoredDay
    <2>2. faults' \in 0 .. MaxFaults
      BY <1>1, <2>1 DEF SummaryTypes
    <2>3. lastSummary' \in Daily!Days \cup {Never} /\ (lastSummary' # Never => sent'[lastSummary'] >= 1)
      BY <1>1, <2>1 DEF SummaryTypes
    <2>4. QED
      BY <1>1, <2>1, <2>2, <2>3 DEF SummaryTypes, Daily!Sleep, Daily!Days, Daily!Configs
  <1>7. CASE Daily!Restart
    <2>1. /\ faults < MaxFaults /\ faults' = faults + 1 /\ Daily!Sleep
          /\ UNCHANGED <<now, cfg, lastSummary, sent>>
      BY <1>7 DEF Daily!Restart
    <2>2. faults' \in 0 .. MaxFaults
      BY <1>1, <2>1 DEF SummaryTypes
    <2>3. QED
      BY <1>1, <2>1, <2>2 DEF SummaryTypes, Daily!Sleep, Daily!Days, Daily!Configs
  <1>8. CASE UNCHANGED Daily!vars
    BY <1>8 DEF Daily!vars, SummaryTypes, Daily!Days, Daily!Configs
  <1>9. QED
    BY <1>2, <1>3, <1>4, <1>5, <1>6, <1>7, <1>8 DEF Daily!Next

LEMMA OftenStarts ==
  ASSUME Daily!SummaryAssumption, Daily!Init
  PROVE  OftenInv
  <1>1. SummaryTypes
    BY DayStarts DEF DayInv
  <1>2. Daily!Days \subseteq Int /\ Never \notin Daily!Days
    BY <1>1, TodayIs
  <1>3. QED
    BY <1>1, <1>2 DEF OftenInv, DayNotOften, Daily!Init

\* While one zone is in force the date never goes back.
LEMMA DateMovesOn ==
  ASSUME Daily!SummaryAssumption, OneZone, SummaryTypes, SummaryTypes',
         \/ now' = now
         \/ now' = now + 1 /\ cfg' = cfg
  PROVE  /\ Daily!Day(now)' \in Int /\ Daily!Day(now) \in Int
         /\ Daily!Day(now)' >= Daily!Day(now) /\ (now' = now => Daily!Day(now)' = Daily!Day(now))
  <1>1. cfg.zone \in Zones /\ cfg.zone \in Int /\ now \in Int /\ Daily!Day(now) = DayAt(cfg.zone, now)
    BY TodayIs
  <1>2. cfg'.zone = cfg.zone
    BY <1>1 DEF SummaryTypes, Daily!Configs, OneZone
  <1>3. Daily!Day(now)' = DayAt(cfg.zone, now')
    BY <1>2 DEF Daily!Day, DayAt
  <1>4. DayAt(cfg.zone, now) \in Int
    BY <1>1, DayIs
  <1>5. CASE now' = now
    BY <1>1, <1>3, <1>4, <1>5
  <1>6. CASE now' = now + 1
    <2>1. DayAt(cfg.zone, now + 1) \in {DayAt(cfg.zone, now), DayAt(cfg.zone, now) + 1}
      BY <1>1, NextSlot
    <2>2. now' # now
      BY <1>1, <1>6
    <2>3. QED
      BY <1>1, <1>3, <1>4, <1>6, <2>1, <2>2
  <1>7. QED
    BY <1>5, <1>6

\* The steps that send and store nothing and wake nobody.
LEMMA OutsideKeepsOften ==
  ASSUME Daily!SummaryAssumption, OneZone, OftenInv, SummaryTypes',
         Daily!ClockMoves \/ Daily!Reload \/ UNCHANGED Daily!vars
  PROVE  OftenInv'
  <1>1. /\ UNCHANGED <<step, until, date, lastSummary, sent, faults>>
        /\ \/ now' = now
           \/ now' = now + 1 /\ cfg' = cfg
    BY DEF Daily!ClockMoves, Daily!Reload, Daily!vars
  <1>2. SummaryTypes /\ Daily!Days' = Daily!Days
    BY DEF OftenInv, Daily!Days
  <1>3. /\ Daily!Day(now)' \in Int /\ Daily!Day(now) \in Int /\ Daily!Day(now)' >= Daily!Day(now)
        /\ Daily!Days \subseteq Int /\ faults \in Nat
    <2>1. /\ Daily!Day(now)' \in Int /\ Daily!Day(now) \in Int
          /\ Daily!Day(now)' >= Daily!Day(now) /\ Daily!Days \subseteq Int
      BY <1>1, <1>2, DateMovesOn, TodayIs
    <2>2. faults \in Nat
      BY <1>2 DEF SummaryTypes
    <2>3. QED
      BY <2>1, <2>2
  <1>4. ASSUME NEW d \in Daily!Days PROVE DayNotOften(d)'
    <2>1. DayNotOften(d) /\ d \in Int /\ (d > Daily!Day(now)' => d > Daily!Day(now))
      BY <1>3 DEF OftenInv
    <2>2. d = Daily!Day(now)' => d = Daily!Day(now) \/ d > Daily!Day(now)
      BY <1>3
    <2>3. d > Daily!Day(now) => sent[d] <= faults
      BY <1>3, <2>1 DEF DayNotOften
    <2>4. QED
      BY <1>1, <2>1, <2>2, <2>3 DEF DayNotOften
  <1>5. QED
    BY <1>1, <1>2, <1>4 DEF OftenInv

\* The loop goes back to sleep, with the day before it in mind or a fault more.
LEMMA SleepKeepsOften ==
  ASSUME Daily!SummaryAssumption, OftenInv, SummaryTypes', Daily!Sleep,
         UNCHANGED <<now, cfg, sent>>,
         \/ faults' = faults /\ step = "asleep" /\ lastSummary' = lastSummary
         \/ faults' = faults /\ step = "storing" /\ lastSummary' = date
         \/ faults' = faults + 1 /\ lastSummary' = lastSummary
  PROVE  OftenInv'
  <1>1. step' = "asleep" /\ date' = Never
    BY DEF Daily!Sleep
  <1>2. SummaryTypes
    BY DEF OftenInv
  <1>3. Daily!Day(now)' = Daily!Day(now) /\ Daily!Days' = Daily!Days
    BY <1>2, SameDay
  <1>4. /\ Daily!Days \subseteq Int /\ Never \notin Daily!Days /\ Daily!Day(now) \in Int /\ faults \in Nat
        /\ date \in Daily!Days \cup {Never} /\ (date = Never <=> step = "asleep")
        /\ lastSummary \in Daily!Days \cup {Never}
    BY <1>2, TodayIs DEF SummaryTypes
  <1>5. ASSUME NEW d \in Daily!Days PROVE DayNotOften(d)'
    <2>1. DayNotOften(d) /\ d \in Int /\ sent[d] \in Nat /\ d # Never
      BY <1>2, <1>4 DEF OftenInv, SummaryTypes
    <2>2. CASE faults' = faults + 1 /\ lastSummary' = lastSummary
      BY <1>1, <1>3, <1>4, <2>1, <2>2 DEF DayNotOften
    <2>3. CASE faults' = faults /\ step = "asleep" /\ lastSummary' = lastSummary
      BY <1>1, <1>3, <1>4, <2>1, <2>3 DEF DayNotOften
    <2>4. CASE faults' = faults /\ step = "storing" /\ lastSummary' = date
      <3>1. d = Daily!Day(now) /\ date # d => sent[d] <= faults
        <4>1. SUFFICES ASSUME d = Daily!Day(now), date # d, lastSummary = d PROVE FALSE
          BY <2>1 DEF DayNotOften
        <4>2. date \in Daily!Days /\ date \in Int /\ d <= date
          BY <1>4, <2>1, <2>4, <4>1 DEF OftenInv
        <4>3. DayNotOften(date)
          BY <4>2 DEF OftenInv
        <4>4. QED
          BY <1>4, <2>1, <4>1, <4>2, <4>3 DEF DayNotOften
      <3>2. QED
        BY <1>1, <1>3, <1>4, <2>1, <2>4, <3>1 DEF DayNotOften
    <2>5. QED
      BY <2>2, <2>3, <2>4
  <1>6. QED
    BY <1>1, <1>3, <1>5 DEF OftenInv

LEMMA WakeKeepsOften ==
  ASSUME Daily!SummaryAssumption, OftenInv, SummaryTypes', Daily!Wake
  PROVE  OftenInv'
  <1>1. PICK read \in BOOLEAN :
          /\ faults' = IF read THEN faults ELSE faults + 1
          /\ IF cfg.time # Never /\ Daily!ShouldSend(IF read THEN lastSummary ELSE Never)
             THEN step' = "sending" /\ until' = now /\ date' = Daily!Day(now)
             ELSE Daily!Sleep
    BY DEF Daily!Wake
  <1>2. step = "asleep" /\ UNCHANGED <<now, cfg, lastSummary, sent>>
    BY DEF Daily!Wake
  <1>3. SummaryTypes
    BY DEF OftenInv
  <1>4. Daily!Day(now)' = Daily!Day(now) /\ Daily!Days' = Daily!Days
    BY <1>2, <1>3, SameDay
  <1>5. /\ Daily!Days \subseteq Int /\ Never \notin Daily!Days
        /\ Daily!Day(now) \in Int /\ faults \in Nat
        /\ lastSummary \in Daily!Days \cup {Never} /\ date = Never
    BY <1>2, <1>3, TodayIs DEF SummaryTypes
  <1>6. CASE Daily!Sleep
    BY <1>1, <1>2, <1>6, SleepKeepsOften
  <1>7. CASE /\ Daily!ShouldSend(IF read THEN lastSummary ELSE Never)
             /\ step' = "sending" /\ date' = Daily!Day(now)
    <2>1. read => lastSummary # Daily!Day(now)
      BY <1>7 DEF Daily!ShouldSend
    <2>2. ASSUME NEW d \in Daily!Days PROVE DayNotOften(d)'
      <3>1. DayNotOften(d) /\ d \in Int /\ sent[d] \in Nat /\ date # d
        BY <1>3, <1>5 DEF OftenInv, SummaryTypes
      <3>2. sent[d] <= 1 + faults'
        BY <1>1, <1>5, <3>1 DEF DayNotOften
      <3>3. d = Daily!Day(now) => sent[d] <= faults'
        BY <1>1, <1>5, <2>1, <3>1 DEF DayNotOften
      <3>4. d > Daily!Day(now) => sent[d] = 0 /\ Daily!Day(now) # d /\ lastSummary # d
        BY <1>5, <3>1 DEF DayNotOften
      <3>5. QED
        BY <1>2, <1>4, <1>7, <3>2, <3>3, <3>4 DEF DayNotOften
    <2>3. lastSummary # Never => lastSummary <= Daily!Day(now)
      <3>1. SUFFICES ASSUME lastSummary # Never PROVE ~(lastSummary > Daily!Day(now))
        BY <1>5
      <3>2. DayNotOften(lastSummary)
        BY <1>5, <3>1 DEF OftenInv
      <3>3. QED
        BY <3>2 DEF DayNotOften
    <2>4. QED
      BY <1>2, <1>4, <1>7, <2>2, <2>3 DEF OftenInv
  <1>8. QED
    BY <1>1, <1>6, <1>7

LEMMA SendKeepsOften ==
  ASSUME Daily!SummaryAssumption, OftenInv, SummaryTypes', Daily!Send
  PROVE  OftenInv'
  <1>1. /\ step = "sending" /\ sent' = [sent EXCEPT ![date] = @ + 1] /\ step' = "storing"
        /\ UNCHANGED <<now, cfg, date, lastSummary, faults>>
    BY DEF Daily!Send
  <1>2. SummaryTypes
    BY DEF OftenInv
  <1>3. Daily!Day(now)' = Daily!Day(now) /\ Daily!Days' = Daily!Days
    BY <1>1, <1>2, SameDay
  <1>4. /\ Daily!Days \subseteq Int /\ Daily!Day(now) \in Int /\ faults \in Nat /\ date \in Daily!Days
        /\ sent \in [Daily!Days -> Nat]
    BY <1>1, <1>2, TodayIs DEF SummaryTypes
  <1>5. ASSUME NEW d \in Daily!Days PROVE DayNotOften(d)'
    <2>1. DayNotOften(d) /\ sent[d] \in Nat
      BY <1>4 DEF OftenInv
    <2>2. CASE d = date
      <3>1. sent'[d] = sent[d] + 1 /\ sent[d] <= faults
        BY <1>1, <1>4, <2>1, <2>2 DEF DayNotOften
      <3>2. sent'[d] <= 1 + faults
        BY <1>4, <2>1, <3>1
      <3>3. ~(d > Daily!Day(now))
        BY <2>1, <2>2 DEF DayNotOften
      <3>4. QED
        BY <1>1, <1>3, <2>2, <3>2, <3>3 DEF DayNotOften
    <2>3. CASE d # date
      <3>1. sent'[d] = sent[d]
        BY <1>1, <1>4, <2>3
      <3>2. QED
        BY <1>1, <1>3, <2>1, <2>3, <3>1 DEF DayNotOften
    <2>4. QED
      BY <2>2, <2>3
  <1>6. QED
    BY <1>1, <1>3, <1>5 DEF OftenInv

LEMMA OftenKeeps ==
  Daily!SummaryAssumption /\ OneZone /\ OftenInv /\ [Daily!Next]_(Daily!vars) => OftenInv'
  <1> SUFFICES ASSUME Daily!SummaryAssumption, OneZone, OftenInv, [Daily!Next]_(Daily!vars)
               PROVE  OftenInv'
    OBVIOUS
  <1>1. SummaryTypes'
    BY SummaryTypesKept DEF OftenInv
  <1>2. CASE Daily!ClockMoves \/ Daily!Reload \/ UNCHANGED Daily!vars
    BY <1>1, <1>2, OutsideKeepsOften
  <1>3. CASE Daily!Wake
    BY <1>1, <1>3, WakeKeepsOften
  <1>4. CASE Daily!Send
    BY <1>1, <1>4, SendKeepsOften
  <1>5. CASE Daily!Store
    <2>1. /\ Daily!Sleep /\ step = "storing" /\ UNCHANGED <<now, cfg, sent>>
          /\ \/ lastSummary' = date /\ faults' = faults
             \/ faults' = faults + 1 /\ lastSummary' = lastSummary
      BY <1>5 DEF Daily!Store, Daily!StoredDay
    <2>2. QED
      BY <1>1, <2>1, SleepKeepsOften
  <1>6. CASE Daily!Restart
    <2>1. /\ Daily!Sleep /\ UNCHANGED <<now, cfg, sent>>
          /\ faults' = faults + 1 /\ lastSummary' = lastSummary
      BY <1>6 DEF Daily!Restart
    <2>2. QED
      BY <1>1, <2>1, SleepKeepsOften
  <1>7. QED
    BY <1>2, <1>3, <1>4, <1>5, <1>6 DEF Daily!Next

-----------------------------------------------------------------------------
(* Collector: the CPU of containers.                                       *)

Reading == [used : Nat, clock : Nat]

CpuTypes ==
  /\ clock \in Nat /\ used \in [Ids -> Nat]
  /\ containers \in [DOMAIN containers -> [name : Names, counter : Nat, running : BOOLEAN]]
  /\ DOMAIN containers \subseteq Ids
  /\ lastCpu \in [DOMAIN lastCpu -> [container : Nat, system : Nat]] /\ DOMAIN lastCpu \subseteq Ids
  /\ cpuAt \in [Ids -> Reading \cup {Unset}]
  /\ cpu = [id \in Ids |-> cpu[id]]

\* When and at what a container was last read is behind what it is now.
ReadBefore(id) ==
  cpuAt[id] # Unset => cpuAt[id].used <= used[id] /\ cpuAt[id].clock <= clock

\* The counters kept were read then, if it ran; its counter now is ahead of
\* them by no more than it used since, also when it started over or when a new
\* container has the id.
KeptCounters(id) ==
  /\ cpuAt[id] # Unset
  /\ lastCpu[id].system # 0 => lastCpu[id].system = cpuAt[id].clock
  /\ id \in DOMAIN containers =>
       containers[id].counter <= lastCpu[id].container + (used[id] - cpuAt[id].used)

CpuInv ==
  /\ CpuTypes
  /\ \A id \in Ids : ReadBefore(id)
  /\ \A id \in DOMAIN containers : containers[id].running \/ containers[id].counter = 0
  /\ \A id \in DOMAIN lastCpu : KeptCounters(id)
  /\ Stat!CpuIsItsOwn

LEMMA CpuStarts == Stat!Init => CpuInv
  BY DEF Stat!Init, CpuInv, CpuTypes, ReadBefore, Reading, Stat!CpuIsItsOwn

\* The steps that change nothing of the containers but where the loop is.
LEMMA LoopKeepsCpu ==
  ASSUME CpuInv, UNCHANGED <<clock, containers, used, lastCpu, cpu, cpuAt>>
  PROVE  CpuInv'
  BY DEF CpuInv, CpuTypes, ReadBefore, KeptCounters, Stat!CpuIsItsOwn

LEMMA ListKeepsCpu ==
  ASSUME CpuInv, Stat!List
  PROVE  CpuInv'
  <1>1. /\ lastCpu' = [id \in DOMAIN lastCpu \cap DOMAIN containers |-> lastCpu[id]]
        /\ UNCHANGED <<clock, containers, used, cpu, cpuAt>>
    BY DEF Stat!List
  <1>2. /\ \A id \in DOMAIN lastCpu' : id \in DOMAIN lastCpu /\ lastCpu'[id] = lastCpu[id]
        /\ lastCpu' \in [DOMAIN lastCpu' -> [container : Nat, system : Nat]]
        /\ DOMAIN lastCpu' \subseteq Ids
    BY <1>1 DEF CpuInv, CpuTypes
  <1>3. CpuTypes'
    BY <1>1, <1>2 DEF CpuInv, CpuTypes
  <1>4. \A id \in DOMAIN lastCpu' : KeptCounters(id)'
    BY <1>1, <1>2 DEF CpuInv, KeptCounters
  <1>5. QED
    BY <1>1, <1>3, <1>4 DEF CpuInv, ReadBefore, Stat!CpuIsItsOwn

\* The one step that computes a share.
LEMMA StatsKeepCpu ==
  ASSUME Stat!CollectorAssumption, CpuInv, NEW id \in Ids, Stat!Stats(id)
  PROVE  CpuInv'
  <1> DEFINE cur == Stat!Counters(id)
             old == Stat!Previous(id)
             share == Stat!CpuPercent(cur, old)
             read == [used |-> used[id], clock |-> clock]
  <1>1. /\ id \in DOMAIN containers
        /\ lastCpu' = [k \in DOMAIN lastCpu \cup {id} |-> IF k = id THEN cur ELSE lastCpu[k]]
        /\ cpu' = [cpu EXCEPT ![id] = [used |-> share.used, over |-> share.over,
                                       since |-> cpuAt[id], until |-> read]]
        /\ cpuAt' = [cpuAt EXCEPT ![id] = read]
        /\ UNCHANGED <<clock, containers, used>>
    BY DEF Stat!Stats
  <1>2. /\ clock \in Nat /\ used[id] \in Nat /\ containers[id].counter \in Nat
        /\ containers[id].running \in BOOLEAN
        /\ containers[id].running \/ containers[id].counter = 0
        /\ cpuAt[id] # Unset => cpuAt[id].used \in Nat /\ cpuAt[id].clock \in Nat /\ ReadBefore(id)
    BY <1>1 DEF CpuInv, CpuTypes, Reading
  <1>3. /\ cur.container = containers[id].counter /\ cur.container \in Nat
        /\ cur.system \in {0, clock} /\ cur \in [container : Nat, system : Nat]
    BY <1>2 DEF Stat!Counters
  <1>4. /\ old \in [container : Nat, system : Nat]
        /\ old.system # 0 => /\ cpuAt[id] # Unset /\ old.system = cpuAt[id].clock
                             /\ cur.container <= old.container + (used[id] - cpuAt[id].used)
    <2>1. CASE id \in DOMAIN lastCpu
      BY <1>1, <1>3, <2>1 DEF CpuInv, CpuTypes, KeptCounters, Stat!Previous
    <2>2. CASE id \notin DOMAIN lastCpu
      BY <2>2 DEF Stat!Previous, Stat!Nothing
    <2>3. QED
      BY <2>1, <2>2
  <1>5. /\ read \in Reading /\ read # Unset /\ read.used = used[id] /\ read.clock = clock
    BY <1>2 DEF Reading, Stat!CollectorAssumption
  <1> HIDE DEF cur, old, read
  <1>6. /\ share.used \in Nat /\ share.over \in Nat
        /\ old.system = 0 => share.used = 0 /\ share.over = 0
        /\ share.used <= Stat!Sub(cur.container, old.container)
        /\ share.over <= Stat!Sub(cur.system, old.system)
    BY <1>2, <1>3, <1>4 DEF Stat!CpuPercent, Stat!Sub
  <1> HIDE DEF share
  <1>7. IF cpuAt[id] = Unset THEN share.used = 0
        ELSE /\ share.used <= read.used - cpuAt[id].used
             /\ share.over <= read.clock - cpuAt[id].clock
    <2>1. CASE old.system = 0
      BY <1>2, <1>5, <1>6, <2>1 DEF ReadBefore
    <2>2. CASE old.system # 0
      <3>1. cpuAt[id] # Unset /\ cpuAt[id].used <= used[id] /\ cpuAt[id].clock <= clock
        BY <1>2, <1>4, <2>2 DEF ReadBefore
      <3>2. share.used <= read.used - cpuAt[id].used
        BY <1>2, <1>3, <1>4, <1>5, <1>6, <2>2, <3>1 DEF Stat!Sub
      <3>3. share.over <= read.clock - cpuAt[id].clock
        BY <1>2, <1>3, <1>4, <1>5, <1>6, <2>2, <3>1 DEF Stat!Sub
      <3>4. QED
        BY <3>1, <3>2, <3>3
    <2>3. QED
      BY <2>1, <2>2
  <1>8. CpuTypes'
    BY <1>1, <1>3, <1>5 DEF CpuInv, CpuTypes
  <1>9. \A k \in Ids : ReadBefore(k)'
    BY <1>1, <1>2, <1>5 DEF CpuInv, CpuTypes, ReadBefore
  <1>10. ASSUME NEW k \in DOMAIN lastCpu' PROVE KeptCounters(k)'
    <2>1. CASE k = id
      <3>1. lastCpu'[k] = cur /\ cpuAt'[k] = read
        BY <1>1, <2>1 DEF CpuInv, CpuTypes
      <3>2. QED
        BY <1>1, <1>2, <1>3, <1>5, <2>1, <3>1 DEF KeptCounters
    <2>2. CASE k # id
      <3>1. k \in DOMAIN lastCpu /\ lastCpu'[k] = lastCpu[k] /\ k \in Ids /\ cpuAt'[k] = cpuAt[k]
        BY <1>1, <2>2 DEF CpuInv, CpuTypes
      <3>2. QED
        BY <1>1, <3>1 DEF CpuInv, KeptCounters
    <2>3. QED
      BY <2>1, <2>2
  <1>11. Stat!CpuIsItsOwn'
    <2>1. SUFFICES ASSUME NEW k \in Ids, cpu'[k] # Unset
                   PROVE  IF cpu'[k].since = Unset THEN cpu'[k].used = 0
                          ELSE /\ cpu'[k].used <= cpu'[k].until.used - cpu'[k].since.used
                               /\ cpu'[k].over <= cpu'[k].until.clock - cpu'[k].since.clock
      BY DEF Stat!CpuIsItsOwn
    <2>2. CASE k = id
      <3>1. cpu'[k] = [used |-> share.used, over |-> share.over, since |-> cpuAt[id], until |-> read]
        BY <1>1, <2>2 DEF CpuInv, CpuTypes
      <3>2. QED
        BY <1>7, <3>1
    <2>3. CASE k # id
      <3>1. cpu'[k] = cpu[k]
        BY <1>1, <2>3 DEF CpuInv, CpuTypes
      <3>2. QED
        BY <2>1, <3>1 DEF CpuInv, Stat!CpuIsItsOwn
    <2>4. QED
      BY <2>2, <2>3
  <1>12. QED
    BY <1>1, <1>8, <1>9, <1>10, <1>11 DEF CpuInv

\* What containers do on their own.
LEMMA ContainersKeepCpu ==
  ASSUME CpuInv, UNCHANGED <<lastCpu, cpu, cpuAt>>, CpuTypes', clock' >= clock,
         \A id \in Ids : used'[id] >= used[id],
         \A id \in DOMAIN containers' :
           /\ containers'[id].running \/ containers'[id].counter = 0
           /\ \/ containers'[id].counter = 0
              \/ /\ id \in DOMAIN containers
                 /\ containers'[id].counter - containers[id].counter <= used'[id] - used[id]
  PROVE  CpuInv'
  <1>1. /\ CpuTypes /\ clock \in Nat /\ clock' \in Nat
        /\ \A id \in Ids : used[id] \in Nat /\ used'[id] \in Nat /\ used'[id] >= used[id]
        /\ \A id \in Ids : cpuAt[id] # Unset =>
             cpuAt[id].used \in Nat /\ cpuAt[id].clock \in Nat /\ cpuAt[id].used <= used[id]
             /\ cpuAt[id].clock <= clock
    BY DEF CpuInv, CpuTypes, Reading, ReadBefore
  <1>2. \A id \in Ids : ReadBefore(id)'
    BY <1>1 DEF ReadBefore
  <1>3. ASSUME NEW id \in DOMAIN lastCpu PROVE KeptCounters(id)'
    <2>1. KeptCounters(id) /\ id \in Ids /\ lastCpu[id].container \in Nat
      BY DEF CpuInv, CpuTypes
    <2>2. ASSUME id \in DOMAIN containers'
          PROVE  containers'[id].counter <= lastCpu[id].container + (used'[id] - cpuAt[id].used)
      <3>1. cpuAt[id].used \in Nat /\ used[id] \in Nat /\ used'[id] \in Nat /\ cpuAt[id].used <= used[id]
            /\ used'[id] >= used[id] /\ containers'[id].counter \in Nat
        BY <1>1, <2>1, <2>2 DEF KeptCounters, CpuTypes
      <3>2. CASE containers'[id].counter = 0
        BY <2>1, <3>1, <3>2
      <3>3. CASE /\ id \in DOMAIN containers
                 /\ containers'[id].counter - containers[id].counter <= used'[id] - used[id]
        <4>1. containers[id].counter <= lastCpu[id].container + (used[id] - cpuAt[id].used)
              /\ containers[id].counter \in Nat
          BY <1>1, <2>1, <3>3 DEF KeptCounters, CpuTypes
        <4>2. QED
          BY <2>1, <3>1, <3>3, <4>1
      <3>4. QED
        BY <2>2, <3>2, <3>3
    <2>3. QED
      BY <2>1, <2>2 DEF KeptCounters
  <1>4. QED
    BY <1>2, <1>3 DEF CpuInv, Stat!CpuIsItsOwn

LEMMA CpuKeeps ==
  Stat!CollectorAssumption /\ CpuInv /\ [Stat!Next]_(Stat!vars) => CpuInv'
  <1> SUFFICES ASSUME Stat!CollectorAssumption, CpuInv, [Stat!Next]_(Stat!vars) PROVE CpuInv'
    OBVIOUS
  <1>1. CASE \/ Stat!ReadHost \/ Stat!ListFails \/ Stat!Sleep \/ UNCHANGED Stat!vars
             \/ \E id \in Ids : Stat!StatsFail(id)
             \/ \E i \in Interfaces : Stat!Replug(i)
    <2>1. UNCHANGED <<clock, containers, used, lastCpu, cpu, cpuAt>>
      BY <1>1 DEF Stat!ReadHost, Stat!ListFails, Stat!Sleep, Stat!vars, Stat!StatsFail, Stat!Replug,
           Stat!docker
    <2>2. QED
      BY <2>1, LoopKeepsCpu
  <1>2. CASE Stat!List
    BY <1>2, ListKeepsCpu
  <1>3. ASSUME NEW id \in Ids, Stat!Stats(id) PROVE CpuInv'
    BY <1>3, StatsKeepCpu
  <1>4. CpuTypes
    BY DEF CpuInv
  <1>5. CASE Stat!Tick
    <2>1. /\ clock' = clock + 1 /\ UNCHANGED <<lastCpu, cpu, cpuAt>> /\ clock \in Nat
          /\ \/ UNCHANGED <<containers, used>>
             \/ \E id \in DOMAIN containers : /\ containers[id].running
                                              /\ containers' = [containers EXCEPT ![id].counter = @ + 1]
                                              /\ used' = [used EXCEPT ![id] = @ + 1]
      BY <1>4, <1>5 DEF Stat!Tick, CpuTypes
    <2>2. CASE UNCHANGED <<containers, used>>
      <3>1. CpuTypes' /\ clock' >= clock
        BY <1>4, <2>1, <2>2 DEF CpuTypes
      <3>2. /\ \A id \in Ids : used'[id] >= used[id]
            /\ \A id \in DOMAIN containers' :
                 /\ containers'[id].running \/ containers'[id].counter = 0
                 /\ id \in DOMAIN containers
                 /\ containers'[id].counter - containers[id].counter <= used'[id] - used[id]
        BY <1>4, <2>2 DEF CpuInv, CpuTypes
      <3>3. QED
        BY <2>1, <3>1, <3>2, ContainersKeepCpu
    <2>3. ASSUME NEW id \in DOMAIN containers, containers[id].running,
                 containers' = [containers EXCEPT ![id].counter = @ + 1],
                 used' = [used EXCEPT ![id] = @ + 1]
          PROVE  CpuInv'
      <3>1. /\ DOMAIN containers' = DOMAIN containers /\ id \in Ids
            /\ containers'[id].counter = containers[id].counter + 1 /\ containers'[id].running
            /\ containers[id].counter \in Nat /\ used'[id] = used[id] + 1 /\ used[id] \in Nat
            /\ \A k \in DOMAIN containers : k # id => containers'[k] = containers[k]
            /\ \A k \in Ids : k # id => used'[k] = used[k]
        BY <1>4, <2>3 DEF CpuTypes
      <3>2. CpuTypes' /\ clock' >= clock
        BY <1>4, <2>1, <2>3 DEF CpuTypes
      <3>3. \A k \in Ids : used'[k] >= used[k]
        BY <1>4, <3>1 DEF CpuTypes
      <3>4. ASSUME NEW k \in DOMAIN containers'
            PROVE  /\ containers'[k].running \/ containers'[k].counter = 0
                   /\ k \in DOMAIN containers
                   /\ containers'[k].counter - containers[k].counter <= used'[k] - used[k]
        <4>1. CASE k = id
          BY <3>1, <4>1
        <4>2. CASE k # id
          BY <1>4, <3>1, <4>2 DEF CpuInv, CpuTypes
        <4>3. QED
          BY <4>1, <4>2
      <3>5. QED
        BY <2>1, <3>2, <3>3, <3>4, ContainersKeepCpu
    <2>4. QED
      BY <2>1, <2>2, <2>3
  <1>6. ASSUME NEW id \in Ids, NEW name \in Names, Stat!Create(id, name) PROVE CpuInv'
    <2>1. /\ containers' = [k \in DOMAIN containers \cup {id} |->
                              IF k = id THEN [name |-> name, counter |-> 0, running |-> TRUE]
                              ELSE containers[k]]
          /\ UNCHANGED <<clock, used, lastCpu, cpu, cpuAt>>
      BY <1>6 DEF Stat!Create
    <2>2. CpuTypes' /\ clock' >= clock /\ \A k \in Ids : used'[k] >= used[k] /\ used[k] \in Nat
      BY <1>4, <2>1 DEF CpuTypes
    <2>3. ASSUME NEW k \in DOMAIN containers'
          PROVE  /\ containers'[k].running \/ containers'[k].counter = 0
                 /\ \/ containers'[k].counter = 0
                    \/ /\ k \in DOMAIN containers
                       /\ containers'[k].counter - containers[k].counter <= used'[k] - used[k]
      BY <1>4, <2>1, <2>2 DEF CpuInv, CpuTypes
    <2>4. QED
      BY <2>1, <2>2, <2>3, ContainersKeepCpu
  <1>7. ASSUME NEW id \in Ids, Stat!Remove(id) PROVE CpuInv'
    <2>1. /\ containers' = [k \in DOMAIN containers \ {id} |-> containers[k]]
          /\ UNCHANGED <<clock, used, lastCpu, cpu, cpuAt>>
      BY <1>7 DEF Stat!Remove
    <2>2. CpuTypes' /\ clock' >= clock /\ \A k \in Ids : used'[k] >= used[k] /\ used[k] \in Nat
      BY <1>4, <2>1 DEF CpuTypes
    <2>3. ASSUME NEW k \in DOMAIN containers'
          PROVE  /\ containers'[k].running \/ containers'[k].counter = 0
                 /\ k \in DOMAIN containers
                 /\ containers'[k].counter - containers[k].counter <= used'[k] - used[k]
      BY <1>4, <2>1, <2>2 DEF CpuInv, CpuTypes
    <2>4. QED
      BY <2>1, <2>2, <2>3, ContainersKeepCpu
  <1>8. ASSUME NEW id \in Ids, Stat!Restart(id) PROVE CpuInv'
    <2>1. /\ containers' = [containers EXCEPT ![id].counter = 0, ![id].running = ~@]
          /\ id \in DOMAIN containers /\ UNCHANGED <<clock, used, lastCpu, cpu, cpuAt>>
      BY <1>8 DEF Stat!Restart
    <2>2. /\ DOMAIN containers' = DOMAIN containers
          /\ containers'[id].counter = 0
          /\ containers'[id] \in [name : Names, counter : Nat, running : BOOLEAN]
          /\ \A k \in DOMAIN containers : k # id => containers'[k] = containers[k]
      BY <1>4, <2>1 DEF CpuTypes
    <2>3. CpuTypes' /\ clock' >= clock /\ \A k \in Ids : used'[k] >= used[k] /\ used[k] \in Nat
      BY <1>4, <2>1, <2>2 DEF CpuTypes
    <2>4. ASSUME NEW k \in DOMAIN containers'
          PROVE  /\ containers'[k].running \/ containers'[k].counter = 0
                 /\ \/ containers'[k].counter = 0
                    \/ /\ k \in DOMAIN containers
                       /\ containers'[k].counter - containers[k].counter <= used'[k] - used[k]
      BY <1>4, <2>1, <2>2, <2>3 DEF CpuInv, CpuTypes
    <2>5. QED
      BY <2>1, <2>3, <2>4, ContainersKeepCpu
  <1>9. QED
    BY <1>1, <1>2, <1>3, <1>5, <1>6, <1>7, <1>8 DEF Stat!Next

-----------------------------------------------------------------------------
(* Sessions: the table of sessions.                                        *)

Handled == {Login!NoLogin} \cup [at : {"verify", "open"}, ip : Ips, time : Nat]

\* A token is drawn once: what was logged out was drawn and is not in the table.
SessionInv ==
  /\ now \in Nat /\ login \in [Requests -> Handled]
  /\ sessions \in [DOMAIN sessions -> Nat]
  /\ DOMAIN sessions \subseteq drawn \ left /\ left \subseteq drawn

LEMMA SessionStarts ==
  ASSUME Login!Init
  PROVE  SessionInv
  BY DEF Login!Init, SessionInv, Handled

\* What a step does to the table, and that no session returns.
SessionStep ==
  /\ \A token \in Login!Valid(sessions, now) :
       token \in Login!Valid(sessions', now') \/ token \in left' \/ sessions[token] <= now'
  /\ \A token \in DOMAIN sessions' : token \notin left

LEMMA SessionKeeps ==
  ASSUME Login!SessionAssumption, SessionInv, [Login!Next]_(Login!vars)
  PROVE  SessionInv' /\ SessionStep
  <1>1. CASE UNCHANGED <<sessions, drawn, left>> /\ login' \in [Requests -> Handled] /\ now' \in Nat
    <2>1. SessionInv'
      BY <1>1 DEF SessionInv
    <2>2. \A token \in DOMAIN sessions : sessions[token] \in Nat /\ token \notin left
      BY DEF SessionInv
    <2>3. SessionStep
      BY <1>1, <2>2 DEF SessionStep, Login!Valid
    <2>4. QED
      BY <2>1, <2>3
  <1>2. ASSUME NEW r \in Requests, Login!Wrong(r)
        PROVE  UNCHANGED <<sessions, drawn, left, now>> /\ login' \in [Requests -> Handled]
    BY <1>2 DEF Login!Wrong, SessionInv, Handled
  <1>3. ASSUME NEW r \in Requests, Login!Right(r)
        PROVE  UNCHANGED <<sessions, drawn, left, now>> /\ login' \in [Requests -> Handled]
    <2>1. login[r] \in [at : {"verify", "open"}, ip : Ips, time : Nat]
      BY <1>3 DEF Login!Right, SessionInv, Handled, Login!NoLogin
    <2>2. QED
      BY <1>3, <2>1 DEF Login!Right, SessionInv, Handled
  <1>4. ASSUME NEW r \in Requests, NEW ip \in Ips, Login!Submit(r, ip)
        PROVE  UNCHANGED <<sessions, drawn, left, now>> /\ login' \in [Requests -> Handled]
    <2>1. [at |-> "verify", ip |-> ip, time |-> now] \in Handled /\ Login!NoLogin \in Handled
      BY DEF SessionInv, Handled
    <2>2. QED
      BY <1>4, <2>1 DEF Login!Submit, SessionInv
  <1>5. ASSUME NEW r \in Requests, Login!Open(r) PROVE SessionInv' /\ SessionStep
    <2>1. login[r].time \in Nat /\ Login!ExpiresAt(r) \in Nat
      BY <1>5 DEF Login!Open, SessionInv, Handled, Login!NoLogin, Login!ExpiresAt, Login!SessionAssumption
    <2>2. login' \in [Requests -> Handled] /\ UNCHANGED <<now, left>>
      BY <1>5 DEF Login!Open, SessionInv, Handled
    <2>3. CASE UNCHANGED <<sessions, drawn>>
      BY <1>1, <2>2, <2>3 DEF SessionInv
    <2>4. ASSUME NEW token \in Tokens \ drawn, drawn' = drawn \cup {token},
                 sessions' = Login!With(sessions, token, Login!ExpiresAt(r))
          PROVE  SessionInv' /\ SessionStep
      <3>1. /\ DOMAIN sessions' = DOMAIN sessions \cup {token}
            /\ \A k \in DOMAIN sessions : k # token /\ sessions'[k] = sessions[k]
            /\ sessions' \in [DOMAIN sessions' -> Nat]
        BY <2>1, <2>4 DEF Login!With, SessionInv
      <3>2. SessionInv'
        BY <2>2, <2>4, <3>1 DEF SessionInv
      <3>3. \A k \in DOMAIN sessions' : k \notin left
        BY <2>4, <3>1 DEF SessionInv
      <3>4. SessionStep
        BY <2>2, <3>1, <3>3 DEF SessionStep, Login!Valid
      <3>5. QED
        BY <3>2, <3>4
    <2>5. QED
      BY <1>5, <2>3, <2>4 DEF Login!Open
  <1>6. ASSUME NEW token \in Tokens, Login!Logout(token) PROVE SessionInv' /\ SessionStep
    <2>1. /\ sessions' = [k \in DOMAIN sessions \ {token} |-> sessions[k]] /\ left' = left \cup {token}
          /\ token \in DOMAIN sessions /\ UNCHANGED <<now, login, drawn>>
      BY <1>6 DEF Login!Logout, Login!Without
    <2>2. SessionInv'
      BY <2>1 DEF SessionInv
    <2>3. SessionStep
      BY <2>1 DEF SessionInv, SessionStep, Login!Valid
    <2>4. QED
      BY <2>2, <2>3
  <1>7. CASE Login!Prune
    <2>1. /\ sessions' = [k \in DOMAIN sessions \ Login!Pruned(now) |-> sessions[k]]
          /\ UNCHANGED <<now, login, drawn, left>>
      BY <1>7 DEF Login!Prune, Login!Without
    <2>2. SessionInv'
      BY <2>1 DEF SessionInv
    <2>3. SessionStep
      BY <2>1 DEF SessionInv, SessionStep, Login!Valid, Login!Pruned
    <2>4. QED
      BY <2>2, <2>3
  <1>8. CASE Login!Restart
    BY <1>1, <1>8 DEF Login!Restart, SessionInv, Handled
  <1>9. CASE Login!ClockMoves
    BY <1>1, <1>9 DEF Login!ClockMoves, SessionInv
  <1>10. CASE UNCHANGED Login!vars
    BY <1>1, <1>10 DEF Login!vars, SessionInv
  <1>11. now \in Nat
    BY DEF SessionInv
  <1>12. QED
    BY <1>1, <1>2, <1>3, <1>4, <1>5, <1>6, <1>7, <1>8, <1>9, <1>10, <1>11 DEF Login!Next

-----------------------------------------------------------------------------
(* The theorems.                                                           *)

THEOREM TellInvariance ==
  ASSUME Tell!NotifierAssumption
  PROVE  Tell!Spec => []TellInv
  <1>1. Tell!Init => TellInv
    BY TellStarts
  <1>2. TellInv /\ [Tell!Next]_(Tell!vars) => TellInv'
    BY TellKeeps
  <1>3. QED
    BY <1>1, <1>2, PTL DEF Tell!Spec

\* post_json_retry_once: whatever a server answers and however late, a channel
\* shows a message at most once.
THEOREM ShownAtMostOnce ==
  ASSUME Tell!NotifierAssumption
  PROVE  Tell!Spec => []Tell!ShownOnce
  <1>1. TellInv => Tell!ShownOnce
    BY DEF TellInv, Future, FutureIs, Tell!ShownOnce
  <1>2. QED
    BY <1>1, TellInvariance, PTL

\* SEND_TIMEOUT and MAX_RETRY_WAIT: no future of a send takes longer than two
\* requests and one wait, whatever wait a server asks for.
THEOREM WaitIsBounded ==
  ASSUME Tell!NotifierAssumption
  PROVE  Tell!Spec => []Tell!WaitBounded
  <1>1. TellInv => Tell!WaitBounded
    BY DEF TellInv, Future, FutureIs, Tell!WaitBounded
  <1>2. QED
    BY <1>1, TellInvariance, PTL

\* MultiNotifier::replace: a send works on the channels it took when it began,
\* and only a channel that retries posts again, through any reloads.
THEOREM SendsAreTyped ==
  ASSUME Tell!NotifierAssumption
  PROVE  Tell!Spec => []Tell!TypeOK
  <1>1. TellInv => Tell!TypeOK
    BY DEF TellInv, TellTypes, Step, Tell!TypeOK, Tell!Ended
  <1>2. QED
    BY <1>1, TellInvariance, PTL

THEOREM FileInvariance ==
  ASSUME File!ReloadAssumption
  PROVE  File!Spec => []FileInv
  <1>1. File!Init => FileInv
    BY FileStarts
  <1>2. FileInv /\ [File!Next]_(File!vars) => FileInv'
    BY FileKeeps
  <1>3. QED
    BY <1>1, <1>2, PTL DEF File!Spec

\* notifier_reload_loop and channel_reload_loop: what a loop that saw the
\* running config built is that config's part, for any saves in any order, also
\* when a reload landed before the loop first ran.
THEOREM BuiltIsRunningAlways ==
  ASSUME File!ReloadAssumption
  PROVE  File!Spec => []File!BuiltIsRunning
  <1>1. FileInv => File!BuiltIsRunning
    BY DEF FileInv, LoopIs, Working, File!BuiltIsRunning
  <1>2. QED
    BY <1>1, FileInvariance, PTL

\* apply_reload: the running config is always one that loads.
THEOREM ReloadIsTyped ==
  ASSUME File!ReloadAssumption
  PROVE  File!Spec => []File!TypeOK
  <1>1. FileInv => File!TypeOK
    BY DEF FileInv
  <1>2. QED
    BY <1>1, FileInvariance, PTL

THEOREM ProbeInvariance ==
  ASSUME Probe!ProberAssumption
  PROVE  Probe!Spec => []ProbeInv
  <1>1. Probe!Init => ProbeInv
    BY ProbeStarts
  <1>2. ProbeInv /\ [Probe!Next]_(Probe!vars) => ProbeInv'
    BY ProbeKeeps
  <1>3. QED
    BY <1>1, <1>2, PTL DEF Probe!Spec

\* prober_loop and evaluate: whatever changes, restarts, is reloaded or off
\* between a listing and its use, an outcome is the probe's verdict on a state
\* the target had since the tick began, as long as the single calls answer.
THEOREM VerdictIsAlwaysTrue ==
  ASSUME Probe!ProberAssumption, ~CallsFail
  PROVE  Probe!Spec => []Probe!VerdictIsTrue
  <1>1. ProbeInv => Probe!VerdictIsTrue
    BY DEF ProbeInv
  <1>2. QED
    BY <1>1, ProbeInvariance, PTL

\* prober_loop: the times it keeps of its checks fit together, through reloads
\* that fail to reconcile and restarts.
THEOREM ProbesAreTyped ==
  ASSUME Probe!ProberAssumption
  PROVE  Probe!Spec => []Probe!TypeOK
  <1>1. ProbeInv => Probe!TypeOK
    BY DEF ProbeInv
  <1>2. QED
    BY <1>1, ProbeInvariance, PTL

\* probe_heartbeat: a heartbeat is called down only when nothing arrived for
\* longer than allowed, counted from when the loop began to watch it while none
\* ever arrived, as long as the last ping can be read.
THEOREM DownOnlyWhenLate ==
  ASSUME Probe!ProberAssumption, ~ReadsFail
  PROVE  Probe!Spec => Probe!LateOnly
  <1>1. ProbeInv /\ [Probe!Next]_(Probe!vars) => [Probe!LateStep]_(Probe!vars)
    <2>1. SUFFICES ASSUME ProbeInv, Probe!Next, NEW c \in Heartbeats,
                          verdict'[c] = "down", verdict[c] # "down"
                   PROVE  IF pings[c] = Unset THEN tickNow - watched[c] > Allowed
                          ELSE tickNow - pings[c] > Allowed
      BY DEF Probe!LateStep
    <2>2. "down" # Unset /\ c \in Probe!Checks
      BY DEF Probe!ProberAssumption, Probe!Outcome, Probe!Checks
    <2>3. verdict = [e \in Probe!Checks |-> verdict[e]]
      BY <2>1 DEF ProbeInv, FunctionsAre
    <2>4. PICK d \in Probe!Checks : Probe!Evaluate(d)
      <3>1. ~Probe!Tick /\ ~Probe!Restart
        BY <2>1, <2>2 DEF Probe!Tick, Probe!Restart
      <3>2. ~UNCHANGED verdict
        BY <2>1
      <3>3. QED
        BY <2>1, <3>1, <3>2 DEF Probe!Next, Probe!ClockMoves, Probe!Changes, Probe!Reload,
             Probe!Heartbeat, Probe!ListDocker, Probe!ListSystemd, Probe!List
    <2>5. PICK read \in BOOLEAN :
            /\ ~read => ReadsFail
            /\ verdict' = [verdict EXCEPT
                 ![d] = Probe!Evaluated(d, IF d \in Heartbeats /\ read THEN pings[d] ELSE Unset)]
      BY <2>4 DEF Probe!Evaluate
    <2>6. read /\ d = c
      BY <2>1, <2>2, <2>3, <2>5
    <2>7. Probe!ProbeHeartbeat(Allowed, pings[c], firstRun[c], tickNow) = "down"
      BY <2>1, <2>2, <2>3, <2>5, <2>6 DEF Probe!Evaluated
    <2>8. CASE pings[c] = Unset
      <3>1. tickNow - firstRun[c] > Allowed
        BY <2>7, <2>8 DEF Probe!ProbeHeartbeat
      <3>2. c \in DOMAIN last /\ c \in DOMAIN watched
        BY <2>1, <2>4, <2>6 DEF Probe!Evaluate, ProbeInv, Probe!TypeOK
      <3>3. watched[c] \in Nat /\ firstRun[c] \in Nat /\ watched[c] <= firstRun[c]
        BY <2>1, <3>2 DEF ProbeInv, TimesIs
      <3>4. tickNow \in Nat /\ Allowed \in Nat
        BY <2>1 DEF ProbeInv, Probe!TypeOK, Probe!ProberAssumption
      <3>5. QED
        BY <2>8, <3>1, <3>3, <3>4
    <2>9. CASE pings[c] # Unset
      BY <2>7, <2>9 DEF Probe!ProbeHeartbeat
    <2>10. QED
      BY <2>8, <2>9
  <1>2. QED
    BY <1>1, ProbeInvariance, PTL DEF Probe!Spec, Probe!LateOnly

THEOREM DayInvariance ==
  ASSUME Daily!SummaryAssumption, EnoughTime
  PROVE  Daily!Spec => []DayInv
  <1>1. Daily!Init => DayInv
    BY DayStarts
  <1>2. DayInv /\ [Daily!Next]_(Daily!vars) => DayInv'
    BY DayKeeps
  <1>3. QED
    BY <1>1, <1>2, PTL DEF Daily!Spec

\* summary_loop: a day that passed under a config with a summary has had its
\* own or is having it, over late sleeps, slow sends, lost writes, restarts and
\* reloads, when the times leave room for them before midnight.
THEOREM EveryDayIsTold ==
  ASSUME Daily!SummaryAssumption, EnoughTime
  PROVE  Daily!Spec => []Daily!EveryDayTold
  <1>1. DayInv => Daily!EveryDayTold
    <2>1. SUFFICES ASSUME DayInv, NEW d \in Daily!Days, d < Daily!Day(now), d > Daily!Day(0),
                          d \notin disturbed
                   PROVE  sent[d] >= 1 \/ date = d
      BY DEF Daily!EveryDayTold
    <2>2. /\ cfg.zone \in Zones /\ Daily!Days \subseteq Int /\ Daily!Day(0) = DayAt(cfg.zone, 0)
          /\ 0 \in 0 .. MaxTime /\ sent[d] \in Nat
      BY <2>1, TodayIs DEF DayInv, SummaryTypes, Daily!Day, DayAt, Daily!SummaryAssumption
    <2>3. -1 <= DayAt(cfg.zone, 0) /\ DayAt(cfg.zone, 0) \in Int
      BY <2>2, DayBounds, Zenon
    <2>4. d >= 0
      BY <2>1, <2>2, <2>3
    <2>5. QED
      BY <2>1, <2>2, <2>4 DEF DayInv, ToldInv, Untold
  <1>2. QED
    BY <1>1, DayInvariance, PTL

THEOREM OftenInvariance ==
  ASSUME Daily!SummaryAssumption, OneZone
  PROVE  Daily!Spec => []OftenInv
  <1>1. Daily!Init => OftenInv
    BY OftenStarts
  <1>2. OftenInv /\ [Daily!Next]_(Daily!vars) => OftenInv'
    BY OftenKeeps
  <1>3. QED
    BY <1>1, <1>2, PTL DEF Daily!Spec

\* should_send: with one zone, no day is told more than once but for each call
\* that failed and each process that ended before the day was stored.
THEOREM SentOnceAlways ==
  ASSUME Daily!SummaryAssumption, OneZone
  PROVE  Daily!Spec => []Daily!SentOnce
  <1>1. OftenInv => Daily!SentOnce
    BY DEF OftenInv, DayNotOften, Daily!SentOnce
  <1>2. QED
    BY <1>1, OftenInvariance, PTL

THEOREM CpuInvariance ==
  ASSUME Stat!CollectorAssumption
  PROVE  Stat!Spec => []CpuInv
  <1>1. Stat!Init => CpuInv
    BY CpuStarts
  <1>2. CpuInv /\ [Stat!Next]_(Stat!vars) => CpuInv'
    BY CpuKeeps
  <1>3. QED
    BY <1>1, <1>2, PTL DEF Stat!Spec

\* BollardDocker::containers: the CPU stored for a container is its own and of
\* the interval between two readings of it, for any containers that come, go,
\* stop and take each other's names while the loop reads them one by one.
THEOREM CpuIsAlwaysItsOwn ==
  ASSUME Stat!CollectorAssumption
  PROVE  Stat!Spec => []Stat!CpuIsItsOwn
  <1>1. CpuInv => Stat!CpuIsItsOwn
    BY DEF CpuInv
  <1>2. QED
    BY <1>1, CpuInvariance, PTL

THEOREM SessionInvariance ==
  ASSUME Login!SessionAssumption
  PROVE  Login!Spec => []SessionInv
  <1>1. Login!Init => SessionInv
    BY SessionStarts
  <1>2. SessionInv /\ [Login!Next]_(Login!vars) => SessionInv'
    BY SessionKeeps
  <1>3. QED
    BY <1>1, <1>2, PTL DEF Login!Spec

\* prune_sessions and logout against session_valid: a session stays as long as
\* it is valid and not logged out, and never comes back.
THEOREM SessionsAreKept ==
  ASSUME Login!SessionAssumption
  PROVE  Login!Spec => Login!SessionKept
  <1>1. SessionInv /\ [Login!Next]_(Login!vars) => [SessionStep]_(Login!vars)
    BY SessionKeeps
  <1>2. QED
    BY <1>1, SessionInvariance, PTL DEF Login!Spec, Login!SessionKept, SessionStep

================================================================================
