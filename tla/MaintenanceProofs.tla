-------------------------- MODULE MaintenanceProofs --------------------------
(***************************************************************************)
(* Proofs about Maintenance for any operators, windows and bounds.         *)
(*                                                                         *)
(* What was said of a window is a sequence that only grows, by a message   *)
(* that a flag of the row says was not sent yet.  The invariant ties the   *)
(* flags to that sequence, what the handlers hold to the flags, and what a *)
(* tick read of a row to what the row says by now.                         *)
(***************************************************************************)
EXTENDS Maintenance, SequenceTheorems, FiniteSetTheorems, TLAPS

-----------------------------------------------------------------------------
(* What was said of one window, as a sequence.                             *)

Heard(s) == {s[k] : k \in DOMAIN s}
NoneTwice(s) == \A i, j \in DOMAIN s : s[i] = s[j] => i = j
Precedes(s, a, b) == \A i, j \in DOMAIN s : s[i] = b /\ s[j] = a => j < i

(* One window: its flags say what was said of it, nothing was said twice,  *)
(* and the word about its end came last.                                   *)
Claimed(w) ==
  /\ w.scheduledSent <=> "scheduled" \in Heard(w.told)
  /\ "started" \in Heard(w.told) => w.startedSent
  /\ Heard(w.told) \cap {"completed", "cancelled"} # {} => w.completedSent
  /\ w.completedSent => w.startedSent

Sensible(s) ==
  /\ NoneTwice(s)
  /\ ~({"completed", "cancelled"} \subseteq Heard(s))
  /\ "cancelled" \in Heard(s) => "scheduled" \in Heard(s)
  /\ Precedes(s, "scheduled", "cancelled")
  /\ Precedes(s, "started", "completed") /\ Precedes(s, "started", "cancelled")

WindowInv == \A id \in DOMAIN windows : Claimed(windows[id]) /\ Sensible(windows[id].told)

(* One handler at most is about to say that a window is planned, and nobody *)
(* said so before it; a handler that ends a window holds the id of one.    *)
PublishInv ==
  \A o \in Operators :
    /\ op[o].at \in {"publish", "end"} => op[o].id \in DOMAIN windows
    /\ op[o].at = "publish" =>
         /\ ~windows[op[o].id].scheduledSent
         /\ \A p \in Operators : op[p].at = "publish" /\ op[p].id = op[o].id => p = o

(* A row that a tick read is as it was, but that its window may have been   *)
(* shortened and announced since.                                          *)
RowInv ==
  /\ tick.at \in {"idle", "awake"} => tick.rows = {}
  /\ \A row \in tick.rows :
       /\ row.starts = windows[row.id].starts /\ windows[row.id].ends <= row.ends
       /\ row.scheduled => windows[row.id].scheduledSent

(* Without a reload, a tick works with the setting that everybody sees.     *)
SettingInv ==
  used.toggles = 0 =>
    /\ tick.at # "idle" => tick.enabled = enabled
    /\ \A id \in DOMAIN windows : "started" \in Told(id) => enabled

IInv == TypeOK /\ WindowInv /\ PublishInv /\ RowInv /\ SettingInv /\ StartedIsCompleted

-----------------------------------------------------------------------------
(* Facts about sequences of messages.                                      *)

\* A set of positions that has one member at most counts one at most.
LEMMA OneAtMost ==
  ASSUME NEW n \in Nat, NEW S, S \subseteq 1..n, \A i, j \in S : i = j
  PROVE  Cardinality(S) <= 1
  <1>1. CASE S = {}
    BY <1>1, FS_EmptySet
  <1>2. CASE S # {}
    <2>1. PICK i \in S : S = {i}
      BY <1>2
    <2>2. QED
      BY <2>1, FS_Singleton
  <1>3. QED
    BY <1>1, <1>2

\* Saying something adds it at the end.
LEMMA Said ==
  ASSUME NEW s \in Seq(Kind), NEW kind \in Kind
  PROVE  /\ Append(s, kind) \in Seq(Kind)
         /\ Len(s) \in Nat /\ DOMAIN s = 1..Len(s)
         /\ DOMAIN Append(s, kind) = 1..(Len(s) + 1)
         /\ \A i \in 1..Len(s) : Append(s, kind)[i] = s[i]
         /\ Append(s, kind)[Len(s) + 1] = kind
         /\ Heard(Append(s, kind)) = Heard(s) \cup {kind}
  <1>1. /\ Append(s, kind) \in Seq(Kind) /\ Len(s) \in Nat /\ DOMAIN s = 1..Len(s)
        /\ DOMAIN Append(s, kind) = 1..(Len(s) + 1)
        /\ \A i \in 1..Len(s) : Append(s, kind)[i] = s[i]
        /\ Append(s, kind)[Len(s) + 1] = kind
    BY AppendProperties, LenProperties
  <1>2. Heard(Append(s, kind)) = Heard(s) \cup {kind}
    <2>1. ASSUME NEW x \in Heard(Append(s, kind)) PROVE x \in Heard(s) \cup {kind}
      BY <1>1 DEF Heard
    <2>2. ASSUME NEW x \in Heard(s) PROVE x \in Heard(Append(s, kind))
      BY <1>1 DEF Heard
    <2>3. kind \in Heard(Append(s, kind))
      BY <1>1 DEF Heard
    <2>4. QED
      BY <2>1, <2>2, <2>3
  <1>3. QED
    BY <1>1, <1>2

\* What was not said before keeps a sensible sequence sensible, when it is
\* not the second word about the end, nor comes after the end.
LEMMA SensibleSaid ==
  ASSUME NEW s \in Seq(Kind), Sensible(s), NEW kind \in Kind, kind \notin Heard(s),
         kind \in {"scheduled", "started"} \/ Heard(s) \cap {"completed", "cancelled"} = {},
         kind = "started" => Heard(s) \cap {"completed", "cancelled"} = {},
         kind = "cancelled" => "scheduled" \in Heard(s)
  PROVE  Sensible(Append(s, kind))
  <1> DEFINE t == Append(s, kind)
             n == Len(s) + 1
  <1>1. /\ Len(s) \in Nat /\ DOMAIN s = 1..Len(s) /\ DOMAIN t = 1..n
        /\ \A i \in 1..Len(s) : t[i] = s[i]
        /\ t[n] = kind /\ Heard(t) = Heard(s) \cup {kind}
    BY Said
  <1> HIDE DEF t
  <1>2. \A i \in 1..Len(s) : s[i] # kind /\ s[i] \in Heard(s)
    BY <1>1 DEF Heard
  <1>3. NoneTwice(t)
    BY <1>1, <1>2 DEF Sensible, NoneTwice
  <1>4. /\ ~({"completed", "cancelled"} \subseteq Heard(t))
        /\ "cancelled" \in Heard(t) => "scheduled" \in Heard(t)
    BY <1>1 DEF Sensible
  <1>5. ASSUME NEW a, NEW b, Precedes(s, a, b), kind = a => b \notin Heard(s), a # b
        PROVE  Precedes(t, a, b)
    BY <1>1, <1>2, <1>5 DEF Precedes
  <1>6. /\ Precedes(t, "scheduled", "cancelled")
        /\ Precedes(t, "started", "completed") /\ Precedes(t, "started", "cancelled")
    BY <1>5 DEF Sensible
  <1>7. QED
    BY <1>3, <1>4, <1>6 DEF Sensible, t

-----------------------------------------------------------------------------
(* What one row may turn into.                                             *)

RowOK(w) == w \in Window /\ Claimed(w) /\ Sensible(w.told)

\* Claiming a window, or ending it, without a message.
LEMMA ChangedSilently ==
  ASSUME NEW w, RowOK(w), NEW v \in Window,
         v.told = w.told, v.scheduledSent = w.scheduledSent,
         w.startedSent => v.startedSent, w.completedSent => v.completedSent,
         v.completedSent => v.startedSent
  PROVE  RowOK(v)
  BY DEF RowOK, Claimed

\* The flag that goes with a message, and the flags that stay.
Flagged(w, v, kind) ==
  CASE kind = "scheduled" ->
         /\ ~w.scheduledSent /\ v.scheduledSent
         /\ v.startedSent = w.startedSent /\ v.completedSent = w.completedSent
    [] kind = "started" ->
         /\ ~w.startedSent /\ v.startedSent
         /\ v.scheduledSent = w.scheduledSent /\ v.completedSent = w.completedSent
    [] OTHER ->
         /\ ~w.completedSent /\ v.completedSent /\ v.startedSent
         /\ v.scheduledSent = w.scheduledSent

\* A message that goes out with its flag, for the first time.
LEMMA ChangedWithMessage ==
  ASSUME NEW w, RowOK(w), NEW v \in Window, NEW kind \in Kind,
         v.told = Append(w.told, kind), Flagged(w, v, kind),
         kind = "cancelled" => w.scheduledSent
  PROVE  RowOK(v)
  <1>1. w.told \in Seq(Kind)
    BY DEF RowOK, Window
  <1>2. Heard(v.told) = Heard(w.told) \cup {kind}
    BY <1>1, Said
  <1>3. kind \in {"scheduled", "started", "completed", "cancelled"}
    BY DEF Kind
  <1>4. Claimed(v)
    BY <1>2, <1>3 DEF RowOK, Claimed, Flagged
  <1>5. /\ kind \notin Heard(w.told)
        /\ kind \in {"scheduled", "started"} \/ Heard(w.told) \cap {"completed", "cancelled"} = {}
        /\ kind = "started" => Heard(w.told) \cap {"completed", "cancelled"} = {}
        /\ kind = "cancelled" => "scheduled" \in Heard(w.told)
    BY <1>3 DEF RowOK, Claimed, Flagged
  <1>6. Sensible(v.told)
    BY <1>1, <1>5, SensibleSaid DEF RowOK
  <1>7. QED
    BY <1>4, <1>6 DEF RowOK

-----------------------------------------------------------------------------
(* What a step may do to the table.                                        *)

RowsOK == windows \in Seq(Window) /\ WindowInv

\* Rows stay, start when they did, end no later, and keep their flags.
Kept ==
  /\ RowsOK' /\ Len(windows) <= Len(windows')
  /\ \A id \in DOMAIN windows :
       /\ id \in DOMAIN windows'
       /\ windows'[id].starts = windows[id].starts /\ windows'[id].ends <= windows[id].ends
       /\ windows[id].scheduledSent => windows'[id].scheduledSent
       /\ windows[id].completedSent => windows'[id].completedSent

\* What the table is made of.
LEMMA RowFacts ==
  ASSUME RowsOK
  PROVE  /\ Len(windows) \in Nat /\ DOMAIN windows = 1..Len(windows)
         /\ \A id \in DOMAIN windows :
              /\ RowOK(windows[id]) /\ windows[id] \in Window
              /\ windows[id].starts \in Nat /\ windows[id].ends \in Nat
              /\ windows[id].told \in Seq(Kind)
  <1>1. Len(windows) \in Nat /\ DOMAIN windows = 1..Len(windows)
    BY LenProperties DEF RowsOK
  <1>2. \A id \in DOMAIN windows : windows[id] \in Window
    BY <1>1, ElementOfSeq DEF RowsOK
  <1>3. QED
    BY <1>1, <1>2 DEF RowsOK, WindowInv, RowOK, Window

\* A step that leaves the table alone keeps it.
LEMMA Untouched ==
  ASSUME RowsOK, UNCHANGED windows
  PROVE  Kept
  BY RowFacts DEF Kept, RowsOK, WindowInv

\* One row is rewritten by one that may take its place.
LEMMA Rewritten ==
  ASSUME RowsOK, NEW id \in DOMAIN windows, NEW v, RowOK(v),
         windows' = [windows EXCEPT ![id] = v],
         v.starts = windows[id].starts, v.ends <= windows[id].ends,
         windows[id].scheduledSent => v.scheduledSent,
         windows[id].completedSent => v.completedSent
  PROVE  /\ Kept /\ Len(windows') = Len(windows) /\ DOMAIN windows' = DOMAIN windows
         /\ windows'[id] = v /\ \A j \in DOMAIN windows : j # id => windows'[j] = windows[j]
  <1>1. v \in Window
    BY DEF RowOK
  <1>2. /\ windows' \in Seq(Window) /\ Len(windows') = Len(windows)
        /\ \A j \in 1..Len(windows) : windows'[j] = IF j = id THEN v ELSE windows[j]
    BY <1>1, RowFacts, ExceptSeq DEF RowsOK
  <1>3. DOMAIN windows' = 1..Len(windows)
    BY <1>2, LenProperties
  <1>4. \A j \in DOMAIN windows' : RowOK(windows'[j])
    BY <1>2, <1>3, RowFacts
  <1>5. RowsOK'
    BY <1>2, <1>4 DEF RowsOK, WindowInv, RowOK
  <1>6. QED
    BY <1>2, <1>3, <1>5, RowFacts DEF Kept

-----------------------------------------------------------------------------
(* The invariant in parts.                                                 *)

OpsOK == op \in [Operators -> Request] /\ \A o \in Operators : op[o].id <= Len(windows)

TickOK == tick \in Ticker /\ \A row \in tick.rows : row.id \in DOMAIN windows

OthersOK == now \in Nat /\ enabled \in BOOLEAN /\ used \in [{"cuts", "toggles"} -> Nat]

\* TypeOK says of the rows no more than WindowInv.
LEMMA TypeParts ==
  ASSUME WindowInv
  PROVE  TypeOK <=> windows \in Seq(Window) /\ OthersOK /\ OpsOK /\ TickOK
  BY DEF TypeOK, WindowInv, Claimed, Told, Heard, OpsOK, TickOK, OthersOK

\* What a tick read stays true of a table whose rows are kept.
LEMMA TickKept ==
  ASSUME RowsOK, Kept, TickOK, RowInv, tick' \in Ticker,
         tick'.at \in {"idle", "awake"} => tick'.rows = {}, tick'.rows \subseteq tick.rows
  PROVE  TickOK' /\ RowInv'
  <1>1. ASSUME NEW row \in tick'.rows
        PROVE  /\ row.id \in DOMAIN windows'
               /\ row.starts = windows'[row.id].starts /\ windows'[row.id].ends <= row.ends
               /\ row.scheduled => windows'[row.id].scheduledSent
    <2>1. /\ row \in Row /\ row.id \in DOMAIN windows
          /\ row.starts = windows[row.id].starts /\ windows[row.id].ends <= row.ends
          /\ row.scheduled => windows[row.id].scheduledSent
      BY DEF TickOK, RowInv, Ticker
    <2>2. row.ends \in Nat /\ windows[row.id].ends \in Nat
      BY <2>1, RowFacts DEF Row
    <2>3. row.id \in DOMAIN windows' /\ windows'[row.id].ends \in Nat
      <3>1. row.id \in DOMAIN windows'
        BY <2>1 DEF Kept
      <3>2. windows' \in Seq(Window) /\ windows'[row.id] \in Window
        BY <3>1, LenProperties, ElementOfSeq DEF Kept, RowsOK
      <3>3. QED
        BY <3>1, <3>2 DEF Window
    <2>4. QED
      BY <2>1, <2>2, <2>3 DEF Kept
  <1>2. QED
    BY <1>1 DEF TickOK, RowInv

\* Handlers that hold what they held, or nothing, keep their part.
LEMMA OpsKept ==
  ASSUME RowsOK, Kept, OpsOK, op' \in [Operators -> Request],
         \A o \in Operators : op'[o].id = op[o].id \/ op'[o].id <= Len(windows')
  PROVE  OpsOK'
  <1>1. Len(windows) \in Nat /\ Len(windows') \in Nat
    BY RowFacts, LenProperties DEF Kept, RowsOK
  <1>2. \A o \in Operators : op[o].id \in Nat
    BY DEF OpsOK, Request
  <1>3. QED
    BY <1>1, <1>2 DEF Kept, OpsOK

\* No handler comes to publish, and no window that one is about to publish is
\* announced otherwise.
LEMMA PublishKept ==
  ASSUME RowsOK, Kept, PublishInv,
         \A o \in Operators : op'[o].at = "publish" => op[o].at = "publish" /\ op'[o] = op[o],
         \A o \in Operators : op'[o].at = "publish" =>
           windows'[op[o].id].scheduledSent = windows[op[o].id].scheduledSent,
         \A o \in Operators : op'[o].at = "end" => op'[o] = op[o] \/ op'[o].id \in DOMAIN windows
  PROVE  PublishInv'
  BY DEF PublishInv, Kept

\* The invariant after a step, from its parts.
LEMMA Assembled ==
  ASSUME RowsOK', OthersOK', OpsOK', TickOK', PublishInv', RowInv', SettingInv',
         StartedIsCompleted'
  PROVE  IInv'
  <1>1. TypeOK'
    BY DEF TypeOK, RowsOK, WindowInv, Claimed, Told, Heard, OpsOK, TickOK, OthersOK
  <1>2. QED
    BY <1>1 DEF IInv, RowsOK

\* And its parts.
LEMMA Parts ==
  ASSUME IInv
  PROVE  /\ RowsOK /\ OthersOK /\ OpsOK /\ TickOK /\ PublishInv /\ RowInv
         /\ SettingInv /\ StartedIsCompleted
  BY TypeParts DEF IInv, RowsOK

\* A request that publishes nothing, and names a row if it ends one.
Harmless(r) ==
  /\ r.at # "publish" /\ r.id <= Len(windows)
  /\ r.at = "end" => r.id \in DOMAIN windows

\* A step that does not write the table, and sends nobody to publish.
LEMMA Quiet ==
  ASSUME IInv, UNCHANGED windows, OthersOK', TickOK', RowInv',
         used'.toggles = 0 => used.toggles = 0 /\ enabled' = enabled,
         tick'.at # "idle" =>
           tick'.enabled = enabled \/ (tick.at # "idle" /\ tick'.enabled = tick.enabled),
         op' \in [Operators -> Request],
         \A o \in Operators : op'[o] = op[o] \/ Harmless(op'[o])
  PROVE  IInv'
  <1> USE Parts
  <1>1. Kept /\ RowsOK'
    BY Untouched DEF Kept
  <1>2. OpsOK'
    BY <1>1, OpsKept DEF Harmless
  <1>3. PublishInv'
    BY <1>1, PublishKept DEF Harmless
  <1>4. SettingInv'
    BY DEF SettingInv, Told
  <1>5. StartedIsCompleted'
    BY DEF StartedIsCompleted, Told
  <1>6. QED
    BY <1>1, <1>2, <1>3, <1>4, <1>5, Assembled

-----------------------------------------------------------------------------
(* Operators.                                                              *)

\* A handler that goes on with another request, or with none.
LEMMA RequestSet ==
  ASSUME IInv, NEW o, NEW r \in Request, Harmless(r),
         op' = [op EXCEPT ![o] = r]
  PROVE  /\ op' \in [Operators -> Request]
         /\ \A p \in Operators : op'[p] = op[p] \/ Harmless(op'[p])
  BY Parts DEF OpsOK

\* An idle handler is a request that names no row.
LEMMA IdleRequest ==
  ASSUME IInv
  PROVE  /\ IdleOp \in Request /\ IdleOp.at = "idle" /\ IdleOp.id <= Len(windows)
         /\ Harmless(IdleOp)
  BY Parts, RowFacts DEF IdleOp, Request, Harmless

\* A step of a handler leaves what a tick holds of the same rows.
LEMMA TickSame ==
  ASSUME IInv, UNCHANGED <<windows, tick>>
  PROVE  TickOK' /\ RowInv'
  BY Parts DEF TickOK, RowInv

\* start_maintenance takes the time and plans a window from it on.
LEMMA StartMaintenanceInv ==
  ASSUME MaintenanceAssumption, IInv, NEW o \in Operators, NEW ahead \in Starts,
         NEW duration \in Durations, StartMaintenance(o, ahead, duration)
  PROVE  IInv'
  <1> DEFINE r == [IdleOp EXCEPT !.at = "create", !.now = now, !.starts = now + ahead,
                                 !.ends = now + ahead + duration]
  <1>1. now \in Nat /\ ahead \in Nat /\ duration \in Nat
    BY Parts DEF OthersOK, MaintenanceAssumption
  <1>2. r \in Request /\ r.at = "create" /\ r.id = 0
    <2> DEFINE a == [IdleOp EXCEPT !.at = "create"]
               b == [a EXCEPT !.now = now]
               c == [b EXCEPT !.starts = now + ahead]
    <2>1. a \in Request /\ a.at = "create" /\ a.id = 0
      BY DEF IdleOp, Request
    <2> HIDE DEF a
    <2>2. b \in Request /\ b.at = "create" /\ b.id = 0
      BY <1>1, <2>1 DEF Request
    <2> HIDE DEF b
    <2>3. c \in Request /\ c.at = "create" /\ c.id = 0
      BY <1>1, <2>2 DEF Request
    <2> HIDE DEF c
    <2>4. r = [c EXCEPT !.ends = now + ahead + duration]
      BY DEF a, b, c
    <2> HIDE DEF r
    <2>5. QED
      BY <1>1, <2>3, <2>4 DEF Request
  <1> HIDE DEF r
  <1>3. op' = [op EXCEPT ![o] = r] /\ UNCHANGED <<windows, now, enabled, tick, used>>
    BY DEF StartMaintenance, r
  <1>4. QED
    <2>1. /\ op' \in [Operators -> Request]
          /\ \A p \in Operators : op'[p] = op[p] \/ Harmless(op'[p])
      <3>1. Harmless(r)
        BY <1>2, Parts, RowFacts DEF Harmless
      <3>2. QED
        BY <1>2, <1>3, <3>1, RequestSet
    <2>2. OthersOK' /\ TickOK' /\ RowInv'
      BY <1>3, TickSame, Parts DEF OthersOK
    <2>3. QED
      BY <1>3, <2>1, <2>2, Quiet

\* end_maintenance takes the time and the id of a window.
LEMMA EndMaintenanceInv ==
  ASSUME IInv, NEW o \in Operators, NEW id \in DOMAIN windows, EndMaintenance(o, id)
  PROVE  IInv'
  <1> DEFINE r == [IdleOp EXCEPT !.at = "end", !.now = now, !.id = id]
  <1>1. now \in Nat /\ id \in Nat /\ id <= Len(windows)
    BY Parts, RowFacts DEF OthersOK
  <1>2. r \in Request /\ r.at = "end" /\ r.id = id
    BY <1>1 DEF IdleOp, Request
  <1> HIDE DEF r
  <1>3. op' = [op EXCEPT ![o] = r] /\ UNCHANGED <<windows, now, enabled, tick, used>>
    BY DEF EndMaintenance, r
  <1>4. QED
    <2>1. /\ op' \in [Operators -> Request]
          /\ \A p \in Operators : op'[p] = op[p] \/ Harmless(op'[p])
      BY <1>1, <1>2, <1>3, RequestSet DEF Harmless
    <2>2. OthersOK' /\ TickOK' /\ RowInv'
      BY <1>3, TickSame, Parts DEF OthersOK
    <2>3. QED
      BY <1>3, <2>1, <2>2, Quiet

\* A handler that fails is forgotten.
LEMMA OpFailsInv ==
  ASSUME IInv, NEW o \in Operators, OpFails(o)
  PROVE  IInv'
  <1>1. op' = [op EXCEPT ![o] = IdleOp] /\ UNCHANGED <<windows, now, enabled, tick>>
    BY DEF OpFails
  <1>2. OthersOK' /\ used'.toggles = used.toggles
    BY Parts DEF OpFails, Spend, OthersOK
  <1>3. QED
    BY <1>1, <1>2, IdleRequest, RequestSet, TickSame, Quiet, Parts DEF SettingInv

\* A window that was just planned.
Planned(o) ==
  [starts |-> op[o].starts, ends |-> op[o].ends, scheduledSent |-> FALSE,
   startedSent |-> FALSE, completedSent |-> FALSE, told |-> <<>>]

\* Of a window just planned nothing was said.
LEMMA PlannedOK ==
  ASSUME OpsOK, NEW o \in Operators
  PROVE  RowOK(Planned(o)) /\ Planned(o).told = <<>> /\ ~Planned(o).scheduledSent
  <1> DEFINE w == Planned(o)
  <1>1. op[o].starts \in Nat /\ op[o].ends \in Nat
    BY DEF OpsOK, Request
  <1>2. <<>> \in Seq(Kind) /\ DOMAIN <<>> = {}
    BY EmptySeq, LenProperties
  <1>3. w \in Window
    BY <1>1, <1>2 DEF Planned, Window
  <1>4. /\ w.told = <<>> /\ ~w.scheduledSent /\ ~w.startedSent /\ ~w.completedSent
    BY DEF Planned
  <1> HIDE DEF w
  <1>5. Heard(w.told) = {}
    BY <1>2, <1>4 DEF Heard
  <1>6. Claimed(w)
    BY <1>4, <1>5 DEF Claimed
  <1>7. Sensible(w.told)
    BY <1>2, <1>4, <1>5 DEF Sensible, NoneTwice, Precedes
  <1>8. QED
    BY <1>3, <1>4, <1>6, <1>7 DEF RowOK, w

\* create_maintenance adds a row under an id that no handler holds, and a
\* handler that goes on to publish is the only one to hold it.
LEMMA CreateMaintenanceInv ==
  ASSUME IInv, NEW o \in Operators, CreateMaintenance(o)
  PROVE  IInv'
  <1> USE Parts
  <1> DEFINE w == Planned(o)
             n == Len(windows) + 1
  <1>1. /\ op[o].at = "create" /\ windows' = Append(windows, w)
        /\ UNCHANGED <<now, enabled, tick, used>>
    BY DEF CreateMaintenance, Planned
  <1>2. RowOK(w) /\ w.told = <<>> /\ ~w.scheduledSent
    BY PlannedOK
  <1> HIDE DEF w
  <1>3. /\ Len(windows) \in Nat /\ DOMAIN windows = 1..Len(windows)
        /\ windows \in Seq(Window) /\ w \in Window
    BY <1>2, RowFacts DEF RowsOK, RowOK
  <1>4. /\ windows' \in Seq(Window) /\ Len(windows') = n /\ DOMAIN windows' = 1..n
        /\ \A id \in DOMAIN windows : windows'[id] = windows[id]
        /\ windows'[n] = w
    BY <1>1, <1>3, AppendProperties, LenProperties
  <1>5. \A id \in DOMAIN windows' : id \in DOMAIN windows \/ id = n
    BY <1>3, <1>4
  <1>6. RowsOK'
    <2>1. \A id \in DOMAIN windows' : RowOK(windows'[id])
      BY <1>2, <1>4, <1>5, RowFacts
    <2>2. QED
      BY <1>4, <2>1 DEF RowsOK, WindowInv, RowOK
  <1>7. Kept
    BY <1>3, <1>4, <1>6, RowFacts DEF Kept
  <1>8. PICK r \in Request : /\ op' = [op EXCEPT ![o] = r] /\ r.id <= n
                             /\ r.at = "publish" => r.id = n
                             /\ r.at # "end"
    <2> DEFINE a == [op[o] EXCEPT !.at = "publish"]
               g == [op[o] EXCEPT !.at = "publish", !.id = n]
    <2>1. op[o] \in Request
      BY DEF OpsOK
    <2>2. a \in Request /\ a.at = "publish"
      BY <2>1 DEF Request
    <2>3. g = [a EXCEPT !.id = n]
      BY DEF a, g
    <2>4. op' = [op EXCEPT ![o] = IF op[o].starts > op[o].now THEN g ELSE IdleOp]
      BY <1>4 DEF CreateMaintenance
    <2> HIDE DEF a, g
    <2>5. g \in Request /\ g.id = n /\ g.at = "publish"
      BY <1>3, <2>2, <2>3 DEF Request
    <2>6. IdleOp \in Request /\ IdleOp.at = "idle" /\ IdleOp.id <= n
      BY <1>3, IdleRequest DEF IdleOp
    <2>7. n <= n
      BY <1>3
    <2>8. CASE op[o].starts > op[o].now
      <3>1. op' = [op EXCEPT ![o] = g]
        BY <2>4, <2>8
      <3>2. QED
        BY <2>5, <2>7, <3>1
    <2>9. CASE ~(op[o].starts > op[o].now)
      <3>1. op' = [op EXCEPT ![o] = IdleOp]
        BY <2>4, <2>9
      <3>2. QED
        BY <2>6, <3>1
    <2>10. QED
      BY <2>8, <2>9
  <1>9. OpsOK'
    <2>1. op' \in [Operators -> Request]
      BY <1>8 DEF OpsOK
    <2>2. \A p \in Operators : op'[p].id = op[p].id \/ op'[p].id <= Len(windows')
      BY <1>4, <1>8 DEF OpsOK
    <2>3. QED
      BY <1>7, <2>1, <2>2, OpsKept
  <1>10. PublishInv'
    <2>1. \A p \in Operators : op'[p] = IF p = o THEN r ELSE op[p]
      BY <1>8 DEF OpsOK
    <2>2. \A p \in Operators : op[p].id \in Nat /\ op[p].id <= Len(windows)
      BY DEF OpsOK, Request
    <2>3. \A p \in Operators : p # o => op'[p].id # n
      BY <1>3, <2>1, <2>2
    <2>4. n \in DOMAIN windows' /\ \A id \in DOMAIN windows : id \in DOMAIN windows'
      BY <1>3, <1>4
    <2>5. QED
      BY <1>2, <1>4, <1>8, <2>1, <2>3, <2>4 DEF PublishInv
  <1>11. TickOK' /\ RowInv'
    BY <1>1, <1>7, TickKept DEF TickOK, RowInv
  <1>12. \A id \in DOMAIN windows' : "started" \in Told(id)' => id \in DOMAIN windows /\ "started" \in Told(id)
    BY <1>2, <1>4, <1>5, EmptySeq, LenProperties DEF Told
  <1>13. SettingInv'
    BY <1>1, <1>12 DEF SettingInv
  <1>14. StartedIsCompleted'
    BY <1>1, <1>4, <1>12 DEF StartedIsCompleted, Told
  <1>15. OthersOK'
    BY <1>1 DEF OthersOK
  <1>16. QED
    BY <1>6, <1>9, <1>10, <1>11, <1>13, <1>14, <1>15, Assembled
-----------------------------------------------------------------------------
(* Steps that write one row.                                               *)

\* A step that rewrites one row keeps the invariant, when what the new row
\* says of a start is said with subscriptions on, and what it says of an end
\* is complete.
LEMMA RowWritten ==
  ASSUME IInv, NEW id \in DOMAIN windows, NEW v, RowOK(v),
         windows' = [windows EXCEPT ![id] = v], UNCHANGED <<now, enabled, used>>,
         v.starts = windows[id].starts, v.ends <= windows[id].ends,
         windows[id].scheduledSent => v.scheduledSent,
         windows[id].completedSent => v.completedSent,
         used.toggles = 0 /\ "started" \in Heard(v.told) => enabled,
         used.toggles = 0 /\ v.completedSent /\ "started" \in Heard(v.told) /\ v.ends > v.starts
           => "completed" \in Heard(v.told),
         op' \in [Operators -> Request],
         \A p \in Operators : op'[p] = op[p] \/ op'[p] = IdleOp,
         \A p \in Operators : op'[p].at = "publish" /\ op[p].id = id =>
           v.scheduledSent = windows[id].scheduledSent,
         tick' \in Ticker, tick'.rows \subseteq tick.rows,
         tick'.at = tick.at /\ tick'.enabled = tick.enabled
  PROVE  IInv'
  <1> USE Parts
  <1>1. /\ Kept /\ Len(windows') = Len(windows) /\ DOMAIN windows' = DOMAIN windows
        /\ windows'[id] = v /\ \A j \in DOMAIN windows : j # id => windows'[j] = windows[j]
    BY Rewritten
  <1>2. RowsOK'
    BY <1>1 DEF Kept
  <1>3. OthersOK'
    BY DEF OthersOK
  <1>4. OpsOK'
    BY <1>1, IdleRequest, OpsKept
  <1>5. PublishInv'
    <2>1. \A p \in Operators : op'[p].at = "publish" => op[p].at = "publish" /\ op'[p] = op[p]
      BY IdleRequest
    <2>2. ASSUME NEW p \in Operators, op'[p].at = "publish"
          PROVE  windows'[op[p].id].scheduledSent = windows[op[p].id].scheduledSent
      <3>1. op[p].id \in DOMAIN windows
        BY <2>1, <2>2 DEF PublishInv
      <3>2. QED
        BY <1>1, <2>2, <3>1
    <2>3. \A p \in Operators : op'[p].at = "end" => op'[p] = op[p]
      BY IdleRequest
    <2>4. QED
      BY <1>1, <2>1, <2>2, <2>3, PublishKept
  <1>6. TickOK' /\ RowInv'
    <2>1. tick'.at \in {"idle", "awake"} => tick'.rows = {}
      BY DEF RowInv
    <2>2. QED
      BY <1>1, <2>1, TickKept
  <1>7. \A j \in DOMAIN windows : Told(j)' = IF j = id THEN Heard(v.told) ELSE Told(j)
    BY <1>1 DEF Told, Heard
  <1>8. SettingInv'
    BY <1>1, <1>7 DEF SettingInv
  <1>9. StartedIsCompleted'
    BY <1>1, <1>7 DEF StartedIsCompleted
  <1>10. QED
    BY <1>2, <1>3, <1>4, <1>5, <1>6, <1>8, <1>9, Assembled

\* What the invariant says of one row.
LEMMA RowSaid ==
  ASSUME IInv, NEW id \in DOMAIN windows
  PROVE  /\ RowOK(windows[id]) /\ windows[id] \in Window
         /\ windows[id].starts \in Nat /\ windows[id].ends \in Nat
         /\ windows[id].told \in Seq(Kind)
         /\ used.toggles = 0 /\ "started" \in Heard(windows[id].told) => enabled
         /\ used.toggles = 0 /\ windows[id].completedSent /\ "started" \in Heard(windows[id].told)
              /\ windows[id].ends > windows[id].starts => "completed" \in Heard(windows[id].told)
  <1>1. Told(id) = Heard(windows[id].told)
    BY DEF Told, Heard
  <1>2. QED
    BY <1>1, Parts, RowFacts DEF SettingInv, StartedIsCompleted

\* publish_scheduled: the flag and the messages, when subscriptions are on.
LEMMA PublishScheduledInv ==
  ASSUME IInv, NEW o \in Operators, PublishScheduled(o)
  PROVE  IInv'
  <1> USE Parts
  <1> DEFINE id == op[o].id
             w == windows[id]
             u == [w EXCEPT !.scheduledSent = TRUE]
             v == [u EXCEPT !.told = Append(@, "scheduled")]
  <1>1. /\ op[o].at = "publish" /\ op' = [op EXCEPT ![o] = IdleOp]
        /\ UNCHANGED <<now, enabled, tick, used>>
    BY DEF PublishScheduled
  <1>2. id \in DOMAIN windows /\ ~w.scheduledSent
    BY <1>1 DEF PublishInv
  <1>3. /\ op' \in [Operators -> Request] /\ \A p \in Operators : op'[p] = op[p] \/ op'[p] = IdleOp
        /\ op'[o] = IdleOp
    BY <1>1, IdleRequest DEF OpsOK
  <1>4. CASE ~enabled
    <2>1. UNCHANGED windows
      BY <1>4 DEF PublishScheduled
    <2>2. OthersOK' /\ TickOK' /\ RowInv'
      BY <1>1, <2>1, TickSame DEF OthersOK
    <2>3. \A p \in Operators : op'[p] = op[p] \/ Harmless(op'[p])
      BY <1>3, IdleRequest
    <2>4. QED
      BY <1>1, <1>3, <2>1, <2>2, <2>3, Quiet
  <1>5. CASE enabled
    <2>1. windows' = [windows EXCEPT ![id] = v]
      BY <1>5 DEF PublishScheduled, Tell
    <2>2. "scheduled" \in Kind
      BY DEF Kind
    <2>3. w \in Window /\ w.told \in Seq(Kind)
      BY <1>2, RowSaid
    <2>4. Append(w.told, "scheduled") \in Seq(Kind)
      BY <2>2, <2>3, Said
    <2>5. /\ u \in Window /\ u.told = w.told /\ u.scheduledSent
          /\ u.starts = w.starts /\ u.ends = w.ends
          /\ u.startedSent = w.startedSent /\ u.completedSent = w.completedSent
      BY <2>3 DEF Window
    <2> HIDE DEF u
    <2>6. /\ v \in Window /\ v.told = Append(w.told, "scheduled") /\ v.scheduledSent
          /\ v.starts = w.starts /\ v.ends = w.ends
          /\ v.startedSent = w.startedSent /\ v.completedSent = w.completedSent
      BY <2>4, <2>5 DEF Window
    <2> HIDE DEF v
    <2>7. Flagged(w, v, "scheduled")
      BY <1>2, <2>6 DEF Flagged
    <2>8. RowOK(v)
      BY <1>2, <2>2, <2>6, <2>7, RowSaid, ChangedWithMessage
    <2>9. Heard(v.told) = Heard(w.told) \cup {"scheduled"}
      BY <2>2, <2>3, <2>6, Said
    <2>10. /\ v.starts = w.starts /\ v.ends <= w.ends
           /\ w.scheduledSent => v.scheduledSent
           /\ w.completedSent => v.completedSent
           /\ used.toggles = 0 /\ "started" \in Heard(v.told) => enabled
           /\ used.toggles = 0 /\ v.completedSent /\ "started" \in Heard(v.told) /\ v.ends > v.starts
                => "completed" \in Heard(v.told)
      BY <1>2, <1>5, <2>6, <2>9, RowSaid
    <2>11. \A p \in Operators : op'[p].at = "publish" /\ op[p].id = id =>
             v.scheduledSent = w.scheduledSent
      BY <1>1, <1>3, IdleRequest DEF PublishInv
    <2>12. tick' \in Ticker /\ tick'.rows \subseteq tick.rows /\ tick'.at = tick.at /\ tick'.enabled = tick.enabled
      BY <1>1 DEF TickOK
    <2> HIDE DEF w, id
    <2>13. QED
      BY <1>1, <1>2, <1>3, <2>1, <2>8, <2>10, <2>11, <2>12, RowWritten DEF w
  <1>6. QED
    BY <1>4, <1>5 DEF OthersOK

\* end_maintenance_window shortens a window at most, and says nothing.
LEMMA EndWindowInv ==
  ASSUME IInv, NEW o \in Operators, EndWindow(o)
  PROVE  IInv'
  <1> USE Parts
  <1> DEFINE id == op[o].id
             w == windows[id]
             v == [w EXCEPT !.ends = op[o].now]
  <1>1. /\ op[o].at = "end" /\ op' = [op EXCEPT ![o] = IdleOp]
        /\ UNCHANGED <<now, enabled, tick, used>>
    BY DEF EndWindow
  <1>2. /\ op' \in [Operators -> Request] /\ \A p \in Operators : op'[p] = op[p] \/ op'[p] = IdleOp
        /\ id \in DOMAIN windows
    BY <1>1, IdleRequest DEF OpsOK, PublishInv
  <1>3. CASE ~(w.ends > op[o].now)
    <2>1. UNCHANGED windows
      BY <1>3 DEF EndWindow
    <2>2. OthersOK' /\ TickOK' /\ RowInv'
      BY <1>1, <2>1, TickSame DEF OthersOK
    <2>3. \A p \in Operators : op'[p] = op[p] \/ Harmless(op'[p])
      BY <1>2, IdleRequest
    <2>4. QED
      BY <1>1, <1>2, <2>1, <2>2, <2>3, Quiet
  <1>4. CASE w.ends > op[o].now
    <2>1. windows' = [windows EXCEPT ![id] = v]
      BY <1>4 DEF EndWindow
    <2>2. w \in Window /\ op[o].now \in Nat
      BY <1>2, RowSaid DEF OpsOK, Request
    <2>3. /\ v \in Window /\ v.told = w.told /\ v.scheduledSent = w.scheduledSent
          /\ v.starts = w.starts /\ v.ends = op[o].now
          /\ v.startedSent = w.startedSent /\ v.completedSent = w.completedSent
      BY <2>2 DEF Window
    <2> HIDE DEF v
    <2>4. RowOK(v)
      <3>1. RowOK(w) /\ (w.completedSent => w.startedSent)
        BY <1>2, RowSaid DEF RowOK, Claimed
      <3>2. QED
        BY <2>3, <3>1, ChangedSilently
    <2>5. /\ v.ends <= w.ends
          /\ used.toggles = 0 /\ "started" \in Heard(v.told) => enabled
          /\ used.toggles = 0 /\ v.completedSent /\ "started" \in Heard(v.told) /\ v.ends > v.starts
               => "completed" \in Heard(v.told)
      BY <1>2, <1>4, <2>2, <2>3, RowSaid
    <2>6. tick' \in Ticker /\ tick'.rows \subseteq tick.rows /\ tick'.at = tick.at /\ tick'.enabled = tick.enabled
      BY <1>1 DEF TickOK
    <2> HIDE DEF w, id
    <2>7. QED
      BY <1>1, <1>2, <2>1, <2>3, <2>4, <2>5, <2>6, RowWritten, ZenonT(60) DEF w, id
  <1>5. QED
    BY <1>3, <1>4

-----------------------------------------------------------------------------
(* The tick.                                                               *)

\* A step of a tick that writes nothing leaves the handlers as they are.
LEMMA TickMoves ==
  ASSUME IInv, UNCHANGED <<windows, now, enabled, op>>, TickOK', RowInv',
         used' \in [{"cuts", "toggles"} -> Nat], used'.toggles = used.toggles,
         tick'.at # "idle" =>
           tick'.enabled = enabled \/ (tick.at # "idle" /\ tick'.enabled = tick.enabled)
  PROVE  IInv'
  BY Parts, Quiet DEF OthersOK, OpsOK

\* Nothing is held between two ticks.
LEMMA Asleep ==
  ASSUME tick' = Sleeping
  PROVE  TickOK' /\ RowInv' /\ tick'.at = "idle"
  BY DEF Sleeping, TickOK, RowInv, Ticker

\* The dispatcher takes the config and the time.
LEMMA WakeInv ==
  ASSUME IInv, Wake
  PROVE  IInv'
  <1>1. /\ tick' = [at |-> "awake", now |-> now, enabled |-> enabled, rows |-> {}]
        /\ UNCHANGED <<windows, now, enabled, op, used>>
    BY DEF Wake
  <1>2. now \in Nat /\ enabled \in BOOLEAN /\ used \in [{"cuts", "toggles"} -> Nat]
    BY Parts DEF OthersOK
  <1>3. TickOK' /\ RowInv'
    BY <1>1, <1>2 DEF TickOK, RowInv, Ticker
  <1>4. QED
    BY <1>1, <1>2, <1>3, TickMoves

\* What a tick reads of a row is what the row says.
LEMMA ReadRows ==
  ASSUME IInv, NEW ids, ids \subseteq DOMAIN windows, UNCHANGED windows,
         NEW at \in {"started", "over"},
         tick' = [tick EXCEPT !.at = at, !.rows = {Read(id) : id \in ids}]
  PROVE  TickOK' /\ RowInv' /\ tick'.at = at /\ tick'.enabled = tick.enabled
  <1> DEFINE rows == {Read(id) : id \in ids}
  <1>1. \A id \in ids : /\ Read(id) \in Row /\ Read(id).id = id
                        /\ Read(id).starts = windows[id].starts
                        /\ windows[id].ends <= Read(id).ends
                        /\ Read(id).scheduled = windows[id].scheduledSent
    BY Parts, RowFacts DEF Read, Row, Window
  <1>2. rows \in SUBSET Row
    BY <1>1
  <1>3. tick \in Ticker
    BY Parts DEF TickOK
  <1>4. \A row \in rows : \E id \in ids : row = Read(id)
    OBVIOUS
  <1> HIDE DEF rows
  <1>5. tick' \in Ticker /\ tick'.rows = rows /\ tick'.at = at /\ tick'.enabled = tick.enabled
    BY <1>2, <1>3 DEF Ticker, rows
  <1>6. \A row \in rows : /\ row.id \in DOMAIN windows
                          /\ row.starts = windows[row.id].starts /\ windows[row.id].ends <= row.ends
                          /\ row.scheduled = windows[row.id].scheduledSent
    BY <1>1, <1>4
  <1>7. QED
    BY <1>5, <1>6 DEF TickOK, RowInv

\* maintenance_to_start reads the windows that began.
LEMMA ReadStartedInv ==
  ASSUME IInv, ReadStarted
  PROVE  IInv'
  <1> DEFINE ids == {i \in DOMAIN windows : ~windows[i].startedSent /\ windows[i].starts <= tick.now}
  <1>1. /\ tick.at = "awake" /\ UNCHANGED <<windows, now, enabled, op, used>>
        /\ tick' = [tick EXCEPT !.at = "started", !.rows = {Read(id) : id \in ids}]
    BY DEF ReadStarted
  <1>2. ids \subseteq DOMAIN windows
    OBVIOUS
  <1> HIDE DEF ids
  <1>3. TickOK' /\ RowInv' /\ tick'.enabled = tick.enabled
    BY <1>1, <1>2, ReadRows
  <1>4. QED
    BY <1>1, <1>3, Parts, TickMoves DEF OthersOK

\* maintenance_to_complete reads those that are over.
LEMMA ReadOverInv ==
  ASSUME IInv, ReadOver
  PROVE  IInv'
  <1> DEFINE ids == {i \in DOMAIN windows : ~windows[i].completedSent /\ windows[i].ends <= tick.now}
  <1>1. /\ tick.at = "started" /\ UNCHANGED <<windows, now, enabled, op, used>>
        /\ tick' = [tick EXCEPT !.at = "over", !.rows = {Read(id) : id \in ids}]
    BY DEF ReadOver
  <1>2. ids \subseteq DOMAIN windows
    OBVIOUS
  <1> HIDE DEF ids
  <1>3. TickOK' /\ RowInv' /\ tick'.enabled = tick.enabled
    BY <1>1, <1>2, ReadRows
  <1>4. QED
    BY <1>1, <1>3, Parts, TickMoves DEF OthersOK

\* A tick that ends, fails or is cut off holds nothing any more.
LEMMA TickEndsInv ==
  ASSUME IInv, EndTick \/ TickFails
  PROVE  IInv'
  <1>1. tick' = Sleeping /\ UNCHANGED <<windows, now, enabled, op>>
    BY DEF EndTick, TickFails
  <1>2. used' \in [{"cuts", "toggles"} -> Nat] /\ used'.toggles = used.toggles
    BY Parts DEF EndTick, TickFails, Spend, OthersOK
  <1>3. QED
    BY <1>1, <1>2, Asleep, TickMoves

\* A crash forgets the handlers as well.
LEMMA CrashInv ==
  ASSUME IInv, Crash
  PROVE  IInv'
  <1>1. /\ tick' = Sleeping /\ UNCHANGED <<windows, now, enabled>>
        /\ op' = [o \in Operators |-> IdleOp]
    BY DEF Crash
  <1>2. OthersOK' /\ used'.toggles = used.toggles
    BY Parts DEF Crash, Spend, OthersOK
  <1>3. op' \in [Operators -> Request] /\ \A o \in Operators : Harmless(op'[o])
    BY <1>1, IdleRequest
  <1>4. QED
    BY <1>1, <1>2, <1>3, Asleep, Quiet

\* A reload switches subscriptions, and no promise about them is left.
LEMMA ToggleInv ==
  ASSUME IInv, Toggle
  PROVE  IInv'
  <1>1. enabled' = ~enabled /\ UNCHANGED <<windows, now, op, tick>>
    BY DEF Toggle
  <1>2. used \in [{"cuts", "toggles"} -> Nat] /\ used' = [used EXCEPT !["toggles"] = @ + 1]
    BY Parts DEF Toggle, Spend, OthersOK
  <1>3. used' \in [{"cuts", "toggles"} -> Nat] /\ used'.toggles # 0
    BY <1>2
  <1>4. enabled' \in BOOLEAN
    BY <1>1
  <1>5. OthersOK'
    BY <1>1, <1>3, <1>4, Parts DEF OthersOK
  <1>6. QED
    BY <1>1, <1>3, <1>5, TickSame, Parts, Quiet DEF OpsOK

\* Time passes.
LEMMA PassInv ==
  ASSUME IInv, Pass
  PROVE  IInv'
  <1>1. now' = now + 1 /\ UNCHANGED <<windows, enabled, op, tick, used>>
    BY DEF Pass
  <1>2. OthersOK'
    BY <1>1, Parts DEF OthersOK
  <1>3. QED
    BY <1>1, <1>2, TickSame, Parts, Quiet DEF OpsOK

\* A row that a tick read, when it comes to it.
LEMMA RowOfTick ==
  ASSUME IInv, NEW row \in tick.rows
  PROVE  /\ row.id \in DOMAIN windows /\ row.starts = windows[row.id].starts
         /\ row.starts \in Nat /\ row.ends \in Nat /\ windows[row.id].ends <= row.ends
         /\ row.scheduled => windows[row.id].scheduledSent
         /\ tick.at # "idle" /\ (used.toggles = 0 => tick.enabled = enabled)
         /\ tick \in Ticker
  <1>1. row \in Row
    BY Parts DEF TickOK, Ticker
  <1>2. tick.at # "idle"
    BY Parts DEF RowInv
  <1>3. QED
    BY <1>1, <1>2, Parts DEF TickOK, RowInv, SettingInv, Row

\* What a tick keeps when it is done with a row.
LEMMA RowDone ==
  ASSUME IInv, NEW row \in tick.rows, tick' = [tick EXCEPT !.rows = @ \ {row}],
         UNCHANGED op
  PROVE  /\ tick' \in Ticker /\ tick'.rows \subseteq tick.rows
         /\ tick'.at = tick.at /\ tick'.enabled = tick.enabled
         /\ op' \in [Operators -> Request] /\ \A p \in Operators : op'[p] = op[p]
  BY Parts DEF TickOK, Ticker, OpsOK

\* claim_maintenance_started: the claim, and the messages unless it is over.
LEMMA TellStartedInv ==
  ASSUME IInv, NEW row \in tick.rows, TellStarted(row)
  PROVE  IInv'
  <1> DEFINE id == row.id
             w == windows[id]
             u == [w EXCEPT !.startedSent = TRUE]
             v == [u EXCEPT !.told = Append(@, "started")]
             x == IF w.startedSent THEN w ELSE IF row.ends > tick.now /\ tick.enabled THEN v ELSE u
  <1>1. /\ tick' = [tick EXCEPT !.rows = @ \ {row}] /\ UNCHANGED <<now, enabled, op, used>>
        /\ windows' = [windows EXCEPT ![id] = x]
    BY DEF TellStarted, Tell
  <1>2. /\ id \in DOMAIN windows /\ (used.toggles = 0 => tick.enabled = enabled)
        /\ w \in Window /\ w.told \in Seq(Kind) /\ RowOK(w)
        /\ w.starts \in Nat /\ w.ends \in Nat
    BY RowOfTick, RowSaid
  <1>3. "started" \in Kind
    BY DEF Kind
  <1>4. Append(w.told, "started") \in Seq(Kind)
    BY <1>2, <1>3, Said
  <1>5. /\ u \in Window /\ u.told = w.told /\ u.scheduledSent = w.scheduledSent /\ u.startedSent
        /\ u.starts = w.starts /\ u.ends = w.ends /\ u.completedSent = w.completedSent
    BY <1>2 DEF Window
  <1> HIDE DEF u
  <1>6. /\ v \in Window /\ v.told = Append(w.told, "started")
        /\ v.scheduledSent = w.scheduledSent /\ v.startedSent
        /\ v.starts = w.starts /\ v.ends = w.ends /\ v.completedSent = w.completedSent
    BY <1>4, <1>5 DEF Window
  <1> HIDE DEF v
  <1>7. RowOK(u)
    BY <1>2, <1>5, ChangedSilently
  <1>8. ~w.startedSent => RowOK(v)
    <2>1. ~w.startedSent => Flagged(w, v, "started")
      BY <1>6 DEF Flagged
    <2>2. QED
      BY <1>2, <1>3, <1>6, <2>1, ChangedWithMessage
  <1>9. RowOK(x) /\ x.starts = w.starts /\ x.ends = w.ends /\ x.scheduledSent = w.scheduledSent
        /\ x.completedSent = w.completedSent
    BY <1>2, <1>5, <1>6, <1>7, <1>8
  <1>10. used.toggles = 0 /\ "started" \in Heard(x.told) => enabled
    <2>1. CASE x = v /\ tick.enabled
      BY <1>2, <2>1
    <2>2. CASE x.told = w.told
      BY <1>2, <2>2, RowSaid
    <2>3. QED
      BY <1>5, <2>1, <2>2
  <1>11. used.toggles = 0 /\ x.completedSent /\ "started" \in Heard(x.told) /\ x.ends > x.starts
           => "completed" \in Heard(x.told)
    <2>1. CASE x = w
      BY <1>2, <2>1, RowSaid
    <2>2. CASE ~w.startedSent
      <3>1. ~w.completedSent
        BY <1>2, <2>2 DEF RowOK, Claimed
      <3>2. QED
        BY <1>9, <3>1
    <2>3. QED
      BY <2>1, <2>2
  <1> HIDE DEF x
  <1>12. x.ends <= w.ends
    BY <1>2, <1>9
  <1> HIDE DEF w, id
  <1>13. QED
    BY <1>1, <1>2, <1>9, <1>10, <1>11, <1>12, RowDone, RowWritten, ZenonT(60) DEF w

\* claim_maintenance_completed: both flags, and the one word about the end.
LEMMA TellOverInv ==
  ASSUME IInv, NEW row \in tick.rows, TellOver(row)
  PROVE  IInv'
  <1> DEFINE id == row.id
             w == windows[id]
             k == Final(row)
             u == [w EXCEPT !.startedSent = TRUE, !.completedSent = TRUE]
             v == [u EXCEPT !.told = Append(@, k)]
             x == IF w.completedSent THEN w ELSE IF tick.enabled /\ k # "none" THEN v ELSE u
  <1>1. /\ tick' = [tick EXCEPT !.rows = @ \ {row}] /\ UNCHANGED <<now, enabled, op, used>>
        /\ windows' = [windows EXCEPT ![id] = x]
    BY DEF TellOver, Tell
  <1>2. /\ id \in DOMAIN windows /\ (used.toggles = 0 => tick.enabled = enabled)
        /\ row.starts = w.starts /\ w.ends <= row.ends /\ row.ends \in Nat
        /\ row.scheduled => w.scheduledSent
        /\ w \in Window /\ w.told \in Seq(Kind) /\ RowOK(w)
        /\ w.starts \in Nat /\ w.ends \in Nat
    BY RowOfTick, RowSaid
  <1>3. /\ k # "none" => k \in {"completed", "cancelled"} /\ k \in Kind
        /\ k = "cancelled" => w.scheduledSent
        /\ w.ends > w.starts => k = "completed"
    BY <1>2 DEF Final, Kind
  <1> HIDE DEF k
  <1>4. /\ u \in Window /\ u.told = w.told /\ u.scheduledSent = w.scheduledSent
        /\ u.startedSent /\ u.completedSent /\ u.starts = w.starts /\ u.ends = w.ends
    BY <1>2 DEF Window
  <1> HIDE DEF u
  <1>5. RowOK(u)
    BY <1>2, <1>4, ChangedSilently
  <1>6. ASSUME k # "none"
        PROVE  /\ v \in Window /\ v.told = Append(w.told, k)
               /\ v.scheduledSent = w.scheduledSent /\ v.startedSent /\ v.completedSent
               /\ v.starts = w.starts /\ v.ends = w.ends
    <2>1. Append(w.told, k) \in Seq(Kind)
      BY <1>2, <1>3, <1>6, Said
    <2>2. QED
      BY <1>4, <2>1 DEF Window
  <1> HIDE DEF v
  <1>7. k # "none" => Heard(v.told) = Heard(w.told) \cup {k}
    BY <1>2, <1>3, <1>6, Said
  <1>8. ~w.completedSent /\ k # "none" => RowOK(v)
    <2>1. ~w.completedSent /\ k # "none" => Flagged(w, v, k)
      BY <1>3, <1>6 DEF Flagged
    <2>2. QED
      BY <1>2, <1>3, <1>6, <2>1, ChangedWithMessage
  <1>9. RowOK(x) /\ x.starts = w.starts /\ x.ends = w.ends /\ x.scheduledSent = w.scheduledSent
        /\ (w.completedSent => x.completedSent)
    BY <1>2, <1>4, <1>5, <1>6, <1>8
  <1>10. used.toggles = 0 /\ "started" \in Heard(x.told) => enabled
    BY <1>2, <1>3, <1>4, <1>7, RowSaid
  <1>11. used.toggles = 0 /\ x.completedSent /\ "started" \in Heard(x.told) /\ x.ends > x.starts
           => "completed" \in Heard(x.told)
    <2>1. CASE w.completedSent
      BY <1>2, <2>1, RowSaid
    <2>2. CASE ~w.completedSent
      <3> SUFFICES ASSUME used.toggles = 0, "started" \in Heard(x.told), x.ends > x.starts
                   PROVE  "completed" \in Heard(x.told)
        OBVIOUS
      <3>1. k = "completed"
        BY <1>3, <1>9
      <3>2. tick.enabled
        BY <1>2, <1>10
      <3>3. QED
        BY <1>7, <2>2, <3>1, <3>2
    <2>3. QED
      BY <2>1, <2>2
  <1> HIDE DEF x
  <1>12. x.ends <= w.ends
    BY <1>2, <1>9
  <1> HIDE DEF w, id
  <1>13. QED
    BY <1>1, <1>2, <1>9, <1>10, <1>11, <1>12, RowDone, RowWritten DEF w

-----------------------------------------------------------------------------
(* The invariant, and what it says of the messages.                        *)

\* No window is planned, nobody asks for anything and no tick runs.
LEMMA InitInv ==
  ASSUME Init
  PROVE  IInv
  <1>1. windows = <<>> /\ windows \in Seq(Window) /\ DOMAIN windows = {} /\ Len(windows) = 0
    BY EmptySeq, LenProperties DEF Init
  <1>2. WindowInv /\ StartedIsCompleted
    BY <1>1 DEF WindowInv, StartedIsCompleted
  <1>3. OthersOK
    BY DEF Init, OthersOK
  <1>4. OpsOK /\ PublishInv
    BY <1>1 DEF Init, OpsOK, PublishInv, IdleOp, Request
  <1>5. TickOK /\ RowInv /\ tick.at = "idle"
    BY DEF Init, TickOK, RowInv, Sleeping, Ticker
  <1>6. SettingInv
    BY <1>1, <1>5 DEF SettingInv
  <1>7. QED
    BY <1>1, <1>2, <1>3, <1>4, <1>5, <1>6, TypeParts DEF IInv

\* A step of the dispatcher's tick.
LEMMA TickStepInv ==
  ASSUME IInv, TickStep
  PROVE  IInv'
  BY WakeInv, ReadStartedInv, ReadOverInv, TickEndsInv, TellStartedInv, TellOverInv DEF TickStep

\* A step of an operator's request.
LEMMA OperatorInv ==
  ASSUME IInv, NEW o \in Operators,
         \/ \E ahead \in Starts, duration \in Durations : StartMaintenance(o, ahead, duration)
         \/ \E id \in DOMAIN windows : EndMaintenance(o, id)
         \/ OpStep(o) \/ OpFails(o)
  PROVE  IInv'
  <1>1. CASE \E ahead \in Starts, duration \in Durations : StartMaintenance(o, ahead, duration)
    BY <1>1, StartMaintenanceInv, MaintenanceAssumption
  <1>2. CASE \E id \in DOMAIN windows : EndMaintenance(o, id)
    BY <1>2, EndMaintenanceInv
  <1>3. CASE OpStep(o)
    BY <1>3, CreateMaintenanceInv, PublishScheduledInv, EndWindowInv DEF OpStep
  <1>4. CASE OpFails(o)
    BY <1>4, OpFailsInv
  <1>5. QED
    BY <1>1, <1>2, <1>3, <1>4

\* Every step keeps the invariant.
LEMMA NextInv ==
  ASSUME IInv, [Next]_vars
  PROVE  IInv'
  <1>1. CASE Next
    BY <1>1, OperatorInv, TickStepInv, TickEndsInv, CrashInv, ToggleInv, PassInv DEF Next
  <1>2. CASE UNCHANGED vars
    <2>1. UNCHANGED <<windows, now, enabled, op, tick, used>>
      BY <1>2 DEF vars
    <2>2. QED
      BY <2>1, TickSame, Parts, TickMoves DEF OthersOK
  <1>3. QED
    BY <1>1, <1>2

\* The invariant holds in every state the system reaches.
THEOREM Invariance == Spec => []IInv
  <1>1. Init => IInv
    BY InitInv
  <1>2. IInv /\ [Next]_vars => IInv'
    BY NextInv
  <1>3. QED
    BY <1>1, <1>2, PTL DEF Spec

\* maintenance_tick and publish_scheduled: each variable has its type, and a
\* flag of a window changes with the message it stands for.
THEOREM TypesHold == Spec => []TypeOK
  <1>1. IInv => TypeOK
    BY DEF IInv
  <1>2. QED
    BY <1>1, Invariance, PTL

\* "A restart neither repeats nor loses a message": whatever fails, restarts
\* or changes meanwhile, no message about a window is queued twice, and one
\* word at most about its end.
THEOREM ToldOnce == Spec => []EachToldOnce
  <1>1. IInv => EachToldOnce
    <2> SUFFICES ASSUME IInv, NEW id \in DOMAIN windows
                 PROVE  /\ \A kind \in Kind : Times(id, kind) <= 1
                        /\ ~({"completed", "cancelled"} \subseteq Told(id))
      BY DEF EachToldOnce
    <2> DEFINE s == windows[id].told
    <2>1. s \in Seq(Kind) /\ Sensible(s)
      BY RowSaid DEF RowOK
    <2>2. Len(s) \in Nat /\ DOMAIN s = 1..Len(s)
      BY <2>1, LenProperties
    <2>3. ASSUME NEW kind \in Kind PROVE Times(id, kind) <= 1
      <3> DEFINE S == {k \in DOMAIN s : s[k] = kind}
      <3>1. S \subseteq 1..Len(s) /\ \A i, j \in S : i = j
        BY <2>1, <2>2 DEF Sensible, NoneTwice
      <3>2. Times(id, kind) = Cardinality(S)
        BY DEF Times
      <3> HIDE DEF S
      <3>3. QED
        BY <2>2, <3>1, <3>2, OneAtMost
    <2>4. Told(id) = Heard(s)
      BY DEF Told, Heard
    <2>5. QED
      BY <2>1, <2>3, <2>4 DEF Sensible
  <1>2. QED
    BY <1>1, Invariance, PTL

\* Those who are told that a window was called off were told before that it
\* was planned, and nobody hears of a start after the end.
THEOREM EndLast == Spec => []EndComesLast
  <1>1. IInv => EndComesLast
    <2> SUFFICES ASSUME IInv, NEW id \in DOMAIN windows
                 PROVE  /\ "cancelled" \in Told(id) => "scheduled" \in Told(id) /\ Before(id, "scheduled", "cancelled")
                        /\ Before(id, "started", "completed") /\ Before(id, "started", "cancelled")
      BY DEF EndComesLast
    <2>1. Sensible(windows[id].told)
      BY RowSaid DEF RowOK
    <2>2. Told(id) = Heard(windows[id].told)
      BY DEF Told, Heard
    <2>3. \A a, b : Before(id, a, b) <=> Precedes(windows[id].told, a, b)
      BY DEF Before, Precedes
    <2>4. QED
      BY <2>1, <2>2, <2>3 DEF Sensible
  <1>2. QED
    BY <1>1, Invariance, PTL

\* While no reload switches subscriptions, whoever is told that a window
\* started is told that it is completed, once the tick has claimed its end.
THEOREM CompletionTold == Spec => []StartedIsCompleted
  <1>1. IInv => StartedIsCompleted
    BY DEF IInv
  <1>2. QED
    BY <1>1, Invariance, PTL
=============================================================================
