---------------------------- MODULE Subscriptions ----------------------------
(***************************************************************************)
(* Subscribers, the outbox and the dispatcher (src/src/subscriptions).     *)
(*                                                                         *)
(* Visitors sign up on the form or in a Telegram chat, confirm, and leave; *)
(* events fan out into the outbox, one row per subscriber; one task takes  *)
(* due rows in batches and sends them one by one.  The web handlers and    *)
(* the bot change the tables in transactions; the dispatcher works from    *)
(* the rows it read at the start of a round, and each of its sends and     *)
(* database calls is a step of its own.                                    *)
(*                                                                         *)
(* Times are kept as ages and waits that Tick moves and that stop counting *)
(* once nothing compares them any more, so the clock needs no bound.       *)
(* Confirmation tokens are the numbers of the sign-ups that issued them.   *)
(***************************************************************************)
EXTENDS Integers, Sequences, FiniteSets

CONSTANTS Forms, Chats,      \* addresses typed in the form; Telegram chats
          Unlinked,          \* the address of a chat that is not known yet
          Components, Everywhere,
          Events,            \* what is announced: [component, maintenance]
          Confirm,           \* the confirmation message
          Choices,           \* what visitors ask for
          FormAnswers, ChatAnswers,   \* what sending to each kind can end in
          ConfirmTtl, ConfirmResend, PendingKeep, QuarantineKeep,
          MaxAttempts, RetryDelay, RetryAfter, Batch,
          QuarantineFailures, QuarantineWindow,
          MaxLag,                           \* bound: length of a round
          MaxSignUps, MaxEvents,            \* bounds on what visitors and
          MaxCuts, MaxLost                  \* publishers do, and on failures

Answers == {"ok", "busy", "limited", "broken", "refused", "gone"}

ASSUME SubscriptionsAssumption ==
  /\ Unlinked \notin Forms \cup Chats /\ Forms \cap Chats = {}
  /\ Everywhere \notin Components
  /\ Events \subseteq [component : Components \cup {Everywhere}, maintenance : BOOLEAN]
  /\ Choices \subseteq [all : BOOLEAN, components : SUBSET Components, maintenance : BOOLEAN]
  /\ Confirm \notin Events
  /\ FormAnswers \subseteq Answers \ {"limited", "gone"}
  /\ ChatAnswers \subseteq Answers \ {"broken", "refused"}
  /\ {ConfirmTtl, ConfirmResend, PendingKeep, QuarantineKeep, RetryAfter,
      MaxLag, MaxSignUps, MaxEvents, MaxCuts, MaxLost} \subseteq Nat
  /\ {MaxAttempts, Batch, QuarantineWindow} \subseteq Nat \ {0}
  /\ QuarantineFailures \in Nat /\ MaxAttempts < QuarantineFailures
  /\ RetryDelay \in [1..MaxAttempts -> Nat]

VARIABLES subs,     \* table subscribers (and subscriber_components), by id
          outbox,   \* table outbox, by id
          disp,     \* the dispatcher: its round and where it is
          used      \* how much of each bound is used

vars == <<subs, outbox, disp, used>>

-----------------------------------------------------------------------------
(* Tables.  A deleted row keeps its id and is nothing but "gone".          *)

None == -1   \* NULL, for an age
NoLink == 0

(* link is the sign-up whose token confirm_hash holds, age the time since   *)
(* it was issued (confirm_expires is ConfirmTtl later), since the age of    *)
(* failure_window_start and held that of quarantined_at.  No columns, but   *)
(* what happened outside the tables: whether the visitor has the link, and  *)
(* the ages of the counted failures since the last success or sign-up.      *)
Subscriber == [addr : Forms \cup Chats \cup {Unlinked},
               status : {"pending", "active", "quarantined", "gone"},
               wants : Choices, link : Nat, age : Nat,
               failures : Nat, since : Nat \cup {None}, held : Nat,
               inHand : BOOLEAN, streak : Seq(Nat)]

(* wait is the time until next_attempt_at.  No columns: how often the       *)
(* message was tried and taken by the service, how many of its sends ended  *)
(* in an error that leaves open whether it was, and whether it was refused. *)
Message == [to : Nat, event : Events \cup {Confirm}, attempts : Nat, wait : Nat,
            status : {"queued", "sent", "failed", "gone"},
            tried : Nat, arrived : Nat, unheard : Nat, refused : BOOLEAN]

NewSubscriber(addr, wants, link) ==
  [addr |-> addr, status |-> "pending", wants |-> wants, link |-> link, age |-> 0,
   failures |-> 0, since |-> None, held |-> 0, inHand |-> FALSE, streak |-> <<>>]

NewMessage(s, e) ==
  [to |-> s, event |-> e, attempts |-> 0, wait |-> 0, status |-> "queued",
   tried |-> 0, arrived |-> 0, unheard |-> 0, refused |-> FALSE]

\* Of a deleted row nothing is kept: what is sent of it, or on its way, from a
\* round that read it before, is not followed.
Gone == [NewSubscriber(Unlinked, CHOOSE w \in Choices : TRUE, NoLink) EXCEPT !.status = "gone"]
Deleted(i) == [NewMessage(outbox[i].to, Confirm) EXCEPT !.status = "gone"]

Queued(i) == outbox[i].status = "queued"

Drop(S) == [i \in DOMAIN outbox |-> IF i \in S THEN Deleted(i) ELSE outbox[i]]

To(s) == {i \in DOMAIN outbox : outbox[i].to = s /\ outbox[i].status # "gone"}

\* Its mutant: messages outlive the subscriber (foreign keys not enforced).
Delete_NoCascade(S) ==
  /\ subs' = [s \in DOMAIN subs |-> IF s \in S THEN Gone ELSE subs[s]]
  /\ UNCHANGED outbox

\* DELETE FROM subscribers: their messages go with them.
Delete(S) ==
  /\ subs' = [s \in DOMAIN subs |-> IF s \in S THEN Gone ELSE subs[s]]
  /\ outbox' = Drop(UNION {To(s) : s \in S})

\* The members of a finite set of ids, smallest first.
InOrder(S) ==
  [k \in 1..Cardinality(S) |-> CHOOSE i \in S : Cardinality({j \in S : j < i}) = k - 1]

Have(addr) == {s \in DOMAIN subs : subs[s].addr = addr /\ subs[s].status # "gone"}

-----------------------------------------------------------------------------
(* The dispatcher's position: "next" is before the head of its batch.      *)

Steps == {"idle", "next", "sent", "clear", "remove", "count", "quarantine", "failed"}

Snapshot == [row : Nat, to : Nat, event : Events \cup {Confirm},
             addr : Forms \cup Chats \cup {Unlinked},
             active : BOOLEAN,    \* status = 'active'
             link : Nat,          \* the link a confirmation would carry, if it works
             attempts : Nat]

Dispatcher == [at : Steps, batch : Seq(Snapshot), got : Answers, lag : Nat,
               wrote : SUBSET (Forms \cup Chats)]   \* sent to in this round

Idle == [at |-> "idle", batch |-> <<>>, got |-> "ok", lag |-> 0, wrote |-> {}]

Head1 == Head(disp.batch)

Go(step) == disp' = [disp EXCEPT !.at = step]

Following ==
  disp' = IF Len(disp.batch) = 1 THEN Idle
          ELSE [disp EXCEPT !.at = "next", !.batch = Tail(@), !.got = "ok"]

Spend(what) == used' = [used EXCEPT ![what] = @ + 1]

Init ==
  /\ subs = <<>>
  /\ outbox = <<>>
  /\ disp = Idle
  /\ used = [signups |-> 0, events |-> 0, cuts |-> 0, lost |-> 0]

-----------------------------------------------------------------------------
(* Signing up, confirming, leaving.                                        *)

\* Queue a message for each of these subscribers, in the order of their ids.
Enqueue(S, e, box) ==
  box \o [k \in 1..Cardinality(S) |-> NewMessage(InOrder(S)[k], e)]

\* Events held for a subscriber in quarantine, and confirmations, not yet sent.
Held(s) == {i \in To(s) : outbox[i].status = "queued"}
OldConfirms(s) == {i \in To(s) : outbox[i].event = Confirm /\ outbox[i].status # "sent"}

\* sign_up's update of a row that is pending or quarantined.
Renewed(s, wants, link) ==
  NewSubscriber(subs[s].addr, wants, link)

SignUpNew(addr, wants) ==
  /\ Have(addr) = {}
  /\ subs' = Append(subs, NewSubscriber(addr, wants, used.signups + 1))
  /\ outbox' = Enqueue({Len(subs')}, Confirm, outbox)

MayRenew(s) ==
  /\ subs[s].status # "active"
  /\ subs[s].link # NoLink => subs[s].age >= ConfirmResend

\* Its mutant: what was held in quarantine waits for the new confirmation.
SignUpAgain_KeepsHeld(s, wants) ==
  /\ MayRenew(s)
  /\ subs' = [subs EXCEPT ![s] = Renewed(s, wants, used.signups + 1)]
  /\ outbox' = Enqueue({s}, Confirm, Drop(OldConfirms(s)))

\* Its mutant: the confirmation of the old link stays queued.
SignUpAgain_KeepsOld(s, wants) ==
  /\ MayRenew(s)
  /\ subs' = [subs EXCEPT ![s] = Renewed(s, wants, used.signups + 1)]
  /\ LET stale == IF subs[s].status = "quarantined" THEN Held(s) ELSE {}
     IN outbox' = Enqueue({s}, Confirm, Drop(stale))

SignUpAgain(s, wants) ==
  /\ MayRenew(s)
  /\ subs' = [subs EXCEPT ![s] = Renewed(s, wants, used.signups + 1)]
  /\ LET stale == IF subs[s].status = "quarantined" THEN Held(s) ELSE {}
     IN outbox' = Enqueue({s}, Confirm, Drop(stale \cup OldConfirms(s)))

SignUp(addr, wants) ==
  /\ used.signups < MaxSignUps /\ Spend("signups")
  /\ SignUpNew(addr, wants) \/ \E s \in Have(addr) : SignUpAgain(s, wants)
  /\ UNCHANGED disp

\* The page hands out the link; the address is learnt when it is followed.
SignUpByLink(wants) ==
  /\ used.signups < MaxSignUps /\ Spend("signups")
  /\ subs' = Append(subs, [NewSubscriber(Unlinked, wants, used.signups + 1)
                              EXCEPT !.inHand = TRUE])
  /\ UNCHANGED <<outbox, disp>>

\* A link that works: of a pending row, the one last issued, and in time.
Works(s) ==
  /\ subs[s].status = "pending" /\ subs[s].link # NoLink /\ subs[s].inHand
  /\ subs[s].age < ConfirmTtl

Activated(m) ==
  [m EXCEPT !.status = "active", !.link = NoLink, !.age = 0, !.inHand = FALSE]

\* confirm: a visitor presses the button behind the link a message carried.
ConfirmSubmit(s) ==
  /\ Works(s) /\ subs[s].addr # Unlinked
  /\ subs' = [subs EXCEPT ![s] = Activated(@)]
  /\ UNCHANGED <<outbox, disp, used>>

\* Its mutant: every Start makes a subscriber of its own.
LinkChat_SecondRow(s, chat) ==
  /\ Works(s) /\ subs[s].addr = Unlinked
  /\ subs' = [subs EXCEPT ![s] = [Activated(@) EXCEPT !.addr = chat]]
  /\ UNCHANGED <<outbox, disp, used>>

\* link_chat: a chat already subscribed takes the choices of the new row.
LinkChat(s, chat) ==
  /\ Works(s) /\ subs[s].addr = Unlinked
  /\ subs' = IF Have(chat) = {}
             THEN [subs EXCEPT ![s] = [Activated(@) EXCEPT !.addr = chat]]
             ELSE LET t == CHOOSE t \in Have(chat) : TRUE
                  IN [subs EXCEPT ![s] = Gone,
                                  ![t] = [@ EXCEPT !.status = "active", !.wants = subs[s].wants,
                                                   !.failures = 0, !.since = None, !.held = 0,
                                                   !.streak = <<>>]]
  /\ UNCHANGED <<outbox, disp, used>>

\* By the link every message carries, by /stop, or by an operator.
Unsubscribe(s) ==
  /\ subs[s].status # "gone"
  /\ Delete({s})
  /\ UNCHANGED <<disp, used>>

-----------------------------------------------------------------------------
(* Publishing an event.                                                    *)

Concerns(e, wants) ==
  /\ e.maintenance => wants.maintenance
  /\ e.component = Everywhere \/ wants.all \/ e.component \in wants.components

Audience(e) == {s \in DOMAIN subs : subs[s].status = "active" /\ Concerns(e, subs[s].wants)}

FanOut(e) ==
  /\ used.events < MaxEvents /\ Spend("events")
  /\ Audience(e) # {}
  /\ outbox' = Enqueue(Audience(e), e, outbox)
  /\ UNCHANGED <<subs, disp>>

-----------------------------------------------------------------------------
(* dispatch_due: one round over the rows that are due.                     *)

\* Its mutant: rows stay due after they were sent.
Due_SentToo ==
  {i \in DOMAIN outbox : /\ outbox[i].status \in {"queued", "sent"} /\ outbox[i].wait = 0
                         /\ subs[outbox[i].to].status \in {"pending", "active"}}

Due == {i \in DOMAIN outbox : /\ Queued(i) /\ outbox[i].wait = 0
                              /\ subs[outbox[i].to].status \in {"pending", "active"}}

Read(i) ==
  LET m == outbox[i]
      s == subs[m.to]
  IN [row |-> i, to |-> m.to, event |-> m.event, addr |-> s.addr,
      active |-> s.status = "active",
      link |-> IF s.status = "pending" /\ s.age < ConfirmTtl THEN s.link ELSE NoLink,
      attempts |-> m.attempts]

Poll ==
  /\ disp.at = "idle" /\ Due # {}
  /\ LET rows == InOrder({i \in Due : Cardinality({j \in Due : j < i}) < Batch})
     IN disp' = [Idle EXCEPT !.at = "next", !.batch = [k \in DOMAIN rows |-> Read(rows[k])]]
  /\ UNCHANGED <<subs, outbox, used>>

\* Its mutant: a confirmation that cannot be sent any more is passed over.
GiveUp_Skips ==
  /\ disp.at = "next" /\ Head1.event = Confirm /\ Head1.link = NoLink
  /\ Following
  /\ UNCHANGED <<subs, outbox, used>>

\* Confirmed some other way meanwhile, or the link has lapsed.
GiveUp ==
  /\ disp.at = "next" /\ Head1.event = Confirm /\ Head1.link = NoLink
  /\ outbox' = IF Queued(Head1.row) THEN [outbox EXCEPT ![Head1.row].status = "failed"] ELSE outbox
  /\ Following
  /\ UNCHANGED <<subs, used>>

Sendable == IF Head1.event = Confirm THEN Head1.link # NoLink ELSE Head1.active

\* An event for somebody not active, or a chat written to a moment ago.
SkipRow ==
  /\ disp.at = "next"
  /\ \/ Head1.event # Confirm /\ ~Head1.active
     \/ Sendable /\ Head1.addr \in disp.wrote \cap Chats
  /\ Following
  /\ UNCHANGED <<subs, outbox, used>>

\* What is observed of a message is counted as far as the properties look.
OneMore(n) == IF n > MaxAttempts + MaxCuts + MaxLost THEN n ELSE n + 1

AfterSend(answer) ==
  CASE answer = "ok" -> "sent"
    [] answer = "gone" -> "remove"
    [] answer \in {"broken", "refused"} -> "count"
    [] OTHER -> "failed"

\* Errors that also stand for no answer: SEND_LIMIT ran out, a client timed out,
\* the connection was lost.
Unheard == {"busy", "broken"}

\* What is observed of a message that was sent, and of who received one.
Sent(m, answer) ==
  [m EXCEPT !.tried = OneMore(@), !.arrived = IF answer = "ok" THEN OneMore(@) ELSE @,
            !.unheard = IF answer \in Unheard THEN OneMore(@) ELSE @,
            !.refused = @ \/ answer = "refused"]

Received(m, event, link) ==
  [m EXCEPT !.streak = <<>>, !.inHand = @ \/ (event = Confirm /\ link = m.link)]

Send(answer) ==
  /\ disp.at = "next" /\ Sendable
  /\ answer \in IF Head1.addr \in Chats THEN ChatAnswers ELSE FormAnswers
  /\ disp' = [disp EXCEPT !.at = AfterSend(answer), !.got = answer,
                          !.wrote = @ \cup {Head1.addr}]
  /\ outbox' = IF outbox[Head1.row].status = "gone" THEN outbox
               ELSE [outbox EXCEPT ![Head1.row] = Sent(@, answer)]
  /\ subs' = IF answer # "ok" \/ subs[Head1.to].status = "gone" THEN subs
             ELSE [subs EXCEPT ![Head1.to] = Received(@, Head1.event, Head1.link)]
  /\ UNCHANGED used

\* A send that ended in an error was taken by the service all the same.  The
\* dispatcher never learns it: the message may be on its next attempt by then,
\* sent or given up.  A confirmation brings its link, unless that is void.
ArrivesLate(i) ==
  /\ used.lost < MaxLost /\ Spend("lost")
  /\ outbox[i].unheard > 0
  /\ outbox' = [outbox EXCEPT ![i].unheard = @ - 1, ![i].arrived = @ + 1]
  /\ LET s == outbox[i].to
         carries == outbox[i].event = Confirm /\ outbox[i].status # "sent"
     IN subs' = IF carries /\ subs[s].link # NoLink
                THEN [subs EXCEPT ![s].inHand = TRUE] ELSE subs
  /\ UNCHANGED disp

RecordSent ==
  /\ disp.at = "sent"
  /\ outbox' = IF Queued(Head1.row)
               THEN [outbox EXCEPT ![Head1.row].status = "sent",
                                   ![Head1.row].attempts = Head1.attempts + 1]
               ELSE outbox
  /\ Go("clear")
  /\ UNCHANGED <<subs, used>>

\* Its mutant: a success does not clear the count.
ClearFailures_Keeps ==
  /\ disp.at = "clear"
  /\ Following
  /\ UNCHANGED <<subs, outbox, used>>

ClearFailures ==
  /\ disp.at = "clear"
  /\ subs' = [subs EXCEPT ![Head1.to].failures = 0, ![Head1.to].since = None]
  /\ Following
  /\ UNCHANGED <<outbox, used>>

\* The service says the address is gone for good.
RemoveGone ==
  /\ disp.at = "remove"
  /\ IF subs[Head1.to].status # "gone" THEN Delete({Head1.to}) ELSE UNCHANGED <<subs, outbox>>
  /\ Following
  /\ UNCHANGED used

Newest(n, s) == IF Len(s) > n THEN SubSeq(s, Len(s) - n + 1, Len(s)) ELSE s

\* A failure is counted: the window starts at the first one, and the round's
\* own clock decides whether it is over.
WindowOver(m, lag) == m.since = None \/ m.since >= lag + QuarantineWindow

Counted(m, lag) ==
  [m EXCEPT !.failures = IF WindowOver(m, lag) THEN 1 ELSE @ + 1,
            !.since = IF WindowOver(m, lag) THEN lag ELSE @,
            !.streak = Newest(QuarantineFailures, Append(@, lag))]

\* count_failure, its first update.
CountFailure ==
  /\ disp.at = "count"
  /\ LET s == Head1.to
         counted == Counted(subs[s], disp.lag)
     IN IF subs[s].status = "gone"
        THEN Go("failed") /\ UNCHANGED subs
        ELSE /\ subs' = [subs EXCEPT ![s] = counted]
             /\ Go(IF counted.failures < QuarantineFailures THEN "failed" ELSE "quarantine")
  /\ UNCHANGED <<outbox, used>>

\* count_failure, its second update.
Quarantine ==
  /\ disp.at = "quarantine"
  /\ LET s == Head1.to
     IN subs' = IF subs[s].status \in {"quarantined", "gone"} THEN subs
                ELSE [subs EXCEPT ![s].status = "quarantined", ![s].held = disp.lag]
  /\ Go("failed")
  /\ UNCHANGED <<outbox, used>>

Greater(a, b) == IF a > b THEN a ELSE b

\* Its mutant: a failed attempt is not counted.
RecordFailure_NotCounted ==
  /\ disp.at = "failed"
  /\ LET tries == Head1.attempts + 1
         delay == Greater(RetryDelay[tries], IF disp.got = "limited" THEN RetryAfter ELSE 0)
     IN outbox' = IF ~Queued(Head1.row) THEN outbox
                  ELSE IF disp.got = "refused" \/ tries >= MaxAttempts
                  THEN [outbox EXCEPT ![Head1.row].status = "failed"]
                  ELSE [outbox EXCEPT ![Head1.row].wait = Greater(delay - disp.lag, 0)]
  /\ Following
  /\ UNCHANGED <<subs, used>>

\* Give up, or try again no sooner than the service asked for.
RecordFailure ==
  /\ disp.at = "failed"
  /\ LET tries == Head1.attempts + 1
         delay == Greater(RetryDelay[tries], IF disp.got = "limited" THEN RetryAfter ELSE 0)
     IN outbox' = IF ~Queued(Head1.row) THEN outbox
                  ELSE IF disp.got = "refused" \/ tries >= MaxAttempts
                  THEN [outbox EXCEPT ![Head1.row].status = "failed",
                                      ![Head1.row].attempts = tries]
                  ELSE [outbox EXCEPT ![Head1.row].attempts = tries,
                                      ![Head1.row].wait = Greater(delay - disp.lag, 0)]
  /\ Following
  /\ UNCHANGED <<subs, used>>

\* A failed database call ends the round, and so does a crash.
CutShort ==
  /\ used.cuts < MaxCuts /\ Spend("cuts")
  /\ disp.at # "idle"
  /\ disp' = Idle
  /\ UNCHANGED <<subs, outbox>>

-----------------------------------------------------------------------------
(* The hourly prune, and time.                                             *)

\* Each is one statement.  Messages sent or given up, which nothing reads any
\* more, are dropped as well; they are kept here, for what is observed of them.
StaleSignUps ==
  {s \in DOMAIN subs : subs[s].status = "pending" /\ subs[s].age > ConfirmTtl + PendingKeep}

StaleQuarantines ==
  {s \in DOMAIN subs : subs[s].status = "quarantined" /\ subs[s].held > QuarantineKeep}

Prune(S) ==
  /\ S # {}
  /\ Delete(S)
  /\ UNCHANGED <<disp, used>>

Older(t, last) == IF t = None THEN None ELSE IF t < last THEN t + 1 ELSE last

AgedSubscriber(m) ==
  [m EXCEPT !.age = IF m.link = NoLink THEN 0 ELSE Older(@, ConfirmTtl + PendingKeep + 1),
            !.since = Older(@, QuarantineWindow + MaxLag),
            !.streak = [k \in DOMAIN @ |-> Older(@[k], QuarantineWindow + MaxLag)],
            !.held = IF m.status = "quarantined" THEN Older(@, QuarantineKeep + 1) ELSE 0]

Tick ==
  /\ disp.at # "idle" => disp.lag < MaxLag
  /\ subs' = [s \in DOMAIN subs |-> AgedSubscriber(subs[s])]
  /\ outbox' = [i \in DOMAIN outbox |-> [outbox[i] EXCEPT !.wait = Greater(@ - 1, 0)]]
  /\ disp' = IF disp.at = "idle" THEN disp ELSE [disp EXCEPT !.lag = @ + 1]
  /\ UNCHANGED used

-----------------------------------------------------------------------------
DispatchStep ==
  \/ Poll \/ GiveUp \/ SkipRow \/ (\E answer \in Answers : Send(answer))
  \/ RecordSent \/ ClearFailures \/ RemoveGone \/ CountFailure \/ Quarantine \/ RecordFailure

Visitor ==
  \/ \E wants \in Choices :
       (\E addr \in Forms : SignUp(addr, wants)) \/ (Chats # {} /\ SignUpByLink(wants))
  \/ \E s \in DOMAIN subs :
       ConfirmSubmit(s) \/ Unsubscribe(s) \/ (\E chat \in Chats : LinkChat(s, chat))

Next ==
  \/ DispatchStep
  \/ Visitor
  \/ \E e \in Events : FanOut(e)
  \/ Prune(StaleSignUps) \/ Prune(StaleQuarantines)
  \/ \E i \in DOMAIN outbox : ArrivesLate(i)
  \/ CutShort
  \/ Tick

Spec == Init /\ [][Next]_vars

\* The dispatcher task runs, and time passes.
FairSpec == Spec /\ WF_vars(DispatchStep) /\ WF_vars(Tick)

-----------------------------------------------------------------------------
(* Properties                                                              *)

\* Every variable has its type, no message belongs to a subscriber that was
\* deleted (DELETE cascades), and the dispatcher holds the ids of real rows.
TypeOK ==
  /\ subs \in Seq(Subscriber)
  /\ outbox \in Seq(Message)
  /\ \A i \in DOMAIN outbox : /\ outbox[i].to \in DOMAIN subs
                              /\ subs[outbox[i].to].status = "gone" => outbox[i].status = "gone"
  /\ disp \in Dispatcher
  /\ disp.at = "idle" <=> disp.batch = <<>>
  /\ \A k \in DOMAIN disp.batch : /\ disp.batch[k].row \in DOMAIN outbox
                                  /\ disp.batch[k].to \in DOMAIN subs
  /\ used \in [{"signups", "events", "cuts", "lost"} -> Nat]

\* Nobody who has not confirmed has news waiting: sign_up drops what was held
\* in quarantine and fan_out passes pending rows over, so that confirming again
\* delivers nothing stale, and no held row takes a place in every batch.
PendingHoldsNoNews ==
  \A i \in DOMAIN outbox :
    Queued(i) /\ subs[outbox[i].to].status = "pending" => outbox[i].event = Confirm

\* Rows of the outbox are neither lost nor repeated: one marked sent did
\* arrive, one given up was refused, or tried MAX_ATTEMPTS times, or was a
\* confirmation; a message arrives once, and again only for a round that was
\* cut short or a send that was taken although it ended in an error.
EachMessageOnce ==
  \A i \in DOMAIN outbox :
    /\ outbox[i].status = "sent" => outbox[i].arrived >= 1
    /\ outbox[i].status = "failed" /\ outbox[i].event # Confirm =>
         outbox[i].refused \/ outbox[i].tried >= MaxAttempts
    /\ outbox[i].arrived <= 1 + used.cuts + used.lost
    /\ outbox[i].tried <= MaxAttempts + used.cuts

\* UNIQUE (channel, address) never stands in the way of link_chat and sign_up:
\* however links are opened and addresses typed, an address has one row.
OneRowPerAddress ==
  \A addr \in Forms \cup Chats : Cardinality(Have(addr)) <= 1

\* A subscriber is only put in quarantine by QUARANTINE_FAILURES counted
\* failures in a row, all within the window, none from before its last
\* sign-up; busy services do not count and a success clears the slate.
QuarantineDeserved ==
  [][\A s \in DOMAIN subs :
       used.cuts = 0 /\ subs[s].status = "active" /\ subs'[s].status = "quarantined"
         => /\ Len(subs[s].streak) = QuarantineFailures
            /\ subs[s].streak[1] - disp.lag < QuarantineWindow]_vars

Waiting(i) == Queued(i) /\ subs[outbox[i].to].status # "quarantined"

\* Once nothing new is published, the queue drains: each message is sent, given
\* up or goes with its subscriber, but for those held in quarantine; a full
\* batch, pacing and a failing address hold nobody else's messages for ever.
MessagesSettle == []<>(\A i \in DOMAIN outbox : ~Waiting(i))

-----------------------------------------------------------------------------
(* The tables as Outbox sees them; of a deleted message nothing is left.    *)

Seen(m) == [to |-> m.to, news |-> m.status # "gone" /\ m.event # Confirm,
            fate |-> m.status, arrived |-> m.arrived, unheard |-> m.unheard]

People == [s \in DOMAIN subs |-> subs[s].status]
Mail == [i \in DOMAIN outbox |-> Seen(outbox[i])]

Box == INSTANCE Outbox WITH people <- People, mail <- Mail,
                            cuts <- used.cuts, lost <- used.lost

\* The handlers and the dispatcher together keep what Outbox promises: a message
\* is settled once and not sent again after that, so that nothing arrives later
\* but a send that ended in an error before; one step of a sign-up or a deletion
\* takes along all that waited, and news is accepted for the active only,
\* however rows change while a round holds copies of them.
EachSettledOnce == Box!Spec

-----------------------------------------------------------------------------
\* README.md: a quarantined subscriber gets nothing more, and its queued
\* messages are held.  The round that quarantines it goes on with its batch.
QuarantinedGetNothing ==
  [][(\E answer \in Answers : Send(answer)) => subs[Head1.to].status # "quarantined"]_vars

\* README.md: signing up again with the same address starts over, so it takes
\* QUARANTINE_FAILURES new failures to be quarantined again.  Between the two
\* updates of count_failure it does not: the second quarantines the row that a
\* sign-up made pending meanwhile, with no failure on its count.
StartsOver ==
  [][\A s \in DOMAIN subs :
       subs[s].status = "pending" /\ subs'[s].status = "quarantined"
         => subs[s].failures >= QuarantineFailures]_vars
=============================================================================
