------------------------- MODULE SubscriptionsProofs -------------------------
(***************************************************************************)
(* Proofs about Subscriptions: types, one row per address, no news for who *)
(* has not confirmed, no message lost or repeated, nobody put in           *)
(* quarantine undeservedly, and the implementation of Outbox, for any      *)
(* addresses, events, limits and bounds.                                   *)
(***************************************************************************)
EXTENDS Subscriptions, FiniteSetTheorems, FunctionTheorems, SequenceTheorems, TLAPS

-----------------------------------------------------------------------------
(* The invariant.                                                          *)

Live(s) == subs[s].status # "gone"

\* A chat that is not known yet has not confirmed and was sent nothing.
UnlinkedInv ==
  \A s \in DOMAIN subs :
    Live(s) /\ subs[s].addr = Unlinked =>
      /\ subs[s].status = "pending"
      /\ \A i \in DOMAIN outbox : outbox[i].to = s => outbox[i].status = "gone"

\* UNIQUE (channel, address).
UniqueInv ==
  \A s, t \in DOMAIN subs :
    Live(s) /\ Live(t) /\ subs[s].addr = subs[t].addr /\ subs[s].addr # Unlinked => s = t

(* What a round knows of a row it still has to deal with, or is dealing     *)
(* with: nobody else sends it, though it may have been deleted.            *)
EntryOK(r, handled) ==
  /\ r.addr # Unlinked /\ r.attempts < MaxAttempts
  /\ subs[r.to].addr = Unlinked => subs[r.to].status = "gone"
  /\ outbox[r.row].to = r.to
  /\ outbox[r.row].status \in {"queued", "gone"} \/ handled
  /\ Queued(r.row) => outbox[r.row].attempts = r.attempts /\ outbox[r.row].event = r.event

BatchInv ==
  /\ \A k \in DOMAIN disp.batch : EntryOK(disp.batch[k], k = 1 /\ disp.at = "clear")
  /\ \A j, k \in DOMAIN disp.batch : disp.batch[j].row = disp.batch[k].row => j = k

\* Where a message is: at rest, or the one that the round has just sent.
Position(i) == IF disp.at \notin {"idle", "next"} /\ disp.batch[1].row = i THEN disp.at ELSE "rest"

(* A message is tried once per counted attempt, and once more for a round   *)
(* that was cut short before it was counted; it arrives before it is sent   *)
(* for such a round only, or for a send whose answer was lost.              *)
MessageOK(m, position, got, cuts, lost) ==
  LET extra == IF position = "rest" THEN 0 ELSE 1
      sure == IF position = "sent" THEN 1 ELSE 0
  IN /\ m.status = "gone" => m.arrived = 0 /\ m.tried = 0 /\ m.unheard = 0
     /\ m.status = "queued" =>
          /\ m.attempts < MaxAttempts /\ position # "clear"
          /\ m.attempts + extra <= m.tried /\ m.tried <= m.attempts + extra + cuts
          /\ sure <= m.arrived /\ m.arrived <= sure + cuts + lost
          /\ position # "rest" /\ got = "refused" => m.refused
     /\ m.status \in {"sent", "failed"} => m.arrived <= 1 + cuts + lost /\ m.tried <= MaxAttempts + cuts
     /\ m.status = "sent" => m.arrived >= 1
     /\ m.status = "failed" /\ m.event # Confirm => m.refused \/ m.tried >= MaxAttempts

MessageInv ==
  /\ used.cuts <= MaxCuts /\ used.lost <= MaxLost
  /\ \A i \in DOMAIN outbox : MessageOK(outbox[i], Position(i), disp.got, used.cuts, used.lost)

IInv == TypeOK /\ UnlinkedInv /\ UniqueInv /\ PendingHoldsNoNews /\ BatchInv /\ MessageInv

-----------------------------------------------------------------------------
(* Ids in order.                                                           *)

\* A set of ids.
Ids(S) == \E n \in Nat : S \subseteq 1 .. n

\* InOrder lists the members of a set: the k-th has k - 1 before it.
LEMMA InOrderPicks ==
  ASSUME NEW S, Ids(S)
  PROVE  /\ Cardinality(S) \in Nat
         /\ \A k \in 1 .. Cardinality(S) :
              InOrder(S)[k] \in S /\ Cardinality({j \in S : j < InOrder(S)[k]}) = k - 1
  <1> DEFINE Before(i) == {j \in S : j < i}
             c == Cardinality(S)
             f == [i \in S |-> Cardinality(Before(i))]
  <1> PICK n \in Nat : S \subseteq 1 .. n
    BY DEF Ids
  <1>1. IsFiniteSet(S) /\ c \in Nat /\ S \subseteq Int
    <2>1. IsFiniteSet(1 .. n)
      BY FS_Interval
    <2>2. IsFiniteSet(S)
      BY <2>1, FS_Subset
    <2>3. QED
      BY <2>2, FS_CardinalityType
  <1>2. ASSUME NEW i \in S
        PROVE  IsFiniteSet(Before(i)) /\ Cardinality(Before(i)) \in 0 .. (c - 1)
    <2>1. IsFiniteSet(Before(i)) /\ Cardinality(Before(i)) <= c /\ (c = Cardinality(Before(i)) => S = Before(i))
      BY <1>1, FS_Subset
    <2>2. i \notin Before(i) /\ S # Before(i)
      OBVIOUS
    <2>3. Cardinality(Before(i)) \in Nat
      BY <2>1, FS_CardinalityType
    <2> HIDE DEF c
    <2>4. QED
      BY <1>1, <2>1, <2>2, <2>3
  <1>3. ASSUME NEW i \in S, NEW j \in S, i < j PROVE f[i] < f[j]
    <2>1. Before(i) \cup {i} \subseteq Before(j) /\ i \notin Before(i)
      <3>1. \A x \in S : x < i => x < j
        BY <1>1, <1>3
      <3>2. ~(i < i)
        BY <1>1
      <3>3. QED
        BY <1>3, <3>1, <3>2
    <2>2. Cardinality(Before(i) \cup {i}) = Cardinality(Before(i)) + 1
      BY <1>2, <2>1, FS_AddElement
    <2>3. Cardinality(Before(i) \cup {i}) <= Cardinality(Before(j))
      BY <1>2, <2>1, FS_Subset
    <2>4. Cardinality(Before(i)) \in Nat /\ Cardinality(Before(j)) \in Nat
      BY <1>1, <1>2
    <2>5. f[i] = Cardinality(Before(i)) /\ f[j] = Cardinality(Before(j))
      OBVIOUS
    <2> HIDE DEF Before, f
    <2>6. QED
      BY <2>2, <2>3, <2>4, <2>5
  <1>4. f \in [S -> 0 .. (c - 1)]
    BY <1>2
  <1>5. \A i, j \in S : f[i] = f[j] => i = j
    <2>1. \A i, j \in S : i # j => i < j \/ j < i
      BY <1>1
    <2>2. \A i \in S : f[i] \in Int
      BY <1>1, <1>4
    <2> HIDE DEF f
    <2>3. QED
      BY <1>3, <2>1, <2>2
  <1>6. f \in Injection(S, 0 .. (c - 1))
    BY <1>4, <1>5, Fun_IsInj
  <1>7. IsFiniteSet(0 .. (c - 1)) /\ Cardinality(0 .. (c - 1)) = c
    <2>1. 0 \in Int /\ c - 1 \in Int
      BY <1>1
    <2>2. IsFiniteSet(0 .. (c - 1)) /\ Cardinality(0 .. (c - 1)) = IF 0 > c - 1 THEN 0 ELSE c - 1 - 0 + 1
      BY <2>1, FS_Interval
    <2> HIDE DEF c
    <2>3. QED
      BY <1>1, <2>2
  <1>8. f \in Surjection(S, 0 .. (c - 1))
    BY <1>6, <1>7, FS_Injection
  <1>9. ASSUME NEW k \in 1 .. c
        PROVE  InOrder(S)[k] \in S /\ Cardinality(Before(InOrder(S)[k])) = k - 1
    <2>1. k - 1 \in 0 .. (c - 1)
      BY <1>1
    <2>2. \E i \in S : f[i] = k - 1
      <3> DEFINE T == 0 .. (c - 1)
      <3>1. f \in Surjection(S, T) /\ k - 1 \in T
        BY <1>8, <2>1
      <3> HIDE DEF f, c, T
      <3>2. \A t \in T : \E i \in S : f[i] = t
        BY <3>1, Fun_SurjectionProperties
      <3>3. QED
        BY <3>1, <3>2
    <2>3. \E i \in S : Cardinality(Before(i)) = k - 1
      BY <2>2
    <2>4. InOrder(S)[k] = CHOOSE i \in S : Cardinality(Before(i)) = k - 1
      BY DEF InOrder
    <2> HIDE DEF Before
    <2>5. QED
      BY <2>3, <2>4
  <1>10. QED
    BY <1>1, <1>9

\* It lists each of them once.
LEMMA InOrderOnce ==
  ASSUME NEW S, Ids(S),
         NEW j \in 1 .. Cardinality(S), NEW k \in 1 .. Cardinality(S), InOrder(S)[j] = InOrder(S)[k]
  PROVE  j = k
  <1>1. Cardinality(S) \in Nat
    BY InOrderPicks
  <1> DEFINE before(i) == Cardinality({x \in S : x < i})
  <1>2. before(InOrder(S)[j]) = j - 1 /\ before(InOrder(S)[k]) = k - 1
    BY InOrderPicks
  <1> HIDE DEF before
  <1>3. j - 1 = k - 1
    BY <1>2
  <1>4. QED
    BY <1>1, <1>3

-----------------------------------------------------------------------------
(* Rows.                                                                   *)

\* The tables as functions of ids.
LEMMA Tables ==
  ASSUME TypeOK
  PROVE  /\ Len(subs) \in Nat /\ DOMAIN subs = 1 .. Len(subs)
         /\ \A s \in DOMAIN subs : subs[s] \in Subscriber
         /\ Len(outbox) \in Nat /\ DOMAIN outbox = 1 .. Len(outbox)
         /\ \A i \in DOMAIN outbox : outbox[i] \in Message
  <1>1. subs \in Seq(Subscriber) /\ outbox \in Seq(Message)
    BY DEF TypeOK
  <1>2. /\ Len(subs) \in Nat /\ DOMAIN subs = 1 .. Len(subs)
        /\ Len(outbox) \in Nat /\ DOMAIN outbox = 1 .. Len(outbox)
    BY <1>1, LenProperties
  <1>3. QED
    BY <1>1, <1>2, ElementOfSeq

\* A table of which each row is rewritten.
LEMMA Rewritten ==
  ASSUME NEW S, NEW seq \in Seq(S), NEW new, DOMAIN new = DOMAIN seq,
         new = [k \in DOMAIN seq |-> new[k]], \A k \in DOMAIN seq : new[k] \in S
  PROVE  new \in Seq(S) /\ Len(new) = Len(seq)
  <1>1. Len(seq) \in Nat /\ DOMAIN seq = 1 .. Len(seq)
    BY LenProperties
  <1>2. new \in [1 .. Len(seq) -> S]
    BY <1>1
  <1>3. QED
    BY <1>1, <1>2

\* A new row.
LEMMA NewSubscriberType ==
  ASSUME NEW addr \in Forms \cup Chats \cup {Unlinked}, NEW wants \in Choices, NEW link \in Nat
  PROVE  NewSubscriber(addr, wants, link) \in Subscriber
  <1>1. <<>> \in Seq(Nat)
    BY EmptySeq
  <1>2. QED
    BY <1>1 DEF NewSubscriber, Subscriber, None

\* What is left of a deleted one.
LEMMA GoneType ==
  ASSUME Choices # {}
  PROVE  Gone \in Subscriber /\ Gone.status = "gone" /\ Gone.addr = Unlinked
  <1> DEFINE w == CHOOSE w \in Choices : TRUE
             g == NewSubscriber(Unlinked, w, NoLink)
  <1>1. w \in Choices
    OBVIOUS
  <1>2. g \in Subscriber /\ g.addr = Unlinked
    BY <1>1, NewSubscriberType DEF NoLink, NewSubscriber
  <1>3. Gone = [g EXCEPT !.status = "gone"]
    BY DEF Gone
  <1> HIDE DEF g
  <1>4. QED
    BY <1>2, <1>3 DEF Subscriber

\* A new message, and what is left of a deleted one.
LEMMA NewMessageType ==
  ASSUME NEW s \in Nat, NEW e \in Events \cup {Confirm}
  PROVE  /\ NewMessage(s, e) \in Message /\ NewMessage(s, e).to = s /\ NewMessage(s, e).event = e
         /\ NewMessage(s, e).status = "queued"
  BY DEF NewMessage, Message

LEMMA DeletedType ==
  ASSUME TypeOK, NEW i \in DOMAIN outbox
  PROVE  /\ Deleted(i) \in Message /\ Deleted(i).to = outbox[i].to /\ Deleted(i).status = "gone"
         /\ Deleted(i).arrived = 0 /\ Deleted(i).tried = 0 /\ Deleted(i).unheard = 0
  <1> DEFINE m == NewMessage(outbox[i].to, Confirm)
  <1>1. outbox[i].to \in Nat
    BY Tables DEF Message
  <1>2. m \in Message /\ m.to = outbox[i].to /\ m.arrived = 0 /\ m.tried = 0 /\ m.unheard = 0
    BY <1>1, NewMessageType DEF NewMessage
  <1>3. Deleted(i) = [m EXCEPT !.status = "gone"]
    BY DEF Deleted
  <1> HIDE DEF m
  <1>4. QED
    BY <1>2, <1>3 DEF Message

\* Messages queued for some subscribers come after those in the box.
LEMMA EnqueueIs ==
  ASSUME NEW box \in Seq(Message), NEW S, Ids(S), NEW e \in Events \cup {Confirm}
  PROVE  /\ Enqueue(S, e, box) \in Seq(Message) /\ Len(Enqueue(S, e, box)) >= Len(box)
         /\ \A i \in 1 .. Len(box) : Enqueue(S, e, box)[i] = box[i]
         /\ \A i \in 1 .. Len(Enqueue(S, e, box)) :
              i \in 1 .. Len(box) \/ \E s \in S : Enqueue(S, e, box)[i] = NewMessage(s, e)
  <1> DEFINE c == Cardinality(S)
             new == [k \in 1 .. c |-> NewMessage(InOrder(S)[k], e)]
  <1> PICK n \in Nat : S \subseteq 1 .. n
    BY DEF Ids
  <1>1. c \in Nat /\ \A k \in 1 .. c : InOrder(S)[k] \in S
    BY InOrderPicks
  <1>2. \A k \in 1 .. c : new[k] \in Message /\ \E s \in S : new[k] = NewMessage(s, e)
    <2> SUFFICES ASSUME NEW k \in 1 .. c
                 PROVE  new[k] \in Message /\ \E s \in S : new[k] = NewMessage(s, e)
      OBVIOUS
    <2>1. InOrder(S)[k] \in S /\ InOrder(S)[k] \in Nat
      <3> DEFINE x == InOrder(S)[k]
      <3>1. x \in S
        BY <1>1
      <3> HIDE DEF x
      <3>2. x \in 1 .. n
        BY <3>1
      <3>3. QED
        BY <3>1, <3>2 DEF x
    <2>2. new[k] = NewMessage(InOrder(S)[k], e)
      OBVIOUS
    <2> HIDE DEF new
    <2>3. QED
      BY <2>1, <2>2, NewMessageType
  <1> HIDE DEF c
  <1>3. new \in Seq(Message) /\ Len(new) = c
    BY <1>1, <1>2
  <1>4. Enqueue(S, e, box) = box \o new
    BY DEF Enqueue, c
  <1> HIDE DEF new
  <1>5. /\ Len(box) \in Nat /\ box \o new \in Seq(Message) /\ Len(box \o new) = Len(box) + c
        /\ \A i \in 1 .. Len(box) + c :
             (box \o new)[i] = IF i <= Len(box) THEN box[i] ELSE new[i - Len(box)]
    BY <1>3, LenProperties, ConcatProperties
  <1>6. \A i \in 1 .. Len(box) + c : i \in 1 .. Len(box) \/ (i - Len(box) \in 1 .. c /\ ~(i <= Len(box)))
    BY <1>1, <1>5
  <1>7. QED
    BY <1>1, <1>2, <1>4, <1>5, <1>6

\* Deleting messages leaves the others.
LEMMA DropIs ==
  ASSUME TypeOK, NEW S
  PROVE  /\ Drop(S) \in Seq(Message) /\ Len(Drop(S)) = Len(outbox) /\ DOMAIN Drop(S) = DOMAIN outbox
         /\ \A i \in DOMAIN outbox : Drop(S)[i] = IF i \in S THEN Deleted(i) ELSE outbox[i]
  <1>1. DOMAIN Drop(S) = DOMAIN outbox /\ Drop(S) = [i \in DOMAIN outbox |-> Drop(S)[i]]
    BY DEF Drop
  <1>2. \A i \in DOMAIN outbox : Drop(S)[i] = IF i \in S THEN Deleted(i) ELSE outbox[i]
    BY DEF Drop
  <1>3. \A i \in DOMAIN outbox : Drop(S)[i] \in Message
    BY <1>2, Tables, DeletedType
  <1>4. outbox \in Seq(Message)
    BY DEF TypeOK
  <1>5. QED
    BY <1>1, <1>2, <1>3, <1>4, Rewritten

-----------------------------------------------------------------------------
(* What the updates of a subscriber's row leave of it.                     *)

\* A confirmed subscriber.
LEMMA ActivatedIs ==
  ASSUME NEW m \in Subscriber
  PROVE  /\ Activated(m) \in Subscriber
         /\ Activated(m).status = "active" /\ Activated(m).addr = m.addr
  BY DEF Activated, Subscriber, NoLink

\* A chat that its link was opened in.
LEMMA LinkedIs ==
  ASSUME NEW m \in Subscriber, NEW chat \in Chats
  PROVE  LET v == [Activated(m) EXCEPT !.addr = chat]
         IN v \in Subscriber /\ v.status = "active" /\ v.addr = chat
  <1> DEFINE a == Activated(m)
  <1>1. a \in Subscriber /\ a.status = "active"
    BY ActivatedIs
  <1> HIDE DEF a
  <1>2. /\ [a EXCEPT !.addr = chat] \in Subscriber /\ [a EXCEPT !.addr = chat].status = "active"
        /\ [a EXCEPT !.addr = chat].addr = chat
    BY <1>1 DEF Subscriber
  <1>3. QED
    BY <1>2 DEF a

\* A chat that takes over the choices of another sign-up.
LEMMA TakenOverIs ==
  ASSUME NEW m \in Subscriber, NEW wants \in Choices
  PROVE  LET v == [m EXCEPT !.status = "active", !.wants = wants, !.failures = 0, !.since = None,
                            !.held = 0, !.streak = <<>>]
         IN v \in Subscriber /\ v.status = "active" /\ v.addr = m.addr
  <1>1. <<>> \in Seq(Nat) /\ None \in Nat \cup {None} /\ 0 \in Nat
    BY EmptySeq
  <1> DEFINE a == [m EXCEPT !.status = "active", !.wants = wants]
             b == [a EXCEPT !.failures = 0, !.since = None]
  <1>2. a \in Subscriber /\ a.status = "active" /\ a.addr = m.addr
    BY DEF Subscriber
  <1>3. [m EXCEPT !.status = "active", !.wants = wants, !.failures = 0, !.since = None,
                  !.held = 0, !.streak = <<>>] = [b EXCEPT !.held = 0, !.streak = <<>>]
    OBVIOUS
  <1> HIDE DEF a
  <1>4. b \in Subscriber /\ b.status = "active" /\ b.addr = m.addr
    BY <1>1, <1>2 DEF Subscriber
  <1> HIDE DEF b
  <1>5. /\ [b EXCEPT !.held = 0, !.streak = <<>>] \in Subscriber
        /\ [b EXCEPT !.held = 0, !.streak = <<>>].status = "active"
        /\ [b EXCEPT !.held = 0, !.streak = <<>>].addr = m.addr
    BY <1>1, <1>4 DEF Subscriber
  <1>6. QED
    BY <1>3, <1>5

\* One who received a message, and one whose failure was counted.
LEMMA ReceivedIs ==
  ASSUME NEW m \in Subscriber, NEW event, NEW link
  PROVE  LET v == Received(m, event, link)
         IN v \in Subscriber /\ v.status = m.status /\ v.addr = m.addr
  <1> DEFINE inHand == m.inHand \/ (event = Confirm /\ link = m.link)
             a == [m EXCEPT !.streak = <<>>]
  <1>1. a \in Subscriber /\ a.status = m.status /\ a.addr = m.addr
    BY EmptySeq DEF Subscriber
  <1>2. inHand \in BOOLEAN
    BY DEF Subscriber
  <1>3. Received(m, event, link) = [a EXCEPT !.inHand = inHand]
    BY DEF Received
  <1> HIDE DEF a, inHand
  <1>4. /\ [a EXCEPT !.inHand = inHand] \in Subscriber
        /\ [a EXCEPT !.inHand = inHand].status = m.status /\ [a EXCEPT !.inHand = inHand].addr = m.addr
    BY <1>1, <1>2 DEF Subscriber
  <1>5. QED
    BY <1>3, <1>4

\* What is kept of the counted failures.
LEMMA NewestIs ==
  ASSUME NEW n \in Nat, NEW s \in Seq(Nat)
  PROVE  Newest(n, s) \in Seq(Nat)
  <1>1. Len(s) \in Nat
    BY LenProperties
  <1>2. CASE Len(s) > n
    <2>1. \A i \in Len(s) - n + 1 .. Len(s) : i \in 1 .. Len(s)
      BY <1>1, <1>2
    <2>2. Len(s) - n + 1 \in 1 .. Len(s) + 1 /\ Len(s) \in Len(s) - n .. Len(s)
      BY <1>1, <1>2
    <2>3. SubSeq(s, Len(s) - n + 1, Len(s)) \in Seq(Nat)
      BY <1>1, <2>1, <2>2, SubSeqProperties
    <2>4. QED
      BY <1>2, <2>3 DEF Newest
  <1>3. QED
    BY <1>2 DEF Newest

LEMMA CountedIs ==
  ASSUME SubscriptionsAssumption, NEW m \in Subscriber, NEW lag \in Nat
  PROVE  LET v == Counted(m, lag)
         IN v \in Subscriber /\ v.status = m.status /\ v.addr = m.addr
  <1> DEFINE over == WindowOver(m, lag)
             failures == IF over THEN 1 ELSE m.failures + 1
             since == IF over THEN lag ELSE m.since
             streak == Newest(QuarantineFailures, Append(m.streak, lag))
             a == [m EXCEPT !.failures = failures, !.since = since]
  <1>1. failures \in Nat /\ since \in Nat \cup {None}
    <2>1. m.failures \in Nat /\ m.since \in Nat \cup {None}
      BY DEF Subscriber
    <2> HIDE DEF over
    <2>2. QED
      BY <2>1
  <1>2. streak \in Seq(Nat)
    <2>1. m.streak \in Seq(Nat) /\ QuarantineFailures \in Nat
      BY DEF Subscriber, SubscriptionsAssumption
    <2>2. Append(m.streak, lag) \in Seq(Nat)
      BY <2>1, AppendProperties
    <2>3. QED
      BY <2>1, <2>2, NewestIs
  <1>3. Counted(m, lag) = [a EXCEPT !.streak = streak]
    BY DEF Counted
  <1> HIDE DEF failures, since, streak
  <1>4. a \in Subscriber /\ a.status = m.status /\ a.addr = m.addr
    BY <1>1 DEF Subscriber
  <1> HIDE DEF a
  <1>5. /\ [a EXCEPT !.streak = streak] \in Subscriber
        /\ [a EXCEPT !.streak = streak].status = m.status /\ [a EXCEPT !.streak = streak].addr = m.addr
    BY <1>2, <1>4 DEF Subscriber
  <1>6. QED
    BY <1>3, <1>5

\* A subscriber in quarantine.
LEMMA QuarantinedIs ==
  ASSUME NEW m \in Subscriber, NEW t \in Nat
  PROVE  LET v == [m EXCEPT !.status = "quarantined", !.held = t]
         IN v \in Subscriber /\ v.status = "quarantined" /\ v.addr = m.addr
  BY DEF Subscriber

\* A second later.
LEMMA OlderIs ==
  ASSUME NEW t \in Nat \cup {None}, NEW last \in Nat
  PROVE  Older(t, last) \in Nat \cup {None} /\ (t \in Nat => Older(t, last) \in Nat)
  BY DEF Older, None

LEMMA AgedIs ==
  ASSUME SubscriptionsAssumption, NEW m \in Subscriber
  PROVE  /\ AgedSubscriber(m) \in Subscriber
         /\ AgedSubscriber(m).status = m.status /\ AgedSubscriber(m).addr = m.addr
  <1> DEFINE age == IF m.link = NoLink THEN 0 ELSE Older(m.age, ConfirmTtl + PendingKeep + 1)
             since == Older(m.since, QuarantineWindow + MaxLag)
             streak == [k \in DOMAIN m.streak |-> Older(m.streak[k], QuarantineWindow + MaxLag)]
             held == IF m.status = "quarantined" THEN Older(m.held, QuarantineKeep + 1) ELSE 0
             a == [m EXCEPT !.age = age, !.since = since]
  <1>1. /\ ConfirmTtl + PendingKeep + 1 \in Nat /\ QuarantineWindow + MaxLag \in Nat
        /\ QuarantineKeep + 1 \in Nat
    BY SMTT(30) DEF SubscriptionsAssumption
  <1>2. m.age \in Nat /\ m.since \in Nat \cup {None} /\ m.held \in Nat /\ m.streak \in Seq(Nat)
    BY DEF Subscriber
  <1>3. age \in Nat /\ since \in Nat \cup {None} /\ held \in Nat
    BY <1>1, <1>2, OlderIs
  <1>4. streak \in Seq(Nat)
    <2>1. Len(m.streak) \in Nat /\ DOMAIN m.streak = 1 .. Len(m.streak)
      BY <1>2, LenProperties
    <2>2. \A k \in 1 .. Len(m.streak) : m.streak[k] \in Nat
      BY <1>2, ElementOfSeq
    <2>3. \A k \in 1 .. Len(m.streak) : Older(m.streak[k], QuarantineWindow + MaxLag) \in Nat
      <3>1. SUFFICES ASSUME NEW k \in 1 .. Len(m.streak)
                     PROVE  Older(m.streak[k], QuarantineWindow + MaxLag) \in Nat
        OBVIOUS
      <3>2. m.streak[k] \in Nat /\ m.streak[k] \in Nat \cup {None}
        BY <2>2
      <3>3. QED
        BY <1>1, <3>2, OlderIs, ZenonT(30)
    <2>4. QED
      BY <2>1, <2>3, SMTT(30)
  <1>5. AgedSubscriber(m) = [a EXCEPT !.streak = streak, !.held = held]
    BY DEF AgedSubscriber
  <1> HIDE DEF age, since, streak, held
  <1>6. a \in Subscriber /\ a.status = m.status /\ a.addr = m.addr
    BY <1>3 DEF Subscriber
  <1> HIDE DEF a
  <1>7. /\ [a EXCEPT !.streak = streak, !.held = held] \in Subscriber
        /\ [a EXCEPT !.streak = streak, !.held = held].status = m.status
        /\ [a EXCEPT !.streak = streak, !.held = held].addr = m.addr
    BY <1>3, <1>4, <1>6 DEF Subscriber
  <1>8. QED
    BY <1>5, <1>7

-----------------------------------------------------------------------------
(* Steps outside a round: rows come, change and go, messages are queued and *)
(* deleted.                                                                *)

\* A row that is gone stays so, and one that goes takes its messages along; an
\* address is not forgotten; who is pending anew has nothing queued from before.
SubsMove ==
  /\ subs' \in Seq(Subscriber) /\ Len(subs') >= Len(subs)
  /\ \A s \in DOMAIN subs :
       /\ ~Live(s) => subs'[s].status = "gone"
       /\ subs'[s].status = "gone" =>
            ~Live(s) \/ \A i \in DOMAIN outbox : outbox[i].to = s => outbox'[i].status = "gone"
       /\ subs'[s].status # "gone" /\ subs'[s].addr = Unlinked =>
            subs[s].addr = Unlinked /\ subs'[s].status = subs[s].status
       /\ subs'[s].status = "pending" =>
            \/ subs[s].status = "pending"
            \/ \A i \in DOMAIN outbox : outbox[i].to = s => outbox'[i].status # "queued"
  /\ \A s \in DOMAIN subs' : s \in DOMAIN subs \/ subs'[s].status = "pending"

\* Messages stay or are deleted, and come for those who may have them.
BoxMove ==
  /\ outbox' \in Seq(Message) /\ Len(outbox') >= Len(outbox)
  /\ \A i \in DOMAIN outbox : outbox'[i] = outbox[i] \/ outbox'[i] = Deleted(i)
  /\ \A i \in DOMAIN outbox' :
       \/ i \in DOMAIN outbox
       \/ \E s \in DOMAIN subs', e \in Events \cup {Confirm} :
            /\ outbox'[i] = NewMessage(s, e)
            /\ subs'[s].status # "gone" /\ subs'[s].addr # Unlinked
            /\ subs'[s].status = "pending" => e = Confirm

\* The tables of the next state.
LEMMA TablesNext ==
  ASSUME TypeOK, SubsMove, BoxMove
  PROVE  /\ DOMAIN subs' = 1 .. Len(subs') /\ DOMAIN subs \subseteq DOMAIN subs'
         /\ DOMAIN outbox' = 1 .. Len(outbox') /\ DOMAIN outbox \subseteq DOMAIN outbox'
         /\ \A i \in DOMAIN outbox' : outbox'[i] \in Message
         /\ \A i \in DOMAIN outbox : /\ outbox'[i].to = outbox[i].to
                                     /\ \/ outbox'[i] = outbox[i]
                                        \/ /\ outbox'[i].status = "gone"
                                           /\ outbox'[i].arrived = 0 /\ outbox'[i].tried = 0 /\ outbox'[i].unheard = 0
  <1>1. subs' \in Seq(Subscriber) /\ Len(subs') >= Len(subs)
    BY DEF SubsMove
  <1>2. outbox' \in Seq(Message) /\ Len(outbox') >= Len(outbox)
    BY DEF BoxMove
  <1>3. DOMAIN subs' = 1 .. Len(subs') /\ DOMAIN outbox' = 1 .. Len(outbox')
        /\ Len(subs') \in Nat /\ Len(outbox') \in Nat
    BY <1>1, <1>2, LenProperties
  <1>4. \A i \in DOMAIN outbox' : outbox'[i] \in Message
    BY <1>2, <1>3, ElementOfSeq
  <1>5. ASSUME NEW i \in DOMAIN outbox
        PROVE  /\ outbox'[i].to = outbox[i].to
               /\ \/ outbox'[i] = outbox[i]
                  \/ /\ outbox'[i].status = "gone"
                     /\ outbox'[i].arrived = 0 /\ outbox'[i].tried = 0 /\ outbox'[i].unheard = 0
    <2>1. outbox'[i] = outbox[i] \/ outbox'[i] = Deleted(i)
      BY DEF BoxMove
    <2>2. QED
      BY <2>1, DeletedType
  <1>6. DOMAIN subs \subseteq DOMAIN subs' /\ DOMAIN outbox \subseteq DOMAIN outbox'
    BY <1>1, <1>2, <1>3, Tables
  <1>7. QED
    BY <1>3, <1>4, <1>5, <1>6

\* What TypeOK says of the tables.
TablesOK ==
  /\ subs \in Seq(Subscriber)
  /\ outbox \in Seq(Message)
  /\ \A i \in DOMAIN outbox : /\ outbox[i].to \in DOMAIN subs
                              /\ subs[outbox[i].to].status = "gone" => outbox[i].status = "gone"

\* What such a step keeps of the tables.
LEMMA MoveTables ==
  ASSUME IInv, SubsMove, BoxMove
  PROVE  TablesOK' /\ UnlinkedInv' /\ PendingHoldsNoNews'
  <1>1. TypeOK
    BY DEF IInv
  <1>2. UnlinkedInv'
    <2> SUFFICES ASSUME NEW s \in DOMAIN subs', Live(s)', subs'[s].addr = Unlinked
                 PROVE  /\ subs'[s].status = "pending"
                        /\ \A i \in DOMAIN outbox' : outbox'[i].to = s => outbox'[i].status = "gone"
      BY DEF UnlinkedInv
    <2>1. s \in DOMAIN subs => /\ subs'[s].status = "pending"
                               /\ \A i \in DOMAIN outbox : outbox[i].to = s => outbox[i].status = "gone"
      BY DEF IInv, UnlinkedInv, SubsMove, Live
    <2>2. s \notin DOMAIN subs => /\ subs'[s].status = "pending"
                                  /\ \A i \in DOMAIN outbox : outbox[i].to # s
      BY <1>1 DEF SubsMove, TypeOK
    <2>3. ASSUME NEW i \in DOMAIN outbox', outbox'[i].to = s PROVE outbox'[i].status = "gone"
      <3>1. CASE i \in DOMAIN outbox
        BY <1>1, <2>1, <2>2, <2>3, <3>1, TablesNext
      <3>2. CASE i \notin DOMAIN outbox
        <4>1. PICK t \in DOMAIN subs', e \in Events \cup {Confirm} :
                outbox'[i] = NewMessage(t, e) /\ subs'[t].addr # Unlinked
          BY <3>2 DEF BoxMove
        <4>2. QED
          BY <2>3, <4>1 DEF NewMessage
      <3>3. QED
        BY <3>1, <3>2
    <2>4. QED
      BY <2>1, <2>2, <2>3
  <1>3. PendingHoldsNoNews'
    <2> SUFFICES ASSUME NEW i \in DOMAIN outbox', Queued(i)', subs'[outbox'[i].to].status = "pending"
                 PROVE  outbox'[i].event = Confirm
      BY DEF PendingHoldsNoNews
    <2>1. CASE i \in DOMAIN outbox
      <3>1. outbox'[i].to = outbox[i].to /\ outbox'[i] = outbox[i] /\ outbox[i].to \in DOMAIN subs
        BY <1>1, <2>1, TablesNext DEF Queued, TypeOK
      <3>2. subs[outbox[i].to].status = "pending" \/ outbox'[i].status # "queued"
        BY <2>1, <3>1 DEF SubsMove
      <3>3. QED
        BY <2>1, <3>1, <3>2 DEF IInv, PendingHoldsNoNews, Queued
    <2>2. CASE i \notin DOMAIN outbox
      <3>1. PICK t \in DOMAIN subs', e \in Events \cup {Confirm} :
              outbox'[i] = NewMessage(t, e) /\ (subs'[t].status = "pending" => e = Confirm)
        BY <2>2 DEF BoxMove
      <3>2. QED
        BY <3>1 DEF NewMessage
    <2>3. QED
      BY <2>1, <2>2
  <1>4. ASSUME NEW i \in DOMAIN outbox'
        PROVE  outbox'[i].to \in DOMAIN subs' /\ (subs'[outbox'[i].to].status = "gone" => outbox'[i].status = "gone")
    <2>1. CASE i \in DOMAIN outbox
      <3>1. /\ outbox[i].to \in DOMAIN subs /\ outbox'[i].to = outbox[i].to
            /\ outbox[i].to \in DOMAIN subs'
        BY <1>1, <2>1, TablesNext DEF TypeOK
      <3>2. ASSUME subs'[outbox[i].to].status = "gone" PROVE outbox'[i].status = "gone"
        <4>1. ~Live(outbox[i].to) \/ outbox'[i].status = "gone"
          BY <2>1, <3>1, <3>2 DEF SubsMove
        <4>2. ~Live(outbox[i].to) => outbox[i].status = "gone"
          BY <1>1, <2>1 DEF TypeOK, Live
        <4>3. QED
          BY <1>1, <2>1, <4>1, <4>2, TablesNext
      <3>3. QED
        BY <3>1, <3>2
    <2>2. CASE i \notin DOMAIN outbox
      <3>1. PICK s \in DOMAIN subs', e \in Events \cup {Confirm} :
              outbox'[i] = NewMessage(s, e) /\ subs'[s].status # "gone"
        BY <2>2 DEF BoxMove
      <3>2. outbox'[i].to = s
        BY <3>1 DEF NewMessage
      <3>3. QED
        BY <3>1, <3>2
    <2>3. QED
      BY <2>1, <2>2
  <1>5. subs' \in Seq(Subscriber) /\ outbox' \in Seq(Message)
    BY DEF SubsMove, BoxMove
  <1>6. QED
    BY <1>2, <1>3, <1>4, <1>5 DEF TablesOK

\* With the round as it was and addresses kept apart, it keeps the invariant.
LEMMA MoveKeeps ==
  ASSUME IInv, SubsMove, BoxMove, UNCHANGED disp,
         used' \in [{"signups", "events", "cuts", "lost"} -> Nat], used'.cuts = used.cuts /\ used'.lost = used.lost, UniqueInv'
  PROVE  IInv'
  <1>1. TypeOK /\ TypeOK'
    <2>1. TypeOK
      BY DEF IInv
    <2>2. disp' \in Dispatcher /\ (disp'.at = "idle" <=> disp'.batch = <<>>)
      BY <2>1 DEF TypeOK
    <2>3. \A k \in DOMAIN disp'.batch : disp'.batch[k].row \in DOMAIN outbox' /\ disp'.batch[k].to \in DOMAIN subs'
      BY <2>1, TablesNext DEF TypeOK
    <2>4. QED
      BY <2>1, <2>2, <2>3, MoveTables DEF TypeOK, TablesOK
  <1>2. UnlinkedInv' /\ PendingHoldsNoNews'
    BY MoveTables
  <1>3. BatchInv'
    <2>1. ASSUME NEW k \in DOMAIN disp.batch
          PROVE  EntryOK(disp.batch[k], k = 1 /\ disp.at = "clear")'
      <3> DEFINE r == disp.batch[k]
                 handled == k = 1 /\ disp.at = "clear"
      <3>1. EntryOK(r, handled) /\ r.row \in DOMAIN outbox /\ r.to \in DOMAIN subs
        BY <1>1 DEF IInv, BatchInv, TypeOK
      <3>2. /\ outbox'[r.row].to = outbox[r.row].to
            /\ outbox'[r.row] = outbox[r.row] \/ outbox'[r.row].status = "gone"
        BY <1>1, <3>1, TablesNext
      <3>3. subs'[r.to].addr = Unlinked => subs'[r.to].status = "gone"
        BY <3>1 DEF EntryOK, SubsMove, Live
      <3> HIDE DEF r, handled
      <3>4. EntryOK(r, handled)'
        <4>1. r' = r /\ handled' = handled
          BY DEF r, handled
        <4>2. QED
          BY <3>1, <3>2, <3>3, <4>1 DEF EntryOK, Queued
      <3>5. QED
        BY <3>4 DEF r, handled
    <2>2. QED
      BY <2>1 DEF IInv, BatchInv
  <1>4. MessageInv'
    <2>1. ASSUME NEW i \in DOMAIN outbox'
          PROVE  MessageOK(outbox'[i], Position(i)', disp'.got, used'.cuts, used'.lost)
      <3>1. Position(i)' = Position(i)
        BY DEF Position
      <3>2. CASE i \in DOMAIN outbox
        <4>1. MessageOK(outbox[i], Position(i), disp.got, used.cuts, used.lost)
          BY <3>2 DEF IInv, MessageInv
        <4>2. \/ outbox'[i] = outbox[i]
              \/ outbox'[i].status = "gone" /\ outbox'[i].arrived = 0 /\ outbox'[i].tried = 0
                 /\ outbox'[i].unheard = 0
          BY <1>1, <3>2, TablesNext
        <4>3. QED
          BY <3>1, <4>1, <4>2 DEF MessageOK
      <3>3. CASE i \notin DOMAIN outbox
        <4>1. PICK t \in DOMAIN subs', e \in Events \cup {Confirm} : outbox'[i] = NewMessage(t, e)
          BY <3>3 DEF BoxMove
        <4>2. Position(i) = "rest"
          <5>1. disp.at # "idle" => disp.batch[1].row \in DOMAIN outbox
            BY <1>1, EmptySeq, LenProperties, SMTT(30) DEF TypeOK, Dispatcher
          <5>2. QED
            BY <3>3, <5>1 DEF Position
        <4>3. used.cuts \in Nat /\ used.lost \in Nat /\ MaxAttempts \in Nat \ {0}
          BY <1>1, SubscriptionsAssumption DEF TypeOK, SubscriptionsAssumption
        <4>4. QED
          BY <3>1, <4>1, <4>2, <4>3 DEF MessageOK, NewMessage
      <3>4. QED
        BY <3>2, <3>3
    <2>2. QED
      BY <2>1 DEF IInv, MessageInv
  <1>5. QED
    BY <1>1, <1>2, <1>3, <1>4 DEF IInv

-----------------------------------------------------------------------------
(* Signing up, confirming, leaving, publishing.                            *)

\* The outbox with some messages deleted.
Dropped(box) ==
  /\ box \in Seq(Message) /\ Len(box) = Len(outbox)
  /\ \A i \in DOMAIN outbox : box[i] = outbox[i] \/ box[i] = Deleted(i)

\* Who may have a message.
MayHave(S, e) ==
  /\ subs' \in Seq(Subscriber) /\ S \subseteq DOMAIN subs'
  /\ \A s \in S : /\ subs'[s].status # "gone" /\ subs'[s].addr # Unlinked
                  /\ subs'[s].status = "pending" => e = Confirm

\* Messages queued, after some were dropped.
LEMMA QueueMoves ==
  ASSUME TypeOK, NEW box, Dropped(box), NEW S, NEW e \in Events \cup {Confirm}, MayHave(S, e),
         outbox' = Enqueue(S, e, box)
  PROVE  BoxMove
  <1>1. Ids(S) /\ box \in Seq(Message) /\ Len(box) = Len(outbox)
    <2>1. Len(subs') \in Nat /\ S \subseteq 1 .. Len(subs')
      BY LenProperties DEF MayHave
    <2>2. QED
      BY <2>1 DEF Ids, Dropped
  <1>2. /\ outbox' \in Seq(Message) /\ Len(outbox') >= Len(box)
        /\ \A i \in 1 .. Len(box) : outbox'[i] = box[i]
        /\ \A i \in 1 .. Len(outbox') : i \in 1 .. Len(box) \/ \E s \in S : outbox'[i] = NewMessage(s, e)
    <2> DEFINE q == Enqueue(S, e, box)
    <2>1. q \in Seq(Message) /\ Len(q) >= Len(box)
      BY <1>1, EnqueueIs
    <2>2. \A i \in 1 .. Len(box) : q[i] = box[i]
      BY <1>1, EnqueueIs
    <2>3. \A i \in 1 .. Len(q) : i \in 1 .. Len(box) \/ \E s \in S : q[i] = NewMessage(s, e)
      BY <1>1, EnqueueIs
    <2>4. outbox' = q
      OBVIOUS
    <2> HIDE DEF q
    <2>5. QED
      BY <2>1, <2>2, <2>3, <2>4
  <1>3. DOMAIN outbox = 1 .. Len(box) /\ DOMAIN outbox' = 1 .. Len(outbox')
    BY <1>1, <1>2, Tables, LenProperties
  <1>4. \A i \in DOMAIN outbox' : i \in DOMAIN outbox \/ \E s \in S : outbox'[i] = NewMessage(s, e)
    BY <1>2, <1>3
  <1>5. Len(outbox') >= Len(outbox) /\ \A i \in DOMAIN outbox : outbox'[i] = outbox[i] \/ outbox'[i] = Deleted(i)
    <2>1. \A i \in DOMAIN outbox : outbox'[i] = box[i]
      BY <1>2, <1>3
    <2>2. \A i \in DOMAIN outbox : box[i] = outbox[i] \/ box[i] = Deleted(i)
      BY DEF Dropped
    <2>3. Len(outbox') >= Len(outbox)
      BY <1>1, <1>2
    <2>4. QED
      BY <2>1, <2>2, <2>3
  <1>6. \A s \in S : /\ s \in DOMAIN subs' /\ subs'[s].status # "gone" /\ subs'[s].addr # Unlinked
                     /\ subs'[s].status = "pending" => e = Confirm
    BY DEF MayHave
  <1>7. ASSUME NEW i \in DOMAIN outbox', i \notin DOMAIN outbox
        PROVE  \E s \in DOMAIN subs', f \in Events \cup {Confirm} :
                 /\ outbox'[i] = NewMessage(s, f)
                 /\ subs'[s].status # "gone" /\ subs'[s].addr # Unlinked
                 /\ subs'[s].status = "pending" => f = Confirm
    <2>1. PICK s \in S : outbox'[i] = NewMessage(s, e)
      BY <1>4, <1>7
    <2>2. /\ s \in DOMAIN subs' /\ subs'[s].status # "gone" /\ subs'[s].addr # Unlinked
          /\ subs'[s].status = "pending" => e = Confirm
      BY <1>6
    <2>3. e \in Events \cup {Confirm}
      OBVIOUS
    <2>4. QED
      BY <2>1, <2>2, <2>3
  <1>8. QED
    BY <1>2, <1>5, <1>7 DEF BoxMove

\* No message comes or goes.
LEMMA SameBox ==
  ASSUME TypeOK, UNCHANGED outbox
  PROVE  BoxMove
  <1>1. outbox' \in Seq(Message) /\ Len(outbox') >= Len(outbox)
    BY Tables DEF TypeOK
  <1>2. QED
    BY <1>1 DEF BoxMove

\* A new row.
LEMMA AppendMoves ==
  ASSUME TypeOK, UniqueInv, NEW v \in Subscriber, v.status = "pending",
         v.addr # Unlinked => Have(v.addr) = {}, subs' = Append(subs, v)
  PROVE  /\ SubsMove /\ UniqueInv' /\ Len(subs') \in DOMAIN subs' /\ subs'[Len(subs')] = v
         /\ DOMAIN subs' = DOMAIN subs \cup {Len(subs')}
  <1>1. /\ subs' \in Seq(Subscriber) /\ Len(subs') = Len(subs) + 1 /\ Len(subs) \in Nat
        /\ DOMAIN subs = 1 .. Len(subs) /\ DOMAIN subs' = 1 .. Len(subs')
        /\ \A s \in 1 .. Len(subs) : subs'[s] = subs[s]
        /\ subs'[Len(subs')] = v
    <2>1. subs \in Seq(Subscriber)
      BY DEF TypeOK
    <2>2. QED
      BY <2>1, AppendProperties, LenProperties
  <1>2. Len(subs') \in DOMAIN subs' /\ DOMAIN subs' = DOMAIN subs \cup {Len(subs')}
    BY <1>1
  <1>3. \A s \in DOMAIN subs : subs'[s] = subs[s]
    BY <1>1
  <1>4. SubsMove
    BY <1>1, <1>2, <1>3 DEF SubsMove, Live
  <1>5. UniqueInv'
    <2> SUFFICES ASSUME NEW s \in DOMAIN subs', NEW t \in DOMAIN subs',
                        subs'[s].status # "gone", subs'[t].status # "gone",
                        subs'[s].addr = subs'[t].addr, subs'[s].addr # Unlinked
                 PROVE  s = t
      BY DEF UniqueInv, Live
    <2>1. CASE s \in DOMAIN subs /\ t \in DOMAIN subs
      BY <1>3, <2>1 DEF UniqueInv, Live
    <2>2. CASE s \in DOMAIN subs /\ t = Len(subs')
      BY <1>1, <1>3, <2>2 DEF Have
    <2>3. CASE t \in DOMAIN subs /\ s = Len(subs')
      BY <1>1, <1>3, <2>3 DEF Have
    <2>4. QED
      BY <1>2, <2>1, <2>2, <2>3
  <1>6. QED
    BY <1>1, <1>2, <1>4, <1>5

\* A row that is rewritten, and not deleted.
LEMMA RowMoves ==
  ASSUME TypeOK, UniqueInv, NEW s \in DOMAIN subs, Live(s), NEW v \in Subscriber,
         v.status # "gone", v.addr # Unlinked, v.addr = subs[s].addr \/ Have(v.addr) = {},
         v.status = "pending" => \/ subs[s].status = "pending"
                                 \/ \A i \in DOMAIN outbox : outbox[i].to = s => outbox'[i].status # "queued",
         subs' = [subs EXCEPT ![s] = v]
  PROVE  SubsMove /\ UniqueInv' /\ DOMAIN subs' = DOMAIN subs /\ subs'[s] = v
  <1>1. subs \in Seq(Subscriber) /\ Len(subs) \in Nat /\ DOMAIN subs = 1 .. Len(subs)
    BY Tables DEF TypeOK
  <1>2. subs' \in Seq(Subscriber) /\ Len(subs') = Len(subs) /\ DOMAIN subs' = DOMAIN subs
    BY <1>1, ExceptSeq, LenProperties
  <1>3. \A t \in DOMAIN subs : subs'[t] = IF t = s THEN v ELSE subs[t]
    BY <1>1
  <1>4. SubsMove
    <2>1. Len(subs') >= Len(subs)
      BY <1>1, <1>2
    <2>2. QED
      BY <1>2, <1>3, <2>1 DEF SubsMove, Live
  <1>5. UniqueInv'
    BY <1>2, <1>3 DEF UniqueInv, Live, Have
  <1>6. QED
    BY <1>2, <1>3, <1>4, <1>5

\* Rows deleted with their messages.
LEMMA DeleteMoves ==
  ASSUME TypeOK, UniqueInv, NEW S, S \subseteq DOMAIN subs, S # {}, Delete(S)
  PROVE  /\ SubsMove /\ BoxMove /\ UniqueInv' /\ DOMAIN subs' = DOMAIN subs
         /\ Len(outbox') = Len(outbox)
         /\ \A s \in DOMAIN subs : subs'[s] = IF s \in S THEN Gone ELSE subs[s]
         /\ \A i \in DOMAIN outbox : outbox[i].to \in S => outbox'[i].status = "gone"
         /\ \A i \in DOMAIN outbox : outbox[i].to \notin S => outbox'[i] = outbox[i]
  <1> DEFINE D == UNION {To(s) : s \in S}
  <1>1. Choices # {}
    BY Tables DEF Subscriber
  <1>2. Gone \in Subscriber /\ Gone.status = "gone"
    BY <1>1, GoneType
  <1>3. subs' = [s \in DOMAIN subs |-> IF s \in S THEN Gone ELSE subs[s]] /\ outbox' = Drop(D)
    BY DEF Delete
  <1>4. /\ outbox' \in Seq(Message) /\ Len(outbox') = Len(outbox) /\ DOMAIN outbox' = DOMAIN outbox
        /\ \A i \in DOMAIN outbox : outbox'[i] = IF i \in D THEN Deleted(i) ELSE outbox[i]
    <2> HIDE DEF D
    <2>1. QED
      BY <1>3, DropIs
  <1>5. \A i \in DOMAIN outbox : i \in D <=> outbox[i].to \in S /\ outbox[i].status # "gone"
    BY DEF To
  <1> HIDE DEF D
  <1>6. \A i \in DOMAIN outbox : outbox[i].to \in S => outbox'[i].status = "gone"
    BY <1>4, <1>5, DeletedType
  <1>7. DOMAIN subs' = DOMAIN subs /\ \A s \in DOMAIN subs : subs'[s] = IF s \in S THEN Gone ELSE subs[s]
    BY <1>3
  <1>8. subs' \in Seq(Subscriber) /\ Len(subs') = Len(subs)
    <2>1. subs \in Seq(Subscriber)
      BY DEF TypeOK
    <2>2. \A s \in DOMAIN subs : subs'[s] \in Subscriber
      BY <1>2, <1>7, Tables
    <2>3. QED
      BY <1>3, <1>7, <2>1, <2>2, Rewritten
  <1>9. SubsMove
    <2>1. Len(subs') >= Len(subs)
      BY <1>8, Tables
    <2>2. QED
      BY <1>2, <1>6, <1>7, <1>8, <2>1 DEF SubsMove, Live
  <1>10. BoxMove
    <2>1. Len(outbox') >= Len(outbox)
      BY <1>4, Tables
    <2>2. QED
      BY <1>4, <2>1 DEF BoxMove
  <1>11. UniqueInv'
    BY <1>2, <1>7 DEF UniqueInv, Live
  <1>12. QED
    BY <1>4, <1>5, <1>6, <1>7, <1>9, <1>10, <1>11

\* Nobody signed up, nothing queued, no round.
LEMMA InitHolds ==
  ASSUME SubscriptionsAssumption, Init
  PROVE  IInv
  <1>1. DOMAIN subs = {} /\ DOMAIN outbox = {} /\ subs \in Seq(Subscriber) /\ outbox \in Seq(Message)
    BY EmptySeq, LenProperties DEF Init
  <1>2. disp.at = "idle" /\ disp.batch = <<>> /\ DOMAIN disp.batch = {} /\ disp \in Dispatcher
    <2>1. <<>> \in Seq(Snapshot) /\ DOMAIN <<>> = {}
      BY EmptySeq, LenProperties
    <2>2. QED
      BY <2>1 DEF Init, Idle, Dispatcher, Steps, Answers
  <1>3. used \in [{"signups", "events", "cuts", "lost"} -> Nat] /\ used.cuts <= MaxCuts /\ used.lost <= MaxLost
    BY DEF Init, SubscriptionsAssumption
  <1>4. QED
    BY <1>1, <1>2, <1>3
    DEF IInv, TypeOK, UnlinkedInv, UniqueInv, PendingHoldsNoNews, BatchInv, MessageInv

\* Who an address is looked up for.
LEMMA HaveIs ==
  ASSUME SubscriptionsAssumption, NEW addr \in Forms \cup Chats, NEW s \in Have(addr)
  PROVE  /\ s \in DOMAIN subs /\ Live(s) /\ subs[s].addr = addr /\ addr # Unlinked
  BY DEF Have, Live, SubscriptionsAssumption

\* A counter goes up.
LEMMA SpendIs ==
  ASSUME TypeOK, NEW what \in {"signups", "events"}, Spend(what)
  PROVE  used' \in [{"signups", "events", "cuts", "lost"} -> Nat] /\ used'.cuts = used.cuts /\ used'.lost = used.lost
         /\ used.signups + 1 \in Nat
  BY DEF TypeOK, Spend

LEMMA SignUpKeeps ==
  ASSUME SubscriptionsAssumption, IInv, NEW addr \in Forms, NEW wants \in Choices, SignUp(addr, wants)
  PROVE  IInv'
  <1>1. TypeOK /\ UniqueInv
    BY DEF IInv
  <1>2. /\ used' \in [{"signups", "events", "cuts", "lost"} -> Nat] /\ used'.cuts = used.cuts /\ used'.lost = used.lost
        /\ used.signups + 1 \in Nat /\ UNCHANGED disp
    BY <1>1, SpendIs DEF SignUp
  <1>3. addr # Unlinked
    BY DEF SubscriptionsAssumption
  <1> DEFINE v == NewSubscriber(addr, wants, used.signups + 1)
  <1>4. v \in Subscriber /\ v.status = "pending" /\ v.addr = addr
    BY <1>2, NewSubscriberType DEF NewSubscriber
  <1>5. CASE SignUpNew(addr, wants)
    <2>1. subs' = Append(subs, v) /\ Have(addr) = {} /\ outbox' = Enqueue({Len(subs')}, Confirm, outbox)
      BY <1>5 DEF SignUpNew
    <2> HIDE DEF v
    <2>2. /\ SubsMove /\ UniqueInv' /\ Len(subs') \in DOMAIN subs' /\ subs'[Len(subs')] = v
      BY <1>1, <1>4, <2>1, AppendMoves
    <2>3. BoxMove
      <3>1. MayHave({Len(subs')}, Confirm)
        BY <1>3, <1>4, <2>2 DEF SubsMove, MayHave
      <3>2. Dropped(outbox)
        BY <1>1 DEF TypeOK, Dropped
      <3>3. QED
        BY <1>1, <2>1, <3>1, <3>2, QueueMoves
    <2>4. QED
      BY <1>2, <2>2, <2>3, MoveKeeps
  <1>6. ASSUME NEW s \in Have(addr), SignUpAgain(s, wants) PROVE IInv'
    <2>1. s \in DOMAIN subs /\ Live(s) /\ subs[s].addr = addr /\ subs[s].status # "active"
      BY <1>6, HaveIs DEF SignUpAgain, MayRenew
    <2> DEFINE stale == IF subs[s].status = "quarantined" THEN Held(s) ELSE {}
               D == stale \cup OldConfirms(s)
    <2>2. subs' = [subs EXCEPT ![s] = v] /\ outbox' = Enqueue({s}, Confirm, Drop(D))
      BY <1>6, <2>1 DEF SignUpAgain, Renewed
    <2>3. /\ Drop(D) \in Seq(Message) /\ Len(Drop(D)) = Len(outbox)
          /\ \A i \in DOMAIN outbox : Drop(D)[i] = IF i \in D THEN Deleted(i) ELSE outbox[i]
      <3> HIDE DEF D
      <3>1. QED
        BY <1>1, DropIs
    <2>4. \A i \in DOMAIN outbox : Drop(D)[i] = outbox[i] \/ Drop(D)[i] = Deleted(i)
      BY <2>3
    <2>5. subs[s].status \in {"pending", "quarantined"}
      BY <1>1, <2>1, Tables DEF Subscriber, Live
    <2>6. ASSUME subs[s].status # "pending", NEW i \in DOMAIN outbox, outbox[i].to = s
          PROVE  Drop(D)[i].status # "queued"
      <3>1. i \in D \/ outbox[i].status # "queued"
        BY <2>5, <2>6 DEF Held, To
      <3> HIDE DEF D
      <3>2. QED
        BY <1>1, <2>3, <3>1, DeletedType
    <2> HIDE DEF D, v
    <2>7. \A i \in DOMAIN outbox : outbox'[i] = Drop(D)[i]
      <3> DEFINE box == Drop(D)
      <3>1. Ids({s}) /\ box \in Seq(Message) /\ DOMAIN outbox = 1 .. Len(box)
        BY <1>1, <2>1, <2>3, Tables DEF Ids
      <3>2. \A i \in 1 .. Len(box) : Enqueue({s}, Confirm, box)[i] = box[i]
        BY <3>1, EnqueueIs
      <3>3. QED
        BY <2>2, <3>1, <3>2
    <2>8. SubsMove /\ UniqueInv' /\ DOMAIN subs' = DOMAIN subs /\ subs'[s] = v
      BY <1>1, <1>3, <1>4, <2>1, <2>2, <2>6, <2>7, RowMoves
    <2>9. BoxMove
      <3>1. Dropped(Drop(D))
        BY <2>3, <2>4 DEF Dropped
      <3>2. MayHave({s}, Confirm)
        BY <1>3, <1>4, <2>1, <2>8 DEF SubsMove, MayHave
      <3>3. QED
        BY <1>1, <2>2, <3>1, <3>2, QueueMoves
    <2>10. QED
      BY <1>2, <2>8, <2>9, MoveKeeps
  <1>7. QED
    BY <1>5, <1>6 DEF SignUp

LEMMA SignUpByLinkKeeps ==
  ASSUME SubscriptionsAssumption, IInv, NEW wants \in Choices, SignUpByLink(wants)
  PROVE  IInv'
  <1>1. TypeOK /\ UniqueInv
    BY DEF IInv
  <1>2. /\ used' \in [{"signups", "events", "cuts", "lost"} -> Nat] /\ used'.cuts = used.cuts /\ used'.lost = used.lost
        /\ used.signups + 1 \in Nat /\ UNCHANGED <<outbox, disp>>
    BY <1>1, SpendIs DEF SignUpByLink
  <1> DEFINE n == NewSubscriber(Unlinked, wants, used.signups + 1)
             v == [n EXCEPT !.inHand = TRUE]
  <1>3. n \in Subscriber /\ n.status = "pending" /\ n.addr = Unlinked
    BY <1>2, NewSubscriberType DEF NewSubscriber
  <1>4. subs' = Append(subs, v)
    BY DEF SignUpByLink
  <1> HIDE DEF n
  <1>5. v \in Subscriber /\ v.status = "pending" /\ v.addr = Unlinked
    BY <1>3 DEF Subscriber
  <1> HIDE DEF v
  <1>6. SubsMove /\ UniqueInv'
    BY <1>1, <1>4, <1>5, AppendMoves
  <1>7. BoxMove
    BY <1>1, <1>2, SameBox
  <1>8. QED
    BY <1>2, <1>6, <1>7, MoveKeeps

LEMMA ConfirmSubmitKeeps ==
  ASSUME SubscriptionsAssumption, IInv, NEW s \in DOMAIN subs, ConfirmSubmit(s)
  PROVE  IInv'
  <1>1. TypeOK /\ UniqueInv
    BY DEF IInv
  <1> DEFINE v == Activated(subs[s])
  <1>2. v \in Subscriber /\ v.status = "active" /\ v.addr = subs[s].addr
    BY <1>1, Tables, ActivatedIs
  <1>3. Live(s) /\ subs[s].addr # Unlinked /\ subs' = [subs EXCEPT ![s] = v]
    BY DEF ConfirmSubmit, Works, Live
  <1> HIDE DEF v
  <1>4. SubsMove /\ UniqueInv'
    BY <1>1, <1>2, <1>3, RowMoves
  <1>5. BoxMove
    BY <1>1, SameBox DEF ConfirmSubmit
  <1>6. used' \in [{"signups", "events", "cuts", "lost"} -> Nat] /\ used'.cuts = used.cuts /\ used'.lost = used.lost /\ UNCHANGED disp
    BY <1>1 DEF ConfirmSubmit, TypeOK
  <1>7. QED
    BY <1>4, <1>5, <1>6, MoveKeeps

LEMMA LinkChatKeeps ==
  ASSUME SubscriptionsAssumption, IInv, NEW s \in DOMAIN subs, NEW chat \in Chats, LinkChat(s, chat)
  PROVE  IInv'
  <1>1. TypeOK /\ UniqueInv /\ UnlinkedInv
    BY DEF IInv
  <1>2. subs[s] \in Subscriber /\ Live(s) /\ subs[s].addr = Unlinked /\ chat # Unlinked
    BY <1>1, Tables DEF LinkChat, Works, Live, SubscriptionsAssumption
  <1>3. BoxMove /\ UNCHANGED <<outbox, disp>>
    BY <1>1, SameBox DEF LinkChat
  <1>4. used' \in [{"signups", "events", "cuts", "lost"} -> Nat] /\ used'.cuts = used.cuts /\ used'.lost = used.lost
    BY <1>1 DEF LinkChat, TypeOK
  <1>5. CASE Have(chat) = {}
    <2> DEFINE v == [Activated(subs[s]) EXCEPT !.addr = chat]
    <2>1. v \in Subscriber /\ v.status = "active" /\ v.addr = chat
      BY <1>2, LinkedIs
    <2>2. subs' = [subs EXCEPT ![s] = v]
      BY <1>5 DEF LinkChat
    <2> HIDE DEF v
    <2>3. SubsMove /\ UniqueInv'
      BY <1>1, <1>2, <1>5, <2>1, <2>2, RowMoves
    <2>4. QED
      BY <1>3, <1>4, <2>3, MoveKeeps
  <1>6. CASE Have(chat) # {}
    <2> DEFINE t == CHOOSE t \in Have(chat) : TRUE
               wants == subs[s].wants
               v == [subs[t] EXCEPT !.status = "active", !.wants = wants, !.failures = 0,
                                    !.since = None, !.held = 0, !.streak = <<>>]
    <2>1. t \in Have(chat)
      BY <1>6
    <2>2. subs' = [subs EXCEPT ![s] = Gone, ![t] = [@ EXCEPT !.status = "active", !.wants = subs[s].wants,
                                                   !.failures = 0, !.since = None, !.held = 0,
                                                   !.streak = <<>>]]
      BY <1>6 DEF LinkChat
    <2> HIDE DEF t
    <2>3. t \in DOMAIN subs /\ Live(t) /\ subs[t].addr = chat /\ t # s
      BY <1>2, <2>1, HaveIs
    <2>4. wants \in Choices /\ subs[t] \in Subscriber
      BY <1>1, <1>2, <2>3, Tables DEF Subscriber
    <2>5. v \in Subscriber /\ v.status = "active" /\ v.addr = chat
      BY <2>3, <2>4, TakenOverIs
    <2>6. Gone \in Subscriber /\ Gone.status = "gone"
      BY <2>4, GoneType
    <2>7. /\ DOMAIN subs' = DOMAIN subs /\ subs' = [r \in DOMAIN subs |-> subs'[r]]
          /\ \A r \in DOMAIN subs : subs'[r] = IF r = t THEN v ELSE IF r = s THEN Gone ELSE subs[r]
      BY <2>2, <2>3
    <2> HIDE DEF v, wants
    <2>8. subs' \in Seq(Subscriber) /\ Len(subs') = Len(subs)
      <3>1. \A r \in DOMAIN subs : subs'[r] \in Subscriber
        BY <1>1, <2>5, <2>6, <2>7, Tables
      <3>2. subs \in Seq(Subscriber)
        BY <1>1 DEF TypeOK
      <3>3. QED
        BY <2>7, <3>1, <3>2, Rewritten
    <2>9. \A i \in DOMAIN outbox : outbox[i].to = s => outbox'[i].status = "gone"
      BY <1>1, <1>2, <1>3 DEF UnlinkedInv
    <2>10. SubsMove
      <3>1. Len(subs') >= Len(subs)
        BY <1>1, <2>8, Tables
      <3>2. QED
        BY <1>2, <2>3, <2>5, <2>6, <2>7, <2>8, <2>9, <3>1 DEF SubsMove, Live
    <2>11. UniqueInv'
      BY <1>1, <2>3, <2>5, <2>6, <2>7, SMTT(30) DEF UniqueInv, Live
    <2>12. QED
      BY <1>3, <1>4, <2>10, <2>11, MoveKeeps
  <1>7. QED
    BY <1>5, <1>6

\* Unsubscribe and the prune.
LEMMA DeleteKeeps ==
  ASSUME SubscriptionsAssumption, IInv, NEW S, S \subseteq DOMAIN subs, S # {}, Delete(S),
         UNCHANGED <<disp, used>>
  PROVE  IInv'
  <1>1. TypeOK /\ UniqueInv
    BY DEF IInv
  <1>2. SubsMove /\ BoxMove /\ UniqueInv'
    BY <1>1, DeleteMoves
  <1>3. used' \in [{"signups", "events", "cuts", "lost"} -> Nat] /\ used'.cuts = used.cuts /\ used'.lost = used.lost /\ UNCHANGED disp
    BY <1>1 DEF TypeOK
  <1>4. QED
    BY <1>2, <1>3, MoveKeeps

LEMMA FanOutKeeps ==
  ASSUME SubscriptionsAssumption, IInv, NEW e \in Events, FanOut(e)
  PROVE  IInv'
  <1>1. TypeOK /\ UniqueInv
    BY DEF IInv
  <1>2. /\ used' \in [{"signups", "events", "cuts", "lost"} -> Nat] /\ used'.cuts = used.cuts /\ used'.lost = used.lost
        /\ UNCHANGED <<subs, disp>>
    BY <1>1, SpendIs DEF FanOut
  <1>3. SubsMove
    <2>1. subs' \in Seq(Subscriber) /\ Len(subs') >= Len(subs)
      BY <1>1, <1>2, Tables DEF TypeOK
    <2>2. QED
      BY <1>2, <2>1 DEF SubsMove, Live
  <1>4. BoxMove
    <2>1. \A s \in Audience(e) : s \in DOMAIN subs /\ subs[s].status = "active" /\ subs[s].addr # Unlinked
      BY DEF Audience, IInv, UnlinkedInv, Live
    <2>2. \A s \in Audience(e) : subs'[s].status = "active" /\ subs'[s].addr # Unlinked
      BY <1>2, <2>1
    <2>3. MayHave(Audience(e), e)
      BY <1>1, <1>2, <2>1, <2>2 DEF MayHave, TypeOK
    <2>4. Dropped(outbox) /\ outbox' = Enqueue(Audience(e), e, outbox)
      BY <1>1 DEF TypeOK, Dropped, FanOut
    <2>5. QED
      BY <1>1, <2>3, <2>4, QueueMoves
  <1>5. UniqueInv'
    BY <1>1, <1>2 DEF UniqueInv, Live
  <1>6. QED
    BY <1>2, <1>3, <1>4, <1>5, MoveKeeps

-----------------------------------------------------------------------------
(* Steps of a round.                                                       *)

\* No row comes, goes or moves; one may be put in quarantine.
SubsStay ==
  /\ subs' \in Seq(Subscriber) /\ DOMAIN subs' = DOMAIN subs
  /\ \A s \in DOMAIN subs :
       /\ subs'[s].addr = subs[s].addr
       /\ \/ subs'[s].status = subs[s].status
          \/ Live(s) /\ subs[s].addr # Unlinked /\ subs'[s].status = "quarantined"

\* No message is deleted, and none is queued again.
BoxStay ==
  /\ outbox' \in Seq(Message) /\ DOMAIN outbox' = DOMAIN outbox
  /\ \A i \in DOMAIN outbox :
       /\ outbox'[i].to = outbox[i].to /\ outbox'[i].event = outbox[i].event
       /\ outbox[i].status = "gone" => outbox'[i].status = "gone"
       /\ outbox'[i].status = "queued" => outbox[i].status = "queued"

OthersStay == \A i \in DOMAIN outbox : i # Head1.row => outbox'[i] = outbox[i]

\* What such a step keeps.
LEMMA StayKeeps ==
  ASSUME IInv, SubsStay, BoxStay
  PROVE  TablesOK' /\ UnlinkedInv' /\ UniqueInv' /\ PendingHoldsNoNews'
  <1>1. TypeOK
    BY DEF IInv
  <1>2. \A i \in DOMAIN outbox : /\ outbox[i].to \in DOMAIN subs
                                 /\ subs[outbox[i].to].status = "gone" => outbox[i].status = "gone"
    BY <1>1 DEF TypeOK
  <1>3. TablesOK'
    BY <1>2, SMTT(30) DEF SubsStay, BoxStay, TablesOK
  <1>4. UnlinkedInv'
    BY SMTT(30) DEF IInv, UnlinkedInv, SubsStay, BoxStay, Live
  <1>5. UniqueInv'
    BY DEF IInv, UniqueInv, SubsStay, Live
  <1>6. PendingHoldsNoNews'
    BY <1>2, SMTT(30) DEF IInv, PendingHoldsNoNews, SubsStay, BoxStay, Queued
  <1>7. QED
    BY <1>3, <1>4, <1>5, <1>6

\* The row that a round is at.
LEMMA HeadIs ==
  ASSUME IInv, disp.at # "idle"
  PROVE  /\ Len(disp.batch) \in Nat \ {0} /\ DOMAIN disp.batch = 1 .. Len(disp.batch)
         /\ disp.batch \in Seq(Snapshot)
         /\ Head1 = disp.batch[1] /\ 1 \in DOMAIN disp.batch
         /\ Head1 \in Snapshot /\ Head1.row \in DOMAIN outbox /\ Head1.to \in DOMAIN subs
         /\ EntryOK(Head1, disp.at = "clear")
         /\ \A k \in DOMAIN disp.batch : k # 1 => /\ EntryOK(disp.batch[k], FALSE)
                                                  /\ disp.batch[k].row # Head1.row
                                                  /\ disp.batch[k].row \in DOMAIN outbox
                                                  /\ disp.batch[k].to \in DOMAIN subs
  <1>1. disp.batch \in Seq(Snapshot) /\ disp.batch # <<>>
    BY DEF IInv, TypeOK, Dispatcher
  <1>2. /\ Len(disp.batch) \in Nat /\ DOMAIN disp.batch = 1 .. Len(disp.batch)
        /\ Len(disp.batch) # 0
    BY <1>1, LenProperties, EmptySeq
  <1>3. Head1 = disp.batch[1] /\ 1 \in DOMAIN disp.batch /\ disp.batch[1] \in Snapshot
    BY <1>1, <1>2, ElementOfSeq DEF Head1
  <1>4. \A k \in DOMAIN disp.batch : disp.batch[k].row \in DOMAIN outbox /\ disp.batch[k].to \in DOMAIN subs
    BY DEF IInv, TypeOK
  <1>5. EntryOK(disp.batch[1], disp.at = "clear")
    <2>1. EntryOK(disp.batch[1], 1 = 1 /\ disp.at = "clear")
      BY <1>3 DEF IInv, BatchInv
    <2>2. QED
      BY <2>1 DEF EntryOK
  <1>6. ASSUME NEW k \in DOMAIN disp.batch, k # 1
        PROVE  EntryOK(disp.batch[k], FALSE) /\ disp.batch[k].row # Head1.row
    <2>1. EntryOK(disp.batch[k], k = 1 /\ disp.at = "clear")
      BY DEF IInv, BatchInv
    <2>2. EntryOK(disp.batch[k], FALSE)
      BY <1>6, <2>1 DEF EntryOK
    <2>3. QED
      BY <1>3, <1>6, <2>2 DEF IInv, BatchInv
  <1>7. QED
    BY <1>1, <1>2, <1>3, <1>4, <1>5, <1>6

\* Where the messages are during a round.
LEMMA PositionIs ==
  ASSUME IInv, NEW i \in DOMAIN outbox
  PROVE  /\ MessageOK(outbox[i], Position(i), disp.got, used.cuts, used.lost)
         /\ outbox[i] \in Message /\ used.cuts \in Nat /\ used.lost \in Nat /\ used.cuts <= MaxCuts /\ used.lost <= MaxLost
         /\ disp.at \in {"idle", "next"} => Position(i) = "rest"
         /\ disp.at # "idle" /\ i # Head1.row => Position(i) = "rest"
         /\ disp.at \notin {"idle", "next"} /\ i = Head1.row => Position(i) = disp.at
  <1>1. disp.at # "idle" => Head1 = disp.batch[1]
    BY HeadIs
  <1>2. TypeOK
    BY DEF IInv
  <1>3. MessageOK(outbox[i], Position(i), disp.got, used.cuts, used.lost) /\ used.cuts <= MaxCuts /\ used.lost <= MaxLost
    BY DEF IInv, MessageInv
  <1>4. outbox[i] \in Message /\ used.cuts \in Nat /\ used.lost \in Nat
    BY <1>2, Tables DEF TypeOK
  <1>5. QED
    BY <1>1, <1>3, <1>4 DEF Position

\* A message at rest does not depend on what the round got.
LEMMA RestIs ==
  ASSUME NEW m \in Message, NEW got, NEW got2, NEW cuts, NEW lost, MessageOK(m, "rest", got, cuts, lost)
  PROVE  MessageOK(m, "rest", got2, cuts, lost)
  BY DEF MessageOK

\* A row of the batch stays known if its message does or is deleted.
LEMMA EntryStays ==
  ASSUME NEW r, NEW handled, EntryOK(r, handled), r.row \in DOMAIN outbox, r.to \in DOMAIN subs,
         SubsStay, outbox'[r.row] = outbox[r.row]
  PROVE  EntryOK(r, handled)'
  <1>1. subs'[r.to].addr = Unlinked => subs'[r.to].status = "gone"
    BY DEF EntryOK, SubsStay, Live
  <1>2. QED
    BY <1>1 DEF EntryOK, Queued

\* What a round is between two of its rows.
LEMMA IdleIs ==
  /\ Idle \in Dispatcher /\ Idle.at = "idle" /\ Idle.batch = <<>> /\ DOMAIN Idle.batch = {}
  <1>1. <<>> \in Seq(Snapshot) /\ DOMAIN <<>> = {}
    BY EmptySeq, LenProperties
  <1>2. QED
    BY <1>1 DEF Idle, Dispatcher, Steps, Answers

LEMMA FollowingIs ==
  ASSUME IInv, disp.at # "idle", Following
  PROVE  /\ disp' \in Dispatcher /\ (disp'.at = "idle" <=> disp'.batch = <<>>)
         /\ disp'.at \in {"idle", "next"}
         /\ DOMAIN disp'.batch = 1 .. (Len(disp.batch) - 1)
         /\ \A k \in DOMAIN disp'.batch : disp'.batch[k] = disp.batch[k + 1] /\ k + 1 \in DOMAIN disp.batch
  <1> DEFINE n == Len(disp.batch)
  <1>1. n \in Nat \ {0} /\ DOMAIN disp.batch = 1 .. n /\ disp.batch \in Seq(Snapshot)
    BY HeadIs
  <1>2. CASE n = 1
    <2>1. disp' = Idle /\ 1 .. (n - 1) = {}
      BY <1>2 DEF Following
    <2>2. QED
      BY <2>1, IdleIs
  <1>3. CASE n # 1
    <2>1. disp' = [disp EXCEPT !.at = "next", !.batch = Tail(@), !.got = "ok"] /\ disp \in Dispatcher
      BY <1>3 DEF Following, IInv, TypeOK
    <2> HIDE DEF n
    <2>2. /\ Tail(disp.batch) \in Seq(Snapshot) /\ Len(Tail(disp.batch)) = n - 1
          /\ DOMAIN Tail(disp.batch) = 1 .. (n - 1)
          /\ \A k \in 1 .. (n - 1) : Tail(disp.batch)[k] = disp.batch[k + 1]
      <3>1. disp.batch # <<>>
        BY <1>1, EmptySeq DEF n
      <3>2. Tail(disp.batch) \in Seq(Snapshot) /\ Len(Tail(disp.batch)) = n - 1
            /\ \A k \in 1 .. (n - 1) : Tail(disp.batch)[k] = disp.batch[k + 1]
        BY <1>1, <3>1, HeadTailProperties DEF n
      <3>3. QED
        BY <3>2, LenProperties
    <2>3. Tail(disp.batch) # <<>>
      <3> DEFINE q == Tail(disp.batch)
      <3>1. q \in Seq(Snapshot) /\ Len(q) = n - 1 /\ n - 1 # 0
        BY <1>1, <1>3, <2>2 DEF n
      <3> HIDE DEF q
      <3>2. q # <<>>
        BY <3>1, EmptySeq
      <3>3. QED
        BY <3>2 DEF q
    <2>4. disp'.at = "next" /\ disp'.batch = Tail(disp.batch) /\ disp' \in Dispatcher
      BY <2>1, <2>2 DEF Dispatcher, Steps, Answers
    <2>5. \A k \in 1 .. (n - 1) : k + 1 \in DOMAIN disp.batch
      BY <1>1
    <2>6. QED
      BY <2>2, <2>3, <2>4, <2>5 DEF n
  <1>4. QED
    BY <1>2, <1>3

\* A step that ends with the row at hand: its message is at rest, and those of
\* the other rows were not touched, or deleted.
LEMMA NextRowKeeps ==
  ASSUME IInv, disp.at # "idle", Following, UNCHANGED used,
         TablesOK', UnlinkedInv', UniqueInv', PendingHoldsNoNews',
         DOMAIN outbox' = DOMAIN outbox, DOMAIN subs' = DOMAIN subs,
         \A k \in DOMAIN disp.batch, r \in Snapshot :
           k # 1 /\ r = disp.batch[k] => EntryOK(r, FALSE)',
         \A i \in DOMAIN outbox : MessageOK(outbox'[i], "rest", disp'.got, used.cuts, used.lost)
  PROVE  IInv'
  <1>1. /\ disp' \in Dispatcher /\ (disp'.at = "idle" <=> disp'.batch = <<>>)
        /\ disp'.at \in {"idle", "next"}
        /\ DOMAIN disp'.batch = 1 .. (Len(disp.batch) - 1)
        /\ \A k \in DOMAIN disp'.batch : disp'.batch[k] = disp.batch[k + 1] /\ k + 1 \in DOMAIN disp.batch
    BY FollowingIs
  <1>2. /\ Len(disp.batch) \in Nat \ {0} /\ DOMAIN disp.batch = 1 .. Len(disp.batch)
        /\ \A k \in DOMAIN disp.batch : disp.batch[k].row \in DOMAIN outbox /\ disp.batch[k].to \in DOMAIN subs
        /\ \A j, k \in DOMAIN disp.batch : disp.batch[j].row = disp.batch[k].row => j = k
    BY HeadIs DEF IInv, TypeOK, BatchInv
  <1>3. \A k \in DOMAIN disp'.batch : k \in Int /\ k + 1 # 1
    BY <1>1, <1>2
  <1>4. TypeOK'
    <2>1. used' \in [{"signups", "events", "cuts", "lost"} -> Nat]
      BY DEF IInv, TypeOK
    <2>2. \A k \in DOMAIN disp'.batch : disp'.batch[k].row \in DOMAIN outbox' /\ disp'.batch[k].to \in DOMAIN subs'
      BY <1>1, <1>2
    <2>3. QED
      BY <1>1, <2>1, <2>2 DEF TypeOK, TablesOK
  <1>5. BatchInv'
    <2>1. ASSUME NEW k \in DOMAIN disp'.batch, NEW r, r = disp'.batch[k], NEW handled
          PROVE  EntryOK(r, handled)'
      <3>1. k + 1 \in DOMAIN disp.batch /\ k + 1 # 1 /\ r = disp.batch[k + 1]
        BY <1>1, <1>3, <2>1
      <3>2. r \in Snapshot
        BY <3>1, <1>2, HeadIs, ElementOfSeq
      <3>3. EntryOK(r, FALSE)'
        BY <3>1, <3>2
      <3>4. QED
        BY <3>3 DEF EntryOK
    <2>2. ASSUME NEW j \in DOMAIN disp'.batch, NEW k \in DOMAIN disp'.batch,
                 disp'.batch[j].row = disp'.batch[k].row
          PROVE  j = k
      <3>1. disp'.batch[j] = disp.batch[j + 1] /\ disp'.batch[k] = disp.batch[k + 1]
        BY <1>1
      <3>2. j + 1 = k + 1
        BY <1>1, <1>2, <2>2, <3>1
      <3>3. QED
        BY <1>3, <3>2
    <2>3. \A k \in DOMAIN disp'.batch : EntryOK(disp.batch[k], k = 1 /\ disp.at = "clear")'
      BY <2>1
    <2>4. QED
      BY <2>2, <2>3 DEF BatchInv
  <1>6. MessageInv'
    <2>1. \A i \in DOMAIN outbox' : Position(i)' = "rest"
      BY <1>1 DEF Position
    <2>2. used'.cuts <= MaxCuts /\ used'.lost <= MaxLost
      BY DEF IInv, MessageInv
    <2>3. \A i \in DOMAIN outbox' : MessageOK(outbox'[i], Position(i)', disp'.got, used'.cuts, used'.lost)
      BY <2>1
    <2>4. QED
      BY <2>2, <2>3 DEF MessageInv
  <1>7. QED
    BY <1>4, <1>5, <1>6 DEF IInv

\* A step that ends with the row at hand and touches nothing but its message.
LEMMA EndRowKeeps ==
  ASSUME IInv, disp.at # "idle", Following, UNCHANGED used, SubsStay, BoxStay, OthersStay,
         MessageOK(outbox'[Head1.row], "rest", "ok", used.cuts, used.lost)
  PROVE  IInv'
  <1>1. TablesOK' /\ UnlinkedInv' /\ UniqueInv' /\ PendingHoldsNoNews'
    BY StayKeeps
  <1>2. DOMAIN outbox' = DOMAIN outbox /\ DOMAIN subs' = DOMAIN subs /\ outbox' \in Seq(Message)
    BY DEF SubsStay, BoxStay
  <1>3. ASSUME NEW k \in DOMAIN disp.batch, NEW r \in Snapshot, k # 1, r = disp.batch[k]
        PROVE  EntryOK(r, FALSE)'
    <2>1. /\ EntryOK(r, FALSE) /\ r.row # Head1.row /\ r.row \in DOMAIN outbox /\ r.to \in DOMAIN subs
      BY <1>3, HeadIs
    <2>2. outbox'[r.row] = outbox[r.row]
      BY <2>1 DEF OthersStay
    <2>3. QED
      BY <2>1, <2>2, EntryStays
  <1>4. ASSUME NEW i \in DOMAIN outbox PROVE MessageOK(outbox'[i], "rest", disp'.got, used.cuts, used.lost)
    <2>1. outbox'[i] \in Message /\ used.cuts \in Nat /\ used.lost \in Nat
      BY <1>2, PositionIs, ElementOfSeq, LenProperties
    <2>2. CASE i = Head1.row
      BY <2>1, <2>2, RestIs
    <2>3. CASE i # Head1.row
      <3>1. outbox'[i] = outbox[i] /\ MessageOK(outbox[i], "rest", disp.got, used.cuts, used.lost)
        BY <2>3, PositionIs DEF OthersStay
      <3>2. QED
        BY <2>1, <3>1, RestIs
    <2>4. QED
      BY <2>2, <2>3
  <1>5. QED
    BY <1>1, <1>2, <1>3, <1>4, NextRowKeeps

\* A step after which the round is still at the same row.
LEMMA SameRowKeeps ==
  ASSUME IInv, disp.at # "idle", disp' \in Dispatcher, disp'.at \notin {"idle", "next"},
         disp'.batch = disp.batch, UNCHANGED used, SubsStay, BoxStay, OthersStay,
         \A r \in Snapshot : r = Head1 => EntryOK(r, disp.at = "clear")',
         MessageOK(outbox'[Head1.row], disp'.at, disp'.got, used.cuts, used.lost)
  PROVE  IInv'
  <1>1. TablesOK' /\ UnlinkedInv' /\ UniqueInv' /\ PendingHoldsNoNews'
    BY StayKeeps
  <1>2. DOMAIN outbox' = DOMAIN outbox /\ DOMAIN subs' = DOMAIN subs /\ outbox' \in Seq(Message)
    BY DEF SubsStay, BoxStay
  <1>3. Head1 = disp.batch[1] /\ disp.batch # <<>> /\ disp.batch \in Seq(Snapshot)
    BY HeadIs, EmptySeq
  <1>4. TypeOK'
    <2>1. used' \in [{"signups", "events", "cuts", "lost"} -> Nat]
      BY DEF IInv, TypeOK
    <2>2. \A k \in DOMAIN disp'.batch : disp'.batch[k].row \in DOMAIN outbox' /\ disp'.batch[k].to \in DOMAIN subs'
      BY <1>2 DEF IInv, TypeOK
    <2>3. QED
      BY <1>1, <1>3, <2>1, <2>2 DEF TypeOK, TablesOK
  <1>5. BatchInv'
    <2>1. ASSUME NEW k \in DOMAIN disp'.batch, NEW r, r = disp'.batch[k]
          PROVE  EntryOK(r, k = 1 /\ disp.at = "clear")'
      <3>1. r = disp.batch[k] /\ k \in DOMAIN disp.batch /\ r \in Snapshot
        BY <1>3, <2>1, ElementOfSeq, LenProperties
      <3>2. CASE k = 1
        <4>1. EntryOK(r, disp.at = "clear")'
          BY <1>3, <3>1, <3>2
        <4>2. QED
          BY <3>2, <4>1 DEF EntryOK
      <3>3. CASE k # 1
        <4>1. /\ EntryOK(r, FALSE) /\ r.row # Head1.row /\ r.row \in DOMAIN outbox /\ r.to \in DOMAIN subs
          BY <3>1, <3>3, HeadIs
        <4>2. outbox'[r.row] = outbox[r.row]
          BY <4>1 DEF OthersStay
        <4>3. EntryOK(r, FALSE)'
          BY <4>1, <4>2, EntryStays
        <4>4. QED
          BY <3>3, <4>3 DEF EntryOK
      <3>4. QED
        BY <3>2, <3>3
    <2>2. \A k \in DOMAIN disp'.batch : EntryOK(disp.batch[k], k = 1 /\ disp.at = "clear")'
      BY <2>1
    <2>3. \A j, k \in DOMAIN disp'.batch : disp'.batch[j].row = disp'.batch[k].row => j = k
      BY DEF IInv, BatchInv
    <2>4. QED
      BY <2>2, <2>3 DEF BatchInv
  <1>6. MessageInv'
    <2>1. used'.cuts <= MaxCuts /\ used'.lost <= MaxLost
      BY DEF IInv, MessageInv
    <2>2. ASSUME NEW i \in DOMAIN outbox PROVE MessageOK(outbox'[i], Position(i)', disp'.got, used'.cuts, used'.lost)
      <3>1. outbox'[i] \in Message /\ used.cuts \in Nat /\ used.lost \in Nat
        BY <1>2, PositionIs, ElementOfSeq, LenProperties
      <3>2. CASE i = Head1.row
        <4>1. Position(i)' = disp'.at
          BY <1>3, <3>2 DEF Position
        <4>2. QED
          BY <3>2, <4>1
      <3>3. CASE i # Head1.row
        <4>1. Position(i)' = "rest"
          BY <1>3, <3>3 DEF Position
        <4>2. outbox'[i] = outbox[i] /\ MessageOK(outbox[i], "rest", disp.got, used.cuts, used.lost)
          BY <3>3, PositionIs DEF OthersStay
        <4>3. MessageOK(outbox'[i], "rest", disp'.got, used.cuts, used.lost)
          BY <3>1, <4>2, RestIs
        <4>4. QED
          BY <4>1, <4>3
      <3>4. QED
        BY <3>2, <3>3
    <2>3. \A i \in DOMAIN outbox' : MessageOK(outbox'[i], Position(i)', disp'.got, used'.cuts, used'.lost)
      BY <1>2, <2>2
    <2>4. QED
      BY <2>1, <2>3 DEF MessageInv
  <1>7. QED
    BY <1>1, <1>4, <1>5, <1>6 DEF IInv

\* Neither table, or one of them, untouched.
LEMMA SubsSame ==
  ASSUME IInv, UNCHANGED subs
  PROVE  SubsStay
  BY DEF IInv, TypeOK, SubsStay

LEMMA BoxSame ==
  ASSUME IInv, UNCHANGED outbox
  PROVE  BoxStay /\ OthersStay
  BY DEF IInv, TypeOK, BoxStay, OthersStay

\* One subscriber's row, or one message, rewritten.
LEMMA SubsOne ==
  ASSUME IInv, NEW s \in DOMAIN subs, NEW v \in Subscriber, subs' = [subs EXCEPT ![s] = v],
         v.addr = subs[s].addr,
         \/ v.status = subs[s].status
         \/ Live(s) /\ subs[s].addr # Unlinked /\ v.status = "quarantined"
  PROVE  SubsStay
  <1>1. subs \in Seq(Subscriber) /\ s \in 1 .. Len(subs)
    BY Tables DEF IInv, TypeOK
  <1>2. subs' \in Seq(Subscriber)
    BY <1>1, ExceptSeq
  <1>3. DOMAIN subs' = DOMAIN subs /\ \A t \in DOMAIN subs : subs'[t] = IF t = s THEN v ELSE subs[t]
    OBVIOUS
  <1>4. QED
    BY <1>2, <1>3 DEF SubsStay

LEMMA BoxOne ==
  ASSUME IInv, disp.at # "idle", NEW m \in Message, outbox' = [outbox EXCEPT ![Head1.row] = m],
         m.to = outbox[Head1.row].to, m.event = outbox[Head1.row].event,
         outbox[Head1.row].status = "gone" => m.status = "gone",
         m.status = "queued" => outbox[Head1.row].status = "queued"
  PROVE  BoxStay /\ OthersStay /\ outbox'[Head1.row] = m
  <1> DEFINE h == Head1.row
  <1>1. h \in DOMAIN outbox
    BY HeadIs
  <1>2. outbox \in Seq(Message) /\ h \in 1 .. Len(outbox)
    BY <1>1, Tables DEF IInv, TypeOK
  <1> HIDE DEF h
  <1>3. outbox' = [outbox EXCEPT ![h] = m]
    BY DEF h
  <1>4. [outbox EXCEPT ![h] = m] \in Seq(Message) /\ outbox' \in Seq(Message)
    <2>1. [outbox EXCEPT ![h] = m] \in Seq(Message)
      BY <1>2, ExceptSeq
    <2>2. QED
      BY <1>3, <2>1
  <1>5. DOMAIN outbox' = DOMAIN outbox /\ \A i \in DOMAIN outbox : outbox'[i] = IF i = h THEN m ELSE outbox[i]
    BY <1>3
  <1>6. OthersStay /\ outbox'[Head1.row] = m
    BY <1>1, <1>5 DEF OthersStay, h
  <1>7. BoxStay
    BY <1>4, <1>5 DEF BoxStay, h
  <1>8. QED
    BY <1>6, <1>7

\* The message at hand, and the limits.
LEMMA AtHand ==
  ASSUME SubscriptionsAssumption, IInv, disp.at # "idle"
  PROVE  /\ outbox[Head1.row] \in Message /\ Head1.row \in DOMAIN outbox
         /\ used.cuts \in Nat /\ used.lost \in Nat /\ used.cuts <= MaxCuts /\ used.lost <= MaxLost /\ MaxCuts \in Nat /\ MaxAttempts \in Nat \ {0}
         /\ Head1.attempts \in Nat /\ Head1.attempts < MaxAttempts
         /\ MessageOK(outbox[Head1.row], IF disp.at = "next" THEN "rest" ELSE disp.at, disp.got, used.cuts, used.lost)
         /\ disp.at # "clear" => outbox[Head1.row].status \in {"queued", "gone"}
         /\ outbox[Head1.row].status = "queued" => /\ outbox[Head1.row].attempts = Head1.attempts
                                                   /\ outbox[Head1.row].event = Head1.event
  <1>1. /\ Head1 \in Snapshot /\ Head1.row \in DOMAIN outbox /\ EntryOK(Head1, disp.at = "clear")
    BY HeadIs
  <1>2. MaxCuts \in Nat /\ MaxAttempts \in Nat \ {0}
    BY DEF SubscriptionsAssumption
  <1>3. Position(Head1.row) = IF disp.at = "next" THEN "rest" ELSE disp.at
    BY <1>1, PositionIs
  <1>4. /\ MessageOK(outbox[Head1.row], Position(Head1.row), disp.got, used.cuts, used.lost)
        /\ outbox[Head1.row] \in Message /\ used.cuts \in Nat /\ used.lost \in Nat /\ used.cuts <= MaxCuts /\ used.lost <= MaxLost
    BY <1>1, PositionIs
  <1>5. Head1.attempts \in Nat
    BY <1>1 DEF Snapshot
  <1>6. QED
    BY <1>1, <1>2, <1>3, <1>4, <1>5 DEF EntryOK, Queued

\* A row whose message was touched, if it was, and is not queued any more.
LEMMA EntryDone ==
  ASSUME NEW r, NEW before, NEW handled, EntryOK(r, before), r.to \in DOMAIN subs, SubsStay,
         outbox'[r.row].to = outbox[r.row].to,
         outbox'[r.row].status # "queued",
         handled \/ outbox'[r.row].status = "gone"
  PROVE  EntryOK(r, handled)'
  <1>1. subs'[r.to].addr = Unlinked => subs'[r.to].status = "gone"
    BY DEF EntryOK, SubsStay, Live
  <1>2. QED
    BY <1>1 DEF EntryOK, Queued

\* Tries and arrivals of a message that leaves the queue.
LEMMA LastTry ==
  ASSUME NEW attempts \in Nat, NEW tried \in Nat, NEW arrived \in Nat, NEW cuts \in Nat, NEW lost \in Nat,
         NEW max \in Nat \ {0}, NEW extra \in {0, 1}, NEW sure \in {0, 1}, attempts < max,
         tried <= attempts + extra + cuts, arrived <= sure + cuts + lost
  PROVE  arrived <= 1 + cuts + lost /\ tried <= max + cuts
  OBVIOUS

LEMMA GiveUpKeeps ==
  ASSUME SubscriptionsAssumption, IInv, GiveUp
  PROVE  IInv'
  <1> DEFINE h == Head1.row
             o == outbox[h]
             m == [o EXCEPT !.status = "failed"]
  <1>1. disp.at = "next" /\ Head1.event = Confirm /\ Following /\ UNCHANGED <<subs, used>>
        /\ outbox' = IF o.status = "queued" THEN [outbox EXCEPT ![h].status = "failed"] ELSE outbox
    BY DEF GiveUp, Queued
  <1>2. SubsStay
    BY <1>1, SubsSame
  <1>3. /\ o \in Message /\ h \in DOMAIN outbox /\ used.cuts \in Nat /\ used.lost \in Nat /\ used.cuts <= MaxCuts /\ used.lost <= MaxLost
        /\ MaxCuts \in Nat /\ MaxAttempts \in Nat \ {0}
        /\ MessageOK(o, "rest", disp.got, used.cuts, used.lost)
        /\ o.status = "queued" => o.event = Confirm
    BY <1>1, AtHand
  <1>4. CASE o.status # "queued"
    <2>1. BoxStay /\ OthersStay /\ outbox' = outbox
      BY <1>1, <1>4, BoxSame
    <2>2. MessageOK(outbox'[Head1.row], "rest", "ok", used.cuts, used.lost)
      BY <1>3, <2>1, RestIs
    <2>3. QED
      BY <1>1, <1>2, <2>1, <2>2, EndRowKeeps
  <1>5. CASE o.status = "queued"
    <2>1. outbox' = [outbox EXCEPT ![Head1.row] = m]
      BY <1>1, <1>5
    <2> HIDE DEF h, o
    <2>2. /\ m \in Message /\ m.to = o.to /\ m.event = o.event /\ m.status = "failed"
          /\ m.arrived = o.arrived /\ m.tried = o.tried
      BY <1>3 DEF Message
    <2> HIDE DEF m
    <2>3. BoxStay /\ OthersStay /\ outbox'[Head1.row] = m
      BY <1>1, <1>5, <2>1, <2>2, BoxOne DEF o, h
    <2>4. MessageOK(m, "rest", "ok", used.cuts, used.lost)
      <3>1. /\ o.arrived \in Nat /\ o.tried \in Nat /\ o.attempts \in Nat /\ o.attempts < MaxAttempts
            /\ o.tried <= o.attempts + 0 + used.cuts /\ o.arrived <= 0 + used.cuts + used.lost
        BY <1>3, <1>5 DEF MessageOK, Message
      <3>2. o.arrived <= 1 + used.cuts + used.lost /\ o.tried <= MaxAttempts + used.cuts
        BY <1>3, <3>1, LastTry
      <3>3. QED
        BY <1>3, <1>5, <2>2, <3>2 DEF MessageOK
    <2>5. QED
      BY <1>1, <1>2, <2>3, <2>4, EndRowKeeps
  <1>6. QED
    BY <1>4, <1>5

LEMMA SkipRowKeeps ==
  ASSUME SubscriptionsAssumption, IInv, SkipRow
  PROVE  IInv'
  <1>1. disp.at = "next" /\ Following /\ UNCHANGED <<subs, outbox, used>>
    BY DEF SkipRow
  <1>2. SubsStay /\ BoxStay /\ OthersStay
    BY <1>1, SubsSame, BoxSame
  <1>3. MessageOK(outbox'[Head1.row], "rest", "ok", used.cuts, used.lost)
    BY <1>1, AtHand, RestIs
  <1>4. QED
    BY <1>1, <1>2, <1>3, EndRowKeeps

LEMMA RecordSentKeeps ==
  ASSUME SubscriptionsAssumption, IInv, RecordSent
  PROVE  IInv'
  <1> DEFINE h == Head1.row
             o == outbox[h]
             n == Head1.attempts + 1
             m == [o EXCEPT !.status = "sent", !.attempts = n]
  <1>1. disp.at = "sent" /\ disp' = [disp EXCEPT !.at = "clear"] /\ UNCHANGED <<subs, used>>
        /\ outbox' = IF o.status = "queued"
                     THEN [outbox EXCEPT ![h].status = "sent", ![h].attempts = Head1.attempts + 1] ELSE outbox
    BY DEF RecordSent, Queued, Go
  <1>2. SubsStay
    BY <1>1, SubsSame
  <1>3. /\ o \in Message /\ h \in DOMAIN outbox /\ used.cuts \in Nat /\ used.lost \in Nat /\ used.cuts <= MaxCuts /\ used.lost <= MaxLost
        /\ MaxCuts \in Nat /\ MaxAttempts \in Nat \ {0} /\ Head1.attempts \in Nat
        /\ MessageOK(o, "sent", disp.got, used.cuts, used.lost)
        /\ o.status \in {"queued", "gone"}
    BY <1>1, AtHand
  <1>4. disp' \in Dispatcher /\ disp'.at = "clear" /\ disp'.batch = disp.batch /\ disp'.got = disp.got
    BY <1>1 DEF IInv, TypeOK, Dispatcher, Steps
  <1>5. EntryOK(Head1, disp.at = "clear") /\ Head1.to \in DOMAIN subs
    BY <1>1, HeadIs
  <1>6. CASE o.status # "queued"
    <2>1. BoxStay /\ OthersStay /\ outbox' = outbox
      BY <1>1, <1>6, BoxSame
    <2>2. MessageOK(outbox'[Head1.row], disp'.at, disp'.got, used.cuts, used.lost)
      BY <1>3, <1>4, <1>6, <2>1 DEF MessageOK
    <2>3. ASSUME NEW r \in Snapshot, r = Head1 PROVE EntryOK(r, disp.at = "clear")'
      <3>1. EntryOK(r, TRUE)'
        BY <1>2, <1>5, <1>6, <2>1, <2>3, EntryDone
      <3>2. QED
        BY <1>4, <3>1 DEF EntryOK
    <2>4. QED
      BY <1>1, <1>2, <1>4, <2>1, <2>2, <2>3, SameRowKeeps
  <1>7. CASE o.status = "queued"
    <2>0. n \in Nat
      BY <1>3
    <2>1. outbox' = [outbox EXCEPT ![Head1.row] = m]
      <3> HIDE DEF n
      <3>1. outbox' = [outbox EXCEPT ![h].status = "sent", ![h].attempts = n]
        BY <1>1, <1>7 DEF n
      <3>2. QED
        BY <3>1
    <2> HIDE DEF h, o, n
    <2>2. /\ m \in Message /\ m.to = o.to /\ m.event = o.event /\ m.status = "sent"
          /\ m.arrived = o.arrived /\ m.tried = o.tried
      BY <1>3, <2>0 DEF Message
    <2> HIDE DEF m
    <2>3. BoxStay /\ OthersStay /\ outbox'[Head1.row] = m
      BY <1>1, <1>7, <2>1, <2>2, BoxOne DEF o, h
    <2>4. MessageOK(m, "clear", disp'.got, used.cuts, used.lost)
      <3>1. /\ o.arrived \in Nat /\ o.tried \in Nat /\ o.attempts \in Nat /\ o.attempts < MaxAttempts
            /\ o.tried <= o.attempts + 1 + used.cuts /\ o.arrived <= 1 + used.cuts + used.lost /\ 1 <= o.arrived
        BY <1>3, <1>7 DEF MessageOK, Message
      <3>2. o.arrived <= 1 + used.cuts + used.lost /\ o.tried <= MaxAttempts + used.cuts /\ o.arrived >= 1
        <4> DEFINE a == o.attempts
                   t == o.tried
                   v == o.arrived
                   c == used.cuts
                   l == used.lost
        <4>1. /\ v \in Nat /\ t \in Nat /\ a \in Nat /\ c \in Nat /\ l \in Nat /\ MaxAttempts \in Nat \ {0}
              /\ a < MaxAttempts /\ t <= a + 1 + c /\ v <= 1 + c + l /\ 1 <= v
          BY <1>3, <3>1
        <4> HIDE DEF a, t, v, c, l
        <4>2. v <= 1 + c + l /\ t <= MaxAttempts + c
          BY <4>1, LastTry
        <4>3. v >= 1
          BY <4>1
        <4>4. QED
          BY <4>2, <4>3 DEF a, t, v, c, l
      <3>3. QED
        BY <2>2, <3>2 DEF MessageOK
    <2>5. ASSUME NEW r \in Snapshot, r = Head1 PROVE EntryOK(r, disp.at = "clear")'
      <3>1. EntryOK(r, TRUE)'
        BY <1>2, <1>5, <2>2, <2>3, <2>5, EntryDone DEF o, h
      <3>2. QED
        BY <1>4, <3>1 DEF EntryOK
    <2>6. QED
      BY <1>1, <1>2, <1>4, <2>3, <2>4, <2>5, SameRowKeeps
  <1>8. QED
    BY <1>6, <1>7

\* What is observed is counted as far as MessageInv looks.
LEMMA OneMoreIs ==
  ASSUME SubscriptionsAssumption, NEW n \in Nat, n <= MaxAttempts + MaxCuts + MaxLost
  PROVE  OneMore(n) = n + 1
  <1>1. MaxCuts \in Nat /\ MaxLost \in Nat /\ MaxAttempts \in Nat
    BY DEF SubscriptionsAssumption
  <1>2. ~(n > MaxAttempts + MaxCuts + MaxLost)
    BY <1>1
  <1>3. QED
    BY <1>2 DEF OneMore

\* It stays a number.
LEMMA OneMoreNat ==
  ASSUME NEW n \in Nat
  PROVE  OneMore(n) \in Nat
  BY DEF OneMore

\* What sending does to a message, and where the answer leads.
Leads(answer, p) == p \notin {"rest", "clear"} /\ (p = "sent" <=> answer = "ok")

LEMMA SentMessage ==
  ASSUME SubscriptionsAssumption, NEW o \in Message, o.status = "queued",
         NEW cuts \in Nat, cuts <= MaxCuts, NEW lost \in Nat, lost <= MaxLost, NEW got, MessageOK(o, "rest", got, cuts, lost),
         NEW answer, NEW p, Leads(answer, p)
  PROVE  LET m == Sent(o, answer)
         IN /\ m \in Message /\ m.to = o.to /\ m.event = o.event /\ m.attempts = o.attempts
            /\ m.status = "queued" /\ MessageOK(m, p, answer, cuts, lost)
  <1> DEFINE tried == OneMore(o.tried)
             arrived == IF answer = "ok" THEN OneMore(o.arrived) ELSE o.arrived
             refused == o.refused \/ answer = "refused"
             unheard == IF answer \in Unheard THEN OneMore(o.unheard) ELSE o.unheard
             a == [o EXCEPT !.tried = tried, !.arrived = arrived]
             b == [a EXCEPT !.unheard = unheard]
             m == [b EXCEPT !.refused = refused]
             sure == IF p = "sent" THEN 1 ELSE 0
  <1>1. MaxCuts \in Nat /\ MaxLost \in Nat /\ MaxAttempts \in Nat \ {0}
    BY DEF SubscriptionsAssumption
  <1>2. o.arrived \in Nat /\ o.tried \in Nat /\ o.unheard \in Nat /\ o.attempts \in Nat /\ o.refused \in BOOLEAN
    BY DEF Message
  <1>3. /\ o.attempts < MaxAttempts /\ o.attempts + 0 <= o.tried
        /\ o.tried <= o.attempts + 0 + cuts /\ o.arrived <= 0 + cuts + lost
    BY DEF MessageOK
  <1>4. /\ tried \in Nat /\ o.attempts + 1 <= tried /\ tried <= o.attempts + 1 + cuts
        /\ arrived \in Nat /\ (IF answer = "ok" THEN 1 ELSE 0) <= arrived
        /\ arrived <= (IF answer = "ok" THEN 1 ELSE 0) + cuts + lost
    <2> DEFINE n == o.attempts
               t == o.tried
               v == o.arrived
    <2>1. n \in Nat /\ t \in Nat /\ v \in Nat
      BY <1>2
    <2>2. n < MaxAttempts /\ n + 0 <= t /\ t <= n + 0 + cuts /\ v <= 0 + cuts + lost
      BY <1>3
    <2> HIDE DEF n, t, v
    <2>3. t <= MaxAttempts + MaxCuts + MaxLost /\ v <= MaxAttempts + MaxCuts + MaxLost
      BY <1>1, <2>1, <2>2
    <2>4. OneMore(t) = t + 1 /\ OneMore(v) = v + 1
      BY <2>1, <2>3, OneMoreIs
    <2>5. /\ OneMore(t) \in Nat /\ n + 1 <= OneMore(t) /\ OneMore(t) <= n + 1 + cuts
          /\ OneMore(v) \in Nat /\ 1 <= OneMore(v) /\ OneMore(v) <= 1 + cuts + lost
          /\ 0 <= v /\ v <= 0 + cuts + lost
      BY <2>1, <2>2, <2>4
    <2>6. QED
      BY <2>1, <2>5 DEF n, t, v
  <1>5. unheard \in Nat
    BY <1>2, OneMoreNat
  <1> HIDE DEF tried, arrived, unheard
  <1>6. sure = IF answer = "ok" THEN 1 ELSE 0
    BY DEF Leads
  <1> HIDE DEF sure
  <1>7. sure <= arrived /\ arrived <= sure + cuts + lost
    BY <1>4, <1>6
  <1>8. /\ a \in Message /\ a.to = o.to /\ a.event = o.event /\ a.status = "queued"
        /\ a.arrived = arrived /\ a.tried = tried /\ a.attempts = o.attempts
    BY <1>4 DEF Message
  <1> HIDE DEF a
  <1>9. /\ b \in Message /\ b.to = o.to /\ b.event = o.event /\ b.status = "queued"
         /\ b.arrived = arrived /\ b.tried = tried /\ b.attempts = o.attempts /\ b.unheard = unheard
    BY <1>5, <1>8 DEF Message
  <1> HIDE DEF b
  <1>10. refused \in BOOLEAN /\ (answer = "refused" => refused)
    BY <1>2
  <1> HIDE DEF refused
  <1>11. /\ m \in Message /\ m.to = o.to /\ m.event = o.event /\ m.status = "queued"
         /\ m.arrived = arrived /\ m.tried = tried /\ m.attempts = o.attempts /\ m.refused = refused
    BY <1>10, <1>9 DEF Message
  <1> HIDE DEF m
  <1>12. MessageOK(m, p, answer, cuts, lost)
    <2>1. m.attempts < MaxAttempts /\ m.attempts + 1 <= m.tried /\ m.tried <= m.attempts + 1 + cuts
      BY <1>3, <1>4, <1>11
    <2>2. sure <= m.arrived /\ m.arrived <= sure + cuts + lost
      BY <1>7, <1>11
    <2>3. answer = "refused" => m.refused
      BY <1>10, <1>11
    <2>4. QED
      BY <1>11, <2>1, <2>2, <2>3 DEF MessageOK, sure, Leads
  <1>13. m = Sent(o, answer)
    BY DEF Sent, m, b, a, tried, arrived, unheard, refused
  <1>14. QED
    BY <1>11, <1>12, <1>13

\* Where an answer leads.
LEMMA AfterSendIs ==
  ASSUME NEW answer \in Answers
  PROVE  /\ AfterSend(answer) \in {"sent", "remove", "count", "failed"}
         /\ AfterSend(answer) = "sent" <=> answer = "ok"
  <1>1. CASE answer = "ok"
    BY <1>1 DEF AfterSend
  <1>2. CASE answer = "gone"
    BY <1>2 DEF AfterSend
  <1>3. CASE answer \in {"broken", "refused"}
    BY <1>3 DEF AfterSend
  <1>4. CASE answer \in {"busy", "limited"}
    BY <1>4 DEF AfterSend
  <1>5. QED
    BY <1>1, <1>2, <1>3, <1>4 DEF Answers

LEMMA SendKeeps ==
  ASSUME SubscriptionsAssumption, IInv, NEW answer \in Answers, Send(answer)
  PROVE  IInv'
  <1> DEFINE h == Head1.row
             o == outbox[h]
             m == Sent(o, answer)
             p == AfterSend(answer)
  <1>1. disp.at = "next" /\ UNCHANGED used
        /\ outbox' = IF o.status = "gone" THEN outbox ELSE [outbox EXCEPT ![h] = m]
    BY DEF Send
  <1>2. Leads(answer, p) /\ p \in Steps \ {"idle", "next", "clear"}
    <2> HIDE DEF p
    <2>1. p \in {"sent", "remove", "count", "failed"} /\ (p = "sent" <=> answer = "ok")
      BY AfterSendIs DEF p
    <2>2. QED
      BY <2>1 DEF Steps, Leads
  <1>3. /\ o \in Message /\ h \in DOMAIN outbox /\ used.cuts \in Nat /\ used.lost \in Nat /\ used.cuts <= MaxCuts /\ used.lost <= MaxLost
        /\ MessageOK(o, "rest", disp.got, used.cuts, used.lost)
        /\ o.status \in {"queued", "gone"}
    BY <1>1, AtHand
  <1>4. Head1 \in Snapshot /\ Head1.to \in DOMAIN subs /\ EntryOK(Head1, disp.at = "clear")
    BY <1>1, HeadIs
  <1>5. /\ disp' \in Dispatcher /\ disp'.at = p /\ disp'.batch = disp.batch /\ disp'.got = answer
    <2> DEFINE wrote == disp.wrote \cup {Head1.addr}
    <2>1. disp' = [disp EXCEPT !.at = p, !.got = answer, !.wrote = wrote]
      BY DEF Send
    <2>2. disp \in Dispatcher
      BY DEF IInv, TypeOK
    <2>3. wrote \in SUBSET (Forms \cup Chats)
      BY <1>4, <2>2 DEF Snapshot, Dispatcher, EntryOK
    <2> DEFINE d == [disp EXCEPT !.at = p, !.got = answer]
    <2> HIDE DEF p, wrote
    <2>4. d \in Dispatcher /\ d.at = p /\ d.batch = disp.batch /\ d.got = answer
      BY <1>2, <2>2 DEF Dispatcher
    <2>5. disp' = [d EXCEPT !.wrote = wrote]
      BY <2>1
    <2> HIDE DEF d
    <2>6. QED
      BY <2>3, <2>4, <2>5 DEF Dispatcher
  <1>6. SubsStay
    <2> DEFINE s == Head1.to
               v == Received(subs[s], Head1.event, Head1.link)
    <2>1. subs' = IF answer # "ok" \/ subs[s].status = "gone" THEN subs ELSE [subs EXCEPT ![s] = v]
      BY DEF Send
    <2>2. subs[s] \in Subscriber /\ s \in DOMAIN subs
      BY <1>4, Tables DEF IInv
    <2> HIDE DEF s
    <2>4. v \in Subscriber /\ v.addr = subs[s].addr /\ v.status = subs[s].status
      BY <2>2, ReceivedIs
    <2> HIDE DEF v
    <2>5. CASE UNCHANGED subs
      BY <2>5, SubsSame
    <2>6. CASE subs' = [subs EXCEPT ![s] = v]
      BY <2>2, <2>4, <2>6, SubsOne
    <2>7. QED
      BY <2>1, <2>5, <2>6
  <1>7. CASE o.status = "gone"
    <2>1. BoxStay /\ OthersStay /\ outbox' = outbox
      BY <1>1, <1>7, BoxSame
    <2>2. MessageOK(outbox'[Head1.row], disp'.at, disp'.got, used.cuts, used.lost)
      BY <1>3, <1>5, <1>7, <2>1 DEF MessageOK
    <2>3. ASSUME NEW r \in Snapshot, r = Head1 PROVE EntryOK(r, disp.at = "clear")'
      <3>1. \A handled : EntryOK(r, handled)'
        BY <1>4, <1>6, <1>7, <2>1, <2>3, EntryDone
      <3>2. QED
        BY <3>1 DEF EntryOK
    <2> HIDE DEF p
    <2>4. QED
      BY <1>1, <1>2, <1>5, <1>6, <2>1, <2>2, <2>3, SameRowKeeps
  <1>8. CASE o.status = "queued"
    <2>1. outbox' = [outbox EXCEPT ![Head1.row] = m]
      BY <1>1, <1>8
    <2> HIDE DEF h, o, p
    <2>4. /\ m \in Message /\ m.to = o.to /\ m.event = o.event /\ m.attempts = o.attempts
          /\ m.status = "queued" /\ MessageOK(m, p, answer, used.cuts, used.lost)
      BY <1>2, <1>3, <1>8, SentMessage
    <2> HIDE DEF m
    <2>5. BoxStay /\ OthersStay /\ outbox'[Head1.row] = m
      BY <1>1, <1>8, <2>1, <2>4, BoxOne DEF o, h
    <2>7. ASSUME NEW r \in Snapshot, r = Head1 PROVE EntryOK(r, disp.at = "clear")'
      <3>1. subs'[r.to].addr = Unlinked => subs'[r.to].status = "gone"
        BY <1>4, <1>6, <2>7 DEF EntryOK, SubsStay, Live
      <3>2. outbox'[r.row] = m
        BY <2>5, <2>7
      <3>3. EntryOK(r, FALSE)
        BY <1>1, <1>4, <2>7 DEF EntryOK
      <3>4. EntryOK(r, FALSE)'
        BY <1>8, <2>4, <2>7, <3>1, <3>2, <3>3 DEF EntryOK, Queued, o, h
      <3>5. QED
        BY <3>4 DEF EntryOK
    <2>8. QED
      BY <1>1, <1>2, <1>5, <1>6, <2>4, <2>5, <2>7, SameRowKeeps
  <1>9. QED
    BY <1>3, <1>7, <1>8

\* The row is not queued, or was not touched: it stays known.
LEMMA HeadStays ==
  ASSUME IInv, disp.at \notin {"idle", "clear"}, SubsStay, UNCHANGED outbox
  PROVE  \A r \in Snapshot : r = Head1 => EntryOK(r, disp.at = "clear")'
  <1> SUFFICES ASSUME NEW r \in Snapshot, r = Head1 PROVE EntryOK(r, disp.at = "clear")'
    OBVIOUS
  <1>1. EntryOK(r, FALSE) /\ r.row \in DOMAIN outbox /\ r.to \in DOMAIN subs
    BY HeadIs DEF EntryOK
  <1>2. EntryOK(r, FALSE)'
    BY <1>1, EntryStays
  <1>3. QED
    BY <1>2 DEF EntryOK

LEMMA ClearFailuresKeeps ==
  ASSUME SubscriptionsAssumption, IInv, ClearFailures
  PROVE  IInv'
  <1> DEFINE s == Head1.to
             v == [subs[s] EXCEPT !.failures = 0, !.since = None]
  <1>1. disp.at = "clear" /\ Following /\ UNCHANGED <<outbox, used>>
        /\ subs' = [subs EXCEPT ![s].failures = 0, ![s].since = None]
    BY DEF ClearFailures
  <1>2. s \in DOMAIN subs /\ subs[s] \in Subscriber
    BY <1>1, HeadIs, Tables DEF IInv
  <1>3. BoxStay /\ OthersStay
    BY <1>1, BoxSame
  <1>4. SubsStay
    <2>1. subs' = [subs EXCEPT ![s] = v]
      BY <1>1
    <2> HIDE DEF s
    <2>2. v \in Subscriber /\ v.addr = subs[s].addr /\ v.status = subs[s].status
      BY <1>2 DEF Subscriber, None
    <2> HIDE DEF v
    <2>3. QED
      BY <1>2, <2>1, <2>2, SubsOne
  <1>5. MessageOK(outbox'[Head1.row], "rest", "ok", used.cuts, used.lost)
    <2> DEFINE o == outbox[Head1.row]
    <2>1. MessageOK(o, "clear", disp.got, used.cuts, used.lost)
      BY <1>1, AtHand
    <2>2. MessageOK(o, "rest", "ok", used.cuts, used.lost)
      <3> HIDE DEF o
      <3>1. QED
        BY <2>1 DEF MessageOK
    <2>3. QED
      BY <1>1, <2>2
  <1>6. QED
    BY <1>1, <1>3, <1>4, <1>5, EndRowKeeps

\* A message does not depend on which of these steps the round is at.
LEMMA AlikeSteps ==
  ASSUME NEW m, NEW p \in {"count", "quarantine", "failed"}, NEW q \in {"count", "quarantine", "failed"},
         NEW got, NEW cuts, NEW lost, MessageOK(m, p, got, cuts, lost)
  PROVE  MessageOK(m, q, got, cuts, lost)
  BY DEF MessageOK

\* The two updates of count_failure move the round on, and change one row.
LEMMA CountingKeeps ==
  ASSUME SubscriptionsAssumption, IInv, disp.at \in {"count", "quarantine"}, UNCHANGED <<outbox, used>>,
         NEW p \in {"quarantine", "failed"}, Go(p), SubsStay
  PROVE  IInv'
  <1>1. BoxStay /\ OthersStay
    BY BoxSame
  <1>2. disp' \in Dispatcher /\ disp'.at = p /\ disp'.batch = disp.batch /\ disp'.got = disp.got
    BY DEF IInv, TypeOK, Dispatcher, Steps, Go
  <1>3. \A r \in Snapshot : r = Head1 => EntryOK(r, disp.at = "clear")'
    BY HeadStays
  <1>4. MessageOK(outbox'[Head1.row], disp'.at, disp'.got, used.cuts, used.lost)
    <2>1. MessageOK(outbox[Head1.row], disp.at, disp.got, used.cuts, used.lost)
      BY AtHand
    <2>2. MessageOK(outbox[Head1.row], p, disp.got, used.cuts, used.lost)
      BY <2>1, AlikeSteps, SMTT(30)
    <2>3. QED
      BY <1>2, <2>2
  <1>5. QED
    BY <1>1, <1>2, <1>3, <1>4, SameRowKeeps

LEMMA CountFailureKeeps ==
  ASSUME SubscriptionsAssumption, IInv, CountFailure
  PROVE  IInv'
  <1> DEFINE s == Head1.to
             v == Counted(subs[s], disp.lag)
             p == IF v.failures < QuarantineFailures THEN "failed" ELSE "quarantine"
  <1>1. disp.at = "count" /\ UNCHANGED <<outbox, used>>
    BY DEF CountFailure
  <1>2. s \in DOMAIN subs /\ subs[s] \in Subscriber /\ disp.lag \in Nat
    BY <1>1, HeadIs, Tables DEF IInv, TypeOK, Dispatcher
  <1>3. CASE subs[s].status = "gone"
    <2>1. Go("failed") /\ UNCHANGED subs
      BY <1>3 DEF CountFailure
    <2>2. SubsStay
      BY <2>1, SubsSame
    <2>3. QED
      BY <1>1, <2>1, <2>2, CountingKeeps
  <1>4. CASE subs[s].status # "gone"
    <2>1. p \in {"quarantine", "failed"} /\ Go(p) /\ subs' = [subs EXCEPT ![s] = v]
      BY <1>4 DEF CountFailure
    <2>2. v \in Subscriber /\ v.addr = subs[s].addr /\ v.status = subs[s].status
      <3> HIDE DEF s
      <3>1. QED
        BY <1>2, CountedIs
    <2> HIDE DEF v
    <2>3. SubsStay
      BY <1>2, <2>1, <2>2, SubsOne
    <2> HIDE DEF p
    <2>4. QED
      BY <1>1, <2>1, <2>3, CountingKeeps
  <1>5. QED
    BY <1>3, <1>4

LEMMA QuarantineKeeps ==
  ASSUME SubscriptionsAssumption, IInv, Quarantine
  PROVE  IInv'
  <1> DEFINE s == Head1.to
             v == [subs[s] EXCEPT !.status = "quarantined", !.held = disp.lag]
  <1>1. disp.at = "quarantine" /\ UNCHANGED <<outbox, used>> /\ Go("failed")
        /\ subs' = IF subs[s].status \in {"quarantined", "gone"} THEN subs
                   ELSE [subs EXCEPT ![s].status = "quarantined", ![s].held = disp.lag]
    BY DEF Quarantine
  <1>2. s \in DOMAIN subs /\ subs[s] \in Subscriber /\ disp.lag \in Nat
    BY <1>1, HeadIs, Tables DEF IInv, TypeOK, Dispatcher
  <1>3. SubsStay
    <2>1. CASE subs[s].status \in {"quarantined", "gone"}
      BY <1>1, <2>1, SubsSame
    <2>2. CASE subs[s].status \notin {"quarantined", "gone"}
      <3>1. subs' = [subs EXCEPT ![s] = v]
        BY <1>1, <2>2
      <3>2. subs[s].addr # Unlinked
        BY <1>1, <2>2, HeadIs DEF EntryOK
      <3> HIDE DEF s
      <3>3. v \in Subscriber /\ v.addr = subs[s].addr /\ v.status = "quarantined"
        BY <1>2, QuarantinedIs
      <3> HIDE DEF v
      <3>4. QED
        BY <1>2, <2>2, <3>1, <3>2, <3>3, SubsOne DEF Live
    <2>3. QED
      BY <2>1, <2>2
  <1>4. QED
    BY <1>1, <1>3, CountingKeeps

LEMMA RecordFailureKeeps ==
  ASSUME SubscriptionsAssumption, IInv, RecordFailure
  PROVE  IInv'
  <1> DEFINE h == Head1.row
             o == outbox[h]
             tries == Head1.attempts + 1
             delay == Greater(RetryDelay[tries], IF disp.got = "limited" THEN RetryAfter ELSE 0)
             wait == Greater(delay - disp.lag, 0)
             last == disp.got = "refused" \/ tries >= MaxAttempts
             given == [o EXCEPT !.status = "failed", !.attempts = tries]
             again == [o EXCEPT !.attempts = tries, !.wait = wait]
  <1>1. disp.at = "failed" /\ Following /\ UNCHANGED <<subs, used>>
        /\ outbox' = IF o.status # "queued" THEN outbox
                     ELSE IF last
                     THEN [outbox EXCEPT ![h].status = "failed", ![h].attempts = tries]
                     ELSE [outbox EXCEPT ![h].attempts = tries, ![h].wait = wait]
    BY DEF RecordFailure, Queued
  <1>2. SubsStay
    BY <1>1, SubsSame
  <1>3. /\ o \in Message /\ h \in DOMAIN outbox /\ used.cuts \in Nat /\ used.lost \in Nat
        /\ MaxAttempts \in Nat \ {0} /\ Head1.attempts \in Nat /\ Head1.attempts < MaxAttempts
        /\ MessageOK(o, "failed", disp.got, used.cuts, used.lost)
        /\ o.status \in {"queued", "gone"}
        /\ o.status = "queued" => o.attempts = Head1.attempts
    <2>1. disp.at = "failed" /\ disp.at # "idle" /\ disp.at # "clear" /\ disp.at # "next"
      BY <1>1
    <2>2. MessageOK(o, disp.at, disp.got, used.cuts, used.lost)
      BY <2>1, AtHand
    <2>3. QED
      BY <2>1, <2>2, AtHand
  <1>4. tries \in 1 .. MaxAttempts /\ tries \in Nat
    <2> DEFINE a == Head1.attempts
    <2>1. a \in Nat /\ a < MaxAttempts /\ MaxAttempts \in Nat
      BY <1>3
    <2> HIDE DEF a
    <2>2. a + 1 \in 1 .. MaxAttempts /\ a + 1 \in Nat
      BY <2>1
    <2>3. QED
      BY <2>2 DEF a
  <1>5. wait \in Nat
    <2>1. RetryDelay[tries] \in Nat /\ RetryAfter \in Nat
      BY <1>4 DEF SubscriptionsAssumption
    <2>2. disp.lag \in Nat
      BY DEF IInv, TypeOK, Dispatcher
    <2> HIDE DEF tries
    <2>3. delay \in Nat
      BY <2>1 DEF Greater
    <2> HIDE DEF delay
    <2>4. QED
      BY <2>2, <2>3, SMTT(30) DEF Greater
  <1>6. CASE o.status # "queued"
    <2>1. BoxStay /\ OthersStay /\ outbox' = outbox
      BY <1>1, <1>6, BoxSame
    <2>2. MessageOK(outbox'[Head1.row], "rest", "ok", used.cuts, used.lost)
      BY <1>3, <1>6, <2>1 DEF MessageOK
    <2>3. QED
      BY <1>1, <1>2, <2>1, <2>2, EndRowKeeps
  <1>7. CASE o.status = "queued"
    <2>1. /\ o.arrived \in Nat /\ o.tried \in Nat /\ o.attempts \in Nat /\ o.attempts < MaxAttempts
          /\ o.attempts + 1 <= o.tried /\ o.tried <= o.attempts + 1 + used.cuts
          /\ o.arrived <= 0 + used.cuts + used.lost
          /\ disp.got = "refused" => o.refused
      BY <1>3, <1>7 DEF MessageOK, Message
    <2>2. tries = o.attempts + 1
      BY <1>3, <1>7
    <2>3. outbox' = [outbox EXCEPT ![h] = IF last THEN given ELSE again]
      <3> HIDE DEF tries, wait, last
      <3>1. CASE last
        BY <1>1, <1>7, <3>1
      <3>2. CASE ~last
        BY <1>1, <1>7, <3>2
      <3>3. QED
        BY <3>1, <3>2
    <2> HIDE DEF h, o, wait, tries
    <2>4. CASE last
      <3>1. /\ given \in Message /\ given.to = o.to /\ given.event = o.event /\ given.status = "failed"
            /\ given.arrived = o.arrived /\ given.tried = o.tried /\ given.refused = o.refused
        BY <1>3, <1>4 DEF Message
      <3> HIDE DEF given
      <3>2. outbox' = [outbox EXCEPT ![Head1.row] = given]
        BY <2>3, <2>4 DEF h
      <3>3. BoxStay /\ OthersStay /\ outbox'[Head1.row] = given
        BY <1>1, <1>7, <3>1, <3>2, BoxOne DEF o, h
      <3>4. o.arrived <= 1 + used.cuts + used.lost /\ o.tried <= MaxAttempts + used.cuts
        <4> DEFINE a == o.attempts
                   t == o.tried
                   v == o.arrived
                   c == used.cuts
                   l == used.lost
        <4>1. /\ v \in Nat /\ t \in Nat /\ a \in Nat /\ c \in Nat /\ l \in Nat /\ MaxAttempts \in Nat \ {0}
              /\ a < MaxAttempts /\ t <= a + 1 + c /\ v <= 0 + c + l
          BY <1>3, <2>1
        <4> HIDE DEF a, t, v, c, l
        <4>2. v <= 1 + c + l /\ t <= MaxAttempts + c
          BY <4>1, LastTry
        <4>3. QED
          BY <4>2 DEF a, t, v, c, l
      <3>5. o.refused \/ o.tried >= MaxAttempts
        BY <1>3, <2>1, <2>2, <2>4, SMTT(30)
      <3>6. MessageOK(given, "rest", "ok", used.cuts, used.lost)
        BY <3>1, <3>4, <3>5 DEF MessageOK
      <3>7. QED
        BY <1>1, <1>2, <3>3, <3>6, EndRowKeeps
    <2>5. CASE ~last
      <3>1. /\ again \in Message /\ again.to = o.to /\ again.event = o.event /\ again.status = "queued"
            /\ again.arrived = o.arrived /\ again.tried = o.tried /\ again.attempts = tries
        BY <1>3, <1>4, <1>5, <1>7 DEF Message
      <3> HIDE DEF again
      <3>2. outbox' = [outbox EXCEPT ![Head1.row] = again]
        BY <2>3, <2>5 DEF h
      <3>3. BoxStay /\ OthersStay /\ outbox'[Head1.row] = again
        BY <1>1, <1>7, <3>1, <3>2, BoxOne DEF o, h
      <3>4. tries < MaxAttempts /\ tries + 0 <= o.tried /\ o.tried <= tries + 0 + used.cuts
            /\ 0 <= o.arrived
        <4>1. tries < MaxAttempts
          BY <1>3, <1>4, <2>5
        <4>2. tries + 0 <= o.tried
          BY <2>1, <2>2
        <4>3. o.tried <= tries + 0 + used.cuts /\ 0 <= o.arrived
          BY <1>3, <2>1, <2>2, SMTT(30)
        <4>4. QED
          BY <4>1, <4>2, <4>3
      <3>5. MessageOK(again, "rest", "ok", used.cuts, used.lost)
        BY <2>1, <3>1, <3>4 DEF MessageOK
      <3>6. QED
        BY <1>1, <1>2, <3>3, <3>5, EndRowKeeps
    <2>6. QED
      BY <2>4, <2>5
  <1>8. QED
    BY <1>6, <1>7

LEMMA RemoveGoneKeeps ==
  ASSUME SubscriptionsAssumption, IInv, RemoveGone
  PROVE  IInv'
  <1>1. disp.at = "remove" /\ Following /\ UNCHANGED used
        /\ IF subs[Head1.to].status # "gone" THEN Delete({Head1.to}) ELSE UNCHANGED <<subs, outbox>>
    BY DEF RemoveGone
  <1>2. /\ Head1.to \in DOMAIN subs /\ Head1.row \in DOMAIN outbox /\ EntryOK(Head1, disp.at = "clear")
        /\ TypeOK /\ UniqueInv
    BY <1>1, HeadIs DEF IInv
  <1>3. outbox[Head1.row].to = Head1.to
    BY <1>2 DEF EntryOK
  <1>4. CASE subs[Head1.to].status = "gone"
    <2>1. SubsStay /\ BoxStay /\ OthersStay /\ outbox' = outbox
      BY <1>1, <1>4, SubsSame, BoxSame
    <2>2. outbox[Head1.row].status = "gone"
      BY <1>2, <1>3, <1>4 DEF TypeOK
    <2>3. MessageOK(outbox[Head1.row], "remove", disp.got, used.cuts, used.lost)
      BY <1>1, AtHand
    <2>4. MessageOK(outbox'[Head1.row], "rest", "ok", used.cuts, used.lost)
      BY <2>1, <2>2, <2>3 DEF MessageOK
    <2>5. QED
      BY <1>1, <2>1, <2>4, EndRowKeeps
  <1>5. CASE subs[Head1.to].status # "gone"
    <2> DEFINE S == {Head1.to}
    <2>1. Delete(S) /\ S \subseteq DOMAIN subs /\ S # {}
      BY <1>1, <1>2, <1>5
    <2> HIDE DEF S
    <2>2. /\ SubsMove /\ BoxMove /\ UniqueInv' /\ DOMAIN subs' = DOMAIN subs
          /\ Len(outbox') = Len(outbox)
          /\ \A s \in DOMAIN subs : subs'[s] = IF s \in S THEN Gone ELSE subs[s]
          /\ \A i \in DOMAIN outbox : outbox[i].to \in S => outbox'[i].status = "gone"
          /\ \A i \in DOMAIN outbox : outbox[i].to \notin S => outbox'[i] = outbox[i]
      BY <1>2, <2>1, DeleteMoves
    <2>3. TablesOK' /\ UnlinkedInv' /\ PendingHoldsNoNews'
      BY <2>2, MoveTables
    <2>4. /\ DOMAIN outbox' = DOMAIN outbox
          /\ \A i \in DOMAIN outbox' : outbox'[i] \in Message
          /\ \A i \in DOMAIN outbox : /\ outbox'[i].to = outbox[i].to
                                      /\ \/ outbox'[i] = outbox[i]
                                         \/ /\ outbox'[i].status = "gone"
                                            /\ outbox'[i].arrived = 0 /\ outbox'[i].tried = 0 /\ outbox'[i].unheard = 0
      BY <1>2, <2>2, TablesNext, Tables
    <2>5. ASSUME NEW k \in DOMAIN disp.batch, NEW r \in Snapshot, k # 1, r = disp.batch[k]
          PROVE  EntryOK(r, FALSE)'
      <3>1. /\ EntryOK(r, FALSE) /\ r.row \in DOMAIN outbox /\ r.to \in DOMAIN subs
        BY <1>1, <2>5, HeadIs
      <3>2. /\ outbox'[r.row].to = outbox[r.row].to
            /\ outbox'[r.row] = outbox[r.row] \/ outbox'[r.row].status = "gone"
        BY <2>4, <3>1
      <3>3. subs'[r.to].addr = Unlinked => subs'[r.to].status = "gone"
        BY <2>2, <3>1 DEF EntryOK, SubsMove, Live
      <3>4. QED
        BY <3>1, <3>2, <3>3 DEF EntryOK, Queued
    <2>6. ASSUME NEW i \in DOMAIN outbox PROVE MessageOK(outbox'[i], "rest", disp'.got, used.cuts, used.lost)
      <3>1. /\ MessageOK(outbox[i], Position(i), disp.got, used.cuts, used.lost) /\ used.cuts \in Nat /\ used.lost \in Nat
            /\ i # Head1.row => Position(i) = "rest"
        BY <1>1, PositionIs
      <3>2. CASE outbox'[i].status = "gone" /\ outbox'[i].arrived = 0 /\ outbox'[i].tried = 0
                 /\ outbox'[i].unheard = 0
        BY <3>2 DEF MessageOK
      <3>3. CASE outbox'[i] = outbox[i]
        <4>1. CASE i = Head1.row
          <5>1. outbox'[i].status = "gone"
            BY <1>3, <2>2, <4>1 DEF S
          <5>2. QED
            BY <3>1, <3>3, <5>1 DEF MessageOK
        <4>2. CASE i # Head1.row
          <5>1. outbox'[i] \in Message /\ MessageOK(outbox'[i], "rest", disp.got, used.cuts, used.lost)
            BY <2>4, <3>1, <3>3, <4>2
          <5>2. QED
            BY <3>1, <5>1, RestIs
        <4>3. QED
          BY <4>1, <4>2
      <3>4. QED
        BY <2>4, <3>2, <3>3
    <2>7. QED
      BY <1>1, <2>2, <2>3, <2>4, <2>5, <2>6, NextRowKeeps
  <1>6. QED
    BY <1>4, <1>5

\* A round is cut short: the message at hand may be sent again.
LEMMA CutShortKeeps ==
  ASSUME SubscriptionsAssumption, IInv, CutShort
  PROVE  IInv'
  <1>1. disp.at # "idle" /\ disp' = Idle /\ UNCHANGED <<subs, outbox>>
        /\ used.cuts < MaxCuts /\ used' = [used EXCEPT !.cuts = @ + 1]
    BY DEF CutShort, Spend
  <1>2. SubsStay /\ BoxStay
    BY <1>1, SubsSame, BoxSame
  <1>3. TablesOK' /\ UnlinkedInv' /\ UniqueInv' /\ PendingHoldsNoNews'
    BY <1>2, StayKeeps
  <1>4. /\ used \in [{"signups", "events", "cuts", "lost"} -> Nat] /\ used.cuts \in Nat /\ used.lost \in Nat /\ MaxCuts \in Nat
        /\ used' \in [{"signups", "events", "cuts", "lost"} -> Nat] /\ used'.cuts = used.cuts + 1
        /\ used'.lost = used.lost /\ used'.cuts <= MaxCuts /\ used'.lost <= MaxLost
    <2>1. used \in [{"signups", "events", "cuts", "lost"} -> Nat] /\ used.cuts \in Nat /\ used.lost \in Nat /\ MaxCuts \in Nat
          /\ used.lost <= MaxLost
      BY DEF IInv, TypeOK, MessageInv, SubscriptionsAssumption
    <2>2. used' \in [{"signups", "events", "cuts", "lost"} -> Nat] /\ used'.cuts = used.cuts + 1
          /\ used'.lost = used.lost
      <3>1. used.cuts + 1 \in Nat
        BY <2>1
      <3>2. used' = [used EXCEPT !.cuts = used.cuts + 1]
        BY <1>1, Zenon
      <3>3. used'.cuts = used.cuts + 1 /\ used'.lost = used.lost
        BY <2>1, <3>2, Zenon
      <3>4. used' \in [{"signups", "events", "cuts", "lost"} -> Nat]
        BY <2>1, <3>1, <3>2, Zenon
      <3>5. QED
        BY <3>3, <3>4
    <2>3. used'.cuts <= MaxCuts /\ used'.lost <= MaxLost
      BY <1>1, <2>1, <2>2, SMTT(30)
    <2>4. QED
      BY <2>1, <2>2, <2>3
  <1>5. disp' \in Dispatcher /\ disp'.at = "idle" /\ disp'.batch = <<>> /\ DOMAIN disp'.batch = {}
    BY <1>1, IdleIs
  <1>6. TypeOK'
    BY <1>3, <1>4, <1>5 DEF TypeOK, TablesOK
  <1>7. BatchInv'
    BY <1>5 DEF BatchInv
  <1>8. ASSUME NEW i \in DOMAIN outbox PROVE MessageOK(outbox[i], "rest", disp'.got, used.cuts + 1, used.lost)
    <2> DEFINE m == outbox[i]
               p == Position(i)
               cuts == used.cuts
               lost == used.lost
    <2>1. m \in Message /\ MessageOK(m, p, disp.got, cuts, lost) /\ cuts \in Nat /\ lost \in Nat
      BY PositionIs
    <2> HIDE DEF m, p, cuts, lost
    <2>2. /\ m.arrived \in Nat /\ m.tried \in Nat /\ m.attempts \in Nat
          /\ MaxAttempts \in Nat
      BY <2>1 DEF Message, SubscriptionsAssumption
    <2>3. m.status = "queued" =>
            /\ m.attempts < MaxAttempts
            /\ m.attempts + 0 <= m.tried /\ m.tried <= m.attempts + 0 + (cuts + 1)
            /\ 0 <= m.arrived /\ m.arrived <= 0 + (cuts + 1) + lost
      <3> DEFINE extra == IF p = "rest" THEN 0 ELSE 1
                 sure == IF p = "sent" THEN 1 ELSE 0
                 a == m.attempts
                 t == m.tried
                 v == m.arrived
      <3>1. m.status = "queued" =>
              a < MaxAttempts /\ a + extra <= t /\ t <= a + extra + cuts /\ v <= sure + cuts + lost
        BY <2>1 DEF MessageOK
      <3>2. extra \in {0, 1} /\ sure \in {0, 1} /\ a \in Nat /\ t \in Nat /\ v \in Nat
        BY <2>2
      <3> HIDE DEF extra, sure, a, t, v
      <3>3. m.status = "queued" =>
              a < MaxAttempts /\ a + 0 <= t /\ t <= a + 0 + (cuts + 1) /\ 0 <= v /\ v <= 0 + (cuts + 1) + lost
        BY <2>1, <3>1, <3>2
      <3>4. QED
        BY <3>3 DEF a, t, v
    <2>4. m.status \in {"sent", "failed"} =>
            m.arrived <= 1 + (cuts + 1) + lost /\ m.tried <= MaxAttempts + (cuts + 1)
      <3> DEFINE t == m.tried
                 v == m.arrived
      <3>1. m.status \in {"sent", "failed"} => v <= 1 + cuts + lost /\ t <= MaxAttempts + cuts
        BY <2>1 DEF MessageOK
      <3>2. t \in Nat /\ v \in Nat
        BY <2>2
      <3> HIDE DEF t, v
      <3>3. m.status \in {"sent", "failed"} => v <= 1 + (cuts + 1) + lost /\ t <= MaxAttempts + (cuts + 1)
        BY <2>1, <3>1, <3>2, SMTT(30)
      <3>4. QED
        BY <3>3 DEF t, v
    <2>5. MessageOK(m, "rest", disp'.got, cuts + 1, lost)
      BY <2>1, <2>3, <2>4 DEF MessageOK
    <2>6. QED
      BY <2>5 DEF m, cuts, lost
  <1>9. MessageInv'
    <2>1. \A i \in DOMAIN outbox' : Position(i)' = "rest"
      BY <1>5 DEF Position
    <2>2. \A i \in DOMAIN outbox' : MessageOK(outbox'[i], Position(i)', disp'.got, used'.cuts, used'.lost)
      BY <1>1, <1>4, <1>8, <2>1
    <2>3. QED
      BY <1>4, <2>2 DEF MessageInv
  <1>10. QED
    BY <1>3, <1>6, <1>7, <1>9 DEF IInv

\* The rows that a round takes.
LEMMA RowsIs ==
  ASSUME SubscriptionsAssumption, TypeOK, Due # {}
  PROVE  LET rows == InOrder({i \in Due : Cardinality({j \in Due : j < i}) < Batch})
         IN /\ Len(rows) \in Nat \ {0} /\ DOMAIN rows = 1 .. Len(rows)
            /\ \A k \in DOMAIN rows : rows[k] \in Due
            /\ \A j, k \in DOMAIN rows : rows[j] = rows[k] => j = k
  <1> DEFINE n == Len(outbox)
             R == {i \in Due : Cardinality({j \in Due : j < i}) < Batch}
             c == Cardinality(R)
  <1>1. n \in Nat /\ Due \subseteq 1 .. n
    BY Tables DEF Due
  <1>2. IsFiniteSet(Due) /\ IsFiniteSet(R)
    <2>1. IsFiniteSet(1 .. n)
      BY <1>1, FS_Interval
    <2>2. IsFiniteSet(Due)
      BY <1>1, <2>1, FS_Subset
    <2>3. QED
      BY <2>2, FS_Subset
  <1>3. R # {}
    <2>1. Cardinality(Due) \in Nat /\ Cardinality(Due) # 0
      BY <1>2, FS_CardinalityType, FS_EmptySet
    <2>2. 1 \in 1 .. Cardinality(Due)
      BY <2>1
    <2>3. InOrder(Due)[1] \in Due /\ Cardinality({j \in Due : j < InOrder(Due)[1]}) = 1 - 1
      <3>1. Ids(Due)
        BY <1>1 DEF Ids
      <3>2. \A k \in 1 .. Cardinality(Due) :
              InOrder(Due)[k] \in Due /\ Cardinality({j \in Due : j < InOrder(Due)[k]}) = k - 1
        <4> DEFINE D == Due
        <4>1. Ids(D)
          BY <3>1
        <4> HIDE DEF D
        <4>2. \A k \in 1 .. Cardinality(D) :
                InOrder(D)[k] \in D /\ Cardinality({j \in D : j < InOrder(D)[k]}) = k - 1
          BY <4>1, InOrderPicks, SMTT(30)
        <4>3. QED
          BY <4>2, ZenonT(30) DEF D
      <3>3. QED
        BY <2>2, <3>2
    <2>4. 1 - 1 < Batch
      BY DEF SubscriptionsAssumption
    <2>5. QED
      BY <2>3, <2>4
  <1>4. c \in Nat /\ c # 0
    BY <1>2, <1>3, FS_CardinalityType, FS_EmptySet
  <1>5. Len(InOrder(R)) = c /\ DOMAIN InOrder(R) = 1 .. c
    BY <1>4 DEF InOrder
  <1>6. R \subseteq Due /\ Ids(R)
    BY <1>1 DEF Ids
  <1> HIDE DEF R, n
  <1>7. \A k \in 1 .. c : InOrder(R)[k] \in Due
    BY <1>6, InOrderPicks
  <1>8. \A j, k \in 1 .. c : InOrder(R)[j] = InOrder(R)[k] => j = k
    BY <1>6, InOrderOnce
  <1>9. /\ Len(InOrder(R)) \in Nat \ {0} /\ DOMAIN InOrder(R) = 1 .. Len(InOrder(R))
        /\ \A k \in DOMAIN InOrder(R) : InOrder(R)[k] \in Due
        /\ \A j, k \in DOMAIN InOrder(R) : InOrder(R)[j] = InOrder(R)[k] => j = k
    BY <1>4, <1>5, <1>7, <1>8
  <1>10. QED
    BY <1>9 DEF R

\* What a round knows of a row when it has read it.
LEMMA ReadIs ==
  ASSUME IInv, NEW i \in Due
  PROVE  /\ i \in DOMAIN outbox /\ Read(i) \in Snapshot /\ Read(i).row = i
         /\ Read(i).to \in DOMAIN subs /\ EntryOK(Read(i), FALSE)
  <1> DEFINE m == outbox[i]
             s == subs[m.to]
             link == IF s.status = "pending" /\ s.age < ConfirmTtl THEN s.link ELSE NoLink
             active == s.status = "active"
             r == Read(i)
  <1>1. /\ i \in DOMAIN outbox /\ m.status = "queued" /\ s.status \in {"pending", "active"}
    BY DEF Due, Queued
  <1>2. m \in Message /\ m.to \in DOMAIN subs /\ s \in Subscriber /\ i \in Nat
    BY <1>1, Tables DEF IInv, TypeOK
  <1>3. link \in Nat /\ active \in BOOLEAN /\ m.to \in Nat /\ m.event \in Events \cup {Confirm}
        /\ m.attempts \in Nat /\ s.addr \in Forms \cup Chats \cup {Unlinked}
    BY <1>2 DEF Subscriber, Message, NoLink
  <1>4. r = [row |-> i, to |-> m.to, event |-> m.event, addr |-> s.addr, active |-> active,
             link |-> link, attempts |-> m.attempts]
    BY DEF Read
  <1>5. s.addr # Unlinked
    BY <1>1, <1>2 DEF IInv, UnlinkedInv, Live
  <1>6. m.attempts < MaxAttempts
    BY <1>1, PositionIs DEF MessageOK
  <1> HIDE DEF r, link, active
  <1>7. r \in Snapshot /\ r.row = i /\ r.to = m.to /\ r.addr = s.addr /\ r.attempts = m.attempts
        /\ r.event = m.event
    BY <1>2, <1>3, <1>4 DEF Snapshot
  <1>8. EntryOK(r, FALSE)
    BY <1>1, <1>5, <1>6, <1>7 DEF EntryOK, Queued
  <1>9. QED
    BY <1>1, <1>2, <1>7, <1>8 DEF r

LEMMA PollKeeps ==
  ASSUME SubscriptionsAssumption, IInv, Poll
  PROVE  IInv'
  <1> DEFINE rows == InOrder({i \in Due : Cardinality({j \in Due : j < i}) < Batch})
             batch == [k \in DOMAIN rows |-> Read(rows[k])]
  <1>1. disp.at = "idle" /\ Due # {} /\ UNCHANGED <<subs, outbox, used>>
        /\ disp' = [Idle EXCEPT !.at = "next", !.batch = batch]
    BY DEF Poll
  <1>2. /\ Len(rows) \in Nat \ {0} /\ DOMAIN rows = 1 .. Len(rows)
        /\ \A k \in DOMAIN rows : rows[k] \in Due
        /\ \A j, k \in DOMAIN rows : rows[j] = rows[k] => j = k
    BY <1>1, RowsIs DEF IInv
  <1> HIDE DEF rows
  <1>3. DOMAIN batch = 1 .. Len(rows) /\ \A k \in DOMAIN batch : batch[k] = Read(rows[k]) /\ rows[k] \in Due
    BY <1>2
  <1>4. batch \in Seq(Snapshot) /\ batch # <<>>
    <2>1. \A k \in 1 .. Len(rows) : batch[k] \in Snapshot
      BY <1>3, ReadIs
    <2>2. batch \in [1 .. Len(rows) -> Snapshot]
      BY <1>2, <2>1
    <2>3. 1 \in DOMAIN batch
      BY <1>2, <1>3
    <2> HIDE DEF batch
    <2>4. batch \in Seq(Snapshot)
      BY <1>2, <2>2, SMTT(30)
    <2>5. QED
      BY <2>3, <2>4, EmptySeq, LenProperties
  <1> HIDE DEF batch
  <1>5. disp' \in Dispatcher /\ disp'.at = "next" /\ disp'.batch = batch
    BY <1>1, <1>4, IdleIs DEF Dispatcher, Steps
  <1>6. SubsStay /\ BoxStay
    BY <1>1, SubsSame, BoxSame
  <1>7. TablesOK' /\ UnlinkedInv' /\ UniqueInv' /\ PendingHoldsNoNews'
    BY <1>6, StayKeeps
  <1>8. TypeOK'
    <2>1. \A k \in DOMAIN batch : batch[k].row \in DOMAIN outbox /\ batch[k].to \in DOMAIN subs
      BY <1>3, ReadIs
    <2>2. used' \in [{"signups", "events", "cuts", "lost"} -> Nat]
      BY <1>1 DEF IInv, TypeOK
    <2>3. QED
      BY <1>1, <1>4, <1>5, <1>7, <2>1, <2>2 DEF TypeOK, TablesOK
  <1>9. BatchInv'
    <2>1. ASSUME NEW k \in DOMAIN disp'.batch, NEW r, r = disp'.batch[k], NEW handled
          PROVE  EntryOK(r, handled)'
      <3>1. PICK i \in Due : r = Read(i)
        BY <1>3, <1>5, <2>1
      <3>2. EntryOK(r, FALSE)
        BY <3>1, ReadIs
      <3>3. QED
        BY <1>1, <3>2 DEF EntryOK, Queued
    <2>2. \A j, k \in DOMAIN disp'.batch : disp'.batch[j].row = disp'.batch[k].row => j = k
      <3>1. \A k \in DOMAIN batch : batch[k].row = rows[k]
        BY <1>3, ReadIs
      <3>2. QED
        BY <1>2, <1>3, <1>5, <3>1
    <2>3. \A k \in DOMAIN disp'.batch : EntryOK(disp.batch[k], k = 1 /\ disp.at = "clear")'
      BY <2>1
    <2>4. QED
      BY <2>2, <2>3 DEF BatchInv
  <1>10. MessageInv'
    <2>1. ASSUME NEW i \in DOMAIN outbox PROVE MessageOK(outbox'[i], Position(i)', disp'.got, used'.cuts, used'.lost)
      <3>1. Position(i)' = "rest"
        BY <1>5 DEF Position
      <3>2. MessageOK(outbox[i], "rest", disp.got, used.cuts, used.lost) /\ outbox[i] \in Message /\ used.cuts \in Nat /\ used.lost \in Nat
        BY <1>1, PositionIs
      <3>3. MessageOK(outbox[i], "rest", disp'.got, used.cuts, used.lost)
        BY <3>2, RestIs
      <3>4. QED
        BY <1>1, <3>1, <3>3
    <2>2. used'.cuts <= MaxCuts /\ used'.lost <= MaxLost
      BY <1>1 DEF IInv, MessageInv
    <2>3. \A i \in DOMAIN outbox' : MessageOK(outbox'[i], Position(i)', disp'.got, used'.cuts, used'.lost)
      BY <1>1, <2>1
    <2>4. QED
      BY <2>2, <2>3 DEF MessageInv
  <1>11. QED
    BY <1>7, <1>8, <1>9, <1>10 DEF IInv

LEMMA TickKeeps ==
  ASSUME SubscriptionsAssumption, IInv, Tick
  PROVE  IInv'
  <1> DEFINE old(s) == AgedSubscriber(subs[s])
             wait(i) == Greater(outbox[i].wait - 1, 0)
             m(i) == [outbox[i] EXCEPT !.wait = wait(i)]
  <1>1. /\ subs' = [s \in DOMAIN subs |-> old(s)] /\ outbox' = [i \in DOMAIN outbox |-> m(i)]
        /\ disp' = IF disp.at = "idle" THEN disp ELSE [disp EXCEPT !.lag = @ + 1]
        /\ UNCHANGED used
    BY DEF Tick
  <1>2. TypeOK /\ subs \in Seq(Subscriber) /\ outbox \in Seq(Message) /\ disp \in Dispatcher
    BY DEF IInv, TypeOK
  <1>3. SubsStay
    <2>1. DOMAIN subs' = DOMAIN subs /\ subs' = [s \in DOMAIN subs |-> subs'[s]]
          /\ \A s \in DOMAIN subs : subs'[s] = AgedSubscriber(subs[s])
      BY <1>1
    <2>2. \A s \in DOMAIN subs : /\ subs'[s] \in Subscriber
                                 /\ subs'[s].status = subs[s].status /\ subs'[s].addr = subs[s].addr
      BY <1>2, <2>1, Tables, AgedIs
    <2>3. subs' \in Seq(Subscriber)
      BY <1>2, <2>1, <2>2, Rewritten
    <2>4. QED
      BY <2>1, <2>2, <2>3 DEF SubsStay
  <1>4. ASSUME NEW i \in DOMAIN outbox
        PROVE  /\ outbox'[i] \in Message /\ outbox'[i].to = outbox[i].to
               /\ outbox'[i].event = outbox[i].event /\ outbox'[i].status = outbox[i].status
               /\ outbox'[i].attempts = outbox[i].attempts /\ outbox'[i].tried = outbox[i].tried
               /\ outbox'[i].arrived = outbox[i].arrived /\ outbox'[i].refused = outbox[i].refused
               /\ outbox'[i].unheard = outbox[i].unheard
    <2> DEFINE o == outbox[i]
               w == wait(i)
    <2>1. outbox'[i] = [o EXCEPT !.wait = w]
      BY <1>1
    <2>2. o \in Message
      BY <1>2, Tables
    <2>3. w \in Nat
      BY <2>2, SMTT(30) DEF Message, Greater
    <2> HIDE DEF o, w
    <2>4. LET n == [o EXCEPT !.wait = w]
          IN /\ n \in Message /\ n.to = o.to /\ n.event = o.event /\ n.status = o.status
             /\ n.attempts = o.attempts /\ n.tried = o.tried /\ n.arrived = o.arrived
             /\ n.refused = o.refused /\ n.unheard = o.unheard
      BY <2>2, <2>3 DEF Message
    <2>5. QED
      BY <2>1, <2>4 DEF o
  <1>5. DOMAIN outbox' = DOMAIN outbox /\ outbox' = [i \in DOMAIN outbox |-> outbox'[i]]
    BY <1>1
  <1>6. BoxStay
    <2>1. outbox' \in Seq(Message)
      BY <1>2, <1>4, <1>5, Rewritten
    <2>2. QED
      BY <1>4, <1>5, <2>1 DEF BoxStay
  <1>7. TablesOK' /\ UnlinkedInv' /\ UniqueInv' /\ PendingHoldsNoNews'
    BY <1>3, <1>6, StayKeeps
  <1>8. disp' \in Dispatcher /\ disp'.at = disp.at /\ disp'.batch = disp.batch /\ disp'.got = disp.got
    <2>1. CASE disp.at = "idle"
      BY <1>1, <1>2, <2>1
    <2>2. CASE disp.at # "idle"
      <3> DEFINE lag == disp.lag + 1
      <3>1. disp' = [disp EXCEPT !.lag = lag]
        BY <1>1, <2>2
      <3>2. lag \in Nat
        BY <1>2, SMTT(30) DEF Dispatcher
      <3> HIDE DEF lag
      <3>3. QED
        BY <1>2, <3>1, <3>2 DEF Dispatcher
    <2>3. QED
      BY <2>1, <2>2
  <1>9. DOMAIN subs' = DOMAIN subs
    BY <1>3 DEF SubsStay
  <1>10. TypeOK'
    BY <1>1, <1>2, <1>5, <1>7, <1>8, <1>9 DEF TypeOK, TablesOK
  <1>11. BatchInv'
    <2>1. ASSUME NEW k \in DOMAIN disp'.batch, NEW r, r = disp'.batch[k]
          PROVE  EntryOK(r, k = 1 /\ disp.at = "clear")'
      <3>1. /\ EntryOK(r, k = 1 /\ disp.at = "clear") /\ r.row \in DOMAIN outbox /\ r.to \in DOMAIN subs
        BY <1>2, <1>8, <2>1 DEF IInv, BatchInv, TypeOK
      <3>2. subs'[r.to].addr = Unlinked => subs'[r.to].status = "gone"
        BY <1>3, <3>1 DEF EntryOK, SubsStay, Live
      <3>3. /\ outbox'[r.row].to = outbox[r.row].to /\ outbox'[r.row].status = outbox[r.row].status
            /\ outbox'[r.row].attempts = outbox[r.row].attempts
            /\ outbox'[r.row].event = outbox[r.row].event
        BY <1>4, <3>1
      <3>4. QED
        BY <1>8, <3>1, <3>2, <3>3 DEF EntryOK, Queued
    <2>2. \A j, k \in DOMAIN disp'.batch : disp'.batch[j].row = disp'.batch[k].row => j = k
      BY <1>8 DEF IInv, BatchInv
    <2>3. \A k \in DOMAIN disp'.batch : EntryOK(disp.batch[k], k = 1 /\ disp.at = "clear")'
      BY <2>1
    <2>4. QED
      BY <2>2, <2>3 DEF BatchInv
  <1>12. MessageInv'
    <2>1. ASSUME NEW i \in DOMAIN outbox PROVE MessageOK(outbox'[i], Position(i)', disp'.got, used'.cuts, used'.lost)
      <3>1. Position(i)' = Position(i)
        BY <1>8 DEF Position
      <3>2. MessageOK(outbox[i], Position(i), disp.got, used.cuts, used.lost)
        BY PositionIs
      <3>3. MessageOK(outbox'[i], Position(i), disp.got, used.cuts, used.lost)
        BY <1>4, <3>2 DEF MessageOK
      <3>4. QED
        BY <1>1, <1>8, <3>1, <3>3
    <2>2. used'.cuts <= MaxCuts /\ used'.lost <= MaxLost
      BY <1>1 DEF IInv, MessageInv
    <2>3. \A i \in DOMAIN outbox' : MessageOK(outbox'[i], Position(i)', disp'.got, used'.cuts, used'.lost)
      BY <1>5, <2>1
    <2>4. QED
      BY <2>2, <2>3 DEF MessageInv
  <1>13. QED
    BY <1>7, <1>10, <1>11, <1>12 DEF IInv

\* What a late arrival changes: the one message, and what its reader has in hand.
LEMMA LateIs ==
  ASSUME SubscriptionsAssumption, IInv, NEW i \in DOMAIN outbox, ArrivesLate(i)
  PROVE  /\ UNCHANGED disp /\ SubsStay /\ \A s \in DOMAIN subs : subs'[s].status = subs[s].status
         /\ used' \in [{"signups", "events", "cuts", "lost"} -> Nat] /\ used'.cuts = used.cuts
         /\ used'.lost = used.lost + 1 /\ used'.lost <= MaxLost
         /\ outbox' \in Seq(Message) /\ DOMAIN outbox' = DOMAIN outbox
         /\ \A j \in DOMAIN outbox : j # i => outbox'[j] = outbox[j]
         /\ outbox[i].unheard > 0 /\ outbox[i].status # "gone"
         /\ outbox'[i] = [outbox[i] EXCEPT !.unheard = @ - 1, !.arrived = @ + 1]
         /\ outbox'[i].to = outbox[i].to /\ outbox'[i].event = outbox[i].event
         /\ outbox'[i].status = outbox[i].status /\ outbox'[i].attempts = outbox[i].attempts
         /\ outbox'[i].tried = outbox[i].tried /\ outbox'[i].refused = outbox[i].refused
         /\ outbox'[i].arrived = outbox[i].arrived + 1
  <1> DEFINE o == outbox[i]
             less == o.unheard - 1
             more == o.arrived + 1
             a == [o EXCEPT !.unheard = less]
             n == [a EXCEPT !.arrived = more]
             s == o.to
             v == [subs[s] EXCEPT !.inHand = TRUE]
  <1>1. /\ used.lost < MaxLost /\ used' = [used EXCEPT !.lost = used.lost + 1] /\ UNCHANGED disp
        /\ o.unheard > 0 /\ outbox' = [outbox EXCEPT ![i] = n]
        /\ UNCHANGED subs \/ subs' = [subs EXCEPT ![s] = v]
    BY DEF ArrivesLate, Spend
  <1>2. /\ subs \in Seq(Subscriber) /\ outbox \in Seq(Message) /\ used \in [{"signups", "events", "cuts", "lost"} -> Nat]
        /\ MaxLost \in Nat /\ s \in DOMAIN subs
    BY DEF IInv, TypeOK, SubscriptionsAssumption
  <1>3. o \in Message /\ i \in 1 .. Len(outbox) /\ subs[s] \in Subscriber
    BY <1>2, Tables DEF IInv
  <1>4. o.status # "gone"
    <2>1. MessageOK(o, Position(i), disp.got, used.cuts, used.lost)
      BY PositionIs
    <2> HIDE DEF o
    <2>2. o.status = "gone" => o.unheard = 0
      BY <2>1 DEF MessageOK
    <2>3. QED
      BY <1>1, <2>2
  <1>5. less \in Nat /\ more \in Nat
    <2>1. o.unheard \in Nat /\ o.arrived \in Nat
      BY <1>3 DEF Message
    <2> DEFINE x == o.unheard
               y == o.arrived
    <2>2. x \in Nat /\ y \in Nat /\ x > 0
      BY <1>1, <2>1
    <2> HIDE DEF x, y
    <2>3. x - 1 \in Nat /\ y + 1 \in Nat
      BY <2>2
    <2>4. QED
      BY <2>3 DEF x, y
  <1>6. /\ n \in Message /\ n.to = o.to /\ n.event = o.event /\ n.status = o.status
        /\ n.attempts = o.attempts /\ n.tried = o.tried /\ n.refused = o.refused /\ n.arrived = more
    <2> HIDE DEF o, less, more
    <2>1. /\ a \in Message /\ a.to = o.to /\ a.event = o.event /\ a.status = o.status
          /\ a.attempts = o.attempts /\ a.tried = o.tried /\ a.refused = o.refused
      BY <1>3, <1>5 DEF Message
    <2> HIDE DEF a
    <2>2. QED
      BY <1>5, <2>1 DEF Message
  <1>7. n = [o EXCEPT !.unheard = @ - 1, !.arrived = @ + 1]
    OBVIOUS
  <1>8. outbox' \in Seq(Message) /\ DOMAIN outbox' = DOMAIN outbox /\ outbox'[i] = n
        /\ \A j \in DOMAIN outbox : j # i => outbox'[j] = outbox[j]
    <2> HIDE DEF n
    <2>1. [outbox EXCEPT ![i] = n] \in Seq(Message)
      BY <1>2, <1>3, <1>6, ExceptSeq
    <2>2. QED
      BY <1>1, <2>1
  <1>9. used' \in [{"signups", "events", "cuts", "lost"} -> Nat] /\ used'.cuts = used.cuts
        /\ used'.lost = used.lost + 1 /\ used'.lost <= MaxLost
    <2> DEFINE l == used.lost + 1
    <2>1. l \in Nat /\ l <= MaxLost
      <3>1. used.lost \in Nat /\ MaxLost \in Nat /\ used.lost < MaxLost
        BY <1>1, <1>2
      <3>2. QED
        BY <3>1
    <2>2. used' = [used EXCEPT !.lost = l]
      BY <1>1
    <2> HIDE DEF l
    <2>3. used' \in [{"signups", "events", "cuts", "lost"} -> Nat] /\ used'.cuts = used.cuts /\ used'.lost = l
      BY <1>2, <2>1, <2>2, Zenon
    <2>4. QED
      BY <2>1, <2>3 DEF l
  <1>10. SubsStay /\ \A t \in DOMAIN subs : subs'[t].status = subs[t].status
    <2> HIDE DEF s
    <2>1. v \in Subscriber /\ v.addr = subs[s].addr /\ v.status = subs[s].status
      BY <1>3 DEF Subscriber
    <2> HIDE DEF v
    <2>2. CASE UNCHANGED subs
      BY <2>2, SubsSame
    <2>3. CASE subs' = [subs EXCEPT ![s] = v]
      <3>1. SubsStay
        BY <1>2, <2>1, <2>3, SubsOne
      <3>2. QED
        BY <1>2, <2>1, <2>3, <3>1
    <2>4. QED
      BY <1>1, <2>2, <2>3
  <1> HIDE DEF n, less, v
  <1>11. QED
    BY <1>1, <1>4, <1>6, <1>7, <1>8, <1>9, <1>10

\* One more lost answer allows one more arrival.
LEMMA LateOK ==
  ASSUME NEW m \in Message, NEW n \in Message, NEW p, NEW got, NEW cuts \in Nat, NEW lost \in Nat,
         MessageOK(m, p, got, cuts, lost), n.event = m.event, n.status = m.status,
         n.attempts = m.attempts, n.tried = m.tried, n.refused = m.refused,
         n = m \/ (m.status # "gone" /\ n.arrived = m.arrived + 1)
  PROVE  MessageOK(n, p, got, cuts, lost + 1)
  <1> DEFINE v == m.arrived
             w == n.arrived
             sure == IF p = "sent" THEN 1 ELSE 0
  <1>1. v \in Nat /\ w \in Nat /\ sure \in {0, 1} /\ (w = v \/ w = v + 1)
    BY DEF Message
  <1>2. /\ m.status = "queued" => sure <= v /\ v <= sure + cuts + lost
        /\ m.status \in {"sent", "failed"} => v <= 1 + cuts + lost
        /\ m.status = "sent" => v >= 1
    BY DEF MessageOK
  <1> HIDE DEF v, w, sure
  <1>3. /\ m.status = "queued" => sure <= w /\ w <= sure + cuts + (lost + 1)
        /\ m.status \in {"sent", "failed"} => w <= 1 + cuts + (lost + 1)
        /\ m.status = "sent" => w >= 1
    BY <1>1, <1>2, SMTT(30)
  <1>4. m.status = "gone" => n = m
    OBVIOUS
  <1>5. QED
    BY <1>3, <1>4 DEF MessageOK, w, sure

LEMMA ArrivesLateKeeps ==
  ASSUME SubscriptionsAssumption, IInv, NEW i \in DOMAIN outbox, ArrivesLate(i)
  PROVE  IInv'
  <1>1. /\ UNCHANGED disp /\ SubsStay /\ used' \in [{"signups", "events", "cuts", "lost"} -> Nat]
        /\ used'.cuts = used.cuts /\ used'.lost = used.lost + 1 /\ used'.lost <= MaxLost
        /\ outbox' \in Seq(Message) /\ DOMAIN outbox' = DOMAIN outbox
    BY LateIs
  <1>2. ASSUME NEW j \in DOMAIN outbox
        PROVE  /\ outbox'[j].to = outbox[j].to /\ outbox'[j].event = outbox[j].event
               /\ outbox'[j].status = outbox[j].status /\ outbox'[j].attempts = outbox[j].attempts
               /\ outbox'[j].tried = outbox[j].tried /\ outbox'[j].refused = outbox[j].refused
               /\ \/ outbox'[j] = outbox[j]
                  \/ outbox[j].status # "gone" /\ outbox'[j].arrived = outbox[j].arrived + 1
    <2>1. CASE j = i
      BY <2>1, LateIs
    <2>2. CASE j # i
      <3>1. outbox'[j] = outbox[j]
        BY <2>2, LateIs
      <3>2. QED
        BY <3>1
    <2>3. QED
      BY <2>1, <2>2
  <1>3. BoxStay
    BY <1>1, <1>2 DEF BoxStay
  <1>4. TablesOK' /\ UnlinkedInv' /\ UniqueInv' /\ PendingHoldsNoNews'
    BY <1>1, <1>3, StayKeeps
  <1>5. TypeOK /\ DOMAIN subs' = DOMAIN subs
    BY <1>1 DEF IInv, SubsStay
  <1>6. TypeOK'
    BY <1>1, <1>4, <1>5 DEF TypeOK, TablesOK
  <1>7. BatchInv'
    <2>1. ASSUME NEW k \in DOMAIN disp.batch, NEW r, r = disp.batch[k]
          PROVE  EntryOK(r, k = 1 /\ disp.at = "clear")'
      <3>1. EntryOK(r, k = 1 /\ disp.at = "clear") /\ r.row \in DOMAIN outbox /\ r.to \in DOMAIN subs
        BY <1>5, <2>1 DEF IInv, BatchInv, TypeOK
      <3>2. subs'[r.to].addr = Unlinked => subs'[r.to].status = "gone"
        BY <1>1, <3>1 DEF EntryOK, SubsStay, Live
      <3>3. /\ outbox'[r.row].to = outbox[r.row].to /\ outbox'[r.row].status = outbox[r.row].status
            /\ outbox'[r.row].attempts = outbox[r.row].attempts
            /\ outbox'[r.row].event = outbox[r.row].event
        BY <1>2, <3>1
      <3>4. QED
        BY <1>1, <3>1, <3>2, <3>3 DEF EntryOK, Queued
    <2>2. \A k \in DOMAIN disp.batch : EntryOK(disp.batch[k], k = 1 /\ disp.at = "clear")'
      BY <1>1, <2>1, Zenon
    <2>3. QED
      BY <1>1, <2>2 DEF IInv, BatchInv
  <1>8. MessageInv'
    <2>1. ASSUME NEW j \in DOMAIN outbox
          PROVE  MessageOK(outbox'[j], Position(j)', disp'.got, used'.cuts, used'.lost)
      <3>1. Position(j)' = Position(j)
        BY <1>1 DEF Position
      <3>2. MessageOK(outbox[j], Position(j), disp.got, used.cuts, used.lost)
            /\ outbox[j] \in Message /\ used.cuts \in Nat /\ used.lost \in Nat
        BY PositionIs
      <3>3. outbox'[j] \in Message
        BY <1>1, ElementOfSeq, LenProperties
      <3>4. MessageOK(outbox'[j], Position(j), disp.got, used.cuts, used.lost + 1)
        <4> DEFINE m == outbox[j]
                   n == outbox'[j]
                   p == Position(j)
        <4>1. /\ n.event = m.event /\ n.status = m.status /\ n.attempts = m.attempts
              /\ n.tried = m.tried /\ n.refused = m.refused
              /\ n = m \/ (m.status # "gone" /\ n.arrived = m.arrived + 1)
          BY <1>2
        <4>2. MessageOK(m, p, disp.got, used.cuts, used.lost) /\ m \in Message /\ n \in Message
          BY <3>2, <3>3
        <4> HIDE DEF m, n, p
        <4>3. MessageOK(n, p, disp.got, used.cuts, used.lost + 1)
          BY <3>2, <4>1, <4>2, LateOK
        <4>4. QED
          BY <4>3 DEF n, p
      <3>5. QED
        BY <1>1, <3>1, <3>4
    <2>2. used'.cuts <= MaxCuts /\ used'.lost <= MaxLost
      BY <1>1 DEF IInv, MessageInv
    <2>3. QED
      BY <1>1, <2>1, <2>2 DEF MessageInv
  <1>9. QED
    BY <1>4, <1>6, <1>7, <1>8 DEF IInv

\* Nothing changes.
LEMMA StutterKeeps ==
  ASSUME IInv, UNCHANGED vars
  PROVE  IInv'
  <1>1. UNCHANGED subs /\ UNCHANGED outbox /\ UNCHANGED disp /\ UNCHANGED used
    BY DEF vars
  <1>2. TypeOK' /\ UnlinkedInv' /\ UniqueInv' /\ PendingHoldsNoNews'
    BY <1>1 DEF IInv, TypeOK, UnlinkedInv, UniqueInv, PendingHoldsNoNews, Live, Queued
  <1>3. BatchInv'
    BY <1>1 DEF IInv, BatchInv, EntryOK, Queued
  <1>4. MessageInv'
    BY <1>1 DEF IInv, MessageInv, Position
  <1>5. QED
    BY <1>2, <1>3, <1>4 DEF IInv

LEMMA NextKeeps ==
  ASSUME SubscriptionsAssumption, IInv, [Next]_vars
  PROVE  IInv'
  <1>1. CASE DispatchStep
    <2>1. CASE Poll
      BY <2>1, PollKeeps
    <2>2. CASE GiveUp
      BY <2>2, GiveUpKeeps
    <2>3. CASE SkipRow
      BY <2>3, SkipRowKeeps
    <2>4. CASE \E answer \in Answers : Send(answer)
      BY <2>4, SendKeeps
    <2>5. CASE RecordSent
      BY <2>5, RecordSentKeeps
    <2>6. CASE ClearFailures
      BY <2>6, ClearFailuresKeeps
    <2>7. CASE RemoveGone
      BY <2>7, RemoveGoneKeeps
    <2>8. CASE CountFailure
      BY <2>8, CountFailureKeeps
    <2>9. CASE Quarantine
      BY <2>9, QuarantineKeeps
    <2>10. CASE RecordFailure
      BY <2>10, RecordFailureKeeps
    <2>11. QED
      BY <1>1, <2>1, <2>2, <2>3, <2>4, <2>5, <2>6, <2>7, <2>8, <2>9, <2>10 DEF DispatchStep
  <1>2. CASE Visitor
    <2>1. ASSUME NEW wants \in Choices, NEW addr \in Forms, SignUp(addr, wants) PROVE IInv'
      BY <2>1, SignUpKeeps
    <2>2. ASSUME NEW wants \in Choices, SignUpByLink(wants) PROVE IInv'
      BY <2>2, SignUpByLinkKeeps
    <2>3. ASSUME NEW s \in DOMAIN subs, ConfirmSubmit(s) PROVE IInv'
      BY <2>3, ConfirmSubmitKeeps
    <2>4. ASSUME NEW s \in DOMAIN subs, Unsubscribe(s) PROVE IInv'
      <3>1. Delete({s}) /\ {s} \subseteq DOMAIN subs /\ {s} # {} /\ UNCHANGED <<disp, used>>
        BY <2>4 DEF Unsubscribe
      <3>2. QED
        BY <3>1, DeleteKeeps
    <2>5. ASSUME NEW s \in DOMAIN subs, NEW chat \in Chats, LinkChat(s, chat) PROVE IInv'
      BY <2>5, LinkChatKeeps
    <2>6. QED
      BY <1>2, <2>1, <2>2, <2>3, <2>4, <2>5 DEF Visitor
  <1>3. CASE \E e \in Events : FanOut(e)
    BY <1>3, FanOutKeeps
  <1>4. CASE Prune(StaleSignUps)
    <2>1. StaleSignUps \subseteq DOMAIN subs
      BY DEF StaleSignUps
    <2>2. QED
      BY <1>4, <2>1, DeleteKeeps DEF Prune
  <1>5. CASE Prune(StaleQuarantines)
    <2>1. StaleQuarantines \subseteq DOMAIN subs
      BY DEF StaleQuarantines
    <2>2. QED
      BY <1>5, <2>1, DeleteKeeps DEF Prune
  <1>6. CASE CutShort
    BY <1>6, CutShortKeeps
  <1>7. CASE Tick
    BY <1>7, TickKeeps
  <1>8. CASE \E i \in DOMAIN outbox : ArrivesLate(i)
    BY <1>8, ArrivesLateKeeps
  <1>9. CASE UNCHANGED vars
    BY <1>9, StutterKeeps
  <1>10. QED
    BY <1>1, <1>2, <1>3, <1>4, <1>5, <1>6, <1>7, <1>8, <1>9 DEF Next

-----------------------------------------------------------------------------
(* The theorems.                                                           *)

\* The inductive invariant holds in every state: its parts on chats that are not
\* known yet, on the batch of the round and on where each message is carry the
\* properties below through the steps in between.
THEOREM Invariance ==
  ASSUME SubscriptionsAssumption
  PROVE  Spec => []IInv
  <1>1. Init => IInv
    BY InitHolds
  <1>2. IInv /\ [Next]_vars => IInv'
    BY NextKeeps
  <1>3. QED
    BY <1>1, <1>2, PTL DEF Spec

\* Every variable has its type, no message outlives its subscriber (DELETE
\* cascades) and a round holds the ids of real rows.
THEOREM TypesHold ==
  ASSUME SubscriptionsAssumption
  PROVE  Spec => []TypeOK
  <1>1. IInv => TypeOK
    BY DEF IInv
  <1>2. QED
    BY <1>1, Invariance, PTL

\* Whoever has not confirmed has no news waiting (sign_up drops what was held in
\* quarantine, fan_out passes pending rows over), whatever a round does meanwhile.
THEOREM NoNewsForPending ==
  ASSUME SubscriptionsAssumption
  PROVE  Spec => []PendingHoldsNoNews
  <1>1. IInv => PendingHoldsNoNews
    BY DEF IInv
  <1>2. QED
    BY <1>1, Invariance, PTL

\* UNIQUE (channel, address) never stands in the way of link_chat and sign_up.
THEOREM OneRowEach ==
  ASSUME SubscriptionsAssumption
  PROVE  Spec => []OneRowPerAddress
  <1>1. ASSUME UniqueInv, NEW addr \in Forms \cup Chats PROVE Cardinality(Have(addr)) <= 1
    <2>1. \A s, t \in Have(addr) : s = t
      BY <1>1, HaveIs DEF UniqueInv
    <2>2. CASE Have(addr) = {}
      BY <2>2, FS_EmptySet
    <2>3. CASE Have(addr) # {}
      <3>1. PICK s \in Have(addr) : Have(addr) = {s}
        BY <2>1, <2>3
      <3>2. Cardinality({s}) = 1
        BY FS_Singleton
      <3>3. QED
        BY <3>1, <3>2
    <2>4. QED
      BY <2>2, <2>3
  <1>2. IInv => OneRowPerAddress
    BY <1>1 DEF IInv, OneRowPerAddress
  <1>3. QED
    BY <1>2, Invariance, PTL

\* dispatch_due loses and repeats nothing: a row marked sent arrived, one given
\* up was refused or tried MAX_ATTEMPTS times, and a message arrives again only
\* as often as a round was cut short between a send and its record, or a send
\* that was taken ended in an error for want of an answer.
THEOREM OnceEach ==
  ASSUME SubscriptionsAssumption
  PROVE  Spec => []EachMessageOnce
  <1>1. ASSUME IInv, NEW i \in DOMAIN outbox
        PROVE  /\ outbox[i].status = "sent" => outbox[i].arrived >= 1
               /\ outbox[i].status = "failed" /\ outbox[i].event # Confirm =>
                    outbox[i].refused \/ outbox[i].tried >= MaxAttempts
               /\ outbox[i].arrived <= 1 + used.cuts + used.lost
               /\ outbox[i].tried <= MaxAttempts + used.cuts
    <2> DEFINE m == outbox[i]
               p == Position(i)
               cuts == used.cuts
               lost == used.lost
               extra == IF p = "rest" THEN 0 ELSE 1
               sure == IF p = "sent" THEN 1 ELSE 0
               a == m.attempts
               t == m.tried
               v == m.arrived
    <2>1. m \in Message /\ MessageOK(m, p, disp.got, cuts, lost) /\ cuts \in Nat /\ lost \in Nat
      BY <1>1, PositionIs
    <2>2. MaxAttempts \in Nat \ {0}
      BY DEF SubscriptionsAssumption
    <2> HIDE DEF m, p, cuts, lost
    <2>3. a \in Nat /\ t \in Nat /\ v \in Nat /\ m.status \in {"queued", "sent", "failed", "gone"}
      BY <2>1 DEF Message
    <2>4. m.status = "queued" =>
            a < MaxAttempts /\ a + extra <= t /\ t <= a + extra + cuts /\ v <= sure + cuts + lost
      BY <2>1 DEF MessageOK
    <2>5. m.status \in {"sent", "failed"} => v <= 1 + cuts + lost /\ t <= MaxAttempts + cuts
      BY <2>1 DEF MessageOK
    <2>6. m.status = "gone" => v = 0 /\ t = 0
      BY <2>1 DEF MessageOK
    <2>7. /\ m.status = "sent" => v >= 1
          /\ m.status = "failed" /\ m.event # Confirm => m.refused \/ t >= MaxAttempts
      BY <2>1 DEF MessageOK
    <2>8. extra \in {0, 1} /\ sure \in {0, 1}
      OBVIOUS
    <2> HIDE DEF extra, sure, a, t, v
    <2>9. v <= 1 + cuts + lost /\ t <= MaxAttempts + cuts
      BY <2>1, <2>2, <2>3, <2>4, <2>5, <2>6, <2>8
    <2>10. QED
      BY <2>7, <2>9 DEF m, cuts, lost, t, v
  <1>2. IInv => EachMessageOnce
    BY <1>1 DEF EachMessageOnce
  <1>3. QED
    BY <1>2, Invariance, PTL

-----------------------------------------------------------------------------
(***************************************************************************)
(* Proof that a quarantine is deserved: it takes QUARANTINE_FAILURES       *)
(* counted failures in a row, all within one window, none from before the  *)
(* last sign-up, however sign-ups, confirmations, deletions and the        *)
(* dispatcher's single statements interleave, if no round is cut short.    *)
(***************************************************************************)

(* The invariant.                                                          *)

\* A round writes to the address its rows still have, and only sends to
\* addresses of the form are counted.
AddressInv ==
  /\ \A k \in DOMAIN disp.batch :
       Live(disp.batch[k].to) => subs[disp.batch[k].to].addr = disp.batch[k].addr
  /\ disp.at \in {"count", "quarantine"} => disp.batch[1].addr \in Forms

\* The failures that failure_count stands for: the last of the streak, none of
\* them older than failure_window_start.
CountIs(m) ==
  /\ m.failures <= Len(m.streak) \/ Len(m.streak) = QuarantineFailures
  /\ \A k \in DOMAIN m.streak : k + m.failures > Len(m.streak) => m.streak[k] <= m.since

\* reached says that a message has arrived and the row is not cleared yet.
RowCount(m, lag, reached) ==
  /\ Len(m.streak) <= QuarantineFailures
  /\ m.since # None => lag <= m.since /\ (reached \/ CountIs(m))

\* The last QUARANTINE_FAILURES failures are within the window.
ByStreak(m, lag) ==
  Len(m.streak) = QuarantineFailures /\ m.streak[1] - lag < QuarantineWindow

\* No confirmation whose answer was lost can bring a link any more.
Untold(s) ==
  \A i \in DOMAIN outbox :
    outbox[i].to = s /\ outbox[i].event = Confirm /\ outbox[i].status \notin {"sent", "gone"}
      => outbox[i].unheard = 0

\* Nobody, or who cannot be active before the round sends again.
Unreached(s) ==
  \/ subs[s].status = "gone"
  \/ subs[s].status = "pending" /\ ~subs[s].inHand /\ Untold(s)

\* What the second update of count_failure may put in quarantine: nobody, who
\* signed up anew and has no link to confirm by, or who deserves it.
Deserves(s) == Unreached(s) \/ ByStreak(subs[s], disp.lag)

Reached(s) == disp.at \in {"sent", "clear"} /\ disp.batch[1].to = s

CountInv ==
  used.cuts = 0 =>
    /\ disp.lag <= MaxLag
    /\ \A s \in DOMAIN subs : RowCount(subs[s], disp.lag, Reached(s))
    /\ disp.at = "quarantine" => Deserves(disp.batch[1].to)

CInv == IInv /\ AddressInv /\ CountInv

-----------------------------------------------------------------------------
(* What the updates of a row leave of its count.                           *)

\* The streak after one more failure: the newest n of them.
LongerBy(e, n, s, q) ==
  /\ q \in Seq(Nat)
  /\ \/ /\ Len(s) < n /\ Len(q) = Len(s) + 1
        /\ \A k \in 1 .. Len(s) + 1 : q[k] = IF k = Len(s) + 1 THEN e ELSE s[k]
     \/ /\ Len(s) = n /\ Len(q) = n
        /\ \A k \in 1 .. n : q[k] = IF k = n THEN e ELSE s[k + 1]

LEMMA StreakIs ==
  ASSUME NEW n \in Nat \ {0}, NEW s \in Seq(Nat), Len(s) <= n, NEW e \in Nat
  PROVE  LongerBy(e, n, s, Newest(n, Append(s, e)))
  <1> DEFINE a == Append(s, e)
             l == Len(s)
  <1>1. l \in Nat /\ l <= n
    BY LenProperties
  <1>2. /\ a \in Seq(Nat) /\ Len(a) = l + 1
        /\ \A k \in 1 .. l : a[k] = s[k]
        /\ a[l + 1] = e
    BY AppendProperties
  <1>3. Newest(n, a) \in Seq(Nat)
    BY <1>2, NewestIs
  <1> HIDE DEF a, l
  <1>4. CASE l < n
    <2>1. Newest(n, a) = a
      BY <1>1, <1>2, <1>4 DEF Newest
    <2>2. \A k \in 1 .. l + 1 : a[k] = IF k = l + 1 THEN e ELSE s[k]
      BY <1>1, <1>2
    <2>3. QED
      BY <1>2, <1>4, <2>1, <2>2 DEF a, l, LongerBy
  <1>5. CASE l = n
    <2> DEFINE q == SubSeq(a, 2, l + 1)
    <2>1. Newest(n, a) = q
      BY <1>1, <1>2, <1>5 DEF Newest
    <2>2. Len(q) = l /\ \A k \in 1 .. l : q[k] = a[k + 1]
      <3>1. \A i \in 2 .. l + 1 : i \in 1 .. Len(a)
        BY <1>1, <1>2
      <3>2. 2 \in 1 .. l + 2 /\ l + 1 \in 1 .. l + 1
        BY <1>1, <1>5
      <3>3. Len(q) = l + 1 - 2 + 1 /\ \A k \in 1 .. l + 1 - 2 + 1 : q[k] = a[2 + k - 1]
        BY <1>1, <1>2, <3>1, <3>2, SubSeqProperties
      <3> HIDE DEF q
      <3>4. l + 1 - 2 + 1 = l /\ \A k \in 1 .. l : 2 + k - 1 = k + 1
        BY <1>1
      <3>5. QED
        BY <3>3, <3>4
    <2> HIDE DEF q
    <2>3. \A k \in 1 .. l : q[k] = IF k = l THEN e ELSE s[k + 1]
      <3>1. \A k \in 1 .. l : k # l => k + 1 \in 1 .. l
        BY <1>1
      <3>2. QED
        BY <1>2, <2>2, <3>1
    <2>4. QED
      BY <1>5, <2>1, <2>2, <2>3, <1>3 DEF a, l, LongerBy
  <1>6. QED
    BY <1>1, <1>4, <1>5

\* A failure that is counted keeps the count what it is, and reaches the limit
\* only with that many failures in the window.
LEMMA CountedCounts ==
  ASSUME SubscriptionsAssumption, NEW m \in Subscriber, NEW lag \in Nat, RowCount(m, lag, FALSE)
  PROVE  LET v == Counted(m, lag)
         IN /\ RowCount(v, lag, FALSE)
            /\ v.failures >= QuarantineFailures => ByStreak(v, lag)
  <1> DEFINE n == QuarantineFailures
             w == QuarantineWindow
             s == m.streak
             l == Len(s)
             over == WindowOver(m, lag)
             q == Newest(n, Append(s, lag))
             f == IF over THEN 1 ELSE m.failures + 1
             t == IF over THEN lag ELSE m.since
             v == Counted(m, lag)
  <1>1. n \in Nat \ {0} /\ n > 1 /\ w \in Nat \ {0}
    BY DEF SubscriptionsAssumption
  <1>2. s \in Seq(Nat) /\ m.failures \in Nat /\ m.since \in Nat \cup {None} /\ l <= n
    BY DEF Subscriber, RowCount
  <1>3. l \in Nat /\ DOMAIN s = 1 .. l
    BY <1>2, LenProperties
  <1>4. /\ q \in Seq(Nat)
        /\ \/ /\ l < n /\ Len(q) = l + 1
              /\ \A k \in 1 .. l + 1 : q[k] = IF k = l + 1 THEN lag ELSE s[k]
           \/ /\ l = n /\ Len(q) = n
              /\ \A k \in 1 .. n : q[k] = IF k = n THEN lag ELSE s[k + 1]
    <2> HIDE DEF n, s
    <2>1. s \in Seq(Nat) /\ Len(s) <= n /\ n \in Nat \ {0}
      BY <1>1, <1>2
    <2>2. LongerBy(lag, n, s, q)
      BY <2>1, StreakIs
    <2>3. QED
      BY <2>2 DEF LongerBy, l
  <1>5. v.failures = f /\ v.since = t /\ v.streak = q
    <2> DEFINE a == [m EXCEPT !.failures = f, !.since = t]
    <2>1. v = [a EXCEPT !.streak = q]
      BY DEF Counted
    <2> HIDE DEF f, t, q, over, v
    <2>2. a.failures = f /\ a.since = t /\ DOMAIN a = DOMAIN m /\ "streak" \in DOMAIN m
      BY DEF Subscriber
    <2> HIDE DEF a
    <2>3. QED
      BY <2>1, <2>2
  <1>6. DOMAIN q = 1 .. Len(q) /\ Len(q) <= n
    <2>1. DOMAIN q = 1 .. Len(q)
      BY <1>4, LenProperties
    <2> HIDE DEF q, n, l
    <2>2. Len(q) <= n
      BY <1>1, <1>3, <1>4, SMTT(30)
    <2>3. QED
      BY <2>1, <2>2
  <1>7. over \/ (m.since \in Nat /\ lag <= m.since /\ m.since < lag + w /\ CountIs(m))
    BY <1>1, <1>2, SMTT(30) DEF WindowOver, RowCount, None
  <1>8. /\ f <= Len(q) \/ Len(q) = n
        /\ \A k \in DOMAIN q : k + f > Len(q) => q[k] <= t
        /\ t \in Nat /\ lag <= t /\ t < lag + w /\ f \in Nat
    <2>1. CASE over
      <3>1. f = 1 /\ t = lag
        BY <2>1
      <3> HIDE DEF q, n, l, f, t, over, w, s
      <3>2. Len(q) >= 1 /\ q[Len(q)] = lag /\ Len(q) \in Nat
        <4>1. l \in Nat /\ n \in Nat \ {0}
          BY <1>1, <1>3
        <4>2. CASE /\ l < n /\ Len(q) = l + 1
                   /\ \A k \in 1 .. l + 1 : q[k] = IF k = l + 1 THEN lag ELSE s[k]
          <5>1. l + 1 \in 1 .. l + 1 /\ l + 1 >= 1
            BY <4>1
          <5>2. q[l + 1] = lag
            BY <4>2, <5>1
          <5>3. QED
            BY <4>1, <4>2, <5>1, <5>2
        <4>3. CASE /\ l = n /\ Len(q) = n
                   /\ \A k \in 1 .. n : q[k] = IF k = n THEN lag ELSE s[k + 1]
          <5>1. n \in 1 .. n /\ n >= 1
            BY <4>1
          <5>2. q[n] = lag
            BY <4>3, <5>1
          <5>3. QED
            BY <4>1, <4>3, <5>1, <5>2
        <4>4. QED
          BY <1>4, <4>2, <4>3
      <3>3. \A k \in 1 .. Len(q) : k + 1 > Len(q) => k = Len(q)
        BY <3>2
      <3>4. lag < lag + w
        BY <1>1
      <3>5. \A k \in DOMAIN q : k + f > Len(q) => q[k] <= t
        <4>1. ASSUME NEW k \in DOMAIN q, k + f > Len(q) PROVE q[k] <= t
          <5>1. k = Len(q)
            BY <1>6, <3>1, <3>3, <4>1
          <5>2. q[k] = t /\ t \in Nat
            BY <3>1, <3>2, <5>1
          <5>3. QED
            BY <5>2
        <4>2. QED
          BY <4>1
      <3>6. QED
        BY <3>1, <3>2, <3>4, <3>5
    <2>2. CASE ~over
      <3> DEFINE c == m.failures
                 since == m.since
      <3>1. f = c + 1 /\ t = since /\ since \in Nat /\ lag <= since /\ since < lag + w /\ c \in Nat
        BY <1>2, <1>7, <2>2
      <3>2. /\ c <= l \/ l = n
            /\ \A k \in 1 .. l : k + c > l => s[k] <= since
        BY <1>3, <1>7, <2>2 DEF CountIs
      <3> HIDE DEF q, n, l, f, t, over, w, s, c, since
      <3>3. \A k \in 1 .. Len(q) : k + f > Len(q) => q[k] <= since
        <4>1. CASE l < n /\ Len(q) = l + 1
          <5> SUFFICES ASSUME NEW k \in 1 .. Len(q), k + f > Len(q) PROVE q[k] <= since
            OBVIOUS
          <5>1. k \in 1 .. l + 1 /\ k + c + 1 > l + 1
            BY <3>1, <4>1
          <5>2. q[k] <= since
            <6>1. CASE k = l + 1
              BY <1>3, <1>4, <3>1, <4>1, <6>1
            <6>2. CASE k # l + 1
              <7>1. k \in 1 .. l /\ k + c > l
                BY <1>3, <3>1, <5>1, <6>2
              <7>2. q[k] = s[k]
                BY <1>3, <1>4, <4>1, <6>2, <7>1, SMTT(30)
              <7>3. QED
                BY <3>2, <7>1, <7>2
            <6>3. QED
              BY <6>1, <6>2
          <5>3. QED
            BY <5>2
        <4>2. CASE l = n /\ Len(q) = n
          <5> SUFFICES ASSUME NEW k \in 1 .. Len(q), k + f > Len(q) PROVE q[k] <= since
            OBVIOUS
          <5>1. k \in 1 .. n /\ k + c + 1 > n
            BY <3>1, <4>2, SMTT(30)
          <5>2. q[k] <= since
            <6>1. CASE k = n
              BY <1>1, <1>3, <1>4, <3>1, <4>2, <6>1
            <6>2. CASE k # n
              <7>1. k + 1 \in 1 .. l /\ k + 1 + c > l
                BY <1>1, <1>3, <3>1, <4>2, <5>1, <6>2
              <7>2. q[k] = s[k + 1]
                BY <1>1, <1>3, <1>4, <4>2, <6>2, <7>1
              <7>3. QED
                BY <3>2, <7>1, <7>2
            <6>3. QED
              BY <6>1, <6>2
          <5>3. QED
            BY <5>2
        <4>3. QED
          BY <1>4, <4>1, <4>2
      <3>4. f <= Len(q) \/ Len(q) = n
        <4>1. l \in Nat /\ n \in Nat /\ f = c + 1 /\ c \in Nat /\ (c <= l \/ l = n)
          BY <1>1, <1>3, <3>1, <3>2
        <4>2. (l < n /\ Len(q) = l + 1) \/ (l = n /\ Len(q) = n)
          BY <1>4
        <4>3. QED
          BY <4>1, <4>2
      <3>5. QED
        BY <1>6, <3>1, <3>3, <3>4, SMTT(30)
    <2>3. QED
      BY <2>1, <2>2
  <1> HIDE DEF q, f, t, over, s, l, v
  <1>9. RowCount(v, lag, FALSE)
    BY <1>5, <1>6, <1>8 DEF RowCount, CountIs
  <1>10. ASSUME f >= n PROVE Len(q) = n /\ q[1] - lag < w
    <2> HIDE DEF n, w
    <2>1. Len(q) \in Nat /\ (f <= Len(q) \/ Len(q) = n) /\ f \in Nat /\ n \in Nat
      BY <1>1, <1>4, <1>8, LenProperties
    <2>2. Len(q) = n
      <3> DEFINE len == Len(q)
      <3>1. len <= n /\ f >= n /\ len \in Nat /\ (f <= len \/ len = n)
        BY <1>6, <1>10, <2>1 DEF n
      <3> HIDE DEF len
      <3>2. len = n
        BY <2>1, <3>1
      <3>3. QED
        BY <3>2 DEF len
    <2>3. 1 \in 1 .. Len(q) /\ 1 + f > Len(q)
      BY <1>1, <1>8, <1>10, <2>2
    <2>4. q[1] <= t
      BY <1>6, <1>8, <2>3
    <2>5. q[1] \in Nat
      BY <1>4, <1>6, <2>3, ElementOfSeq
    <2>6. QED
      BY <1>1, <1>8, <2>2, <2>4, <2>5, SMTT(30)
  <1>11. QED
    BY <1>5, <1>9, <1>10 DEF ByStreak, v, n, w

\* Growing older keeps the order of ages, up to where they stop.
LEMMA OlderOrder ==
  ASSUME NEW a \in Nat, NEW b \in Nat, a <= b, NEW last \in Nat
  PROVE  Older(a, last) \in Nat /\ Older(a, last) <= Older(b, last) /\ Older(a, last) <= a + 1
  BY DEF Older, None

\* A second later the count is still what it is, and who deserved it does.
LEMMA AgedCounts ==
  ASSUME SubscriptionsAssumption, NEW m \in Subscriber, NEW lag \in Nat, NEW later \in {lag, lag + 1},
         later <= MaxLag, NEW reached \in BOOLEAN, RowCount(m, lag, reached)
  PROVE  /\ RowCount(AgedSubscriber(m), later, reached)
         /\ ByStreak(m, lag) /\ later = lag + 1 => ByStreak(AgedSubscriber(m), later)
         /\ AgedSubscriber(m).status = m.status /\ AgedSubscriber(m).inHand = m.inHand
  <1> DEFINE last == QuarantineWindow + MaxLag
             s == m.streak
             l == Len(s)
             age == IF m.link = NoLink THEN 0 ELSE Older(m.age, ConfirmTtl + PendingKeep + 1)
             held == IF m.status = "quarantined" THEN Older(m.held, QuarantineKeep + 1) ELSE 0
             t == Older(m.since, last)
             q == [k \in DOMAIN s |-> Older(s[k], last)]
             v == AgedSubscriber(m)
  <1>1. last \in Nat /\ MaxLag \in Nat /\ MaxLag <= last /\ QuarantineFailures \in Nat \ {0}
    BY DEF SubscriptionsAssumption
  <1>2. s \in Seq(Nat) /\ m.since \in Nat \cup {None} /\ m.failures \in Nat /\ l <= QuarantineFailures
    BY DEF Subscriber, RowCount
  <1>3. l \in Nat /\ DOMAIN s = 1 .. l /\ \A k \in 1 .. l : s[k] \in Nat
    BY <1>2, LenProperties, ElementOfSeq
  <1>4. v.streak = q /\ v.since = t /\ v.failures = m.failures /\ v.status = m.status /\ v.inHand = m.inHand
    <2> DEFINE a == [m EXCEPT !.age = age, !.since = t]
    <2>1. v = [a EXCEPT !.streak = q, !.held = held]
      BY DEF AgedSubscriber
    <2> HIDE DEF age, t, q, held, v
    <2>2. /\ a.since = t /\ a.failures = m.failures /\ a.status = m.status /\ a.inHand = m.inHand
          /\ DOMAIN a = DOMAIN m /\ "streak" \in DOMAIN m
      BY DEF Subscriber
    <2> HIDE DEF a
    <2>3. QED
      BY <2>1, <2>2
  <1>5. DOMAIN q = 1 .. l /\ Len(q) = l /\ \A k \in 1 .. l : q[k] = Older(s[k], last)
    <2>1. ASSUME NEW k \in 1 .. l PROVE Older(s[k], last) \in Nat
      <3>1. s[k] \in Nat
        BY <1>3
      <3> HIDE DEF s, last
      <3>2. QED
        BY <1>1, <3>1, OlderIs, ZenonT(60)
    <2>2. q \in [1 .. l -> Nat]
      BY <1>3, <2>1
    <2>3. q \in Seq(Nat) /\ DOMAIN q = 1 .. l
      BY <1>3, <2>2
    <2>4. Len(q) = l
      BY <1>3, <2>3, LenProperties
    <2>5. QED
      BY <1>3, <2>3, <2>4
  <1> HIDE DEF v, q, l, s
  <1>6. RowCount(v, later, reached)
    <2>1. CASE m.since = None
      <3>1. t = None
        BY <2>1 DEF Older
      <3>2. QED
        BY <1>2, <1>4, <1>5, <3>1 DEF RowCount
    <2>2. CASE m.since # None
      <3>1. m.since \in Nat /\ lag <= m.since /\ (reached \/ CountIs(m))
        BY <1>2, <2>2 DEF RowCount
      <3>2. t \in Nat /\ t # None /\ later <= t
        <4>1. t = IF m.since < last THEN m.since + 1 ELSE last
          BY <2>2 DEF Older
        <4> DEFINE b == m.since
        <4>2. /\ b \in Nat /\ last \in Nat /\ lag \in Nat /\ MaxLag \in Nat
              /\ (later = lag \/ later = lag + 1) /\ later <= MaxLag /\ MaxLag <= last /\ lag <= b
          BY <1>1, <3>1
        <4> HIDE DEF t, b, last
        <4>3. t = IF b < last THEN b + 1 ELSE last
          BY <4>1 DEF b
        <4>4. t \in Nat /\ later <= t
          BY <4>2, <4>3, SMTT(30)
        <4>5. QED
          BY <4>4 DEF None
      <3>3. ASSUME CountIs(m) PROVE CountIs(v)
        <4>1. /\ m.failures <= l \/ l = QuarantineFailures
              /\ \A k \in 1 .. l : k + m.failures > l => s[k] <= m.since
          BY <1>3, <3>3 DEF CountIs, s, l
        <4>2. ASSUME NEW k \in 1 .. l, k + m.failures > l PROVE q[k] <= t
          <5>1. s[k] \in Nat /\ m.since \in Nat /\ s[k] <= m.since
            BY <1>3, <3>1, <4>1, <4>2
          <5> HIDE DEF last
          <5>2. Older(s[k], last) <= Older(m.since, last)
            BY <1>1, <5>1, OlderOrder
          <5>3. QED
            BY <1>5, <5>2
        <4> HIDE DEF t
        <4>3. QED
          BY <1>4, <1>5, <4>1, <4>2 DEF CountIs
      <3> HIDE DEF t
      <3>4. QED
        BY <1>2, <1>4, <1>5, <3>1, <3>2, <3>3 DEF RowCount
    <2>3. QED
      BY <2>1, <2>2
  <1>7. ASSUME ByStreak(m, lag), later = lag + 1 PROVE ByStreak(v, later)
    <2>0. l = QuarantineFailures /\ s[1] - lag < QuarantineWindow
      BY <1>7 DEF ByStreak, s, l
    <2>1. 1 \in 1 .. l
      BY <1>1, <1>3, <2>0
    <2>2. q[1] \in Nat /\ q[1] <= s[1] + 1 /\ s[1] \in Nat
      <3>1. s[1] \in Nat /\ s[1] <= s[1] /\ q[1] = Older(s[1], last)
        BY <1>3, <1>5, <2>1
      <3> HIDE DEF last
      <3>2. Older(s[1], last) \in Nat /\ Older(s[1], last) <= s[1] + 1
        BY <1>1, <3>1, OlderOrder
      <3>3. QED
        BY <3>1, <3>2
    <2>3. QuarantineWindow \in Nat
      BY DEF SubscriptionsAssumption
    <2>4. q[1] - later < QuarantineWindow
      BY <1>7, <2>0, <2>2, <2>3, SMTT(30)
    <2>5. QED
      BY <1>4, <1>5, <2>0, <2>4 DEF ByStreak
  <1>8. QED
    BY <1>4, <1>6, <1>7 DEF v

\* The clock of a round counts less at its end.
LEMMA EarlierCounts ==
  ASSUME NEW m \in Subscriber, NEW lag \in Nat, NEW before \in Nat, before <= lag,
         NEW reached \in BOOLEAN, NEW later \in BOOLEAN, reached => later, RowCount(m, lag, reached)
  PROVE  RowCount(m, before, later)
  <1>1. m.since \in Nat \cup {None}
    BY DEF Subscriber
  <1>2. QED
    BY <1>1 DEF RowCount

-----------------------------------------------------------------------------
(* Steps by what they do to the rows.                                      *)

\* QuarantineDeserved, of one step.
DeservedNow ==
  \A s \in DOMAIN subs :
    used.cuts = 0 /\ subs[s].status = "active" /\ subs'[s].status = "quarantined"
      => /\ Len(subs[s].streak) = QuarantineFailures
         /\ subs[s].streak[1] - disp.lag < QuarantineWindow

\* A row that starts anew.
Anew(m) == m.streak = <<>> /\ m.since = None /\ m.status # "quarantined"

\* A row whose count is left alone.
SameCount(m, n) ==
  /\ n.streak = m.streak /\ n.failures = m.failures /\ n.since = m.since
  /\ n.status = "quarantined" => m.status = "quarantined"

RowsMove ==
  /\ DOMAIN subs \subseteq DOMAIN subs'
  /\ \A s \in DOMAIN subs' : \/ Anew(subs'[s])
                             \/ s \in DOMAIN subs /\ SameCount(subs[s], subs'[s])

\* Messages are dropped or new, or stay what they are.
BoxQuiet ==
  \A i \in DOMAIN outbox' : \/ i \in DOMAIN outbox /\ outbox'[i] = outbox[i]
                            \/ outbox'[i].status = "gone" \/ outbox'[i].unheard = 0

\* Who starts anew has no link to confirm by, and who has none gets none from
\* outside the round.  A chat's row is not counted.
LinksMove ==
  \A s \in DOMAIN subs : \/ Unreached(s)' \/ subs'[s].addr \notin Forms
                         \/ ~Unreached(s) /\ SameCount(subs[s], subs'[s])

\* An address is only learnt, or goes.
AddressesStay ==
  \A s \in DOMAIN subs :
    \/ subs'[s].status = "gone"
    \/ Live(s) /\ (subs'[s].addr = subs[s].addr \/ subs[s].addr = Unlinked)

BatchKept == \A k \in DOMAIN disp'.batch : \E j \in DOMAIN disp.batch : disp'.batch[k] = disp.batch[j]

\* The rows that a round holds.
LEMMA BatchRows ==
  ASSUME IInv, NEW k \in DOMAIN disp.batch
  PROVE  /\ disp.batch[k].to \in DOMAIN subs /\ disp.batch[k].addr # Unlinked
         /\ subs[disp.batch[k].to].addr = Unlinked => subs[disp.batch[k].to].status = "gone"
  <1>1. EntryOK(disp.batch[k], k = 1 /\ disp.at = "clear")
    BY DEF IInv, BatchInv
  <1>2. QED
    BY <1>1 DEF EntryOK, IInv, TypeOK

\* The row at hand.
LEMMA FirstRow ==
  ASSUME IInv, disp.at # "idle"
  PROVE  /\ 1 \in DOMAIN disp.batch /\ Head1 = disp.batch[1] /\ Head1.to \in DOMAIN subs
         /\ subs[Head1.to] \in Subscriber /\ disp.lag \in Nat
  <1>1. 1 \in DOMAIN disp.batch /\ Head1 = disp.batch[1] /\ Head1.to \in DOMAIN subs
    BY HeadIs
  <1>2. QED
    BY <1>1, Tables DEF IInv, TypeOK, Dispatcher

LEMMA AddressesKept ==
  ASSUME IInv, AddressInv, AddressesStay, BatchKept,
         disp'.at \in {"count", "quarantine"} => disp'.batch[1].addr \in Forms
  PROVE  AddressInv'
  <1>1. ASSUME NEW k \in DOMAIN disp'.batch, subs'[disp'.batch[k].to].status # "gone"
        PROVE  subs'[disp'.batch[k].to].addr = disp'.batch[k].addr
    <2>1. PICK j \in DOMAIN disp.batch : disp'.batch[k] = disp.batch[j]
      BY DEF BatchKept
    <2> DEFINE s == disp.batch[j].to
    <2>2. s \in DOMAIN subs /\ disp.batch[j].addr # Unlinked
          /\ (subs[s].addr = Unlinked => subs[s].status = "gone")
      BY BatchRows
    <2>3. Live(s) /\ (subs'[s].addr = subs[s].addr \/ subs[s].addr = Unlinked)
      BY <1>1, <2>1, <2>2 DEF AddressesStay
    <2>4. subs[s].addr = disp.batch[j].addr
      BY <2>3 DEF AddressInv
    <2>5. QED
      BY <2>1, <2>2, <2>3, <2>4 DEF Live
  <1>2. QED
    BY <1>1 DEF AddressInv, Live

\* Visitors, publishers and the prune, beside a round or none.
LEMMA OutsideCounts ==
  ASSUME SubscriptionsAssumption, CInv, RowsMove, LinksMove, AddressesStay,
         UNCHANGED disp, used'.cuts = used.cuts
  PROVE  AddressInv' /\ CountInv' /\ DeservedNow
  <1>1. IInv /\ AddressInv /\ CountInv
    BY DEF CInv
  <1>2. AddressInv'
    <2>1. BatchKept
      BY DEF BatchKept
    <2>2. disp'.at \in {"count", "quarantine"} => disp'.batch[1].addr \in Forms
      BY <1>1 DEF AddressInv
    <2>3. QED
      BY <1>1, <2>1, <2>2, AddressesKept
  <1>3. CountInv'
    <2> SUFFICES ASSUME used'.cuts = 0
                 PROVE  /\ disp.lag <= MaxLag
                        /\ \A s \in DOMAIN subs' : RowCount(subs'[s], disp.lag, Reached(s))
                        /\ disp.at = "quarantine" =>
                             Unreached(disp.batch[1].to)' \/ ByStreak(subs'[disp.batch[1].to], disp.lag)
      BY DEF CountInv, Reached, Deserves
    <2>1. /\ disp.lag <= MaxLag
          /\ \A s \in DOMAIN subs : RowCount(subs[s], disp.lag, Reached(s))
          /\ disp.at = "quarantine" => Deserves(disp.batch[1].to)
      BY <1>1 DEF CountInv
    <2>2. ASSUME NEW s \in DOMAIN subs' PROVE RowCount(subs'[s], disp.lag, Reached(s))
      <3>1. CASE Anew(subs'[s])
        <4>1. Len(subs'[s].streak) = 0 /\ QuarantineFailures \in Nat
          BY <3>1, EmptySeq DEF Anew, SubscriptionsAssumption
        <4>2. QED
          BY <3>1, <4>1 DEF Anew, RowCount
      <3>2. CASE s \in DOMAIN subs /\ SameCount(subs[s], subs'[s])
        BY <2>1, <3>2 DEF SameCount, RowCount, CountIs
      <3>3. QED
        BY <3>1, <3>2 DEF RowsMove
    <2>3. ASSUME disp.at = "quarantine"
          PROVE  Unreached(disp.batch[1].to)' \/ ByStreak(subs'[disp.batch[1].to], disp.lag)
      <3> DEFINE s == disp.batch[1].to
      <3>1. s \in DOMAIN subs /\ 1 \in DOMAIN disp.batch
        BY <1>1, <2>3, FirstRow
      <3>2. CASE subs'[s].addr \notin Forms
        <4>1. subs'[s].status = "gone"
          BY <1>2, <2>3, <3>1, <3>2 DEF AddressInv, Live
        <4>2. QED
          BY <4>1 DEF Unreached
      <3>3. CASE ~Unreached(s) /\ SameCount(subs[s], subs'[s])
        BY <2>1, <2>3, <3>3 DEF SameCount, Deserves, ByStreak
      <3>4. QED
        BY <3>1, <3>2, <3>3 DEF LinksMove
    <2>4. QED
      BY <2>1, <2>2, <2>3
  <1>4. DeservedNow
    BY DEF RowsMove, Anew, SameCount, DeservedNow
  <1>5. QED
    BY <1>2, <1>3, <1>4

\* What the messages leave of who cannot be reached.
LEMMA QuietUnreached ==
  ASSUME BoxQuiet, NEW s, Unreached(s), subs'[s] = subs[s] \/ subs'[s].status = "gone"
  PROVE  Unreached(s)'
  <1>1. Untold(s) => Untold(s)'
    BY DEF BoxQuiet, Untold
  <1>2. QED
    BY <1>1 DEF Unreached

LEMMA SameBoxQuiet ==
  ASSUME UNCHANGED outbox
  PROVE  BoxQuiet
  BY DEF BoxQuiet

LEMMA EnqueueQuiet ==
  ASSUME TypeOK, NEW box, Dropped(box), NEW S, Ids(S), NEW e \in Events \cup {Confirm},
         outbox' = Enqueue(S, e, box)
  PROVE  /\ BoxQuiet
         /\ \A i \in DOMAIN outbox' : \/ i \in DOMAIN outbox /\ outbox'[i] = box[i]
                                      \/ outbox'[i].unheard = 0
  <1>1. box \in Seq(Message) /\ Len(box) = Len(outbox)
        /\ \A i \in DOMAIN outbox : box[i] = outbox[i] \/ box[i] = Deleted(i)
    BY DEF Dropped
  <1>2. /\ outbox' \in Seq(Message)
        /\ \A i \in 1 .. Len(box) : outbox'[i] = box[i]
        /\ \A i \in 1 .. Len(outbox') : i \in 1 .. Len(box) \/ \E s \in S : outbox'[i] = NewMessage(s, e)
    <2> DEFINE q == Enqueue(S, e, box)
    <2>1. q \in Seq(Message)
      BY <1>1, EnqueueIs
    <2>2. \A i \in 1 .. Len(box) : q[i] = box[i]
      BY <1>1, EnqueueIs
    <2>3. \A i \in 1 .. Len(q) : i \in 1 .. Len(box) \/ \E s \in S : q[i] = NewMessage(s, e)
      BY <1>1, EnqueueIs
    <2>4. outbox' = q
      OBVIOUS
    <2> HIDE DEF q
    <2>5. QED
      BY <2>1, <2>2, <2>3, <2>4
  <1>3. DOMAIN outbox = 1 .. Len(box) /\ DOMAIN outbox' = 1 .. Len(outbox')
    BY <1>1, <1>2, Tables, LenProperties
  <1>4. \A s : NewMessage(s, e).unheard = 0
    BY DEF NewMessage
  <1>5. \A i \in DOMAIN outbox : Deleted(i).status = "gone"
    BY DeletedType
  <1>6. QED
    BY <1>1, <1>2, <1>3, <1>4, <1>5 DEF BoxQuiet

\* One row comes, or is rewritten, or rows are deleted, or none.
LEMMA NewRowLinks ==
  ASSUME IInv, NEW v, subs' = Append(subs, v), BoxQuiet
  PROVE  LinksMove
  <1>1. subs \in Seq(Subscriber) /\ DOMAIN subs = 1 .. Len(subs)
    BY Tables DEF IInv, TypeOK
  <1>2. \A s \in DOMAIN subs : subs'[s] = subs[s]
    BY <1>1
  <1>3. QED
    BY <1>2, QuietUnreached DEF LinksMove, SameCount

LEMMA OneRowLinks ==
  ASSUME NEW s \in DOMAIN subs, NEW v, subs' = [subs EXCEPT ![s] = v], BoxQuiet,
         \/ Unreached(s)' \/ v.addr \notin Forms
         \/ ~Unreached(s) /\ SameCount(subs[s], v)
  PROVE  LinksMove
  <1>1. \A t \in DOMAIN subs : subs'[t] = IF t = s THEN v ELSE subs[t]
    OBVIOUS
  <1>2. ASSUME NEW t \in DOMAIN subs, t # s
        PROVE  Unreached(t)' \/ (~Unreached(t) /\ SameCount(subs[t], subs'[t]))
    BY <1>1, <1>2, QuietUnreached DEF SameCount
  <1>3. QED
    BY <1>1, <1>2 DEF LinksMove

LEMMA SameRowsLinks ==
  ASSUME UNCHANGED subs, BoxQuiet
  PROVE  LinksMove
  BY QuietUnreached DEF LinksMove, SameCount

LEMMA DeletedRowsLinks ==
  ASSUME TypeOK, NEW S, Delete(S)
  PROVE  LinksMove
  <1>1. \A s \in DOMAIN subs : subs'[s] = IF s \in S THEN Gone ELSE subs[s]
    BY DEF Delete
  <1>2. BoxQuiet
    <2> DEFINE D == UNION {To(s) : s \in S}
    <2>1. outbox' = Drop(D)
      BY DEF Delete
    <2> HIDE DEF D
    <2>2. DOMAIN Drop(D) = DOMAIN outbox
          /\ \A i \in DOMAIN outbox : Drop(D)[i] = IF i \in D THEN Deleted(i) ELSE outbox[i]
      BY DropIs
    <2>3. \A i \in DOMAIN outbox : Deleted(i).status = "gone"
      BY DeletedType
    <2>4. QED
      BY <2>1, <2>2, <2>3 DEF BoxQuiet
  <1>3. Gone.status = "gone"
    BY DEF Gone, NewSubscriber
  <1>4. ASSUME NEW s \in DOMAIN subs
        PROVE  Unreached(s)' \/ (~Unreached(s) /\ SameCount(subs[s], subs'[s]))
    <2>1. CASE s \in S
      BY <1>1, <1>3, <2>1 DEF Unreached
    <2>2. CASE s \notin S
      BY <1>1, <1>2, <2>2, QuietUnreached DEF SameCount
    <2>3. QED
      BY <2>1, <2>2
  <1>5. QED
    BY <1>4 DEF LinksMove

LEMMA NewRowCounts ==
  ASSUME IInv, NEW v, subs' = Append(subs, v), Anew(v)
  PROVE  RowsMove /\ AddressesStay
  <1>1. subs \in Seq(Subscriber) /\ Len(subs) \in Nat /\ DOMAIN subs = 1 .. Len(subs)
    BY Tables DEF IInv, TypeOK
  <1>2. /\ DOMAIN subs' = 1 .. Len(subs) + 1
        /\ \A s \in 1 .. Len(subs) : subs'[s] = subs[s]
        /\ subs'[Len(subs) + 1] = v
    BY <1>1
  <1>3. RowsMove
    <2>1. ASSUME NEW s \in DOMAIN subs' PROVE s \in DOMAIN subs \/ s = Len(subs) + 1
      BY <1>1, <1>2
    <2>2. DOMAIN subs \subseteq DOMAIN subs'
      BY <1>1, <1>2
    <2>3. QED
      BY <1>1, <1>2, <2>1, <2>2 DEF RowsMove, SameCount
  <1>4. AddressesStay
    BY <1>1, <1>2 DEF AddressesStay, Live
  <1>5. QED
    BY <1>3, <1>4

LEMMA OneRowCounts ==
  ASSUME NEW s \in DOMAIN subs, NEW v, subs' = [subs EXCEPT ![s] = v],
         Anew(v) \/ SameCount(subs[s], v),
         v.status = "gone" \/ (Live(s) /\ (v.addr = subs[s].addr \/ subs[s].addr = Unlinked))
  PROVE  RowsMove /\ AddressesStay
  <1>1. DOMAIN subs' = DOMAIN subs /\ \A t \in DOMAIN subs : subs'[t] = IF t = s THEN v ELSE subs[t]
    OBVIOUS
  <1>2. RowsMove
    BY <1>1 DEF RowsMove, SameCount
  <1>3. AddressesStay
    BY <1>1 DEF AddressesStay, Live
  <1>4. QED
    BY <1>2, <1>3

LEMMA SameRowsCount ==
  ASSUME UNCHANGED subs
  PROVE  RowsMove /\ AddressesStay
  BY DEF RowsMove, SameCount, AddressesStay, Live

LEMMA GoneIs ==
  Gone.status = "gone" /\ Gone.streak = <<>> /\ Gone.since = None /\ Anew(Gone)
  BY DEF Gone, NewSubscriber, Anew

LEMMA DeletedRowsCount ==
  ASSUME NEW S, Delete(S)
  PROVE  RowsMove /\ AddressesStay
  <1>1. DOMAIN subs' = DOMAIN subs /\ \A s \in DOMAIN subs : subs'[s] = IF s \in S THEN Gone ELSE subs[s]
    BY DEF Delete
  <1>2. RowsMove
    BY <1>1, GoneIs DEF RowsMove, SameCount
  <1>3. AddressesStay
    BY <1>1, GoneIs DEF AddressesStay, Live
  <1>4. QED
    BY <1>2, <1>3

\* A sign-up that was not confirmed yet, with its link not in anybody's hand.
LEMMA NewSubscriberIs ==
  ASSUME NEW addr, NEW wants, NEW link
  PROVE  LET n == NewSubscriber(addr, wants, link)
         IN Anew(n) /\ n.status = "pending" /\ n.addr = addr
  BY DEF NewSubscriber, Anew

-----------------------------------------------------------------------------
(* What visitors, publishers and the prune do.                             *)

LEMMA SignUpCounts ==
  ASSUME SubscriptionsAssumption, CInv, NEW addr \in Forms, NEW wants \in Choices, SignUp(addr, wants)
  PROVE  AddressInv' /\ CountInv' /\ DeservedNow
  <1>1. IInv /\ TypeOK
    BY DEF CInv, IInv
  <1>2. used'.cuts = used.cuts /\ used'.lost = used.lost /\ UNCHANGED disp
    BY <1>1, SpendIs DEF SignUp
  <1> DEFINE v == NewSubscriber(addr, wants, used.signups + 1)
  <1>3. Anew(v) /\ v.addr = addr
    BY NewSubscriberIs
  <1>4. CASE SignUpNew(addr, wants)
    <2>1. subs' = Append(subs, v) /\ outbox' = Enqueue({Len(subs')}, Confirm, outbox)
      BY <1>4 DEF SignUpNew
    <2> HIDE DEF v
    <2>2. RowsMove /\ AddressesStay
      BY <1>1, <1>3, <2>1, NewRowCounts
    <2>3. Ids({Len(subs')}) /\ Dropped(outbox)
      <3>1. subs \in Seq(Subscriber) /\ Len(subs) \in Nat /\ Len(subs') = Len(subs) + 1
        BY <1>1, <2>1, Tables DEF TypeOK
      <3>2. Len(subs') \in 1 .. Len(subs')
        BY <3>1
      <3>3. QED
        BY <1>1, <3>1, <3>2 DEF TypeOK, Dropped, Ids
    <2>4. BoxQuiet
      BY <1>1, <2>1, <2>3, EnqueueQuiet
    <2>5. LinksMove
      BY <1>1, <2>1, <2>4, NewRowLinks
    <2>6. QED
      BY <1>2, <2>2, <2>5, OutsideCounts
  <1>5. ASSUME NEW s \in Have(addr), SignUpAgain(s, wants) PROVE AddressInv' /\ CountInv' /\ DeservedNow
    <2>1. s \in DOMAIN subs /\ Live(s) /\ subs[s].addr = addr
      BY HaveIs
    <2> DEFINE stale == IF subs[s].status = "quarantined" THEN Held(s) ELSE {}
               D == stale \cup OldConfirms(s)
               box == Drop(D)
    <2>2. subs' = [subs EXCEPT ![s] = v] /\ outbox' = Enqueue({s}, Confirm, box)
      BY <1>5, <2>1 DEF SignUpAgain, Renewed
    <2>3. OldConfirms(s) \subseteq D
      OBVIOUS
    <2> HIDE DEF D
    <2>4. /\ box \in Seq(Message) /\ Len(box) = Len(outbox)
          /\ \A i \in DOMAIN outbox : box[i] = IF i \in D THEN Deleted(i) ELSE outbox[i]
      BY <1>1, DropIs
    <2> HIDE DEF box
    <2>5. Dropped(box) /\ Ids({s})
      <3>1. s \in 1 .. Len(subs) /\ Len(subs) \in Nat
        BY <1>1, <2>1, Tables
      <3>2. QED
        BY <2>4, <3>1 DEF Dropped, Ids
    <2>6. /\ BoxQuiet
          /\ \A i \in DOMAIN outbox' : \/ i \in DOMAIN outbox /\ outbox'[i] = box[i]
                                       \/ outbox'[i].unheard = 0
      BY <1>1, <2>2, <2>5, EnqueueQuiet
    <2>7. Untold(s)'
      <3>1. ASSUME NEW i \in DOMAIN outbox, box[i].to = s, box[i].event = Confirm,
                   box[i].status \notin {"sent", "gone"}
            PROVE  FALSE
        <4>1. box[i] = outbox[i] /\ i \notin D
          BY <1>1, <2>4, <3>1, DeletedType
        <4>2. i \in OldConfirms(s)
          BY <3>1, <4>1 DEF OldConfirms, To
        <4>3. QED
          BY <2>3, <4>1, <4>2
      <3>2. QED
        BY <2>6, <3>1 DEF Untold
    <2>8. Unreached(s)'
      <3>1. subs'[s] = v /\ v.status = "pending" /\ ~v.inHand
        BY <2>1, <2>2 DEF v, NewSubscriber
      <3>2. QED
        BY <2>7, <3>1 DEF Unreached
    <2> HIDE DEF v
    <2>9. RowsMove /\ AddressesStay
      BY <1>3, <2>1, <2>2, OneRowCounts
    <2>10. LinksMove
      BY <2>1, <2>2, <2>6, <2>8, OneRowLinks
    <2>11. QED
      BY <1>2, <2>9, <2>10, OutsideCounts
  <1>6. QED
    BY <1>4, <1>5 DEF SignUp

LEMMA SignUpByLinkCounts ==
  ASSUME SubscriptionsAssumption, CInv, NEW wants \in Choices, SignUpByLink(wants)
  PROVE  AddressInv' /\ CountInv' /\ DeservedNow
  <1>1. IInv /\ TypeOK
    BY DEF CInv, IInv
  <1>2. used'.cuts = used.cuts /\ used'.lost = used.lost /\ UNCHANGED disp
    BY <1>1, SpendIs DEF SignUpByLink
  <1> DEFINE v == [NewSubscriber(Unlinked, wants, used.signups + 1) EXCEPT !.inHand = TRUE]
  <1>3. Anew(v)
    BY DEF Anew, NewSubscriber, SubscriptionsAssumption
  <1>4. subs' = Append(subs, v)
    BY DEF SignUpByLink
  <1> HIDE DEF v
  <1>5. RowsMove /\ AddressesStay
    BY <1>1, <1>3, <1>4, NewRowCounts
  <1>6. LinksMove
    BY <1>1, <1>4, SameBoxQuiet, NewRowLinks DEF SignUpByLink
  <1>7. QED
    BY <1>2, <1>5, <1>6, OutsideCounts

\* A link that was followed leaves the count as it is.
LEMMA ActivatedCounts ==
  ASSUME NEW m \in Subscriber, m.status = "pending", m.inHand
  PROVE  SameCount(m, Activated(m)) /\ Activated(m).addr = m.addr
  BY DEF SameCount, Activated, Subscriber

LEMMA ConfirmSubmitCounts ==
  ASSUME SubscriptionsAssumption, CInv, NEW s \in DOMAIN subs, ConfirmSubmit(s)
  PROVE  AddressInv' /\ CountInv' /\ DeservedNow
  <1> DEFINE v == Activated(subs[s])
  <1>1. subs[s] \in Subscriber
    BY Tables DEF CInv, IInv
  <1>2. Live(s) /\ subs[s].status = "pending" /\ subs[s].inHand /\ subs' = [subs EXCEPT ![s] = v]
        /\ UNCHANGED <<outbox, disp, used>>
    BY DEF ConfirmSubmit, Works, Live
  <1>3. SameCount(subs[s], v) /\ v.addr = subs[s].addr
    BY <1>1, <1>2, ActivatedCounts
  <1> HIDE DEF v
  <1>4. RowsMove /\ AddressesStay
    BY <1>2, <1>3, OneRowCounts
  <1>5. LinksMove
    <2>1. ~Unreached(s) /\ BoxQuiet
      BY <1>2, SameBoxQuiet DEF Unreached
    <2>2. QED
      BY <1>2, <1>3, <2>1, OneRowLinks
  <1>6. QED
    BY <1>2, <1>4, <1>5, OutsideCounts

LEMMA LinkChatCounts ==
  ASSUME SubscriptionsAssumption, CInv, NEW s \in DOMAIN subs, NEW chat \in Chats, LinkChat(s, chat)
  PROVE  AddressInv' /\ CountInv' /\ DeservedNow
  <1>1. /\ subs[s] \in Subscriber /\ Live(s) /\ subs[s].addr = Unlinked /\ chat \notin Forms
        /\ subs[s].status = "pending" /\ subs[s].inHand /\ UNCHANGED <<outbox, disp, used>>
    BY Tables DEF CInv, IInv, LinkChat, Works, Live, SubscriptionsAssumption
  <1>2. CASE Have(chat) = {}
    <2> DEFINE a == Activated(subs[s])
               v == [a EXCEPT !.addr = chat]
    <2>1. a \in Subscriber /\ SameCount(subs[s], a)
      BY <1>1, ActivatedIs, ActivatedCounts
    <2>2. subs' = [subs EXCEPT ![s] = v]
      BY <1>2 DEF LinkChat
    <2> HIDE DEF a
    <2>3. SameCount(subs[s], v)
      BY <2>1 DEF SameCount, Subscriber
    <2> HIDE DEF v
    <2>4. RowsMove /\ AddressesStay
      BY <1>1, <2>2, <2>3, OneRowCounts
    <2>5. LinksMove
      <3>1. ~Unreached(s) /\ BoxQuiet
        BY <1>1, SameBoxQuiet DEF Unreached
      <3>2. QED
        BY <2>2, <2>3, <3>1, OneRowLinks
    <2>6. QED
      BY <1>1, <2>4, <2>5, OutsideCounts
  <1>3. CASE Have(chat) # {}
    <2> DEFINE t == CHOOSE t \in Have(chat) : TRUE
               wants == subs[s].wants
               a == [subs[t] EXCEPT !.status = "active", !.wants = wants, !.failures = 0]
               v == [a EXCEPT !.since = None, !.held = 0, !.streak = <<>>]
    <2>1. t \in Have(chat)
      BY <1>3
    <2>2. subs' = [subs EXCEPT ![s] = Gone, ![t] = [@ EXCEPT !.status = "active", !.wants = subs[s].wants,
                                                   !.failures = 0, !.since = None, !.held = 0,
                                                   !.streak = <<>>]]
      BY <1>3 DEF LinkChat
    <2> HIDE DEF t
    <2>3. t \in DOMAIN subs /\ Live(t) /\ subs[t].addr = chat /\ t # s
      BY <1>1, <2>1, HaveIs
    <2>4. subs[t] \in Subscriber
      BY <2>3, Tables DEF CInv, IInv
    <2>5. /\ DOMAIN subs' = DOMAIN subs
          /\ \A r \in DOMAIN subs : subs'[r] = IF r = t THEN v ELSE IF r = s THEN Gone ELSE subs[r]
      BY <2>2, <2>3
    <2> HIDE DEF wants
    <2>6. a.status = "active" /\ a.addr = chat /\ DOMAIN a = DOMAIN subs[t]
      BY <2>3, <2>4 DEF Subscriber
    <2>7. {"since", "held", "streak"} \subseteq DOMAIN a
      BY <2>4, <2>6 DEF Subscriber
    <2> HIDE DEF a
    <2>8. v.status = "active" /\ v.addr = chat /\ v.streak = <<>> /\ v.since = None
      BY <2>6, <2>7
    <2> HIDE DEF v
    <2>9. Anew(v)
      BY <1>1, <2>8 DEF Anew
    <2>10. RowsMove
      BY <2>5, <2>9, GoneIs DEF RowsMove, SameCount
    <2>11. AddressesStay
      BY <2>3, <2>5, <2>8, GoneIs DEF AddressesStay, Live
    <2>12. LinksMove
      <3>1. BoxQuiet
        BY <1>1, SameBoxQuiet
      <3>2. ASSUME NEW r \in DOMAIN subs
            PROVE  \/ Unreached(r)' \/ subs'[r].addr \notin Forms
                   \/ ~Unreached(r) /\ SameCount(subs[r], subs'[r])
        <4>1. CASE r = t
          BY <1>1, <2>5, <2>8, <4>1
        <4>2. CASE r = s /\ r # t
          BY <2>5, <4>2, GoneIs DEF Unreached
        <4>3. CASE r # s /\ r # t
          BY <2>5, <3>1, <4>3, QuietUnreached DEF SameCount
        <4>4. QED
          BY <4>1, <4>2, <4>3
      <3>3. QED
        BY <3>2 DEF LinksMove
    <2>13. QED
      BY <1>1, <2>10, <2>11, <2>12, OutsideCounts
  <1>4. QED
    BY <1>2, <1>3

\* Unsubscribe and the prune.
LEMMA DeleteCounts ==
  ASSUME SubscriptionsAssumption, CInv, NEW S, Delete(S), UNCHANGED <<disp, used>>
  PROVE  AddressInv' /\ CountInv' /\ DeservedNow
  <1>1. RowsMove /\ AddressesStay
    BY DeletedRowsCount
  <1>2. LinksMove
    BY DeletedRowsLinks DEF CInv, IInv
  <1>3. QED
    BY <1>1, <1>2, OutsideCounts

LEMMA FanOutCounts ==
  ASSUME SubscriptionsAssumption, CInv, NEW e \in Events, FanOut(e)
  PROVE  AddressInv' /\ CountInv' /\ DeservedNow
  <1>1. RowsMove /\ AddressesStay /\ UNCHANGED disp
    BY SameRowsCount DEF FanOut
  <1>2. used'.cuts = used.cuts /\ used'.lost = used.lost
    BY SpendIs DEF FanOut, CInv, IInv
  <1>3. LinksMove
    <2>1. TypeOK
      BY DEF CInv, IInv
    <2>2. Ids(Audience(e)) /\ Dropped(outbox)
      <3>1. Audience(e) \subseteq 1 .. Len(subs) /\ Len(subs) \in Nat
        BY <2>1, Tables DEF Audience
      <3>2. QED
        BY <2>1, <3>1 DEF TypeOK, Dropped, Ids
    <2>3. outbox' = Enqueue(Audience(e), e, outbox) /\ UNCHANGED subs
      BY DEF FanOut
    <2>4. BoxQuiet
      BY <2>1, <2>2, <2>3, EnqueueQuiet
    <2>5. QED
      BY <2>3, <2>4, SameRowsLinks
  <1>4. QED
    BY <1>1, <1>2, <1>3, OutsideCounts

\* An answer that was lost brings no link to who is unreached.
LEMMA ArrivesLateCounts ==
  ASSUME SubscriptionsAssumption, CInv, NEW i \in DOMAIN outbox, ArrivesLate(i)
  PROVE  AddressInv' /\ CountInv' /\ DeservedNow
  <1> DEFINE s == outbox[i].to
             v == [subs[s] EXCEPT !.inHand = TRUE]
             told == outbox[i].event = Confirm /\ outbox[i].status # "sent"
  <1>1. /\ IInv /\ s \in DOMAIN subs /\ subs[s] \in Subscriber
        /\ outbox[i].status # "gone" /\ outbox[i].unheard > 0
        /\ UNCHANGED disp /\ used'.cuts = used.cuts
    BY LateIs, Tables DEF CInv, IInv, TypeOK
  <1>2. UNCHANGED subs \/ (told /\ subs' = [subs EXCEPT ![s] = v])
    BY DEF ArrivesLate
  <1>3. SameCount(subs[s], v) /\ v.addr = subs[s].addr /\ v.status = subs[s].status
    <2> HIDE DEF s
    <2>1. QED
      BY <1>1 DEF SameCount, Subscriber
  <1> HIDE DEF v
  <1>4. \A t \in DOMAIN subs : \/ subs'[t] = subs[t]
                               \/ told /\ t = s /\ subs'[t] = v
    <2>1. CASE UNCHANGED subs
      BY <2>1
    <2>2. CASE told /\ subs' = [subs EXCEPT ![s] = v]
      <3> HIDE DEF s
      <3>1. \A t \in DOMAIN subs : subs'[t] = IF t = s THEN v ELSE subs[t]
        BY <2>2
      <3>2. QED
        BY <2>2, <3>1
    <2>3. QED
      BY <1>2, <2>1, <2>2
  <1>5. RowsMove
    <2>1. DOMAIN subs' = DOMAIN subs
      BY <1>2
    <2>2. QED
      BY <1>3, <1>4, <2>1 DEF RowsMove, SameCount
  <1>6. AddressesStay
    <2>1. \A t \in DOMAIN subs : subs'[t].status = subs[t].status /\ subs'[t].addr = subs[t].addr
      BY <1>3, <1>4
    <2>2. QED
      BY <2>1 DEF AddressesStay, Live
  <1>7. ASSUME NEW t \in DOMAIN subs, Unreached(t) PROVE Unreached(t)'
    <2>1. CASE subs[t].status = "gone"
      <3>1. subs'[t].status = "gone"
        BY <1>3, <1>4, <2>1
      <3>2. QED
        BY <3>1 DEF Unreached
    <2>2. CASE subs[t].status = "pending" /\ ~subs[t].inHand /\ Untold(t)
      <3>1. ~(told /\ t = s)
        BY <1>1, <2>2 DEF Untold
      <3>2. subs'[t] = subs[t]
        BY <1>4, <3>1
      <3>3. ASSUME NEW j \in DOMAIN outbox', outbox'[j].to = t, outbox'[j].event = Confirm,
                   outbox'[j].status \notin {"sent", "gone"}
            PROVE  outbox'[j].unheard = 0
        <4>1. /\ DOMAIN outbox' = DOMAIN outbox /\ \A k \in DOMAIN outbox : k # i => outbox'[k] = outbox[k]
              /\ outbox'[i].to = s /\ outbox'[i].event = outbox[i].event
              /\ outbox'[i].status = outbox[i].status
          BY <1>1, LateIs
        <4>2. j # i
          BY <3>1, <3>3, <4>1
        <4>3. j \in DOMAIN outbox /\ outbox'[j] = outbox[j]
          BY <4>1, <4>2
        <4>4. QED
          BY <2>2, <3>3, <4>3 DEF Untold
      <3>4. Untold(t)'
        BY <3>3 DEF Untold
      <3>5. QED
        BY <2>2, <3>2, <3>4 DEF Unreached
    <2>3. QED
      BY <1>7, <2>1, <2>2 DEF Unreached
  <1>8. LinksMove
    <2>1. \A t \in DOMAIN subs : SameCount(subs[t], subs'[t])
      BY <1>3, <1>4 DEF SameCount
    <2>2. QED
      BY <1>7, <2>1 DEF LinksMove
  <1>9. QED
    BY <1>1, <1>5, <1>6, <1>8, OutsideCounts

-----------------------------------------------------------------------------
(* What a round does.                                                      *)

LEMMA MoveDeserves ==
  ASSUME RowsMove
  PROVE  DeservedNow
  BY DEF RowsMove, Anew, SameCount, DeservedNow

\* What CountInv says of a round that was not cut short.
LEMMA UncutIs ==
  ASSUME CInv, used.cuts = 0
  PROVE  /\ disp.lag <= MaxLag
         /\ \A s \in DOMAIN subs : RowCount(subs[s], disp.lag, Reached(s))
         /\ disp.at = "quarantine" => Deserves(Head1.to)
  <1>1. /\ disp.lag <= MaxLag
        /\ \A s \in DOMAIN subs : RowCount(subs[s], disp.lag, Reached(s))
        /\ disp.at = "quarantine" => Deserves(disp.batch[1].to)
    BY DEF CInv, CountInv
  <1>2. disp.at = "quarantine" => Head1 = disp.batch[1]
    BY FirstRow DEF CInv
  <1>3. QED
    BY <1>1, <1>2

\* Where a round goes on to within one of its rows.
LEMMA SameBatch ==
  ASSUME CInv, disp.at # "idle", AddressesStay, disp'.batch = disp.batch,
         disp'.at \in {"count", "quarantine"} => Head1.addr \in Forms
  PROVE  AddressInv'
  <1>1. IInv /\ AddressInv /\ Head1 = disp.batch[1]
    BY FirstRow DEF CInv
  <1>2. BatchKept
    BY DEF BatchKept
  <1>3. QED
    BY <1>1, <1>2, AddressesKept

\* No count is short any more.
AllCleared ==
  used.cuts = 0 => \A s \in DOMAIN subs' : subs'[s] \in Subscriber /\ RowCount(subs'[s], disp.lag, FALSE)

LEMMA EndRowCounts ==
  ASSUME SubscriptionsAssumption, CInv, disp.at # "idle", Following, used'.cuts = used.cuts,
         AddressesStay, AllCleared
  PROVE  AddressInv' /\ CountInv'
  <1>1. IInv /\ AddressInv
    BY DEF CInv
  <1>2. /\ disp'.at \in {"idle", "next"} /\ DOMAIN disp'.batch = 1 .. (Len(disp.batch) - 1)
        /\ \A k \in DOMAIN disp'.batch : disp'.batch[k] = disp.batch[k + 1] /\ k + 1 \in DOMAIN disp.batch
    BY <1>1, FollowingIs
  <1>3. AddressInv'
    <2>1. BatchKept
      BY <1>2 DEF BatchKept
    <2>2. QED
      BY <1>1, <1>2, <2>1, AddressesKept
  <1>4. disp.lag \in Nat /\ disp'.lag \in {0, disp.lag}
    <2>1. disp.lag \in Nat /\ disp \in Dispatcher
      BY <1>1, FirstRow DEF IInv, TypeOK
    <2>2. QED
      BY <2>1 DEF Following, Idle, Dispatcher
  <1>5. ASSUME used.cuts = 0 PROVE CountInv'
    <2>1. disp.lag <= MaxLag /\ MaxLag \in Nat
      BY <1>5, UncutIs DEF SubscriptionsAssumption
    <2>2. disp'.lag <= MaxLag /\ disp'.lag \in Nat /\ disp'.lag <= disp.lag
      BY <1>4, <2>1, SMTT(30)
    <2>3. ASSUME NEW s \in DOMAIN subs' PROVE RowCount(subs'[s], disp'.lag, FALSE)
      <3>1. subs'[s] \in Subscriber /\ RowCount(subs'[s], disp.lag, FALSE)
        BY <1>5 DEF AllCleared
      <3>2. QED
        BY <1>4, <2>2, <3>1, EarlierCounts
    <2>4. \A s : Reached(s)' = FALSE
      BY <1>2 DEF Reached
    <2>5. QED
      BY <1>2, <2>2, <2>3, <2>4 DEF CountInv
  <1>6. CountInv'
    BY <1>5 DEF CountInv
  <1>7. QED
    BY <1>3, <1>6

\* GiveUp, SkipRow and RecordFailure.
LEMMA SameRowsEnd ==
  ASSUME SubscriptionsAssumption, CInv, disp.at \in {"next", "failed", "remove"}, Following, UNCHANGED <<subs, used>>
  PROVE  AddressInv' /\ CountInv' /\ DeservedNow
  <1>1. RowsMove /\ AddressesStay
    BY SameRowsCount
  <1>2. AllCleared
    <2>1. \A s \in DOMAIN subs : subs[s] \in Subscriber
      BY Tables DEF CInv, IInv
    <2>2. \A s : Reached(s) = FALSE
      BY DEF Reached
    <2>3. used.cuts = 0 => \A s \in DOMAIN subs : RowCount(subs[s], disp.lag, FALSE)
      BY <2>2, UncutIs
    <2>4. QED
      BY <2>1, <2>3 DEF AllCleared
  <1>3. QED
    BY <1>1, <1>2, EndRowCounts, MoveDeserves

LEMMA RemoveGoneCounts ==
  ASSUME SubscriptionsAssumption, CInv, RemoveGone
  PROVE  AddressInv' /\ CountInv' /\ DeservedNow
  <1>1. disp.at = "remove" /\ Following /\ UNCHANGED used
        /\ IF subs[Head1.to].status # "gone" THEN Delete({Head1.to}) ELSE UNCHANGED <<subs, outbox>>
    BY DEF RemoveGone
  <1>2. CASE UNCHANGED subs
    BY <1>1, <1>2, SameRowsEnd
  <1>3. CASE Delete({Head1.to})
    <2>1. RowsMove /\ AddressesStay
      BY <1>3, DeletedRowsCount
    <2>2. AllCleared
      <3>1. /\ DOMAIN subs' = DOMAIN subs
            /\ \A s \in DOMAIN subs : subs'[s] = IF s \in {Head1.to} THEN Gone ELSE subs[s]
        BY <1>3 DEF Delete
      <3>2. \A s \in DOMAIN subs : subs[s] \in Subscriber
        BY Tables DEF CInv, IInv
      <3>3. Head1.to \in DOMAIN subs
        BY <1>1, FirstRow DEF CInv
      <3>4. Gone \in Subscriber
        BY <3>2, <3>3, GoneType DEF Subscriber
      <3>5. RowCount(Gone, disp.lag, FALSE)
        <4>1. Len(Gone.streak) = 0 /\ QuarantineFailures \in Nat
          BY GoneIs, EmptySeq DEF SubscriptionsAssumption
        <4>2. QED
          BY <4>1, GoneIs DEF RowCount
      <3>6. \A s : Reached(s) = FALSE
        BY <1>1 DEF Reached
      <3>7. used.cuts = 0 => \A s \in DOMAIN subs : RowCount(subs[s], disp.lag, FALSE)
        BY <3>6, UncutIs
      <3>8. QED
        BY <3>1, <3>2, <3>4, <3>5, <3>7 DEF AllCleared
    <2>3. QED
      BY <1>1, <2>1, <2>2, EndRowCounts, MoveDeserves
  <1>4. QED
    BY <1>1, <1>2, <1>3

\* A success clears the slate.
LEMMA ClearFailuresCounts ==
  ASSUME SubscriptionsAssumption, CInv, ClearFailures
  PROVE  AddressInv' /\ CountInv' /\ DeservedNow
  <1> DEFINE h == Head1.to
             v == [subs[h] EXCEPT !.failures = 0, !.since = None]
  <1>1. disp.at = "clear" /\ Following /\ UNCHANGED used
        /\ subs' = [subs EXCEPT ![h].failures = 0, ![h].since = None]
    BY DEF ClearFailures
  <1>2. h \in DOMAIN subs /\ subs[h] \in Subscriber /\ h = disp.batch[1].to
    BY <1>1, FirstRow DEF CInv
  <1>3. DOMAIN subs' = DOMAIN subs /\ \A s \in DOMAIN subs : subs'[s] = IF s = h THEN v ELSE subs[s]
    BY <1>1, <1>2
  <1>4. v \in Subscriber /\ v.since = None /\ v.streak = subs[h].streak /\ v.status = subs[h].status
        /\ v.addr = subs[h].addr
    <2> HIDE DEF h
    <2>1. QED
      BY <1>2 DEF Subscriber, None
  <1> HIDE DEF v
  <1>5. AddressesStay
    BY <1>3, <1>4 DEF AddressesStay, Live
  <1>6. DeservedNow
    BY <1>3, <1>4 DEF DeservedNow
  <1>7. AllCleared
    <2>1. \A s \in DOMAIN subs : subs[s] \in Subscriber
      BY Tables DEF CInv, IInv
    <2>2. ASSUME used.cuts = 0, NEW s \in DOMAIN subs PROVE RowCount(subs'[s], disp.lag, FALSE)
      <3>1. RowCount(subs[s], disp.lag, Reached(s))
        BY <2>2, UncutIs
      <3>2. CASE s = h
        BY <1>3, <1>4, <3>1, <3>2 DEF RowCount
      <3>3. CASE s # h
        BY <1>2, <1>3, <3>1, <3>3 DEF RowCount, Reached
      <3>4. QED
        BY <3>2, <3>3
    <2>3. QED
      BY <1>3, <1>4, <2>1, <2>2 DEF AllCleared
  <1>8. QED
    BY <1>1, <1>5, <1>6, <1>7, EndRowCounts

\* Only addresses of the form answer with what is counted.
LEMMA CountedAnswers ==
  ASSUME SubscriptionsAssumption, CInv, NEW answer \in Answers, Send(answer),
         AfterSend(answer) \in {"count", "quarantine"}
  PROVE  Head1.addr \in Forms
  <1>1. answer \in {"broken", "refused"}
    BY DEF AfterSend, Answers
  <1>2. answer \in IF Head1.addr \in Chats THEN ChatAnswers ELSE FormAnswers
    BY DEF Send
  <1>3. Head1.addr \notin Chats
    BY <1>1, <1>2 DEF SubscriptionsAssumption
  <1>4. disp.at # "idle"
    BY DEF Send
  <1>5. Head1 \in Snapshot /\ Head1.addr # Unlinked
    BY <1>4, HeadIs DEF CInv, EntryOK
  <1>6. QED
    BY <1>3, <1>5 DEF Snapshot

LEMMA ReceivedCounts ==
  ASSUME NEW m \in Subscriber, NEW event, NEW link
  PROVE  LET v == Received(m, event, link)
         IN v.streak = <<>> /\ v.since = m.since /\ v.status = m.status /\ v.addr = m.addr
  BY DEF Received, Subscriber

LEMMA SendCounts ==
  ASSUME SubscriptionsAssumption, CInv, NEW answer \in Answers, Send(answer)
  PROVE  AddressInv' /\ CountInv' /\ DeservedNow
  <1> DEFINE h == Head1.to
             p == AfterSend(answer)
             v == Received(subs[h], Head1.event, Head1.link)
  <1>1. disp.at = "next" /\ UNCHANGED used
        /\ subs' = IF answer # "ok" \/ subs[h].status = "gone" THEN subs ELSE [subs EXCEPT ![h] = v]
    BY DEF Send
  <1>2. h \in DOMAIN subs /\ subs[h] \in Subscriber /\ h = disp.batch[1].to /\ disp \in Dispatcher
    BY <1>1, FirstRow DEF CInv, IInv, TypeOK
  <1>3. disp'.at = p /\ disp'.batch = disp.batch /\ disp'.lag = disp.lag
    <2> HIDE DEF p
    <2>1. QED
      BY <1>2 DEF Send, p, Dispatcher
  <1>4. p \in {"sent", "remove", "count", "failed"} /\ (p = "sent" <=> answer = "ok")
    BY AfterSendIs
  <1>5. v.streak = <<>> /\ v.since = subs[h].since /\ v.status = subs[h].status /\ v.addr = subs[h].addr
    BY <1>2, ReceivedCounts
  <1>6. /\ DOMAIN subs' = DOMAIN subs
        /\ \A s \in DOMAIN subs : \/ subs'[s] = subs[s] /\ (s = h /\ answer = "ok" => subs[s].status = "gone")
                                  \/ s = h /\ answer = "ok" /\ subs'[s] = v
    BY <1>1, <1>2
  <1> HIDE DEF v
  <1>7. AddressesStay /\ DeservedNow
    BY <1>5, <1>6 DEF AddressesStay, Live, DeservedNow
  <1>8. AddressInv'
    <2>1. disp'.at \in {"count", "quarantine"} => Head1.addr \in Forms
      BY <1>3, CountedAnswers
    <2>2. QED
      BY <1>1, <1>3, <1>7, <2>1, SameBatch
  <1>9. ASSUME used.cuts = 0 PROVE CountInv'
    <2>1. disp.lag <= MaxLag /\ \A s \in DOMAIN subs : RowCount(subs[s], disp.lag, Reached(s))
      BY <1>9, UncutIs
    <2>2. ASSUME NEW s \in DOMAIN subs PROVE RowCount(subs'[s], disp.lag, Reached(s)')
      <3>1. RowCount(subs[s], disp.lag, FALSE)
        BY <1>1, <2>1 DEF Reached, RowCount
      <3>2. CASE subs'[s] = subs[s]
        BY <3>1, <3>2 DEF RowCount
      <3>3. CASE s = h /\ answer = "ok" /\ subs'[s] = v
        <4>1. Reached(s)'
          BY <1>2, <1>3, <1>4, <3>3 DEF Reached
        <4>2. Len(v.streak) = 0 /\ QuarantineFailures \in Nat
          BY <1>5, EmptySeq DEF SubscriptionsAssumption
        <4>3. QED
          BY <1>5, <3>1, <3>3, <4>1, <4>2 DEF RowCount
      <3>4. QED
        BY <1>6, <3>2, <3>3
    <2> HIDE DEF p
    <2>3. QED
      BY <1>3, <1>4, <1>6, <2>1, <2>2 DEF CountInv
  <1>10. CountInv'
    BY <1>1, <1>9 DEF CountInv
  <1>11. QED
    BY <1>7, <1>8, <1>10

LEMMA RecordSentCounts ==
  ASSUME SubscriptionsAssumption, CInv, RecordSent
  PROVE  AddressInv' /\ CountInv' /\ DeservedNow
  <1>1. disp.at = "sent" /\ UNCHANGED <<subs, used>> /\ Go("clear")
    BY DEF RecordSent
  <1>2. disp'.at = "clear" /\ disp'.batch = disp.batch /\ disp'.lag = disp.lag
    BY <1>1 DEF Go, CInv, IInv, TypeOK, Dispatcher
  <1>3. RowsMove /\ AddressesStay
    BY <1>1, SameRowsCount
  <1>4. AddressInv'
    BY <1>1, <1>2, <1>3, SameBatch
  <1>5. \A s : Reached(s)' = Reached(s)
    BY <1>1, <1>2 DEF Reached
  <1>6. CountInv'
    <2>1. ASSUME used.cuts = 0
          PROVE  disp.lag <= MaxLag /\ \A s \in DOMAIN subs : RowCount(subs[s], disp.lag, Reached(s))
      BY <2>1, UncutIs
    <2>2. QED
      BY <1>1, <1>2, <1>5, <2>1 DEF CountInv
  <1>7. QED
    BY <1>3, <1>4, <1>6, MoveDeserves

\* The two updates of count_failure: one row changes, none is cleared.
LEMMA CountingCounts ==
  ASSUME SubscriptionsAssumption, CInv, disp.at \in {"count", "quarantine"}, UNCHANGED used,
         NEW p \in {"quarantine", "failed"}, Go(p), NEW v,
         subs' = subs \/ subs' = [subs EXCEPT ![Head1.to] = v],
         subs' # subs => /\ v.addr = subs[Head1.to].addr /\ Live(Head1.to)
                         /\ used.cuts = 0 => RowCount(v, disp.lag, FALSE),
         p = "quarantine" /\ used.cuts = 0 => ByStreak(subs'[Head1.to], disp.lag)
  PROVE  AddressInv' /\ CountInv'
  <1> DEFINE h == Head1.to
  <1>1. h \in DOMAIN subs /\ h = disp.batch[1].to /\ Head1 = disp.batch[1] /\ disp \in Dispatcher
    BY FirstRow DEF CInv, IInv, TypeOK
  <1>2. disp'.at = p /\ disp'.batch = disp.batch /\ disp'.lag = disp.lag
    BY <1>1 DEF Go, Dispatcher
  <1>3. /\ DOMAIN subs' = DOMAIN subs
        /\ \A s \in DOMAIN subs : \/ subs'[s] = subs[s]
                                  \/ s = h /\ subs' # subs /\ subs'[s] = v
    <2> HIDE DEF h
    <2>1. subs' = subs \/ subs' = [subs EXCEPT ![h] = v]
      BY DEF h
    <2>2. QED
      BY <1>1, <2>1
  <1>4. AddressesStay
    BY <1>3 DEF AddressesStay, Live
  <1>5. AddressInv'
    <2>1. Head1.addr \in Forms
      BY <1>1 DEF CInv, AddressInv
    <2>2. QED
      BY <1>2, <1>4, <2>1, SameBatch
  <1>6. \A s : Reached(s)' = FALSE /\ Reached(s) = FALSE
    BY <1>2 DEF Reached
  <1>7. ASSUME used.cuts = 0 PROVE CountInv'
    <2>1. disp.lag <= MaxLag /\ \A s \in DOMAIN subs : RowCount(subs[s], disp.lag, FALSE)
      BY <1>6, <1>7, UncutIs
    <2>2. ASSUME NEW s \in DOMAIN subs' PROVE RowCount(subs'[s], disp.lag, FALSE)
      <3>1. subs'[s] = subs[s] \/ (s = h /\ subs' # subs /\ subs'[s] = v)
        BY <1>3
      <3>2. CASE subs'[s] = subs[s]
        BY <1>3, <2>1, <3>2 DEF RowCount
      <3>3. CASE s = h /\ subs' # subs /\ subs'[s] = v
        BY <1>7, <3>3
      <3>4. QED
        BY <3>1, <3>2, <3>3
    <2>3. p = "quarantine" => ByStreak(subs'[h], disp.lag)
      BY <1>7
    <2> HIDE DEF h
    <2>4. disp'.at = "quarantine" => Deserves(disp.batch[1].to)'
      BY <1>1, <1>2, <2>3 DEF Deserves
    <2>5. QED
      BY <1>1, <1>2, <1>6, <2>1, <2>2, <2>4 DEF CountInv
  <1>8. CountInv'
    BY <1>7 DEF CountInv
  <1>9. QED
    BY <1>5, <1>8

LEMMA CountFailureCounts ==
  ASSUME SubscriptionsAssumption, CInv, CountFailure
  PROVE  AddressInv' /\ CountInv' /\ DeservedNow
  <1> DEFINE h == Head1.to
             v == Counted(subs[h], disp.lag)
             p == IF subs[h].status = "gone" \/ v.failures < QuarantineFailures THEN "failed" ELSE "quarantine"
  <1>1. disp.at = "count" /\ UNCHANGED <<outbox, used>>
    BY DEF CountFailure
  <1>2. h \in DOMAIN subs /\ subs[h] \in Subscriber /\ disp.lag \in Nat
    BY <1>1, FirstRow DEF CInv
  <1>3. v \in Subscriber /\ v.status = subs[h].status /\ v.addr = subs[h].addr
    <2> HIDE DEF h
    <2>1. QED
      BY <1>2, CountedIs
  <1>4. /\ Go(p)
        /\ subs' = IF subs[h].status = "gone" THEN subs ELSE [subs EXCEPT ![h] = v]
    BY DEF CountFailure
  <1>5. p \in {"quarantine", "failed"}
    OBVIOUS
  <1>6. used.cuts = 0 => RowCount(subs[h], disp.lag, FALSE)
    <2>1. Reached(h) = FALSE
      BY <1>1 DEF Reached
    <2>2. used.cuts = 0 => RowCount(subs[h], disp.lag, Reached(h))
      BY <1>2, UncutIs
    <2>3. QED
      BY <2>1, <2>2
  <1>7. used.cuts = 0 => /\ RowCount(v, disp.lag, FALSE)
                         /\ v.failures >= QuarantineFailures => ByStreak(v, disp.lag)
    <2> HIDE DEF h
    <2>1. QED
      BY <1>2, <1>6, CountedCounts
  <1>8. ASSUME p = "quarantine", used.cuts = 0 PROVE ByStreak(subs'[h], disp.lag)
    <2>1. subs[h].status # "gone" /\ ~(v.failures < QuarantineFailures)
      BY <1>8
    <2>2. v.failures \in Nat /\ QuarantineFailures \in Nat
      BY <1>3 DEF Subscriber, SubscriptionsAssumption
    <2> HIDE DEF v
    <2>3. v.failures >= QuarantineFailures
      BY <2>1, <2>2
    <2>4. subs'[h] = v
      BY <1>2, <1>4, <2>1
    <2>5. QED
      BY <1>7, <1>8, <2>3, <2>4
  <1> HIDE DEF v, p
  <1>9. DeservedNow
    <2>1. \A s \in DOMAIN subs : subs'[s] = subs[s] \/ (s = h /\ subs'[s] = v)
      BY <1>2, <1>4
    <2>2. QED
      BY <1>3, <2>1 DEF DeservedNow
  <1>10. AddressInv' /\ CountInv'
    BY <1>1, <1>3, <1>4, <1>5, <1>7, <1>8, CountingCounts DEF Live
  <1>11. QED
    BY <1>9, <1>10

LEMMA QuarantineCounts ==
  ASSUME SubscriptionsAssumption, CInv, Quarantine
  PROVE  AddressInv' /\ CountInv' /\ DeservedNow
  <1> DEFINE h == Head1.to
             v == [subs[h] EXCEPT !.status = "quarantined", !.held = disp.lag]
  <1>1. disp.at = "quarantine" /\ UNCHANGED <<outbox, used>> /\ Go("failed")
        /\ subs' = IF subs[h].status \in {"quarantined", "gone"} THEN subs ELSE [subs EXCEPT ![h] = v]
    BY DEF Quarantine
  <1>2. h \in DOMAIN subs /\ subs[h] \in Subscriber
    BY <1>1, FirstRow DEF CInv
  <1>3. /\ v.addr = subs[h].addr /\ v.streak = subs[h].streak /\ v.since = subs[h].since
        /\ v.failures = subs[h].failures
    <2> HIDE DEF h
    <2>1. QED
      BY <1>2 DEF Subscriber
  <1> HIDE DEF v
  <1>4. used.cuts = 0 => RowCount(v, disp.lag, FALSE)
    <2>1. Reached(h) = FALSE
      BY <1>1 DEF Reached
    <2>2. used.cuts = 0 => RowCount(subs[h], disp.lag, Reached(h))
      BY <1>2, UncutIs
    <2>3. QED
      BY <1>3, <2>1, <2>2 DEF RowCount, CountIs
  <1>5. DeservedNow
    <2>1. ASSUME NEW s \in DOMAIN subs, used.cuts = 0, subs[s].status = "active",
                 subs'[s].status = "quarantined"
          PROVE  /\ Len(subs[s].streak) = QuarantineFailures
                 /\ subs[s].streak[1] - disp.lag < QuarantineWindow
      <3>1. s = h
        BY <1>1, <2>1
      <3>2. Deserves(h)
        BY <1>1, <2>1, UncutIs
      <3>3. QED
        BY <2>1, <3>1, <3>2 DEF Deserves, Unreached, ByStreak
    <2>2. QED
      BY <2>1 DEF DeservedNow
  <1>6. AddressInv' /\ CountInv'
    <2>1. subs' # subs => Live(h)
      BY <1>1 DEF Live
    <2>2. subs' = subs \/ subs' = [subs EXCEPT ![h] = v]
      BY <1>1
    <2>3. QED
      BY <1>1, <1>3, <1>4, <2>1, <2>2, CountingCounts
  <1>7. QED
    BY <1>5, <1>6

\* A round that is cut short is gone, and nothing is said of counts any more.
LEMMA CutShortCounts ==
  ASSUME SubscriptionsAssumption, CInv, CutShort
  PROVE  AddressInv' /\ CountInv' /\ DeservedNow
  <1>1. disp' = Idle /\ UNCHANGED subs /\ used' = [used EXCEPT !.cuts = @ + 1]
    BY DEF CutShort, Spend
  <1>2. AddressInv'
    BY <1>1, IdleIs DEF AddressInv
  <1>3. used'.cuts # 0
    <2>1. used \in [{"signups", "events", "cuts", "lost"} -> Nat]
      BY DEF CInv, IInv, TypeOK
    <2>2. used'.cuts = used.cuts + 1 /\ used.cuts \in Nat /\ used.lost \in Nat
      BY <1>1, <2>1
    <2>3. QED
      BY <2>2, SMTT(30)
  <1>4. CountInv'
    BY <1>3 DEF CountInv
  <1>5. QED
    BY <1>1, <1>2, <1>4, SameRowsCount, MoveDeserves

\* A batch holds the addresses that its rows have.
LEMMA PollCounts ==
  ASSUME SubscriptionsAssumption, CInv, Poll
  PROVE  AddressInv' /\ CountInv' /\ DeservedNow
  <1> DEFINE rows == InOrder({i \in Due : Cardinality({j \in Due : j < i}) < Batch})
             batch == [k \in DOMAIN rows |-> Read(rows[k])]
  <1>1. disp.at = "idle" /\ UNCHANGED <<subs, outbox, used>>
        /\ disp' = [Idle EXCEPT !.at = "next", !.batch = batch]
    BY DEF Poll
  <1> HIDE DEF batch
  <1>2. disp'.at = "next" /\ disp'.batch = batch /\ disp'.lag = 0
    BY <1>1 DEF Idle
  <1>3. AddressInv'
    <2>1. ASSUME NEW k \in DOMAIN batch PROVE batch[k].addr = subs[batch[k].to].addr
      <3>1. batch[k] = Read(rows[k])
        BY DEF batch
      <3> HIDE DEF rows
      <3>2. QED
        BY <3>1 DEF Read
    <2>2. QED
      BY <1>1, <1>2, <2>1 DEF AddressInv, Live
  <1>4. CountInv'
    <2>1. ASSUME used.cuts = 0, NEW s \in DOMAIN subs PROVE RowCount(subs[s], 0, FALSE)
      <3>1. RowCount(subs[s], disp.lag, FALSE)
        <4>1. RowCount(subs[s], disp.lag, Reached(s)) /\ Reached(s) = FALSE
          BY <1>1, <2>1, UncutIs DEF Reached
        <4>2. QED
          BY <4>1
      <3>2. subs[s] \in Subscriber /\ disp.lag \in Nat /\ 0 <= disp.lag
        BY Tables, SMTT(30) DEF CInv, IInv, TypeOK, Dispatcher
      <3>3. QED
        BY <3>1, <3>2, EarlierCounts
    <2>2. 0 <= MaxLag
      BY DEF SubscriptionsAssumption
    <2>3. \A s : Reached(s)' = FALSE
      BY <1>2 DEF Reached
    <2>4. QED
      BY <1>1, <1>2, <2>1, <2>2, <2>3 DEF CountInv
  <1>5. QED
    BY <1>1, <1>3, <1>4, SameRowsCount, MoveDeserves

LEMMA TickCounts ==
  ASSUME SubscriptionsAssumption, CInv, Tick
  PROVE  AddressInv' /\ CountInv' /\ DeservedNow
  <1>1. /\ subs' = [s \in DOMAIN subs |-> AgedSubscriber(subs[s])] /\ UNCHANGED used
        /\ disp' = IF disp.at = "idle" THEN disp ELSE [disp EXCEPT !.lag = @ + 1]
        /\ disp.at # "idle" => disp.lag < MaxLag
    BY DEF Tick
  <1>2. IInv /\ AddressInv /\ disp \in Dispatcher /\ disp.lag \in Nat /\ MaxLag \in Nat
    BY DEF CInv, IInv, TypeOK, Dispatcher, SubscriptionsAssumption
  <1>3. /\ disp'.at = disp.at /\ disp'.batch = disp.batch
        /\ disp'.lag = IF disp.at = "idle" THEN disp.lag ELSE disp.lag + 1
    BY <1>1, <1>2 DEF Dispatcher
  <1>4. ASSUME NEW s \in DOMAIN subs
        PROVE  /\ subs[s] \in Subscriber /\ subs'[s] = AgedSubscriber(subs[s])
               /\ subs'[s].status = subs[s].status /\ subs'[s].addr = subs[s].addr
    <2>1. subs[s] \in Subscriber /\ subs'[s] = AgedSubscriber(subs[s])
      BY <1>1, <1>2, Tables DEF IInv
    <2>2. QED
      BY <2>1, AgedIs
  <1>5. DOMAIN subs' = DOMAIN subs
    BY <1>1
  <1>6. AddressInv'
    <2>1. AddressesStay
      BY <1>4 DEF AddressesStay, Live
    <2>2. BatchKept
      BY <1>3 DEF BatchKept
    <2>3. disp'.at \in {"count", "quarantine"} => disp'.batch[1].addr \in Forms
      BY <1>2, <1>3 DEF AddressInv
    <2>4. QED
      BY <1>2, <2>1, <2>2, <2>3, AddressesKept
  <1>7. DeservedNow
    BY <1>4 DEF DeservedNow
  <1>8. ASSUME used.cuts = 0 PROVE CountInv'
    <2> DEFINE later == disp'.lag
    <2>1. /\ disp.lag <= MaxLag
          /\ \A s \in DOMAIN subs : RowCount(subs[s], disp.lag, Reached(s))
          /\ disp.at = "quarantine" => Deserves(Head1.to)
      BY <1>8, UncutIs
    <2>2. later \in {disp.lag, disp.lag + 1} /\ later <= MaxLag /\ (disp.at # "idle" => later = disp.lag + 1)
      BY <1>1, <1>2, <1>3, <2>1
    <2> HIDE DEF later
    <2>3. \A s : Reached(s)' = Reached(s) /\ Reached(s) \in BOOLEAN
      BY <1>3 DEF Reached
    <2>4. ASSUME NEW s \in DOMAIN subs
          PROVE  /\ RowCount(subs'[s], later, Reached(s))
                 /\ ByStreak(subs[s], disp.lag) /\ later = disp.lag + 1 => ByStreak(subs'[s], later)
                 /\ subs'[s].status = subs[s].status /\ subs'[s].inHand = subs[s].inHand
      <3>1. subs[s] \in Subscriber /\ RowCount(subs[s], disp.lag, Reached(s)) /\ Reached(s) \in BOOLEAN
        BY <1>4, <2>1, <2>3
      <3>2. /\ RowCount(AgedSubscriber(subs[s]), later, Reached(s))
            /\ ByStreak(subs[s], disp.lag) /\ later = disp.lag + 1 => ByStreak(AgedSubscriber(subs[s]), later)
            /\ AgedSubscriber(subs[s]).status = subs[s].status
            /\ AgedSubscriber(subs[s]).inHand = subs[s].inHand
        BY <1>2, <2>2, <3>1, AgedCounts, SMTT(30)
      <3>3. QED
        BY <1>4, <3>2
    <2>5. ASSUME disp.at = "quarantine" PROVE Deserves(disp.batch[1].to)'
      <3> DEFINE h == disp.batch[1].to
      <3>1. Deserves(h) /\ h \in DOMAIN subs
        BY <1>2, <2>1, <2>5, FirstRow
      <3>2. ASSUME NEW s, Untold(s) PROVE Untold(s)'
        <4>1. /\ DOMAIN outbox' = DOMAIN outbox
              /\ \A i \in DOMAIN outbox : outbox'[i] = [outbox[i] EXCEPT !.wait = Greater(@ - 1, 0)]
          BY DEF Tick
        <4>2. ASSUME NEW i \in DOMAIN outbox
              PROVE  /\ outbox'[i].to = outbox[i].to /\ outbox'[i].event = outbox[i].event
                     /\ outbox'[i].status = outbox[i].status /\ outbox'[i].unheard = outbox[i].unheard
          <5>1. outbox[i] \in Message
            BY <1>2, Tables DEF IInv
          <5> DEFINE o == outbox[i]
                     w == Greater(o.wait - 1, 0)
          <5>2. outbox'[i] = [o EXCEPT !.wait = w]
            BY <4>1
          <5> HIDE DEF o, w
          <5>3. o \in Message
            BY <5>1 DEF o
          <5>4. QED
            BY <5>2, <5>3 DEF Message, o
        <4>3. ASSUME NEW i \in DOMAIN outbox', outbox'[i].to = s, outbox'[i].event = Confirm,
                     outbox'[i].status \notin {"sent", "gone"}
              PROVE  outbox'[i].unheard = 0
          <5>1. i \in DOMAIN outbox
            BY <4>1, <4>3
          <5>2. /\ outbox[i].to = s /\ outbox[i].event = Confirm /\ outbox[i].status \notin {"sent", "gone"}
                /\ outbox'[i].unheard = outbox[i].unheard
            BY <4>2, <4>3, <5>1
          <5>3. QED
            BY <3>2, <5>1, <5>2 DEF Untold
        <4>4. QED
          BY <4>3 DEF Untold
      <3>3. ASSUME NEW s \in DOMAIN subs, Unreached(s) PROVE Unreached(s)'
        <4>1. subs'[s].status = subs[s].status /\ subs'[s].inHand = subs[s].inHand
          BY <2>4
        <4>2. QED
          BY <3>2, <3>3, <4>1 DEF Unreached
      <3>4. ByStreak(subs[h], disp.lag) => ByStreak(subs'[h], later)
        BY <2>2, <2>4, <2>5, <3>1
      <3>5. QED
        BY <1>3, <3>1, <3>3, <3>4 DEF Deserves, later
    <2>6. QED
      BY <1>3, <1>5, <2>2, <2>3, <2>4, <2>5 DEF CountInv, later
  <1>9. CountInv'
    BY <1>1, <1>8 DEF CountInv
  <1>10. QED
    BY <1>6, <1>7, <1>9

LEMMA InitCounts ==
  ASSUME SubscriptionsAssumption, Init
  PROVE  CInv
  <1>1. IInv
    BY InitHolds
  <1>2. DOMAIN subs = {} /\ disp = Idle
    BY EmptySeq, LenProperties DEF Init
  <1>3. AddressInv
    BY <1>2, IdleIs DEF AddressInv
  <1>4. disp.lag = 0 /\ disp.at = "idle"
    BY <1>2 DEF Idle
  <1>5. CountInv
    BY <1>2, <1>4 DEF CountInv, SubscriptionsAssumption
  <1>6. QED
    BY <1>1, <1>3, <1>5 DEF CInv

LEMMA StutterCounts ==
  ASSUME CInv, UNCHANGED vars
  PROVE  AddressInv' /\ CountInv' /\ DeservedNow
  <1>1. UNCHANGED subs /\ UNCHANGED outbox /\ UNCHANGED disp /\ UNCHANGED used
    BY DEF vars
  <1>2. Deserves(disp.batch[1].to) => Deserves(disp.batch[1].to)'
    BY <1>1 DEF Deserves, Unreached, Untold
  <1>3. QED
    BY <1>1, <1>2 DEF CInv, AddressInv, Live, CountInv, Reached, DeservedNow

LEMMA NextCounts ==
  ASSUME SubscriptionsAssumption, CInv, [Next]_vars
  PROVE  CInv' /\ DeservedNow
  <1>1. IInv'
    BY NextKeeps DEF CInv
  <1> SUFFICES AddressInv' /\ CountInv' /\ DeservedNow
    BY <1>1 DEF CInv
  <1> DEFINE Kept == AddressInv' /\ CountInv' /\ DeservedNow
  <1>2. CASE DispatchStep
    <2>1. CASE Poll
      BY <2>1, PollCounts
    <2>2. CASE GiveUp
      BY <2>2, SameRowsEnd DEF GiveUp
    <2>3. CASE SkipRow
      BY <2>3, SameRowsEnd DEF SkipRow
    <2>4. CASE \E answer \in Answers : Send(answer)
      BY <2>4, SendCounts
    <2>5. CASE RecordSent
      BY <2>5, RecordSentCounts
    <2>6. CASE ClearFailures
      BY <2>6, ClearFailuresCounts
    <2>7. CASE RemoveGone
      BY <2>7, RemoveGoneCounts
    <2>8. CASE CountFailure
      BY <2>8, CountFailureCounts
    <2>9. CASE Quarantine
      BY <2>9, QuarantineCounts
    <2>10. CASE RecordFailure
      BY <2>10, SameRowsEnd DEF RecordFailure
    <2>11. QED
      BY <1>2, <2>1, <2>2, <2>3, <2>4, <2>5, <2>6, <2>7, <2>8, <2>9, <2>10 DEF DispatchStep
  <1>3. CASE Visitor
    <2>1. ASSUME NEW wants \in Choices, NEW addr \in Forms, SignUp(addr, wants) PROVE Kept
      BY <2>1, SignUpCounts
    <2>2. ASSUME NEW wants \in Choices, SignUpByLink(wants) PROVE Kept
      BY <2>2, SignUpByLinkCounts
    <2>3. ASSUME NEW s \in DOMAIN subs, ConfirmSubmit(s) PROVE Kept
      BY <2>3, ConfirmSubmitCounts
    <2>4. ASSUME NEW s \in DOMAIN subs, Unsubscribe(s) PROVE Kept
      BY <2>4, DeleteCounts DEF Unsubscribe
    <2>5. ASSUME NEW s \in DOMAIN subs, NEW chat \in Chats, LinkChat(s, chat) PROVE Kept
      BY <2>5, LinkChatCounts
    <2>6. QED
      BY <1>3, <2>1, <2>2, <2>3, <2>4, <2>5 DEF Visitor
  <1>4. CASE \E e \in Events : FanOut(e)
    BY <1>4, FanOutCounts
  <1>5. CASE Prune(StaleSignUps)
    BY <1>5, DeleteCounts DEF Prune
  <1>6. CASE Prune(StaleQuarantines)
    BY <1>6, DeleteCounts DEF Prune
  <1>7. CASE CutShort
    BY <1>7, CutShortCounts
  <1>8. CASE Tick
    BY <1>8, TickCounts
  <1>9. CASE UNCHANGED vars
    BY <1>9, StutterCounts
  <1>10. CASE \E i \in DOMAIN outbox : ArrivesLate(i)
    BY <1>10, ArrivesLateCounts
  <1>11. QED
    BY <1>2, <1>3, <1>4, <1>5, <1>6, <1>7, <1>8, <1>9, <1>10 DEF Next

-----------------------------------------------------------------------------
(* The theorems.                                                           *)

\* What failure_count, failure_window_start and the round's place say together
\* holds in every state, between the two updates of count_failure as well.
THEOREM CountInvariance ==
  ASSUME SubscriptionsAssumption
  PROVE  Spec => []CInv
  <1>1. Init => CInv
    BY InitCounts
  <1>2. CInv /\ [Next]_vars => CInv'
    BY NextCounts
  <1>3. QED
    BY <1>1, <1>2, PTL DEF Spec

\* count_failure: an active subscriber is only put in quarantine by
\* QUARANTINE_FAILURES counted failures in a row, all within the window, none
\* from before its last sign-up, whoever else writes the row between the two
\* updates, if no round was cut short between a send and its record.
THEOREM DeservedAlways ==
  ASSUME SubscriptionsAssumption
  PROVE  Spec => QuarantineDeserved
  <1>1. CInv /\ [Next]_vars =>
          [\A s \in DOMAIN subs :
             used.cuts = 0 /\ subs[s].status = "active" /\ subs'[s].status = "quarantined"
               => /\ Len(subs[s].streak) = QuarantineFailures
                  /\ subs[s].streak[1] - disp.lag < QuarantineWindow]_vars
    BY NextCounts DEF DeservedNow
  <1>2. QED
    BY <1>1, CountInvariance, PTL DEF Spec, QuarantineDeserved

-----------------------------------------------------------------------------
(***************************************************************************)
(* Subscriptions implements Outbox: every step of the tables is a step of  *)
(* it, or changes nothing of what it sees.                                 *)
(***************************************************************************)

Standing == {"pending", "active", "quarantined", "gone"}

Letter == [to : Nat, news : BOOLEAN, fate : {"queued", "sent", "failed", "gone"},
           arrived : Nat, unheard : Nat]

(* What is seen of the tables.                                             *)
LEMMA SeenIs ==
  ASSUME NEW m \in Message
  PROVE  /\ Seen(m) \in Letter /\ Seen(m).to = m.to /\ Seen(m).fate = m.status
         /\ Seen(m).arrived = m.arrived /\ Seen(m).unheard = m.unheard
         /\ Seen(m).news <=> m.status # "gone" /\ m.event # Confirm
  BY DEF Seen, Letter, Message

LEMMA SeenSeq ==
  ASSUME NEW box \in Seq(Message)
  PROVE  LET v == [i \in DOMAIN box |-> Seen(box[i])]
         IN /\ v \in Seq(Letter) /\ Len(v) = Len(box) /\ DOMAIN v = DOMAIN box
            /\ DOMAIN box = 1 .. Len(box) /\ \A i \in DOMAIN box : box[i] \in Message /\ v[i] = Seen(box[i])
  <1>1. Len(box) \in Nat /\ DOMAIN box = 1 .. Len(box) /\ \A i \in DOMAIN box : box[i] \in Message
    BY LenProperties, ElementOfSeq
  <1>2. \A i \in DOMAIN box : Seen(box[i]) \in Letter
    BY <1>1, SeenIs
  <1> DEFINE v == [i \in DOMAIN box |-> Seen(box[i])]
  <1>3. v \in [1 .. Len(box) -> Letter]
    BY <1>1, <1>2
  <1>4. v \in Seq(Letter) /\ Len(v) = Len(box)
    BY <1>1, <1>3
  <1>5. QED
    BY <1>1, <1>4

LEMMA StandSeq ==
  ASSUME NEW rows \in Seq(Subscriber)
  PROVE  LET v == [s \in DOMAIN rows |-> rows[s].status]
         IN /\ v \in Seq(Standing) /\ Len(v) = Len(rows) /\ DOMAIN v = DOMAIN rows
            /\ DOMAIN rows = 1 .. Len(rows)
            /\ \A s \in DOMAIN rows : rows[s] \in Subscriber /\ v[s] = rows[s].status
  <1>1. Len(rows) \in Nat /\ DOMAIN rows = 1 .. Len(rows) /\ \A s \in DOMAIN rows : rows[s] \in Subscriber
    BY LenProperties, ElementOfSeq
  <1>2. \A s \in DOMAIN rows : rows[s].status \in Standing
    BY <1>1 DEF Subscriber, Standing
  <1> DEFINE v == [s \in DOMAIN rows |-> rows[s].status]
  <1>3. v \in [1 .. Len(rows) -> Standing]
    BY <1>1, <1>2
  <1>4. v \in Seq(Standing) /\ Len(v) = Len(rows)
    BY <1>1, <1>3
  <1>5. QED
    BY <1>1, <1>4

\* The same before a step and after it.
Views ==
  /\ subs \in Seq(Subscriber) /\ outbox \in Seq(Message)
  /\ People \in Seq(Standing) /\ Len(People) = Len(subs) /\ Len(subs) \in Nat
  /\ DOMAIN People = DOMAIN subs /\ DOMAIN subs = 1 .. Len(subs)
  /\ \A s \in DOMAIN subs : subs[s] \in Subscriber /\ People[s] = subs[s].status
  /\ Mail \in Seq(Letter) /\ Len(Mail) = Len(outbox) /\ Len(outbox) \in Nat
  /\ DOMAIN Mail = DOMAIN outbox /\ DOMAIN outbox = 1 .. Len(outbox)
  /\ \A i \in DOMAIN outbox : outbox[i] \in Message /\ Mail[i] = Seen(outbox[i])

LEMMA ViewsHold ==
  ASSUME IInv, IInv'
  PROVE  Views /\ Views'
  <1>1. subs \in Seq(Subscriber) /\ outbox \in Seq(Message)
    BY DEF IInv, TypeOK
  <1>2. subs' \in Seq(Subscriber) /\ outbox' \in Seq(Message)
    BY DEF IInv, TypeOK
  <1>3. /\ People \in Seq(Standing) /\ Len(People) = Len(subs) /\ DOMAIN People = DOMAIN subs
        /\ DOMAIN subs = 1 .. Len(subs)
        /\ \A s \in DOMAIN subs : subs[s] \in Subscriber /\ People[s] = subs[s].status
    BY <1>1, StandSeq, Zenon DEF People
  <1>4. /\ People' \in Seq(Standing) /\ Len(People') = Len(subs') /\ DOMAIN People' = DOMAIN subs'
        /\ DOMAIN subs' = 1 .. Len(subs')
        /\ \A s \in DOMAIN subs' : subs'[s] \in Subscriber /\ People'[s] = subs'[s].status
    BY <1>2, StandSeq, Zenon DEF People
  <1>5. /\ Mail \in Seq(Letter) /\ Len(Mail) = Len(outbox) /\ DOMAIN Mail = DOMAIN outbox
        /\ DOMAIN outbox = 1 .. Len(outbox)
        /\ \A i \in DOMAIN outbox : outbox[i] \in Message /\ Mail[i] = Seen(outbox[i])
    BY <1>1, SeenSeq, Zenon DEF Mail
  <1>6. /\ Mail' \in Seq(Letter) /\ Len(Mail') = Len(outbox') /\ DOMAIN Mail' = DOMAIN outbox'
        /\ DOMAIN outbox' = 1 .. Len(outbox')
        /\ \A i \in DOMAIN outbox' : outbox'[i] \in Message /\ Mail'[i] = Seen(outbox'[i])
    BY <1>2, SeenSeq, Zenon DEF Mail
  <1>7. Len(subs) \in Nat /\ Len(outbox) \in Nat /\ Len(subs') \in Nat /\ Len(outbox') \in Nat
    BY <1>1, <1>2, LenProperties
  <1>8. QED
    BY <1>1, <1>2, <1>3, <1>4, <1>5, <1>6, <1>7 DEF Views

\* A table that looks as before.
LEMMA PeopleSame ==
  ASSUME Views, Views', DOMAIN subs' = DOMAIN subs, \A s \in DOMAIN subs : subs'[s].status = subs[s].status
  PROVE  People' = People
  BY DEF People

LEMMA MailSame ==
  ASSUME Views, Views', DOMAIN outbox' = DOMAIN outbox, \A i \in DOMAIN outbox : Seen(outbox'[i]) = Seen(outbox[i])
  PROVE  Mail' = Mail
  BY DEF Mail

\* One row that looks otherwise.
LEMMA PeopleOne ==
  ASSUME NEW s \in DOMAIN subs, NEW v, subs' = [subs EXCEPT ![s] = v]
  PROVE  People' = [People EXCEPT ![s] = v.status]
  BY DEF People

LEMMA MailOne ==
  ASSUME NEW i \in DOMAIN outbox, NEW m, outbox' = [outbox EXCEPT ![i] = m]
  PROVE  Mail' = [Mail EXCEPT ![i] = Seen(m)]
  <1>1. DOMAIN outbox' = DOMAIN outbox /\ \A j \in DOMAIN outbox : outbox'[j] = IF j = i THEN m ELSE outbox[j]
    OBVIOUS
  <1>2. QED
    BY <1>1 DEF Mail

\* One message is settled.
LEMMA SettleOne ==
  ASSUME IInv, Views, NEW h \in DOMAIN outbox, NEW m \in Message, NEW fate \in {"sent", "failed"},
         Queued(h), outbox' = [outbox EXCEPT ![h] = m],
         m.to = outbox[h].to, m.event = outbox[h].event, m.arrived = outbox[h].arrived,
         m.unheard = outbox[h].unheard, m.status = fate, fate = "sent" => m.arrived >= 1, UNCHANGED <<People, used>>
  PROVE  h \in DOMAIN Mail /\ Box!Settle(h, fate)
  <1>1. /\ h \in DOMAIN Mail /\ outbox[h] \in Message /\ Mail[h] = Seen(outbox[h])
        /\ Mail \in Seq(Letter)
    BY DEF Views
  <1>2. Mail' = [Mail EXCEPT ![h] = Seen(m)]
    BY MailOne
  <1>3. Mail[h] \in Letter /\ Mail[h].fate = "queued" /\ Mail[h].arrived = m.arrived
    BY <1>1, SeenIs DEF Queued
  <1>4. Seen(m) = [Mail[h] EXCEPT !.fate = fate]
    BY <1>1 DEF Seen, Queued
  <1>5. fate = "sent" => Mail[h].arrived > 0
    BY <1>3 DEF Letter
  <1>6. QED
    BY <1>1, <1>2, <1>3, <1>4, <1>5, Zenon DEF Box!Settle, Box!Queued

LEMMA GiveUpSettles ==
  ASSUME SubscriptionsAssumption, IInv, IInv', GiveUp
  PROVE  \/ UNCHANGED <<People, Mail, used>>
         \/ \E i \in DOMAIN Mail : Box!Settle(i, "failed")
  <1> DEFINE h == Head1.row
             m == [outbox[h] EXCEPT !.status = "failed"]
  <1>1. disp.at = "next" /\ UNCHANGED <<subs, used>>
    BY DEF GiveUp
  <1>2. Views /\ Views' /\ h \in DOMAIN outbox
    BY <1>1, ViewsHold, HeadIs
  <1>3. People' = People
    BY <1>1 DEF People
  <1>4. CASE ~Queued(h)
    BY <1>1, <1>3, <1>4 DEF GiveUp, Mail
  <1>5. CASE Queued(h)
    <2>1. outbox' = [outbox EXCEPT ![h] = m]
      BY <1>5 DEF GiveUp
    <2>2. outbox[h] \in Message
      BY <1>2 DEF Views
    <2>3. /\ m \in Message /\ m.to = outbox[h].to /\ m.event = outbox[h].event
          /\ m.arrived = outbox[h].arrived /\ m.unheard = outbox[h].unheard /\ m.status = "failed"
      BY <2>2 DEF Message
    <2> HIDE DEF m, h
    <2>4. h \in DOMAIN Mail /\ Box!Settle(h, "failed")
      BY <1>1, <1>2, <1>3, <1>5, <2>1, <2>3, SettleOne
    <2>5. QED
      BY <2>4
  <1>6. QED
    BY <1>4, <1>5

LEMMA RecordSentSettles ==
  ASSUME SubscriptionsAssumption, IInv, IInv', RecordSent
  PROVE  \/ UNCHANGED <<People, Mail, used>>
         \/ \E i \in DOMAIN Mail : Box!Settle(i, "sent")
  <1> DEFINE h == Head1.row
             tries == Head1.attempts + 1
             m == [outbox[h] EXCEPT !.status = "sent", !.attempts = tries]
  <1>1. disp.at = "sent" /\ UNCHANGED <<subs, used>>
    BY DEF RecordSent
  <1>2. Views /\ Views' /\ h \in DOMAIN outbox /\ tries \in Nat
    <2>1. h \in DOMAIN outbox /\ Head1.attempts \in Nat
      BY <1>1, AtHand, SMTT(30)
    <2>2. QED
      BY <2>1, ViewsHold
  <1>3. People' = People
    BY <1>1 DEF People
  <1>4. CASE ~Queued(h)
    BY <1>1, <1>3, <1>4 DEF RecordSent, Mail
  <1>5. CASE Queued(h)
    <2>1. outbox' = [outbox EXCEPT ![h] = m]
      BY <1>5 DEF RecordSent
    <2>2. outbox[h] \in Message
      BY <1>2 DEF Views
    <2> HIDE DEF tries
    <2>3. /\ m \in Message /\ m.to = outbox[h].to /\ m.event = outbox[h].event
          /\ m.arrived = outbox[h].arrived /\ m.unheard = outbox[h].unheard /\ m.status = "sent"
      BY <1>2, <2>2 DEF Message
    <2>4. outbox[h].arrived >= 1
      <3>1. MessageOK(outbox[h], disp.at, disp.got, used.cuts, used.lost)
        BY <1>1, AtHand
      <3>2. QED
        BY <1>1, <1>5, <2>2, <3>1 DEF MessageOK, Queued, Message
    <2> HIDE DEF m, h
    <2>5. h \in DOMAIN Mail /\ Box!Settle(h, "sent")
      BY <1>1, <1>2, <1>3, <1>5, <2>1, <2>3, <2>4, SettleOne
    <2>6. QED
      BY <2>5
  <1>6. QED
    BY <1>4, <1>5

LEMMA RecordFailureSettles ==
  ASSUME SubscriptionsAssumption, IInv, IInv', RecordFailure
  PROVE  \/ UNCHANGED <<People, Mail, used>>
         \/ \E i \in DOMAIN Mail : Box!Settle(i, "failed")
  <1> DEFINE h == Head1.row
             tries == Head1.attempts + 1
             delay == Greater(RetryDelay[tries], IF disp.got = "limited" THEN RetryAfter ELSE 0)
             wait == Greater(delay - disp.lag, 0)
             f == [outbox[h] EXCEPT !.status = "failed", !.attempts = tries]
             a == [outbox[h] EXCEPT !.attempts = tries, !.wait = wait]
  <1>1. disp.at = "failed" /\ UNCHANGED <<subs, used>>
    BY DEF RecordFailure
  <1>2. Views /\ Views' /\ h \in DOMAIN outbox /\ tries \in Nat
    BY <1>1, ViewsHold, AtHand
  <1>3. People' = People
    BY <1>1 DEF People
  <1>4. \/ outbox' = outbox
        \/ Queued(h) /\ outbox' = [outbox EXCEPT ![h] = f]
        \/ Queued(h) /\ outbox' = [outbox EXCEPT ![h] = a]
    BY DEF RecordFailure
  <1>5. outbox[h] \in Message
    BY <1>2 DEF Views
  <1> HIDE DEF wait, tries
  <1>6. CASE outbox' = outbox
    BY <1>1, <1>3, <1>6 DEF Mail
  <1>7. CASE Queued(h) /\ outbox' = [outbox EXCEPT ![h] = f]
    <2>1. /\ f \in Message /\ f.to = outbox[h].to /\ f.event = outbox[h].event
          /\ f.arrived = outbox[h].arrived /\ f.unheard = outbox[h].unheard /\ f.status = "failed"
      BY <1>2, <1>5 DEF Message
    <2> HIDE DEF f, h
    <2>2. h \in DOMAIN Mail /\ Box!Settle(h, "failed")
      BY <1>1, <1>2, <1>3, <1>7, <2>1, SettleOne
    <2>3. QED
      BY <2>2
  <1>8. CASE Queued(h) /\ outbox' = [outbox EXCEPT ![h] = a]
    <2>1. Seen(a) = Seen(outbox[h])
      BY <1>5 DEF Seen, Message
    <2> HIDE DEF a, h
    <2>2. DOMAIN outbox' = DOMAIN outbox /\ \A i \in DOMAIN outbox : Seen(outbox'[i]) = Seen(outbox[i])
      BY <1>8, <2>1
    <2>3. Mail' = Mail
      BY <1>2, <2>2, MailSame
    <2>4. QED
      BY <1>1, <1>3, <2>3
  <1>9. QED
    BY <1>4, <1>6, <1>7, <1>8

\* Updates of a subscriber's row that leave its status.
LEMMA SameStanding ==
  ASSUME IInv, IInv', NEW s \in DOMAIN subs, NEW v, v.status = subs[s].status,
         \/ UNCHANGED subs
         \/ subs' = [subs EXCEPT ![s] = v]
  PROVE  People' = People
  <1>1. Views /\ Views'
    BY ViewsHold
  <1>2. DOMAIN subs' = DOMAIN subs /\ \A t \in DOMAIN subs : subs'[t].status = subs[t].status
    OBVIOUS
  <1>3. QED
    BY <1>1, <1>2, PeopleSame

LEMMA SendArrives ==
  ASSUME SubscriptionsAssumption, IInv, IInv', NEW answer \in Answers, Send(answer)
  PROVE  \/ UNCHANGED <<People, Mail, used>>
         \/ \E i \in DOMAIN Mail : Box!Arrive(i) \/ Box!Fail(i)
  <1> DEFINE h == Head1.row
             o == outbox[h]
             m == Sent(o, answer)
             s == Head1.to
             v == Received(subs[s], Head1.event, Head1.link)
  <1>1. /\ disp.at = "next" /\ UNCHANGED used
        /\ outbox' = IF o.status = "gone" THEN outbox ELSE [outbox EXCEPT ![h] = m]
        /\ subs' = IF answer # "ok" \/ subs[s].status = "gone" THEN subs ELSE [subs EXCEPT ![s] = v]
    BY DEF Send
  <1>2. /\ o \in Message /\ h \in DOMAIN outbox /\ used.cuts \in Nat /\ used.lost \in Nat /\ used.cuts <= MaxCuts /\ used.lost <= MaxLost
        /\ MessageOK(o, "rest", disp.got, used.cuts, used.lost)
        /\ o.status \in {"queued", "gone"} /\ MaxCuts \in Nat /\ MaxAttempts \in Nat \ {0}
    BY <1>1, AtHand
  <1>3. s \in DOMAIN subs /\ Views /\ Views'
    BY <1>1, HeadIs, ViewsHold
  <1>4. People' = People
    <2>1. v.status = subs[s].status
      <3>1. subs[s] \in Subscriber
        BY <1>3 DEF Views
      <3> HIDE DEF s
      <3>2. QED
        BY <3>1, ReceivedIs
    <2> HIDE DEF s, v
    <2>2. QED
      BY <1>1, <1>3, <2>1, SameStanding
  <1>5. CASE o.status = "gone"
    BY <1>1, <1>4, <1>5 DEF Mail
  <1>6. CASE o.status = "queued"
    <2>1. outbox' = [outbox EXCEPT ![h] = m]
      BY <1>1, <1>6
    <2>2. o.arrived \in Nat /\ o.unheard \in Nat /\ o.arrived <= used.cuts + used.lost
      <3> HIDE DEF o
      <3>1. o.arrived \in Nat /\ o.unheard \in Nat
        BY <1>2 DEF Message
      <3>2. o.arrived <= 0 + used.cuts + used.lost
        BY <1>2, <1>6 DEF MessageOK
      <3>3. QED
        BY <1>2, <3>1, <3>2
    <2>3. OneMore(o.arrived) = o.arrived + 1
      <3>1. o.arrived <= MaxAttempts + MaxCuts + MaxLost
        <4> DEFINE a == o.arrived
                   c == used.cuts
                   l == used.lost
        <4>1. /\ a \in Nat /\ c \in Nat /\ l \in Nat /\ a <= c + l /\ c <= MaxCuts /\ l <= MaxLost
              /\ MaxCuts \in Nat /\ MaxLost \in Nat /\ MaxAttempts \in Nat
          BY <1>2, <2>2 DEF SubscriptionsAssumption
        <4> HIDE DEF a, c, l
        <4>2. a <= MaxAttempts + MaxCuts + MaxLost
          BY <4>1
        <4>3. QED
          BY <4>2 DEF a
      <3>2. QED
        BY <2>2, <3>1, OneMoreIs
    <2>4. /\ m.to = o.to /\ m.event = o.event /\ m.status = "queued"
          /\ m.arrived = IF answer = "ok" THEN o.arrived + 1 ELSE o.arrived
          /\ m.unheard = IF answer \in Unheard THEN OneMore(o.unheard) ELSE o.unheard
      BY <1>2, <1>6, <2>3 DEF Sent, Message
    <2>5. Mail[h] = Seen(o) /\ h \in DOMAIN Mail /\ Mail' = [Mail EXCEPT ![h] = Seen(m)]
      BY <1>2, <1>3, <2>1, MailOne DEF Views
    <2>6. Box!MayBeSent(h)
      <3>1. Mail[h].fate = "queued" /\ Mail[h].to = o.to /\ (Mail[h].news => o.event # Confirm)
        BY <1>2, <1>6, <2>5, SeenIs
      <3>2. o.event # Confirm => People[o.to] \in {"active", "quarantined"}
        <4>1. /\ o.to \in DOMAIN subs /\ (subs[o.to].status = "gone" => o.status = "gone")
          BY <1>2 DEF IInv, TypeOK
        <4>2. o.event # Confirm => subs[o.to].status # "pending"
          BY <1>2, <1>6 DEF IInv, PendingHoldsNoNews, Queued
        <4>3. subs[o.to] \in Subscriber /\ People[o.to] = subs[o.to].status
          BY <1>3, <4>1 DEF Views
        <4>4. QED
          BY <1>6, <4>1, <4>2, <4>3 DEF Subscriber
      <3> HIDE DEF h, o
      <3>3. QED
        BY <3>1, <3>2 DEF Box!MayBeSent, Box!Queued
    <2>7. Mail \in Seq(Letter) /\ DOMAIN Mail = 1 .. Len(Mail)
      BY <1>3, LenProperties DEF Views
    <2>8. CASE Seen(m) = Seen(o)
      <3> HIDE DEF m, o, h
      <3>1. Mail' = Mail
        BY <2>5, <2>7, <2>8
      <3>2. QED
        BY <1>1, <1>4, <3>1
    <2>9. CASE answer = "ok"
      <3>1. "ok" \notin Unheard
        BY DEF Unheard
      <3>2. Seen(m) = [Seen(o) EXCEPT !.arrived = o.arrived + 1] /\ Seen(o).arrived = o.arrived
        <4> HIDE DEF m, o
        <4>1. QED
          BY <1>6, <2>4, <2>9, <3>1 DEF Seen
      <3> HIDE DEF m, o, h, s, v
      <3>3. Mail' = [Mail EXCEPT ![h].arrived = Mail[h].arrived + 1] /\ Mail[h].arrived = o.arrived
        BY <2>5, <3>2
      <3>4. Box!Arrive(h)
        BY <1>1, <1>4, <2>2, <2>6, <3>3 DEF Box!Arrive
      <3>5. QED
        BY <2>5, <3>4
    <2>10. CASE answer \in Unheard /\ Seen(m) # Seen(o)
      <3>1. answer # "ok"
        BY <2>10 DEF Unheard
      <3>2. m.unheard \in {o.unheard, o.unheard + 1}
        BY <2>4, <2>10 DEF OneMore
      <3>3. Seen(m) = [Seen(o) EXCEPT !.unheard = o.unheard + 1] /\ Seen(o).unheard = o.unheard
        <4> HIDE DEF m, o
        <4>1. m.unheard = o.unheard => Seen(m) = Seen(o)
          BY <1>6, <2>4, <3>1 DEF Seen
        <4>2. m.unheard = o.unheard + 1
          BY <2>10, <3>2, <4>1
        <4>3. QED
          BY <1>6, <2>4, <3>1, <4>2 DEF Seen
      <3> HIDE DEF m, o, h, s, v
      <3>4. Mail' = [Mail EXCEPT ![h].unheard = Mail[h].unheard + 1]
        BY <2>5, <3>3
      <3>5. Box!Fail(h)
        BY <1>1, <1>4, <2>6, <3>4 DEF Box!Fail
      <3>6. QED
        BY <2>5, <3>5
    <2>11. CASE answer # "ok" /\ answer \notin Unheard
      <3>1. Seen(m) = Seen(o)
        <4> HIDE DEF m, o
        <4>1. QED
          BY <1>6, <2>4, <2>11 DEF Seen
      <3>2. QED
        BY <2>8, <3>1
    <2>12. QED
      BY <2>8, <2>9, <2>10, <2>11
  <1>7. QED
    BY <1>2, <1>5, <1>6

LEMMA ClearFailuresSame ==
  ASSUME SubscriptionsAssumption, IInv, IInv', ClearFailures
  PROVE  UNCHANGED <<People, Mail, used>>
  <1> DEFINE s == Head1.to
             v == [subs[s] EXCEPT !.failures = 0, !.since = None]
  <1>1. disp.at = "clear" /\ UNCHANGED <<outbox, used>> /\ subs' = [subs EXCEPT ![s] = v]
    BY DEF ClearFailures
  <1>2. s \in DOMAIN subs /\ subs[s] \in Subscriber
    BY <1>1, HeadIs, Tables DEF IInv
  <1>3. v.status = subs[s].status
    BY <1>2 DEF Subscriber
  <1> HIDE DEF s, v
  <1>4. People' = People
    BY <1>1, <1>2, <1>3, SameStanding
  <1>5. QED
    BY <1>1, <1>4 DEF Mail

LEMMA CountFailureSame ==
  ASSUME SubscriptionsAssumption, IInv, IInv', CountFailure
  PROVE  UNCHANGED <<People, Mail, used>>
  <1> DEFINE s == Head1.to
             v == Counted(subs[s], disp.lag)
  <1>1. /\ disp.at = "count" /\ UNCHANGED <<outbox, used>>
        /\ UNCHANGED subs \/ subs' = [subs EXCEPT ![s] = v]
    BY DEF CountFailure
  <1>2. s \in DOMAIN subs /\ subs[s] \in Subscriber /\ disp.lag \in Nat
    BY <1>1, HeadIs, Tables DEF IInv, TypeOK, Dispatcher
  <1> HIDE DEF s
  <1>3. v.status = subs[s].status
    BY <1>2, CountedIs
  <1> HIDE DEF v
  <1>4. People' = People
    BY <1>1, <1>2, <1>3, SameStanding
  <1>5. QED
    BY <1>1, <1>4 DEF Mail

LEMMA QuarantineHolds ==
  ASSUME SubscriptionsAssumption, IInv, IInv', Quarantine
  PROVE  \/ UNCHANGED <<People, Mail, used>>
         \/ \E s \in DOMAIN People : Box!Hold(s)
  <1> DEFINE s == Head1.to
             v == [subs[s] EXCEPT !.status = "quarantined", !.held = disp.lag]
  <1>1. disp.at = "quarantine" /\ UNCHANGED <<outbox, used>>
        /\ subs' = IF subs[s].status \in {"quarantined", "gone"} THEN subs
                   ELSE [subs EXCEPT ![s] = v]
    BY DEF Quarantine
  <1>2. s \in DOMAIN subs /\ subs[s] \in Subscriber /\ disp.lag \in Nat
    BY <1>1, HeadIs, Tables DEF IInv, TypeOK, Dispatcher
  <1>3. Views /\ Mail' = Mail
    BY <1>1, ViewsHold DEF Mail
  <1>4. CASE subs[s].status \in {"quarantined", "gone"}
    BY <1>1, <1>3, <1>4 DEF People
  <1>5. CASE subs[s].status \notin {"quarantined", "gone"}
    <2>1. subs' = [subs EXCEPT ![s] = v]
      BY <1>1, <1>5
    <2> HIDE DEF s
    <2>2. v.status = "quarantined"
      BY <1>2, QuarantinedIs
    <2> HIDE DEF v
    <2>3. People' = [People EXCEPT ![s] = "quarantined"]
      BY <1>2, <2>1, <2>2, PeopleOne
    <2>4. s \in DOMAIN People /\ People[s] \in {"pending", "active"}
      BY <1>2, <1>3, <1>5 DEF Views, Subscriber
    <2>5. QED
      BY <1>1, <1>3, <2>3, <2>4 DEF Box!Hold
  <1>6. QED
    BY <1>4, <1>5

LEMMA TickSame ==
  ASSUME SubscriptionsAssumption, IInv, IInv', Tick
  PROVE  UNCHANGED <<People, Mail, used>>
  <1>1. /\ subs' = [s \in DOMAIN subs |-> AgedSubscriber(subs[s])] /\ UNCHANGED used
        /\ outbox' = [i \in DOMAIN outbox |-> [outbox[i] EXCEPT !.wait = Greater(@ - 1, 0)]]
    BY DEF Tick
  <1>2. Views /\ Views'
    BY ViewsHold
  <1>3. DOMAIN subs' = DOMAIN subs /\ \A s \in DOMAIN subs : subs'[s].status = subs[s].status
    <2> SUFFICES ASSUME NEW s \in DOMAIN subs PROVE subs'[s].status = subs[s].status
      BY <1>1
    <2>1. subs[s] \in Subscriber /\ subs'[s] = AgedSubscriber(subs[s])
      BY <1>1, <1>2 DEF Views
    <2>2. QED
      BY <2>1, AgedIs
  <1>4. DOMAIN outbox' = DOMAIN outbox /\ \A i \in DOMAIN outbox : Seen(outbox'[i]) = Seen(outbox[i])
    <2> SUFFICES ASSUME NEW i \in DOMAIN outbox PROVE Seen(outbox'[i]) = Seen(outbox[i])
      BY <1>1
    <2> DEFINE wait == Greater(outbox[i].wait - 1, 0)
    <2>1. outbox[i] \in Message /\ outbox'[i] = [outbox[i] EXCEPT !.wait = wait]
      BY <1>1, <1>2 DEF Views
    <2> HIDE DEF wait
    <2>2. QED
      BY <2>1 DEF Seen, Message
  <1>5. QED
    BY <1>1, <1>2, <1>3, <1>4, PeopleSame, MailSame

LEMMA CutShortCuts ==
  ASSUME SubscriptionsAssumption, IInv, IInv', CutShort
  PROVE  Box!Cut
  <1>1. UNCHANGED <<subs, outbox>> /\ used' = [used EXCEPT !.cuts = used.cuts + 1]
    BY DEF CutShort, Spend
  <1>2. used \in [{"signups", "events", "cuts", "lost"} -> Nat]
    BY DEF IInv, TypeOK
  <1>3. used'.cuts = used.cuts + 1 /\ used'.lost = used.lost
    BY <1>1, <1>2
  <1>4. QED
    BY <1>1, <1>3 DEF Box!Cut, People, Mail

\* A message comes although its sending ended in an error.
LEMMA ArrivesLateArrives ==
  ASSUME SubscriptionsAssumption, IInv, IInv', NEW i \in DOMAIN outbox, ArrivesLate(i)
  PROVE  i \in DOMAIN Mail /\ Box!ArriveLate(i)
  <1> DEFINE o == outbox[i]
             less == o.unheard - 1
             more == o.arrived + 1
             m == [o EXCEPT !.unheard = less, !.arrived = more]
  <1>1. Views /\ Views'
    BY ViewsHold
  <1>2. /\ \A s \in DOMAIN subs : subs'[s].status = subs[s].status
        /\ used'.cuts = used.cuts /\ used'.lost = used.lost + 1 /\ o.unheard > 0 /\ o.status # "gone"
    BY LateIs
  <1>3. DOMAIN subs' = DOMAIN subs
    BY DEF ArrivesLate
  <1>4. People' = People
    BY <1>1, <1>2, <1>3, PeopleSame
  <1>5. outbox' = [outbox EXCEPT ![i] = m]
    BY DEF ArrivesLate
  <1>6. o \in Message /\ Mail[i] = Seen(o) /\ i \in DOMAIN Mail /\ Mail' = [Mail EXCEPT ![i] = Seen(m)]
    BY <1>1, <1>5, MailOne DEF Views
  <1>7. Seen(m) = [Seen(o) EXCEPT !.unheard = less, !.arrived = more]
        /\ Seen(o).unheard = o.unheard /\ Seen(o).arrived = o.arrived
    <2> HIDE DEF o
    <2>1. o \in Message
      BY <1>6
    <2> HIDE DEF less, more
    <2>2. /\ m.to = o.to /\ m.event = o.event /\ m.status = o.status
          /\ m.unheard = less /\ m.arrived = more
      BY <2>1 DEF Message
    <2> HIDE DEF m
    <2> DEFINE news == o.status # "gone" /\ o.event # Confirm
    <2>3. (m.status # "gone" /\ m.event # Confirm) = news
      BY <2>2
    <2> HIDE DEF news
    <2>4. Seen(m) = [to |-> o.to, news |-> news, fate |-> o.status, arrived |-> more, unheard |-> less]
      BY <2>2, <2>3 DEF Seen
    <2>5. Seen(o) = [to |-> o.to, news |-> news, fate |-> o.status,
                     arrived |-> o.arrived, unheard |-> o.unheard]
      BY DEF Seen, news
    <2>6. Seen(o).unheard = o.unheard /\ Seen(o).arrived = o.arrived
      BY <2>5
    <2> DEFINE b == [Seen(o) EXCEPT !.unheard = less]
    <2>7. b = [to |-> o.to, news |-> news, fate |-> o.status, arrived |-> o.arrived, unheard |-> less]
      BY <2>5
    <2>8. Seen(m) = [Seen(o) EXCEPT !.unheard = less, !.arrived = more]
      <3>1. [Seen(o) EXCEPT !.unheard = less, !.arrived = more] = [b EXCEPT !.arrived = more]
        OBVIOUS
      <3> HIDE DEF b
      <3>2. Seen(m) = [b EXCEPT !.arrived = more]
        BY <2>4, <2>7
      <3>3. QED
        BY <3>1, <3>2
    <2>9. QED
      BY <2>6, <2>8
  <1> HIDE DEF m
  <1>8. Mail' = [Mail EXCEPT ![i].unheard = Mail[i].unheard - 1, ![i].arrived = Mail[i].arrived + 1]
    BY <1>6, <1>7
  <1>9. Mail[i].unheard > 0
    BY <1>2, <1>6, <1>7
  <1>10. QED
    BY <1>2, <1>4, <1>6, <1>8, <1>9 DEF Box!ArriveLate

LEMMA WithdrawnIs ==
  ASSUME NEW m
  PROVE  Box!Withdrawn(m) = [to |-> m.to, news |-> FALSE, fate |-> "gone", arrived |-> 0, unheard |-> 0]
  <1> DEFINE a == [to |-> m.to, news |-> FALSE, fate |-> "queued", arrived |-> 0, unheard |-> 0]
  <1>1. Box!Withdrawn(m) = [a EXCEPT !.fate = "gone"]
    BY DEF Box!Withdrawn, Box!Accepted
  <1>2. QED
    BY <1>1

\* Messages that are withdrawn, and those that stay.
LEMMA DropSeen ==
  ASSUME IInv, Views, NEW D
  PROVE  /\ Drop(D) \in Seq(Message) /\ Len(Drop(D)) = Len(outbox) /\ DOMAIN Drop(D) = DOMAIN outbox
         /\ \A i \in DOMAIN outbox :
              Seen(Drop(D)[i]) = IF i \in D THEN Box!Withdrawn(Mail[i]) ELSE Mail[i]
  <1>1. TypeOK
    BY DEF IInv
  <1>2. /\ Drop(D) \in Seq(Message) /\ Len(Drop(D)) = Len(outbox) /\ DOMAIN Drop(D) = DOMAIN outbox
        /\ \A i \in DOMAIN outbox : Drop(D)[i] = IF i \in D THEN Deleted(i) ELSE outbox[i]
    BY <1>1, DropIs
  <1>3. ASSUME NEW i \in DOMAIN outbox
        PROVE  Seen(Drop(D)[i]) = IF i \in D THEN Box!Withdrawn(Mail[i]) ELSE Mail[i]
    <2>1. outbox[i] \in Message /\ Mail[i] = Seen(outbox[i])
      BY DEF Views
    <2>2. Seen(Deleted(i)) = Box!Withdrawn(Mail[i])
      <3>1. Deleted(i).to = outbox[i].to /\ Deleted(i).status = "gone"
            /\ Deleted(i).arrived = 0 /\ Deleted(i).unheard = 0
        BY <1>1, DeletedType DEF Deleted, NewMessage
      <3>2. Mail[i].to = outbox[i].to
        BY <2>1, SeenIs
      <3>3. QED
        BY <3>1, <3>2, WithdrawnIs DEF Seen
    <2>3. QED
      BY <1>2, <2>1, <2>2
  <1>4. QED
    BY <1>2, <1>3

LEMMA GoneArrivedNot ==
  ASSUME NEW m \in Message, NEW position, NEW got, NEW cuts \in Nat, NEW lost \in Nat,
         MessageOK(m, position, got, cuts, lost), m.status = "gone"
  PROVE  m.arrived = 0 /\ m.unheard = 0
  BY DEF MessageOK, Message

\* A message that is gone already does not change when it is withdrawn.
LEMMA GoneSeen ==
  ASSUME IInv, Views, NEW i \in DOMAIN outbox, outbox[i].status = "gone"
  PROVE  Box!Withdrawn(Mail[i]) = Mail[i]
  <1>1. outbox[i] \in Message /\ Mail[i] = Seen(outbox[i])
    BY DEF Views
  <1>2. outbox[i].arrived = 0 /\ outbox[i].unheard = 0
    <2>1. MessageOK(outbox[i], Position(i), disp.got, used.cuts, used.lost) /\ used.cuts \in Nat /\ used.lost \in Nat
      BY PositionIs
    <2>2. QED
      BY <1>1, <2>1, GoneArrivedNot, SMT
  <1>3. (outbox[i].status # "gone" /\ outbox[i].event # Confirm) = FALSE
    OBVIOUS
  <1>4. Mail[i] = [to |-> outbox[i].to, news |-> FALSE, fate |-> "gone", arrived |-> 0,
                  unheard |-> 0]
    BY <1>1, <1>2, <1>3 DEF Seen
  <1>5. Mail[i].to = outbox[i].to
    BY <1>4
  <1>6. QED
    BY <1>4, <1>5, WithdrawnIs

LEMMA DeleteLeaves ==
  ASSUME SubscriptionsAssumption, IInv, IInv', NEW S, S \subseteq DOMAIN subs,
         \A s \in S : subs[s].status # "gone", Delete(S), UNCHANGED used
  PROVE  S \subseteq DOMAIN People /\ Box!Leave(S)
  <1> DEFINE D == UNION {To(s) : s \in S}
  <1>1. Views /\ Views'
    BY ViewsHold
  <1>2. subs' = [s \in DOMAIN subs |-> IF s \in S THEN Gone ELSE subs[s]] /\ outbox' = Drop(D)
    BY DEF Delete
  <1>3. Gone.status = "gone"
    <2>1. CASE S = {}
      BY DEF Gone, NewSubscriber
    <2>2. CASE S # {}
      <3>1. Choices # {}
        BY <1>1, <2>2 DEF Views, Subscriber
      <3>2. QED
        BY <3>1, GoneType
    <2>3. QED
      BY <2>1, <2>2
  <1>4. People' = [s \in DOMAIN People |-> IF s \in S THEN "gone" ELSE People[s]]
    <2>1. DOMAIN subs' = DOMAIN subs
          /\ \A s \in DOMAIN subs : subs'[s].status = IF s \in S THEN "gone" ELSE subs[s].status
      BY <1>2, <1>3
    <2>2. QED
      BY <2>1 DEF People
  <1>5. \A i \in DOMAIN outbox : i \in D <=> outbox[i].to \in S /\ outbox[i].status # "gone"
    BY DEF To
  <1>6. \A i \in DOMAIN Mail : i \in DOMAIN outbox /\ Mail[i].to = outbox[i].to
    BY <1>1, SeenIs DEF Views
  <1> HIDE DEF D
  <1>7. Mail' = Box!Without(Box!MailTo(S))
    <2>1. DOMAIN outbox' = DOMAIN outbox
          /\ \A i \in DOMAIN outbox :
               Seen(outbox'[i]) = IF i \in D THEN Box!Withdrawn(Mail[i]) ELSE Mail[i]
      BY <1>1, <1>2, DropSeen
    <2>2. ASSUME NEW i \in DOMAIN outbox
          PROVE  Seen(outbox'[i]) = IF i \in Box!MailTo(S) THEN Box!Withdrawn(Mail[i]) ELSE Mail[i]
      <3>1. i \in Box!MailTo(S) <=> outbox[i].to \in S
        BY <1>1, <1>6 DEF Views, Box!MailTo
      <3>2. CASE outbox[i].status = "gone"
        BY <1>1, <1>5, <2>1, <3>1, <3>2, GoneSeen
      <3>3. CASE outbox[i].status # "gone"
        BY <1>5, <2>1, <3>1, <3>3
      <3>4. QED
        BY <3>2, <3>3
    <2>3. DOMAIN Mail = DOMAIN outbox
      BY <1>1 DEF Views
    <2>4. QED
      BY <2>1, <2>2, <2>3 DEF Mail, Box!Without
  <1>8. \A s \in S : s \in DOMAIN People /\ People[s] # "gone"
    BY <1>1 DEF Views
  <1>9. QED
    BY <1>4, <1>7, <1>8 DEF Box!Leave

LEMMA RemoveGoneLeaves ==
  ASSUME SubscriptionsAssumption, IInv, IInv', RemoveGone
  PROVE  \/ UNCHANGED <<People, Mail, used>>
         \/ \E S \in SUBSET DOMAIN People : Box!Leave(S)
  <1> DEFINE s == Head1.to
  <1>1. disp.at = "remove" /\ UNCHANGED used
        /\ IF subs[s].status # "gone" THEN Delete({s}) ELSE UNCHANGED <<subs, outbox>>
    BY DEF RemoveGone
  <1>2. s \in DOMAIN subs
    BY <1>1, HeadIs
  <1> HIDE DEF s
  <1>3. CASE subs[s].status # "gone"
    <2>1. {s} \subseteq DOMAIN People /\ Box!Leave({s})
      BY <1>1, <1>2, <1>3, DeleteLeaves
    <2>2. QED
      BY <2>1
  <1>4. CASE subs[s].status = "gone"
    BY <1>1, <1>4 DEF People, Mail
  <1>5. QED
    BY <1>3, <1>4

-----------------------------------------------------------------------------
(* Visitors.                                                               *)

LEMMA ConfirmSubmitConfirms ==
  ASSUME SubscriptionsAssumption, IInv, IInv', NEW s \in DOMAIN subs, ConfirmSubmit(s)
  PROVE  s \in DOMAIN People /\ Box!OptIn(s)
  <1> DEFINE v == Activated(subs[s])
  <1>1. Works(s) /\ subs' = [subs EXCEPT ![s] = v] /\ UNCHANGED <<outbox, used>>
    BY DEF ConfirmSubmit
  <1>2. Views
    BY ViewsHold
  <1>3. v.status = "active"
    BY <1>2, ActivatedIs DEF Views
  <1> HIDE DEF v
  <1>4. People' = [People EXCEPT ![s] = "active"]
    BY <1>1, <1>3, PeopleOne
  <1>5. s \in DOMAIN People /\ People[s] = "pending"
    BY <1>1, <1>2 DEF Views, Works
  <1>6. QED
    BY <1>1, <1>4, <1>5 DEF Box!OptIn, Mail

LEMMA LinkChatConfirms ==
  ASSUME SubscriptionsAssumption, IInv, IInv', NEW s \in DOMAIN subs, NEW chat \in Chats, LinkChat(s, chat)
  PROVE  /\ s \in DOMAIN People
         /\ Box!OptIn(s) \/ \E t \in DOMAIN People : Box!TakeOver(s, t)
  <1>1. Works(s) /\ subs[s].addr = Unlinked /\ UNCHANGED <<outbox, used>>
    BY DEF LinkChat
  <1>2. Views /\ Views'
    BY ViewsHold
  <1>3. s \in DOMAIN People /\ People[s] = "pending" /\ Mail' = Mail
    BY <1>1, <1>2 DEF Views, Works, Mail
  <1>4. CASE Have(chat) = {}
    <2> DEFINE v == [Activated(subs[s]) EXCEPT !.addr = chat]
    <2>1. subs' = [subs EXCEPT ![s] = v]
      BY <1>4 DEF LinkChat
    <2>2. v.status = "active"
      BY <1>2, LinkedIs DEF Views
    <2> HIDE DEF v
    <2>3. People' = [People EXCEPT ![s] = "active"]
      BY <2>1, <2>2, PeopleOne
    <2>4. QED
      BY <1>1, <1>3, <2>3 DEF Box!OptIn
  <1>5. CASE Have(chat) # {}
    <2> DEFINE t == CHOOSE t \in Have(chat) : TRUE
               v == [subs[t] EXCEPT !.status = "active", !.wants = subs[s].wants, !.failures = 0,
                                    !.since = None, !.held = 0, !.streak = <<>>]
    <2>1. subs' = [subs EXCEPT ![s] = Gone, ![t] = v]
      BY <1>5 DEF LinkChat
    <2>2. t \in Have(chat)
      BY <1>5
    <2> HIDE DEF t
    <2>3. t \in DOMAIN subs /\ subs[t].status # "gone" /\ subs[t].addr = chat /\ chat # Unlinked
      BY <2>2, HaveIs DEF Live
    <2>4. s # t
      BY <1>1, <2>3
    <2>5. v.status = "active"
      <3>1. subs[t] \in Subscriber /\ subs[s].wants \in Choices
        BY <1>2, <2>3 DEF Views, Subscriber
      <3>2. QED
        BY <3>1, TakenOverIs
    <2>6. Gone.status = "gone"
      BY <1>2, GoneType DEF Views, Subscriber
    <2> HIDE DEF v
    <2>7. People' = [People EXCEPT ![s] = "gone", ![t] = "active"]
      <3>1. DOMAIN subs' = DOMAIN subs
            /\ \A x \in DOMAIN subs : subs'[x].status = IF x = t THEN "active" ELSE IF x = s THEN "gone"
                                                        ELSE subs[x].status
        BY <2>1, <2>3, <2>4, <2>5, <2>6
      <3>2. QED
        BY <2>4, <3>1 DEF People
    <2>8. \A i \in Box!MailTo({s}) : Mail[i].fate = "gone"
      <3> SUFFICES ASSUME NEW i \in DOMAIN Mail, Mail[i].to = s PROVE Mail[i].fate = "gone"
        BY DEF Box!MailTo
      <3>1. i \in DOMAIN outbox /\ outbox[i].to = s /\ Mail[i].fate = outbox[i].status
        BY <1>2, SeenIs DEF Views
      <3>2. Live(s)
        BY <1>1 DEF Works, Live
      <3>3. QED
        BY <1>1, <3>1, <3>2 DEF IInv, UnlinkedInv
    <2>9. t \in DOMAIN People /\ People[t] # "gone"
      BY <1>2, <2>3 DEF Views
    <2>10. Box!TakeOver(s, t)
      BY <1>1, <1>3, <2>4, <2>7, <2>8, <2>9 DEF Box!TakeOver
    <2>11. QED
      BY <1>3, <2>9, <2>10
  <1>6. QED
    BY <1>4, <1>5

\* Messages queued for some subscribers, as they are seen.
IsNews(e) == e # Confirm

Extends(box, new, S, e) ==
  /\ Cardinality(S) \in Nat /\ new \in Seq(Message) /\ Len(new) = Len(box) + Cardinality(S)
  /\ \A k \in 1 .. Cardinality(S) : InOrder(S)[k] \in S
  /\ \A i \in 1 .. Len(new) :
       Seen(new[i]) = IF i <= Len(box) THEN Seen(box[i])
                      ELSE Box!Accepted(InOrder(S)[i - Len(box)], IsNews(e))

LEMMA EnqueueSeen ==
  ASSUME NEW box \in Seq(Message), NEW S, Ids(S), NEW e \in Events \cup {Confirm}
  PROVE  Extends(box, Enqueue(S, e, box), S, e)
  <1> DEFINE c == Cardinality(S)
             q == InOrder(S)
             new == [k \in 1 .. c |-> NewMessage(q[k], e)]
             n == Len(box)
  <1>0. Cardinality(S) \in Nat /\ \A k \in 1 .. Cardinality(S) : InOrder(S)[k] \in S
    BY InOrderPicks
  <1>1. c \in Nat /\ \A k \in 1 .. c : q[k] \in S
    BY <1>0
  <1> HIDE DEF c, q
  <1>2. \A k \in 1 .. c : q[k] \in Nat
    <2> PICK last \in Nat : S \subseteq 1 .. last
      BY DEF Ids
    <2>1. \A x \in S : x \in Nat
      OBVIOUS
    <2>2. QED
      BY <1>1, <2>1
  <1>3. \A k \in 1 .. c : new[k] \in Message
    BY <1>2, NewMessageType
  <1>4. new \in Seq(Message) /\ Len(new) = c
    BY <1>1, <1>3
  <1>5. \A k \in 1 .. c : Seen(new[k]) = Box!Accepted(q[k], IsNews(e))
    BY DEF Seen, NewMessage, Box!Accepted, IsNews
  <1>6. Enqueue(S, e, box) = box \o new
    BY DEF Enqueue, c, q
  <1> HIDE DEF new
  <1>7. /\ n \in Nat /\ box \o new \in Seq(Message) /\ Len(box \o new) = n + c
        /\ \A i \in 1 .. n + c : (box \o new)[i] = IF i <= n THEN box[i] ELSE new[i - n]
    BY <1>4, LenProperties, ConcatProperties
  <1> HIDE DEF n
  <1>8. \A i \in 1 .. n + c : ~(i <= n) => i - n \in 1 .. c
    BY <1>1, <1>7
  <1>9. \A i \in 1 .. n + c : Seen((box \o new)[i]) = IF i <= n THEN Seen(box[i])
                                                     ELSE Box!Accepted(q[i - n], IsNews(e))
    BY <1>5, <1>7, <1>8
  <1>10. QED
    BY <1>1, <1>6, <1>7, <1>9 DEF Extends, c, q, n

\* The confirmation of a sign-up comes after what is left of the box.
LEMMA ConfirmationSeen ==
  ASSUME SubscriptionsAssumption, Views, Views', NEW box \in Seq(Message), Len(box) = Len(outbox),
         NEW s \in Nat \ {0}, outbox' = Enqueue({s}, Confirm, box)
  PROVE  /\ [i \in DOMAIN box |-> Seen(box[i])] \in Seq(Letter)
         /\ Mail' = Append([i \in DOMAIN box |-> Seen(box[i])], Box!Accepted(s, FALSE))
  <1> DEFINE v == [i \in DOMAIN box |-> Seen(box[i])]
             a == Box!Accepted(s, FALSE)
             n == Len(box)
             S == {s}
  <1>1. Ids(S)
    BY DEF Ids
  <1>2. Cardinality(S) = 1
    BY FS_Singleton
  <1>3. v \in Seq(Letter) /\ Len(v) = n /\ n \in Nat /\ \A i \in 1 .. n : v[i] = Seen(box[i])
    BY SeenSeq DEF Views
  <1>4. a \in Letter
    BY DEF Box!Accepted, Letter
  <1> HIDE DEF S
  <1>5. /\ Len(outbox') = n + 1 /\ InOrder(S)[1] \in S
        /\ \A i \in 1 .. n + 1 : Seen(outbox'[i]) = IF i <= n THEN Seen(box[i])
                                                  ELSE Box!Accepted(InOrder(S)[i - n], IsNews(Confirm))
    <2>1. outbox' = Enqueue(S, Confirm, box) /\ Confirm \in Events \cup {Confirm}
      BY DEF S
    <2> DEFINE new == Enqueue(S, Confirm, box)
    <2>2. /\ Cardinality(S) \in Nat /\ Len(new) = n + Cardinality(S)
          /\ \A k \in 1 .. Cardinality(S) : InOrder(S)[k] \in S
          /\ \A i \in 1 .. Len(new) :
               Seen(new[i]) = IF i <= n THEN Seen(box[i])
                              ELSE Box!Accepted(InOrder(S)[i - n], IsNews(Confirm))
      <3>1. Extends(box, new, S, Confirm)
        BY <1>1, <2>1, EnqueueSeen, Zenon
      <3>2. QED
        BY <3>1 DEF Extends
    <2> HIDE DEF new, n
    <2>3. outbox' = new
      BY <2>1 DEF new
    <2>4. Len(outbox') = n + 1 /\ InOrder(S)[1] \in S
      <3>1. 1 \in 1 .. Cardinality(S)
        BY <1>2
      <3>2. QED
        BY <1>2, <2>2, <2>3, <3>1
    <2>5. ASSUME NEW i \in 1 .. n + 1
          PROVE  Seen(outbox'[i]) = IF i <= n THEN Seen(box[i])
                                    ELSE Box!Accepted(InOrder(S)[i - n], IsNews(Confirm))
      <3>1. i \in 1 .. Len(new)
        BY <2>3, <2>4
      <3>2. QED
        BY <2>2, <2>3, <3>1
    <2>6. QED
      BY <2>4, <2>5
  <1>6. InOrder(S)[1] = s /\ ~IsNews(Confirm)
    BY <1>5 DEF S, IsNews
  <1>7. Len(outbox) = n
    OBVIOUS
  <1> HIDE DEF v, n
  <1>8. n \in Nat
    BY <1>3
  <1>9. Seen(outbox'[n + 1]) = a
    <2>1. Seen(outbox'[n + 1]) = Box!Accepted(InOrder(S)[1], IsNews(Confirm))
      <3> DEFINE j == n + 1
      <3>1. j \in 1 .. n + 1 /\ ~(j <= n) /\ j - n = 1
        BY <1>8
      <3> HIDE DEF j
      <3>2. Seen(outbox'[j]) = Box!Accepted(InOrder(S)[j - n], IsNews(Confirm))
        BY <1>5, <3>1
      <3>3. QED
        BY <3>1, <3>2 DEF j
    <2>2. IsNews(Confirm) = FALSE
      BY DEF IsNews
    <2>3. QED
      BY <1>6, <2>1, <2>2
  <1> HIDE DEF a
  <1>10. \A i \in 1 .. n : Seen(outbox'[i]) = v[i]
    <2>1. \A i \in 1 .. n : i \in 1 .. n + 1 /\ i <= n
      BY <1>3
    <2>2. QED
      BY <1>3, <1>5, <2>1
  <1>11. /\ Append(v, a) \in Seq(Letter) /\ Len(Append(v, a)) = n + 1
         /\ \A i \in 1 .. n : Append(v, a)[i] = v[i]
         /\ Append(v, a)[n + 1] = a
    <2>1. /\ Append(v, a) \in Seq(Letter) /\ Len(Append(v, a)) = Len(v) + 1
          /\ \A i \in 1 .. Len(v) : Append(v, a)[i] = v[i]
          /\ Append(v, a)[Len(v) + 1] = a
      <3>1. v \in Seq(Letter) /\ a \in Letter
        BY <1>3, <1>4
      <3>2. QED
        BY <3>1, AppendProperties, SMTT(30)
    <2>2. QED
      BY <1>3, <2>1
  <1>12. /\ Mail' \in Seq(Letter) /\ Len(Mail') = n + 1
         /\ \A i \in 1 .. n + 1 : Mail'[i] = Seen(outbox'[i])
    BY <1>5 DEF Views
  <1>13. \A i \in 1 .. n + 1 : Mail'[i] = Append(v, a)[i]
    <2> SUFFICES ASSUME NEW i \in 1 .. n + 1 PROVE Mail'[i] = Append(v, a)[i]
      OBVIOUS
    <2>1. i = n + 1 \/ i \in 1 .. n
      BY <1>3
    <2>2. QED
      BY <1>9, <1>10, <1>11, <1>12, <2>1
  <1>14. Mail' = Append(v, a)
    BY <1>11, <1>12, <1>13, SeqEqual
  <1>15. QED
    BY <1>3, <1>14 DEF v, a

\* A new row.
LEMMA PeopleMore ==
  ASSUME Views, Views', NEW v \in Subscriber, v.status = "pending", subs' = Append(subs, v)
  PROVE  People' = Append(People, "pending") /\ Len(subs') = Len(subs) + 1 /\ Len(People') = Len(subs')
  <1> DEFINE n == Len(subs)
  <1>1. subs \in Seq(Subscriber) /\ People \in Seq(Standing) /\ n \in Nat /\ Len(People) = n
        /\ "pending" \in Standing
    BY DEF Views, Standing
  <1>2. /\ Len(subs') = n + 1 /\ (\A s \in 1 .. n : subs'[s] = subs[s]) /\ subs'[n + 1] = v
    BY <1>1, AppendProperties
  <1> DEFINE p == Append(People, "pending")
  <1>3. /\ p \in Seq(Standing) /\ Len(p) = n + 1
        /\ (\A s \in 1 .. n : p[s] = People[s]) /\ p[n + 1] = "pending"
    <2>1. /\ p \in Seq(Standing) /\ Len(p) = Len(People) + 1
          /\ (\A s \in 1 .. Len(People) : p[s] = People[s]) /\ p[Len(People) + 1] = "pending"
      BY <1>1, AppendProperties
    <2> HIDE DEF p, n
    <2>2. QED
      BY <1>1, <2>1
  <1>4. /\ People' \in Seq(Standing) /\ Len(People') = n + 1
        /\ \A s \in 1 .. n + 1 : People'[s] = subs'[s].status
    BY <1>2 DEF Views
  <1>5. \A s \in 1 .. n : People[s] = subs[s].status
    BY DEF Views
  <1> HIDE DEF p, n
  <1>6. \A s \in 1 .. n + 1 : People'[s] = p[s]
    <2> SUFFICES ASSUME NEW s \in 1 .. n + 1 PROVE People'[s] = p[s]
      OBVIOUS
    <2>1. s = n + 1 \/ s \in 1 .. n
      BY <1>1
    <2>2. QED
      BY <1>2, <1>3, <1>4, <1>5, <2>1
  <1>7. People' = p
    BY <1>3, <1>4, <1>6, SeqEqual
  <1>8. QED
    BY <1>2, <1>4, <1>7 DEF p, n

LEMMA SignUpByLinkJoins ==
  ASSUME SubscriptionsAssumption, IInv, IInv', NEW wants \in Choices, SignUpByLink(wants)
  PROVE  Box!Join
  <1> DEFINE a == NewSubscriber(Unlinked, wants, used.signups + 1)
             v == [a EXCEPT !.inHand = TRUE]
  <1>1. subs' = Append(subs, v) /\ UNCHANGED outbox /\ used'.cuts = used.cuts /\ used'.lost = used.lost /\ used.signups + 1 \in Nat
    BY SpendIs DEF SignUpByLink, IInv
  <1>2. a \in Subscriber /\ a.status = "pending"
    BY <1>1, NewSubscriberType DEF NewSubscriber
  <1> HIDE DEF a
  <1>3. v \in Subscriber /\ v.status = "pending"
    BY <1>2 DEF Subscriber
  <1> HIDE DEF v
  <1>4. People' = Append(People, "pending")
    BY <1>1, <1>3, ViewsHold, PeopleMore
  <1>5. Mail' = Mail
    BY <1>1 DEF Mail
  <1>6. QED
    BY <1>1, <1>4, <1>5 DEF Box!Join

\* A new address: a row is added, and its confirmation.
LEMMA SignUpNewJoins ==
  ASSUME SubscriptionsAssumption, IInv, IInv', NEW addr \in Forms, NEW wants \in Choices,
         SignUpNew(addr, wants), Spend("signups")
  PROVE  Box!Join
  <1> DEFINE v == NewSubscriber(addr, wants, used.signups + 1)
             id == Len(subs')
  <1>1. subs' = Append(subs, v) /\ outbox' = Enqueue({id}, Confirm, outbox)
    BY DEF SignUpNew
  <1>2. used'.cuts = used.cuts /\ used'.lost = used.lost /\ used.signups + 1 \in Nat
    BY SpendIs DEF IInv
  <1>3. v \in Subscriber /\ v.status = "pending"
    BY <1>2, NewSubscriberType DEF NewSubscriber
  <1> HIDE DEF v
  <1>4. Views /\ Views'
    BY ViewsHold
  <1>5. People' = Append(People, "pending") /\ id = Len(subs) + 1 /\ Len(People') = id
    BY <1>1, <1>3, <1>4, PeopleMore
  <1>6. outbox \in Seq(Message) /\ Len(outbox) = Len(outbox) /\ id \in Nat \ {0}
    BY <1>4, <1>5 DEF Views
  <1> HIDE DEF id
  <1>7. Mail' = Append([i \in DOMAIN outbox |-> Seen(outbox[i])], Box!Accepted(id, FALSE))
    BY <1>1, <1>4, <1>6, ConfirmationSeen
  <1>8. Mail' = Append(Mail, Box!Accepted(Len(People'), FALSE))
    BY <1>5, <1>7 DEF Mail
  <1>9. QED
    BY <1>2, <1>5, <1>8 DEF Box!Join

\* An address that did not confirm, or is in quarantine: what waits for it is
\* withdrawn, whichever it is.
LEMMA SignUpAgainStartsOver ==
  ASSUME SubscriptionsAssumption, IInv, IInv', NEW s \in DOMAIN subs, Live(s), NEW wants \in Choices,
         SignUpAgain(s, wants), Spend("signups")
  PROVE  s \in DOMAIN People /\ Box!StartOver(s)
  <1> DEFINE v == NewSubscriber(subs[s].addr, wants, used.signups + 1)
             stale == IF subs[s].status = "quarantined" THEN Held(s) ELSE {}
             D == stale \cup OldConfirms(s)
  <1>1. subs' = [subs EXCEPT ![s] = v] /\ outbox' = Enqueue({s}, Confirm, Drop(D))
        /\ subs[s].status # "active"
    BY DEF SignUpAgain, Renewed, MayRenew
  <1>2. used'.cuts = used.cuts /\ used'.lost = used.lost /\ used.signups + 1 \in Nat
    BY SpendIs DEF IInv
  <1>3. Views /\ Views'
    BY ViewsHold
  <1>4. subs[s] \in Subscriber /\ s \in Nat \ {0} /\ s \in DOMAIN People /\ People[s] = subs[s].status
    <2>1. DOMAIN subs = 1 .. Len(subs) /\ Len(subs) \in Nat /\ DOMAIN People = DOMAIN subs
          /\ subs[s] \in Subscriber /\ People[s] = subs[s].status
      BY <1>3 DEF Views
    <2>2. QED
      BY <2>1
  <1>5. v.status = "pending"
    BY DEF NewSubscriber
  <1>6. D \subseteq DOMAIN outbox /\ \A i \in D : outbox[i].to = s
    BY DEF Held, OldConfirms, To
  <1>7. \A i \in DOMAIN outbox : Queued(i) /\ outbox[i].to = s => i \in D
    <2> SUFFICES ASSUME NEW i \in DOMAIN outbox, Queued(i), outbox[i].to = s PROVE i \in D
      OBVIOUS
    <2>1. i \in Held(s)
      BY DEF Held, To, Queued
    <2>2. CASE subs[s].status = "quarantined"
      BY <2>1, <2>2
    <2>3. CASE subs[s].status = "pending"
      <3>1. outbox[i].event = Confirm
        BY <2>3 DEF IInv, PendingHoldsNoNews
      <3>2. i \in OldConfirms(s)
        BY <3>1 DEF OldConfirms, To, Queued
      <3>3. QED
        BY <3>2
    <2>4. QED
      BY <1>1, <1>4, <2>2, <2>3 DEF Live, Subscriber
  <1> HIDE DEF D, v
  <1>8. People' = [People EXCEPT ![s] = "pending"]
    BY <1>1, <1>5, PeopleOne
  <1> DEFINE box == Drop(D)
             rest == [i \in DOMAIN box |-> Seen(box[i])]
  <1>9. /\ box \in Seq(Message) /\ Len(box) = Len(outbox) /\ DOMAIN box = DOMAIN outbox
        /\ \A i \in DOMAIN outbox : Seen(box[i]) = IF i \in D THEN Box!Withdrawn(Mail[i]) ELSE Mail[i]
    BY <1>3, DropSeen
  <1>10. outbox' = Enqueue({s}, Confirm, box)
    BY <1>1
  <1> HIDE DEF box
  <1>11. Mail' = Append(rest, Box!Accepted(s, FALSE))
    BY <1>3, <1>4, <1>9, <1>10, ConfirmationSeen
  <1>12. DOMAIN Mail = DOMAIN outbox
         /\ \A i \in DOMAIN Mail : Mail[i].to = outbox[i].to /\ Mail[i].fate = outbox[i].status
    BY <1>3, SeenIs DEF Views
  <1>13. rest = Box!Without(D)
    BY <1>9, <1>12 DEF Box!Without
  <1> HIDE DEF rest
  <1>14. D \in SUBSET Box!MailTo({s}) /\ {i \in Box!MailTo({s}) : Box!Queued(i)} \subseteq D
    BY <1>6, <1>7, <1>12 DEF Box!MailTo, Box!Queued, Queued
  <1>15. People[s] \in {"pending", "quarantined"}
    BY <1>1, <1>4 DEF Live, Subscriber
  <1>16. QED
    BY <1>2, <1>4, <1>8, <1>11, <1>13, <1>14, <1>15 DEF Box!StartOver

LEMMA SignUpImplements ==
  ASSUME SubscriptionsAssumption, IInv, IInv', NEW addr \in Forms, NEW wants \in Choices, SignUp(addr, wants)
  PROVE  Box!Join \/ \E s \in DOMAIN People : Box!StartOver(s)
  <1>1. Spend("signups")
    BY DEF SignUp
  <1>2. CASE SignUpNew(addr, wants)
    BY <1>1, <1>2, SignUpNewJoins
  <1>3. ASSUME NEW s \in Have(addr), SignUpAgain(s, wants)
        PROVE  \E t \in DOMAIN People : Box!StartOver(t)
    <2>1. s \in DOMAIN subs /\ Live(s)
      BY HaveIs
    <2>2. s \in DOMAIN People /\ Box!StartOver(s)
      BY <1>1, <1>3, <2>1, SignUpAgainStartsOver
    <2>3. QED
      BY <2>2
  <1>4. QED
    BY <1>2, <1>3 DEF SignUp

\* Outbox counts as Subscriptions does.
LEMMA SameCardinality ==
  ASSUME NEW S
  PROVE  Box!Cardinality(S) = Cardinality(S)
  BY DEF Box!Cardinality, Cardinality

LEMMA InSomeOrder ==
  ASSUME NEW S, NEW q \in [1 .. Cardinality(S) -> S],
         \A j, k \in 1 .. Cardinality(S) : q[j] = q[k] => j = k
  PROVE  q \in Box!Orders(S)
  BY SameCardinality DEF Box!Orders

\* An event is queued once for each of its audience.
LEMMA FanOutPublishes ==
  ASSUME SubscriptionsAssumption, IInv, IInv', NEW e \in Events, FanOut(e)
  PROVE  Audience(e) \in SUBSET Box!Active /\ Box!Publish(Audience(e))
  <1> DEFINE S == Audience(e)
             c == Cardinality(S)
             q == InOrder(S)
             new == [k \in 1 .. c |-> Box!Accepted(q[k], TRUE)]
             n == Len(outbox)
  <1>1. S # {} /\ outbox' = Enqueue(S, e, outbox) /\ UNCHANGED subs /\ used'.cuts = used.cuts /\ used'.lost = used.lost
    BY SpendIs DEF FanOut, IInv
  <1>2. Views /\ Views'
    BY ViewsHold
  <1>3. S \subseteq DOMAIN subs /\ \A s \in S : subs[s].status = "active"
    BY DEF Audience
  <1>4. S \in SUBSET Box!Active
    BY <1>2, <1>3 DEF Views, Box!Active
  <1>5. Ids(S)
    BY <1>2, <1>3 DEF Views, Ids
  <1> HIDE DEF S
  <1>6. c \in Nat /\ \A k \in 1 .. c : q[k] \in S
    BY <1>5, InOrderPicks
  <1>7. \A j, k \in 1 .. c : q[j] = q[k] => j = k
    BY <1>5, InOrderOnce
  <1>8. q \in [1 .. c -> S]
    <2> DEFINE pick(k) == CHOOSE i \in S : Cardinality({j \in S : j < i}) = k - 1
    <2>1. q = [k \in 1 .. c |-> pick(k)]
      BY DEF InOrder
    <2> HIDE DEF q, c, pick
    <2>2. QED
      BY <1>6, <2>1
  <1>9. q \in Box!Orders(S)
    <2> HIDE DEF q
    <2>1. q \in [1 .. Cardinality(S) -> S] /\ \A j, k \in 1 .. Cardinality(S) : q[j] = q[k] => j = k
      BY <1>7, <1>8
    <2>2. QED
      BY <2>1, InSomeOrder
  <1>10. IsNews(e) = TRUE
    BY DEF IsNews, SubscriptionsAssumption
  <1>11. outbox \in Seq(Message) /\ e \in Events \cup {Confirm}
    BY <1>2 DEF Views
  <1>12. Extends(outbox, outbox', S, e)
    <2>1. Extends(outbox, Enqueue(S, e, outbox), S, e)
      BY <1>5, <1>11, EnqueueSeen, Zenon
    <2>2. QED
      BY <1>1, <2>1
  <1>13. /\ Len(outbox') = n + c
         /\ \A i \in 1 .. Len(outbox') :
              Seen(outbox'[i]) = IF i <= n THEN Seen(outbox[i]) ELSE Box!Accepted(q[i - n], IsNews(e))
    BY <1>12 DEF Extends
  <1> HIDE DEF q, c, n
  <1>14. new \in Seq(Letter) /\ Len(new) = c
    <2>1. \A s \in S : s \in Nat
      <3>1. DOMAIN subs = 1 .. Len(subs) /\ Len(subs) \in Nat
        BY <1>2 DEF Views
      <3>2. QED
        BY <1>3, <3>1
    <2> DEFINE f(k) == Box!Accepted(q[k], TRUE)
    <2>2. \A k \in 1 .. c : f(k) \in Letter
      BY <1>6, <2>1 DEF Box!Accepted, Letter
    <2>3. new = [k \in 1 .. c |-> f(k)]
      OBVIOUS
    <2> HIDE DEF f, new
    <2>4. new \in [1 .. c -> Letter]
      BY <2>2, <2>3
    <2>5. QED
      BY <1>6, <2>4
  <1>15. \A k \in 1 .. c : new[k] = Box!Accepted(q[k], IsNews(e))
    BY <1>10
  <1> DEFINE all == Mail \o new
  <1>16. /\ Mail \in Seq(Letter) /\ Len(Mail) = n /\ n \in Nat
         /\ \A i \in 1 .. n : Mail[i] = Seen(outbox[i])
    BY <1>2 DEF Views, n
  <1>17. /\ all \in Seq(Letter) /\ Len(all) = n + c
         /\ \A i \in 1 .. n + c : all[i] = IF i <= n THEN Mail[i] ELSE new[i - n]
    <2> HIDE DEF new
    <2>1. /\ all \in Seq(Letter) /\ Len(all) = Len(Mail) + Len(new)
          /\ \A i \in 1 .. Len(Mail) + Len(new) : all[i] = IF i <= Len(Mail) THEN Mail[i] ELSE new[i - Len(Mail)]
      <3>1. Mail \in Seq(Letter) /\ new \in Seq(Letter)
        BY <1>14, <1>16
      <3>2. QED
        BY <3>1, ConcatProperties, SMTT(30)
    <2>2. QED
      BY <1>14, <1>16, <2>1
  <1>18. /\ Mail' \in Seq(Letter) /\ Len(Mail') = n + c
         /\ \A i \in 1 .. n + c : Mail'[i] = Seen(outbox'[i])
    BY <1>2, <1>13 DEF Views
  <1> HIDE DEF new, all
  <1>19. ASSUME NEW i \in 1 .. n + c PROVE Mail'[i] = all[i]
    <2>1. i <= n => i \in 1 .. n
      BY <1>6, <1>16
    <2>2. ~(i <= n) => i - n \in 1 .. c
      BY <1>6, <1>16
    <2>3. Seen(outbox'[i]) = IF i <= n THEN Seen(outbox[i]) ELSE Box!Accepted(q[i - n], IsNews(e))
      BY <1>13
    <2>4. all[i] = IF i <= n THEN Mail[i] ELSE new[i - n]
      BY <1>17
    <2>5. CASE i <= n
      BY <1>16, <1>18, <2>1, <2>3, <2>4, <2>5
    <2>6. CASE ~(i <= n)
      BY <1>15, <1>18, <2>2, <2>3, <2>4, <2>6
    <2>7. QED
      BY <2>5, <2>6
  <1>20. Mail' = all
    BY <1>17, <1>18, <1>19, SeqEqual
  <1>21. \E o \in Box!Orders(S) :
           Mail' = Mail \o [k \in 1 .. Cardinality(S) |-> Box!Accepted(o[k], TRUE)]
    BY <1>9, <1>20 DEF all, new, c
  <1>22. People' = People
    BY <1>1 DEF People
  <1>23. S \in SUBSET Box!Active /\ Box!Publish(S)
    <2>1. UNCHANGED <<People, used.cuts, used.lost>>
      BY <1>1, <1>22
    <2>2. QED
      BY <1>1, <1>4, <1>21, <2>1, SameCardinality DEF Box!Publish
  <1>24. QED
    BY <1>23 DEF S

-----------------------------------------------------------------------------
(* Every step.                                                             *)

LEMMA UnsubscribeLeaves ==
  ASSUME SubscriptionsAssumption, IInv, IInv', NEW s \in DOMAIN subs, Unsubscribe(s)
  PROVE  \E S \in SUBSET DOMAIN People : Box!Leave(S)
  <1>1. subs[s].status # "gone" /\ Delete({s}) /\ UNCHANGED used
    BY DEF Unsubscribe
  <1>2. {s} \subseteq DOMAIN People /\ Box!Leave({s})
    BY <1>1, DeleteLeaves
  <1>3. QED
    BY <1>2

LEMMA PruneLeaves ==
  ASSUME SubscriptionsAssumption, IInv, IInv', NEW S, S \subseteq DOMAIN subs,
         \A s \in S : subs[s].status # "gone", Prune(S)
  PROVE  \E T \in SUBSET DOMAIN People : Box!Leave(T)
  <1>1. Delete(S) /\ UNCHANGED used
    BY DEF Prune
  <1>2. S \subseteq DOMAIN People /\ Box!Leave(S)
    BY <1>1, DeleteLeaves
  <1>3. QED
    BY <1>2

LEMMA StepImplements ==
  ASSUME SubscriptionsAssumption, IInv, IInv', [Next]_vars
  PROVE  [Box!Next]_Box!vars
  <1> SUFFICES ASSUME ~UNCHANGED <<People, Mail, used>> PROVE Box!Next
    BY DEF Box!vars
  <1>1. CASE DispatchStep
    <2>1. CASE Poll \/ SkipRow
      BY <2>1 DEF Poll, SkipRow, People, Mail
    <2>2. CASE GiveUp \/ RecordFailure
      <3>1. \E i \in DOMAIN Mail : Box!Settle(i, "failed")
        BY <2>2, GiveUpSettles, RecordFailureSettles
      <3>2. QED
        BY <3>1 DEF Box!Next
    <2>3. CASE \E answer \in Answers : Send(answer)
      <3>1. \E i \in DOMAIN Mail : Box!Arrive(i) \/ Box!Fail(i)
        BY <2>3, SendArrives
      <3>2. QED
        BY <3>1 DEF Box!Next
    <2>4. CASE RecordSent
      <3>1. \E i \in DOMAIN Mail : Box!Settle(i, "sent")
        BY <2>4, RecordSentSettles
      <3>2. QED
        BY <3>1 DEF Box!Next
    <2>5. CASE ClearFailures \/ CountFailure
      BY <2>5, ClearFailuresSame, CountFailureSame
    <2>6. CASE RemoveGone
      <3>1. \E S \in SUBSET DOMAIN People : Box!Leave(S)
        BY <2>6, RemoveGoneLeaves
      <3>2. QED
        BY <3>1 DEF Box!Next
    <2>7. CASE Quarantine
      <3>1. \E s \in DOMAIN People : Box!Hold(s)
        BY <2>7, QuarantineHolds
      <3>2. QED
        BY <3>1 DEF Box!Next
    <2>8. QED
      BY <1>1, <2>1, <2>2, <2>3, <2>4, <2>5, <2>6, <2>7 DEF DispatchStep
  <1>2. CASE Visitor
    <2>1. ASSUME NEW wants \in Choices, NEW addr \in Forms, SignUp(addr, wants) PROVE Box!Next
      <3>1. Box!Join \/ \E s \in DOMAIN People : Box!StartOver(s)
        BY <2>1, SignUpImplements
      <3>2. QED
        BY <3>1 DEF Box!Next
    <2>2. ASSUME NEW wants \in Choices, SignUpByLink(wants) PROVE Box!Next
      <3>1. Box!Join
        BY <2>2, SignUpByLinkJoins
      <3>2. QED
        BY <3>1 DEF Box!Next
    <2>3. ASSUME NEW s \in DOMAIN subs, ConfirmSubmit(s) PROVE Box!Next
      <3>1. s \in DOMAIN People /\ Box!OptIn(s)
        BY <2>3, ConfirmSubmitConfirms
      <3>2. QED
        BY <3>1 DEF Box!Next
    <2>4. ASSUME NEW s \in DOMAIN subs, Unsubscribe(s) PROVE Box!Next
      <3>1. \E S \in SUBSET DOMAIN People : Box!Leave(S)
        BY <2>4, UnsubscribeLeaves
      <3>2. QED
        BY <3>1 DEF Box!Next
    <2>5. ASSUME NEW s \in DOMAIN subs, NEW chat \in Chats, LinkChat(s, chat) PROVE Box!Next
      <3>1. s \in DOMAIN People /\ (Box!OptIn(s) \/ \E t \in DOMAIN People : Box!TakeOver(s, t))
        BY <2>5, LinkChatConfirms
      <3>2. QED
        BY <3>1 DEF Box!Next
    <2>6. QED
      BY <1>2, <2>1, <2>2, <2>3, <2>4, <2>5 DEF Visitor
  <1>3. ASSUME NEW e \in Events, FanOut(e) PROVE Box!Next
    <2>1. Audience(e) \in SUBSET Box!Active /\ Box!Publish(Audience(e))
      BY <1>3, FanOutPublishes
    <2>2. QED
      BY <2>1 DEF Box!Next
  <1>4. CASE Prune(StaleSignUps) \/ Prune(StaleQuarantines)
    <2>1. StaleSignUps \subseteq DOMAIN subs /\ \A s \in StaleSignUps : subs[s].status # "gone"
      BY DEF StaleSignUps
    <2>2. StaleQuarantines \subseteq DOMAIN subs /\ \A s \in StaleQuarantines : subs[s].status # "gone"
      BY DEF StaleQuarantines
    <2>3. \E S \in SUBSET DOMAIN People : Box!Leave(S)
      <3>1. CASE Prune(StaleSignUps)
        BY <2>1, <3>1, PruneLeaves
      <3>2. CASE Prune(StaleQuarantines)
        BY <2>2, <3>2, PruneLeaves
      <3>3. QED
        BY <1>4, <3>1, <3>2
    <2>4. QED
      BY <2>3 DEF Box!Next
  <1>5. CASE CutShort
    BY <1>5, CutShortCuts DEF Box!Next
  <1>6. CASE Tick
    BY <1>6, TickSame
  <1>7. CASE UNCHANGED vars
    BY <1>7 DEF vars, People, Mail
  <1>8. ASSUME NEW i \in DOMAIN outbox, ArrivesLate(i) PROVE Box!Next
    <2>1. i \in DOMAIN Mail /\ Box!ArriveLate(i)
      BY <1>8, ArrivesLateArrives
    <2>2. QED
      BY <2>1 DEF Box!Next
  <1>9. QED
    BY <1>1, <1>2, <1>3, <1>4, <1>5, <1>6, <1>7, <1>8 DEF Next

\* Subscriptions implements Outbox, for any addresses, events, batch and bounds:
\* though the dispatcher sends from rows it read before visitors signed up again,
\* left or were quarantined, a message is settled once and sent no more after
\* that, so that only a send that ended in an error before may still arrive; it
\* arrives again at most once for each cut and each lost answer; who signs up
\* again or leaves takes along every message that waits; news is accepted for
\* the active only, and sent to nobody who has not confirmed.
THEOREM ImplementsOutbox ==
  ASSUME SubscriptionsAssumption
  PROVE  Spec => EachSettledOnce
  <1>1. Init => IInv /\ Box!Init
    <2> SUFFICES ASSUME Init PROVE IInv /\ Box!Init
      OBVIOUS
    <2>1. IInv
      BY InitHolds
    <2>2. subs = <<>> /\ outbox = <<>> /\ used.cuts = 0 /\ used.lost = 0
      BY DEF Init
    <2>3. People = <<>> /\ Mail = <<>>
      BY <2>2 DEF People, Mail
    <2>4. QED
      BY <2>1, <2>2, <2>3 DEF Box!Init
  <1>2. IInv /\ [Next]_vars => IInv' /\ [Box!Next]_Box!vars
    <2>1. IInv /\ [Next]_vars => IInv'
      BY NextKeeps
    <2>2. QED
      BY <2>1, StepImplements
  <1>3. QED
    BY <1>1, <1>2, PTL DEF Spec, EachSettledOnce, Box!Spec
=============================================================================
