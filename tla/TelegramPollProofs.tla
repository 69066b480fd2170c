-------------------------- MODULE TelegramPollProofs --------------------------
(***************************************************************************)
(* Proofs about TelegramPoll: no update is passed over, for any bots, and  *)
(* one bot's commands take effect in order and at most once, as CommandLog *)
(* promises.                                                               *)
(***************************************************************************)
EXTENDS TelegramPoll, FiniteSetTheorems, SequenceTheorems, TLAPS

-----------------------------------------------------------------------------
(* The invariant.                                                          *)

\* The update a bot's next round starts with: Telegram counts from 1.
FirstOf(off) == IF off = 0 THEN 1 ELSE off

First(b) == FirstOf(offset[b])

\* The offset is past what was looked at, never past the end, and one update
\* at most is answered from there on.
OffsetInv ==
  \A b \in Bots : /\ offset[b] <= Len(inbox[b]) + 1
                  /\ 1 .. (offset[b] - 1) \subseteq tried[b]
                  /\ answered[b] \subseteq 1 .. First(b)
                  /\ answered[b] \subseteq DOMAIN inbox[b]

\* A round has the updates from the offset on, as the bot got them.
RoundInv ==
  poll.at # "idle" =>
    /\ poll.bot \in Bots
    /\ poll.batch # <<>>
    /\ \A k \in DOMAIN poll.batch : /\ poll.batch[k] = First(poll.bot) + k - 1
                                    /\ poll.batch[k] \in DOMAIN inbox[poll.bot]
    /\ poll.at = "store" => poll.batch[1] \in tried[poll.bot]

\* A link was shown before it was sent, and one that was answered is used up.
LinkInv ==
  \A b \in Bots : \A k \in DOMAIN inbox[b] :
    inbox[b][k].kind = "link" =>
      /\ inbox[b][k].link \in used
      /\ k \in answered[b] => inbox[b][k].link \notin open

Inv == TypeOK /\ OffsetInv /\ RoundInv /\ LinkInv

\* With one bot: a /stop that may be answered again has nothing left to stop.
StopInv ==
  \A b \in Bots :
    First(b) \in answered[b] /\ inbox[b][First(b)].kind = "stop"
      => choice[inbox[b][First(b)].chat] = None

-----------------------------------------------------------------------------
(* Types.                                                                  *)

\* What is left of a round once its first update is dealt with.
LEMMA NextRoundIs ==
  ASSUME TypeOK, poll.at # "idle", poll.batch # <<>>
  PROVE  /\ NextRound(Tail(poll.batch)) \in Round
         /\ Tail(poll.batch) = <<>> => NextRound(Tail(poll.batch)).at = "idle"
         /\ Tail(poll.batch) # <<>> =>
              /\ NextRound(Tail(poll.batch)).at = "answer"
              /\ NextRound(Tail(poll.batch)).bot = poll.bot
              /\ NextRound(Tail(poll.batch)).batch = Tail(poll.batch)
  <1>1. poll \in Round /\ Tail(poll.batch) \in Seq(Nat)
    BY DEF TypeOK, Round
  <1>2. Idle \in Round /\ Idle.at = "idle"
    BY DEF Idle, Round
  <1> DEFINE rest == Tail(poll.batch)
  <1>3. CASE rest = <<>>
    BY <1>2, <1>3 DEF NextRound
  <1>4. CASE rest # <<>>
    <2> HIDE DEF rest
    <2>1. NextRound(rest) = [poll EXCEPT !.at = "answer", !.batch = rest]
      BY <1>4 DEF NextRound
    <2>2. rest \in Seq(Nat)
      BY <1>1 DEF rest
    <2>3. /\ NextRound(rest) \in Round /\ NextRound(rest).at = "answer"
          /\ NextRound(rest).bot = poll.bot /\ NextRound(rest).batch = rest
      BY <1>1, <2>1, <2>2 DEF Round
    <2>4. QED
      BY <1>4, <2>3 DEF rest
  <1>5. QED
    BY <1>3, <1>4

\* The update in hand is one the bot got.
LEMMA InHand ==
  ASSUME TypeOK, RoundInv, poll.at # "idle"
  PROVE  /\ poll.bot \in Bots /\ poll.batch \in Seq(Nat) /\ poll.batch # <<>>
         /\ Head(poll.batch) = poll.batch[1] /\ Head(poll.batch) = First(poll.bot)
         /\ Head(poll.batch) \in DOMAIN inbox[poll.bot]
         /\ Current = inbox[poll.bot][First(poll.bot)] /\ Current \in Update
  <1>1. poll.bot \in Bots /\ poll.batch \in Seq(Nat) /\ poll.batch # <<>>
    BY DEF TypeOK, Round, RoundInv
  <1>2. 1 \in DOMAIN poll.batch /\ Head(poll.batch) = poll.batch[1]
    BY <1>1, EmptySeq, LenProperties
  <1>3. poll.batch[1] = First(poll.bot) + 1 - 1 /\ poll.batch[1] \in DOMAIN inbox[poll.bot]
    BY <1>2 DEF RoundInv
  <1>4. offset[poll.bot] \in Nat /\ inbox[poll.bot] \in Seq(Update)
    BY <1>1 DEF TypeOK
  <1>5. First(poll.bot) \in Nat
    BY <1>4 DEF First, FirstOf
  <1>6. Head(poll.batch) = First(poll.bot)
    BY <1>2, <1>3, <1>5
  <1>7. Current = inbox[poll.bot][First(poll.bot)]
    BY <1>6 DEF Current
  <1>8. Current \in Update
    BY <1>2, <1>3, <1>4, <1>6, <1>7, ElementOfSeq
  <1>9. QED
    BY <1>1, <1>2, <1>3, <1>6, <1>7, <1>8

\* Nobody has sent anything, and no round is under way.
LEMMA TelegramInit ==
  ASSUME TelegramAssumption, Init
  PROVE  Inv
  <1>1. <<>> \in Seq(Update) /\ <<>> \in Seq(Nat)
    BY EmptySeq
  <1>2. TypeOK
    BY <1>1 DEF Init, TelegramAssumption, TypeOK, Idle, Round
  <1>3. OffsetInv /\ RoundInv /\ LinkInv
    BY DEF Init, OffsetInv, RoundInv, LinkInv, Idle
  <1>4. QED
    BY <1>2, <1>3 DEF Inv

\* A round's answer: the choices stay choices of links that were shown and
\* are used up.
LEMMA AnswerTypes ==
  ASSUME TelegramAssumption, TypeOK, RoundInv, Answer
  PROVE  TypeOK'
  <1>1. /\ poll.at = "answer" /\ poll' = [poll EXCEPT !.at = "store"]
        /\ tried' = [tried EXCEPT ![poll.bot] = @ \cup {Head(poll.batch)}]
        /\ answered' = [answered EXCEPT ![poll.bot] = @ \cup {Head(poll.batch)}]
        /\ UNCHANGED <<inbox, offset, cfg, used, left, faults, reloads>>
    BY DEF Answer
  <1>2. poll.bot \in Bots /\ Head(poll.batch) \in Nat /\ Current \in Update
    BY <1>1, InHand, HeadTailProperties
  <1>3. \/ Current.kind = "link" /\ LinkChat(Current)
        \/ Current.kind = "stop" /\ StopChat(Current)
        \/ UNCHANGED <<open, choice>>
    BY <1>2, Zenon DEF Answer, Update
  <1>4. Current.chat \in Chats
    BY <1>2 DEF Update
  <1>5. /\ open' \subseteq used
        /\ choice' \in [Chats -> Links \cup {None}]
        /\ \A c \in Chats : choice'[c] \in (used \cup {None}) \ open'
    <2>1. CASE Current.kind = "link" /\ LinkChat(Current) /\ Current.link \in open
      <3>1. open' = open \ {Current.link} /\ choice' = [choice EXCEPT ![Current.chat] = Current.link]
        BY <2>1 DEF LinkChat
      <3> HIDE DEF Current
      <3>2. QED
        BY <1>4, <2>1, <3>1 DEF TypeOK
    <2>2. CASE Current.kind = "stop" /\ StopChat(Current)
      <3>1. open' = open /\ choice' = [choice EXCEPT ![Current.chat] = None]
        BY <2>2 DEF StopChat
      <3>2. None \notin open
        BY DEF TypeOK, TelegramAssumption
      <3> HIDE DEF Current
      <3>3. QED
        BY <1>4, <3>1, <3>2 DEF TypeOK
    <2>3. CASE UNCHANGED <<open, choice>>
      BY <2>3 DEF TypeOK
    <2>4. QED
      BY <1>3, <2>1, <2>2, <2>3 DEF LinkChat
  <1>6. poll' \in Round
    BY <1>1 DEF TypeOK, Round
  <1>7. tried' \in [Bots -> SUBSET Nat] /\ answered' \in [Bots -> SUBSET Nat]
    BY <1>1, <1>2 DEF TypeOK
  <1>8. QED
    BY <1>1, <1>5, <1>6, <1>7 DEF TypeOK

\* Every step keeps the types.
LEMMA TelegramTypes ==
  ASSUME TelegramAssumption, TypeOK, RoundInv, [Next]_vars
  PROVE  TypeOK'
  <1>1. CASE GetUpdates
    <2> DEFINE first == IF offset[cfg] = 0 THEN 1 ELSE offset[cfg]
               count == Len(inbox[cfg]) - first + 1
    <2>1. /\ cfg \in Bots /\ count > 0
          /\ poll' = [at |-> "answer", bot |-> cfg, batch |-> [i \in 1..count |-> first + i - 1]]
      BY <1>1 DEF GetUpdates, StartOf
    <2>2. first \in Nat \ {0} /\ count \in Nat
      BY <2>1, LenProperties DEF TypeOK
    <2> HIDE DEF first, count
    <2>3. [i \in 1..count |-> first + i - 1] \in Seq(Nat)
      BY <2>2
    <2>4. poll' \in Round
      BY <2>1, <2>3 DEF Round
    <2>5. QED
      BY <1>1, <2>4 DEF GetUpdates, TypeOK
  <1>2. CASE Answer
    BY <1>2, AnswerTypes
  <1>3. CASE AnswerFails
    <2>1. poll.bot \in Bots /\ Head(poll.batch) \in Nat
      BY <1>3, InHand, HeadTailProperties DEF AnswerFails
    <2>2. poll' \in Round /\ faults' \in Nat
      <3>1. poll' = [poll EXCEPT !.at = "store"] /\ faults' = faults + 1
        BY <1>3 DEF AnswerFails
      <3>2. poll \in Round /\ faults \in Nat
        BY DEF TypeOK
      <3>3. poll' \in Round
        BY <3>1, <3>2 DEF Round
      <3>4. faults' \in Nat
        BY <3>1, <3>2
      <3>5. QED
        BY <3>3, <3>4
    <2>3. tried' \in [Bots -> SUBSET Nat]
      BY <1>3, <2>1 DEF AnswerFails, TypeOK
    <2>4. QED
      BY <1>3, <2>2, <2>3 DEF AnswerFails, TypeOK
  <1>4. CASE StoreOffset
    <2>1. poll.at # "idle" /\ poll.batch # <<>> /\ poll.bot \in Bots /\ Head(poll.batch) \in Nat
      BY <1>4, InHand, HeadTailProperties DEF StoreOffset
    <2>2. poll' \in Round
      BY <1>4, <2>1, NextRoundIs DEF StoreOffset
    <2>3. offset' \in [Bots -> Nat]
      BY <1>4, <2>1 DEF StoreOffset, TypeOK
    <2>4. QED
      BY <1>4, <2>2, <2>3 DEF StoreOffset, TypeOK
  <1>5. CASE RoundEnds
    <2>1. poll' \in Round /\ faults' \in Nat
      BY <1>5, EmptySeq DEF RoundEnds, TypeOK, Round, Idle
    <2>2. QED
      BY <1>5, <2>1 DEF RoundEnds, TypeOK
  <1>6. CASE \E b \in Bots, u \in Update : Send(b, u)
    <2>1. PICK b \in Bots, u \in Update : Send(b, u)
      BY <1>6
    <2>2. inbox[b] \in Seq(Update) /\ Append(inbox[b], u) \in Seq(Update)
      BY AppendProperties DEF TypeOK
    <2>3. inbox' \in [Bots -> Seq(Update)]
      BY <2>1, <2>2 DEF Send, TypeOK
    <2>4. QED
      BY <2>1, <2>3 DEF Send, TypeOK
  <1>7. CASE \E l \in Links : SignUpByLink(l)
    <2>1. PICK l \in Links : SignUpByLink(l)
      BY <1>7
    <2>2. \A c \in Chats : choice[c] # l
      BY <2>1 DEF SignUpByLink, TypeOK, TelegramAssumption
    <2>3. QED
      BY <2>1, <2>2 DEF SignUpByLink, TypeOK
  <1>8. CASE \E l \in Links : Expire(l)
    BY <1>8 DEF Expire, TypeOK
  <1>9. CASE \E c \in Chats : Leave(c)
    <2>1. PICK c \in Chats : Leave(c)
      BY <1>9
    <2>2. None \notin open
      BY DEF TypeOK, TelegramAssumption
    <2>3. choice' = [choice EXCEPT ![c] = None] /\ left' = left + 1
      BY <2>1 DEF Leave
    <2>4. /\ choice' \in [Chats -> Links \cup {None}] /\ left' \in Nat
          /\ \A d \in Chats : choice'[d] \in (used \cup {None}) \ open
      BY <2>2, <2>3 DEF TypeOK
    <2>5. QED
      BY <2>1, <2>4 DEF Leave, TypeOK
  <1>10. CASE \E b \in Bots \cup {Off} : Reload(b)
    BY <1>10 DEF Reload, TypeOK
  <1>11. CASE UNCHANGED vars
    BY <1>11 DEF vars, TypeOK
  <1>12. QED
    BY <1>1, <1>2, <1>3, <1>4, <1>5, <1>6, <1>7, <1>8, <1>9, <1>10, <1>11, Zenon DEF Next

-----------------------------------------------------------------------------
(* Offsets, rounds and links.                                              *)

\* A step that touches none of what the invariant is about.
LEMMA InvStays ==
  ASSUME OffsetInv, RoundInv, UNCHANGED <<inbox, offset, poll, tried, answered>>
  PROVE  OffsetInv' /\ RoundInv'
  BY DEF OffsetInv, RoundInv, First

\* Telegram hands out what it has from the offset on.
LEMMA GetUpdatesInv ==
  ASSUME TelegramAssumption, Inv, GetUpdates
  PROVE  OffsetInv' /\ RoundInv' /\ LinkInv'
  <1> DEFINE first == IF offset[cfg] = 0 THEN 1 ELSE offset[cfg]
             count == Len(inbox[cfg]) - first + 1
             batch == [i \in 1..count |-> first + i - 1]
  <1>1. /\ cfg \in Bots /\ count > 0
        /\ poll' = [at |-> "answer", bot |-> cfg, batch |-> batch]
        /\ UNCHANGED <<inbox, offset, tried, answered, used, open>>
    BY DEF GetUpdates, StartOf
  <1>2. first = First(cfg)
    BY DEF First, FirstOf
  <1>3. inbox[cfg] \in Seq(Update) /\ offset[cfg] \in Nat
    BY <1>1 DEF Inv, TypeOK
  <1>4. first \in Nat \ {0} /\ DOMAIN inbox[cfg] = 1 .. Len(inbox[cfg]) /\ Len(inbox[cfg]) \in Nat
    BY <1>3, LenProperties
  <1>5. \A k \in 1..count : batch[k] = first + k - 1 /\ batch[k] \in DOMAIN inbox[cfg]
    BY <1>4
  <1>6. batch # <<>> /\ DOMAIN batch = 1..count
    <2>1. 1 \in DOMAIN batch
      BY <1>1, <1>4
    <2>2. DOMAIN <<>> = {}
      OBVIOUS
    <2> HIDE DEF batch
    <2>3. batch # <<>>
      BY <2>1, <2>2
    <2>4. QED
      BY <2>3 DEF batch
  <1> HIDE DEF batch, first, count
  <1>7. poll'.at = "answer" /\ poll'.bot = cfg /\ poll'.batch = batch
    BY <1>1
  <1>8. RoundInv'
    BY <1>1, <1>2, <1>5, <1>6, <1>7 DEF RoundInv, First
  <1>9. QED
    BY <1>1, <1>8 DEF Inv, OffsetInv, LinkInv, First

\* What an answer, failed or not, means for the round.
LEMMA Looked ==
  ASSUME TelegramAssumption, Inv, poll.at = "answer", poll' = [poll EXCEPT !.at = "store"],
         tried' = [tried EXCEPT ![poll.bot] = @ \cup {Head(poll.batch)}],
         \/ UNCHANGED answered
         \/ answered' = [answered EXCEPT ![poll.bot] = @ \cup {Head(poll.batch)}],
         UNCHANGED <<inbox, offset>>
  PROVE  OffsetInv' /\ RoundInv'
  <1> DEFINE first == First(poll.bot)
  <1>1. /\ poll.bot \in Bots /\ Head(poll.batch) = poll.batch[1] /\ Head(poll.batch) = first
        /\ first \in DOMAIN inbox[poll.bot]
    BY InHand DEF Inv
  <1>2. poll' = [at |-> "store", bot |-> poll.bot, batch |-> poll.batch]
    BY DEF Inv, TypeOK, Round
  <1>3. \A b \in Bots : /\ tried'[b] = IF b = poll.bot THEN tried[b] \cup {first} ELSE tried[b]
                        /\ \/ answered'[b] = answered[b]
                           \/ b = poll.bot /\ answered'[b] = answered[b] \cup {first}
    BY <1>1 DEF Inv, TypeOK
  <1>4. offset[poll.bot] \in Nat
    BY <1>1 DEF Inv, TypeOK
  <1>5. first \in 1..first
    BY <1>4 DEF First, FirstOf
  <1>6. ASSUME NEW b \in Bots
        PROVE  /\ offset[b] <= Len(inbox[b]) + 1 /\ 1 .. (offset[b] - 1) \subseteq tried'[b]
               /\ answered'[b] \subseteq 1 .. First(b) /\ answered'[b] \subseteq DOMAIN inbox[b]
    <2>1. /\ offset[b] <= Len(inbox[b]) + 1 /\ 1 .. (offset[b] - 1) \subseteq tried[b]
          /\ answered[b] \subseteq 1 .. First(b) /\ answered[b] \subseteq DOMAIN inbox[b]
      BY DEF Inv, OffsetInv
    <2>2. tried[b] \subseteq tried'[b]
      BY <1>3
    <2>3. answered'[b] \subseteq 1 .. First(b) /\ answered'[b] \subseteq DOMAIN inbox[b]
      <3>1. CASE answered'[b] = answered[b]
        BY <2>1, <3>1
      <3>2. CASE b = poll.bot /\ answered'[b] = answered[b] \cup {first}
        <4> DEFINE upTo == 1 .. First(b)
        <4>1. first \in upTo /\ first \in DOMAIN inbox[b]
          BY <1>1, <1>5, <3>2
        <4> HIDE DEF upTo, first
        <4>2. answered'[b] \subseteq upTo /\ answered'[b] \subseteq DOMAIN inbox[b]
          BY <2>1, <3>2, <4>1 DEF upTo
        <4>3. QED
          BY <4>2 DEF upTo
      <3>3. QED
        BY <1>3, <3>1, <3>2
    <2>4. QED
      BY <2>1, <2>2, <2>3
  <1>7. OffsetInv'
    BY <1>6 DEF OffsetInv, First
  <1>8. poll.batch[1] \in tried'[poll.bot]
    BY <1>1, <1>3
  <1>9. RoundInv'
    <2>1. poll'.at = "store" /\ poll'.bot = poll.bot /\ poll'.batch = poll.batch
      BY <1>2
    <2>2. QED
      BY <1>8, <2>1 DEF Inv, RoundInv, First
  <1>10. QED
    BY <1>7, <1>9

\* An answer uses its link up.
LEMMA AnswerInv ==
  ASSUME TelegramAssumption, Inv, Answer
  PROVE  OffsetInv' /\ RoundInv' /\ LinkInv'
  <1>1. /\ poll.at = "answer" /\ poll' = [poll EXCEPT !.at = "store"]
        /\ tried' = [tried EXCEPT ![poll.bot] = @ \cup {Head(poll.batch)}]
        /\ answered' = [answered EXCEPT ![poll.bot] = @ \cup {Head(poll.batch)}]
        /\ UNCHANGED <<inbox, offset, used>>
    BY DEF Answer
  <1>2. OffsetInv' /\ RoundInv'
    BY <1>1, Looked
  <1>3. poll.bot \in Bots /\ Head(poll.batch) = First(poll.bot) /\ Current = inbox[poll.bot][First(poll.bot)]
    BY <1>1, InHand DEF Inv
  <1>4. open' \subseteq open /\ (Current.kind = "link" => Current.link \notin open')
    <2>1. Current.kind \in {"link", "stop", "other"}
      BY <1>1, InHand DEF Inv, Update
    <2>2. \/ Current.kind = "link" /\ LinkChat(Current)
          \/ Current.kind # "link" /\ open' = open
      BY <2>1, Zenon DEF Answer, StopChat
    <2> HIDE DEF Current
    <2>3. QED
      BY <2>2 DEF LinkChat
  <1>5. \A b \in Bots : \A k \in answered'[b] :
          k \in answered[b] \/ (b = poll.bot /\ k = First(poll.bot))
    <2>1. \A b \in Bots : answered'[b] = answered[b]
                             \/ (b = poll.bot /\ answered'[b] = answered[b] \cup {First(poll.bot)})
      <3>1. answered \in [Bots -> SUBSET Nat]
        BY DEF Inv, TypeOK
      <3>2. answered' = [answered EXCEPT ![poll.bot] = @ \cup {First(poll.bot)}]
        BY <1>1, <1>3
      <3>3. QED
        BY <3>1, <3>2
    <2>2. QED
      BY <2>1
  <1>6. LinkInv'
    BY <1>1, <1>3, <1>4, <1>5 DEF Inv, LinkInv
  <1>7. QED
    BY <1>2, <1>6

\* The offset moves on by one update, and so does the round.
LEMMA StoreOffsetInv ==
  ASSUME TelegramAssumption, Inv, StoreOffset
  PROVE  OffsetInv' /\ RoundInv' /\ LinkInv'
  <1> DEFINE b == poll.bot
             first == First(poll.bot)
  <1>1. /\ poll.at = "store" /\ poll' = NextRound(Tail(poll.batch))
        /\ offset' = [offset EXCEPT ![b] = Head(poll.batch) + 1]
        /\ UNCHANGED <<inbox, tried, answered, used, open>>
    BY DEF StoreOffset
  <1>2. /\ b \in Bots /\ poll.batch \in Seq(Nat) /\ poll.batch # <<>>
        /\ Head(poll.batch) = poll.batch[1] /\ Head(poll.batch) = first
        /\ first \in DOMAIN inbox[b]
    BY <1>1, InHand DEF Inv
  <1>3. /\ inbox[b] \in Seq(Update) /\ DOMAIN inbox[b] = 1 .. Len(inbox[b]) /\ Len(inbox[b]) \in Nat
        /\ offset[b] \in Nat
    BY <1>2, LenProperties DEF Inv, TypeOK
  <1>4. first \in Nat \ {0}
    BY <1>2, <1>3
  <1>5. offset'[b] = first + 1 /\ \A x \in Bots : x # b => offset'[x] = offset[x]
    BY <1>1, <1>2 DEF Inv, TypeOK
  <1>6. first \in tried[b]
    BY <1>1, <1>2 DEF Inv, RoundInv
  <1>7. 1 .. first \subseteq tried[b] /\ answered[b] \subseteq 1 .. (first + 1)
    <2>1. 1 .. (offset[b] - 1) \subseteq tried[b] /\ answered[b] \subseteq 1 .. first
      BY <1>2 DEF Inv, OffsetInv
    <2>2. first = IF offset[b] = 0 THEN 1 ELSE offset[b]
      BY DEF First, FirstOf
    <2> HIDE DEF first
    <2>3. QED
      BY <1>3, <1>4, <1>6, <2>1, <2>2
  <1> HIDE DEF first
  <1>8. OffsetInv'
    <2>1. ASSUME NEW x \in Bots, x # b
          PROVE  /\ offset'[x] <= Len(inbox'[x]) + 1 /\ 1 .. (offset'[x] - 1) \subseteq tried'[x]
                 /\ answered'[x] \subseteq 1 .. First(x)' /\ answered'[x] \subseteq DOMAIN inbox'[x]
      BY <1>1, <1>5, <2>1 DEF Inv, OffsetInv, First
    <2>2. /\ offset'[b] <= Len(inbox'[b]) + 1 /\ 1 .. (offset'[b] - 1) \subseteq tried'[b]
          /\ answered'[b] \subseteq 1 .. FirstOf(offset'[b]) /\ answered'[b] \subseteq DOMAIN inbox'[b]
      <3>1. FirstOf(offset'[b]) = first + 1 /\ first + 1 - 1 = first /\ first <= Len(inbox[b])
        BY <1>2, <1>3, <1>4, <1>5 DEF FirstOf
      <3>2. answered[b] \subseteq DOMAIN inbox[b]
        BY <1>2 DEF Inv, OffsetInv
      <3> HIDE DEF b
      <3>3. QED
        BY <1>1, <1>3, <1>4, <1>5, <1>7, <3>1, <3>2
    <2>3. QED
      BY <2>1, <2>2 DEF OffsetInv, First
  <1>9. RoundInv'
    <2>1. CASE Tail(poll.batch) = <<>>
      BY <1>1, <1>2, <2>1, NextRoundIs DEF Inv, RoundInv
    <2>2. CASE Tail(poll.batch) # <<>>
      <3>1. poll'.at = "answer" /\ poll'.bot = b /\ poll'.batch = Tail(poll.batch)
        BY <1>1, <1>2, <2>2, NextRoundIs DEF Inv
      <3>2. \A k \in DOMAIN Tail(poll.batch) :
              /\ k \in Nat /\ k + 1 \in DOMAIN poll.batch
              /\ Tail(poll.batch)[k] = poll.batch[k + 1]
        BY <1>2, HeadTailProperties, LenProperties
      <3>3. \A k \in DOMAIN Tail(poll.batch) :
              /\ Tail(poll.batch)[k] = first + 1 + k - 1
              /\ Tail(poll.batch)[k] \in DOMAIN inbox[b]
        BY <1>1, <1>4, <3>2 DEF Inv, RoundInv, first
      <3>4. FirstOf(offset'[b]) = first + 1
        BY <1>4, <1>5 DEF FirstOf
      <3>5. QED
        BY <1>1, <1>2, <2>2, <3>1, <3>3, <3>4 DEF RoundInv, First
    <2>3. QED
      BY <2>1, <2>2
  <1>10. LinkInv'
    BY <1>1 DEF Inv, LinkInv
  <1>11. QED
    BY <1>8, <1>9, <1>10

\* A new update comes after the others, with a link that was shown.
LEMMA SendInv ==
  ASSUME TelegramAssumption, Inv, NEW b \in Bots, NEW u \in Update, Send(b, u)
  PROVE  OffsetInv' /\ RoundInv' /\ LinkInv'
  <1>1. /\ inbox' = [inbox EXCEPT ![b] = Append(@, u)] /\ u.link \in used \cup {None}
        /\ UNCHANGED <<offset, open, used, poll, tried, answered>>
    BY DEF Send
  <1>2. inbox[b] \in Seq(Update)
    BY DEF Inv, TypeOK
  <1> DEFINE n == Len(inbox[b])
  <1>3. /\ n \in Nat /\ DOMAIN inbox[b] = 1..n
        /\ Len(Append(inbox[b], u)) = n + 1 /\ DOMAIN Append(inbox[b], u) = 1 .. (n + 1)
        /\ Append(inbox[b], u)[n + 1] = u
        /\ \A k \in 1..n : Append(inbox[b], u)[k] = inbox[b][k]
    BY <1>2, LenProperties, AppendProperties
  <1>4. /\ inbox'[b] = Append(inbox[b], u)
        /\ \A x \in Bots : x # b => inbox'[x] = inbox[x]
    BY <1>1 DEF Inv, TypeOK
  <1> HIDE DEF n
  <1>5. \A x \in Bots : /\ Len(inbox'[x]) >= Len(inbox[x]) /\ DOMAIN inbox[x] \subseteq DOMAIN inbox'[x]
                        /\ \A k \in DOMAIN inbox[x] : inbox'[x][k] = inbox[x][k]
                        /\ \A k \in DOMAIN inbox'[x] : k \in DOMAIN inbox[x] \/ (x = b /\ inbox'[x][k] = u)
    <2>1. ASSUME NEW x \in Bots, x # b
          PROVE  inbox'[x] = inbox[x] /\ Len(inbox[x]) \in Nat
      BY <1>4, <2>1, LenProperties DEF Inv, TypeOK
    <2>2. \A k \in 1 .. (n + 1) : k \in 1..n \/ k = n + 1
      BY <1>3
    <2>3. QED
      BY <1>3, <1>4, <2>1, <2>2 DEF n
  <1>6. OffsetInv'
    <2>1. \A x \in Bots : offset[x] \in Nat /\ Len(inbox[x]) \in Nat /\ Len(inbox'[x]) \in Nat
      BY <1>3, <1>4, LenProperties DEF Inv, TypeOK
    <2>2. QED
      BY <1>1, <1>5, <2>1 DEF Inv, OffsetInv, First
  <1>7. RoundInv'
    BY <1>1, <1>5 DEF Inv, RoundInv, First
  <1>8. LinkInv'
    <2>1. u.kind = "link" => u.link \in used
      BY <1>1 DEF Update, TelegramAssumption
    <2>2. \A x \in Bots : answered[x] \subseteq DOMAIN inbox[x]
      BY DEF Inv, OffsetInv
    <2>3. QED
      BY <1>1, <1>5, <2>1, <2>2 DEF Inv, LinkInv
  <1>9. QED
    BY <1>6, <1>7, <1>8

\* Every step keeps the invariant.
LEMMA TelegramNext ==
  ASSUME TelegramAssumption, Inv, [Next]_vars
  PROVE  Inv'
  <1>1. TypeOK'
    BY TelegramTypes DEF Inv
  <1>2. CASE GetUpdates
    BY <1>1, <1>2, GetUpdatesInv DEF Inv
  <1>3. CASE Answer
    BY <1>1, <1>3, AnswerInv DEF Inv
  <1>4. CASE AnswerFails
    <2>1. OffsetInv' /\ RoundInv'
      BY <1>4, Looked DEF AnswerFails
    <2>2. LinkInv'
      BY <1>4 DEF AnswerFails, Inv, LinkInv
    <2>3. QED
      BY <1>1, <2>1, <2>2 DEF Inv
  <1>5. CASE StoreOffset
    BY <1>1, <1>5, StoreOffsetInv DEF Inv
  <1>6. CASE RoundEnds
    BY <1>1, <1>6 DEF RoundEnds, Idle, Inv, OffsetInv, RoundInv, LinkInv, First
  <1>7. CASE \E b \in Bots, u \in Update : Send(b, u)
    BY <1>1, <1>7, SendInv DEF Inv
  <1>8. CASE \E l \in Links : SignUpByLink(l) \/ Expire(l)
    <2>1. PICK l \in Links : SignUpByLink(l) \/ Expire(l)
      BY <1>8
    <2>2. UNCHANGED <<inbox, offset, poll, tried, answered>>
      BY <2>1 DEF SignUpByLink, Expire
    <2>3. used \subseteq used' /\ (open' \subseteq open \/ (open' = open \cup {l} /\ l \notin used))
      BY <2>1 DEF SignUpByLink, Expire
    <2>4. LinkInv'
      BY <2>2, <2>3 DEF Inv, LinkInv
    <2>5. QED
      BY <1>1, <2>2, <2>4, InvStays DEF Inv
  <1>9. CASE (\E c \in Chats : Leave(c)) \/ (\E b \in Bots \cup {Off} : Reload(b)) \/ UNCHANGED vars
    <2>1. UNCHANGED <<inbox, offset, poll, tried, answered, open, used>>
      BY <1>9 DEF Leave, Reload, vars
    <2>2. LinkInv'
      BY <2>1 DEF Inv, LinkInv
    <2>3. QED
      BY <1>1, <2>1, <2>2, InvStays DEF Inv
  <1>10. QED
    BY <1>2, <1>3, <1>4, <1>5, <1>6, <1>7, <1>8, <1>9, Zenon DEF Next

\* The invariant holds for any bots, chats, links and bounds.
THEOREM Invariance ==
  ASSUME TelegramAssumption
  PROVE  Spec => []Inv
  <1>1. Init => Inv
    BY TelegramInit
  <1>2. Inv /\ [Next]_vars => Inv'
    BY TelegramNext
  <1>3. QED
    BY <1>1, <1>2, PTL DEF Spec

\* Every variable keeps its type, and a link works once: no chat follows the
\* choices of a sign-up that is still pending.
THEOREM TypesHold ==
  ASSUME TelegramAssumption
  PROVE  Spec => []TypeOK
  <1>1. Inv => TypeOK
    BY DEF Inv
  <1>2. QED
    BY <1>1, Invariance, PTL

\* The stored offset of no bot ever passes an update that was not looked at,
\* whatever fails, restarts or is switched between (poll_once).
THEOREM NothingSkippedEver ==
  ASSUME TelegramAssumption
  PROVE  Spec => []NothingSkipped
  <1>1. Inv => NothingSkipped
    BY DEF Inv, OffsetInv, NothingSkipped
  <1>2. QED
    BY <1>1, Invariance, PTL

-----------------------------------------------------------------------------
(* One bot: TelegramPoll implements CommandLog.                            *)

OneBot == \E b : Bots = {b}

\* There is no other bot to answer or to move an offset.
LEMMA TheBotIs ==
  ASSUME OneBot
  PROVE  Bots = {TheBot} /\ TheBot \in Bots
  BY DEF OneBot, TheBot

\* What was taken of the log is its beginning, up to the update before the
\* offset, or the one after it when that was answered.
LEMMA TakenCount ==
  ASSUME NEW off \in Nat, NEW A, A \subseteq 1 .. FirstOf(off)
  PROVE  /\ FirstOf(off) \in Nat \ {0}
         /\ Cardinality(A \cup 1 .. (off - 1)) =
              IF FirstOf(off) \in A THEN FirstOf(off) ELSE FirstOf(off) - 1
  <1> DEFINE f == FirstOf(off)
  <1>1. f \in Nat \ {0} /\ 1 .. (off - 1) = 1 .. (f - 1)
    BY DEF FirstOf
  <1> HIDE DEF f
  <1>2. A \cup 1 .. (f - 1) = IF f \in A THEN 1 .. f ELSE 1 .. (f - 1)
    <2>1. A \subseteq 1 .. f
      BY DEF f
    <2>2. 1 .. f = 1 .. (f - 1) \cup {f} /\ f \notin 1 .. (f - 1)
      BY <1>1
    <2>3. QED
      BY <2>1, <2>2
  <1>3. Cardinality(1 .. f) = f /\ Cardinality(1 .. (f - 1)) = f - 1
    BY <1>1, FS_Interval
  <1>4. QED
    BY <1>1, <1>2, <1>3 DEF f

\* The update whose answer may be repeated.
Pending == inbox[TheBot][First(TheBot)]

(* How far the log is taken, before a step and after one.                  *)
LEMMA DoneIs ==
  ASSUME TelegramAssumption, OneBot, Inv, Inv'
  PROVE  /\ First(TheBot) \in Nat \ {0}
         /\ Cardinality(Taken) =
              IF First(TheBot) \in answered[TheBot] THEN First(TheBot) ELSE First(TheBot) - 1
         /\ Cardinality(Taken)' =
              IF First(TheBot)' \in answered'[TheBot] THEN First(TheBot)' ELSE First(TheBot)' - 1
  <1>1. TheBot \in Bots
    BY TheBotIs
  <1>2. offset[TheBot] \in Nat /\ answered[TheBot] \subseteq 1 .. FirstOf(offset[TheBot])
    BY <1>1 DEF Inv, TypeOK, OffsetInv, First
  <1>3. offset'[TheBot] \in Nat /\ answered'[TheBot] \subseteq 1 .. FirstOf(offset'[TheBot])
    BY <1>1 DEF Inv, TypeOK, OffsetInv, First
  <1>4. Cardinality(Taken)' = Cardinality(answered'[TheBot] \cup 1 .. (offset'[TheBot] - 1))
    BY DEF Taken
  <1>5. QED
    BY <1>2, <1>3, <1>4, TakenCount DEF Taken, First

\* Answering takes the next command, or answers again what has no effect left.
LEMMA AnswerTakes ==
  ASSUME TelegramAssumption, OneBot, Inv, Inv', StopInv, Answer
  PROVE  Log!Take \/ UNCHANGED Log!vars
  <1> DEFINE b == TheBot
             first == First(TheBot)
  <1>1. /\ poll.bot = b /\ b \in Bots /\ Head(poll.batch) = first /\ first \in DOMAIN inbox[b]
        /\ Current = Pending /\ Current \in Update
    BY InHand, TheBotIs DEF Answer, Inv, Pending
  <1>2. /\ answered' = [answered EXCEPT ![b] = @ \cup {first}]
        /\ UNCHANGED <<inbox, offset, left>>
    BY <1>1 DEF Answer
  <1>3. answered'[b] = answered[b] \cup {first} /\ First(b)' = first
    BY <1>1, <1>2 DEF Inv, TypeOK, First
  <1>4. /\ Cardinality(Taken) = IF first \in answered[b] THEN first ELSE first - 1
        /\ Cardinality(Taken)' = first /\ first \in Nat \ {0}
    BY <1>3, DoneIs
  <1>5. \/ Pending.kind = "link" /\ LinkChat(Pending)
        \/ Pending.kind = "stop" /\ StopChat(Pending)
        \/ UNCHANGED <<open, choice>>
    BY <1>1, Zenon DEF Answer, Update
  <1>6. CASE first \in answered[b]
    <2>1. Pending.kind = "link" => Pending.link \notin open
      BY <1>1, <1>6 DEF Inv, LinkInv, Pending
    <2>2. Pending.kind = "stop" => choice[Pending.chat] = None
      BY <1>1, <1>6 DEF StopInv, Pending
    <2>3. choice \in [Chats -> Links \cup {None}]
      BY DEF Inv, TypeOK
    <2> HIDE DEF b, first
    <2>4. UNCHANGED <<open, choice>>
      BY <1>5, <2>1, <2>2, <2>3 DEF LinkChat, StopChat
    <2>5. QED
      BY <1>2, <1>4, <1>6, <2>4 DEF Log!vars, b
  <1>7. CASE first \notin answered[b]
    <2>1. Cardinality(Taken) < Len(inbox[b]) /\ Cardinality(Taken)' = Cardinality(Taken) + 1
          /\ Cardinality(Taken) + 1 = first
      <3>1. inbox[b] \in Seq(Update)
        BY <1>1 DEF Inv, TypeOK
      <3>2. first <= Len(inbox[b]) /\ Len(inbox[b]) \in Nat
        BY <1>1, <3>1, LenProperties
      <3> HIDE DEF b, first
      <3>3. QED
        BY <1>4, <1>7, <3>2
    <2>2. Log!Follow(Pending) \/ Log!Stop(Pending) \/ UNCHANGED <<open, choice>>
      BY <1>5, Zenon DEF LinkChat, StopChat, Log!Follow, Log!Stop
    <2>3. inbox[b][Cardinality(Taken) + 1] = Pending
      BY <2>1 DEF Pending
    <2>4. QED
      BY <1>2, <2>1, <2>2, <2>3, Zenon DEF Log!Take, b
  <1>8. QED
    BY <1>6, <1>7

\* The offset passes a command that was answered, or drops one that was not.
LEMMA StoreTakes ==
  ASSUME TelegramAssumption, OneBot, Inv, Inv', StoreOffset
  PROVE  Log!Take \/ UNCHANGED Log!vars
  <1> DEFINE b == TheBot
             first == First(TheBot)
  <1>1. poll.bot = b /\ b \in Bots /\ Head(poll.batch) = first /\ first \in DOMAIN inbox[b]
    BY InHand, TheBotIs DEF StoreOffset, Inv
  <1>2. offset'[b] = first + 1 /\ UNCHANGED <<inbox, answered, open, choice, left>>
    BY <1>1 DEF StoreOffset, Inv, TypeOK
  <1>3. first \in Nat \ {0} /\ answered[b] \subseteq 1 .. first
    BY <1>1, DoneIs DEF Inv, OffsetInv
  <1>4. First(b)' = first + 1
    BY <1>2, <1>3 DEF First, FirstOf
  <1>5. first + 1 \notin answered[b]
    BY <1>3
  <1>6. /\ Cardinality(Taken) = IF first \in answered[b] THEN first ELSE first - 1
        /\ Cardinality(Taken)' = first
    BY <1>2, <1>3, <1>4, <1>5, DoneIs
  <1>7. CASE first \in answered[b]
    BY <1>2, <1>6, <1>7 DEF Log!vars
  <1>8. CASE first \notin answered[b]
    <2>1. inbox[b] \in Seq(Update)
      BY <1>1 DEF Inv, TypeOK
    <2>2. first <= Len(inbox[b]) /\ Len(inbox[b]) \in Nat
      BY <1>1, <2>1, LenProperties
    <2> HIDE DEF b, first
    <2>3. Cardinality(Taken) < Len(inbox[b]) /\ Cardinality(Taken)' = Cardinality(Taken) + 1
      BY <1>3, <1>6, <1>8, <2>2
    <2>4. QED
      BY <1>2, <2>3 DEF Log!Take, b
  <1>9. QED
    BY <1>7, <1>8

\* Every other step is one of CommandLog's, or none.
LEMMA PollImplements ==
  ASSUME TelegramAssumption, OneBot, Inv, Inv', StopInv, [Next]_vars
  PROVE  [Log!Next]_Log!vars
  <1>1. Log!Take \/ UNCHANGED Log!vars => [Log!Next]_Log!vars
    BY DEF Log!Next
  <1>2. CASE Answer
    BY <1>1, <1>2, AnswerTakes
  <1>3. CASE StoreOffset
    BY <1>1, <1>3, StoreTakes
  <1>4. CASE GetUpdates \/ AnswerFails \/ RoundEnds \/ (\E b \in Bots \cup {Off} : Reload(b)) \/ UNCHANGED vars
    <2>1. UNCHANGED <<inbox, offset, answered, open, choice, left>>
      BY <1>4 DEF GetUpdates, AnswerFails, RoundEnds, Reload, vars
    <2>2. UNCHANGED Log!vars
      BY <2>1 DEF Log!vars, Taken
    <2>3. QED
      BY <1>1, <2>2
  <1>5. CASE \E b \in Bots, u \in Update : Send(b, u)
    <2>1. PICK b \in Bots, u \in Update : Send(b, u)
      BY <1>5
    <2>2. b = TheBot /\ u \in Log!Command
      BY TheBotIs DEF Update, Log!Command
    <2>3. inbox'[TheBot] = Append(inbox[TheBot], u)
      BY <2>1, <2>2 DEF Send, Inv, TypeOK
    <2>4. UNCHANGED <<Cardinality(Taken), open, choice, left>>
      BY <2>1 DEF Send, Taken
    <2>5. QED
      BY <2>2, <2>3, <2>4 DEF Log!Next, Log!Send
  <1>6. CASE \E l \in Links : SignUpByLink(l) \/ Expire(l)
    <2>1. PICK l \in Links : SignUpByLink(l) \/ Expire(l)
      BY <1>6
    <2>2. UNCHANGED <<inbox, offset, answered, choice, left>>
      BY <2>1 DEF SignUpByLink, Expire
    <2>3. UNCHANGED <<inbox[TheBot], Cardinality(Taken), choice, left>>
      BY <2>2 DEF Taken
    <2>4. SignUpByLink(l) => Log!Offer(l)
      BY <2>3 DEF SignUpByLink, Log!Offer, Inv, TypeOK
    <2>5. Expire(l) => Log!Expire(l)
      BY <2>3 DEF Expire, Log!Expire
    <2>6. QED
      BY <2>1, <2>4, <2>5 DEF Log!Next
  <1>7. CASE \E c \in Chats : Leave(c)
    <2>1. PICK c \in Chats : Leave(c)
      BY <1>7
    <2>2. UNCHANGED <<inbox, offset, answered, open>>
      BY <2>1 DEF Leave
    <2>3. UNCHANGED <<inbox[TheBot], Cardinality(Taken), open>>
      BY <2>2 DEF Taken
    <2>4. Log!Leave(c)
      BY <2>1, <2>3 DEF Leave, Log!Leave
    <2>5. QED
      BY <2>4 DEF Log!Next
  <1>8. QED
    BY <1>2, <1>3, <1>4, <1>5, <1>6, <1>7, Zenon DEF Next

\* A repeated /stop has nothing left to stop: nothing is answered in between
\* that could subscribe the chat anew.
LEMMA StopKept ==
  ASSUME TelegramAssumption, OneBot, Inv, Inv', StopInv, [Next]_vars
  PROVE  StopInv'
  <1>1. Bots = {TheBot} /\ TheBot \in Bots
    BY TheBotIs
  <1> DEFINE b == TheBot
             first == First(TheBot)
  <1>2. /\ first \in Nat \ {0} /\ answered[b] \subseteq 1 .. first /\ answered[b] \subseteq DOMAIN inbox[b]
        /\ inbox[b] \in Seq(Update) /\ choice \in [Chats -> Links \cup {None}]
    BY <1>1, DoneIs DEF Inv, OffsetInv, TypeOK
  <1>3. CASE Answer
    <2>1. poll.bot = b /\ Current = Pending /\ Current \in Update /\ UNCHANGED <<inbox, offset>>
      BY <1>1, <1>3, InHand DEF Answer, Inv, Pending
    <2>2. Pending.kind = "stop" => choice'[Pending.chat] = None
      <3>1. ASSUME Pending.kind = "stop" PROVE StopChat(Pending)
        BY <1>3, <2>1, <3>1, Zenon DEF Answer
      <3>2. Pending.chat \in Chats
        BY <2>1 DEF Update
      <3> HIDE DEF b, first
      <3>3. QED
        BY <1>2, <3>1, <3>2 DEF StopChat
    <2>3. QED
      BY <1>1, <2>1, <2>2 DEF StopInv, First, Pending
  <1>4. CASE StoreOffset
    <2>1. poll.bot = b /\ Head(poll.batch) = first
      BY <1>1, <1>4, InHand DEF StoreOffset, Inv
    <2>2. offset'[b] = first + 1 /\ answered' = answered
      BY <1>1, <1>4, <2>1 DEF StoreOffset, Inv, TypeOK
    <2>3. First(b)' = first + 1
      BY <1>2, <2>2 DEF First, FirstOf
    <2>4. first + 1 \notin answered[b]
      BY <1>2
    <2>5. QED
      BY <1>1, <2>2, <2>3, <2>4 DEF StopInv
  <1>5. CASE \E x \in Bots, u \in Update : Send(x, u)
    <2>1. PICK u \in Update : Send(b, u)
      BY <1>1, <1>5
    <2>2. inbox'[b] = Append(inbox[b], u) /\ UNCHANGED <<offset, answered, choice>>
      BY <1>1, <2>1 DEF Send, Inv, TypeOK
    <2>3. \A k \in DOMAIN inbox[b] : inbox'[b][k] = inbox[b][k]
      BY <1>2, <2>2, LenProperties, AppendProperties
    <2>4. QED
      BY <1>1, <1>2, <2>2, <2>3 DEF StopInv, First
  <1>6. CASE \E c \in Chats : Leave(c)
    <2>1. PICK c \in Chats : Leave(c)
      BY <1>6
    <2>2. UNCHANGED <<inbox, offset, answered>> /\ choice' = [choice EXCEPT ![c] = None]
      BY <2>1 DEF Leave
    <2>3. \A d : choice[d] = None => choice'[d] = None
      BY <1>2, <2>2
    <2>4. QED
      BY <2>2, <2>3 DEF StopInv, First
  <1>7. CASE \/ GetUpdates \/ AnswerFails \/ RoundEnds \/ (\E x \in Bots \cup {Off} : Reload(x))
             \/ (\E l \in Links : SignUpByLink(l) \/ Expire(l)) \/ UNCHANGED vars
    <2>1. UNCHANGED <<inbox, offset, answered, choice>>
      BY <1>7 DEF GetUpdates, AnswerFails, RoundEnds, Reload, SignUpByLink, Expire, vars
    <2>2. QED
      BY <2>1 DEF StopInv, First
  <1>8. QED
    BY <1>3, <1>4, <1>5, <1>6, <1>7, Zenon DEF Next

\* The polling task of a bot implements CommandLog, for any chats, links and
\* bounds: though updates are answered again after a crash, a failing answer or
\* a failing write of the offset (poll_once), the commands take effect in the
\* order they were sent, each at most once.
THEOREM ImplementsCommandLog ==
  ASSUME TelegramAssumption, OneBot
  PROVE  Spec => InOrderOnce
  <1>1. Init => Inv /\ StopInv /\ Log!Init
    <2> SUFFICES ASSUME Init PROVE Inv /\ StopInv /\ Log!Init
      OBVIOUS
    <2>1. Inv
      BY TelegramInit
    <2>2. TheBot \in Bots
      BY TheBotIs
    <2>3. answered[TheBot] = {} /\ offset[TheBot] = 0 /\ inbox[TheBot] = <<>>
      BY <2>2 DEF Init
    <2>4. Cardinality(Taken) = 0
      <3>1. Taken = {}
        BY <2>3 DEF Taken
      <3>2. QED
        BY <3>1, FS_EmptySet
    <2>5. Log!Init
      BY <2>3, <2>4 DEF Init, Log!Init
    <2>6. StopInv
      BY DEF Init, StopInv
    <2>7. QED
      BY <2>1, <2>5, <2>6
  <1>2. Inv /\ StopInv /\ [Next]_vars => Inv' /\ StopInv' /\ [Log!Next]_Log!vars
    <2>1. Inv /\ [Next]_vars => Inv'
      BY TelegramNext
    <2>2. QED
      BY <2>1, StopKept, PollImplements
  <1>3. QED
    BY <1>1, <1>2, PTL DEF Spec, InOrderOnce, Log!Spec
===============================================================================
