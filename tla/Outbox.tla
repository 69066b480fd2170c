-------------------------------- MODULE Outbox --------------------------------
(***************************************************************************)
(* What the subscriptions promise.  News is accepted only for people who   *)
(* confirmed; a message is settled once, and after that it is neither sent *)
(* nor put back in the queue; it arrives once, and once more only for a    *)
(* round that was cut short or an answer that was lost, and such a send    *)
(* may arrive when the message is settled already; who leaves or starts    *)
(* over takes along what was waiting, and of mail that was withdrawn       *)
(* nothing is promised any more.  Subscriptions implements it.             *)
(***************************************************************************)
EXTENDS Integers, Sequences, FiniteSets

VARIABLES people,   \* where each person stands, by id
          mail,     \* the messages accepted, by id
          cuts,     \* rounds cut short so far
          lost      \* sends that arrived although they ended in an error

vars == <<people, mail, cuts, lost>>

\* A message as it is accepted, and one that was withdrawn.  unheard counts the
\* sends of it that failed and may have been taken all the same.
Accepted(s, news) ==
  [to |-> s, news |-> news, fate |-> "queued", arrived |-> 0, unheard |-> 0]
Withdrawn(m) == [Accepted(m.to, FALSE) EXCEPT !.fate = "gone"]

Without(S) == [i \in DOMAIN mail |-> IF i \in S THEN Withdrawn(mail[i]) ELSE mail[i]]

MailTo(S) == {i \in DOMAIN mail : mail[i].to \in S}

Queued(i) == mail[i].fate = "queued"

Active == {s \in DOMAIN people : people[s] = "active"}

\* A finite set in any order.
Orders(S) ==
  {q \in [1 .. Cardinality(S) -> S] : \A j, k \in 1 .. Cardinality(S) : q[j] = q[k] => j = k}

Init == people = <<>> /\ mail = <<>> /\ cuts = 0 /\ lost = 0

\* Somebody signs up; the confirmation goes out unless the link is on the page.
Join ==
  /\ people' = Append(people, "pending")
  /\ mail' \in {mail, Append(mail, Accepted(Len(people'), FALSE))}
  /\ UNCHANGED <<cuts, lost>>

\* Somebody who is not active signs up again: nothing from before still waits.
StartOver(s) ==
  /\ people[s] \in {"pending", "quarantined"}
  /\ people' = [people EXCEPT ![s] = "pending"]
  /\ \E old \in SUBSET MailTo({s}) :
       /\ {i \in MailTo({s}) : Queued(i)} \subseteq old
       /\ mail' = Append(Without(old), Accepted(s, FALSE))
  /\ UNCHANGED <<cuts, lost>>

OptIn(s) ==
  /\ people[s] = "pending" /\ people' = [people EXCEPT ![s] = "active"]
  /\ UNCHANGED <<mail, cuts, lost>>

\* A link opened in a chat that is already known: t takes the place of s.
TakeOver(s, t) ==
  /\ people[s] = "pending" /\ people[t] # "gone" /\ s # t
  /\ \A i \in MailTo({s}) : mail[i].fate = "gone"
  /\ people' = [people EXCEPT ![s] = "gone", ![t] = "active"]
  /\ UNCHANGED <<mail, cuts, lost>>

Leave(S) ==
  /\ \A s \in S : people[s] # "gone"
  /\ people' = [s \in DOMAIN people |-> IF s \in S THEN "gone" ELSE people[s]]
  /\ mail' = Without(MailTo(S))
  /\ UNCHANGED <<cuts, lost>>

Hold(s) ==
  /\ people[s] \in {"pending", "active"} /\ people' = [people EXCEPT ![s] = "quarantined"]
  /\ UNCHANGED <<mail, cuts, lost>>

\* News is accepted once for each of the people it concerns.
Publish(S) ==
  /\ S # {}
  /\ \E q \in Orders(S) : mail' = mail \o [k \in 1 .. Cardinality(S) |-> Accepted(q[k], TRUE)]
  /\ UNCHANGED <<people, cuts, lost>>

\* News is sent to nobody unconfirmed, and nothing that is settled.
MayBeSent(i) ==
  /\ Queued(i)
  /\ mail[i].news => people[mail[i].to] \in {"active", "quarantined"}

\* One more time than rounds were cut short and answers lost.
Arrive(i) ==
  /\ MayBeSent(i) /\ mail[i].arrived <= cuts + lost
  /\ mail' = [mail EXCEPT ![i].arrived = @ + 1]
  /\ UNCHANGED <<people, cuts, lost>>

Fail(i) ==
  /\ MayBeSent(i)
  /\ mail' = [mail EXCEPT ![i].unheard = @ + 1]
  /\ UNCHANGED <<people, cuts, lost>>

\* The answer was lost, not the message; it may have been settled meanwhile.
ArriveLate(i) ==
  /\ mail[i].unheard > 0
  /\ mail' = [mail EXCEPT ![i].unheard = @ - 1, ![i].arrived = @ + 1]
  /\ lost' = lost + 1
  /\ UNCHANGED <<people, cuts>>

Settle(i, fate) ==
  /\ Queued(i) /\ (fate = "sent" => mail[i].arrived > 0)
  /\ mail' = [mail EXCEPT ![i].fate = fate]
  /\ UNCHANGED <<people, cuts, lost>>

Cut == cuts' = cuts + 1 /\ UNCHANGED <<people, mail, lost>>

Next ==
  \/ Join \/ Cut
  \/ \E s \in DOMAIN people :
       StartOver(s) \/ OptIn(s) \/ Hold(s) \/ (\E t \in DOMAIN people : TakeOver(s, t))
  \/ \E S \in SUBSET DOMAIN people : Leave(S)
  \/ \E S \in SUBSET Active : Publish(S)
  \/ \E i \in DOMAIN mail :
       Arrive(i) \/ Fail(i) \/ ArriveLate(i) \/ (\E fate \in {"sent", "failed"} : Settle(i, fate))

Spec == Init /\ [][Next]_vars
===============================================================================
