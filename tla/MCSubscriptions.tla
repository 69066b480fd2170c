--------------------------- MODULE MCSubscriptions ---------------------------
(* Small instances for TLC: one component, one event about it and one       *)
(* maintenance event on everything.                                         *)
EXTENDS Subscriptions

CONSTANT web

News == {[component |-> web, maintenance |-> FALSE]}
NewsAndMaintenance == News \cup {[component |-> Everywhere, maintenance |-> TRUE]}
WantsAll == {[all |-> TRUE, components |-> {}, maintenance |-> TRUE]}
WantsSome == {[all |-> FALSE, components |-> {web}, maintenance |-> FALSE]}
WantsEither == WantsAll \cup WantsSome
Delays == [n \in 1..MaxAttempts |-> 1]
=============================================================================
