---------------------------- MODULE MCAlertEngine ----------------------------
(* Small configs for TLC.  Check c1 is mirrored by component A, moves to B, *)
(* is mirrored by both, or by a component named like check c2, whose own    *)
(* incidents go under its id.                                               *)
EXTENDS AlertEngine

CONSTANTS c1, c2, A, B

OnA == [checks |-> {c1}, mirror |-> <<[id |-> A, check |-> c1]>>]
OnB == [checks |-> {c1}, mirror |-> <<[id |-> B, check |-> c1]>>]
Nowhere == [checks |-> {}, mirror |-> <<>>]
Shared == [checks |-> {c1, c2}, mirror |-> <<[id |-> c2, check |-> c1]>>]
OnAThenB == [checks |-> {c1}, mirror |-> <<[id |-> A, check |-> c1], [id |-> B, check |-> c1]>>]
OnBThenA == [checks |-> {c1}, mirror |-> <<[id |-> B, check |-> c1], [id |-> A, check |-> c1]>>]

OnlyA == {OnA}
AOrShared == {OnA, Shared}
Moving == {OnA, OnB, Nowhere}
All == {OnA, OnB, Nowhere, Shared}
Reordered == {OnAThenB, OnBThenA}

AtOnce == [failuresToOpen |-> 1, successesToResolve |-> 1, reminderInterval |-> 0]
AfterTwo == [failuresToOpen |-> 2, successesToResolve |-> 2, reminderInterval |-> 0]

MutedAlways == {TRUE}
MutedNever == {FALSE}
MutedMaybe == BOOLEAN
=============================================================================
