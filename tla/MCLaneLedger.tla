---------------------------- MODULE MCLaneLedger ----------------------------
(* The instance TLC checks: the facts that open and close one lane, and    *)
(* activity in two.                                                        *)
EXTENDS LaneLedger

CONSTANTS l1, l2, w1, w2, alice, bob

Interchangeable == Permutations({w1, w2})

Fact(kind, lane, at, arg) == [type |-> kind, lane |-> lane, at |-> at, arg |-> arg,
                             with |-> Nothing]

ClosingFacts ==
    {Fact("user_kill_requested", l1, 2, alice), Fact("user_kill_requested", l1, 1, bob),
     Fact("runner_lost", l1, 1, Nothing), Fact("attached", l1, 2, Nothing),
     Fact("reopened", l1, 2, l2), Fact("activity", l2, 2, "human")}
=============================================================================
