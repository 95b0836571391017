---------------------------- MODULE MCAiGateway ----------------------------
(***************************************************************************)
(* Instances of AiGateway for TLC.                                         *)
(***************************************************************************)
EXTENDS AiGatewayAccounts, TLC

CONSTANTS c1, c2, k1, m1, r1, r2, r3, i1

MCKeyOwner   == [k \in Keys |-> c1]
MCKeyLimit   == [k \in Keys |-> 3]
MCModelLimit == [m \in Models |-> NoLimit]
MCAmounts    == {-2, 2}
MCQuotas     == {3, NoLimit}

RequestSymmetry == Permutations(Requests)
=============================================================================
