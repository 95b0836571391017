------------------------------ MODULE MCAiJobs ------------------------------
(***************************************************************************)
(* Instances of AiJobs for TLC.                                            *)
(***************************************************************************)
EXTENDS AiJobs, TLC

CONSTANTS c1, m1, j1, j2, w1, w2, o1, o2, i1

MCModelLimit == [m \in Models |-> 4]

\* Operators only ask for another poll.
PollOnly == {"retry_poll"}

AllKinds == {"retry_poll", "retry_cache", "fail_release", "refund", "cancel"}

JobSymmetry    == Permutations(Workers) \cup Permutations(Operators) \cup Permutations(Jobs)
=============================================================================
