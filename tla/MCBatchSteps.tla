---------------------------- MODULE MCBatchSteps ----------------------------
(***************************************************************************)
(* Instances of BatchSteps for TLC: two items, each with a target and a    *)
(* tree, or sharing one of each; the second may be stacked on the first.   *)
(***************************************************************************)
EXTENDS BatchSteps

CONSTANTS a, b, target1, tree1, target2, tree2, pr

OneTarget == [i \in Items |-> target1]
OneTree == [i \in Items |-> tree1]
TwoTargets == [i \in Items |-> IF i = a THEN target1 ELSE target2]
TwoTrees == [i \in Items |-> IF i = a THEN tree1 ELSE tree2]
FirstA == [i \in Items |-> IF i = a THEN 1 ELSE 2]
Unstacked == [i \in Items |-> None]
Stacked == [i \in Items |-> IF i = b THEN a ELSE None]
InTheTree == [c \in Commands |-> {tree1}]
OnTheTarget == [c \in Commands |-> {target1, tree1}]

ReleaseKill == [kind |-> "release", item |-> a, kill |-> TRUE]
CancelKill == [kind |-> "cancel", kill |-> TRUE]
Answer(i) == [kind |-> "decide", item |-> i, about |-> "people"]
ReleaseAndAnswer == {ReleaseKill, Answer(a)}
KillRequests == {ReleaseKill, CancelKill}
Answers == {Answer(i) : i \in Items}
=============================================================================
