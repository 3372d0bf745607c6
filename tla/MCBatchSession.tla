--------------------------- MODULE MCBatchSession ---------------------------
(***************************************************************************)
(* Instances of BatchSession for TLC: one item with two decision slots,    *)
(* and the request each submitter delivers.                                *)
(***************************************************************************)
EXTENDS BatchSession, TLC

CONSTANTS item, other, first, second, publish, drop, s1, s2

OneItem == {item}
TwoItems == {item, other}
TheDecisions == {first, second}
TheActions == {publish, drop}
OnItem == [d \in TheDecisions |-> item]
OneEach == (first :> item) @@ (second :> other)

Decide(d, a) == [kind |-> "decide", decision |-> d, action |-> a]
Cancel(kill) == [kind |-> "cancel", kill |-> kill]
Release(kill) == [kind |-> "release", item |-> item, kill |-> kill]

DecideAndCancel == (s1 :> Decide(first, publish)) @@ (s2 :> Cancel(FALSE))
OneDecide == s1 :> Decide(first, publish)
OneRelease == s1 :> Release(TRUE)

(* The run as some process left it: `where` and `stepping` are of item.    *)
ARun(status, where, stepping, one, two) ==
  [status |-> status, cancel |-> "none", stepping |-> stepping,
   items |-> [i \in Items |-> IF i = item THEN where ELSE "open"],
   decisions |-> (first :> one) @@ (second :> two)]

(* Waiting for an answer; over; and left by a killed driver with a step on *)
(* item recorded as running, alone or beside another item awaiting one.    *)
Waiting == ARun("waiting", "open", {}, "open", "absent")
Over == ARun("done", "terminal", {}, publish, "absent")
Orphaned == ARun("running", "running", {item}, "absent", "absent")
OrphanedBeside == ARun("running", "running", {item}, "absent", "open")

WaitingOnly == {Waiting}
WaitingOrOver == {Waiting, Over}
AnyRun == {Waiting, Over, Orphaned}
OverOnly == {Over}
OrphanedOnly == {OrphanedBeside}

(* What a removal that fails part way may leave of run.lock and state.json. *)
Intact == {{"lock", "state"}}
AnyLock == {{"lock", "state"}, {"lock"}}
LockLost == {{"state"}}
=============================================================================
