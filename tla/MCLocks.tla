------------------------------ MODULE MCLocks ------------------------------
(*****************************************************************************)
(* One small instance of each of the locks of a checkout, in one run.       *)
(*****************************************************************************)
EXTENDS CheckoutLocks

\* The first and the third session share a pid, which the system gave out again.
Recycled(s) == IF s = "s2" THEN "71" ELSE "7"
OwnIds(s) == IF s = "s2" THEN "id" ELSE ""

\* A planner or a `pr gc` that dies, beside refs that stay and a git that works on.
ClaimFaults == {{"kill", "drop", "git"}, {"sweeper", "recycled"}}

(* The components that do not move start in one of their initial states.   *)
MCInit == Init /\ (part # "claims" => faults = {"kill", "drop", "git"})
MCSpec == MCInit /\ [][Next]_vars
=============================================================================
