------------------------------- MODULE MCLand -------------------------------
(*****************************************************************************)
(* One small instance of each of the ways a branch changes, in one run.      *)
(*****************************************************************************)
EXTENDS BranchWork

(* The components that do not move start in one of their initial states.     *)
MCInit ==
  /\ Init
  /\ part # "land" => ~(job.whole \/ job.regen \/ job.recover \/ job.open) /\ head = 1
       /\ work = index
       /\ work = [f \in Files |-> "base"]
  /\ part # "rebase" => rebaseRemote = Absent

MCSpec == MCInit /\ [][Next]_vars
=============================================================================
