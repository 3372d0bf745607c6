------------------------------ MODULE MCStops ------------------------------
(*****************************************************************************)
(* One small instance of each of the things that are stopped, in one run.    *)
(*****************************************************************************)
EXTENDS ProcessStops

\* An agent that fails, or a run that is killed, with a budget that may run out.
ReviewFaults == {{"fail", "budget"}, {"kill", "budget"}}

(* The components that do not move start in one of their initial states.     *)
MCInit ==
  /\ Init
  /\ part # "command" => child = [st |-> "running", deaf |-> FALSE, stuck |-> FALSE] /\ ~commandHeir
  /\ part # "signals" => ~suite.deaf
  /\ part # "review" => faults = {"fail", "budget"}

MCSpec == MCInit /\ [][Next]_vars
=============================================================================
