-------------------------------- MODULE MCPr --------------------------------
(*****************************************************************************)
(* One small instance of each of the things that happen to a pull request,   *)
(* in one run.                                                               *)
(*****************************************************************************)
EXTENDS PrWork

\* The files that two items point at.
Apart == [i \in {"i1", "i2"} |-> IF i = "i1" THEN "f1" ELSE "f2"]
Same == [i \in {"i1", "i2"} |-> "f1"]
InTurn == <<"i1", "i2">>

\* The row of a thread speaks for the row of an item.
ItemOfThread == {<<"k1", "k2">>}

(* The components that do not move start in one of their initial states.     *)
MCInit ==
  /\ Init
  /\ part \notin {"comments", "review"} =>
       commentsTree = [f \in Files |-> {}] /\ ~session /\ ~commentsPost

MCSpec == MCInit /\ [][Next]_vars
=============================================================================
