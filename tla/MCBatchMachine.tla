--------------------------- MODULE MCBatchMachine ---------------------------
(***************************************************************************)
(* Instances of BatchMachine for TLC: two or three runs, with the number   *)
(* of items each has a step to start for.                                  *)
(***************************************************************************)
EXTENDS BatchMachine

OneEach == [d \in Drivers |-> 1]
TwoEach == [d \in Drivers |-> 2]
LastHasOne == [d \in Drivers |-> IF \A e \in Drivers : e <= d THEN 1 ELSE 2]
=============================================================================
