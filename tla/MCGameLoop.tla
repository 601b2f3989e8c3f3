----------------------------- MODULE MCGameLoop -----------------------------
(* Instances of GameLoop: one bursting schedule, or one and a skipping one. *)
EXTENDS GameLoop

Two        == {0, 1}
PeriodOf   == [i \in Two |-> 2]
PhaseOf    == [i \in Two |-> i]
BehaviorOf == [i \in Two |-> IF i = 0 THEN "Burst" ELSE "Skip"]
CatchUpOf  == [i \in Two |-> 2]
=============================================================================
