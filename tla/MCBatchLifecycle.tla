-------------------------- MODULE MCBatchLifecycle --------------------------
(***************************************************************************)
(* Instances of BatchLifecycle for TLC: one batch, and symmetric sets of   *)
(* items, attempts, instances and requests.                                *)
(***************************************************************************)
EXTENDS BatchLifecycle, TLC

CONSTANT b1

OneBatch == [i \in Item |-> b1]

Symmetry == Permutations(Item) \cup Permutations(Attempt)
              \cup Permutations(Worker) \cup Permutations(Client)
=============================================================================
