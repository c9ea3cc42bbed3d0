----------------------------- MODULE FlowGraph -----------------------------
(* The ControlFlowGraph of analysis/cfg.hpp, and dominance as paths define   *)
(* it: the reference for what analysis/dominance.hpp computes.  Blocks are   *)
(* numbered in the order of Func::blocks(); the entrance is the first.       *)
EXTENDS Integers, FiniteSets

CONSTANT NB   \* the number of blocks

ASSUME NBAssumption == NB \in Nat \ {0}

Block == 1 .. NB
Entry == 1

(* An exit has at most two targets; no exit targets the entrance. *)
Targets == {T \in SUBSET (Block \ {Entry}) : Cardinality(T) <= 2}

(* connect: pred from succ. *)
PredOf(succ) == [b \in Block |-> {p \in Block : b \in succ[p]}]

(* S holds whatever can be reached from the entrance without passing d, and  *)
(* maybe more.                                                               *)
ClosedAvoiding(pred, S, d) ==
  /\ Entry # d => Entry \in S
  /\ \A b \in Block \ {d} : pred[b] \cap S # {} => b \in S

(* Every path from the entrance to b passes d. *)
Dominates(pred, d, b) ==
  \E S \in SUBSET (Block \ {d}) : ClosedAvoiding(pred, S, d) /\ b \notin S

StrictlyDominates(pred, d, b) == d # b /\ Dominates(pred, d, b)

Unreachable(pred, b) == \E S \in SUBSET Block : ClosedAvoiding(pred, S, 0) /\ b \notin S

(* d is the closest of the blocks that strictly dominate b. *)
ImmediatelyDominates(pred, d, b) ==
  /\ StrictlyDominates(pred, d, b)
  /\ \A e \in Block : StrictlyDominates(pred, e, b) => Dominates(pred, e, d)

(* The dominance of n ends at w. *)
InFrontier(pred, w, n) ==
  /\ \E p \in pred[w] : Dominates(pred, n, p)
  /\ ~StrictlyDominates(pred, n, w)
=============================================================================
