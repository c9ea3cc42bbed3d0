----------------------------- MODULE Dominance -----------------------------
(* flow::Dominance of analysis/dataflow/dominance.hpp, solved by DataFlow,   *)
(* and the DominanceTree and DominanceFrontier that analysis/dominance.hpp   *)
(* computes from the solution.                                               *)
(*                                                                           *)
(* A Set of framework.hpp is the set of its elements; the universe is the    *)
(* set of all blocks with a marker for everything else, so that it is larger *)
(* than any set and meets, inserts and tests as is_universe does.            *)
EXTENDS FlowGraph

VARIABLES
  flow_pred, ctx, flow_in, flow_out, at, changed, solved,   \* of DataFlow
  idom,       \* idom_map, 0 for nullptr
  frontier,   \* frontier_map
  todo,       \* the edges the frontier loop has still to walk from
  edge,       \* the edge it walks from now
  runner,     \* where it is, 0 for nullptr
  pc          \* the constructor that runs

-----------------------------------------------------------------------------
Everything == 0
Universe == 0 .. NB
IsUniverse(set) == Everything \in set

(* meet: intersection_set, over any number of sets. *)
IntersectionSet(sets) == {x \in Universe : \A s \in sets : x \in s}

(* transfer: insert(&blk), no change to the universe. *)
InsertBlock(context, b, in) == in \cup {b}

(* No edge_transfer in this trait. *)
PassEdge(context, from, to, data) == data

IsEntry(pred, b) == b = Entry

INSTANCE DataFlow WITH
  Meet <- IntersectionSet, Boundary <- {}, IsBoundary <- IsEntry,
  Transfer <- InsertBlock, EdgeTransfer <- PassEdge

flowVars == <<flow_pred, ctx, flow_in, flow_out, at, changed, solved>>
treeVars == <<idom, frontier, todo, edge, runner, pc>>
vars == <<flowVars, treeVars>>

-----------------------------------------------------------------------------
Init ==
  /\ \E succ \in [Block -> Targets] : flow_pred = PredOf(succ)
  /\ ctx = {}
  /\ SolveInit
  /\ idom = [b \in Block |-> 0]
  /\ frontier = [b \in Block |-> {}]
  /\ todo = {}
  /\ edge = <<Entry, Entry>>
  /\ runner = 0
  /\ pc = "solve"

SolveStep == pc = "solve" /\ Solve /\ UNCHANGED treeVars

(* A slip in Closest: the dominator with the smallest set. *)
Farthest(b) ==
  LET strict == flow_out[b] \ {b}
  IN  {d \in strict : \A e \in strict : Cardinality(flow_out[e]) >= Cardinality(flow_out[d])}

(* The dominators of b, other than b, with the largest dominator set. *)
Closest(b) ==
  LET strict == flow_out[b] \ {b}
  IN  {d \in strict : \A e \in strict : Cardinality(flow_out[e]) <= Cardinality(flow_out[d])}

(* DominanceTree: to iterate over the universe is an error. *)
BuildTree ==
  /\ pc = "solve" /\ solved
  /\ IF \E b \in Block : IsUniverse(flow_out[b])
     THEN /\ pc' = "throw"
          /\ UNCHANGED <<idom, todo>>
     ELSE /\ pc' = "frontier"
          /\ idom' \in {f \in [Block -> 0 .. NB] :
                          \A b \in Block : IF Closest(b) = {} THEN f[b] = 0
                                           ELSE f[b] \in Closest(b)}
          /\ todo' = {e \in Block \X Block : e[1] \in flow_pred[e[2]] /\ idom'[e[2]] # 0}
  /\ UNCHANGED <<flowVars, frontier, edge, runner>>

(* A slip in Arrived: the runner climbs up to the root. *)
ArrivedAtRoot == runner = 0

(* DominanceFrontier: the runner has reached the immediate dominator. *)
Arrived == runner = 0 \/ runner = idom[edge[2]]

(* The next predecessor of the block, or the first of the next block. *)
StartEdge ==
  /\ pc = "frontier"
  /\ Arrived
  /\ \E e \in todo :
       /\ \A f \in todo : e[2] <= f[2]
       /\ edge' = e
       /\ runner' = e[1]
       /\ todo' = todo \ {e}
  /\ UNCHANGED <<flowVars, idom, frontier, pc>>

(* The while loop over the runner. *)
Climb ==
  /\ pc = "frontier"
  /\ ~Arrived
  /\ frontier' = [frontier EXCEPT ![runner] = @ \cup {edge[2]}]
  /\ runner' = idom[runner]
  /\ UNCHANGED <<flowVars, idom, todo, edge, pc>>

Finish ==
  /\ pc = "frontier"
  /\ Arrived /\ todo = {}
  /\ pc' = "done"
  /\ UNCHANGED <<flowVars, idom, frontier, todo, edge, runner>>

(* The analysis is there, or an exception has ended it. *)
Returned == pc \in {"done", "throw"} /\ UNCHANGED vars

Next == SolveStep \/ BuildTree \/ StartEdge \/ Climb \/ Finish \/ Returned

Spec == Init /\ [][Next]_vars

-----------------------------------------------------------------------------
(* The tables of the analysis hold what their C++ types say. *)
TypeOK ==
  /\ flow_pred \in [Block -> SUBSET Block]
  /\ flow_in \in [Block -> SUBSET Universe] /\ flow_out \in [Block -> SUBSET Universe]
  /\ at \in 1 .. NB + 1 /\ changed \in BOOLEAN /\ solved \in BOOLEAN
  /\ idom \in [Block -> 0 .. NB]
  /\ frontier \in [Block -> SUBSET Block]
  /\ todo \subseteq Block \X Block
  /\ edge \in Block \X Block /\ runner \in 0 .. NB
  /\ pc \in {"solve", "frontier", "done", "throw"}

(* The iteration converges to dominance itself, not merely to some solution *)
(* of its equations: a block is in out[b] exactly if no path to b avoids it *)
(* (the universe holds every block, and no path leads to an unreachable     *)
(* block), and it stays the universe exactly for the unreachable blocks.    *)
DominatorsExact ==
  solved => \A b \in Block :
    /\ \A d \in Block : d \in flow_out[b] <=> Dominates(flow_pred, d, b)
    /\ IsUniverse(flow_out[b]) <=> Unreachable(flow_pred, b)

(* No sweep loses a dominator: what a block is not dominated by has been    *)
(* refuted by a path, at any moment of the iteration.                       *)
NeverLosesDominator ==
  \A b, d \in Block : Dominates(flow_pred, d, b) => d \in flow_out[b]

(* The dominator with the largest set is the immediate one: all the other   *)
(* strict dominators dominate it, and only the entrance has none.           *)
IdomImmediate ==
  pc \in {"frontier", "done"} => \A b \in Block :
    IF b = Entry THEN idom[b] = 0
    ELSE idom[b] \in Block /\ ImmediatelyDominates(flow_pred, idom[b], b)

(* frontier(N) holds the blocks W where the dominance of N ends: N          *)
(* dominates a predecessor of W and does not strictly dominate W.           *)
FrontierExact ==
  pc = "done" => \A n, w \in Block :
    w \in frontier[n] <=> InFrontier(flow_pred, w, n)

(* Dominator sets lose elements and never win one back. *)
Shrink == flow_out' # flow_out /\ \A b \in Block : flow_out'[b] \subseteq flow_out[b]

(* An edge less is left to walk from, or the runner is closer to the root.   *)
RunnerAdvances ==
  /\ UNCHANGED flow_pred
  /\ \/ todo' \subseteq todo /\ todo' # todo
     \/ /\ todo' = todo /\ runner # 0
        /\ runner' = 0 \/ StrictlyDominates(flow_pred, runner', runner)

Advances ==
  \/ pc = "solve" /\ pc' \in {"frontier", "throw"}
  \/ pc = "frontier" /\ pc' = "done"
  \/ pc = "solve" /\ pc' = pc /\ SolveAdvances(Shrink)
  \/ pc = "frontier" /\ pc' = pc /\ RunnerAdvances

(* solve() and the constructors return: every step brings that nearer.  The  *)
(* sweeps only take away from the sets, although each visit computes its     *)
(* block anew from sets of different age; the while loop over the runner     *)
(* goes up the tree, since idom_map has no cycle.                            *)
SweepsAdvance == [][Advances]_vars
=============================================================================
