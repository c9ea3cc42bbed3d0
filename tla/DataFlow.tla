------------------------------ MODULE DataFlow ------------------------------
(* DataFlow<FlowTrait>::solve of analysis/dataflow/framework.hpp: the round- *)
(* robin iteration that computes the solution of a data-flow problem on a    *)
(* control-flow graph.  The CONSTANTS are what a FlowTrait provides; an      *)
(* analysis instantiates this module with its own (Dominance, Liveness).     *)
(*                                                                           *)
(* Blocks are numbered in the order of Func::blocks().  The predecessors in  *)
(* flow direction are an unordered_set and every meet is commutative,        *)
(* associative and idempotent: Meet takes the set of what it combines, and   *)
(* Meet({}) is top().                                                        *)
EXTENDS Integers

CONSTANTS
  Block,                  \* the blocks, 1 .. n
  Meet(_),                \* the meet of a set of data
  Boundary,               \* boundary(): what enters at a boundary block
  IsBoundary(_, _),       \* whether a block is one, in a given graph
  Transfer(_, _, _),      \* transfer of a block, in a given context
  EdgeTransfer(_, _, _, _) \* edge_transfer from a flow predecessor to a block

VARIABLES
  flow_pred,   \* the predecessors of every block in flow direction
  ctx,         \* what Trait::init computed
  flow_in,     \* in if the analysis is forward, else out
  flow_out,    \* out if the analysis is forward, else in
  at,          \* the block the sweep is at
  changed,     \* whether the sweep changed anything
  solved       \* the loop is over

Top == Meet({})

(* The data that meet at the start of a block. *)
Arriving(b) ==
  {EdgeTransfer(ctx, p, b, flow_out[p]) : p \in flow_pred[b]}
    \cup {d \in {Boundary} : IsBoundary(flow_pred, b)}

(* A slip in SolveInit: every block starts from the boundary value. *)
SolveInitBoundary ==
  /\ flow_in = [b \in Block |-> Boundary]
  /\ flow_out = [b \in Block |-> Transfer(ctx, b, Boundary)]
  /\ at = 1
  /\ changed = FALSE
  /\ solved = FALSE

SolveInit ==
  /\ flow_in = [b \in Block |-> IF IsBoundary(flow_pred, b) THEN Boundary ELSE Top]
  /\ flow_out = [b \in Block |-> IF IsBoundary(flow_pred, b)
                                 THEN Transfer(ctx, b, Boundary) ELSE Top]
  /\ at = 1
  /\ changed = FALSE
  /\ solved = FALSE

(* A slip in Visit: the flag forgets the earlier blocks of the sweep. *)
VisitForgets ==
  /\ ~solved
  /\ at \in Block
  /\ flow_in' = [flow_in EXCEPT ![at] = Meet(Arriving(at))]
  /\ flow_out' = [flow_out EXCEPT ![at] = Transfer(ctx, at, Meet(Arriving(at)))]
  /\ changed' = (flow_out' # flow_out)
  /\ at' = at + 1
  /\ UNCHANGED <<flow_pred, ctx, solved>>

(* One turn of the inner loop. *)
Visit ==
  /\ ~solved
  /\ at \in Block
  /\ flow_in' = [flow_in EXCEPT ![at] = Meet(Arriving(at))]
  /\ flow_out' = [flow_out EXCEPT ![at] = Transfer(ctx, at, Meet(Arriving(at)))]
  /\ changed' = (changed \/ flow_out' # flow_out)
  /\ at' = at + 1
  /\ UNCHANGED <<flow_pred, ctx, solved>>

(* A slip in Again: changed is not reset. *)
AgainNoReset ==
  /\ ~solved
  /\ at \notin Block /\ changed
  /\ at' = 1
  /\ UNCHANGED <<flow_pred, ctx, flow_in, flow_out, changed, solved>>

(* Something changed: sweep once more. *)
Again ==
  /\ ~solved
  /\ at \notin Block /\ changed
  /\ at' = 1
  /\ changed' = FALSE
  /\ UNCHANGED <<flow_pred, ctx, flow_in, flow_out, solved>>

Converge ==
  /\ ~solved
  /\ at \notin Block /\ ~changed
  /\ solved' = TRUE
  /\ UNCHANGED <<flow_pred, ctx, flow_in, flow_out, at, changed>>

Solve == Visit \/ Again \/ Converge

(* What every step of solve() brings nearer to its end, given the way in     *)
(* which the data of the analysis can move: the data move, or else a sweep   *)
(* that has seen a change is over, or else it goes on.  Data that move one   *)
(* way only cannot move for ever.                                            *)
SolveAdvances(Moves) ==
  \/ solved' /\ ~solved
  \/ Moves
  \/ flow_out' = flow_out /\ changed /\ ~changed'
  \/ flow_out' = flow_out /\ changed' = changed /\ at < at'
=============================================================================
