------------------------------ MODULE Liveness ------------------------------
(* flow::Liveness of analysis/dataflow/liveness.hpp, solved by DataFlow: the *)
(* variables whose value is still needed at the start and the end of every   *)
(* block, with the operands of a phi needed on the incoming edge only.       *)
(*                                                                           *)
(* An instruction is given by the variables it reads and writes.  The        *)
(* operands of a phi are in `from', with the predecessor each comes from,    *)
(* and not in `uses'.                                                        *)
EXTENDS FlowGraph, Sequences

CONSTANT Var   \* the LeftValues of the function

VARIABLES
  body,      \* Block::insts of every block
  exit_use,  \* what the exit of every block reads
  flow_pred, ctx, flow_in, flow_out, at, changed, solved   \* of DataFlow

(* meet: union_set, over any number of sets. *)
UnionSet(sets) == UNION sets

(* transfer and edge_transfer, with the context that init computes. *)
UseOrPass(context, b, out) == (out \ context.kill[b]) \cup context.gen[b]

(* A slip in AddPhiUses: the trait has no edge_transfer. *)
NoPhiUses(context, dst, src, dst_in) == dst_in

AddPhiUses(context, dst, src, dst_in) == dst_in \cup context.phi_uses[dst][src]

(* A block without successors is a ReturnExit. *)
IsReturn(succ, b) == succ[b] = {}

INSTANCE DataFlow WITH
  Meet <- UnionSet, Boundary <- {}, IsBoundary <- IsReturn,
  Transfer <- UseOrPass, EdgeTransfer <- AddPhiUses

vars == <<body, exit_use, flow_pred, ctx, flow_in, flow_out, at, changed, solved>>

-----------------------------------------------------------------------------
Inst == [def : SUBSET Var, uses : SUBSET Var, from : SUBSET (Block \X Var)]

Before(insts, i) == UNION {insts[j].def : j \in 1 .. i - 1}

(* init: gen, kill and phi_uses of a block. *)
Kill(insts) == UNION {insts[i].def : i \in DOMAIN insts}

(* A slip in Gen: the operands of a phi count as uses in its own block. *)
GenPhiOperands(insts, use) ==
  (UNION {(insts[i].uses \cup {f[2] : f \in insts[i].from}) \ Before(insts, i) : i \in DOMAIN insts})
    \cup (use \ Kill(insts))

Gen(insts, use) ==
  (UNION {insts[i].uses \ Before(insts, i) : i \in DOMAIN insts}) \cup (use \ Kill(insts))

PhiUses(insts) ==
  [p \in Block |-> {v \in Var : \E i \in DOMAIN insts : <<p, v>> \in insts[i].from}]

(* The analysis of a function with the given blocks. *)
Analyse(insts, uses, succ) ==
  /\ body = insts
  /\ exit_use = uses
  /\ flow_pred = succ
  /\ ctx = [gen |-> [b \in Block |-> Gen(body[b], exit_use[b])],
            kill |-> [b \in Block |-> Kill(body[b])],
            phi_uses |-> [b \in Block |-> PhiUses(body[b])]]
  /\ SolveInit

Init ==
  \E insts \in [Block -> Seq(Inst)], uses \in [Block -> SUBSET Var],
     succ \in [Block -> Targets] : Analyse(insts, uses, succ)

Next ==
  \/ Solve /\ UNCHANGED <<body, exit_use>>
  \/ solved /\ UNCHANGED vars

Spec == Init /\ [][Next]_vars

-----------------------------------------------------------------------------
(* The reference: paths through the instructions.  Place <<b, i>> is before  *)
(* instruction i of block b, the last place of a block before its exit.      *)
Place == UNION {{b} \X (1 .. Len(body[b]) + 1) : b \in Block}

PhiReads(p, c, v) == \E i \in DOMAIN body[c] : <<p, v>> \in body[c][i].from

(* S holds every place from which some path reads v before it writes v. *)
ClosedFor(S, v) ==
  \A b \in Block :
    /\ \A i \in DOMAIN body[b] :
         v \in body[b][i].uses \/ (v \notin body[b][i].def /\ <<b, i + 1>> \in S)
           => <<b, i>> \in S
    /\ \/ v \in exit_use[b]
       \/ \E c \in flow_pred[b] : <<c, 1>> \in S \/ PhiReads(b, c, v)
       => <<b, Len(body[b]) + 1>> \in S

LiveAt(v, b) == \A S \in SUBSET Place : ClosedFor(S, v) => <<b, 1>> \in S

LiveAfter(v, b) == \E c \in flow_pred[b] : LiveAt(v, c) \/ PhiReads(b, c, v)

(* in and out of every block are sets of variables. *)
TypeOK ==
  /\ flow_in \in [Block -> SUBSET Var] /\ flow_out \in [Block -> SUBSET Var]
  /\ at \in 1 .. NB + 1 /\ changed \in BOOLEAN /\ solved \in BOOLEAN

(* in and out of a block hold the variables that some path from there reads  *)
(* before it writes them, and no other: an operand of a phi is live at the   *)
(* end of the predecessor it belongs to and not elsewhere on its account.    *)
LivenessExact ==
  solved => \A b \in Block, v \in Var :
    /\ v \in flow_out[b] <=> LiveAt(v, b)
    /\ v \in flow_in[b] <=> LiveAfter(v, b)

(* The iteration starts at the bottom and adds only what a path justifies:   *)
(* at no moment does a variable leak to a block where it is dead.            *)
NoLeak == \A b \in Block : \A v \in flow_out[b] : LiveAt(v, b)

(* Live sets gain variables and never lose one. *)
Grow == flow_out' # flow_out /\ \A b \in Block : flow_out[b] \subseteq flow_out'[b]

(* solve() returns: every step brings that nearer.  The sweeps only add to   *)
(* the sets, although each visit computes its block anew.                    *)
SweepsAdvance == [][SolveAdvances(Grow)]_vars
=============================================================================
