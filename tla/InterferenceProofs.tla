-------------------------- MODULE InterferenceProofs --------------------------
(* Liveness: the iteration of DataFlow::solve computes what paths through    *)
(* the instructions define, for any function: any number of blocks, any      *)
(* instructions in them and any phis.  Register allocation: a colouring of   *)
(* the graph built from it changes nothing that the function reads, for any  *)
(* function without phis, any calls and any set of registers.                *)
EXTENDS Interference, FlowGraphProofs

(* The function under analysis, and what init makes of it. *)
Analysed ==
  /\ body \in [Block -> Seq(Inst)]
  /\ exit_use \in [Block -> SUBSET Var]
  /\ flow_pred \in [Block -> SUBSET Block]
  /\ ctx = [gen |-> [b \in Block |-> Gen(body[b], exit_use[b])],
            kill |-> [b \in Block |-> Kill(body[b])],
            phi_uses |-> [b \in Block |-> PhiUses(body[b])]]

(* What out and in of a block should be, given in of its successors. *)
Balanced(b) ==
  /\ flow_in[b] = UnionSet(Arriving(b))
  /\ flow_out[b] = UseOrPass(ctx, b, flow_in[b])

(* As long as a sweep has changed nothing, the blocks behind it balance. *)
Swept ==
  /\ ~changed => \A b \in Block : b < at => Balanced(b)
  /\ solved => ~changed /\ at = NB + 1

LiveInv == Analysed /\ TypeOK /\ NoLeak /\ Swept

-----------------------------------------------------------------------------
(* What meets at the end of a block: what its successors need, and what      *)
(* their phis take from this block.                                          *)
LEMMA ArrivingFacts ==
  ASSUME Analysed, NEW b \in Block, NEW v \in Var
  PROVE  v \in UnionSet(Arriving(b)) <=>
           \E c \in flow_pred[b] : v \in flow_out[c] \/ PhiReads(b, c, v)
<1>1. \A c \in flow_pred[b] : v \in ctx.phi_uses[c][b] <=> PhiReads(b, c, v)
  BY DEF Analysed, PhiUses, PhiReads
<1>2. v \in UnionSet(Arriving(b)) <=>
        \E c \in flow_pred[b] : v \in AddPhiUses(ctx, c, b, flow_out[c])
  BY DEF UnionSet, Arriving
<1>3. QED
  BY <1>1, <1>2 DEF AddPhiUses

(* gen of a block: some instruction, or the exit, reads the variable and no  *)
(* instruction before it writes it.                                          *)
LEMMA GenFacts ==
  ASSUME Analysed, NEW b \in Block, NEW v \in Var
  PROVE  /\ v \in ctx.gen[b] <=>
              \/ \E i \in DOMAIN body[b] : /\ v \in body[b][i].uses
                                           /\ \A j \in 1 .. i - 1 : v \notin body[b][j].def
              \/ /\ v \in exit_use[b]
                 /\ \A j \in DOMAIN body[b] : v \notin body[b][j].def
         /\ v \in ctx.kill[b] <=> \E j \in DOMAIN body[b] : v \in body[b][j].def
<1>1. ctx.gen[b] = Gen(body[b], exit_use[b]) /\ ctx.kill[b] = Kill(body[b])
  BY DEF Analysed
<1>2. \A i \in DOMAIN body[b] : v \in Before(body[b], i) <=>
        \E j \in 1 .. i - 1 : v \in body[b][j].def
  BY DEF Before
<1>3. v \in Kill(body[b]) <=> \E j \in DOMAIN body[b] : v \in body[b][j].def
  BY DEF Kill
<1>4. QED
  BY <1>1, <1>2, <1>3 DEF Gen

(* gen of a block is a set of variables. *)
LEMMA GenType == ASSUME Analysed, NEW b \in Block PROVE ctx.gen[b] \in SUBSET Var
<1>1. /\ body[b] \in Seq(Inst) /\ exit_use[b] \in SUBSET Var
      /\ ctx.gen[b] = Gen(body[b], exit_use[b])
  BY DEF Analysed
<1>2. \A i \in DOMAIN body[b] : body[b][i] \in Inst
  BY <1>1
<1>3. \A i \in DOMAIN body[b] : body[b][i].uses \in SUBSET Var
  BY <1>2 DEF Inst
<1>4. QED
  BY <1>1, <1>3 DEF Gen

(* A path that reads v at place i, or is known to read it from there, makes  *)
(* v live at the start of the block if nothing before i writes v.            *)
LEMMA BackToStart ==
  ASSUME Analysed, NEW b \in Block, NEW v \in Var, NEW S, ClosedFor(S, v),
         NEW i \in 1 .. Len(body[b]) + 1, <<b, i>> \in S,
         \A j \in 1 .. i - 1 : v \notin body[b][j].def
  PROVE  <<b, 1>> \in S
<1>0. body[b] \in Seq(Inst) /\ Len(body[b]) \in Nat /\ DOMAIN body[b] = 1 .. Len(body[b])
  BY DEF Analysed
<1> DEFINE T == {k \in 1 .. i : <<b, k>> \in S}
<1>1. T \in SUBSET Nat /\ i \in T
  BY <1>0
<1>2. PICK m \in T : \A n \in T : m <= n
  BY <1>1, LeastMember
<1>3. CASE m = 1
  BY <1>2, <1>3
<1>4. CASE m # 1
  <2>1. m - 1 \in DOMAIN body[b] /\ m - 1 \in 1 .. i - 1 /\ (m - 1) + 1 = m
    BY <1>0, <1>4
  <2>2. v \notin body[b][m - 1].def /\ <<b, (m - 1) + 1>> \in S
    BY <2>1
  <2>3. <<b, m - 1>> \in S
    BY <2>1, <2>2 DEF ClosedFor
  <2>4. m - 1 \in T
    BY <2>1, <2>3
  <2>5. QED
    BY <1>2, <2>1, <2>4
<1>5. QED
  BY <1>3, <1>4

(* transfer adds nothing dead: if everything in out of a block is needed at  *)
(* its end, everything in in of it is needed at its start.                   *)
LEMMA TransferIsLive ==
  ASSUME Analysed, NEW b \in Block, NEW out \in SUBSET Var,
         \A v \in out : LiveAfter(v, b),
         NEW v \in Var, v \in UseOrPass(ctx, b, out)
  PROVE  LiveAt(v, b)
<1> SUFFICES ASSUME NEW S \in SUBSET Place, ClosedFor(S, v) PROVE <<b, 1>> \in S
  BY DEF LiveAt
<1>0. body[b] \in Seq(Inst) /\ Len(body[b]) \in Nat /\ DOMAIN body[b] = 1 .. Len(body[b])
  BY DEF Analysed
<1>1. ASSUME NEW i \in DOMAIN body[b], v \in body[b][i].uses,
             \A j \in 1 .. i - 1 : v \notin body[b][j].def
      PROVE  <<b, 1>> \in S
  <2>1. <<b, i>> \in S
    BY <1>1 DEF ClosedFor
  <2>2. i \in 1 .. Len(body[b]) + 1
    BY <1>0
  <2>3. QED
    BY <1>1, <2>1, <2>2, BackToStart
<1>2. ASSUME <<b, Len(body[b]) + 1>> \in S, \A j \in DOMAIN body[b] : v \notin body[b][j].def
      PROVE  <<b, 1>> \in S
  <2>1. Len(body[b]) + 1 \in 1 .. Len(body[b]) + 1
        /\ \A j \in 1 .. (Len(body[b]) + 1) - 1 : v \notin body[b][j].def
    BY <1>0, <1>2
  <2>2. QED
    BY <1>2, <2>1, BackToStart
<1>3. CASE v \in ctx.gen[b]
  <2>1. v \in exit_use[b] => <<b, Len(body[b]) + 1>> \in S
    BY DEF ClosedFor
  <2>2. QED
    BY <1>1, <1>2, <1>3, <2>1, GenFacts
<1>4. CASE v \in out /\ v \notin ctx.kill[b]
  <2>1. PICK c \in flow_pred[b] : LiveAt(v, c) \/ PhiReads(b, c, v)
    BY <1>4 DEF LiveAfter
  <2>2. <<c, 1>> \in S \/ PhiReads(b, c, v)
    BY <2>1 DEF LiveAt
  <2>3. <<b, Len(body[b]) + 1>> \in S
    BY <2>1, <2>2 DEF ClosedFor
  <2>4. QED
    BY <1>2, <1>4, <2>3, GenFacts
<1>5. QED
  BY <1>3, <1>4 DEF UseOrPass

(* What meets at the end of a block is needed there. *)
LEMMA ArrivingIsLive ==
  ASSUME Analysed, TypeOK, NoLeak, NEW b \in Block
  PROVE  /\ UnionSet(Arriving(b)) \in SUBSET Var
         /\ \A v \in UnionSet(Arriving(b)) : LiveAfter(v, b)
<1>1. UnionSet(Arriving(b)) \in SUBSET Var
  <2>1. \A c \in flow_pred[b] : AddPhiUses(ctx, c, b, flow_out[c]) \in SUBSET Var
    <3> SUFFICES ASSUME NEW c \in flow_pred[b]
                 PROVE  AddPhiUses(ctx, c, b, flow_out[c]) \in SUBSET Var
      OBVIOUS
    <3>1. c \in Block
      BY DEF Analysed
    <3>2. ctx.phi_uses[c][b] \in SUBSET Var /\ flow_out[c] \in SUBSET Var
      BY <3>1 DEF Analysed, PhiUses, TypeOK
    <3>3. QED
      BY <3>2 DEF AddPhiUses
  <2>2. QED
    BY <2>1 DEF UnionSet, Arriving
<1>2. ASSUME NEW v \in UnionSet(Arriving(b)) PROVE LiveAfter(v, b)
  <2>1. PICK c \in flow_pred[b] : v \in flow_out[c] \/ PhiReads(b, c, v)
    BY <1>1, ArrivingFacts
  <2>2. c \in Block
    BY DEF Analysed
  <2>3. QED
    BY <2>1, <2>2 DEF NoLeak, LiveAfter
<1>3. QED
  BY <1>1, <1>2

(* Once every block balances, out misses nothing that a path needs. *)
LEMMA BalancedIsComplete ==
  ASSUME Analysed, TypeOK, \A b \in Block : Balanced(b),
         NEW b \in Block, NEW v \in Var, LiveAt(v, b)
  PROVE  v \in flow_out[b]
<1> DEFINE Clear(c, i, k) == \A j \in i .. k - 1 : v \notin body[c][j].def
           End(c) == Len(body[c]) + 1
           Needed(c) == v \in exit_use[c] \/ v \in flow_in[c]
           Reads(c, i) == \E k \in DOMAIN body[c] : i <= k /\ v \in body[c][k].uses /\ Clear(c, i, k)
           Holds(c, i) == Reads(c, i) \/ (Clear(c, i, End(c)) /\ Needed(c))
           S == {p \in Place : Holds(p[1], p[2])}
<1>0. ASSUME NEW c \in Block
      PROVE  body[c] \in Seq(Inst) /\ Len(body[c]) \in Nat /\ DOMAIN body[c] = 1 .. Len(body[c])
  BY DEF Analysed
<1>1. ASSUME NEW c \in Block, NEW i \in 1 .. End(c)
      PROVE  <<c, i>> \in Place /\ (<<c, i>> \in S <=> Holds(c, i))
  <2>1. <<c, i>> \in Place
    BY <1>1 DEF Place
  <2>2. QED
    BY <2>1
<1>2. ASSUME NEW c \in Block, Holds(c, 1) PROVE v \in flow_out[c]
  <2>1. Reads(c, 1) => v \in ctx.gen[c]
    BY <1>0, <1>2, GenFacts
  <2>2. Clear(c, 1, End(c)) => \A j \in DOMAIN body[c] : v \notin body[c][j].def
    BY <1>0, <1>2
  <2>3. Clear(c, 1, End(c)) /\ v \in exit_use[c] => v \in ctx.gen[c]
    BY <1>2, <2>2, GenFacts
  <2>4. Clear(c, 1, End(c)) => v \notin ctx.kill[c]
    BY <1>2, <2>2, GenFacts
  <2>5. flow_out[c] = (flow_in[c] \ ctx.kill[c]) \cup ctx.gen[c]
    BY <1>2 DEF Balanced, UseOrPass
  <2>6. QED
    BY <1>2, <2>1, <2>3, <2>4, <2>5
<1>3. ASSUME NEW c \in Block, NEW i \in DOMAIN body[c],
             v \in body[c][i].uses \/ (v \notin body[c][i].def /\ <<c, i + 1>> \in S)
      PROVE  <<c, i>> \in S
  <2>1. i \in 1 .. End(c) /\ i + 1 \in 1 .. End(c) /\ i \in Int /\ Len(body[c]) \in Nat
    BY <1>0, <1>3
  <2>2. CASE v \in body[c][i].uses
    <3>1. Clear(c, i, i)
      BY <2>1
    <3>2. Holds(c, i)
      BY <2>1, <2>2, <3>1
    <3>3. QED
      BY <1>1, <1>3, <2>1, <3>2
  <2>3. CASE v \notin body[c][i].def /\ <<c, i + 1>> \in S
    <3>1. Holds(c, i + 1)
      BY <1>1, <1>3, <2>1, <2>3
    <3>2. \A k \in Int : Clear(c, i + 1, k) => Clear(c, i, k)
      BY <2>1, <2>3
    <3>3. Holds(c, i)
      <4>1. CASE Reads(c, i + 1)
        <5>1. PICK k \in DOMAIN body[c] :
                i + 1 <= k /\ v \in body[c][k].uses /\ Clear(c, i + 1, k)
          BY <4>1
        <5>2. k \in Int /\ i <= k
          BY <1>0, <1>3, <2>1, <5>1
        <5>3. Clear(c, i, k)
          BY <3>2, <5>1, <5>2
        <5>4. QED
          BY <5>1, <5>2, <5>3
      <4>2. CASE Clear(c, i + 1, End(c)) /\ Needed(c)
        BY <2>1, <3>2, <4>2
      <4>3. QED
        BY <3>1, <4>1, <4>2
    <3>4. QED
      BY <1>1, <1>3, <2>1, <3>3
  <2>4. QED
    BY <1>3, <2>2, <2>3
<1>4. ASSUME NEW c \in Block,
             v \in exit_use[c] \/ \E e \in flow_pred[c] : <<e, 1>> \in S \/ PhiReads(c, e, v)
      PROVE  <<c, Len(body[c]) + 1>> \in S
  <2>1. Needed(c)
    <3>1. CASE v \in exit_use[c]
      BY <3>1
    <3>2. ASSUME NEW e \in flow_pred[c], <<e, 1>> \in S \/ PhiReads(c, e, v)
          PROVE  v \in flow_in[c]
      <4>1. e \in Block
        BY <1>4 DEF Analysed
      <4>2. <<e, 1>> \in S => v \in flow_out[e]
        <5>1. 1 \in 1 .. End(e)
          BY <1>0, <4>1
        <5>2. QED
          BY <1>1, <1>2, <4>1, <5>1
      <4>3. QED
        BY <1>4, <3>2, <4>2, ArrivingFacts DEF Balanced
    <3>3. QED
      BY <1>4, <3>1, <3>2
  <2>2. Clear(c, End(c), End(c)) /\ End(c) \in 1 .. End(c)
    BY <1>0, <1>4
  <2>3. QED
    BY <1>1, <1>4, <2>1, <2>2
<1>5. ClosedFor(S, v)
  BY <1>3, <1>4 DEF ClosedFor
<1>6. <<b, 1>> \in S
  <2>1. S \in SUBSET Place
    OBVIOUS
  <2>2. QED
    BY <1>5, <2>1 DEF LiveAt
<1>7. 1 \in 1 .. End(b)
  BY <1>0
<1>8. QED
  BY <1>1, <1>2, <1>6, <1>7

-----------------------------------------------------------------------------
(* Before the first sweep only what the returning blocks read is live. *)
LEMMA LiveInit == Init => LiveInv
<1> SUFFICES ASSUME Init PROVE LiveInv
  OBVIOUS
<1>1. Analysed /\ SolveInit
  <2>1. PICK insts \in [Block -> Seq(Inst)], uses \in [Block -> SUBSET Var],
             succ \in [Block -> Targets] : Analyse(insts, uses, succ)
    BY DEF Init
  <2>2. succ \in [Block -> SUBSET Block]
    BY DEF Targets
  <2>3. QED
    BY <2>1, <2>2 DEF Analyse, Analysed
<1>2. \A b \in Block : UseOrPass(ctx, b, {}) \in SUBSET Var
  BY <1>1, GenType DEF UseOrPass
<1>3. TypeOK
  <2>1. flow_in \in [Block -> SUBSET Var]
    BY <1>1 DEF SolveInit, Top, UnionSet
  <2>2. flow_out \in [Block -> SUBSET Var]
    BY <1>1, <1>2 DEF SolveInit, Top, UnionSet
  <2>3. at \in 1 .. NB + 1
    BY <1>1, NBAssumption DEF SolveInit
  <2>4. changed \in BOOLEAN /\ solved \in BOOLEAN
    BY <1>1 DEF SolveInit
  <2>5. QED
    BY <2>1, <2>2, <2>3, <2>4 DEF TypeOK
<1>4. NoLeak
  <2> SUFFICES ASSUME NEW b \in Block, NEW v \in flow_out[b] PROVE LiveAt(v, b)
    BY DEF NoLeak
  <2>1. v \in UseOrPass(ctx, b, {})
    BY <1>1 DEF SolveInit, Top, UnionSet
  <2>2. QED
    BY <1>1, <1>2, <2>1, TransferIsLive
<1>5. Swept
  BY <1>1 DEF SolveInit, Swept, Block
<1>6. QED
  BY <1>1, <1>3, <1>4, <1>5 DEF LiveInv

(* The steps that leave the solution alone keep what is known of it. *)
LEMMA SameFlow ==
  ASSUME LiveInv, UNCHANGED <<body, exit_use, flow_pred, ctx, flow_in, flow_out>>,
         at' \in 1 .. NB + 1, changed' \in BOOLEAN, solved' \in BOOLEAN,
         ~changed' => \A b \in Block : b < at' => Balanced(b),
         solved' => ~changed' /\ at' = NB + 1
  PROVE  LiveInv'
<1>1. Analysed' /\ TypeOK'
  BY DEF LiveInv, Analysed, TypeOK
<1>2. NoLeak'
  BY DEF LiveInv, NoLeak, LiveAt, ClosedFor, Place, PhiReads
<1>3. \A b \in Block : Balanced(b)' <=> Balanced(b)
  BY DEF Balanced, Arriving, UnionSet, UseOrPass, AddPhiUses, IsReturn
<1>4. Swept'
  BY <1>3 DEF Swept
<1>5. QED
  BY <1>1, <1>2, <1>4 DEF LiveInv

(* A visit makes live at the start of its block only what some path reads,   *)
(* and leaves the block balanced or raises changed.                          *)
LEMMA VisitInv == ASSUME LiveInv, Visit, UNCHANGED <<body, exit_use>> PROVE LiveInv'
<1> DEFINE new == UnionSet(Arriving(at))
<1>1. /\ at \in Block /\ ~solved /\ solved' = solved
      /\ UNCHANGED <<flow_pred, ctx>>
      /\ at' = at + 1
      /\ flow_in' = [flow_in EXCEPT ![at] = new]
      /\ flow_out' = [flow_out EXCEPT ![at] = UseOrPass(ctx, at, new)]
      /\ changed' = (changed \/ flow_out' # flow_out)
  BY DEF Visit
<1>2. new \in SUBSET Var /\ \A v \in new : LiveAfter(v, at)
  BY <1>1, ArrivingIsLive DEF LiveInv
<1>3. \A v \in Var : v \in UseOrPass(ctx, at, new) => LiveAt(v, at)
  BY <1>1, <1>2, TransferIsLive DEF LiveInv
<1>4. UseOrPass(ctx, at, new) \in SUBSET Var
  <2>1. ctx.gen[at] \in SUBSET Var
    BY <1>1, GenType DEF LiveInv
  <2>2. QED
    BY <1>2, <2>1 DEF UseOrPass
<1>5. Analysed'
  BY <1>1 DEF LiveInv, Analysed
<1>6. TypeOK'
  <2>1. flow_in' \in [Block -> SUBSET Var] /\ flow_out' \in [Block -> SUBSET Var]
    BY <1>1, <1>2, <1>4 DEF LiveInv, TypeOK
  <2>2. at' \in 1 .. NB + 1
    BY <1>1, NBAssumption DEF Block
  <2>3. changed' \in BOOLEAN
    BY <1>1
  <2>4. solved' \in BOOLEAN
    BY <1>1 DEF LiveInv, TypeOK
  <2>5. QED
    BY <2>1, <2>2, <2>3, <2>4 DEF TypeOK
<1>7. NoLeak'
  <2> SUFFICES ASSUME NEW b \in Block, NEW v \in flow_out'[b] PROVE LiveAt(v, b)'
    BY DEF NoLeak
  <2>1. LiveAt(v, b)
    <3>1. CASE b = at
      BY <1>1, <1>3, <1>4, <3>1 DEF LiveInv, TypeOK
    <3>2. CASE b # at
      BY <1>1, <3>2 DEF LiveInv, TypeOK, NoLeak
    <3>3. QED
      BY <3>1, <3>2
  <2>2. QED
    BY <1>1, <2>1 DEF LiveAt, ClosedFor, Place, PhiReads
<1>8. Swept'
  <2>1. ASSUME ~changed', NEW b \in Block, b < at' PROVE Balanced(b)'
    <3>1. flow_out' = flow_out /\ ~changed
      BY <1>1, <2>1
    <3>2. Arriving(b)' = Arriving(b)
      BY <1>1, <3>1 DEF Arriving, AddPhiUses, IsReturn
    <3>3. CASE b = at
      <4>1. flow_in'[b] = new /\ flow_out'[b] = UseOrPass(ctx, b, new)
        BY <1>1, <3>3 DEF LiveInv, TypeOK
      <4>2. QED
        BY <1>1, <3>2, <3>3, <4>1 DEF Balanced, UnionSet, UseOrPass
    <3>4. CASE b # at
      <4>1. Balanced(b) /\ flow_in'[b] = flow_in[b]
        BY <1>1, <2>1, <3>1, <3>4 DEF LiveInv, TypeOK, Swept, Block
      <4>2. QED
        BY <1>1, <3>1, <3>2, <4>1 DEF Balanced, UnionSet, UseOrPass
    <3>5. QED
      BY <3>3, <3>4
  <2>2. QED
    BY <1>1, <2>1 DEF Swept, Block
<1>9. QED
  BY <1>5, <1>6, <1>7, <1>8 DEF LiveInv

(* LiveInv is inductive. *)
LEMMA LiveNext == LiveInv /\ [Next]_vars => LiveInv'
<1> SUFFICES ASSUME LiveInv, [Next]_vars PROVE LiveInv'
  OBVIOUS
<1>1. CASE Visit /\ UNCHANGED <<body, exit_use>>
  BY <1>1, VisitInv
<1>2. CASE Again /\ UNCHANGED <<body, exit_use>>
  <2>1. at' \in 1 .. NB + 1 /\ \A b \in Block : ~(b < at')
    BY <1>2, NBAssumption DEF Again, Block
  <2>2. changed' \in BOOLEAN /\ solved' \in BOOLEAN /\ ~solved'
        /\ UNCHANGED <<flow_pred, ctx, flow_in, flow_out>>
    BY <1>2 DEF Again, LiveInv, TypeOK
  <2>3. QED
    BY <1>2, <2>1, <2>2, SameFlow
<1>3. CASE Converge /\ UNCHANGED <<body, exit_use>>
  <2>1. at = NB + 1
    BY <1>3, NBAssumption DEF Converge, LiveInv, TypeOK, Block
  <2>2. QED
    BY <1>3, <2>1, SameFlow DEF Converge, LiveInv, TypeOK, Swept
<1>4. CASE UNCHANGED vars
  BY <1>4, SameFlow DEF vars, LiveInv, TypeOK, Swept
<1>5. QED
  BY <1>1, <1>2, <1>3, <1>4 DEF Next, Solve

-----------------------------------------------------------------------------
(* The invariant of the analysis. *)
THEOREM LivenessInvariant == Spec => []LiveInv
<1>1. QED
  BY LiveInit, LiveNext, PTL DEF Spec

(* At no moment of the iteration is a variable in in[b] that no path from    *)
(* the start of b reads before it writes it.                                 *)
THEOREM NothingLeaks == Spec => []NoLeak
<1>1. LiveInv => NoLeak
  BY DEF LiveInv
<1>2. QED
  BY <1>1, LivenessInvariant, PTL

(* When solve() is over, in and out of every block are exactly the variables *)
(* that some path reads before it writes them, with the operands of a phi    *)
(* read at the end of the block they come from.                              *)
THEOREM SolveComputesLiveness == Spec => []LivenessExact
<1>1. LiveInv => LivenessExact
  <2> SUFFICES ASSUME LiveInv, solved, NEW b \in Block, NEW v \in Var
               PROVE  /\ v \in flow_out[b] <=> LiveAt(v, b)
                      /\ v \in flow_in[b] <=> LiveAfter(v, b)
    BY DEF LivenessExact
  <2>1. \A x \in Block : Balanced(x)
    BY NBAssumption DEF LiveInv, Swept, Block
  <2>2. \A x \in Block : v \in flow_out[x] <=> LiveAt(v, x)
    BY <2>1, BalancedIsComplete DEF LiveInv, NoLeak
  <2>3. flow_pred[b] \in SUBSET Block
    BY DEF LiveInv, Analysed
  <2>4. v \in flow_in[b] <=> LiveAfter(v, b)
    BY <2>1, <2>2, <2>3, ArrivingFacts DEF LiveInv, Balanced, LiveAfter
  <2>5. QED
    BY <2>2, <2>4
<1>2. QED
  BY <1>1, LivenessInvariant, PTL

-----------------------------------------------------------------------------
(* Termination.  What a visit computes is never less than is there.          *)
Growing == \A b \in Block : flow_out[b] \subseteq UseOrPass(ctx, b, UnionSet(Arriving(b)))

(* Meet and transfer are monotone. *)
LEMMA LargerTransfer ==
  ASSUME UNCHANGED <<flow_pred, ctx>>, Analysed,
         \A p \in Block : flow_out[p] \subseteq flow_out'[p], NEW b \in Block
  PROVE  UseOrPass(ctx, b, UnionSet(Arriving(b))) \subseteq
           UseOrPass(ctx, b, UnionSet(Arriving(b)))'
<1>1. flow_pred[b] \subseteq Block
  BY DEF Analysed
<1>2. \A v : v \in UnionSet(Arriving(b)) <=>
        \E c \in flow_pred[b] : v \in AddPhiUses(ctx, c, b, flow_out[c])
  BY DEF UnionSet, Arriving
<1>3. \A v : v \in UnionSet(Arriving(b))' <=>
        \E c \in flow_pred[b] : v \in AddPhiUses(ctx, c, b, flow_out'[c])
  BY DEF UnionSet, Arriving, AddPhiUses
<1>4. UnionSet(Arriving(b)) \subseteq UnionSet(Arriving(b))'
  BY <1>1, <1>2, <1>3 DEF AddPhiUses
<1>5. QED
  BY <1>4 DEF UseOrPass

(* A visit only adds, and what the others would compute grows too. *)
LEMMA VisitGrows ==
  ASSUME LiveInv, Growing, Visit
  PROVE  /\ Growing'
         /\ \A b \in Block : flow_out[b] \subseteq flow_out'[b]
<1> DEFINE new == UseOrPass(ctx, at, UnionSet(Arriving(at)))
<1>1. /\ at \in Block /\ UNCHANGED <<flow_pred, ctx>>
      /\ flow_out' = [flow_out EXCEPT ![at] = new]
  BY DEF Visit
<1>2. Analysed /\ flow_out \in [Block -> SUBSET Var]
  BY DEF LiveInv, TypeOK
<1>3. flow_out[at] \subseteq new
  BY <1>1 DEF Growing
<1>4. flow_out'[at] = new /\ \A b \in Block \ {at} : flow_out'[b] = flow_out[b]
  BY <1>1, <1>2
<1>5. \A b \in Block : flow_out[b] \subseteq flow_out'[b]
  BY <1>3, <1>4
<1>6. ASSUME NEW b \in Block
      PROVE  flow_out'[b] \subseteq UseOrPass(ctx, b, UnionSet(Arriving(b)))'
  <2>1. UseOrPass(ctx, b, UnionSet(Arriving(b))) \subseteq
          UseOrPass(ctx, b, UnionSet(Arriving(b)))'
    BY <1>1, <1>2, <1>5, LargerTransfer
  <2>2. CASE b = at
    BY <1>4, <2>1, <2>2
  <2>3. CASE b # at
    BY <1>4, <2>1, <2>3 DEF Growing
  <2>4. QED
    BY <2>2, <2>3
<1>7. QED
  BY <1>5, <1>6 DEF Growing

(* solve() returns for every function: no live set ever loses a variable,    *)
(* and there are as many variables as the function has.                      *)
THEOREM LivenessAdvances == Spec => SweepsAdvance
<1>1. Init => Growing
  <2>1. ASSUME Init, NEW b \in Block PROVE flow_out[b] \subseteq UseOrPass(ctx, b, UnionSet(Arriving(b)))
    <3>1. UnionSet({}) = {}
      BY DEF UnionSet
    <3>2. flow_out[b] \subseteq UseOrPass(ctx, b, {})
      BY <2>1, <3>1 DEF Init, Analyse, SolveInit, Top
    <3>3. QED
      BY <3>2 DEF UseOrPass
  <2>2. QED
    BY <2>1 DEF Growing
<1>2. LiveInv /\ Growing /\ [Next]_vars => Growing'
  <2> SUFFICES ASSUME LiveInv, Growing, [Next]_vars PROVE Growing'
    OBVIOUS
  <2>1. CASE Visit
    BY <2>1, VisitGrows
  <2>2. CASE UNCHANGED <<flow_pred, ctx, flow_out>>
    BY <2>2 DEF Growing, UnionSet, Arriving, AddPhiUses, UseOrPass, IsReturn
  <2>3. QED
    BY <2>1, <2>2 DEF Next, Solve, Again, Converge, vars
<1>3. LiveInv /\ Growing /\ [Next]_vars => [SolveAdvances(Grow)]_vars
  <2> SUFFICES ASSUME LiveInv, Growing, [Next]_vars, vars' # vars PROVE SolveAdvances(Grow)
    OBVIOUS
  <2>1. CASE Visit
    <3>1. at < at'
      BY <2>1 DEF Visit, Block
    <3>2. flow_out' # flow_out => Grow
      BY <2>1, VisitGrows DEF Grow
    <3>3. flow_out' = flow_out => changed' = changed
      BY <2>1 DEF Visit, LiveInv, TypeOK
    <3>4. QED
      BY <3>1, <3>2, <3>3 DEF SolveAdvances
  <2>2. CASE Again
    BY <2>2 DEF Again, SolveAdvances
  <2>3. CASE Converge
    BY <2>3 DEF Converge, SolveAdvances
  <2>4. QED
    BY <2>1, <2>2, <2>3 DEF Next, Solve
<1>4. QED
  BY <1>1, <1>2, <1>3, LivenessInvariant, PTL DEF Spec, SweepsAdvance
-----------------------------------------------------------------------------
(* Register allocation.  The analysis is the first part of it.               *)

(* Every theorem above holds of the whole as well. *)
LEMMA AllocationAnalyses == AllocSpec => Spec
<1>1. AllocInit => Init
  BY DEF AllocInit, Prepare, Init
<1>2. [AllocNext]_allVars => [Next]_vars
  BY DEF AllocNext, allVars, SolveLiveness, Build, BuildInst, NextBlock, Reserve,
         Colorize, Spill, Enter, Execute, Jump, Return, Ended, Next, vars
<1> QED BY <1>1, <1>2, PTL DEF AllocSpec, Spec

(* What build() takes to be live at the end of a block, and in front of an    *)
(* instruction of it.                                                         *)
LiveEnd(b) == flow_in[b] \cup (exit_use[b] \cap Nodes)

Live(b, i) ==
  {v \in Var :
     \/ \E j \in i .. Len(body[b]) :
          v \in body[b][j].uses /\ \A k \in i .. j - 1 : v \notin Defs(b, k)
     \/ v \in LiveEnd(b) /\ \A k \in i .. Len(body[b]) : v \notin Defs(b, k)}

(* The edges that build() makes for an instruction. *)
Joined(b, i) ==
  /\ Edges(Defs(b, i), Live(b, i + 1)) \subseteq edges
  /\ Crossing(b, i, Live(b, i + 1)) \subseteq edges

(* The instructions that build() has read: blocks are read in order, each of  *)
(* them from its end.                                                         *)
Read(b, i) ==
  \/ stage \in {"color", "replaced", "run"}
  \/ stage = "build" /\ (b < here[1] \/ (b = here[1] /\ i > here[2]))

(* While the graph is built, and after it. *)
GraphInv ==
  /\ OneResult(body)
  /\ stage \notin {"liveness"} => solved
  /\ stage = "build" =>
       /\ here \in Block \X Nat /\ here[2] <= Len(body[here[1]])
       /\ lives = Live(here[1], here[2] + 1)
  /\ \A b \in Block : \A i \in DOMAIN body[b] : Read(b, i) => Joined(b, i)
  /\ stage \in {"color", "replaced", "run"} => Edges(Nodes, Reserved) \subseteq edges
  /\ stage \in {"replaced", "run"} => color \in Colorings

(* A variable that may still be read is where the replacement looks for it.   *)
RunInv ==
  stage = "run" =>
    /\ here \in Block \X Nat /\ here[2] \in 1 .. Len(body[here[1]]) + 1
    /\ Assigned \subseteq Var \ Reserved
    /\ \A v \in Assigned : v \in Live(here[1], here[2]) \cup Memory => held[Home(v)] = value[v]

ReplaceInv == LiveInv /\ GraphInv /\ RunInv

-----------------------------------------------------------------------------
(* Live sets from one instruction to the one before it. *)
LEMMA LiveStep ==
  ASSUME Analysed, NEW b \in Block, NEW i \in DOMAIN body[b]
  PROVE  Live(b, i) = (Live(b, i + 1) \ Defs(b, i)) \cup body[b][i].uses
<1>0. body[b] \in Seq(Inst)
  BY DEF Analysed
<1>1. /\ Len(body[b]) \in Nat /\ i \in Nat /\ 1 <= i /\ i <= Len(body[b])
      /\ body[b][i] \in Inst
  BY <1>0
<1> DEFINE n == Len(body[b])
<1>2. i .. n = {i} \cup ((i + 1) .. n) /\ i \in i .. n
  BY <1>1
<1>3. i .. i - 1 = {}
  BY <1>1
<1>4. \A j \in (i + 1) .. n : i .. j - 1 = {i} \cup ((i + 1) .. j - 1)
  BY <1>1
<1> SUFFICES ASSUME NEW v \in Var
             PROVE  v \in Live(b, i) <=>
                      (v \in Live(b, i + 1) /\ v \notin Defs(b, i)) \/ v \in body[b][i].uses
  BY <1>1 DEF Live, Inst
<1> DEFINE Used(k) == \E j \in k .. n :
                        v \in body[b][j].uses /\ \A m \in k .. j - 1 : v \notin Defs(b, m)
           Kept(k) == v \in LiveEnd(b) /\ \A m \in k .. n : v \notin Defs(b, m)
<1>5. Used(i) <=> v \in body[b][i].uses \/ (v \notin Defs(b, i) /\ Used(i + 1))
  BY <1>2, <1>3, <1>4
<1>6. Kept(i) <=> v \notin Defs(b, i) /\ Kept(i + 1)
  BY <1>2
<1>7. \A k : v \in Live(b, k) <=> Used(k) \/ Kept(k)
  BY DEF Live
<1>8. QED
  BY <1>5, <1>6, <1>7

(* At the end of a block. *)
LEMMA LiveAtEnd ==
  ASSUME Analysed, TypeOK, NEW b \in Block
  PROVE  Live(b, Len(body[b]) + 1) = LiveEnd(b)
<1>1. Len(body[b]) \in Nat /\ LiveEnd(b) \subseteq Var
  BY DEF Analysed, TypeOK, LiveEnd
<1>2. (Len(body[b]) + 1) .. Len(body[b]) = {}
  BY <1>1
<1>3. QED
  BY <1>1, <1>2 DEF Live

(* At the start of a block nothing is live that the analysis does not know:   *)
(* a call writes the return address, which the analysis does not know.        *)
LEMMA LiveAtStart ==
  ASSUME Analysed, NEW b \in Block, Balanced(b), NEW v \in Live(b, 1)
  PROVE  v \in flow_out[b]
<1>1. v \in Var /\ body[b] \in Seq(Inst) /\ DOMAIN body[b] = 1 .. Len(body[b]) /\ Len(body[b]) \in Nat
  BY DEF Analysed, Live
<1>2. \A k : v \notin Defs(b, k) => v \notin body[b][k].def
  BY DEF Defs
<1>3. flow_out[b] = (flow_in[b] \ ctx.kill[b]) \cup ctx.gen[b]
  BY DEF Balanced, UseOrPass
<1>4. CASE \E j \in 1 .. Len(body[b]) :
             v \in body[b][j].uses /\ \A k \in 1 .. j - 1 : v \notin Defs(b, k)
  <2>1. \E j \in DOMAIN body[b] : v \in body[b][j].uses
                                  /\ \A k \in 1 .. j - 1 : v \notin body[b][k].def
    BY <1>1, <1>2, <1>4
  <2>2. v \in ctx.gen[b]
    BY <1>1, <2>1, GenFacts
  <2>3. QED
    BY <1>3, <2>2
<1>5. CASE v \in LiveEnd(b) /\ \A k \in 1 .. Len(body[b]) : v \notin Defs(b, k)
  <2>1. \A k \in DOMAIN body[b] : v \notin body[b][k].def
    BY <1>1, <1>2, <1>5
  <2>2. v \notin ctx.kill[b]
    BY <1>1, <2>1, GenFacts
  <2>3. v \in exit_use[b] => v \in ctx.gen[b]
    BY <1>1, <2>1, GenFacts
  <2>4. QED
    BY <1>3, <1>5, <2>2, <2>3 DEF LiveEnd
<1>6. QED
  BY <1>4, <1>5 DEF Live

(* Along an edge of the graph. *)
LEMMA LiveAlongEdge ==
  ASSUME Analysed, TypeOK, NEW b \in Block, NEW c \in flow_pred[b],
         Balanced(b), Balanced(c), NEW v \in Live(c, 1)
  PROVE  v \in Live(b, Len(body[b]) + 1)
<1>1. c \in Block /\ v \in Var
  BY DEF Analysed, Live
<1>2. v \in flow_out[c]
  BY <1>1, LiveAtStart
<1>3. v \in flow_in[b]
  BY <1>1, <1>2, ArrivingFacts DEF Balanced
<1>4. QED
  BY <1>3, LiveAtEnd DEF LiveEnd

(* What the edges keep apart is in different places after the replacement.    *)
LEMMA HomesApart ==
  ASSUME color \in Colorings, NEW S, NEW T, Edges(S, T) \subseteq edges,
         NEW u \in S, NEW v \in T, u \in Var, v \in Var, u # v
  PROVE  Home(u) # Home(v)
<1>1. /\ color \in [Nodes -> Proxy]
      /\ \A n \in Nodes : SameClass(n, color[n])
      /\ \A e \in edges : color[e[1]] # color[e[2]]
  BY DEF Colorings
<1>2. CASE u \in Nodes /\ v \in Nodes /\ SameClass(u, v)
  <2>1. <<u, v>> \in edges
    BY <1>2 DEF Edges
  <2>2. QED
    BY <1>1, <1>2, <2>1 DEF Home
<1>3. CASE u \in Nodes /\ v \in Nodes /\ ~SameClass(u, v)
  BY <1>1, <1>3 DEF Home, SameClass
<1>4. CASE u \notin Nodes \/ v \notin Nodes
  <2>1. \A n \in Nodes : Home(n) \in Proxy /\ Home(n) \notin Memory
    BY <1>1, ABIAssumption DEF Home
  <2>2. \A n \in Var \ Nodes : Home(n) = n /\ n \in Memory
    BY DEF Home, Nodes
  <2>3. QED
    BY <1>4, <2>1, <2>2
<1>5. QED
  BY <1>2, <1>3, <1>4

(* A variable is held by a register or is in memory. *)
LEMMA HomeType ==
  ASSUME color \in Colorings, NEW v \in Var
  PROVE  /\ Home(v) \in Proxy \cup Memory
         /\ v \in Proxy \cup Memory => Home(v) = v
         /\ v \notin Memory => Home(v) \in Proxy /\ Home(v) \notin Memory
BY ABIAssumption DEF Home, Nodes, Colorings
-----------------------------------------------------------------------------
(* The graph.                                                                *)

(* What is live does not change once the analysis is over. *)
LEMMA SameLive ==
  ASSUME UNCHANGED <<body, exit_use, flow_in, calls>>
  PROVE  /\ \A b, i : Live(b, i)' = Live(b, i)
         /\ \A b, i : Defs(b, i)' = Defs(b, i)
         /\ \A b : LiveEnd(b)' = LiveEnd(b)
<1>1. \A b, i : Defs(b, i)' = Defs(b, i)
  BY DEF Defs, IsCall
<1>2. \A b : LiveEnd(b)' = LiveEnd(b)
  BY DEF LiveEnd
<1>3. \A b, i : Live(b, i)' = Live(b, i)
  BY <1>1, <1>2 DEF Live
<1>4. QED
  BY <1>1, <1>2, <1>3

(* No edge is ever taken away. *)
LEMMA JoinedStays ==
  ASSUME UNCHANGED <<body, exit_use, flow_in, calls>>, edges \subseteq edges',
         NEW b, NEW i, Joined(b, i)
  PROVE  Joined(b, i)'
<1>1. Live(b, i + 1)' = Live(b, i + 1) /\ Defs(b, i)' = Defs(b, i)
  BY SameLive
<1>2. Crossing(b, i, Live(b, i + 1))' = Crossing(b, i, Live(b, i + 1))
  BY <1>1 DEF Crossing, IsCall
<1>3. Edges(Defs(b, i), Live(b, i + 1))' = Edges(Defs(b, i), Live(b, i + 1))
  BY <1>1
<1>4. QED
  BY <1>2, <1>3 DEF Joined

(* Where build() begins to read a block. *)
LEMMA EnterBlockReads ==
  ASSUME Analysed, TypeOK, NEW b \in Block, EnterBlock(b),
         UNCHANGED <<body, exit_use, flow_in, calls>>
  PROVE  /\ here' \in Block \X Nat /\ here'[1] = b /\ here'[2] = Len(body'[b])
         /\ lives' = Live(here[1], here[2] + 1)'
<1>1. Len(body[b]) \in Nat
  BY DEF Analysed
<1>2. here' = <<b, Len(body[b])>> /\ lives' = LiveEnd(b)
  BY DEF EnterBlock, LiveEnd
<1>3. Live(b, Len(body[b]) + 1)' = Live(b, Len(body[b]) + 1)
  BY SameLive
<1>4. QED
  BY <1>1, <1>2, <1>3, LiveAtEnd

(* One instruction of build(). *)
LEMMA BuildInstGraph ==
  ASSUME Analysed, TypeOK, GraphInv, BuildInst
  PROVE  GraphInv'
<1>1. /\ stage = "build" /\ stage' = "build"
      /\ UNCHANGED <<body, exit_use, flow_in, calls, solved>>
  BY DEF BuildInst, vars
<1>2. PICK b \in Block, i \in Nat : here = <<b, i>>
  BY <1>1 DEF GraphInv
<1>3. /\ i > 0 /\ here' = <<b, i - 1>>
      /\ edges' = edges \cup Edges(Defs(b, i), lives) \cup Crossing(b, i, lives)
      /\ lives' = (lives \ Defs(b, i)) \cup body[b][i].uses
  BY <1>2 DEF BuildInst
<1>4. i <= Len(body[b]) /\ lives = Live(b, i + 1) /\ body[b] \in Seq(Inst)
  BY <1>1, <1>2 DEF GraphInv, Analysed
<1>5. i \in DOMAIN body[b]
  BY <1>3, <1>4
<1>6. lives' = Live(b, i)'
  <2>1. lives' = Live(b, i)
    BY <1>3, <1>4, <1>5, LiveStep
  <2>2. Live(b, i)' = Live(b, i)
    BY <1>1, SameLive
  <2>3. QED
    BY <2>1, <2>2
<1>7. Joined(b, i)'
  <2>1. Live(b, i + 1)' = Live(b, i + 1) /\ Defs(b, i)' = Defs(b, i)
    BY <1>1, SameLive
  <2>2. Crossing(b, i, Live(b, i + 1))' = Crossing(b, i, Live(b, i + 1))
    BY <1>1, <2>1 DEF Crossing, IsCall
  <2>3. Edges(Defs(b, i), Live(b, i + 1))' = Edges(Defs(b, i), Live(b, i + 1))
    BY <2>1
  <2>4. QED
    BY <1>3, <1>4, <2>2, <2>3 DEF Joined
<1>8. ASSUME NEW c \in Block, NEW k \in DOMAIN body[c], Read(c, k)' PROVE Joined(c, k)'
  <2>1. body[c] \in Seq(Inst)
    BY DEF Analysed
  <2>2. k \in Nat
    BY <2>1
  <2>3. CASE c = b /\ k = i
    BY <1>7, <2>3
  <2>4. CASE ~(c = b /\ k = i)
    <3>1. Read(c, k)
      BY <1>1, <1>2, <1>3, <1>8, <2>2, <2>4 DEF Read, Block
    <3>2. Joined(c, k)
      BY <3>1 DEF GraphInv
    <3>3. edges \subseteq edges'
      BY <1>3
    <3>4. QED
      BY <1>1, <3>2, <3>3, JoinedStays
  <2>5. QED
    BY <2>3, <2>4
<1>9. here' \in Block \X Nat /\ here'[2] <= Len(body'[here'[1]])
  BY <1>1, <1>3, <1>4
<1>10. lives' = Live(here[1], here[2] + 1)'
  BY <1>3, <1>6
<1>11. QED
  BY <1>1, <1>8, <1>9, <1>10 DEF GraphInv, OneResult

(* The other steps of build(), and those that leave the graph alone. *)
LEMMA GraphNext ==
  ASSUME LiveInv, GraphInv, [AllocNext]_allVars
  PROVE  GraphInv'
<1>1. Analysed /\ TypeOK
  BY DEF LiveInv
<1>2. Len(body[Entry]) \in Nat /\ Entry \in Block
  BY <1>1, NBAssumption DEF Analysed, Block, Entry
<1>3. CASE SolveLiveness
  BY <1>3 DEF SolveLiveness, buildVars, GraphInv, Read, OneResult
<1>4. CASE Build
  <2>1. /\ stage' = "build" /\ solved' /\ EnterBlock(Entry)
        /\ UNCHANGED <<body, exit_use, flow_in, calls, edges>>
    BY <1>4 DEF Build, vars
  <2>2. /\ here' \in Block \X Nat /\ here'[1] = Entry /\ here'[2] = Len(body'[Entry])
        /\ lives' = Live(here[1], here[2] + 1)'
    BY <1>1, <1>2, <2>1, EnterBlockReads
  <2>3. \A b \in Block : \A i \in DOMAIN body[b] : ~Read(b, i)'
    BY <1>1, <2>1, <2>2 DEF Read, Analysed, Block, Entry
  <2>4. QED
    BY <1>2, <2>1, <2>2, <2>3 DEF GraphInv, OneResult
<1>5. CASE BuildInst
  BY <1>1, <1>5, BuildInstGraph
<1>6. CASE NextBlock
  <2>1. /\ stage = "build" /\ stage' = "build" /\ here[2] = 0 /\ here[1] < NB
        /\ EnterBlock(here[1] + 1)
        /\ UNCHANGED <<body, exit_use, flow_in, calls, edges, solved>>
    BY <1>6 DEF NextBlock, vars
  <2>2. here[1] \in Block /\ here[1] + 1 \in Block
    BY <2>1, NBAssumption DEF GraphInv, Block
  <2>3. /\ here' \in Block \X Nat /\ here'[1] = here[1] + 1 /\ here'[2] = Len(body'[here[1] + 1])
        /\ lives' = Live(here[1], here[2] + 1)'
    BY <1>1, <2>1, <2>2, EnterBlockReads
  <2>4. ASSUME NEW b \in Block, NEW i \in DOMAIN body[b], Read(b, i)' PROVE Joined(b, i)'
    <3>1. body[b] \in Seq(Inst)
      BY <1>1 DEF Analysed
    <3>2. i \in Nat /\ i > 0 /\ i <= Len(body[b])
      BY <3>1
    <3>3. b < here[1] + 1
      BY <2>1, <2>3, <2>4, <3>2 DEF Read
    <3>4. Read(b, i)
      BY <2>1, <2>2, <3>2, <3>3 DEF Read, Block
    <3>5. QED
      BY <2>1, <3>4, JoinedStays DEF GraphInv
  <2>5. here'[2] <= Len(body'[here'[1]])
    BY <1>1, <2>1, <2>2, <2>3 DEF Analysed
  <2>6. QED
    BY <2>1, <2>3, <2>4, <2>5 DEF GraphInv, OneResult
<1>7. CASE Reserve
  <2>1. /\ stage = "build" /\ stage' = "color" /\ here = <<NB, 0>>
        /\ edges' = edges \cup Edges(Nodes, Reserved)
        /\ UNCHANGED <<body, exit_use, flow_in, calls, solved>>
    BY <1>7 DEF Reserve, vars
  <2>2. ASSUME NEW b \in Block, NEW i \in DOMAIN body[b] PROVE Joined(b, i)'
    <3>1. body[b] \in Seq(Inst)
      BY <1>1 DEF Analysed
    <3>2. i \in Nat /\ i > 0 /\ b <= NB /\ b \in Nat
      BY <3>1, NBAssumption DEF Block
    <3>3. Read(b, i)
      BY <2>1, <3>2, NBAssumption DEF Read
    <3>4. QED
      BY <2>1, <3>3, JoinedStays DEF GraphInv
  <2>3. QED
    BY <2>1, <2>2 DEF GraphInv, OneResult
(* After build() the graph stays. *)
<1>8. ASSUME UNCHANGED <<body, exit_use, flow_in, calls, edges, solved>>,
             stage' \in {"color", "replaced", "run"} =>
               stage \in {"color", "replaced", "run"},
             stage' \in {"replaced", "run"} => color' \in Colorings,
             stage' # "build",
             stage' = "liveness" => stage = "liveness",
             stage' # "liveness" => stage # "liveness"
      PROVE  GraphInv'
  <2>1. ASSUME NEW b \in Block, NEW i \in DOMAIN body[b], Read(b, i)' PROVE Joined(b, i)'
    <3>1. Read(b, i)
      BY <1>8, <2>1 DEF Read
    <3>2. QED
      BY <1>8, <3>1, JoinedStays DEF GraphInv
  <2>2. Colorings' = Colorings
    BY <1>8 DEF Colorings
  <2>3. QED
    BY <1>8, <2>1, <2>2 DEF GraphInv, OneResult
<1>9. CASE Colorize \/ Spill
  BY <1>8, <1>9 DEF Colorize, Spill, vars
<1>10. CASE Enter \/ Execute \/ Jump \/ Return
  BY <1>8, <1>10 DEF Enter, Execute, Jump, AtExit, Return, vars, GraphInv
<1>11. CASE Ended \/ UNCHANGED allVars
  <2>1. UNCHANGED allVars
    BY <1>11 DEF Ended
  <2>2. /\ UNCHANGED <<body, exit_use, flow_in, calls, edges, solved, stage, here, lives, color>>
    BY <2>1 DEF allVars, vars, buildVars
  <2>3. ASSUME NEW b \in Block, NEW i \in DOMAIN body[b], Read(b, i)' PROVE Joined(b, i)'
    <3>1. Read(b, i)
      BY <2>2, <2>3 DEF Read
    <3>2. QED
      BY <2>2, <3>1, JoinedStays DEF GraphInv
  <2>4. Colorings' = Colorings /\ Live(here[1], here[2] + 1)' = Live(here[1], here[2] + 1)
    BY <2>2, SameLive DEF Colorings
  <2>5. QED
    BY <2>2, <2>3, <2>4 DEF GraphInv, OneResult
<1>12. QED
  BY <1>3, <1>4, <1>5, <1>6, <1>7, <1>9, <1>10, <1>11 DEF AllocNext

-----------------------------------------------------------------------------
(* The two runs.                                                             *)

(* Once there are registers, every instruction is joined to what is live     *)
(* behind it, and every block is balanced.                                   *)
LEMMA BuiltFacts ==
  ASSUME LiveInv, GraphInv, stage \in {"replaced", "run"}
  PROVE  /\ color \in Colorings
         /\ Edges(Nodes, Reserved) \subseteq edges
         /\ \A b \in Block : Balanced(b)
         /\ \A b \in Block : \A i \in DOMAIN body[b] : Joined(b, i)
<1>1. solved
  BY DEF GraphInv
<1>2. \A b \in Block : Balanced(b)
  BY <1>1, NBAssumption DEF LiveInv, Swept, Block
<1>3. \A b \in Block : \A i \in DOMAIN body[b] : Joined(b, i)
  BY DEF GraphInv, Read
<1>4. QED
  BY <1>2, <1>3 DEF GraphInv

(* A variable that is live behind an instruction and survives it is in none  *)
(* of the places that the instruction writes or destroys.                    *)
LEMMA HomeSurvives ==
  ASSUME color \in Colorings, Edges(Nodes, Reserved) \subseteq edges,
         NEW b, NEW i, Joined(b, i), body[b][i].def \subseteq Var,
         NEW v \in Live(b, i + 1) \cup Memory, v \in Var,
         v \notin body[b][i].def, v \notin Lost(b, i)
  PROVE  /\ \A d \in body[b][i].def : Home(v) # Home(d)
         /\ Home(v) \notin Lost(b, i)
<1>1. CASE v \in Memory
  <2>1. Home(v) = v /\ v \notin Proxy
    BY <1>1, ABIAssumption DEF Home, Nodes
  <2>2. \A d \in body[b][i].def : Home(d) = d \/ Home(d) \in Proxy
    BY HomeType, ABIAssumption DEF Home, Nodes
  <2>3. QED
    BY <2>1, <2>2
<1>2. CASE v \notin Memory
  <2>1. v \in Live(b, i + 1) /\ v \in Nodes
    BY <1>2 DEF Nodes
  <2>2. \A d \in Defs(b, i) : d \in Var /\ d # v => Home(d) # Home(v)
    BY <2>1, HomesApart DEF Joined
  <2>3. \A d \in body[b][i].def : Home(v) # Home(d)
    BY <2>2 DEF Defs
  <2>4. \A r \in Proxy : Home(r) = r
    BY HomeType, ABIAssumption
  <2>5. Home(v) \notin Reserved
    <3>1. ASSUME NEW r \in Reserved PROVE Home(v) # Home(r)
      <4>1. r \in Var /\ v # r
        BY ABIAssumption DEF Lost
      <4>2. QED
        BY <2>1, <4>1, HomesApart
    <3>2. QED
      BY <2>4, <3>1, ABIAssumption
  <2>6. ASSUME IsCall(b, i) PROVE Home(v) \notin CallerSaved \cup {ReturnAddr}
    <3>1. v \notin CallerSaved /\ v # ReturnAddr
      BY <2>6 DEF Lost
    <3>2. ASSUME NEW r \in CallerSaved PROVE Home(v) # Home(r)
      <4>1. r \in Var /\ v # r
        BY <3>1, ABIAssumption
      <4>2. Edges(Live(b, i + 1), CallerSaved) \subseteq edges
        BY <2>6 DEF Joined, Crossing
      <4>3. QED
        BY <2>1, <4>1, <4>2, HomesApart
    <3>3. ReturnAddr \in Defs(b, i) /\ ReturnAddr \in Var
      BY <2>6, ABIAssumption DEF Defs
    <3>4. Home(v) # Home(ReturnAddr)
      BY <2>2, <3>1, <3>3
    <3>5. QED
      BY <2>4, <3>2, <3>4, ABIAssumption
  <2>7. QED
    BY <2>3, <2>5, <2>6 DEF Lost
<1>3. QED
  BY <1>1, <1>2

(* The function is called. *)
LEMMA EnterRuns == ASSUME LiveInv, GraphInv, Enter PROVE RunInv'
<1>1. /\ stage = "replaced" /\ here' = <<Entry, 1>>
      /\ value' = [v \in (Proxy \cup Memory) \ Reserved |-> held'[v]]
      /\ UNCHANGED <<body, color>>
  BY DEF Enter, vars
<1>2. color \in Colorings
  BY <1>1, BuiltFacts
<1>3. Assigned' = (Proxy \cup Memory) \ Reserved
  BY <1>1 DEF Assigned
<1>4. \A v \in Assigned' : Home(v)' = v
  BY <1>1, <1>2, <1>3, HomeType, ABIAssumption DEF Home
<1>5. Assigned' \subseteq Var \ Reserved
  BY <1>3, ABIAssumption
<1>6. Entry \in Block
  BY NBAssumption DEF Entry, Block
<1>7. body[Entry] \in Seq(Inst)
  BY <1>6 DEF LiveInv, Analysed
<1>8. here' \in Block \X Nat /\ here'[2] \in 1 .. Len(body'[here'[1]]) + 1
  BY <1>1, <1>6, <1>7
<1>9. QED
  BY <1>1, <1>3, <1>4, <1>5, <1>8 DEF RunInv

(* One instruction, before and after the replacement. *)
LEMMA ExecuteRuns == ASSUME LiveInv, GraphInv, RunInv, Execute PROVE RunInv'
<1>1. stage = "run" /\ UNCHANGED <<body, exit_use, flow_in, calls, color>>
  BY DEF Execute, vars
<1>2. PICK b \in Block, i \in Nat : here = <<b, i>>
  BY <1>1 DEF RunInv
<1> DEFINE def == body[b][i].def
           lost == Lost(b, i)
           new == IF body[b][i].uses \subseteq Assigned THEN def \ Reserved ELSE {}
           kept == Assigned \ (def \cup lost)
<1>3. i \in DOMAIN body[b] /\ here' = <<b, i + 1>>
  BY <1>2 DEF Execute
<1>4. PICK result, rest :
        /\ value' = [v \in kept \cup new |-> IF v \in new THEN result ELSE value[v]]
        /\ held' = [x \in Proxy \cup Memory |->
                      IF \E d \in def : x = Home(d) THEN result
                      ELSE IF x \in lost THEN rest[x]
                      ELSE held[x]]
  BY <1>2 DEF Execute
<1>5. body[b] \in Seq(Inst)
  BY DEF LiveInv, Analysed
<1>6. i \in 1 .. Len(body[b]) /\ Len(body[b]) \in Nat /\ body[b][i] \in Inst
  BY <1>3, <1>5
<1>7. def \subseteq Var
  BY <1>6 DEF Inst
<1>8. /\ color \in Colorings /\ Edges(Nodes, Reserved) \subseteq edges /\ Joined(b, i)
  BY <1>1, <1>3, BuiltFacts
<1>9. Live(b, i) = (Live(b, i + 1) \ Defs(b, i)) \cup body[b][i].uses
  BY <1>3, LiveStep DEF LiveInv
<1>10. Assigned \subseteq Var \ Reserved
  BY <1>1 DEF RunInv
<1>11. Assigned' = kept \cup new
  BY <1>4 DEF Assigned
<1>12. here' \in Block \X Nat /\ here'[2] \in 1 .. Len(body'[here'[1]]) + 1
  BY <1>1, <1>3, <1>6
<1>13. Assigned' \subseteq Var \ Reserved
  BY <1>7, <1>10, <1>11
<1>14. \A v : Home(v)' = Home(v)
  BY <1>1 DEF Home
<1>15. Live(b, i + 1)' = Live(b, i + 1)
  BY <1>1, SameLive
<1>16. ASSUME NEW v \in kept \cup new, v \in Live(b, i + 1) \cup Memory
       PROVE  held'[Home(v)] = value'[v]
  <2>1. v \in Var /\ Home(v) \in Proxy \cup Memory
    BY <1>7, <1>8, <1>10, HomeType
  <2>2. CASE v \in new
    BY <1>4, <2>1, <2>2
  <2>3. CASE v \notin new
    <3>1. v \in Assigned /\ v \notin def /\ v \notin lost
      BY <2>3
    <3>2. (\A d \in def : Home(v) # Home(d)) /\ Home(v) \notin lost
      BY <1>7, <1>8, <1>16, <2>1, <3>1, HomeSurvives
    <3>3. held'[Home(v)] = held[Home(v)] /\ value'[v] = value[v]
      BY <1>4, <2>1, <2>3, <3>1, <3>2
    <3>4. v \notin Defs(b, i)
      BY <3>1 DEF Defs, Lost
    <3>5. v \in Live(b, i) \cup Memory
      BY <1>9, <1>16, <3>4
    <3>6. held[Home(v)] = value[v]
      BY <1>1, <1>2, <3>1, <3>5 DEF RunInv
    <3>7. QED
      BY <3>3, <3>6
  <2>4. QED
    BY <2>2, <2>3
<1> HIDE DEF kept, new, def, lost
<1>17. here'[1] = b /\ here'[2] = i + 1
  BY <1>3
<1>18. Live(here[1], here[2])' = Live(b, i + 1)
  BY <1>15, <1>17
<1>19. QED
  BY <1>11, <1>12, <1>13, <1>14, <1>16, <1>18 DEF RunInv

(* From the end of a block to the start of a successor. *)
LEMMA JumpRuns == ASSUME LiveInv, GraphInv, RunInv, Jump PROVE RunInv'
<1>1. stage = "run" /\ UNCHANGED <<body, exit_use, flow_in, calls, color, value, held>>
  BY DEF Jump, AtExit, vars, runVars
<1>2. PICK b \in Block, i \in Nat : here = <<b, i>>
  BY <1>1 DEF RunInv
<1>3. PICK c \in flow_pred[b] : here' = <<c, 1>>
  BY <1>2 DEF Jump
<1>4. i = Len(body[b]) + 1
  BY <1>2 DEF Jump, AtExit
<1>5. Analysed /\ TypeOK /\ c \in Block
  BY DEF LiveInv, Analysed
<1>6. Balanced(b) /\ Balanced(c)
  BY <1>1, <1>5, BuiltFacts
<1>7. Live(c, 1) \subseteq Live(b, i)
  BY <1>4, <1>5, <1>6, LiveAlongEdge
<1>8. Live(c, 1)' = Live(c, 1)
  BY <1>1, SameLive
<1>9. (\A v : Home(v)' = Home(v)) /\ Assigned' = Assigned
  BY <1>1 DEF Home, Assigned
<1>10. body[c] \in Seq(Inst)
  BY <1>5 DEF Analysed
<1>11. here' \in Block \X Nat /\ here'[2] \in 1 .. Len(body'[here'[1]]) + 1
  BY <1>1, <1>3, <1>5, <1>10
<1>12. /\ Assigned \subseteq Var \ Reserved
       /\ \A v \in Assigned : v \in Live(b, i) \cup Memory => held[Home(v)] = value[v]
  BY <1>1, <1>2 DEF RunInv
<1>13. here'[1] = c /\ here'[2] = 1
  BY <1>3
<1>14. Live(here[1], here[2])' = Live(c, 1)
  BY <1>8, <1>13
<1>15. \A v \in Assigned' : v \in Live(here[1], here[2])' \cup Memory =>
         held'[Home(v)'] = value'[v]
  BY <1>1, <1>7, <1>9, <1>12, <1>14
<1>16. QED
  BY <1>9, <1>11, <1>12, <1>15 DEF RunInv

(* RunInv is inductive beside the other two. *)
LEMMA RunNext == ASSUME LiveInv, GraphInv, RunInv, [AllocNext]_allVars PROVE RunInv'
<1>1. CASE Enter
  BY <1>1, EnterRuns
<1>2. CASE Execute
  BY <1>2, ExecuteRuns
<1>3. CASE Jump
  BY <1>3, JumpRuns
<1>4. CASE UNCHANGED allVars
  <2>1. UNCHANGED <<body, exit_use, flow_in, calls, color, stage, here, value, held>>
    BY <1>4 DEF allVars, vars, buildVars, runVars
  <2>2. Live(here[1], here[2])' = Live(here[1], here[2])
    BY <2>1, SameLive
  <2>3. (\A v : Home(v)' = Home(v)) /\ Assigned' = Assigned
    BY <2>1 DEF Home, Assigned
  <2>4. QED
    BY <2>1, <2>2, <2>3 DEF RunInv
<1>5. ASSUME stage' # "run" PROVE RunInv'
  BY <1>5 DEF RunInv
<1>6. CASE SolveLiveness \/ Build \/ BuildInst \/ NextBlock \/ Reserve
           \/ Colorize \/ Spill \/ Return
  <2>1. stage' # "run"
    BY <1>6 DEF SolveLiveness, buildVars, Build, BuildInst, NextBlock, Reserve,
                Colorize, Spill, Return
  <2>2. QED
    BY <1>5, <2>1
<1>7. QED
  BY <1>1, <1>2, <1>3, <1>4, <1>6 DEF AllocNext, Ended

-----------------------------------------------------------------------------
(* ReplaceInv is an invariant of the allocation. *)
LEMMA AllocationInvariant == AllocSpec => []ReplaceInv
<1>1. AllocInit => ReplaceInv
  <2> SUFFICES ASSUME NEW insts \in [Block -> Seq(Inst)], NEW uses \in [Block -> SUBSET Var],
                      NEW succ \in [Block -> Targets], NEW places,
                      OneResult(insts), Prepare(insts, uses, succ, places)
               PROVE  ReplaceInv
    BY DEF AllocInit
  <2>1. Init
    BY DEF Prepare, Init
  <2>2. body = insts /\ stage = "liveness"
    BY DEF Prepare, Analyse
  <2>3. QED
    BY <2>1, <2>2, LiveInit DEF ReplaceInv, GraphInv, RunInv, Read, OneResult
<1>2. ReplaceInv /\ [AllocNext]_allVars => ReplaceInv'
  <2> SUFFICES ASSUME ReplaceInv, [AllocNext]_allVars PROVE ReplaceInv'
    OBVIOUS
  <2>1. [Next]_vars
    BY DEF AllocNext, allVars, SolveLiveness, Build, BuildInst, NextBlock, Reserve,
           Colorize, Spill, Enter, Execute, Jump, Return, Ended, Next, vars
  <2>2. QED
    BY <2>1, LiveNext, GraphNext, RunNext DEF ReplaceInv
<1>3. QED
  BY <1>1, <1>2, PTL DEF AllocSpec

(* Replacing every variable by its register preserves what the function      *)
(* reads: build() and RegisterReplacement, for any function without phis,    *)
(* any calls in it, any register set and any colouring of the graph.         *)
THEOREM ReplacementReadsTheSame == AllocSpec => []ReadsAgree
<1>1. ReplaceInv => ReadsAgree
  <2> SUFFICES ASSUME ReplaceInv, stage = "run", NEW v \in ReadHere \cap Assigned
               PROVE  held[Home(v)] = value[v]
    BY DEF ReadsAgree
  <2>1. PICK b \in Block, i \in Nat : here = <<b, i>>
    BY DEF ReplaceInv, RunInv
  <2>2. /\ i \in 1 .. Len(body[b]) + 1 /\ v \in Var
        /\ v \in Live(b, i) \cup Memory => held[Home(v)] = value[v]
    BY <2>1 DEF ReplaceInv, RunInv
  <2>3. Analysed /\ TypeOK /\ body[b] \in Seq(Inst)
    BY DEF ReplaceInv, LiveInv, Analysed
  <2>4. CASE i \in DOMAIN body[b]
    <3>1. v \in body[b][i].uses
      BY <2>1, <2>4 DEF ReadHere
    <3>2. QED
      BY <2>2, <2>3, <2>4, <3>1, LiveStep
  <2>5. CASE i \notin DOMAIN body[b]
    <3>1. v \in exit_use[b]
      BY <2>1, <2>5 DEF ReadHere
    <3>2. i = Len(body[b]) + 1
      BY <2>2, <2>3, <2>5
    <3>3. v \in LiveEnd(b) \/ v \in Memory
      BY <2>2, <3>1 DEF LiveEnd, Nodes
    <3>4. QED
      BY <2>2, <2>3, <3>2, <3>3, LiveAtEnd
  <2>6. QED
    BY <2>4, <2>5
<1>2. QED
  BY <1>1, AllocationInvariant, PTL
=============================================================================
