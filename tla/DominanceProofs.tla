-------------------------- MODULE DominanceProofs --------------------------
(* The round-robin iteration of DataFlow::solve computes dominance, for any  *)
(* number of blocks and any control-flow graph; DominanceTree finds the      *)
(* immediate dominators in the solution and DominanceFrontier the frontiers. *)
EXTENDS Dominance, FlowGraphProofs

(* The tables of solve() hold what their C++ types say. *)
FlowTypeOK ==
  /\ flow_pred \in [Block -> SUBSET Block]
  /\ flow_in \in [Block -> SUBSET Universe]
  /\ flow_out \in [Block -> SUBSET Universe]
  /\ at \in 1 .. NB + 1
  /\ changed \in BOOLEAN
  /\ solved \in BOOLEAN

(* No sweep loses a dominator, nor the universe of an unreachable block: to  *)
(* pass the marker Everything, which is no block, is to have no path.        *)
Refuted ==
  \A b \in Block, d \in Universe : Dominates(flow_pred, d, b) => d \in flow_out[b]

(* What a block's out should be, given those of its predecessors. *)
Balanced(b) == flow_out[b] = IntersectionSet(Arriving(b)) \cup {b}

(* As long as a sweep has changed nothing, the blocks behind it balance. *)
Swept ==
  /\ ~changed => \A b \in Block : b < at => Balanced(b)
  /\ solved => ~changed /\ at = NB + 1

FlowInv == FlowTypeOK /\ Refuted /\ Swept

-----------------------------------------------------------------------------
(* What arrives at a block: an element survives the meet of solve() only if  *)
(* it is in out of every predecessor, and none does at the entrance.         *)
LEMMA MeetFacts ==
  ASSUME NEW b \in Block, NEW d \in Universe
  PROVE  d \in IntersectionSet(Arriving(b)) <=>
           b # Entry /\ \A p \in flow_pred[b] : d \in flow_out[p]
BY DEF IntersectionSet, Arriving, PassEdge, IsEntry

(* The reverse of Refuted once every block balances: out claims no block as  *)
(* a dominator that some path avoids.                                        *)
LEMMA BalancedIsSound ==
  ASSUME FlowTypeOK, \A b \in Block : Balanced(b),
         NEW b \in Block, NEW d \in Universe, d \in flow_out[b]
  PROVE  Dominates(flow_pred, d, b)
<1> DEFINE S == {x \in Block \ {d} : d \notin flow_out[x]}
<1>1. ASSUME NEW x \in Block, x # d, d \in flow_out[x]
      PROVE  x # Entry /\ \A p \in flow_pred[x] : d \in flow_out[p]
  <2>1. d \in IntersectionSet(Arriving(x))
    BY <1>1 DEF Balanced
  <2>2. QED
    BY <2>1, MeetFacts
<1>2. Entry \in Block
  BY NBAssumption DEF Block, Entry
<1>3. Entry # d => Entry \in S
  BY <1>1, <1>2
<1>4. ASSUME NEW x \in Block \ {d}, flow_pred[x] \cap S # {} PROVE x \in S
  BY <1>1, <1>4
<1>5. ClosedAvoiding(flow_pred, S, d)
  BY <1>3, <1>4 DEF ClosedAvoiding
<1>6. S \in SUBSET (Block \ {d}) /\ b \notin S
  OBVIOUS
<1>7. QED
  BY <1>5, <1>6 DEF Dominates

-----------------------------------------------------------------------------
(* Before the first sweep only the entrance is off the universe. *)
LEMMA FlowInit == Init => FlowInv
<1> SUFFICES ASSUME Init PROVE FlowInv
  OBVIOUS
<1>1. \A x \in Block : flow_out[x] = IF x = Entry THEN {Entry} ELSE Universe
  <2>1. IntersectionSet({}) = Universe
    BY DEF IntersectionSet
  <2>2. QED
    BY <2>1 DEF Init, SolveInit, Top, IsEntry, InsertBlock
<1>2. FlowTypeOK
  <2>1. flow_pred \in [Block -> SUBSET Block]
    BY DEF Init, PredOf
  <2>2. IntersectionSet({}) \subseteq Universe
    BY DEF IntersectionSet
  <2>3. flow_in \in [Block -> SUBSET Universe]
    BY <2>2 DEF Init, SolveInit, Top
  <2>4. flow_out \in [Block -> SUBSET Universe]
    BY <2>2, NBAssumption DEF Init, SolveInit, Top, InsertBlock, Block, Universe
  <2>5. at \in 1 .. NB + 1
    BY NBAssumption DEF Init, SolveInit
  <2>6. changed \in BOOLEAN /\ solved \in BOOLEAN
    BY DEF Init, SolveInit
  <2>7. QED
    BY <2>1, <2>3, <2>4, <2>5, <2>6 DEF FlowTypeOK
<1>3. Refuted
  <2> SUFFICES ASSUME NEW b \in Block, NEW d \in Universe, Dominates(flow_pred, d, b)
               PROVE  d \in flow_out[b]
    BY DEF Refuted
  <2>1. b = d \/ b # Entry
    BY <1>2, PathsExtend DEF FlowTypeOK
  <2>2. QED
    BY <1>1, <2>1
<1>4. Swept
  BY DEF Init, SolveInit, Swept, Block
<1>5. QED
  BY <1>2, <1>3, <1>4 DEF FlowInv

(* A visit drops an element from out only if a path avoids it, and leaves    *)
(* the block balanced or raises changed.                                     *)
LEMMA VisitInv == ASSUME FlowInv, Visit PROVE FlowInv'
<1> USE DEF FlowInv
<1>1. /\ at \in Block /\ ~solved /\ solved' = solved
      /\ flow_pred' = flow_pred
      /\ at' = at + 1
      /\ flow_out' = [flow_out EXCEPT ![at] = IntersectionSet(Arriving(at)) \cup {at}]
      /\ flow_in' = [flow_in EXCEPT ![at] = IntersectionSet(Arriving(at))]
      /\ changed' = (changed \/ flow_out' # flow_out)
  BY DEF Visit, InsertBlock, FlowTypeOK
<1>2. IntersectionSet(Arriving(at)) \subseteq Universe
  BY DEF IntersectionSet
<1>3. FlowTypeOK'
  <2>1. at \in Universe
    BY <1>1 DEF Block, Universe
  <2>2. flow_out' \in [Block -> SUBSET Universe]
    BY <1>1, <1>2, <2>1 DEF FlowTypeOK
  <2>3. flow_in' \in [Block -> SUBSET Universe]
    BY <1>1, <1>2 DEF FlowTypeOK
  <2>4. at' \in 1 .. NB + 1
    BY <1>1, NBAssumption DEF Block
  <2>5. changed' \in BOOLEAN
    BY <1>1
  <2>6. solved' \in BOOLEAN /\ flow_pred' \in [Block -> SUBSET Block]
    BY <1>1 DEF FlowTypeOK
  <2>7. QED
    BY <2>2, <2>3, <2>4, <2>5, <2>6 DEF FlowTypeOK
<1>4. Refuted'
  <2> SUFFICES ASSUME NEW b \in Block, NEW d \in Universe, Dominates(flow_pred, d, b)'
               PROVE  d \in flow_out'[b]
    BY DEF Refuted, Block, Universe
  <2>1. Dominates(flow_pred, d, b)
    BY <1>1 DEF Dominates, ClosedAvoiding
  <2>2. CASE b # at
    BY <1>1, <2>1, <2>2 DEF Refuted, FlowTypeOK
  <2>3. CASE b = at /\ b = d
    BY <1>1, <2>3 DEF FlowTypeOK
  <2>4. CASE b = at /\ b # d
    <3>1. b # Entry /\ \A p \in flow_pred[b] : Dominates(flow_pred, d, p)
      BY <2>1, <2>4, PathsExtend DEF FlowTypeOK
    <3>2. \A p \in flow_pred[b] : p \in Block
      BY DEF FlowTypeOK
    <3>3. \A p \in flow_pred[b] : d \in flow_out[p]
      BY <3>1, <3>2 DEF Refuted
    <3>4. d \in IntersectionSet(Arriving(b))
      BY <3>1, <3>3, MeetFacts
    <3>5. QED
      BY <1>1, <2>4, <3>4 DEF FlowTypeOK
  <2>5. QED
    BY <2>2, <2>3, <2>4
<1>5. Swept'
  <2>1. ASSUME ~changed', NEW b \in Block, b < at' PROVE Balanced(b)'
    <3>1. flow_out' = flow_out /\ ~changed
      BY <1>1, <2>1
    <3>2. Balanced(b)
      <4>1. CASE b = at
        BY <1>1, <3>1, <4>1 DEF Balanced, FlowTypeOK
      <4>2. CASE b # at
        BY <1>1, <2>1, <3>1, <4>2 DEF Swept, Block
      <4>3. QED
        BY <4>1, <4>2
    <3>3. Arriving(b)' = Arriving(b)
      BY <1>1, <3>1 DEF Arriving, PassEdge, IsEntry
    <3>4. QED
      BY <3>1, <3>2, <3>3 DEF Balanced, IntersectionSet
  <2>2. QED
    BY <1>1, <2>1 DEF Swept, Block
<1>6. QED
  BY <1>3, <1>4, <1>5

(* The steps that do not touch the solution keep what is known of it. *)
LEMMA SameFlow ==
  ASSUME FlowInv, UNCHANGED <<flow_pred, flow_in, flow_out>>,
         at' \in 1 .. NB + 1, changed' \in BOOLEAN, solved' \in BOOLEAN,
         ~changed' => \A b \in Block : b < at' => Balanced(b),
         solved' => ~changed' /\ at' = NB + 1
  PROVE  FlowInv'
<1>1. FlowTypeOK'
  BY DEF FlowInv, FlowTypeOK
<1>2. Refuted'
  BY DEF FlowInv, Refuted, Dominates, ClosedAvoiding
<1>3. \A b \in Block : Balanced(b)' <=> Balanced(b)
  BY DEF Balanced, Arriving, PassEdge, IsEntry, IntersectionSet
<1>4. Swept'
  BY <1>3 DEF Swept
<1>5. QED
  BY <1>1, <1>2, <1>4 DEF FlowInv

(* FlowInv is inductive. *)
LEMMA FlowNext == FlowInv /\ [Next]_vars => FlowInv'
<1> SUFFICES ASSUME FlowInv, [Next]_vars PROVE FlowInv'
  OBVIOUS
<1>1. CASE Visit
  BY <1>1, VisitInv
<1>2. CASE Again
  <2>1. at' \in 1 .. NB + 1
    BY <1>2, NBAssumption DEF Again
  <2>2. changed' \in BOOLEAN /\ solved' \in BOOLEAN /\ ~solved'
        /\ UNCHANGED <<flow_pred, flow_in, flow_out>>
    BY <1>2 DEF Again, FlowInv, FlowTypeOK
  <2>3. \A b \in Block : ~(b < at')
    BY <1>2 DEF Again, Block
  <2>4. QED
    BY <2>1, <2>2, <2>3, SameFlow
<1>3. CASE Converge
  <2>1. at = NB + 1
    BY <1>3, NBAssumption DEF Converge, FlowInv, FlowTypeOK, Block
  <2>2. QED
    BY <1>3, <2>1, SameFlow DEF Converge, FlowInv, FlowTypeOK, Swept
<1>4. CASE UNCHANGED flowVars
  BY <1>4, SameFlow DEF flowVars, FlowInv, FlowTypeOK, Swept
<1>5. QED
  BY <1>1, <1>2, <1>3, <1>4 DEF Next, SolveStep, Solve, BuildTree, StartEdge, Climb,
     Finish, Returned, vars

-----------------------------------------------------------------------------
(* The tables are well typed, no dominator is ever lost and the blocks that  *)
(* an uneventful sweep has passed balance.                                   *)
THEOREM FlowInvariant == Spec => []FlowInv
<1>1. QED
  BY FlowInit, FlowNext, PTL DEF Spec

(* At no moment of the iteration does out[b] miss a dominator of b. *)
THEOREM DominatorsNeverLost == Spec => []NeverLosesDominator
<1>1. FlowInv => NeverLosesDominator
  BY DEF FlowInv, Refuted, NeverLosesDominator, Block, Universe
<1>2. QED
  BY <1>1, FlowInvariant, PTL

(* Once a sweep has changed nothing, out[b] is the set of the dominators. *)
LEMMA SolvedIsExact == FlowInv => DominatorsExact
<1> SUFFICES ASSUME FlowInv, solved, NEW b \in Block
             PROVE  /\ \A d \in Block : d \in flow_out[b] <=> Dominates(flow_pred, d, b)
                    /\ IsUniverse(flow_out[b]) <=> Unreachable(flow_pred, b)
  BY DEF DominatorsExact
<1>1. \A x \in Block : Balanced(x)
  BY NBAssumption DEF FlowInv, Swept, Block
<1>2. \A d \in Universe : d \in flow_out[b] <=> Dominates(flow_pred, d, b)
  BY <1>1, BalancedIsSound DEF FlowInv, Refuted
<1>3. 0 \in Universe /\ Block \subseteq Universe /\ Block \ {0} = Block
  BY NBAssumption DEF Block, Universe
<1>4. Dominates(flow_pred, 0, b) <=> Unreachable(flow_pred, b)
  BY <1>3 DEF Dominates, Unreachable
<1>5. QED
  BY <1>2, <1>3, <1>4 DEF IsUniverse, Everything

(* When solve() is over, out[b] is the set of the blocks that every path     *)
(* from the entrance to b passes, and the universe exactly if there is none. *)
THEOREM SolveComputesDominance == Spec => []DominatorsExact
<1>1. QED
  BY SolvedIsExact, FlowInvariant, PTL

-----------------------------------------------------------------------------
(* DominanceTree and DominanceFrontier.  The constructors go on only if      *)
(* every block can be reached.                                               *)
Reached == \A b \in Block : ~Unreachable(flow_pred, b)

(* The runner is on its way from a predecessor of the block up to the        *)
(* block's immediate dominator, which dominates all it meets.                *)
OnTheWay ==
  /\ \A e \in todo : e[1] \in flow_pred[e[2]]
  /\ runner # 0 =>
       /\ edge[1] \in flow_pred[edge[2]]
       /\ Dominates(flow_pred, runner, edge[1])
       /\ Dominates(flow_pred, idom[edge[2]], runner)

(* The frontiers hold nothing wrong. *)
FrontierSound == \A n \in Block : \A w \in frontier[n] : InFrontier(flow_pred, w, n)

(* What is missing from the frontiers is still ahead of the runner, or on an *)
(* edge that it has not begun.                                               *)
NothingSkipped ==
  \A w, n \in Block : \A p \in flow_pred[w] :
    Dominates(flow_pred, n, p) /\ ~StrictlyDominates(flow_pred, n, w) =>
      \/ w \in frontier[n]
      \/ <<p, w>> \in todo
      \/ runner # 0 /\ edge = <<p, w>> /\ Dominates(flow_pred, n, runner)

(* The inductive invariant: exact sets, then exact parents, then the         *)
(* frontiers up to the runner.                                               *)
TreeInv ==
  /\ FlowInv /\ TypeOK
  /\ flow_pred[Entry] = {}
  /\ pc = "solve" => frontier = [b \in Block |-> {}] /\ runner = 0
  /\ pc \in {"frontier", "done"} =>
       solved /\ Reached /\ IdomImmediate /\ OnTheWay /\ FrontierSound /\ NothingSkipped
  /\ pc = "done" => todo = {} /\ Arrived

(* The sets of two dominators of a block differ in size, the one closer to   *)
(* the block has the larger: it is the immediate dominator.                  *)
LEMMA ClosestIsImmediate ==
  ASSUME FlowInv, solved, \A x \in Block : ~IsUniverse(flow_out[x]), NEW b \in Block
  PROVE  /\ Reached
         /\ b = Entry => Closest(b) = {}
         /\ b # Entry => /\ Closest(b) # {}
                         /\ \A d \in Closest(b) :
                              d \in Block /\ ImmediatelyDominates(flow_pred, d, b)
<1>0. flow_pred \in [Block -> SUBSET Block] /\ Entry \in Block
  BY EntryIsBlock DEF FlowInv, FlowTypeOK
<1>1. Reached /\ \A x, d \in Block : d \in flow_out[x] <=> Dominates(flow_pred, d, x)
  BY SolvedIsExact DEF DominatorsExact, Reached
<1>2. \A x \in Block : flow_out[x] = Dominators(flow_pred, x)
  <2>1. ASSUME NEW x \in Block PROVE flow_out[x] \subseteq Block
    <3>1. flow_out[x] \subseteq Universe /\ 0 \notin flow_out[x]
      BY DEF FlowInv, FlowTypeOK, IsUniverse, Everything
    <3>2. QED
      BY <3>1, NBAssumption DEF Universe, Block
  <2>2. QED
    BY <1>1, <2>1 DEF Dominators
<1> DEFINE strict == flow_out[b] \ {b}
<1>3. \A d : d \in strict <=> d \in Block /\ StrictlyDominates(flow_pred, d, b)
  BY <1>2 DEF Dominators, StrictlyDominates
<1>4. \A d \in Block : Cardinality(flow_out[d]) = Depth(flow_pred, d)
  BY <1>2 DEF Depth
<1>5. CASE b = Entry
  <2>1. strict = {}
    BY <1>0, <1>3, <1>5, EntryUndominated DEF StrictlyDominates
  <2>2. QED
    BY <1>1, <1>5, <2>1 DEF Closest
<1>6. CASE b # Entry
  <2>1. \A d : d \in Closest(b) <=>
          /\ d \in Block /\ StrictlyDominates(flow_pred, d, b)
          /\ \A e \in Block : StrictlyDominates(flow_pred, e, b) =>
               Depth(flow_pred, e) <= Depth(flow_pred, d)
    BY <1>3, <1>4 DEF Closest
  <2>2. Closest(b) # {}
    BY <1>6, <2>1, DeepestExists
  <2>3. QED
    BY <1>0, <1>1, <1>6, <2>1, <2>2, DeepestIsImmediate DEF Reached
<1>7. QED
  BY <1>5, <1>6

(* Paths, and what is defined by them, depend on the graph alone. *)
LEMMA SamePaths ==
  ASSUME UNCHANGED flow_pred
  PROVE  /\ \A d, b : Dominates(flow_pred, d, b)' <=> Dominates(flow_pred, d, b)
         /\ \A d, b : StrictlyDominates(flow_pred, d, b)' <=> StrictlyDominates(flow_pred, d, b)
         /\ \A w, n : InFrontier(flow_pred, w, n)' <=> InFrontier(flow_pred, w, n)
         /\ \A d, b : ImmediatelyDominates(flow_pred, d, b)' <=> ImmediatelyDominates(flow_pred, d, b)
         /\ Reached' <=> Reached
<1>1. \A d, b : Dominates(flow_pred, d, b)' <=> Dominates(flow_pred, d, b)
  BY DEF Dominates, ClosedAvoiding
<1>2. Reached' <=> Reached
  BY DEF Reached, Unreachable, ClosedAvoiding
<1>3. QED
  BY <1>1, <1>2 DEF StrictlyDominates, InFrontier, ImmediatelyDominates

(* Before the tree is built there is nothing to say of it. *)
LEMMA TreeInit == Init => TreeInv
<1> SUFFICES ASSUME Init PROVE TreeInv
  OBVIOUS
<1>1. FlowInv
  BY FlowInit
<1>2. TypeOK
  BY <1>1, EntryIsBlock, NBAssumption DEF Init, TypeOK, FlowInv, FlowTypeOK
<1>3. flow_pred[Entry] = {}
  <2>1. PICK succ \in [Block -> Targets] : flow_pred = PredOf(succ)
    BY DEF Init
  <2>2. \A p \in Block : Entry \notin succ[p]
    BY <2>1 DEF Targets
  <2>3. QED
    BY <2>1, <2>2, EntryIsBlock DEF PredOf
<1>4. QED
  BY <1>1, <1>2, <1>3 DEF Init, TreeInv

(* DominanceTree: the map it builds gives every block but the entrance its   *)
(* immediate dominator, and all the edges are ahead of the frontier loop.    *)
LEMMA BuildTreeInv == ASSUME TreeInv, FlowInv', BuildTree PROVE TreeInv'
<1>1. /\ pc = "solve" /\ solved
      /\ UNCHANGED <<flow_pred, flow_in, flow_out, at, changed, solved, frontier, edge, runner>>
      /\ frontier = [b \in Block |-> {}] /\ runner = 0
      /\ FlowInv /\ TypeOK /\ flow_pred[Entry] = {}
  BY DEF BuildTree, TreeInv, flowVars
<1>2. CASE \E b \in Block : IsUniverse(flow_out[b])
  <2>1. pc' = "throw" /\ UNCHANGED <<idom, todo>>
    BY <1>2 DEF BuildTree
  <2>2. TypeOK'
    BY <1>1, <2>1 DEF TypeOK
  <2>3. QED
    BY <1>1, <2>1, <2>2 DEF TreeInv
<1>3. CASE \A b \in Block : ~IsUniverse(flow_out[b])
  <2>1. /\ pc' = "frontier"
        /\ idom' \in [Block -> 0 .. NB]
        /\ \A b \in Block : IF Closest(b) = {} THEN idom'[b] = 0 ELSE idom'[b] \in Closest(b)
        /\ todo' = {e \in Block \X Block : e[1] \in flow_pred[e[2]] /\ idom'[e[2]] # 0}
    BY <1>3 DEF BuildTree
  <2>2. TypeOK'
    BY <1>1, <2>1 DEF TypeOK
  <2>3. Reached
    BY <1>1, <1>3, ClosestIsImmediate, EntryIsBlock
  <2>4. \A b \in Block : IF b = Entry THEN idom'[b] = 0
                         ELSE idom'[b] \in Block /\ ImmediatelyDominates(flow_pred, idom'[b], b)
    BY <1>1, <1>3, <2>1, ClosestIsImmediate
  <2>5. IdomImmediate' /\ Reached'
    BY <1>1, <2>3, <2>4, SamePaths DEF IdomImmediate
  <2>6. OnTheWay' /\ FrontierSound'
    BY <1>1, <2>1 DEF OnTheWay, FrontierSound
  <2>7. NothingSkipped'
    <3> SUFFICES ASSUME NEW w \in Block, NEW p \in flow_pred[w] PROVE <<p, w>> \in todo'
      BY <1>1 DEF NothingSkipped
    <3>1. w # Entry /\ p \in Block
      BY <1>1 DEF TypeOK
    <3>2. idom'[w] # 0
      BY <2>4, <3>1, EntryIsBlock
    <3>3. QED
      BY <2>1, <3>1, <3>2
  <2>8. QED
    BY <1>1, <2>1, <2>2, <2>5, <2>6, <2>7 DEF TreeInv
<1>4. QED
  BY <1>2, <1>3

(* Once the runner has arrived its edge is done: what dominates the          *)
(* immediate dominator strictly dominates the block.                         *)
LEMMA ArrivedIsDone ==
  ASSUME TreeInv, pc \in {"frontier", "done"}, Arrived, NEW w \in Block, NEW n \in Block,
         runner # 0, edge[2] = w, Dominates(flow_pred, n, runner)
  PROVE  StrictlyDominates(flow_pred, n, w)
<1>0. /\ flow_pred \in [Block -> SUBSET Block] /\ flow_pred[Entry] = {}
      /\ edge[1] \in flow_pred[w] /\ Reached
  BY DEF TreeInv, TypeOK, OnTheWay
<1>1. runner = idom[w] /\ w # Entry
  BY <1>0 DEF Arrived
<1>2. runner \in Block /\ ImmediatelyDominates(flow_pred, runner, w)
  BY <1>1 DEF TreeInv, IdomImmediate
<1>3. Dominates(flow_pred, runner, w) /\ runner # w
  BY <1>2 DEF ImmediatelyDominates, StrictlyDominates
<1>4. Dominates(flow_pred, n, w)
  BY <1>0, <1>2, <1>3, DominatesTransitive
<1>5. n # w
  BY <1>0, <1>2, <1>3, DominatesAntisymmetric DEF Reached
<1>6. QED
  BY <1>4, <1>5 DEF StrictlyDominates

(* The runner starts at a predecessor, below the immediate dominator. *)
LEMMA StartEdgeInv == ASSUME TreeInv, FlowInv', StartEdge PROVE TreeInv'
<1>1. PICK e \in todo : edge' = e /\ runner' = e[1] /\ todo' = todo \ {e}
  BY DEF StartEdge
<1>2. /\ pc = "frontier" /\ pc' = "frontier" /\ Arrived
      /\ UNCHANGED <<flow_pred, flow_in, flow_out, at, changed, solved, idom, frontier>>
      /\ FlowInv /\ TypeOK /\ flow_pred[Entry] = {}
      /\ Reached /\ IdomImmediate /\ OnTheWay /\ FrontierSound /\ NothingSkipped /\ solved
  BY DEF StartEdge, TreeInv, flowVars
<1>3. e \in Block \X Block /\ e[1] \in flow_pred[e[2]] /\ e[1] \in Block /\ e[2] \in Block
  BY <1>2 DEF TypeOK, OnTheWay
<1>4. e[1] # 0 /\ e[2] # Entry
  BY <1>2, <1>3, EntryIsBlock
<1>5. TypeOK'
  <2>1. e[1] \in 0 .. NB
    BY <1>3, NBAssumption DEF Block
  <2>2. edge' \in Block \X Block /\ runner' \in 0 .. NB /\ todo' \subseteq todo
    BY <1>1, <1>3, <2>1
  <2>3. QED
    BY <1>2, <2>2 DEF TypeOK
<1>6. idom[e[2]] \in Block /\ StrictlyDominates(flow_pred, idom[e[2]], e[2])
  BY <1>2, <1>3, <1>4 DEF IdomImmediate, ImmediatelyDominates
<1>7. OnTheWay'
  <2>1. Dominates(flow_pred, idom[e[2]], e[1])
    BY <1>2, <1>3, <1>6, StrictlyAbovePredecessors DEF TypeOK
  <2>2. Dominates(flow_pred, e[1], e[1])
    BY <1>3, DominatesItself
  <2>3. QED
    BY <1>1, <1>2, <1>3, <2>1, <2>2, SamePaths DEF OnTheWay
<1>8. NothingSkipped'
  <2> SUFFICES ASSUME NEW w \in Block, NEW n \in Block, NEW p \in flow_pred[w],
                      Dominates(flow_pred, n, p), ~StrictlyDominates(flow_pred, n, w)
               PROVE  \/ w \in frontier[n]
                      \/ <<p, w>> \in todo'
                      \/ runner' # 0 /\ edge' = <<p, w>> /\ Dominates(flow_pred, n, runner')
    BY <1>2, SamePaths DEF NothingSkipped
  <2>1. w \in frontier[n] \/ <<p, w>> \in todo
        \/ (runner # 0 /\ edge = <<p, w>> /\ Dominates(flow_pred, n, runner))
    BY <1>2 DEF NothingSkipped
  <2>2. ~(runner # 0 /\ edge = <<p, w>> /\ Dominates(flow_pred, n, runner))
    <3>1. edge = <<p, w>> => edge[2] = w
      OBVIOUS
    <3>2. QED
      BY <1>2, <3>1, ArrivedIsDone
  <2>3. CASE <<p, w>> = e
    BY <1>1, <1>4, <2>3
  <2>4. CASE <<p, w>> # e
    BY <1>1, <2>1, <2>2, <2>4
  <2>5. QED
    BY <2>3, <2>4
<1>9. IdomImmediate' /\ Reached' /\ FrontierSound'
  BY <1>2, SamePaths DEF IdomImmediate, FrontierSound
<1>10. QED
  BY <1>2, <1>5, <1>7, <1>8, <1>9 DEF TreeInv

(* One turn of the while loop: the block belongs to the frontier of the      *)
(* runner, and what dominates the runner without being it dominates the      *)
(* block that the runner goes on to.                                         *)
LEMMA ClimbInv == ASSUME TreeInv, FlowInv', Climb PROVE TreeInv'
<1> DEFINE w == edge[2]
<1>1. /\ pc = "frontier" /\ pc' = "frontier" /\ runner # 0 /\ runner # idom[w]
      /\ frontier' = [frontier EXCEPT ![runner] = @ \cup {w}]
      /\ runner' = idom[runner]
      /\ UNCHANGED <<flow_pred, flow_in, flow_out, at, changed, solved, idom, todo, edge>>
  BY DEF Climb, Arrived, flowVars
<1>2. /\ FlowInv /\ TypeOK /\ flow_pred[Entry] = {} /\ solved
      /\ Reached /\ IdomImmediate /\ OnTheWay /\ FrontierSound /\ NothingSkipped
      /\ flow_pred \in [Block -> SUBSET Block]
  BY <1>1 DEF TreeInv, TypeOK
<1>3. w \in Block /\ runner \in Block /\ edge[1] \in flow_pred[w] /\ edge[1] \in Block
      /\ edge = <<edge[1], w>>
  BY <1>1, <1>2 DEF TypeOK, OnTheWay, Block
<1>4. w # Entry
  BY <1>2, <1>3
<1>5. idom[w] \in Block /\ ImmediatelyDominates(flow_pred, idom[w], w)
  BY <1>1, <1>2, <1>3, <1>4 DEF IdomImmediate
<1>6. Dominates(flow_pred, runner, edge[1]) /\ Dominates(flow_pred, idom[w], runner)
  BY <1>1, <1>2 DEF OnTheWay
<1>7. ~StrictlyDominates(flow_pred, runner, w)
  <2> SUFFICES ASSUME StrictlyDominates(flow_pred, runner, w) PROVE FALSE
    OBVIOUS
  <2>1. Dominates(flow_pred, runner, idom[w])
    BY <1>3, <1>5 DEF ImmediatelyDominates
  <2>2. QED
    BY <1>1, <1>2, <1>3, <1>5, <1>6, <2>1, DominatesAntisymmetric DEF Reached
<1>8. runner # Entry
  BY <1>1, <1>2, <1>5, <1>6, EntryUndominated
<1>9. idom[runner] \in Block /\ ImmediatelyDominates(flow_pred, idom[runner], runner)
  BY <1>1, <1>2, <1>3, <1>8 DEF IdomImmediate
<1>10. TypeOK'
  <2>1. frontier' \in [Block -> SUBSET Block]
    BY <1>1, <1>2, <1>3 DEF TypeOK
  <2>2. runner' \in 0 .. NB
    BY <1>1, <1>9, NBAssumption DEF Block
  <2>3. QED
    BY <1>1, <1>2, <2>1, <2>2 DEF TypeOK
<1>11. OnTheWay'
  <2>1. Dominates(flow_pred, idom[runner], edge[1])
    BY <1>2, <1>3, <1>6, <1>9, DominatesTransitive DEF ImmediatelyDominates, StrictlyDominates
  <2>2. Dominates(flow_pred, idom[w], idom[runner])
    BY <1>1, <1>5, <1>6, <1>9 DEF ImmediatelyDominates, StrictlyDominates
  <2>3. QED
    BY <1>1, <1>2, <1>3, <2>1, <2>2, SamePaths DEF OnTheWay
<1>12. FrontierSound'
  <2>1. InFrontier(flow_pred, w, runner)
    BY <1>3, <1>6, <1>7 DEF InFrontier
  <2>2. \A n \in Block : frontier'[n] = IF n = runner THEN frontier[n] \cup {w} ELSE frontier[n]
    BY <1>1, <1>2 DEF TypeOK
  <2>3. QED
    BY <1>1, <1>2, <2>1, <2>2, SamePaths DEF FrontierSound
<1>13. NothingSkipped'
  <2> SUFFICES ASSUME NEW x \in Block, NEW n \in Block, NEW p \in flow_pred[x],
                      Dominates(flow_pred, n, p), ~StrictlyDominates(flow_pred, n, x)
               PROVE  \/ x \in frontier'[n]
                      \/ <<p, x>> \in todo
                      \/ runner' # 0 /\ edge = <<p, x>> /\ Dominates(flow_pred, n, runner')
    BY <1>1, SamePaths DEF NothingSkipped
  <2>1. x \in frontier[n] \/ <<p, x>> \in todo
        \/ (edge = <<p, x>> /\ Dominates(flow_pred, n, runner))
    BY <1>2 DEF NothingSkipped
  <2>2. frontier[n] \subseteq frontier'[n] /\ w \in frontier'[runner]
    BY <1>1, <1>2, <1>3 DEF TypeOK
  <2>3. CASE edge = <<p, x>> /\ Dominates(flow_pred, n, runner)
    <3>1. x = w
      BY <2>3
    <3>2. CASE n = runner
      BY <2>2, <3>1, <3>2
    <3>3. CASE n # runner
      <4>1. Dominates(flow_pred, n, idom[runner])
        BY <1>9, <2>3, <3>3 DEF ImmediatelyDominates, StrictlyDominates
      <4>2. idom[runner] # 0
        BY <1>9, EntryIsBlock
      <4>3. QED
        BY <1>1, <2>3, <4>1, <4>2
    <3>4. QED
      BY <3>2, <3>3
  <2>4. QED
    BY <2>1, <2>2, <2>3
<1>14. IdomImmediate' /\ Reached'
  BY <1>1, <1>2, SamePaths DEF IdomImmediate
<1>15. QED
  BY <1>1, <1>2, <1>10, <1>11, <1>12, <1>13, <1>14 DEF TreeInv

(* TreeInv is inductive. *)
LEMMA TreeNext == TreeInv /\ [Next]_vars => TreeInv'
<1> SUFFICES ASSUME TreeInv, [Next]_vars PROVE TreeInv'
  OBVIOUS
<1>0. FlowInv'
  BY FlowNext DEF TreeInv
<1>1. CASE SolveStep
  <2>1. pc = "solve" /\ UNCHANGED treeVars /\ UNCHANGED flow_pred
    BY <1>1 DEF SolveStep, Solve, Visit, Again, Converge
  <2>2. TypeOK'
    BY <1>0, <2>1 DEF TreeInv, TypeOK, FlowInv, FlowTypeOK, treeVars
  <2>3. QED
    BY <1>0, <2>1, <2>2 DEF TreeInv, treeVars
<1>2. CASE BuildTree
  BY <1>0, <1>2, BuildTreeInv
<1>3. CASE StartEdge
  BY <1>0, <1>3, StartEdgeInv
<1>4. CASE Climb
  BY <1>0, <1>4, ClimbInv
<1>5. CASE Finish
  <2>1. /\ pc = "frontier" /\ pc' = "done" /\ Arrived /\ todo = {}
        /\ UNCHANGED <<flow_pred, flow_in, flow_out, at, changed, solved>>
        /\ UNCHANGED <<idom, frontier, todo, edge, runner>>
    BY <1>5 DEF Finish, flowVars
  <2>2. TypeOK' /\ Arrived'
    BY <2>1 DEF TreeInv, TypeOK, Arrived
  <2>3. IdomImmediate' /\ Reached' /\ OnTheWay' /\ FrontierSound' /\ NothingSkipped'
    BY <2>1, SamePaths DEF TreeInv, IdomImmediate, OnTheWay, FrontierSound, NothingSkipped
  <2>4. QED
    BY <1>0, <2>1, <2>2, <2>3 DEF TreeInv
<1>6. CASE UNCHANGED vars
  <2>1. UNCHANGED <<flow_pred, flow_in, flow_out, at, changed, solved>>
        /\ UNCHANGED <<idom, frontier, todo, edge, runner, pc>>
    BY <1>6 DEF vars, flowVars, treeVars
  <2>2. TypeOK' /\ (Arrived' <=> Arrived)
    BY <2>1 DEF TreeInv, TypeOK, Arrived
  <2>3. (IdomImmediate /\ Reached /\ OnTheWay /\ FrontierSound /\ NothingSkipped) =>
          (IdomImmediate /\ Reached /\ OnTheWay /\ FrontierSound /\ NothingSkipped)'
    BY <2>1, SamePaths DEF IdomImmediate, OnTheWay, FrontierSound, NothingSkipped
  <2>4. QED
    BY <1>0, <2>1, <2>2, <2>3 DEF TreeInv
<1>7. QED
  BY <1>1, <1>2, <1>3, <1>4, <1>5, <1>6 DEF Next, Returned

(* The invariant of the analysis and of the two constructors. *)
THEOREM TreeInvariant == Spec => []TreeInv
<1>1. QED
  BY TreeInit, TreeNext, PTL DEF Spec

(* The tables of the analysis, of the tree and of the frontiers keep their   *)
(* types: a runner never leaves the blocks, whatever the graph.              *)
THEOREM DominanceTyped == Spec => []TypeOK
<1>1. TreeInv => TypeOK
  BY DEF TreeInv
<1>2. QED
  BY <1>1, TreeInvariant, PTL

(* The dominator with the largest set is the immediate dominator, for every  *)
(* block of every graph whose blocks can be reached.                         *)
THEOREM TreeIsImmediate == Spec => []IdomImmediate
<1>1. TreeInv => IdomImmediate
  BY DEF TreeInv, IdomImmediate
<1>2. QED
  BY <1>1, TreeInvariant, PTL

(* When DominanceFrontier has run, frontier(N) holds exactly the blocks      *)
(* where the dominance of N ends.                                            *)
THEOREM FrontierIsExact == Spec => []FrontierExact
<1>1. TreeInv => FrontierExact
  <2> SUFFICES ASSUME TreeInv, pc = "done", NEW n \in Block, NEW w \in Block
               PROVE  w \in frontier[n] <=> InFrontier(flow_pred, w, n)
    BY DEF FrontierExact
  <2>1. w \in frontier[n] => InFrontier(flow_pred, w, n)
    BY DEF TreeInv, FrontierSound
  <2>2. ASSUME InFrontier(flow_pred, w, n) PROVE w \in frontier[n]
    <3>1. PICK p \in flow_pred[w] : Dominates(flow_pred, n, p)
      BY <2>2 DEF InFrontier
    <3>2. ~StrictlyDominates(flow_pred, n, w)
      BY <2>2 DEF InFrontier
    <3>3. \/ w \in frontier[n]
          \/ runner # 0 /\ edge = <<p, w>> /\ Dominates(flow_pred, n, runner)
      BY <3>1, <3>2 DEF TreeInv, NothingSkipped
    <3>4. ASSUME runner # 0, edge = <<p, w>>, Dominates(flow_pred, n, runner) PROVE FALSE
      <4>1. edge[2] = w /\ Arrived
        BY <3>4 DEF TreeInv
      <4>2. QED
        BY <3>2, <3>4, <4>1, ArrivedIsDone
    <3>5. QED
      BY <3>3, <3>4
  <2>3. QED
    BY <2>1, <2>2
<1>2. QED
  BY <1>1, TreeInvariant, PTL

-----------------------------------------------------------------------------
(* Termination.  What a visit computes is never more than is there.          *)
Shrinking == \A b \in Block : IntersectionSet(Arriving(b)) \cup {b} \subseteq flow_out[b]

(* The meet is monotone. *)
LEMMA SmallerMeet ==
  ASSUME UNCHANGED flow_pred, flow_pred \in [Block -> SUBSET Block],
         \A p \in Block : flow_out'[p] \subseteq flow_out[p], NEW b \in Block
  PROVE  IntersectionSet(Arriving(b))' \subseteq IntersectionSet(Arriving(b))
<1>1. \A p \in flow_pred[b] : flow_out'[p] \in Arriving(b)'
  BY DEF Arriving, PassEdge
<1>2. b = Entry => {} \in Arriving(b)'
  BY DEF Arriving, IsEntry
<1>3. \A d \in IntersectionSet(Arriving(b))' : d \in Universe /\ \A s \in Arriving(b)' : d \in s
  BY DEF IntersectionSet, Universe
<1>4. \A d \in IntersectionSet(Arriving(b))' :
        d \in Universe /\ b # Entry /\ \A p \in flow_pred[b] : d \in flow_out[p]
  BY <1>1, <1>2, <1>3
<1>5. QED
  BY <1>4, MeetFacts

(* A visit only takes away, and what the others would compute shrinks too.   *)
LEMMA VisitShrinks ==
  ASSUME FlowInv, Shrinking, Visit
  PROVE  /\ Shrinking'
         /\ \A b \in Block : flow_out'[b] \subseteq flow_out[b]
<1> DEFINE new == IntersectionSet(Arriving(at)) \cup {at}
<1>1. /\ at \in Block /\ flow_pred' = flow_pred
      /\ flow_out' = [flow_out EXCEPT ![at] = new]
  BY DEF Visit, InsertBlock
<1>2. flow_pred \in [Block -> SUBSET Block] /\ flow_out \in [Block -> SUBSET Universe]
  BY DEF FlowInv, FlowTypeOK
<1>3. new \subseteq flow_out[at]
  BY <1>1 DEF Shrinking
<1>4. flow_out'[at] = new /\ \A b \in Block \ {at} : flow_out'[b] = flow_out[b]
  BY <1>1, <1>2
<1>5. \A b \in Block : flow_out'[b] \subseteq flow_out[b]
  BY <1>3, <1>4
<1>6. ASSUME NEW b \in Block PROVE (IntersectionSet(Arriving(b)) \cup {b})' \subseteq flow_out'[b]
  <2>1. IntersectionSet(Arriving(b))' \subseteq IntersectionSet(Arriving(b))
    BY <1>1, <1>2, <1>5, SmallerMeet
  <2>2. CASE b = at
    BY <1>4, <2>1, <2>2
  <2>3. CASE b # at
    BY <1>4, <2>1, <2>3 DEF Shrinking
  <2>4. QED
    BY <2>2, <2>3
<1>7. QED
  BY <1>5, <1>6 DEF Shrinking

(* Shrinking is inductive beside FlowInv. *)
LEMMA ShrinkingNext == FlowInv /\ Shrinking /\ [Next]_vars => Shrinking'
<1> SUFFICES ASSUME FlowInv, Shrinking, [Next]_vars PROVE Shrinking'
  OBVIOUS
<1>1. CASE Visit
  BY <1>1, VisitShrinks
<1>2. CASE UNCHANGED <<flow_pred, ctx, flow_out>>
  BY <1>2 DEF Shrinking, IntersectionSet, Arriving, PassEdge, IsEntry
<1>3. QED
  BY <1>1, <1>2 DEF Next, SolveStep, Solve, Again, Converge, BuildTree, StartEdge, Climb,
     Finish, Returned, vars, flowVars

(* A step of solve(). *)
LEMMA SolveStepAdvances ==
  ASSUME FlowInv, Shrinking, Solve
  PROVE  SolveAdvances(Shrink)
<1>1. CASE Visit
  <2>1. at < at'
    BY <1>1 DEF Visit, Block
  <2>2. flow_out' # flow_out => Shrink
    BY <1>1, VisitShrinks DEF Shrink
  <2>3. flow_out' = flow_out => changed' = changed
    BY <1>1 DEF Visit, FlowInv, FlowTypeOK
  <2>4. QED
    BY <2>1, <2>2, <2>3 DEF SolveAdvances
<1>2. CASE Again
  BY <1>2 DEF Again, SolveAdvances
<1>3. CASE Converge
  BY <1>3 DEF Converge, SolveAdvances
<1>4. QED
  BY <1>1, <1>2, <1>3 DEF Solve

(* A turn of the while loop over the runner. *)
LEMMA ClimbAdvances == ASSUME TreeInv, Climb PROVE RunnerAdvances
<1>1. /\ pc = "frontier" /\ runner # 0 /\ runner' = idom[runner]
      /\ UNCHANGED <<flow_pred, todo>>
  BY DEF Climb, Arrived, flowVars
<1>2. runner \in Block
  BY <1>1 DEF TreeInv, TypeOK, Block
<1>3. IF runner = Entry THEN idom[runner] = 0
      ELSE ImmediatelyDominates(flow_pred, idom[runner], runner)
  BY <1>1, <1>2 DEF TreeInv, IdomImmediate
<1>4. QED
  BY <1>1, <1>3 DEF RunnerAdvances, ImmediatelyDominates

(* The analysis and the two constructors return on every graph: no set of    *)
(* dominators ever grows, and the parents of the tree lead to its root.      *)
THEOREM DominanceAdvances == Spec => SweepsAdvance
<1>1. Init => Shrinking
  <2> SUFFICES ASSUME Init, NEW b \in Block
               PROVE  IntersectionSet(Arriving(b)) \cup {b} \subseteq flow_out[b]
    BY DEF Shrinking
  <2>1. CASE b = Entry
    <3>1. flow_out[b] = {b}
      BY <2>1 DEF Init, SolveInit, IsEntry, InsertBlock
    <3>2. \A d \in Universe : d \notin IntersectionSet(Arriving(b))
      BY <2>1, MeetFacts
    <3>3. IntersectionSet(Arriving(b)) \subseteq Universe
      BY DEF IntersectionSet
    <3>4. QED
      BY <3>1, <3>2, <3>3
  <2>2. CASE b # Entry
    <3>1. IntersectionSet({}) = Universe
      BY DEF IntersectionSet
    <3>2. flow_out[b] = Universe
      BY <2>2, <3>1 DEF Init, SolveInit, Top, IsEntry
    <3>3. b \in Universe
      BY DEF Block, Universe
    <3>4. QED
      BY <3>2, <3>3 DEF IntersectionSet
  <2>3. QED
    BY <2>1, <2>2
<1>2. TreeInv => FlowInv
  BY DEF TreeInv
<1>3. TreeInv /\ Shrinking /\ [Next]_vars => [Advances]_vars
  <2> SUFFICES ASSUME TreeInv, Shrinking, [Next]_vars, vars' # vars PROVE Advances
    OBVIOUS
  <2>1. CASE SolveStep
    BY <1>2, <2>1, SolveStepAdvances DEF SolveStep, treeVars, Advances
  <2>2. CASE BuildTree
    BY <2>2 DEF BuildTree, Advances
  <2>3. CASE StartEdge
    <3>1. pc = "frontier" /\ pc' = pc /\ UNCHANGED flow_pred
      BY <2>3 DEF StartEdge, flowVars
    <3>2. \E e \in todo : todo' = todo \ {e}
      BY <2>3 DEF StartEdge
    <3>3. todo' \subseteq todo /\ todo' # todo
      BY <3>2
    <3>4. QED
      BY <3>1, <3>3 DEF Advances, RunnerAdvances
  <2>4. CASE Climb
    BY <2>4, ClimbAdvances DEF Climb, Advances
  <2>5. CASE Finish
    BY <2>5 DEF Finish, Advances
  <2>6. QED
    BY <2>1, <2>2, <2>3, <2>4, <2>5 DEF Next, Returned
<1>4. QED
  BY <1>1, <1>2, <1>3, ShrinkingNext, TreeInvariant, PTL DEF Spec, SweepsAdvance
=============================================================================
