--------------------------- MODULE BriggsProofs ---------------------------
(* Proofs about BriggsAllocator: the colouring it returns is proper and its *)
(* answer complete, a copy that is safe to coalesce is coalesced, no lookup *)
(* of a move fails except that of a stray, and while there is no stray      *)
(* colorize() gets on, for every graph, every set of moves and every number *)
(* of registers.  The part about the colouring never looks at the moves or  *)
(* at the degrees, which only decide what is merged and removed, and when;  *)
(* the parts about the moves and the list moves.ready come after it and     *)
(* rest on it.                                                              *)
EXTENDS BriggsAllocator, Integers, FiniteSets, FiniteSetTheorems, SequenceTheorems, TLAPS

(* The least counterexample of an argument by induction. *)
LEMMA LeastMember ==
  ASSUME NEW T \in SUBSET Nat, T # {}
  PROVE  \E m \in T : \A n \in T : m <= n
<1> DEFINE R == OpToRel(<, Nat)
<1>1. IsWellFoundedOn(R, Nat)
  BY NatLessThanWellFounded DEF OpToRel
<1>2. PICK x \in T : \A y \in T : ~(<<y, x>> \in R)
  BY <1>1, WFMin
<1>3. \A y \in T : ~(y < x)
  BY <1>2 DEF OpToRel
<1>4. QED
  BY <1>3

(* The greatest: the distance to the bound has a least value. *)
LEMMA GreatestMember ==
  ASSUME NEW T \in SUBSET Nat, T # {}, NEW bound \in Nat, \A n \in T : n <= bound
  PROVE  \E m \in T : \A n \in T : n <= m
<1> DEFINE D == {k \in Nat : bound - k \in T}
<1>1. PICK n \in T : TRUE
  OBVIOUS
<1>2. bound - n \in Nat /\ bound - (bound - n) = n
  BY <1>1
<1>3. bound - n \in D
  BY <1>1, <1>2
<1>4. PICK d \in D : \A e \in D : d <= e
  BY <1>3, LeastMember
<1>5. ASSUME NEW t \in T PROVE t <= bound - d
  <2>1. bound - t \in D
    BY <1>5
  <2>2. QED
    BY <1>4, <2>1
<1>6. QED
  BY <1>4, <1>5

(* What holds at 0 and passes from n to n + 1 holds up to any bound. *)
LEMMA InductionUpTo ==
  ASSUME NEW S, NEW bound \in Nat, 0 \in S,
         \A n \in 0 .. bound - 1 : n \in S => n + 1 \in S
  PROVE  0 .. bound \subseteq S
<1> SUFFICES ASSUME ~(0 .. bound \subseteq S) PROVE FALSE
  OBVIOUS
<1> DEFINE T == {n \in 0 .. bound : n \notin S}
<1>1. T \in SUBSET Nat /\ T # {}
  OBVIOUS
<1>2. PICK m \in T : \A n \in T : m <= n
  BY <1>1, LeastMember
<1>3. m # 0 /\ m - 1 \in 0 .. bound - 1 /\ m - 1 \notin T
  BY <1>2
<1>4. m - 1 \in S /\ (m - 1) + 1 = m
  BY <1>3
<1>5. QED
  BY <1>3, <1>4

(* Max, on a set of indices. *)
LEMMA MaxOf ==
  ASSUME NEW n \in Nat, NEW s \in SUBSET (1 .. n), s # {}
  PROVE  Max(s) \in s /\ \A k \in s : k <= Max(s)
<1>1. s \in SUBSET Nat /\ \A k \in s : k <= n
  OBVIOUS
<1>2. \E m \in s : \A k \in s : k <= m
  BY <1>1, GreatestMember
<1>3. \E m \in s : \A k \in s : m >= k
  BY <1>1, <1>2
<1>4. QED
  BY <1>1, <1>3 DEF Max

(* The types of the variables that decide the colouring. *)
ColoringType ==
  /\ graph0.interfere \in [Node -> SUBSET Node]
  /\ interfere \in [Node -> SUBSET Node]
  /\ alias \in [Node -> Node]
  /\ loc \in [Node -> NodeList]
  /\ colors \in [Node -> Color \cup {NoColor}]
  /\ phase \in Phase

(* Every value has one representative, and the coalesced list holds the     *)
(* values that are not their own; the registers are never merged away.      *)
Classes ==
  /\ \A n \in Node : alias[alias[n]] = alias[n]
  /\ \A n \in Node : loc[n] = "coalesced" <=> alias[n] # n
  /\ \A n \in Node : loc[n] = "precolored" <=> n \in Precolored

(* The edges are an irreflexive and symmetric relation. *)
Edges ==
  /\ \A a \in Node : a \notin interfere[a]
  /\ \A a, b \in Node : b \in interfere[a] => a \in interfere[b]

(* Colours are given from the select stack only, to nodes on their way to   *)
(* the coloured list.                                                       *)
Progress ==
  /\ phase \in {"initialize", "colorize", "throw"} => colors = Pin
  /\ phase = "initialize" => \A n \in Node : loc[n] \in {"precolored", "initial"}
  /\ phase = "colorize" => \A n \in Node : loc[n] \notin {"initial", "colored", "spilled"}
  /\ phase \in {"assign", "done"} => \A n \in Node :
       loc[n] \in {"precolored", "coalesced", "select_stack", "colored", "spilled"}
  /\ phase = "assign" => \A n \in Node :
       /\ loc[n] = "precolored" => colors[n] = Pin[n]
       /\ loc[n] = "colored" => colors[n] # NoColor
       /\ loc[n] \in {"select_stack", "spilled"} => colors[n] = NoColor

(* Two representatives that interfere never have one colour. *)
ProperRoots ==
  \A a \in Node : \A b \in interfere[a] :
    alias[a] = a /\ alias[b] = b /\ colors[a] # NoColor => colors[a] # colors[b]

(* At the end a value has the colour of its representative. *)
Shared == phase = "done" => \A n \in Node : colors[n] = colors[alias[n]]

(* The inductive invariant of the colouring. *)
ColoringInv ==
  ColoringType /\ Classes /\ Edges /\ EdgesKept /\ Progress /\ ProperRoots /\ Shared /\ Answered

-----------------------------------------------------------------------------
(* A step that only moves nodes between the worklists of colorize()'s loop. *)
Shuffle ==
  /\ phase = "colorize"
  /\ loc' \in [Node -> NodeList]
  /\ \A n \in Node : loc'[n] # loc[n] =>
       /\ loc[n] \notin {"precolored", "coalesced"}
       /\ loc'[n] \in {"simplify", "freeze", "to_spill", "select_stack"}
  /\ UNCHANGED <<graph0, interfere, alias, colors, spilled, phase>>

(* The allocator is constructed on a graph in which the registers, and no    *)
(* other values, have a colour.                                              *)
LEMMA InitInv == Init => ColoringInv
<1> SUFFICES ASSUME NEW edges \in SUBSET Pair, NEW moves \in SUBSET Pair,
                    Constructed(edges, moves)
             PROVE  ColoringInv
  BY DEF Init
<1>1. graph0.interfere = Neighbours(edges) /\ interfere = Neighbours(edges)
  BY DEF Constructed
<1>2. /\ alias = [n \in Node |-> n]
      /\ loc = [n \in Node |-> IF n \in Precolored THEN "precolored" ELSE "initial"]
      /\ colors = Pin
      /\ phase = "initialize"
  BY DEF Constructed
<1>3. \A a, b \in Node : b \in interfere[a] <=> <<a, b>> \in edges \/ <<b, a>> \in edges
  BY <1>1 DEF Neighbours
<1>4. ColoringType
  BY <1>1, <1>2, PinAssumption DEF ColoringType, Neighbours, NodeList, Phase
<1>5. Edges
  <2>1. \A a \in Node : <<a, a>> \notin edges
    BY DEF Pair, Node
  <2> QED BY <1>3, <2>1 DEF Edges
<1>6. Classes
  BY <1>2 DEF Classes
<1>7. EdgesKept
  BY <1>1, <1>2, <1>4, <1>5 DEF EdgesKept, Edges, ColoringType
<1>8. ProperRoots
  BY <1>2, <1>4, <1>5, PinAssumption DEF ProperRoots, Edges, ColoringType
<1> QED BY <1>2, <1>4, <1>5, <1>6, <1>7, <1>8
        DEF ColoringInv, Progress, Shared, Answered

(* Moving nodes between the worklists disturbs nothing. *)
LEMMA ShuffleInv ==
  ASSUME ColoringInv, Shuffle
  PROVE  ColoringInv'
<1>1. ColoringType'
  BY DEF ColoringInv, ColoringType, Shuffle
<1>2. Classes'
  BY DEF ColoringInv, ColoringType, Classes, Shuffle
<1>3. Progress'
  BY DEF ColoringInv, ColoringType, Progress, Shuffle
<1>4. Edges' /\ EdgesKept' /\ ProperRoots' /\ Shared' /\ Answered'
  BY DEF ColoringInv, Edges, EdgesKept, ProperRoots, Shared, Answered, Shuffle
<1> QED BY <1>1, <1>2, <1>3, <1>4 DEF ColoringInv

(* decrement_degree moves a node that is in the graph and not precoloured. *)
LEMMA DecrementMovesNodes ==
  ASSUME NEW mv, NEW ml, NEW d, NEW l \in [Node -> NodeList], NEW ns,
         \A n \in ns : l[n] \notin OutOfGraph
  PROVE  /\ DecrementLoc(mv, ml, d, l, ns) \in [Node -> NodeList]
         /\ \A n \in Node : DecrementLoc(mv, ml, d, l, ns)[n] # l[n] =>
              /\ l[n] \notin {"precolored", "coalesced", "select_stack"}
              /\ DecrementLoc(mv, ml, d, l, ns)[n] \in {"simplify", "freeze"}
BY DEF DecrementLoc, Crossing, OutOfGraph, NodeList

(* initialize() only sorts the nodes into the worklists. *)
LEMMA InitializeInv ==
  ASSUME ColoringInv, Initialize
  PROVE  ColoringInv'
<1> USE DEF ColoringInv, ColoringType, Initialize
<1>1. ColoringType' /\ Progress'
  BY DEF Progress, NodeList, Phase
<1>2. Classes'
  BY DEF Classes, Progress
<1>3. Edges' /\ EdgesKept' /\ ProperRoots' /\ Shared' /\ Answered'
  BY DEF ColoringInv, Edges, EdgesKept, ProperRoots, Shared, Answered, Initialize
<1> QED BY <1>1, <1>2, <1>3 DEF ColoringInv

(* simplify() stacks a node; the colours and the classes stay. *)
LEMMA SimplifyInv ==
  ASSUME ColoringInv, NEW n \in Node, Simplify(n)
  PROVE  ColoringInv'
<1> DEFINE l  == [loc EXCEPT ![n] = "select_stack"]
           ns == Adjacent(interfere, l, n)
<1>1. l \in [Node -> NodeList] /\ \A m \in ns : l[m] \notin OutOfGraph
  BY DEF ColoringInv, ColoringType, NodeList, Adjacent
<1>2. loc' = DecrementLoc(move, mloc, degree, l, ns)
  BY DEF Simplify
<1>3. loc[n] = "simplify"
  BY DEF Simplify, IsFront
<1> HIDE DEF l, ns
<1>4. /\ loc' \in [Node -> NodeList]
      /\ \A m \in Node : loc'[m] # l[m] =>
           /\ l[m] \notin {"precolored", "coalesced", "select_stack"}
           /\ loc'[m] \in {"simplify", "freeze"}
  BY <1>1, <1>2, DecrementMovesNodes
<1>5. Shuffle
  BY <1>3, <1>4 DEF l, Shuffle, Simplify, ColoringInv, ColoringType
<1> QED BY <1>5, ShuffleInv

(* unfreeze moves nodes that are their own representative, not registers. *)
LEMMA RetireMoveInv ==
  ASSUME ColoringInv, phase = "colorize", NEW mov, NEW list, NEW ns,
         \A n \in Range(ns) : n \in Node /\ alias[n] = n,
         RetireMove(mov, list, ns)
  PROVE  ColoringInv'
<1> DEFINE freed == {n \in Range(ns) :
                       Unfreezes(move, [mloc EXCEPT ![mov] = list], degree, loc, n)}
<1>1. /\ loc' = [n \in Node |-> IF n \in freed THEN "simplify" ELSE loc[n]]
      /\ UNCHANGED <<graph0, interfere, alias, colors, spilled, phase>>
  BY DEF RetireMove
<1>2. \A n \in freed : n \in Node /\ alias[n] = n /\ loc[n] # "precolored"
  BY DEF Unfreezes
<1> HIDE DEF freed
<1>3. Shuffle
  BY <1>1, <1>2 DEF Shuffle, ColoringInv, ColoringType, Classes, NodeList
<1> QED BY <1>3, ShuffleInv

(* The ends of a move are two representatives. *)
LEMMA EndsAreRoots ==
  ASSUME ColoringInv, NEW mov \in Node \X Node
  PROVE  /\ Ends(mov)[1] \in Node /\ alias[Ends(mov)[1]] = Ends(mov)[1]
         /\ Ends(mov)[2] \in Node /\ alias[Ends(mov)[2]] = Ends(mov)[2]
BY DEF Ends, ColoringInv, ColoringType, Classes

(* freeze and spill give moves up: nodes change worklist, nothing else does. *)
LEMMA GiveUpMovesInv ==
  ASSUME ColoringInv, phase = "colorize", NEW n \in Node, GiveUpMoves(n),
         loc[n] \in {"freeze", "to_spill"}
  PROVE  ColoringInv'
<1> DEFINE moves == EffectiveMoves(move, mloc, n)
           ml    == [mov \in Node \X Node |-> IF mov \in moves THEN "frozen" ELSE mloc[mov]]
           l     == [loc EXCEPT ![n] = "simplify"]
           freed == {m \in Node : /\ \E mov \in moves : m = alias[mov[2]]
                                  /\ ~MoveRelated(move, ml, m) /\ ~Significant(m)
                                  /\ l[m] = "freeze"}
<1>1. /\ loc' = [m \in Node |-> IF m \in freed THEN "simplify" ELSE l[m]]
      /\ UNCHANGED <<graph0, interfere, alias, colors, spilled, phase>>
  BY DEF GiveUpMoves
<1>2. \A m \in freed : l[m] = "freeze"
  OBVIOUS
<1> HIDE DEF freed
<1>3. Shuffle
  BY <1>1, <1>2 DEF Shuffle, ColoringInv, ColoringType, NodeList
<1> QED BY <1>3, ShuffleInv

(* merge hands the edges of src to dest: the representatives of two values  *)
(* that interfered before still do, since no neighbour of src is dest.      *)
LEMMA MergeKeepsEdges ==
  ASSUME ColoringInv,
         NEW dest \in Node, NEW src \in Node,
         alias[dest] = dest, alias[src] = src, dest # src,
         ~Interferes(dest, src),
         interfere' = Connect(dest, interfere[src]),
         alias' = [n \in Node |-> IF alias[n] = src THEN dest ELSE alias[n]],
         UNCHANGED graph0
  PROVE  /\ interfere' \in [Node -> SUBSET Node] /\ alias' \in [Node -> Node]
         /\ Edges' /\ EdgesKept'
<1> USE DEF ColoringInv, ColoringType
<1>1. dest \notin interfere[src] /\ src \notin interfere[dest]
  BY DEF Interferes, Edges
<1> DEFINE new == {alias[n] : n \in interfere[src]} \ {dest}
<1>2. \A v \in Node : interfere'[v] = IF v = dest THEN interfere[v] \cup new
                                      ELSE IF v \in new THEN interfere[v] \cup {dest}
                                      ELSE interfere[v]
  BY DEF Connect
<1>3. new \subseteq Node /\ dest \notin new
  OBVIOUS
<1>4. \A n \in interfere[src] : alias[n] = n => n \in new
  BY <1>1
<1> HIDE DEF new
<1>5. interfere' \in [Node -> SUBSET Node] /\ alias' \in [Node -> Node]
  BY <1>3 DEF Connect, new
<1>6. Edges'
  <2> DEFINE J == interfere'
  <2>1. /\ \A a \in Node : a \notin interfere[a]
        /\ \A a, b \in Node : b \in interfere[a] => a \in interfere[b]
    BY DEF Edges
  <2>2. \A v \in Node : J[v] = IF v = dest THEN interfere[v] \cup new
                              ELSE IF v \in new THEN interfere[v] \cup {dest}
                              ELSE interfere[v]
    BY <1>2
  <2> HIDE DEF J
  <2>3. /\ \A a \in Node : a \notin J[a]
        /\ \A a, b \in Node : b \in J[a] => a \in J[b]
    <3>1. \A a, b \in Node : b \in J[a] <=> \/ b \in interfere[a]
                                            \/ a = dest /\ b \in new
                                            \/ a \in new /\ b = dest
      <4> TAKE a, b \in Node
      <4>1. CASE a = dest
        BY <1>3, <2>2, <4>1
      <4>2. CASE a # dest /\ a \in new
        BY <2>2, <4>2
      <4>3. CASE a # dest /\ a \notin new
        BY <2>2, <4>3
      <4> QED BY <4>1, <4>2, <4>3
    <3> QED BY <1>3, <2>1, <3>1
  <2> QED BY <2>3 DEF Edges, J
<1>7. EdgesKept'
  <2> SUFFICES ASSUME NEW a \in Node, NEW b \in graph0.interfere[a]
               PROVE  alias'[a] # alias'[b] /\ alias'[b] \in interfere'[alias'[a]]
    BY DEF EdgesKept
  <2>1. b \in Node /\ alias[a] \in Node /\ alias[b] \in Node
    OBVIOUS
  <2>2. /\ alias[a] # alias[b]
        /\ alias[b] \in interfere[alias[a]] /\ alias[a] \in interfere[alias[b]]
    BY <2>1 DEF EdgesKept, Edges
  <2>3. alias[alias[a]] = alias[a] /\ alias[alias[b]] = alias[b]
    BY <2>1 DEF Classes
  <2>4. CASE alias[a] = src
    <3>1. alias'[a] = dest /\ alias'[b] = alias[b]
      BY <2>1, <2>2, <2>4
    <3>2. alias[b] \in new
      BY <1>4, <2>2, <2>3, <2>4
    <3> QED BY <1>2, <1>3, <3>1, <3>2
  <2>5. CASE alias[b] = src
    <3>1. alias'[b] = dest /\ alias'[a] = alias[a]
      BY <2>1, <2>2, <2>5
    <3>2. alias[a] \in new
      BY <1>4, <2>2, <2>3, <2>5
    <3> QED BY <1>2, <1>3, <2>1, <3>1, <3>2
  <2>6. CASE alias[a] # src /\ alias[b] # src
    <3>1. alias'[a] = alias[a] /\ alias'[b] = alias[b]
      BY <2>1, <2>6
    <3> QED BY <1>2, <2>1, <2>2, <3>1
  <2> QED BY <2>4, <2>5, <2>6
<1> QED BY <1>5, <1>6, <1>7

(* merge() joins two classes whose representatives do not interfere. *)
LEMMA CoalesceMergeInv ==
  ASSUME ColoringInv, NEW mov \in Node \X Node, CoalesceMerge(mov)
  PROVE  ColoringInv'
<1> DEFINE dest  == Ends(mov)[1]
           src   == Ends(mov)[2]
           l1    == [loc EXCEPT ![src] = "coalesced"]
           ml1   == [mloc EXCEPT ![mov] = "coalesced"]
           call  == [n \in {src} |-> src]
           st    == HandOverMoves(dest, src, EnableLoc(move, ml1, call),
                                  Enable(Unlink(ready, mloc, mov), move, ml1, call))
           e     == Connect(dest, interfere[src])
           d1    == ConnectDegree(dest, interfere[src])
           ns    == {n \in interfere[src] : l1[n] \notin OutOfGraph}
           d2    == Decremented(d1, l1, ns)
           on    == DecrementEnables(e, d1, l1, ns)
           ml2   == EnableLoc(st.move, st.mloc, on)
           l2    == DecrementLoc(st.move, st.mloc, d1, l1, ns)
           spill == d2[dest] >= K /\ l2[dest] = "freeze"
           l3    == IF spill THEN [l2 EXCEPT ![dest] = "to_spill"] ELSE l2
           free  == Unfreezes(st.move, ml2, d2, l3, dest)
<1> HIDE DEF ml1, call, st, e, d1, d2, on, ml2
<1>1. /\ phase = "colorize" /\ phase' \in {"colorize", "throw"}
      /\ dest # src /\ loc[src] # "precolored" /\ ~Interferes(dest, src)
      /\ interfere' = Connect(dest, interfere[src])
      /\ alias' = [n \in Node |-> IF alias[n] = src THEN dest ELSE alias[n]]
      /\ loc' = IF free THEN [l3 EXCEPT ![dest] = "simplify"] ELSE l3
      /\ UNCHANGED <<graph0, colors, spilled>>
  BY DEF CoalesceMerge, Coalesceable, Due, ml1, call, st, e, d1, d2, on, ml2
<1>2. dest \in Node /\ src \in Node /\ alias[dest] = dest /\ alias[src] = src
  BY EndsAreRoots
<1> HIDE DEF dest, src
<1>3. /\ interfere' \in [Node -> SUBSET Node] /\ alias' \in [Node -> Node]
      /\ Edges' /\ EdgesKept'
  BY <1>1, <1>2, MergeKeepsEdges
<1>4. l1 \in [Node -> NodeList] /\ \A n \in ns : l1[n] \notin OutOfGraph
  BY <1>2 DEF ColoringInv, ColoringType, NodeList
<1> HIDE DEF l1, ns
<1>5. /\ l2 \in [Node -> NodeList]
      /\ \A n \in Node : l2[n] # l1[n] =>
           /\ l1[n] \notin {"precolored", "coalesced", "select_stack"}
           /\ l2[n] \in {"simplify", "freeze"}
  BY <1>4, DecrementMovesNodes
<1>6. free => l3[dest] # "precolored"
  BY DEF Unfreezes
<1> HIDE DEF l2, free
<1>7. /\ loc' \in [Node -> NodeList]
      /\ \A n \in Node : loc'[n] # l1[n] =>
           /\ l1[n] # "precolored" /\ (n = dest \/ l1[n] # "coalesced")
           /\ loc'[n] \in {"simplify", "freeze", "to_spill"}
  BY <1>1, <1>2, <1>5, <1>6 DEF NodeList
<1>8. loc[src] # "coalesced" /\ loc[dest] # "coalesced" /\ l1[dest] # "coalesced"
  BY <1>1, <1>2 DEF ColoringInv, ColoringType, Classes, l1
<1>9. \A n \in Node : loc'[n] = "coalesced" <=> (n = src \/ loc[n] = "coalesced")
  BY <1>1, <1>2, <1>7, <1>8 DEF l1, ColoringInv, ColoringType
<1>10. \A n \in Node : loc'[n] = "precolored" <=> loc[n] = "precolored"
  BY <1>1, <1>2, <1>7, <1>8 DEF l1, ColoringInv, ColoringType
<1>11. Classes'
  <2>1. /\ alias \in [Node -> Node] /\ \A n \in Node : alias[alias[n]] = alias[n]
        /\ \A n \in Node : loc[n] = "coalesced" <=> alias[n] # n
        /\ \A n \in Node : loc[n] = "precolored" <=> n \in Precolored
    BY DEF ColoringInv, ColoringType, Classes
  <2>2. \A n \in Node : alias'[n] = IF alias[n] = src THEN dest ELSE alias[n]
    BY <1>1
  <2>3. \A n \in Node : alias'[alias'[n]] = alias'[n]
    BY <1>1, <1>2, <2>1, <2>2
  <2>4. \A n \in Node : loc'[n] = "coalesced" <=> alias'[n] # n
    BY <1>1, <1>2, <1>9, <2>1, <2>2
  <2>5. \A n \in Node : loc'[n] = "precolored" <=> n \in Precolored
    BY <1>10, <2>1
  <2>6. QED
    BY <2>3, <2>4, <2>5 DEF Classes
<1>12. ColoringType'
  BY <1>1, <1>3, <1>7 DEF ColoringInv, ColoringType, Phase
<1>13. colors' = Pin
  BY <1>1 DEF ColoringInv, Progress
<1>14. Progress'
  <2>1. \A n \in Node : l1[n] \notin {"initial", "colored", "spilled"}
    BY <1>1, <1>2 DEF l1, ColoringInv, ColoringType, Progress
  <2>2. \A n \in Node : loc'[n] \notin {"initial", "colored", "spilled"}
    BY <1>7, <2>1
  <2> QED BY <1>1, <1>13, <2>2 DEF Progress
<1>15. ProperRoots'
  BY <1>3, <1>13, PinAssumption DEF ProperRoots, Edges
<1> QED BY <1>1, <1>3, <1>11, <1>12, <1>14, <1>15 DEF ColoringInv, Shared, Answered

(* A colour given to a node is one that no neighbour's representative has. *)
LEMMA AssignColorInv ==
  ASSUME ColoringInv, NEW n \in Node, AssignColor(n)
  PROVE  ColoringInv'
<1>1. /\ phase = "assign" /\ loc[n] = "select_stack"
      /\ UNCHANGED <<graph0, interfere, alias, spilled, phase>>
  BY DEF AssignColor, IsBack
<1>2. alias[n] = n
  BY <1>1 DEF ColoringInv, Classes
<1>3. Edges' /\ EdgesKept' /\ Shared' /\ Answered'
  BY <1>1 DEF ColoringInv, Edges, EdgesKept, Shared, Answered
<1>4. CASE colors' = colors /\ loc' = [loc EXCEPT ![n] = "spilled"]
  <2>1. ColoringType' /\ Progress'
    BY <1>1, <1>4 DEF ColoringInv, ColoringType, Progress, NodeList
  <2>2. Classes' /\ ProperRoots'
    BY <1>1, <1>4 DEF ColoringInv, ColoringType, Classes, ProperRoots
  <2> QED BY <1>3, <2>1, <2>2 DEF ColoringInv
<1>5. ASSUME NEW best \in BestColors(n),
             colors' = [colors EXCEPT ![n] = best],
             loc' = [loc EXCEPT ![n] = "colored"]
      PROVE  ColoringInv'
  <2>1. best \in Color /\ \A m \in interfere[n] : colors[alias[m]] # best
    BY DEF BestColors, OkColors, Smallest
  <2>2. best # NoColor
    BY <2>1 DEF Color, NoColor
  <2>3. ColoringType' /\ Progress'
    BY <1>1, <1>5, <2>1, <2>2 DEF ColoringInv, ColoringType, Progress, NodeList
  <2>4. Classes'
    BY <1>1, <1>5 DEF ColoringInv, ColoringType, Classes
  <2>5. ProperRoots'
    <3> SUFFICES ASSUME NEW a \in Node, NEW b \in interfere[a],
                        alias[a] = a, alias[b] = b, colors'[a] # NoColor
                 PROVE  colors'[a] # colors'[b]
      BY <1>1 DEF ProperRoots
    <3>1. b \in Node /\ a # b /\ a \in interfere[b]
      BY DEF ColoringInv, ColoringType, Edges
    <3>2. CASE a = n
      BY <1>5, <2>1, <3>1, <3>2 DEF ColoringInv, ColoringType
    <3>3. CASE b = n
      BY <1>5, <2>1, <3>1, <3>3 DEF ColoringInv, ColoringType
    <3>4. CASE a # n /\ b # n
      BY <1>5, <3>1, <3>4 DEF ColoringInv, ColoringType, ProperRoots
    <3> QED BY <3>2, <3>3, <3>4
  <2> QED BY <1>3, <2>3, <2>4, <2>5 DEF ColoringInv
<1> QED BY <1>4, <1>5 DEF AssignColor

(* At the end every value takes the colour of its representative.           *)
LEMMA FinishInv ==
  ASSUME ColoringInv, Finish
  PROVE  ColoringInv'
<1>1. /\ phase = "assign" /\ phase' = "done"
      /\ \A n \in Node : loc[n] # "select_stack"
      /\ UNCHANGED <<graph0, interfere, alias, loc>>
  BY DEF Finish, At
<1>2. /\ colors' = [n \in Node |-> IF loc[n] = "coalesced" THEN colors[alias[n]] ELSE colors[n]]
      /\ spilled' = {n \in At("coalesced") : colors[alias[n]] = NoColor} \cup At("spilled")
  BY DEF Finish
<1>3. \A n \in Node : colors'[n] = colors[alias[n]] /\ colors'[n] \in Color \cup {NoColor}
  BY <1>2 DEF ColoringInv, ColoringType, Classes
<1>4. ColoringType' /\ Classes' /\ Edges' /\ EdgesKept' /\ Progress'
  <2>1. colors' \in [Node -> Color \cup {NoColor}]
    BY <1>2, <1>3
  <2>2. ColoringType' /\ Classes' /\ Edges' /\ EdgesKept'
    BY <1>1, <2>1 DEF ColoringInv, ColoringType, Classes, Edges, EdgesKept, Phase
  <2>3. Progress'
    BY <1>1 DEF ColoringInv, Progress
  <2> QED BY <2>2, <2>3
<1>5. ProperRoots'
  <2>1. \A n \in Node : alias[n] = n => colors'[n] = colors[n]
    BY <1>3
  <2> QED BY <1>1, <2>1 DEF ColoringInv, ColoringType, ProperRoots
<1>6. Shared'
  <2>1. \A n \in Node : alias[n] \in Node /\ alias[alias[n]] = alias[n]
    BY DEF ColoringInv, ColoringType, Classes
  <2> QED BY <1>1, <1>3, <2>1 DEF Shared
<1>7. Answered'
  <2>1. ASSUME NEW n \in Node
        PROVE  n \in spilled' <=> colors'[n] = NoColor
    <3>1. CASE loc[n] = "coalesced"
      BY <1>2, <3>1 DEF At
    <3>2. CASE loc[n] # "coalesced"
      <4>1. colors'[n] = colors[n] /\ (n \in spilled' <=> loc[n] = "spilled")
        BY <1>2, <3>2 DEF At
      <4>2. loc[n] \in {"precolored", "colored", "spilled"}
        BY <1>1, <3>2 DEF ColoringInv, Progress
      <4>3. loc[n] = "precolored" => colors[n] # NoColor
        BY <1>1 DEF ColoringInv, Progress, Classes, Precolored
      <4> QED BY <1>1, <4>1, <4>2, <4>3 DEF ColoringInv, Progress
    <3> QED BY <3>1, <3>2
  <2>2. ASSUME NEW n \in Precolored
        PROVE  colors'[n] = Pin[n]
    <3>1. n \in Node /\ loc[n] = "precolored"
      BY DEF ColoringInv, Classes, Precolored
    <3> QED BY <1>1, <1>2, <3>1 DEF ColoringInv, Progress
  <2> QED BY <2>1, <2>2 DEF Answered
<1> QED BY <1>4, <1>5, <1>6, <1>7 DEF ColoringInv

(* With the worklists empty, colouring starts from the graph as it is. *)
LEMMA SelectInv ==
  ASSUME ColoringInv, Select
  PROVE  ColoringInv'
<1>1. /\ phase = "colorize" /\ phase' = "assign"
      /\ \A n \in Node : loc[n] \notin {"simplify", "freeze", "to_spill"}
      /\ UNCHANGED <<graph0, interfere, alias, loc, colors, spilled>>
  BY DEF Select, At
<1>2. ColoringType' /\ Classes' /\ Edges' /\ EdgesKept' /\ ProperRoots' /\ Shared' /\ Answered'
  BY <1>1 DEF ColoringInv, ColoringType, Classes, Edges, EdgesKept, ProperRoots,
              Shared, Answered, Phase
<1>3. \A n \in Node : loc[n] \in {"precolored", "coalesced", "select_stack"}
  BY <1>1 DEF ColoringInv, ColoringType, Progress, NodeList
<1>4. \A n \in Node : loc[n] = "select_stack" => Pin[n] = NoColor
  BY DEF ColoringInv, Classes, Precolored
<1>5. Progress'
  BY <1>1, <1>3, <1>4 DEF ColoringInv, Progress
<1> QED BY <1>2, <1>5 DEF ColoringInv

(* The invariant says nothing beyond the variables of the allocator. *)
LEMMA StutterInv ==
  ASSUME ColoringInv, UNCHANGED vars
  PROVE  ColoringInv'
BY DEF ColoringInv, ColoringType, Classes, Edges, EdgesKept, Progress, ProperRoots,
       Shared, Answered, At, vars

(* An element of moves.ready. *)
Cell == (Node \X Node) \X {"entry", "stray"}

(* The front of moves.ready is one, of some move. *)
LEMMA FrontCell ==
  ASSUME ready \in Seq(Cell), ready # <<>>
  PROVE  /\ Head(ready)[1] \in Node \X Node
         /\ Head(ready) = Entry(Head(ready)[1]) \/ Head(ready)[2] = "stray"
         /\ 1 \in 1 .. Len(ready) /\ Head(ready) = ready[1]
<1>1. Head(ready) \in Cell /\ Len(ready) \in Nat \ {0} /\ Head(ready) = ready[1]
  BY HeadTailProperties, EmptySeq
<1>2. QED
  BY <1>1 DEF Cell, Entry

(* coalesce() throws without having done anything. *)
LEMMA CoalesceUntrackedInv ==
  ASSUME ColoringInv, NEW mov, CoalesceUntracked(mov)
  PROVE  ColoringInv'
<1>1. /\ phase = "colorize" /\ phase' = "throw"
      /\ UNCHANGED <<graph0, interfere, alias, loc, colors, spilled>>
  BY DEF CoalesceUntracked, Due
<1>2. QED
  BY <1>1 DEF ColoringInv, ColoringType, Classes, Edges, EdgesKept, Progress, ProperRoots,
              Shared, Answered, Phase

(* Every step of colorize() keeps the invariant. *)
LEMMA NextInv ==
  ASSUME ColoringInv, ready \in Seq(Cell), [Next]_vars
  PROVE  ColoringInv'
<1>1. CASE Initialize
  BY <1>1, InitializeInv
<1>2. ASSUME NEW n \in Node, Simplify(n) PROVE ColoringInv'
  BY <1>2, SimplifyInv
<1>3. ASSUME NEW n \in Node, Freeze(n) PROVE ColoringInv'
  BY <1>3, GiveUpMovesInv DEF Freeze, IsFront
<1>4. ASSUME NEW n \in Node, Spill(n) PROVE ColoringInv'
  BY <1>4, GiveUpMovesInv DEF Spill
<1>5. ASSUME NEW n \in Node, AssignColor(n) PROVE ColoringInv'
  BY <1>5, AssignColorInv
<1>6. ASSUME NEW mov \in Node \X Node, Coalesce(mov) PROVE ColoringInv'
  <2> DEFINE x == Ends(mov)[1]
             y == Ends(mov)[2]
  <2>1. x \in Node /\ alias[x] = x /\ y \in Node /\ alias[y] = y
    BY EndsAreRoots
  <2> HIDE DEF x, y
  <2>2. /\ \A n \in Range(<<x>>) : n \in Node /\ alias[n] = n
        /\ \A n \in Range(<<x, y>>) : n \in Node /\ alias[n] = n
        /\ \A n \in Range(<<>>) : n \in Node /\ alias[n] = n
    BY <2>1 DEF Range
  <2>3. CASE CoalesceSame(mov)
    BY <2>2, <2>3, RetireMoveInv DEF CoalesceSame, Coalesceable, Due, x
  <2>4. CASE CoalesceConstrained(mov)
    BY <2>2, <2>4, RetireMoveInv DEF CoalesceConstrained, Coalesceable, Due, x, y
  <2>5. CASE CoalesceSchedule(mov)
    BY <2>2, <2>5, RetireMoveInv DEF CoalesceSchedule, Coalesceable, Due
  <2>6. CASE CoalesceMerge(mov)
    BY <2>6, CoalesceMergeInv
  <2>7. CASE CoalesceUntracked(mov)
    BY <2>7, CoalesceUntrackedInv
  <2> QED BY <1>6, <2>3, <2>4, <2>5, <2>6, <2>7 DEF Coalesce
<1>7. CASE Select
  BY <1>7, SelectInv
<1>8. CASE Finish
  BY <1>8, FinishInv
<1>9. CASE Returned \/ UNCHANGED vars
  BY <1>9, StutterInv DEF Returned
<1>10. ready # <<>> => Head(ready)[1] \in Node \X Node
  BY FrontCell
<1> QED BY <1>1, <1>2, <1>3, <1>4, <1>5, <1>6, <1>7, <1>8, <1>9, <1>10 DEF Next

-----------------------------------------------------------------------------
(* The moves.  The colouring never looks at them, but move_locations.at ends *)
(* the compiler when a move of a representative has no entry.                *)

(* The tables of move_locations. *)
MoveLoc == [Node \X Node -> MoveList \cup {"none"}]

(* The types of the variables that only the coalescing looks at. *)
MoveType ==
  /\ move \in [Node -> SUBSET Node]
  /\ degree \in [Node -> Nat]
  /\ mloc \in MoveLoc
  /\ spilled \subseteq Node

(* The move has an entry in move_locations. *)
Tracked(mov) == mloc[mov] # "none"

(* What merge() keeps of the moves: those of a representative n have an entry *)
(* in both directions, and the partner knows n unless it was merged away,     *)
(* which the moves skipped by the first loop of merge() do not notice.        *)
MoveSets ==
  \A n \in Node : alias[n] = n =>
    /\ n \notin move[n]
    /\ \A m \in move[n] :
         /\ Tracked(<<n, m>>) /\ Tracked(<<m, n>>)
         /\ alias[m] = m => n \in move[m]

(* An entry that merge() left behind still stands for a move between the      *)
(* representatives of its ends, or for none.                                  *)
Entries ==
  \A a, b \in Node : Tracked(<<a, b>>) => alias[a] = alias[b] \/ alias[b] \in move[alias[a]]

(* The inductive invariant of the moves. *)
MovesInv == MoveType /\ MoveSets /\ Entries

(* A size_t is a natural number. *)
LEMMA SizeType ==
  ASSUME NEW a \in Int
  PROVE  a % SizeMod \in Nat
BY SizeModAssumption

(* The number of neighbours is a natural number. *)
LEMMA NeighbourCount ==
  ASSUME NEW S \in SUBSET Node
  PROVE  Cardinality(S) \in Nat
<1>1. 1 \in Int /\ N \in Int
  BY NAssumption
<1>2. IsFiniteSet(Node)
  BY <1>1, FS_Interval DEF Node
<1>3. IsFiniteSet(S)
  BY <1>2, FS_Subset
<1>4. QED
  BY <1>3, FS_CardinalityType

(* decrement_degree keeps a degree a size_t. *)
LEMMA DecrementedType ==
  ASSUME NEW d \in [Node -> Nat], NEW l, NEW ns
  PROVE  Decremented(d, l, ns) \in [Node -> Nat]
<1>1. \A n \in Node : d[n] - 1 \in Int
  OBVIOUS
<1>2. \A n \in Node : (d[n] - 1) % SizeMod \in Nat
  BY <1>1, SizeType
<1>3. QED
  BY <1>2 DEF Decremented

(* enable_moves gives an entry to no move and takes none away. *)
LEMMA EnableTracks ==
  ASSUME NEW mv, NEW ml \in MoveLoc, NEW ns, NEW out, out = EnableLoc(mv, ml, ns)
  PROVE  /\ out \in MoveLoc
         /\ \A mov \in Node \X Node : /\ out[mov] = "none" <=> ml[mov] = "none"
                                      /\ ml[mov] = "ready" => out[mov] = "ready"
BY DEF EnableLoc, Enabled, MoveList, MoveLoc

(* When the copies of the function are entered, each is one in both directions. *)
LEMMA MovesInit == Init => MovesInv
<1> SUFFICES ASSUME NEW edges \in SUBSET Pair, NEW moves \in SUBSET Pair,
                    Constructed(edges, moves)
             PROVE  MovesInv
  BY DEF Init
<1>1. /\ graph0 = [interfere |-> Neighbours(edges), move |-> Neighbours(moves)]
      /\ interfere = graph0.interfere /\ move = graph0.move
      /\ alias = [n \in Node |-> n]
      /\ degree = [n \in Node |-> Cardinality(interfere[n])]
      /\ mloc = [mov \in Node \X Node |-> IF mov[2] \in move[mov[1]] THEN "ready" ELSE "none"]
      /\ spilled = {} /\ phase = "initialize"
  BY DEF Constructed
<1>2. interfere = Neighbours(edges) /\ move = Neighbours(moves)
  BY <1>1
<1>3. \A n \in Node : interfere[n] \in SUBSET Node
  BY <1>2 DEF Neighbours
<1>4. degree \in [Node -> Nat]
  BY <1>1, <1>3, NeighbourCount
<1>5. move \in [Node -> SUBSET Node]
  BY <1>2 DEF Neighbours
<1>6. \A a, b \in Node : /\ b \in move[a] => a \in move[b]
                         /\ mloc[<<a, b>>] = IF b \in move[a] THEN "ready" ELSE "none"
  <2>1. \A a, b \in Node : b \in move[a] => a \in move[b]
    BY <1>2 DEF Neighbours
  <2>2. \A mov \in Node \X Node : mloc[mov] = IF mov[2] \in move[mov[1]] THEN "ready" ELSE "none"
    BY <1>1
  <2>3. QED
    BY <2>1, <2>2
<1>7. \A a \in Node : a \notin move[a]
  <2>1. \A a \in Node : <<a, a>> \notin moves
    BY DEF Pair, Node
  <2>2. QED
    BY <1>2, <2>1 DEF Neighbours
<1>8. MoveType
  BY <1>1, <1>4, <1>5 DEF MoveType, MoveLoc, MoveList
<1>9. MoveSets
  BY <1>5, <1>6, <1>7 DEF MoveSets, Tracked
<1>10. Entries
  BY <1>1, <1>6 DEF Entries, Tracked
<1>11. QED
  BY <1>1, <1>8, <1>9, <1>10 DEF MovesInv

(* A step that relocates moves and merges nothing. *)
Relocation ==
  /\ degree' \in [Node -> Nat]
  /\ spilled' \subseteq Node
  /\ mloc' \in MoveLoc
  /\ \A mov \in Node \X Node : mloc'[mov] = "none" <=> mloc[mov] = "none"
  /\ UNCHANGED <<alias, move>>

(* A move that changes lists is still the same move. *)
LEMMA RelocationInv ==
  ASSUME MovesInv, Relocation, alias \in [Node -> Node]
  PROVE  MovesInv'
<1>1. MoveType'
  BY DEF MovesInv, MoveType, Relocation
<1>2. \A a, b \in Node : Tracked(<<a, b>>)' <=> Tracked(<<a, b>>)
  BY DEF Relocation, Tracked
<1>3. MoveSets'
  <2>1. \A n \in Node : move[n] \subseteq Node
    BY DEF MovesInv, MoveType
  <2>2. UNCHANGED <<alias, move>>
    BY DEF Relocation
  <2>3. QED
    BY <1>2, <2>1, <2>2 DEF MovesInv, MoveSets
<1>4. Entries'
  <2>2. UNCHANGED <<alias, move>>
    BY DEF Relocation
  <2>3. QED
    BY <1>2, <2>2 DEF MovesInv, Entries
<1>5. QED
  BY <1>1, <1>3, <1>4 DEF MovesInv, Relocation

(* The first loop of merge, from its state base. *)
HandedOver(dest, src, base) ==
  FoldLeft(LAMBDA acc, m : HandOver(acc, dest, src, m), base, Values)

(* The loop, value by value: h[k] is its state after k. *)
LEMMA HandOverFolds ==
  ASSUME NEW dest, NEW src, NEW base
  PROVE  \E h : /\ h[0] = base
                /\ \A k \in Node : h[k] = HandOver(h[k - 1], dest, src, k)
                /\ HandedOver(dest, src, base) = h[N]
<1> DEFINE Hand(m, acc) == HandOver(acc, dest, src, m)
           Steps(iter, n) == \A s \in SUBSET (1 .. n) :
             iter[s] = IF s = {} THEN base ELSE Hand(Max(s), iter[s \ {Max(s)}])
           Step(iter) == [s \in SUBSET (DOMAIN Values) |->
             IF s = {} THEN base ELSE HandOver(iter[s \ {Max(s)}], dest, src, Values[Max(s)])]
           fold == CHOOSE iter : iter = Step(iter)
<1>1. HandedOver(dest, src, base) = fold[DOMAIN Values]
  BY DEF HandedOver, FoldLeft, MapThenFoldSet
<1>2. N \in Nat /\ DOMAIN Values = 1 .. N /\ \A i \in 1 .. N : Values[i] = i
  BY NAssumption DEF Values, Node
<1> HIDE DEF Hand
<1> DEFINE S == {m \in 0 .. N : \E iter : Steps(iter, m)}
<1>3. 0 \in S
  <2>1. PICK iter : iter = [s \in SUBSET (1 .. 0) |-> base]
    OBVIOUS
  <2>2. \A s \in SUBSET (1 .. 0) : s = {}
    OBVIOUS
  <2>3. Steps(iter, 0)
    BY <2>1, <2>2
  <2> HIDE DEF Steps
  <2>4. 0 \in 0 .. N
    BY <1>2
  <2>5. QED
    BY <2>3, <2>4, Zenon
<1>4. ASSUME NEW m \in 0 .. N - 1, m \in S PROVE m + 1 \in S
  <2>1. PICK iter : Steps(iter, m)
    BY <1>4
  <2>2. PICK next : next = [s \in SUBSET (1 .. m + 1) |->
                              IF m + 1 \in s THEN Hand(m + 1, iter[s \ {m + 1}]) ELSE iter[s]]
    OBVIOUS
  <2>3. m \in Nat /\ m + 1 \in Nat /\ m + 1 \in 1 .. N /\ m + 1 \in 0 .. N
    BY <1>2
  <2>4. ASSUME NEW s \in SUBSET (1 .. m + 1)
        PROVE  s \ {m + 1} \in SUBSET (1 .. m) /\ (m + 1 \notin s => s \in SUBSET (1 .. m))
    BY <2>3
  <2>5. \A s \in SUBSET (1 .. m) : s \in SUBSET (1 .. m + 1) /\ m + 1 \notin s /\ next[s] = iter[s]
    <3> TAKE s \in SUBSET (1 .. m)
    <3>1. s \in SUBSET (1 .. m + 1) /\ m + 1 \notin s
      BY <2>3
    <3>2. QED
      BY <2>2, <3>1
  <2>6. ASSUME NEW s \in SUBSET (1 .. m + 1)
        PROVE  next[s] = IF s = {} THEN base ELSE Hand(Max(s), next[s \ {Max(s)}])
    <3>1. CASE s = {}
      <4>1. s \in SUBSET (1 .. m)
        BY <3>1
      <4>2. next[s] = iter[s] /\ iter[s] = base
        BY <2>1, <2>5, <3>1, <4>1
      <4>3. QED
        BY <3>1, <4>2
    <3>2. CASE s # {} /\ m + 1 \notin s
      <4>1. s \in SUBSET (1 .. m)
        BY <2>4, <3>2
      <4>2. s \ {Max(s)} \in SUBSET (1 .. m)
        BY <4>1
      <4>3. iter[s] = Hand(Max(s), iter[s \ {Max(s)}])
        BY <2>1, <3>2, <4>1
      <4>4. QED
        BY <2>5, <3>2, <4>1, <4>2, <4>3
    <3>3. CASE m + 1 \in s
      <4>1. Max(s) \in s /\ \A k \in s : k <= Max(s)
        BY <2>3, <3>3, MaxOf
      <4>2. Max(s) = m + 1
        <5> DEFINE x == Max(s)
        <5> HIDE DEF x
        <5>1. x \in 1 .. m + 1 /\ m + 1 <= x
          BY <3>3, <4>1 DEF x
        <5>2. x = m + 1
          BY <5>1
        <5>3. QED
          BY <5>2 DEF x
      <4>3. s \ {m + 1} \in SUBSET (1 .. m)
        BY <2>4
      <4>4. next[s] = Hand(m + 1, iter[s \ {m + 1}])
        BY <2>2, <3>3
      <4>5. next[s \ {m + 1}] = iter[s \ {m + 1}]
        BY <2>5, <4>3
      <4>6. QED
        BY <3>3, <4>2, <4>4, <4>5
    <3>4. QED
      BY <3>1, <3>2, <3>3
  <2>7. Steps(next, m + 1)
    BY <2>6
  <2>8. QED
    BY <2>3, <2>7
<1>5. 0 .. N \subseteq S
  <2> HIDE DEF S
  <2> QED BY <1>2, <1>3, <1>4, InductionUpTo
<1>6. PICK iter0 : Steps(iter0, N)
  <2> HIDE DEF Steps
  <2>1. N \in S
    <3> HIDE DEF S
    <3> QED BY <1>2, <1>5
  <2>2. QED
    BY <2>1, Zenon
<1>7. PICK iter : iter = [s \in SUBSET (1 .. N) |-> iter0[s]]
  OBVIOUS
<1>8. ASSUME NEW s \in SUBSET (1 .. N)
      PROVE  iter[s] = IF s = {} THEN base
                       ELSE HandOver(iter[s \ {Max(s)}], dest, src, Values[Max(s)])
  <2>1. CASE s = {}
    BY <1>6, <1>7, <2>1
  <2>2. CASE s # {}
    <3>1. Max(s) \in 1 .. N
      BY <1>2, <2>2, MaxOf
    <3>2. iter0[s] = Hand(Max(s), iter0[s \ {Max(s)}])
      BY <1>6, <2>2
    <3>3. s \ {Max(s)} \in SUBSET (1 .. N)
      OBVIOUS
    <3>4. iter[s] = iter0[s] /\ iter[s \ {Max(s)}] = iter0[s \ {Max(s)}]
      BY <1>7, <3>3
    <3>5. Values[Max(s)] = Max(s)
      BY <1>2, <3>1
    <3>6. QED
      BY <2>2, <3>2, <3>4, <3>5 DEF Hand
  <2>3. QED
    BY <2>1, <2>2
<1>9. iter = Step(iter)
  BY <1>2, <1>7, <1>8
<1>10. fold = Step(fold)
  <2> HIDE DEF Step
  <2> QED BY <1>9
<1>11. \A s \in SUBSET (1 .. N) :
         fold[s] = IF s = {} THEN base
                   ELSE HandOver(fold[s \ {Max(s)}], dest, src, Values[Max(s)])
  <2> HIDE DEF fold
  <2> QED BY <1>2, <1>10
<1> HIDE DEF fold
<1>12. PICK h : h = [k \in 0 .. N |-> fold[1 .. k]]
  OBVIOUS
<1>13. h[0] = base
  <2>1. 1 .. 0 = {} /\ {} \in SUBSET (1 .. N)
    OBVIOUS
  <2>2. fold[{}] = base
    BY <1>11, <2>1
  <2>3. QED
    BY <1>2, <1>12, <2>1, <2>2
<1>14. ASSUME NEW k \in Node PROVE h[k] = HandOver(h[k - 1], dest, src, k)
  <2>1. k \in 1 .. N /\ k \in Nat /\ k \in 0 .. N /\ k - 1 \in 0 .. N /\ k \in 1 .. k
    BY <1>2 DEF Node
  <2>2. 1 .. k \in SUBSET (1 .. N) /\ 1 .. k # {}
    BY <1>2, <2>1
  <2>3. Max(1 .. k) \in 1 .. k /\ \A j \in 1 .. k : j <= Max(1 .. k)
    BY <2>1, <2>2, MaxOf
  <2>4. Max(1 .. k) = k
    <3> DEFINE x == Max(1 .. k)
    <3> HIDE DEF x
    <3>1. x \in 1 .. k /\ k <= x
      BY <2>1, <2>3 DEF x
    <3>2. x = k
      BY <2>1, <3>1
    <3>3. QED
      BY <3>2 DEF x
  <2>5. (1 .. k) \ {k} = 1 .. k - 1
    BY <2>1
  <2>6. fold[1 .. k] = HandOver(fold[1 .. k - 1], dest, src, k)
    BY <1>2, <1>11, <2>1, <2>2, <2>4, <2>5
  <2>7. QED
    BY <1>12, <2>1, <2>6
<1>15. fold[DOMAIN Values] = h[N]
  BY <1>2, <1>12
<1>16. QED
  BY <1>1, <1>13, <1>14, <1>15

(* What one turn of the loop that is not skipped leaves: the entries of the  *)
(* move and of its reverse go to dest, or away when dest is the partner.     *)
Turned(dest, src, m, mv, ml, result) ==
  \E out, next :
    /\ result = [move |-> [mv EXCEPT ![alias[m]] = (@ \ {src}) \cup ({dest} \ {m})],
                 mloc |-> out, ready |-> next, ok |-> TRUE]
    /\ out \in MoveLoc
    /\ out[<<src, m>>] = "none" /\ out[<<m, src>>] = "none"
    /\ m # dest => out[<<dest, m>>] # "none" /\ out[<<m, dest>>] # "none"
    /\ \A p \in (Node \X Node) \ {<<src, m>>, <<m, src>>} :
         m = dest \/ p \notin {<<dest, m>>, <<m, dest>>} => out[p] = ml[p]

(* The turn leaves that. *)
LEMMA HandOverTurn ==
  ASSUME NEW dest \in Node, NEW src \in Node, dest # src,
         NEW m \in Node, m # src, alias[m] \in Node,
         NEW mv \in [Node -> SUBSET Node], NEW ml \in MoveLoc, NEW rd, NEW st,
         st = [move |-> mv, mloc |-> ml, ready |-> rd, ok |-> TRUE],
         m \in mv[src], m \notin mv[dest],
         ml[<<src, m>>] # "none", ml[<<m, src>>] # "none"
  PROVE  Turned(dest, src, m, mv, ml, HandOver(st, dest, src, m))
<1> DEFINE mv2 == [mv EXCEPT ![alias[m]] = (@ \ {src}) \cup ({dest} \ {m})]
           st2 == [st EXCEPT !.move[alias[m]] = (@ \ {src}) \cup ({dest} \ {m})]
<1>1. st2 = [move |-> mv2, mloc |-> ml, ready |-> rd, ok |-> TRUE]
  <2>1. st.move = mv /\ st2 = [st EXCEPT !.move = mv2]
    OBVIOUS
  <2> HIDE DEF mv2, st2
  <2>2. QED
    BY <2>1
<1>2. st.move[src] = mv[src] /\ st.move[dest] = mv[dest]
  OBVIOUS
<1>3. HandOver(st, dest, src, m) =
        IF m = dest THEN Drop(Drop(st2, <<src, m>>), <<m, src>>)
        ELSE Replace(Replace(st2, <<src, m>>, <<dest, m>>), <<m, src>>, <<m, dest>>)
  BY <1>2 DEF HandOver
<1> HIDE DEF mv2, st2
<1>4. CASE m = dest
  <2> DEFINE o1 == [ml EXCEPT ![<<src, m>>] = "none"]
             n1 == Unlink(rd, ml, <<src, m>>)
             s1 == [move |-> mv2, mloc |-> o1, ready |-> n1, ok |-> TRUE]
             o2 == [o1 EXCEPT ![<<m, src>>] = "none"]
             n2 == Unlink(n1, o1, <<m, src>>)
             s2 == [move |-> mv2, mloc |-> o2, ready |-> n2, ok |-> TRUE]
  <2>1. Drop(st2, <<src, m>>) = s1
    <3> HIDE DEF n1
    <3>1. Drop(st2, <<src, m>>) = [st2 EXCEPT !.mloc[<<src, m>>] = "none",
                                             !.ready = n1,
                                             !.ok = @ /\ st2.mloc[<<src, m>>] # "none"]
      BY <1>1 DEF Drop, n1
    <3>2. QED
      BY <1>1, <3>1
  <2>2. o1[<<m, src>>] = ml[<<m, src>>] /\ o1 \in MoveLoc
    BY DEF MoveLoc, MoveList
  <2>3. Drop(s1, <<m, src>>) = s2
    <3> HIDE DEF n1, n2, o1
    <3>1. Drop(s1, <<m, src>>) = [s1 EXCEPT !.mloc[<<m, src>>] = "none",
                                             !.ready = n2,
                                             !.ok = @ /\ s1.mloc[<<m, src>>] # "none"]
      BY DEF Drop, n2
    <3>2. QED
      BY <2>2, <3>1
  <2>4. HandOver(st, dest, src, m) = s2
    BY <1>3, <1>4, <2>1, <2>3
  <2>5. /\ o2 \in MoveLoc /\ o2[<<src, m>>] = "none" /\ o2[<<m, src>>] = "none"
        /\ \A p \in (Node \X Node) \ {<<src, m>>, <<m, src>>} :
             m = dest \/ p \notin {<<dest, m>>, <<m, dest>>} => o2[p] = ml[p]
    BY DEF MoveLoc, MoveList
  <2> HIDE DEF o1, o2, n1, n2
  <2>6. QED
    BY <1>4, <2>4, <2>5 DEF mv2, Turned
<1>5. CASE m # dest
  <2> DEFINE o1 == [ml EXCEPT ![<<dest, m>>] = ml[<<src, m>>], ![<<src, m>>] = "none"]
             n1 == LET left == Unlink(Orphan(rd, <<dest, m>>), ml, <<src, m>>)
                   IN  IF ml[<<src, m>>] = "ready" THEN Append(left, Entry(<<dest, m>>)) ELSE left
             s1 == [move |-> mv2, mloc |-> o1, ready |-> n1, ok |-> TRUE]
             o2 == [o1 EXCEPT ![<<m, dest>>] = o1[<<m, src>>], ![<<m, src>>] = "none"]
             n2 == LET left == Unlink(Orphan(n1, <<m, dest>>), o1, <<m, src>>)
                   IN  IF o1[<<m, src>>] = "ready" THEN Append(left, Entry(<<m, dest>>)) ELSE left
             s2 == [move |-> mv2, mloc |-> o2, ready |-> n2, ok |-> TRUE]
  <2>1. Replace(st2, <<src, m>>, <<dest, m>>) = s1
    <3> HIDE DEF n1
    <3>1. Replace(st2, <<src, m>>, <<dest, m>>) =
            [st2 EXCEPT !.mloc[<<dest, m>>] = st2.mloc[<<src, m>>],
                        !.mloc[<<src, m>>] = "none",
                        !.ready = n1,
                        !.ok = @ /\ st2.mloc[<<src, m>>] # "none"]
      BY <1>1 DEF Replace, n1
    <3>2. QED
      BY <1>1, <3>1
  <2>2. o1[<<m, src>>] = ml[<<m, src>>] /\ o1 \in MoveLoc
    BY <1>5 DEF MoveLoc, MoveList
  <2>3. Replace(s1, <<m, src>>, <<m, dest>>) = s2
    <3> HIDE DEF n1, n2, o1
    <3>1. Replace(s1, <<m, src>>, <<m, dest>>) =
            [s1 EXCEPT !.mloc[<<m, dest>>] = s1.mloc[<<m, src>>],
                       !.mloc[<<m, src>>] = "none",
                       !.ready = n2,
                       !.ok = @ /\ s1.mloc[<<m, src>>] # "none"]
      BY DEF Replace, n2
    <3>2. QED
      BY <2>2, <3>1
  <2>4. HandOver(st, dest, src, m) = s2
    BY <1>3, <1>5, <2>1, <2>3
  <2>5. /\ o2 \in MoveLoc /\ o2[<<src, m>>] = "none" /\ o2[<<m, src>>] = "none"
        /\ o2[<<dest, m>>] # "none" /\ o2[<<m, dest>>] # "none"
        /\ \A p \in (Node \X Node) \ {<<src, m>>, <<m, src>>} :
             m = dest \/ p \notin {<<dest, m>>, <<m, dest>>} => o2[p] = ml[p]
    BY <1>5 DEF MoveLoc, MoveList
  <2> HIDE DEF o1, o2, n1, n2
  <2>6. QED
    BY <2>4, <2>5 DEF mv2, Turned
<1>6. QED
  BY <1>4, <1>5

(* The first loop of merge after the values up to k: the moves of src are    *)
(* those it had, a partner that was reached knows dest in place of src and   *)
(* has its entries, and those not reached yet still have theirs.             *)
Handed(dest, src, ml, k, st) ==
  /\ st = [move |-> st.move, mloc |-> st.mloc, ready |-> st.ready, ok |-> TRUE]
  /\ st.move \in [Node -> SUBSET Node] /\ st.mloc \in MoveLoc
  /\ st.move[src] = move[src]
  /\ \A q \in Node : q \notin {src, dest} => (q \in st.move[dest] <=> q \in move[dest])
  /\ \A q \in Node : q \notin {src, dest} =>
       \/ st.move[q] = move[q]
       \/ q \in move[src] /\ st.move[q] = (move[q] \ {src}) \cup {dest}
  /\ \A q \in move[src] : q <= k /\ q # dest /\ q \notin move[dest] =>
       /\ st.mloc[<<dest, q>>] # "none" /\ st.mloc[<<q, dest>>] # "none"
       /\ alias[q] = q => st.move[q] = (move[q] \ {src}) \cup {dest}
  /\ \A q \in Node : q > k \/ q \notin move[src] \/ q \in move[dest] =>
       /\ st.mloc[<<src, q>>] = ml[<<src, q>>]
       /\ st.mloc[<<q, src>>] = ml[<<q, src>>]
  /\ \A a, b \in Node \ {src} :
       /\ ml[<<a, b>>] # "none" => st.mloc[<<a, b>>] # "none"
       /\ st.mloc[<<a, b>>] = ml[<<a, b>>]
          \/ (a = dest /\ b \in move[src]) \/ (b = dest /\ a \in move[src])
  /\ \A q \in Node : /\ st.mloc[<<src, q>>] # "none" => ml[<<src, q>>] # "none"
                     /\ st.mloc[<<q, src>>] # "none" => ml[<<q, src>>] # "none"

(* Two representatives with a move between them, under the locations ml. *)
Merging(dest, src, ml) ==
  /\ dest \in Node /\ src \in Node /\ dest # src
  /\ alias[dest] = dest /\ alias[src] = src
  /\ dest \in move[src]
  /\ ml \in MoveLoc
  /\ \A mov \in Node \X Node : ml[mov] = "none" <=> mloc[mov] = "none"

(* One turn of the first loop of merge() hands over the move with k. *)
LEMMA HandedTurn ==
  ASSUME MovesInv, alias \in [Node -> Node], NEW dest, NEW src, NEW ml, Merging(dest, src, ml),
         NEW k \in Node, NEW st, Handed(dest, src, ml, k - 1, st)
  PROVE  Handed(dest, src, ml, k, HandOver(st, dest, src, k))
<1>1. k \in Nat /\ k - 1 \in Nat /\ \A q \in Node : q \in Nat /\ (q <= k <=> q <= k - 1 \/ q = k)
      /\ (q > k - 1 <=> q > k \/ q = k)
  BY NAssumption DEF Node
<1>2. /\ move \in [Node -> SUBSET Node] /\ src \notin move[src] /\ dest \notin move[dest]
      /\ \A q \in move[src] : mloc[<<src, q>>] # "none" /\ mloc[<<q, src>>] # "none"
                              /\ (alias[q] = src \/ alias[q] \in move[src])
  <2>1. /\ move \in [Node -> SUBSET Node] /\ src \notin move[src] /\ dest \notin move[dest]
        /\ \A q \in move[src] : mloc[<<src, q>>] # "none" /\ mloc[<<q, src>>] # "none"
    BY DEF MovesInv, MoveType, MoveSets, Merging, Tracked
  <2>2. ASSUME NEW q \in move[src] PROVE alias[q] = src \/ alias[q] \in move[src]
    BY <2>1 DEF MovesInv, Entries, Tracked, Merging
  <2>3. QED
    BY <2>1, <2>2
<1>3. CASE k \notin st.move[src] \/ k \in st.move[dest]
  <2>1. HandOver(st, dest, src, k) = st
    BY <1>3 DEF HandOver
  <2>2. k \in move[src] => k = dest \/ k \in move[dest]
    BY <1>2, <1>3 DEF Handed, Merging
  <2>3. \A q \in move[src] : q \in Node
    BY <1>2 DEF Merging
  <2>4. \A q \in move[src] : q <= k /\ q # dest /\ q \notin move[dest] => q <= k - 1
    BY <1>1, <2>2, <2>3
  <2>5. \A q \in Node : q > k => q > k - 1
    BY <1>1
  <2>6. Handed(dest, src, ml, k, st)
    BY <2>4, <2>5 DEF Handed
  <2>7. QED
    BY <2>1, <2>6
<1>4. CASE k \in st.move[src] /\ k \notin st.move[dest]
  <2> DEFINE mv == st.move
             lc == st.mloc
  <2>1. /\ dest \in Node /\ src \in Node /\ dest # src /\ k \in Node
        /\ alias[k] \in Node /\ mv \in [Node -> SUBSET Node] /\ lc \in MoveLoc
        /\ st = [move |-> mv, mloc |-> lc, ready |-> st.ready, ok |-> TRUE]
        /\ k \in mv[src] /\ k \notin mv[dest]
    BY <1>4 DEF Handed, Merging
  <2>2. k \in move[src] /\ k # src /\ (k = dest \/ k \notin move[dest])
    BY <1>2, <1>4 DEF Handed
  <2>3. lc[<<src, k>>] # "none" /\ lc[<<k, src>>] # "none"
    BY <1>1, <1>2, <2>1, <2>2 DEF Handed, Merging
  <2> HIDE DEF mv, lc
  <2>4. PICK out, next :
           /\ HandOver(st, dest, src, k) =
                [move |-> [mv EXCEPT ![alias[k]] = (@ \ {src}) \cup ({dest} \ {k})],
                 mloc |-> out, ready |-> next, ok |-> TRUE]
           /\ out \in MoveLoc
           /\ out[<<src, k>>] = "none" /\ out[<<k, src>>] = "none"
           /\ k # dest => out[<<dest, k>>] # "none" /\ out[<<k, dest>>] # "none"
           /\ \A p \in (Node \X Node) \ {<<src, k>>, <<k, src>>} :
                k = dest \/ p \notin {<<dest, k>>, <<k, dest>>} => out[p] = lc[p]
    <3>1. Turned(dest, src, k, mv, lc, HandOver(st, dest, src, k))
      BY <2>1, <2>2, <2>3, HandOverTurn
    <3>2. QED
      BY <3>1 DEF Turned
  <2> DEFINE mv2 == [mv EXCEPT ![alias[k]] = (@ \ {src}) \cup ({dest} \ {k})]
             st2 == HandOver(st, dest, src, k)
  <2>5. st2.move = mv2 /\ st2.mloc = out
        /\ st2 = [move |-> st2.move, mloc |-> st2.mloc, ready |-> st2.ready, ok |-> TRUE]
    BY <2>4
  <2>6. mv2 \in [Node -> SUBSET Node]
    BY <2>1
  <2>7. \A q \in Node : mv2[q] = IF q = alias[k] THEN (mv[q] \ {src}) \cup ({dest} \ {k}) ELSE mv[q]
    BY <2>1
  <2> HIDE DEF mv2, st2
  <2>8. mv2[src] = move[src]
    <3>1. mv[src] = move[src]
      BY DEF Handed, mv
    <3>2. CASE alias[k] # src
      BY <2>1, <2>7, <3>1, <3>2
    <3>3. CASE alias[k] = src
      <4>1. k # dest /\ mv2[src] = (move[src] \ {src}) \cup {dest}
        BY <2>1, <2>7, <3>1, <3>3 DEF Merging
      <4>2. QED
        BY <1>2, <4>1 DEF Merging
    <3>4. QED
      BY <3>2, <3>3
  <2>9. \A q \in Node : q \notin {src, dest} => (q \in mv2[dest] <=> q \in move[dest])
    <3>1. \A q \in Node : q \notin {src, dest} => (q \in mv[dest] <=> q \in move[dest])
      BY DEF Handed, mv
    <3>2. mv2[dest] = mv[dest] \/ mv2[dest] = (mv[dest] \ {src}) \cup ({dest} \ {k})
      BY <2>1, <2>7
    <3>3. QED
      BY <3>1, <3>2
  <2>10. ASSUME NEW q \in Node, q \notin {src, dest}
         PROVE  /\ \/ mv2[q] = move[q]
                   \/ q \in move[src] /\ mv2[q] = (move[q] \ {src}) \cup {dest}
                /\ mv[q] = (move[q] \ {src}) \cup {dest} => mv2[q] = (move[q] \ {src}) \cup {dest}
                /\ q = alias[k] => mv2[q] = (move[q] \ {src}) \cup {dest}
    <3>1. \/ mv[q] = move[q]
          \/ q \in move[src] /\ mv[q] = (move[q] \ {src}) \cup {dest}
      BY <2>10 DEF Handed, mv
    <3>2. CASE q # alias[k]
      BY <2>7, <3>1, <3>2
    <3>3. CASE q = alias[k]
      <4>1. q \in move[src] /\ k # dest
        BY <1>2, <2>2, <2>10, <3>3 DEF Merging
      <4>2. mv2[q] = (mv[q] \ {src}) \cup {dest}
        BY <2>7, <3>3, <4>1
      <4>3. mv2[q] = (move[q] \ {src}) \cup {dest}
        BY <3>1, <4>2, <2>1
      <4>4. QED
        BY <4>1, <4>3
    <3>4. QED
      BY <3>2, <3>3
  <2>11. ASSUME NEW q \in move[src], q <= k, q # dest, q \notin move[dest]
         PROVE  /\ out[<<dest, q>>] # "none" /\ out[<<q, dest>>] # "none"
                /\ alias[q] = q => mv2[q] = (move[q] \ {src}) \cup {dest}
    <3>1. q \in Node /\ q # src
      BY <1>2, <2>1
    <3>2. CASE q = k
      BY <2>2, <2>4, <2>10, <2>11, <3>1, <3>2
    <3>3. CASE q # k
      <4>1. /\ lc[<<dest, q>>] # "none" /\ lc[<<q, dest>>] # "none"
            /\ alias[q] = q => mv[q] = (move[q] \ {src}) \cup {dest}
        BY <1>1, <2>11, <3>1, <3>3 DEF Handed, mv, lc
      <4>2. /\ <<dest, q>> \notin {<<src, k>>, <<k, src>>, <<dest, k>>}
            /\ <<q, dest>> \notin {<<src, k>>, <<k, src>>, <<k, dest>>}
        BY <2>1, <3>1, <3>3
      <4>3. /\ out[<<dest, q>>] # "none" /\ out[<<q, dest>>] # "none"
        BY <2>1, <2>4, <2>11, <3>1, <4>1, <4>2
      <4>4. QED
        BY <2>10, <2>11, <3>1, <4>1, <4>3
    <3>4. QED
      BY <3>2, <3>3
  <2>12. ASSUME NEW q \in Node, q > k \/ q \notin move[src] \/ q \in move[dest]
         PROVE  out[<<src, q>>] = ml[<<src, q>>] /\ out[<<q, src>>] = ml[<<q, src>>]
    <3>1. lc[<<src, q>>] = ml[<<src, q>>] /\ lc[<<q, src>>] = ml[<<q, src>>]
      BY <1>1, <2>12 DEF Handed, lc
    <3>2. q # k
      BY <1>1, <1>2, <2>2, <2>12
    <3>3. <<src, q>> \notin {<<src, k>>, <<k, src>>, <<dest, k>>, <<k, dest>>}
          /\ <<q, src>> \notin {<<src, k>>, <<k, src>>, <<dest, k>>, <<k, dest>>}
      BY <2>1, <2>2, <3>2
    <3>4. QED
      BY <2>1, <2>4, <3>1, <3>3
  <2>13. ASSUME NEW a \in Node \ {src}, NEW b \in Node \ {src}
         PROVE  /\ ml[<<a, b>>] # "none" => out[<<a, b>>] # "none"
                /\ out[<<a, b>>] = ml[<<a, b>>]
                   \/ (a = dest /\ b \in move[src]) \/ (b = dest /\ a \in move[src])
    <3>1. /\ ml[<<a, b>>] # "none" => lc[<<a, b>>] # "none"
          /\ lc[<<a, b>>] = ml[<<a, b>>]
             \/ (a = dest /\ b \in move[src]) \/ (b = dest /\ a \in move[src])
      BY DEF Handed, lc
    <3>2. CASE <<a, b>> \in {<<dest, k>>, <<k, dest>>}
      <4>1. CASE k # dest
        BY <2>2, <2>4, <3>2, <4>1
      <4>2. CASE k = dest
        <5>1. a = dest /\ b = dest /\ b \in move[src]
          BY <2>2, <3>2, <4>2
        <5>2. <<dest, dest>> \notin {<<src, k>>, <<k, src>>}
          BY <2>1
        <5>3. QED
          BY <2>1, <2>4, <3>1, <4>2, <5>1, <5>2
      <4>3. QED
        BY <4>1, <4>2
    <3>3. CASE <<a, b>> \notin {<<dest, k>>, <<k, dest>>}
      <4>1. <<a, b>> \notin {<<src, k>>, <<k, src>>} /\ <<a, b>> \in Node \X Node
        OBVIOUS
      <4>2. out[<<a, b>>] = lc[<<a, b>>]
        BY <2>4, <3>3, <4>1
      <4>3. QED
        BY <3>1, <4>2
    <3>4. QED
      BY <3>2, <3>3
  <2>14. ASSUME NEW q \in Node
         PROVE  /\ out[<<src, q>>] # "none" => ml[<<src, q>>] # "none"
                /\ out[<<q, src>>] # "none" => ml[<<q, src>>] # "none"
    <3>1. /\ lc[<<src, q>>] # "none" => ml[<<src, q>>] # "none"
          /\ lc[<<q, src>>] # "none" => ml[<<q, src>>] # "none"
      BY DEF Handed, lc
    <3>2. CASE q = k
      BY <2>4, <3>2
    <3>3. CASE q # k
      <4>1. <<src, q>> \notin {<<src, k>>, <<k, src>>, <<dest, k>>, <<k, dest>>}
            /\ <<q, src>> \notin {<<src, k>>, <<k, src>>, <<dest, k>>, <<k, dest>>}
        BY <2>1, <2>2, <3>3
      <4>2. QED
        BY <2>1, <2>4, <3>1, <4>1
    <3>4. QED
      BY <3>2, <3>3
  <2>15. Handed(dest, src, ml, k, st2)
    BY <2>4, <2>5, <2>6, <2>8, <2>9, <2>10, <2>11, <2>12, <2>13, <2>14 DEF Handed
  <2>16. QED
    BY <2>15 DEF st2
<1>5. QED
  BY <1>3, <1>4

(* What HandOverMoves leaves: the loop is over and dest has its moves and    *)
(* those of src.                                                             *)
MergedMoves(dest, src, ml, st) ==
  \E last :
    /\ Handed(dest, src, ml, N, last)
    /\ st.ok = TRUE /\ st.mloc = last.mloc
    /\ st.move = [last.move EXCEPT ![dest] = (move[dest] \cup move[src]) \ {dest, src}]

(* It leaves that, and no lookup fails. *)
LEMMA HandOverEnds ==
  ASSUME MovesInv, alias \in [Node -> Node], NEW dest, NEW src, NEW ml, NEW rd,
         Merging(dest, src, ml), NEW st, st = HandOverMoves(dest, src, ml, rd)
  PROVE  MergedMoves(dest, src, ml, st)
<1> DEFINE base == [move |-> move, mloc |-> ml, ready |-> rd, ok |-> TRUE]
<1>1. PICK h : /\ h[0] = base
               /\ \A k \in Node : h[k] = HandOver(h[k - 1], dest, src, k)
               /\ HandedOver(dest, src, base) = h[N]
  <2> HIDE DEF base
  <2>1. QED
    BY HandOverFolds
<1>2. N \in Nat /\ Node = 1 .. N
  BY NAssumption DEF Node
<1> DEFINE S == {k \in 0 .. N : Handed(dest, src, ml, k, h[k])}
<1>3. 0 \in S
  <2>1. move \in [Node -> SUBSET Node] /\ ml \in MoveLoc
    BY DEF MovesInv, MoveType, Merging
  <2>2. \A q \in move[src] : ~(q <= 0)
    BY <1>2, <2>1 DEF Merging
  <2>3. h[0].move = move /\ h[0].mloc = ml
        /\ h[0] = [move |-> h[0].move, mloc |-> h[0].mloc, ready |-> h[0].ready, ok |-> TRUE]
    BY <1>1
  <2>4. Handed(dest, src, ml, 0, h[0])
    BY <2>1, <2>2, <2>3 DEF Handed
  <2>5. QED
    BY <1>2, <2>4
<1>4. ASSUME NEW k \in 0 .. N - 1, k \in S PROVE k + 1 \in S
  <2>1. k + 1 \in Node /\ (k + 1) - 1 = k /\ k + 1 \in 0 .. N
    BY <1>2
  <2>2. Handed(dest, src, ml, k, h[k])
    BY <1>4
  <2>3. h[k + 1] = HandOver(h[k], dest, src, k + 1)
    BY <1>1, <2>1
  <2>4. Handed(dest, src, ml, (k + 1) - 1, h[k])
    BY <2>1, <2>2
  <2>5. Handed(dest, src, ml, k + 1, h[k + 1])
    BY <2>1, <2>3, <2>4, HandedTurn
  <2>6. QED
    BY <2>1, <2>5
<1>5. 0 .. N \subseteq S
  <2> HIDE DEF S
  <2> QED BY <1>2, <1>3, <1>4, InductionUpTo
<1>6. Handed(dest, src, ml, N, h[N])
  BY <1>2, <1>5
<1>7. PICK last : last = h[N]
  OBVIOUS
<1>8. Handed(dest, src, ml, N, last)
  BY <1>6, <1>7
<1>9. st = [last EXCEPT !.move[dest] = (@ \cup last.move[src]) \ {dest, src}]
  <2>1. HandedOver(dest, src, base) = last
    BY <1>1, <1>7
  <2>2. HandOverMoves(dest, src, ml, rd) =
          [HandedOver(dest, src, base) EXCEPT
             !.move[dest] = (@ \cup HandedOver(dest, src, base).move[src]) \ {dest, src}]
    BY DEF HandOverMoves, HandedOver
  <2>3. QED
    BY <2>1, <2>2
<1>10. /\ last = [move |-> last.move, mloc |-> last.mloc, ready |-> last.ready, ok |-> TRUE]
       /\ last.move \in [Node -> SUBSET Node] /\ last.move[src] = move[src]
       /\ \A q \in Node : q \notin {src, dest} => (q \in last.move[dest] <=> q \in move[dest])
  BY <1>8 DEF Handed
<1>11. dest \in Node /\ src \in Node /\ move \in [Node -> SUBSET Node]
  BY DEF Merging, MovesInv, MoveType
<1>12. (last.move[dest] \cup last.move[src]) \ {dest, src} = (move[dest] \cup move[src]) \ {dest, src}
  <2>1. last.move[dest] \subseteq Node /\ move[dest] \subseteq Node
    BY <1>10, <1>11
  <2>2. \A q \in Node : q \in (last.move[dest] \cup last.move[src]) \ {dest, src}
                        <=> q \in (move[dest] \cup move[src]) \ {dest, src}
    BY <1>10
  <2>3. move[src] \subseteq Node
    BY <1>11
  <2>4. QED
    BY <1>10, <2>1, <2>2, <2>3
<1>13. /\ st.ok = TRUE /\ st.mloc = last.mloc
       /\ st.move = [last.move EXCEPT ![dest] = (last.move[dest] \cup last.move[src]) \ {dest, src}]
  <2> DEFINE mv2 == [last.move EXCEPT ![dest] = (last.move[dest] \cup last.move[src]) \ {dest, src}]
  <2>1. st = [last EXCEPT !.move = mv2]
    BY <1>9
  <2> HIDE DEF mv2
  <2>2. st.ok = TRUE /\ st.mloc = last.mloc /\ st.move = mv2
    BY <1>10, <2>1
  <2>3. QED
    BY <2>2 DEF mv2
<1>14. QED
  BY <1>8, <1>12, <1>13 DEF MergedMoves

(* What the first loop of merge leaves in order: every move of a             *)
(* representative has its entries, and every entry its move.                 *)
LEMMA MergeKeepsMoves ==
  ASSUME ColoringInv, MovesInv, NEW dest, NEW src, NEW ml, Merging(dest, src, ml),
         NEW last, Handed(dest, src, ml, N, last),
         move' = [last.move EXCEPT ![dest] = (move[dest] \cup move[src]) \ {dest, src}],
         mloc' \in MoveLoc,
         \A mov \in Node \X Node : mloc'[mov] = "none" <=> last.mloc[mov] = "none",
         alias' = [n \in Node |-> IF alias[n] = src THEN dest ELSE alias[n]]
  PROVE  move' \in [Node -> SUBSET Node] /\ MoveSets' /\ Entries'
<1>1. /\ dest \in Node /\ src \in Node /\ dest # src
      /\ alias[dest] = dest /\ alias[src] = src /\ dest \in move[src]
      /\ alias \in [Node -> Node] /\ move \in [Node -> SUBSET Node]
      /\ \A n \in Node : alias[alias[n]] = alias[n]
  BY DEF ColoringInv, ColoringType, Classes, Merging, MovesInv, MoveType
<1>2. /\ last.move \in [Node -> SUBSET Node] /\ last.mloc \in MoveLoc
  BY DEF Handed
<1>3. move' \in [Node -> SUBSET Node]
  BY <1>1, <1>2
<1>4. /\ move'[dest] = (move[dest] \cup move[src]) \ {dest, src}
      /\ \A q \in Node : q # dest => move'[q] = last.move[q]
  BY <1>1, <1>2
<1>5. \A q \in Node : q \notin {src, dest} =>
        \/ move'[q] = move[q]
        \/ q \in move[src] /\ move'[q] = (move[q] \ {src}) \cup {dest}
  BY <1>4 DEF Handed
(* The facts of the invariant before the step. *)
<1>6. \A n \in Node : alias[n] = n =>
        /\ n \notin move[n]
        /\ \A m \in move[n] : /\ Tracked(<<n, m>>) /\ Tracked(<<m, n>>)
                              /\ alias[m] = m => n \in move[m]
  BY DEF MovesInv, MoveSets
<1>7. \A a, b \in Node : Tracked(<<a, b>>) => alias[a] = alias[b] \/ alias[b] \in move[alias[a]]
  BY DEF MovesInv, Entries
<1>8. \A a, b \in Node : ml[<<a, b>>] # "none" <=> Tracked(<<a, b>>)
  BY DEF Merging, Tracked
<1>9. \A a, b \in Node : Tracked(<<a, b>>)' <=> last.mloc[<<a, b>>] # "none"
  BY DEF Tracked
(* A partner of src knows dest after the loop. *)
<1>10. ASSUME NEW q \in move[src], alias[q] = q, q # dest
       PROVE  q \in Node /\ q # src /\ dest \in move'[q] /\ q \in move'[dest]
              /\ (q \notin move[dest] => src \notin move'[q])
  <2>1. q \in Node /\ q # src
    BY <1>1, <1>6
  <2>2. q \in move'[dest]
    BY <1>4, <1>10, <2>1
  <2>3. CASE q \notin move[dest]
    <3>1. q <= N
      BY <2>1, NAssumption DEF Node
    <3>2. last.move[q] = (move[q] \ {src}) \cup {dest}
      BY <1>10, <2>3, <3>1 DEF Handed
    <3>3. QED
      BY <1>1, <1>4, <1>10, <2>1, <2>2, <3>2
  <2>4. CASE q \in move[dest]
    <3>1. dest \in move[q]
      BY <1>1, <1>6, <1>10, <2>4
    <3>2. dest \in move'[q]
      BY <1>1, <1>5, <1>10, <2>1, <3>1
    <3>3. QED
      BY <2>1, <2>2, <2>4, <3>2
  <2>5. QED
    BY <2>3, <2>4
(* A partner of src is tracked as one of dest. *)
<1>11. ASSUME NEW q \in move[src], q # dest
       PROVE  Tracked(<<dest, q>>)' /\ Tracked(<<q, dest>>)'
  <2>1. q \in Node /\ q # src
    BY <1>1, <1>6
  <2>2. CASE q \notin move[dest]
    <3>1. q <= N
      BY <2>1, NAssumption DEF Node
    <3>2. last.mloc[<<dest, q>>] # "none" /\ last.mloc[<<q, dest>>] # "none"
      BY <1>11, <2>2, <3>1 DEF Handed
    <3>3. QED
      BY <1>1, <1>9, <2>1, <3>2
  <2>3. CASE q \in move[dest]
    <3>1. Tracked(<<dest, q>>) /\ Tracked(<<q, dest>>)
      BY <1>1, <1>6, <2>3
    <3>2. last.mloc[<<dest, q>>] # "none" /\ last.mloc[<<q, dest>>] # "none"
      BY <1>1, <1>8, <2>1, <3>1 DEF Handed
    <3>3. QED
      BY <1>1, <1>9, <2>1, <3>2
  <2>4. QED
    BY <2>2, <2>3
<1>12. \A a, b \in Node \ {src} : Tracked(<<a, b>>) => Tracked(<<a, b>>)'
  BY <1>8, <1>9 DEF Handed
<1>13. MoveSets'
  <2> SUFFICES ASSUME NEW n \in Node, alias'[n] = n
               PROVE  /\ n \notin move'[n]
                      /\ \A m \in move'[n] : /\ Tracked(<<n, m>>)' /\ Tracked(<<m, n>>)'
                                             /\ alias'[m] = m => n \in move'[m]
    BY DEF MoveSets
  <2>1. n # src /\ alias[n] = n
    BY <1>1
  <2>2. CASE n = dest
    <3>1. dest \notin move'[dest]
      BY <1>4
    <3>2. ASSUME NEW m \in move'[dest]
          PROVE  /\ Tracked(<<dest, m>>)' /\ Tracked(<<m, dest>>)'
                 /\ alias'[m] = m => dest \in move'[m]
      <4>1. m \in Node /\ m \notin {dest, src} /\ (m \in move[dest] \/ m \in move[src])
        BY <1>1, <1>4
      <4>2. CASE m \in move[src]
        <5>1. alias'[m] = m => alias[m] = m
          BY <1>1, <4>1
        <5>2. QED
          BY <1>10, <1>11, <4>1, <4>2, <5>1
      <4>3. CASE m \in move[dest]
        <5>1. Tracked(<<dest, m>>) /\ Tracked(<<m, dest>>) /\ (alias[m] = m => dest \in move[m])
          BY <1>1, <1>6, <4>3
        <5>2. Tracked(<<dest, m>>)' /\ Tracked(<<m, dest>>)'
          BY <1>1, <1>12, <4>1, <5>1
        <5>3. alias'[m] = m => alias[m] = m
          BY <1>1, <4>1
        <5>4. dest \in move[m] => dest \in move'[m]
          BY <1>1, <1>5, <4>1
        <5>5. QED
          BY <5>1, <5>2, <5>3, <5>4
      <4>4. QED
        BY <4>1, <4>2, <4>3
    <3>3. QED
      BY <2>2, <3>1, <3>2
  <2>3. CASE n # dest
    <3>1. n \notin move[n] /\ n \notin {src, dest}
      BY <1>6, <2>1, <2>3
    <3>2. n \notin move'[n]
      BY <1>5, <3>1
    <3>3. ASSUME NEW m \in move'[n]
          PROVE  /\ Tracked(<<n, m>>)' /\ Tracked(<<m, n>>)'
                 /\ alias'[m] = m => n \in move'[m]
      <4>1. m \in Node /\ (m \in move[n] \/ (m = dest /\ n \in move[src]))
        BY <1>3, <1>5, <3>1
      <4>2. CASE m = dest /\ n \in move[src]
        BY <1>10, <1>11, <2>1, <2>3, <4>2
      <4>3. CASE m \in move[n] /\ m # src
        <5>1. Tracked(<<n, m>>) /\ Tracked(<<m, n>>) /\ (alias[m] = m => n \in move[m])
          BY <1>6, <2>1, <4>3
        <5>2. Tracked(<<n, m>>)' /\ Tracked(<<m, n>>)'
          BY <1>12, <2>1, <4>1, <4>3, <5>1
        <5>3. alias'[m] = m => alias[m] = m
          BY <1>1, <4>1
        <5>4. n \in move[m] => n \in move'[m]
          <6>1. CASE m = dest
            BY <1>4, <3>1, <6>1
          <6>2. CASE m # dest
            BY <1>5, <3>1, <4>1, <4>3, <6>2
          <6>3. QED
            BY <6>1, <6>2
        <5>5. QED
          BY <5>1, <5>2, <5>3, <5>4
      <4>4. CASE m \in move[n] /\ m = src
        <5>1. Tracked(<<n, src>>) /\ Tracked(<<src, n>>) /\ n \in move[src]
          BY <1>1, <1>6, <2>1, <4>4
        <5>2. n \in move[dest]
          BY <1>10, <2>1, <2>3, <4>4, <5>1
        <5>3. last.mloc[<<src, n>>] # "none" /\ last.mloc[<<n, src>>] # "none"
          BY <1>1, <1>8, <5>1, <5>2 DEF Handed
        <5>4. alias'[src] = dest
          BY <1>1
        <5>5. QED
          BY <1>1, <1>9, <4>4, <5>3, <5>4
      <4>5. QED
        BY <4>1, <4>2, <4>3, <4>4
    <3>4. QED
      BY <3>2, <3>3
  <2>4. QED
    BY <2>2, <2>3
<1>14. Entries'
  <2> SUFFICES ASSUME NEW a \in Node, NEW b \in Node, Tracked(<<a, b>>)'
               PROVE  alias'[a] = alias'[b] \/ alias'[b] \in move'[alias'[a]]
    BY DEF Entries
  <2>1. \/ alias[a] = alias[b]
        \/ alias[b] \in move[alias[a]]
        \/ a = dest /\ b \in move[src]
        \/ b = dest /\ a \in move[src]
    <3>1. last.mloc[<<a, b>>] # "none"
      BY <1>9
    <3>2. \/ ml[<<a, b>>] # "none"
          \/ a = dest /\ b \in move[src]
          \/ b = dest /\ a \in move[src]
      <4>1. CASE a = src \/ b = src
        BY <3>1, <4>1 DEF Handed
      <4>2. CASE a # src /\ b # src
        BY <3>1, <4>2 DEF Handed
      <4>3. QED
        BY <4>1, <4>2
    <3>3. QED
      BY <1>7, <1>8, <3>2
  <2> DEFINE x == alias[a]
             y == alias[b]
  <2>2. x \in Node /\ y \in Node /\ alias[x] = x /\ alias[y] = y
    BY <1>1
  <2>3. /\ alias'[a] = IF x = src THEN dest ELSE x
        /\ alias'[b] = IF y = src THEN dest ELSE y
    BY <1>1
  <2>4. CASE alias[a] = alias[b]
    BY <2>3, <2>4
  (* The partners of src, whether merged away or not. *)
  <2>5. \A q \in move[src] : alias[q] = src \/ alias[q] = dest \/
          (alias[q] \in Node /\ alias[q] # src /\ alias[q] # dest
             /\ dest \in move'[alias[q]] /\ alias[q] \in move'[dest])
    <3> TAKE q \in move[src]
    <3>1. q \in Node /\ Tracked(<<src, q>>)
      BY <1>1, <1>6
    <3>2. alias[q] = src \/ alias[q] \in move[src]
      BY <1>1, <1>7, <3>1
    <3>3. alias[q] \in Node /\ alias[alias[q]] = alias[q]
      BY <1>1, <3>1
    <3>4. CASE alias[q] \in move[src] /\ alias[q] # dest
      BY <1>10, <3>3, <3>4
    <3>5. QED
      BY <3>2, <3>4
  <2>6. CASE a = dest /\ b \in move[src]
    <3>1. alias'[a] = dest
      BY <1>1, <2>6
    <3>2. QED
      BY <2>3, <2>5, <2>6, <3>1
  <2>7. CASE b = dest /\ a \in move[src]
    <3>1. alias'[b] = dest
      BY <1>1, <2>7
    <3>2. QED
      BY <2>3, <2>5, <2>7, <3>1
  <2>8. CASE y \in move[x] /\ x # y
    <3>1. x \in move[y]
      BY <1>6, <2>2, <2>8
    <3>2. CASE x = src
      BY <2>2, <2>3, <1>10, <2>8, <3>2
    <3>3. CASE y = src
      BY <2>2, <2>3, <1>10, <2>8, <3>1, <3>3
    <3>4. CASE x # src /\ y # src
      <4>1. CASE x = dest
        BY <1>4, <2>3, <2>8, <3>4, <4>1
      <4>2. CASE x # dest
        <5>1. y \in move'[x]
          BY <1>5, <2>2, <2>8, <3>4, <4>2
        <5>2. QED
          BY <2>3, <3>4, <5>1
      <4>3. QED
        BY <4>1, <4>2
    <3>5. QED
      BY <3>2, <3>3, <3>4
  <2>9. QED
    BY <2>1, <2>4, <2>6, <2>7, <2>8
<1>15. QED
  BY <1>3, <1>13, <1>14

(* interfere() keeps a degree a size_t. *)
LEMMA ConnectDegreeType ==
  ASSUME ColoringInv, MovesInv, NEW dest \in Node, NEW src \in Node
  PROVE  ConnectDegree(dest, interfere[src]) \in [Node -> Nat]
<1> DEFINE edges == Connect(dest, interfere[src])
<1>1. /\ interfere \in [Node -> SUBSET Node] /\ alias \in [Node -> Node]
      /\ degree \in [Node -> Nat]
  BY DEF ColoringInv, ColoringType, MovesInv, MoveType
<1>2. \A v \in Node : edges[v] \subseteq Node
  BY <1>1 DEF Connect
<1>3. \A v \in Node : /\ Cardinality(edges[v]) \in Nat /\ Cardinality(interfere[v]) \in Nat
                      /\ degree[v] \in Nat
  BY <1>1, <1>2, NeighbourCount
<1>4. \A v \in Node : degree[v] + Cardinality(edges[v]) - Cardinality(interfere[v]) \in Int
  BY <1>3
<1>5. \A v \in Node :
        (degree[v] + Cardinality(edges[v]) - Cardinality(interfere[v])) % SizeMod \in Nat
  BY <1>4, SizeType
<1> HIDE DEF edges
<1>6. ConnectDegree(dest, interfere[src]) =
        [v \in Node |-> (degree[v] + Cardinality(edges[v]) - Cardinality(interfere[v])) % SizeMod]
  BY DEF ConnectDegree, edges
<1>7. QED
  BY <1>5, <1>6

(* A move that is due is one between its ends: merge() finds dest among the  *)
(* moves of src.                                                             *)
LEMMA DueEnds ==
  ASSUME ColoringInv, MovesInv, NEW mov \in Node \X Node, Tracked(mov),
         Ends(mov)[1] # Ends(mov)[2]
  PROVE  Ends(mov)[1] \in move[Ends(mov)[2]] /\ Ends(mov)[2] \in move[Ends(mov)[1]]
<1>1. mov = <<mov[1], mov[2]>> /\ mov[1] \in Node /\ mov[2] \in Node
  OBVIOUS
<1> DEFINE x == alias[mov[1]]
           y == alias[mov[2]]
<1>2. x \in Node /\ y \in Node /\ alias[x] = x /\ alias[y] = y
  BY <1>1 DEF ColoringInv, ColoringType, Classes
<1>3. /\ x # y
      /\ \/ Ends(mov)[1] = x /\ Ends(mov)[2] = y
         \/ Ends(mov)[1] = y /\ Ends(mov)[2] = x
  BY DEF Ends
<1>4. Tracked(<<mov[1], mov[2]>>)
  BY <1>1 DEF Tracked
<1>5. y \in move[x]
  BY <1>1, <1>3, <1>4 DEF MovesInv, Entries
<1>6. x \in move[y]
  BY <1>2, <1>5 DEF MovesInv, MoveSets
<1>7. QED
  BY <1>3, <1>5, <1>6

(* The locations with which the first loop of merge starts. *)
LEMMA MergeStarts ==
  ASSUME ColoringInv, MovesInv, NEW mov \in Node \X Node, Tracked(mov), NEW dest, NEW src,
         dest = Ends(mov)[1], src = Ends(mov)[2], dest # src, NEW calls
  PROVE  Merging(dest, src, EnableLoc(move, [mloc EXCEPT ![mov] = "coalesced"], calls))
<1> DEFINE ml1 == [mloc EXCEPT ![mov] = "coalesced"]
<1>1. mloc[mov] # "none"
  BY DEF Tracked
<1>2. mloc \in MoveLoc
  BY DEF MovesInv, MoveType
<1>3. /\ ml1 \in MoveLoc
      /\ \A p \in Node \X Node : ml1[p] = "none" <=> mloc[p] = "none"
  BY <1>1, <1>2 DEF MoveLoc, MoveList
<1> HIDE DEF ml1
<1>4. /\ EnableLoc(move, ml1, calls) \in MoveLoc
      /\ \A p \in Node \X Node : EnableLoc(move, ml1, calls)[p] = "none" <=> ml1[p] = "none"
  BY <1>3, EnableTracks
<1>5. dest \in Node /\ alias[dest] = dest /\ src \in Node /\ alias[src] = src
  BY EndsAreRoots
<1>6. dest \in move[src]
  BY DueEnds
<1>7. QED
  BY <1>3, <1>4, <1>5, <1>6 DEF Merging, ml1

(* merge() finds every entry it looks for, and keeps the moves in order. *)
LEMMA CoalesceMergeMoves ==
  ASSUME ColoringInv, MovesInv, NEW mov \in Node \X Node, CoalesceMerge(mov)
  PROVE  MovesInv' /\ phase' = "colorize"
<1> DEFINE dest  == Ends(mov)[1]
           src   == Ends(mov)[2]
           l1    == [loc EXCEPT ![src] = "coalesced"]
           ml1   == [mloc EXCEPT ![mov] = "coalesced"]
           call  == [n \in {src} |-> src]
           ml    == EnableLoc(move, ml1, call)
           rd    == Enable(Unlink(ready, mloc, mov), move, ml1, call)
           st    == HandOverMoves(dest, src, ml, rd)
           d1    == ConnectDegree(dest, interfere[src])
           ns    == {n \in interfere[src] : l1[n] \notin OutOfGraph}
           on    == DecrementEnables(Connect(dest, interfere[src]), d1, l1, ns)
<1>1. /\ phase = "colorize" /\ phase' = IF st.ok THEN phase ELSE "throw"
      /\ dest # src
      /\ degree' = Decremented(d1, l1, ns)
      /\ move' = st.move
      /\ mloc' = EnableLoc(st.move, st.mloc, on)
      /\ alias' = [n \in Node |-> IF alias[n] = src THEN dest ELSE alias[n]]
      /\ UNCHANGED spilled
      /\ Tracked(mov)
  BY DEF CoalesceMerge, Coalesceable, Due, Tracked
<1>3. dest \in Node /\ src \in Node
  BY EndsAreRoots
<1>4. d1 \in [Node -> Nat]
  <2> HIDE DEF dest, src
  <2> QED BY <1>3, ConnectDegreeType
<1>5. degree' \in [Node -> Nat]
  <2> HIDE DEF d1, l1, ns
  <2> QED BY <1>1, <1>4, DecrementedType
<1>6. Merging(dest, src, ml)
  <2> HIDE DEF dest, src
  <2>1. dest = Ends(mov)[1] /\ src = Ends(mov)[2]
    BY DEF dest, src
  <2>2. QED
    BY <1>1, <2>1, MergeStarts
<1>7. alias \in [Node -> Node]
  BY DEF ColoringInv, ColoringType
<1> HIDE DEF dest, src, l1, ml1, call, ml, rd, st, d1, ns, on
<1>8. PICK last :
        /\ Handed(dest, src, ml, N, last)
        /\ st.ok = TRUE /\ st.mloc = last.mloc
        /\ st.move = [last.move EXCEPT ![dest] = (move[dest] \cup move[src]) \ {dest, src}]
  <2>1. st = HandOverMoves(dest, src, ml, rd)
    BY DEF st
  <2>2. MergedMoves(dest, src, ml, st)
    BY <1>6, <1>7, <2>1, HandOverEnds
  <2>3. QED
    BY <2>2 DEF MergedMoves
<1>9. last.mloc \in MoveLoc /\ last.move \in [Node -> SUBSET Node]
  BY <1>8 DEF Handed
<1>10. /\ mloc' \in MoveLoc
       /\ \A p \in Node \X Node : mloc'[p] = "none" <=> last.mloc[p] = "none"
  <2>1. mloc' = EnableLoc(st.move, last.mloc, on)
    BY <1>1, <1>8
  <2>2. QED
    BY <1>9, <2>1, EnableTracks
<1>11. move' \in [Node -> SUBSET Node] /\ MoveSets' /\ Entries'
  <2>1. move' = [last.move EXCEPT ![dest] = (move[dest] \cup move[src]) \ {dest, src}]
    BY <1>1, <1>8
  <2>2. Handed(dest, src, ml, N, last) /\ mloc' \in MoveLoc
        /\ \A p \in Node \X Node : mloc'[p] = "none" <=> last.mloc[p] = "none"
    BY <1>8, <1>10
  <2>3. alias' = [n \in Node |-> IF alias[n] = src THEN dest ELSE alias[n]]
    BY <1>1
  <2>4. QED
    BY <1>6, <2>1, <2>2, <2>3, MergeKeepsMoves
<1>12. MoveType'
  BY <1>1, <1>5, <1>10, <1>11 DEF MovesInv, MoveType
<1>13. QED
  BY <1>1, <1>8, <1>11, <1>12 DEF MovesInv

(* Every step of colorize() keeps the moves in order. *)
LEMMA MovesNext ==
  ASSUME ColoringInv, MovesInv, ready \in Seq(Cell), [Next]_vars
  PROVE  MovesInv'
<1> USE DEF MoveType
<1>1. alias \in [Node -> Node]
  BY DEF ColoringInv, ColoringType
<1>2. mloc \in MoveLoc /\ degree \in [Node -> Nat]
      /\ spilled \subseteq Node
  BY DEF MovesInv
<1>3. CASE Initialize
  <2>1. Relocation
    BY <1>2, <1>3 DEF Initialize, Relocation
  <2>2. QED
    BY <1>1, <2>1, RelocationInv
<1>4. ASSUME NEW n \in Node, Simplify(n) PROVE MovesInv'
  <2> DEFINE l  == [loc EXCEPT ![n] = "select_stack"]
             ns == Adjacent(interfere, l, n)
             on == DecrementEnables(interfere, degree, l, ns)
  <2>1. /\ degree' = Decremented(degree, l, ns) /\ mloc' = EnableLoc(move, mloc, on)
        /\ UNCHANGED <<move, alias, spilled, phase>>
    BY <1>4 DEF Simplify
  <2> HIDE DEF l, ns, on
  <2>2. degree' \in [Node -> Nat]
    BY <1>2, <2>1, DecrementedType
  <2>3. /\ mloc' \in MoveLoc
        /\ \A p \in Node \X Node : mloc'[p] = "none" <=> mloc[p] = "none"
    BY <1>2, <2>1, EnableTracks
  <2>4. Relocation
    BY <1>2, <2>1, <2>2, <2>3 DEF Relocation
  <2>5. QED
    BY <1>1, <2>4, RelocationInv
<1>5. ASSUME NEW n \in Node, GiveUpMoves(n) PROVE MovesInv'
  <2> DEFINE moves == EffectiveMoves(move, mloc, n)
  <2>1. /\ mloc' = [mov \in Node \X Node |-> IF mov \in moves THEN "frozen" ELSE mloc[mov]]
        /\ UNCHANGED <<move, alias, degree, spilled, phase>>
    BY <1>5 DEF GiveUpMoves
  <2>2. \A mov \in moves : mloc[mov] # "none"
    BY DEF EffectiveMoves
  <2> HIDE DEF moves
  <2>3. Relocation
    BY <1>2, <2>1, <2>2 DEF Relocation, MoveLoc, MoveList
  <2>4. QED
    BY <1>1, <2>3, RelocationInv
<1>6. ASSUME NEW n \in Node, AssignColor(n) PROVE MovesInv'
  <2>1. Relocation
    BY <1>2, <1>6 DEF AssignColor, Relocation
  <2>2. QED
    BY <1>1, <2>1, RelocationInv
<1>7. ASSUME NEW mov \in Node \X Node, mloc[mov] # "none", NEW list \in MoveList, NEW ns,
             RetireMove(mov, list, ns)
      PROVE  MovesInv'
  <2>1. mloc' = [mloc EXCEPT ![mov] = list] /\ UNCHANGED <<move, alias, degree, spilled, phase>>
    BY <1>7 DEF RetireMove
  <2>2. Relocation
    BY <1>2, <1>7, <2>1 DEF Relocation, MoveLoc, MoveList
  <2>3. QED
    BY <1>1, <2>2, RelocationInv
<1>8. ASSUME NEW mov \in Node \X Node, Coalesce(mov) PROVE MovesInv'
  <2>1. CASE CoalesceMerge(mov)
    BY <2>1, CoalesceMergeMoves
  <2>2. CASE CoalesceSame(mov)
    BY <1>7, <2>2 DEF CoalesceSame, Coalesceable, MoveList
  <2>3. CASE CoalesceConstrained(mov)
    BY <1>7, <2>3 DEF CoalesceConstrained, Coalesceable, MoveList
  <2>4. CASE CoalesceSchedule(mov)
    BY <1>7, <2>4 DEF CoalesceSchedule, Coalesceable, MoveList
  <2>5. CASE CoalesceUntracked(mov)
    <3>1. Relocation
      BY <1>2, <2>5 DEF CoalesceUntracked, Relocation
    <3>2. QED
      BY <1>1, <3>1, RelocationInv
  <2>6. QED
    BY <1>8, <2>1, <2>2, <2>3, <2>4, <2>5 DEF Coalesce
<1>9. CASE Select
  <2>1. Relocation
    BY <1>2, <1>9 DEF Select, Relocation
  <2>2. QED
    BY <1>1, <2>1, RelocationInv
<1>10. CASE Finish
  <2>1. Relocation
    BY <1>2, <1>10 DEF Finish, Relocation, At
  <2>2. QED
    BY <1>1, <2>1, RelocationInv
<1>11. CASE Returned \/ UNCHANGED vars
  <2>1. Relocation
    BY <1>2, <1>11 DEF Returned, vars, Relocation
  <2>2. QED
    BY <1>1, <2>1, RelocationInv
<1>12. ready # <<>> => Head(ready)[1] \in Node \X Node
  BY FrontCell
<1>13. QED
  BY <1>3, <1>4, <1>5, <1>6, <1>8, <1>9, <1>10, <1>11, <1>12 DEF Next, Freeze, Spill

-----------------------------------------------------------------------------
(* The elements of moves.ready.  move_locations points to those that are     *)
(* entries, and to nothing else there; whatever a step does to the list, a    *)
(* stray stays in it.                                                        *)

(* The sequence has an element to which nothing points. *)
HasStray(seq) == \E i \in 1 .. Len(seq) : seq[i][2] = "stray"

(* The elements of moves.ready and move_locations agree: a move has an entry  *)
(* there if and only if that is where it is located, and one only.           *)
Queued(seq, ml) ==
  /\ seq \in Seq(Cell)
  /\ \A mov \in Node \X Node : ml[mov] = "ready" <=> \E i \in 1 .. Len(seq) : seq[i] = Entry(mov)
  /\ \A i, j \in 1 .. Len(seq) : seq[i] = seq[j] /\ seq[i][2] = "entry" => i = j

(* The moves have the same places but for one, which has the given one. *)
Relocated(ml, nl, mov) ==
  /\ ml \in MoveLoc /\ nl \in MoveLoc
  /\ mov \in Node \X Node
  /\ \A p \in Node \X Node : p # mov => nl[p] = ml[p]

(* Entries and strays of the moves are elements of moves.ready, and differ.   *)
LEMMA CellFacts ==
  ASSUME NEW mov \in Node \X Node
  PROVE  /\ Entry(mov) \in Cell /\ Stray(mov) \in Cell
         /\ Entry(mov)[2] = "entry" /\ Stray(mov)[2] = "stray"
         /\ \A p \in Node \X Node : /\ Entry(p) = Entry(mov) => p = mov
                                    /\ Entry(p) # Stray(mov)
BY DEF Entry, Stray, Cell

(* What is left of a sequence without the element at k. *)
LEMMA RemoveAtElements ==
  ASSUME NEW seq \in Seq(Cell), NEW k \in 1 .. Len(seq)
  PROVE  /\ RemoveAt(seq, k) \in Seq(Cell)
         /\ Len(RemoveAt(seq, k)) = Len(seq) - 1
         /\ \A i \in 1 .. Len(seq) - 1 :
              RemoveAt(seq, k)[i] = IF i < k THEN seq[i] ELSE seq[i + 1]
<1>1. Len(seq) \in Nat /\ \A i \in 1 .. Len(seq) : seq[i] \in Cell
  BY LenProperties, ElementOfSeq
<1> DEFINE a == SubSeq(seq, 1, k - 1)
           b == SubSeq(seq, k + 1, Len(seq))
<1>2. /\ a \in Seq(Cell) /\ Len(a) = k - 1
      /\ \A i \in 1 .. k - 1 : a[i] = seq[i]
  <2>1. 1 \in Int /\ k - 1 \in Int /\ \A i \in 1 .. k - 1 : seq[i] \in Cell
    BY <1>1
  <2>2. /\ a \in Seq(Cell) /\ Len(a) = IF 1 <= k - 1 THEN (k - 1) - 1 + 1 ELSE 0
        /\ \A i \in 1 .. (k - 1) - 1 + 1 : a[i] = seq[1 + i - 1]
    BY <2>1, SubSeqProperties
  <2> HIDE DEF a
  <2>3. QED
    BY <1>1, <2>2
<1>3. /\ b \in Seq(Cell) /\ Len(b) = Len(seq) - k
      /\ \A i \in 1 .. Len(seq) - k : b[i] = seq[i + k]
  <2>1. k + 1 \in Int /\ Len(seq) \in Int /\ \A i \in k + 1 .. Len(seq) : seq[i] \in Cell
    BY <1>1
  <2>2. /\ b \in Seq(Cell)
        /\ Len(b) = IF k + 1 <= Len(seq) THEN Len(seq) - (k + 1) + 1 ELSE 0
        /\ \A i \in 1 .. Len(seq) - (k + 1) + 1 : b[i] = seq[(k + 1) + i - 1]
    BY <2>1, SubSeqProperties
  <2> HIDE DEF b
  <2>3. \A i \in 1 .. Len(seq) - k : (k + 1) + i - 1 = i + k /\ i \in 1 .. Len(seq) - (k + 1) + 1
    BY <1>1
  <2>4. QED
    BY <1>1, <2>2, <2>3
<1>4. RemoveAt(seq, k) = a \o b
  BY DEF RemoveAt
<1> HIDE DEF a, b
<1>5. /\ a \o b \in Seq(Cell) /\ Len(a \o b) = Len(a) + Len(b)
      /\ \A i \in 1 .. Len(a) + Len(b) : (a \o b)[i] = IF i <= Len(a) THEN a[i] ELSE b[i - Len(a)]
  BY <1>2, <1>3, ConcatProperties
<1>6. Len(a) + Len(b) = Len(seq) - 1
  BY <1>1, <1>2, <1>3
<1>7. ASSUME NEW i \in 1 .. Len(seq) - 1
      PROVE  RemoveAt(seq, k)[i] = IF i < k THEN seq[i] ELSE seq[i + 1]
  <2>1. RemoveAt(seq, k)[i] = IF i <= k - 1 THEN a[i] ELSE b[i - (k - 1)]
    BY <1>2, <1>4, <1>5, <1>6
  <2>2. CASE i < k
    <3>1. i \in 1 .. k - 1 /\ i <= k - 1
      BY <1>1, <2>2
    <3>2. QED
      BY <1>2, <2>1, <2>2, <3>1
  <2>3. CASE ~(i < k)
    <3>1. ~(i <= k - 1) /\ i - (k - 1) \in 1 .. Len(seq) - k /\ (i - (k - 1)) + k = i + 1
      BY <1>1, <2>3
    <3>2. QED
      BY <1>3, <2>1, <2>3, <3>1
  <2>4. QED
    BY <2>2, <2>3
<1>8. QED
  BY <1>4, <1>5, <1>6, <1>7

(* A move leaves moves.ready with its entry. *)
LEMMA UnlinkQueued ==
  ASSUME NEW seq, NEW ml, NEW nl, NEW mov, Relocated(ml, nl, mov), nl[mov] # "ready",
         Queued(seq, ml)
  PROVE  /\ Queued(Unlink(seq, ml, mov), nl)
         /\ HasStray(seq) => HasStray(Unlink(seq, ml, mov))
<1>1. mov \in Node \X Node /\ \A p \in Node \X Node : p # mov => nl[p] = ml[p]
  BY DEF Relocated
<1>2. CASE ml[mov] # "ready"
  <2>1. Unlink(seq, ml, mov) = seq
    BY <1>2 DEF Unlink
  <2>2. \A p \in Node \X Node : nl[p] = "ready" <=> ml[p] = "ready"
    BY <1>1, <1>2
  <2>3. QED
    BY <2>1, <2>2 DEF Queued
<1>3. CASE ml[mov] = "ready"
  <2> DEFINE k == Position(seq, Entry(mov))
             out == Unlink(seq, ml, mov)
  <2>1. seq \in Seq(Cell) /\ Len(seq) \in Nat
    BY LenProperties DEF Queued
  <2>2. k \in 1 .. Len(seq) /\ seq[k] = Entry(mov)
    <3>1. \E i \in 1 .. Len(seq) : seq[i] = Entry(mov)
      BY <1>1, <1>3 DEF Queued
    <3>2. QED
      BY <3>1 DEF Position
  <2>3. out = RemoveAt(seq, k)
    BY <1>3 DEF Unlink
  <2> HIDE DEF k
  <2>4. /\ out \in Seq(Cell) /\ Len(out) = Len(seq) - 1
        /\ \A i \in 1 .. Len(seq) - 1 : out[i] = IF i < k THEN seq[i] ELSE seq[i + 1]
    BY <2>1, <2>2, <2>3, RemoveAtElements
  <2> HIDE DEF out
  <2> DEFINE at(i) == IF i < k THEN i ELSE i + 1
  <2>5. \A i \in 1 .. Len(out) : at(i) \in 1 .. Len(seq) /\ at(i) # k /\ out[i] = seq[at(i)]
    BY <2>1, <2>2, <2>4
  <2>6. \A i, j \in 1 .. Len(out) : at(i) = at(j) => i = j
    BY <2>1, <2>2, <2>4
  <2>7. \A j \in 1 .. Len(seq) : j # k => \E i \in 1 .. Len(out) : at(i) = j
    <3> TAKE j \in 1 .. Len(seq)
    <3>1. CASE j < k
      <4>1. j \in 1 .. Len(out) /\ at(j) = j
        BY <2>1, <2>2, <2>4, <3>1
      <4>2. QED
        BY <4>1
    <3>2. CASE j > k
      <4>1. j - 1 \in 1 .. Len(out) /\ at(j - 1) = j
        BY <2>1, <2>2, <2>4, <3>2
      <4>2. QED
        BY <4>1
    <3>3. QED
      BY <2>2, <3>1, <3>2
  <2> HIDE DEF at
  <2>8. \A i, j \in 1 .. Len(seq) : seq[i] = seq[j] /\ seq[i][2] = "entry" => i = j
    BY DEF Queued
  <2>9. ASSUME NEW p \in Node \X Node
        PROVE  nl[p] = "ready" <=> \E i \in 1 .. Len(out) : out[i] = Entry(p)
    <3>1. CASE p = mov
      <4>1. ~ \E i \in 1 .. Len(out) : out[i] = Entry(mov)
        <5>1. seq[k][2] = "entry"
          BY <1>1, <2>2, CellFacts
        <5>2. ASSUME NEW i \in 1 .. Len(out) PROVE out[i] # seq[k]
          <6>1. at(i) \in 1 .. Len(seq) /\ at(i) # k /\ out[i] = seq[at(i)]
            BY <2>5
          <6>2. QED
            BY <2>2, <2>8, <5>1, <6>1
        <5>3. QED
          BY <2>2, <5>2
      <4>2. QED
        BY <3>1, <4>1
    <3>2. CASE p # mov
      <4>1. nl[p] = "ready" <=> \E j \in 1 .. Len(seq) : seq[j] = Entry(p)
        BY <1>1, <3>2 DEF Queued
      <4>2. \A j \in 1 .. Len(seq) : seq[j] = Entry(p) => j # k
        BY <1>1, <2>2, <3>2, CellFacts
      <4>3. \A j \in 1 .. Len(seq) : j # k => \E i \in 1 .. Len(out) : out[i] = seq[j]
        BY <2>5, <2>7
      <4>4. \A i \in 1 .. Len(out) : \E j \in 1 .. Len(seq) : out[i] = seq[j]
        BY <2>5
      <4>5. ASSUME NEW j \in 1 .. Len(seq), seq[j] = Entry(p)
            PROVE  \E i \in 1 .. Len(out) : out[i] = Entry(p)
        BY <4>2, <4>3, <4>5
      <4>6. ASSUME NEW i \in 1 .. Len(out), out[i] = Entry(p)
            PROVE  \E j \in 1 .. Len(seq) : seq[j] = Entry(p)
        BY <4>4, <4>6
      <4>7. QED
        BY <4>1, <4>5, <4>6
    <3>3. QED
      BY <3>1, <3>2
  <2>10. \A i, j \in 1 .. Len(out) : out[i] = out[j] /\ out[i][2] = "entry" => i = j
    BY <2>5, <2>6, <2>8
  <2>11. HasStray(seq) => HasStray(out)
    <3>1. seq[k][2] # "stray"
      BY <1>1, <2>2, CellFacts
    <3>2. QED
      BY <2>5, <2>7, <3>1 DEF HasStray
  <2>12. QED
    BY <2>4, <2>9, <2>10, <2>11 DEF Queued, out
<1>4. QED
  BY <1>2, <1>3

(* An entry that another one supersedes stays as a stray. *)
LEMMA OrphanQueued ==
  ASSUME NEW seq, NEW ml, NEW nl, NEW mov, Relocated(ml, nl, mov), nl[mov] # "ready",
         Queued(seq, ml)
  PROVE  /\ Queued(Orphan(seq, mov), nl)
         /\ HasStray(seq) => HasStray(Orphan(seq, mov))
<1>1. mov \in Node \X Node /\ \A p \in Node \X Node : p # mov => nl[p] = ml[p]
  BY DEF Relocated
<1>2. /\ seq \in Seq(Cell) /\ Len(seq) \in Nat /\ DOMAIN seq = 1 .. Len(seq)
      /\ \A i \in 1 .. Len(seq) : seq[i] \in Cell
  BY LenProperties, ElementOfSeq DEF Queued
<1> DEFINE out == Orphan(seq, mov)
<1>3. \A i \in 1 .. Len(seq) : out[i] = IF seq[i] = Entry(mov) THEN Stray(mov) ELSE seq[i]
  BY <1>2 DEF Orphan
<1>4. out = [i \in 1 .. Len(seq) |-> out[i]]
  BY <1>2 DEF Orphan
<1> HIDE DEF out
<1>5. \A i \in 1 .. Len(seq) : out[i] \in Cell
  BY <1>1, <1>2, <1>3, CellFacts
<1>6. out \in Seq(Cell) /\ Len(out) = Len(seq)
  BY <1>2, <1>4, <1>5
<1>7. ASSUME NEW p \in Node \X Node
      PROVE  nl[p] = "ready" <=> \E i \in 1 .. Len(seq) : out[i] = Entry(p)
  <2>1. CASE p = mov
    <3>1. \A i \in 1 .. Len(seq) : out[i] # Entry(mov)
      BY <1>1, <1>3, CellFacts
    <3>2. QED
      BY <2>1, <3>1
  <2>2. CASE p # mov
    <3>1. nl[p] = "ready" <=> \E i \in 1 .. Len(seq) : seq[i] = Entry(p)
      BY <1>1, <2>2 DEF Queued
    <3>2. \A i \in 1 .. Len(seq) : out[i] = Entry(p) <=> seq[i] = Entry(p)
      BY <1>1, <1>3, <2>2, CellFacts
    <3>3. QED
      BY <3>1, <3>2
  <2>3. QED
    BY <2>1, <2>2
<1>8. \A i, j \in 1 .. Len(seq) : out[i] = out[j] /\ out[i][2] = "entry" => i = j
  <2>1. \A i, j \in 1 .. Len(seq) : seq[i] = seq[j] /\ seq[i][2] = "entry" => i = j
    BY DEF Queued
  <2>2. \A i \in 1 .. Len(seq) : out[i][2] = "entry" => out[i] = seq[i]
    BY <1>1, <1>3, CellFacts
  <2>3. QED
    BY <2>1, <2>2
<1>9. HasStray(seq) => HasStray(out)
  <2>1. \A i \in 1 .. Len(seq) : seq[i][2] = "stray" => out[i] = seq[i]
    BY <1>1, <1>3, CellFacts
  <2>2. QED
    BY <1>6, <2>1 DEF HasStray
<1>10. QED
  BY <1>6, <1>7, <1>8, <1>9 DEF Queued, out

(* A move that becomes ready has its entry at the end. *)
LEMMA AppendQueued ==
  ASSUME NEW seq, NEW ml, NEW nl, NEW mov, Relocated(ml, nl, mov),
         ml[mov] # "ready", nl[mov] = "ready", Queued(seq, ml)
  PROVE  /\ Queued(Append(seq, Entry(mov)), nl)
         /\ HasStray(seq) => HasStray(Append(seq, Entry(mov)))
<1>1. mov \in Node \X Node /\ \A p \in Node \X Node : p # mov => nl[p] = ml[p]
  BY DEF Relocated
<1>2. seq \in Seq(Cell) /\ Len(seq) \in Nat /\ Entry(mov) \in Cell
  BY <1>1, LenProperties, CellFacts DEF Queued
<1>3. PICK out : out = Append(seq, Entry(mov))
  OBVIOUS
<1>4. /\ out \in Seq(Cell) /\ Len(out) = Len(seq) + 1
      /\ \A i \in 1 .. Len(seq) : out[i] = seq[i]
      /\ out[Len(seq) + 1] = Entry(mov)
  BY <1>2, <1>3, AppendProperties
<1>5. \A i \in 1 .. Len(out) : i \in 1 .. Len(seq) \/ i = Len(seq) + 1
  BY <1>2, <1>4
<1>6. \A i \in 1 .. Len(seq) : i \in 1 .. Len(out) /\ seq[i] # Entry(mov)
  BY <1>1, <1>2, <1>4 DEF Queued
<1>7. Len(seq) + 1 \in 1 .. Len(out)
  BY <1>2, <1>4
<1>8. ASSUME NEW p \in Node \X Node
      PROVE  nl[p] = "ready" <=> \E i \in 1 .. Len(out) : out[i] = Entry(p)
  <2>1. CASE p = mov
    BY <1>4, <1>7, <2>1
  <2>2. CASE p # mov
    <3>1. nl[p] = "ready" <=> \E i \in 1 .. Len(seq) : seq[i] = Entry(p)
      BY <1>1, <2>2 DEF Queued
    <3>2. out[Len(seq) + 1] # Entry(p)
      BY <1>1, <1>4, <2>2, CellFacts
    <3>3. QED
      BY <1>4, <1>5, <1>6, <3>1, <3>2
  <2>3. QED
    BY <2>1, <2>2
<1>9. \A i, j \in 1 .. Len(out) : out[i] = out[j] /\ out[i][2] = "entry" => i = j
  <2>1. \A i, j \in 1 .. Len(seq) : seq[i] = seq[j] /\ seq[i][2] = "entry" => i = j
    BY DEF Queued
  <2>2. QED
    BY <1>4, <1>5, <1>6, <2>1
<1>10. HasStray(seq) => HasStray(out)
  BY <1>4, <1>6 DEF HasStray
<1>11. QED
  BY <1>3, <1>4, <1>8, <1>9, <1>10 DEF Queued

(* The moves of a set are a finite set. *)
LEMMA MovesAreFinite ==
  ASSUME NEW S \in SUBSET (Node \X Node)
  PROVE  IsFiniteSet(S) /\ Cardinality(S) \in Nat
<1>1. 1 \in Int /\ N \in Int
  BY NAssumption
<1>2. IsFiniteSet(Node)
  BY <1>1, FS_Interval DEF Node
<1>3. IsFiniteSet(Node \X Node)
  BY <1>2, FS_Product
<1>4. QED
  BY <1>3, FS_Subset, FS_CardinalityType

(* Moves take their turns one at a time. *)
LEMMA BeforeOrders ==
  ASSUME NEW S \in SUBSET (Node \X Node), NEW calls, \A p \in S : calls[p[1]] \in Int
  PROVE  /\ \A p \in S : ~Before(calls, p, p)
         /\ \A p, q \in S : p # q => Before(calls, p, q) \/ Before(calls, q, p)
         /\ \A p, q, r \in S :
              Before(calls, p, q) /\ Before(calls, q, r) => Before(calls, p, r)
<1>1. \A p \in S : p[1] \in Int /\ p[2] \in Int /\ p = <<p[1], p[2]>>
  BY NAssumption DEF Node
<1>2. \A p \in S : ~Before(calls, p, p)
  BY <1>1 DEF Before
<1>3. ASSUME NEW p \in S, NEW q \in S, p # q PROVE Before(calls, p, q) \/ Before(calls, q, p)
  <2>1. p[1] # q[1] \/ p[2] # q[2]
    BY <1>1, <1>3
  <2>2. QED
    BY <1>1, <2>1 DEF Before
<1>4. ASSUME NEW p \in S, NEW q \in S, NEW r \in S, Before(calls, p, q), Before(calls, q, r)
      PROVE  Before(calls, p, r)
  BY <1>1, <1>4 DEF Before
<1>5. QED
  BY <1>2, <1>3, <1>4

(* The sequence has every move of the set, once. *)
Listed(list, S) ==
  /\ list \in Seq(Node \X Node)
  /\ \A i \in 1 .. Len(list) : list[i] \in S
  /\ \A q \in S : \E i \in 1 .. Len(list) : list[i] = q
  /\ \A i, j \in 1 .. Len(list) : list[i] = list[j] => i = j

(* InTurn lists the moves of a set. *)
LEMMA InTurnLists ==
  ASSUME NEW S \in SUBSET (Node \X Node), NEW calls, \A p \in S : calls[p[1]] \in Int,
         NEW out, out = InTurn(calls, S)
  PROVE  Listed(out, S)
<1> DEFINE n == Cardinality(S)
           earlier(q) == {p \in S : Before(calls, p, q)}
           place == [q \in S |-> Cardinality(earlier(q)) + 1]
<1>1. IsFiniteSet(S) /\ n \in Nat
  BY MovesAreFinite
<1>2. \A q \in S : earlier(q) \in SUBSET S /\ q \notin earlier(q)
  BY BeforeOrders
<1>3. \A q \in S : IsFiniteSet(earlier(q)) /\ Cardinality(earlier(q)) \in Nat
  BY <1>1, <1>2, FS_Subset, FS_CardinalityType
<1>4. ASSUME NEW q \in S PROVE place[q] \in 1 .. n
  <2>1. earlier(q) \in SUBSET (S \ {q}) /\ IsFiniteSet(S \ {q}) /\ Cardinality(S \ {q}) = n - 1
    BY <1>1, <1>2, FS_RemoveElement
  <2>2. Cardinality(earlier(q)) <= n - 1
    <3> HIDE DEF earlier, n
    <3> QED BY <2>1, FS_Subset
  <2> HIDE DEF earlier, n
  <2>3. QED
    BY <1>1, <1>3, <2>2
<1>5. ASSUME NEW p \in S, NEW q \in S, Before(calls, p, q) PROVE place[p] < place[q]
  <2>1. p \in earlier(q) /\ p \notin earlier(p) /\ earlier(p) \subseteq earlier(q)
    BY <1>5, BeforeOrders
  <2>2. earlier(p) \in SUBSET (earlier(q) \ {p}) /\ IsFiniteSet(earlier(q) \ {p})
        /\ Cardinality(earlier(q) \ {p}) = Cardinality(earlier(q)) - 1
    <3> HIDE DEF earlier
    <3> QED BY <1>3, <2>1, FS_RemoveElement
  <2> HIDE DEF earlier
  <2>3. Cardinality(earlier(p)) <= Cardinality(earlier(q)) - 1
    BY <2>2, FS_Subset
  <2>4. QED
    BY <1>3, <2>3
<1>6. ASSUME NEW p \in S, NEW q \in S, place[p] = place[q] PROVE p = q
  <2>1. Before(calls, p, q) => place[p] < place[q]
    BY <1>5
  <2>2. Before(calls, q, p) => place[q] < place[p]
    BY <1>5
  <2>3. place[p] \in Int /\ place[q] \in Int
    <3> HIDE DEF place, n
    <3> QED BY <1>1, <1>4
  <2> HIDE DEF place
  <2>4. ~Before(calls, p, q) /\ ~Before(calls, q, p)
    BY <1>6, <2>1, <2>2, <2>3
  <2>5. QED
    BY <2>4, BeforeOrders
<1>7. place = [q \in S |-> place[q]]
  OBVIOUS
<1>8. \A i \in 1 .. n : (\E q \in S : i = place[q]) => out[i] \in S /\ i = place[out[i]]
  <2> DEFINE turns == {<<Cardinality({p \in S : Before(calls, p, q)}) + 1, q>> : q \in S}
  <2>1. out = [i \in 1 .. n |-> CHOOSE q \in S : <<i, q>> \in turns]
    BY DEF InTurn
  <2>2. \A i, q : <<i, q>> \in turns <=> q \in S /\ i = place[q]
    OBVIOUS
  <2> HIDE DEF turns, place
  <2>3. \A i \in 1 .. n : (\E q \in S : <<i, q>> \in turns) => out[i] \in S /\ <<i, out[i]>> \in turns
    BY <2>1
  <2>4. ASSUME NEW i \in 1 .. n, NEW q \in S, i = place[q] PROVE out[i] \in S /\ i = place[out[i]]
    <3>1. <<i, q>> \in turns
      BY <2>2, <2>4
    <3>2. out[i] \in S /\ <<i, out[i]>> \in turns
      BY <2>3, <3>1
    <3>3. QED
      BY <2>2, <3>2
  <2>5. QED
    BY <2>4
<1>9. out = [i \in 1 .. n |-> out[i]]
  <2> DEFINE turns == {<<Cardinality({p \in S : Before(calls, p, q)}) + 1, q>> : q \in S}
             taken(i) == CHOOSE q \in S : <<i, q>> \in turns
  <2>1. out = [i \in 1 .. n |-> taken(i)]
    BY DEF InTurn
  <2> HIDE DEF taken
  <2>2. QED
    BY <2>1
<1> HIDE DEF place, n
<1>10. \A i \in 1 .. n : \E q \in S : i = place[q]
  <2>1. place \in Injection(S, 1 .. n)
    BY <1>4, <1>6, <1>7 DEF Injection, IsInjective
  <2>2. IsFiniteSet(1 .. n) /\ Cardinality(1 .. n) = n
    <3>1. 1 \in Int /\ n \in Int
      BY <1>1
    <3>2. QED
      BY <1>1, <3>1, FS_Interval
  <2>3. place \in Surjection(S, 1 .. n)
    BY <2>1, <2>2, FS_Injection DEF n
  <2>4. QED
    BY <2>3 DEF Surjection
<1>11. \A i \in 1 .. n : out[i] \in S /\ i = place[out[i]]
  BY <1>8, <1>10
<1>12. out \in Seq(Node \X Node) /\ Len(out) = n
  <2>1. \A i \in 1 .. n : out[i] \in Node \X Node
    BY <1>11
  <2>2. QED
    BY <1>1, <1>9, <2>1
<1>13. \A q \in S : out[place[q]] = q
  BY <1>4, <1>6, <1>11
<1>14. QED
  BY <1>4, <1>11, <1>12, <1>13 DEF Listed

(* Moves that enter moves.ready in their turns. *)
LEMMA EnteredQueued ==
  ASSUME NEW S \in SUBSET (Node \X Node), NEW calls, \A p \in S : calls[p[1]] \in Int,
         NEW seq, NEW ml, NEW nl, Queued(seq, ml),
         \A mov \in S : ml[mov] # "ready",
         \A mov \in Node \X Node : nl[mov] = "ready" <=> ml[mov] = "ready" \/ mov \in S
  PROVE  /\ Entered(InTurn(calls, S)) \in Seq(Cell)
         /\ Queued(seq \o Entered(InTurn(calls, S)), nl)
         /\ HasStray(seq) => HasStray(seq \o Entered(InTurn(calls, S)))
<1>1. PICK list : list = InTurn(calls, S)
  OBVIOUS
<1>2. /\ list \in Seq(Node \X Node)
      /\ \A i \in 1 .. Len(list) : list[i] \in S
      /\ \A q \in S : \E i \in 1 .. Len(list) : list[i] = q
      /\ \A i, j \in 1 .. Len(list) : list[i] = list[j] => i = j
  <2>1. Listed(list, S)
    BY <1>1, InTurnLists
  <2>2. QED
    BY <2>1 DEF Listed
<1>3. Len(list) \in Nat /\ DOMAIN list = 1 .. Len(list)
  BY <1>2, LenProperties
<1>4. PICK added : added = Entered(list)
  OBVIOUS
<1>5. added = [i \in 1 .. Len(list) |-> Entry(list[i])]
  BY <1>3, <1>4 DEF Entered
<1>6. \A i \in 1 .. Len(list) : Entry(list[i]) \in Cell
  BY <1>2, CellFacts
<1>7. /\ added \in Seq(Cell) /\ Len(added) = Len(list)
      /\ \A i \in 1 .. Len(list) : added[i] = Entry(list[i])
  BY <1>3, <1>5, <1>6
<1>8. seq \in Seq(Cell) /\ Len(seq) \in Nat
  BY LenProperties DEF Queued
<1>9. PICK out : out = seq \o added
  OBVIOUS
<1>10. /\ out \in Seq(Cell) /\ Len(out) = Len(seq) + Len(list)
       /\ \A i \in 1 .. Len(seq) + Len(list) :
            out[i] = IF i <= Len(seq) THEN seq[i] ELSE added[i - Len(seq)]
  <2>1. /\ out \in Seq(Cell) /\ Len(out) = Len(seq) + Len(added)
        /\ \A i \in 1 .. Len(seq) + Len(added) :
             out[i] = IF i <= Len(seq) THEN seq[i] ELSE added[i - Len(seq)]
    BY <1>7, <1>8, <1>9, ConcatProperties
  <2>2. QED
    BY <1>7, <2>1
<1>11. /\ \A i \in 1 .. Len(seq) : i \in 1 .. Len(out) /\ out[i] = seq[i]
       /\ \A i \in 1 .. Len(list) : /\ Len(seq) + i \in 1 .. Len(out)
                                    /\ out[Len(seq) + i] = Entry(list[i])
  <2>1. \A i \in 1 .. Len(seq) : i \in 1 .. Len(out) /\ i <= Len(seq)
    BY <1>3, <1>8, <1>10
  <2>2. \A i \in 1 .. Len(list) : /\ Len(seq) + i \in 1 .. Len(out)
                                  /\ ~(Len(seq) + i <= Len(seq))
                                  /\ (Len(seq) + i) - Len(seq) = i
    BY <1>3, <1>8, <1>10
  <2>3. QED
    BY <1>7, <1>10, <2>1, <2>2
<1>12. \A k \in 1 .. Len(out) : k \in 1 .. Len(seq) \/ \E i \in 1 .. Len(list) : k = Len(seq) + i
  <2> TAKE k \in 1 .. Len(out)
  <2>1. k \in 1 .. Len(seq) \/ (k - Len(seq) \in 1 .. Len(list) /\ k = Len(seq) + (k - Len(seq)))
    BY <1>3, <1>8, <1>10
  <2>2. QED
    BY <2>1
<1>13. \A i \in 1 .. Len(list) : /\ list[i] \in Node \X Node
                                 /\ \A j \in 1 .. Len(seq) : seq[j] # Entry(list[i])
  BY <1>2 DEF Queued
<1>14. ASSUME NEW p \in Node \X Node
       PROVE  nl[p] = "ready" <=> \E k \in 1 .. Len(out) : out[k] = Entry(p)
  <2>1. ml[p] = "ready" <=> \E i \in 1 .. Len(seq) : seq[i] = Entry(p)
    BY DEF Queued
  <2>2. p \in S <=> \E i \in 1 .. Len(list) : list[i] = p
    BY <1>2
  <2>3. \A i \in 1 .. Len(list) : Entry(list[i]) = Entry(p) <=> list[i] = p
    BY <1>13, CellFacts
  <2>4. ASSUME nl[p] = "ready" PROVE \E k \in 1 .. Len(out) : out[k] = Entry(p)
    <3>1. CASE ml[p] = "ready"
      BY <1>11, <2>1, <3>1
    <3>2. CASE p \in S
      BY <1>11, <2>2, <3>2
    <3>3. QED
      BY <2>4, <3>1, <3>2
  <2>5. ASSUME NEW k \in 1 .. Len(out), out[k] = Entry(p) PROVE nl[p] = "ready"
    <3>1. CASE k \in 1 .. Len(seq)
      <4>1. seq[k] = Entry(p)
        BY <1>11, <2>5, <3>1
      <4>2. QED
        BY <2>1, <3>1, <4>1
    <3>2. CASE \E i \in 1 .. Len(list) : k = Len(seq) + i
      <4>1. PICK i \in 1 .. Len(list) : k = Len(seq) + i
        BY <3>2
      <4>2. Entry(list[i]) = Entry(p)
        BY <1>11, <2>5, <4>1
      <4>3. QED
        BY <2>2, <2>3, <4>2
    <3>3. QED
      BY <1>12, <3>1, <3>2
  <2>6. QED
    BY <2>4, <2>5
<1>15. ASSUME NEW k \in 1 .. Len(out), NEW m \in 1 .. Len(out), out[k] = out[m], out[k][2] = "entry"
       PROVE  k = m
  <2>1. \A i, j \in 1 .. Len(seq) : seq[i] = seq[j] /\ seq[i][2] = "entry" => i = j
    BY DEF Queued
  <2>2. \A i, j \in 1 .. Len(list) : Entry(list[i]) = Entry(list[j]) => i = j
    BY <1>2, <1>13, CellFacts
  <2>3. CASE k \in 1 .. Len(seq) /\ m \in 1 .. Len(seq)
    BY <1>11, <1>15, <2>1, <2>3
  <2>4. CASE \E i, j \in 1 .. Len(list) : k = Len(seq) + i /\ m = Len(seq) + j
    BY <1>11, <1>15, <2>2, <2>4
  <2>5. CASE k \in 1 .. Len(seq) /\ \E j \in 1 .. Len(list) : m = Len(seq) + j
    BY <1>11, <1>13, <1>15, <2>5
  <2>6. CASE m \in 1 .. Len(seq) /\ \E j \in 1 .. Len(list) : k = Len(seq) + j
    BY <1>11, <1>13, <1>15, <2>6
  <2>7. QED
    BY <1>12, <2>3, <2>4, <2>5, <2>6
<1>16. HasStray(seq) => HasStray(out)
  BY <1>11 DEF HasStray
<1>17. Queued(out, nl)
  BY <1>10, <1>14, <1>15 DEF Queued
<1>18. added = Entered(InTurn(calls, S)) /\ out = seq \o added
  BY <1>1, <1>4, <1>9
<1>19. QED
  BY <1>7, <1>16, <1>17, <1>18

(* enable_moves enters the moves it makes ready. *)
LEMMA EnableQueued ==
  ASSUME NEW mv, NEW calls, \A n \in DOMAIN calls : calls[n] \in Int,
         NEW seq, NEW ml \in MoveLoc, Queued(seq, ml)
  PROVE  /\ Queued(Enable(seq, mv, ml, calls), EnableLoc(mv, ml, calls))
         /\ HasStray(seq) => HasStray(Enable(seq, mv, ml, calls))
<1> DEFINE S == Enabled(mv, ml, calls)
<1>1. /\ S \in SUBSET (Node \X Node)
      /\ \A p \in S : calls[p[1]] \in Int /\ ml[p] = "scheduled"
  BY DEF Enabled
<1>2. \A p \in Node \X Node : EnableLoc(mv, ml, calls)[p] = "ready" <=> ml[p] = "ready" \/ p \in S
  BY DEF EnableLoc
<1>3. \A p \in S : ml[p] # "ready"
  BY <1>1
<1> HIDE DEF S
<1>4. /\ Queued(seq \o Entered(InTurn(calls, S)), EnableLoc(mv, ml, calls))
      /\ HasStray(seq) => HasStray(seq \o Entered(InTurn(calls, S)))
  BY <1>1, <1>2, <1>3, EnteredQueued
<1>5. QED
  BY <1>4 DEF Enable, S

(* The calls that decrement_degree makes have their order. *)
LEMMA DecrementCalls ==
  ASSUME NEW e, NEW d, NEW l, NEW ns \in SUBSET Node, NEW calls,
         calls = DecrementEnables(e, d, l, ns)
  PROVE  \A n \in DOMAIN calls : calls[n] \in Int
<1> DEFINE callers == [n \in Node |-> {c \in Crossing(d, l, ns) : n \in {c} \cup Adjacent(e, l, c)}]
<1>1. calls = [n \in {m \in Node : callers[m] # {}} |->
                 CHOOSE c \in callers[n] : \A b \in callers[n] : c <= b]
  BY DEF DecrementEnables
<1>2. \A n \in Node : callers[n] \in SUBSET Nat
  <2>1. Crossing(d, l, ns) \subseteq Nat
    <3>1. Node \subseteq Nat
      BY NAssumption DEF Node
    <3>2. QED
      BY <3>1 DEF Crossing
  <2>2. QED
    BY <2>1
<1> HIDE DEF callers
<1> SUFFICES ASSUME NEW n \in Node, callers[n] # {} PROVE calls[n] \in Int
  BY <1>1
<1>3. \E c \in callers[n] : \A b \in callers[n] : c <= b
  BY <1>2, LeastMember
<1>4. calls[n] \in callers[n]
  BY <1>1, <1>3
<1>5. QED
  BY <1>2, <1>4

-----------------------------------------------------------------------------
(* A state of the first loop of merge in which the two agree. *)
Carried(st) ==
  /\ st = [move |-> st.move, mloc |-> st.mloc, ready |-> st.ready, ok |-> st.ok]
  /\ st.mloc \in MoveLoc
  /\ Queued(st.ready, st.mloc)

(* replace(old, new) orphans the entry that new had, and moves that of old.  *)
LEMMA ReplaceCarries ==
  ASSUME NEW st, Carried(st), NEW old \in Node \X Node, NEW new \in Node \X Node, old # new,
         NEW out, out = Replace(st, old, new)
  PROVE  Carried(out) /\ (HasStray(st.ready) => HasStray(out.ready))
<1> DEFINE ml  == st.mloc
           ml1 == [ml EXCEPT ![new] = "none"]
           ml2 == [ml1 EXCEPT ![old] = "none"]
           ml3 == [ml EXCEPT ![new] = ml[old], ![old] = "none"]
           s1  == Orphan(st.ready, new)
           s2  == Unlink(s1, ml, old)
           s3  == IF ml[old] = "ready" THEN Append(s2, Entry(new)) ELSE s2
<1>1. ml \in MoveLoc /\ Queued(st.ready, ml)
  BY DEF Carried
<1>2. Relocated(ml, ml1, new) /\ ml1[new] # "ready" /\ ml1[old] = ml[old]
  BY <1>1 DEF Relocated, MoveLoc, MoveList
<1>3. Relocated(ml1, ml2, old) /\ ml2[old] # "ready"
  BY <1>1 DEF Relocated, MoveLoc, MoveList
<1>4. /\ Relocated(ml2, ml3, new) /\ ml2[new] # "ready" /\ ml3[new] = ml[old] /\ ml3 \in MoveLoc
      /\ \A p \in Node \X Node : p # new => ml3[p] = ml2[p]
  BY <1>1 DEF Relocated, MoveLoc, MoveList
<1> HIDE DEF ml1, ml2, ml3, s1
<1>5. Queued(s1, ml1) /\ (HasStray(st.ready) => HasStray(s1))
  <2> HIDE DEF ml
  <2> QED BY <1>1, <1>2, OrphanQueued DEF s1
<1>6. s2 = Unlink(s1, ml1, old)
  BY <1>2 DEF Unlink
<1> HIDE DEF s2
<1>7. Queued(s2, ml2) /\ (HasStray(s1) => HasStray(s2))
  BY <1>3, <1>5, <1>6, UnlinkQueued
<1>8. Queued(s3, ml3) /\ (HasStray(s2) => HasStray(s3))
  <2>1. CASE ml[old] = "ready"
    <3>1. Queued(Append(s2, Entry(new)), ml3) /\ (HasStray(s2) => HasStray(Append(s2, Entry(new))))
      <4> HIDE DEF ml
      <4> QED BY <1>4, <1>7, <2>1, AppendQueued
    <3>2. QED
      BY <2>1, <3>1
  <2>2. CASE ml[old] # "ready"
    <3>1. \A p \in Node \X Node : ml3[p] = "ready" <=> ml2[p] = "ready"
      BY <1>4, <2>2
    <3>2. QED
      BY <1>7, <2>2, <3>1 DEF Queued
  <2>3. QED
    BY <2>1, <2>2
<1>9. out = [move |-> st.move, mloc |-> ml3, ready |-> s3, ok |-> st.ok /\ ml[old] # "none"]
  <2>1. out = [st EXCEPT !.mloc[new] = st.mloc[old],
                         !.mloc[old] = "none",
                         !.ready = s3,
                         !.ok = @ /\ st.mloc[old] # "none"]
    BY DEF Replace, s1, s2
  <2> HIDE DEF s3
  <2>2. QED
    BY <2>1 DEF ml3, Carried
<1> HIDE DEF ml, s3
<1>10. QED
  BY <1>4, <1>5, <1>7, <1>8, <1>9 DEF Carried

(* replace(old, nullopt) takes the entry of old away. *)
LEMMA DropCarries ==
  ASSUME NEW st, Carried(st), NEW old \in Node \X Node, NEW out, out = Drop(st, old)
  PROVE  Carried(out) /\ (HasStray(st.ready) => HasStray(out.ready))
<1> DEFINE ml  == st.mloc
           ml1 == [ml EXCEPT ![old] = "none"]
           s1  == Unlink(st.ready, ml, old)
<1>1. ml \in MoveLoc /\ Queued(st.ready, ml)
  BY DEF Carried
<1>2. Relocated(ml, ml1, old) /\ ml1[old] # "ready" /\ ml1 \in MoveLoc
  BY <1>1 DEF Relocated, MoveLoc, MoveList
<1> HIDE DEF ml1
<1>3. Queued(s1, ml1) /\ (HasStray(st.ready) => HasStray(s1))
  <2> HIDE DEF ml
  <2> QED BY <1>1, <1>2, UnlinkQueued
<1>4. out = [move |-> st.move, mloc |-> ml1, ready |-> s1, ok |-> st.ok /\ ml[old] # "none"]
  <2>1. out = [st EXCEPT !.mloc[old] = "none",
                         !.ready = s1,
                         !.ok = @ /\ st.mloc[old] # "none"]
    BY DEF Drop
  <2> HIDE DEF s1
  <2>2. QED
    BY <2>1 DEF ml1, Carried
<1> HIDE DEF ml, s1
<1>5. QED
  BY <1>2, <1>3, <1>4 DEF Carried

(* So does one turn of the loop. *)
LEMMA HandOverCarries ==
  ASSUME NEW dest \in Node, NEW src \in Node, dest # src, NEW m \in Node,
         NEW st, Carried(st), NEW out, out = HandOver(st, dest, src, m)
  PROVE  Carried(out) /\ (HasStray(st.ready) => HasStray(out.ready))
<1> DEFINE mv2 == [st.move EXCEPT ![alias[m]] = (@ \ {src}) \cup ({dest} \ {m})]
           st2 == [st EXCEPT !.move[alias[m]] = (@ \ {src}) \cup ({dest} \ {m})]
<1>1. out = IF m \notin st.move[src] \/ m \in st.move[dest] THEN st
            ELSE IF m = dest THEN Drop(Drop(st2, <<src, m>>), <<m, src>>)
            ELSE Replace(Replace(st2, <<src, m>>, <<dest, m>>), <<m, src>>, <<m, dest>>)
  BY DEF HandOver
<1>2. st2 = [st EXCEPT !.move = mv2]
  BY DEF Carried
<1> HIDE DEF st2, mv2
<1>3. st2 = [move |-> mv2, mloc |-> st.mloc, ready |-> st.ready, ok |-> st.ok]
  BY <1>2 DEF Carried
<1>4. Carried(st2) /\ st2.ready = st.ready
  BY <1>3 DEF Carried
<1>5. CASE m = dest
  <2>1. PICK a : a = Drop(st2, <<src, m>>)
    OBVIOUS
  <2>2. PICK b : b = Drop(a, <<m, src>>)
    OBVIOUS
  <2>3. Carried(a) /\ (HasStray(st2.ready) => HasStray(a.ready))
    BY <1>4, <2>1, DropCarries
  <2>4. Carried(b) /\ (HasStray(a.ready) => HasStray(b.ready))
    BY <2>2, <2>3, DropCarries
  <2>5. QED
    BY <1>1, <1>4, <1>5, <2>1, <2>2, <2>3, <2>4
<1>6. CASE m # dest
  <2>1. PICK a : a = Replace(st2, <<src, m>>, <<dest, m>>)
    OBVIOUS
  <2>2. PICK b : b = Replace(a, <<m, src>>, <<m, dest>>)
    OBVIOUS
  <2>3. Carried(a) /\ (HasStray(st2.ready) => HasStray(a.ready))
    BY <1>4, <2>1, ReplaceCarries
  <2>4. Carried(b) /\ (HasStray(a.ready) => HasStray(b.ready))
    BY <2>2, <2>3, ReplaceCarries
  <2>5. QED
    BY <1>1, <1>4, <1>6, <2>1, <2>2, <2>3, <2>4
<1>7. QED
  BY <1>5, <1>6

(* And the whole of it. *)
LEMMA HandOverMovesCarries ==
  ASSUME NEW dest \in Node, NEW src \in Node, dest # src, NEW ml \in MoveLoc, NEW rd,
         Queued(rd, ml), NEW st, st = HandOverMoves(dest, src, ml, rd)
  PROVE  /\ st.mloc \in MoveLoc /\ Queued(st.ready, st.mloc)
         /\ HasStray(rd) => HasStray(st.ready)
<1>1. PICK base : base = [move |-> move, mloc |-> ml, ready |-> rd, ok |-> TRUE]
  OBVIOUS
<1>2. PICK h : /\ h[0] = base
               /\ \A k \in Node : h[k] = HandOver(h[k - 1], dest, src, k)
               /\ HandedOver(dest, src, base) = h[N]
  BY HandOverFolds
<1>3. N \in Nat /\ Node = 1 .. N
  BY NAssumption DEF Node
<1> DEFINE S == {k \in 0 .. N : Carried(h[k]) /\ (HasStray(rd) => HasStray(h[k].ready))}
<1>4. 0 \in S
  <2>1. h[0] = [move |-> h[0].move, mloc |-> h[0].mloc, ready |-> h[0].ready, ok |-> h[0].ok]
        /\ h[0].mloc = ml /\ h[0].ready = rd
    BY <1>1, <1>2
  <2>2. QED
    BY <1>3, <2>1 DEF Carried
<1>5. ASSUME NEW k \in 0 .. N - 1, k \in S PROVE k + 1 \in S
  <2>1. k + 1 \in Node /\ (k + 1) - 1 = k /\ k + 1 \in 0 .. N
    BY <1>3
  <2>2. h[k + 1] = HandOver(h[k], dest, src, k + 1)
    BY <1>2, <2>1
  <2>3. Carried(h[k]) /\ (HasStray(rd) => HasStray(h[k].ready))
    BY <1>5
  <2>4. Carried(h[k + 1]) /\ (HasStray(h[k].ready) => HasStray(h[k + 1].ready))
    BY <2>1, <2>2, <2>3, HandOverCarries
  <2>5. QED
    BY <2>1, <2>3, <2>4
<1>6. 0 .. N \subseteq S
  <2> HIDE DEF S
  <2> QED BY <1>3, <1>4, <1>5, InductionUpTo
<1>7. PICK last : last = h[N]
  OBVIOUS
<1>8. Carried(last) /\ (HasStray(rd) => HasStray(last.ready))
  BY <1>3, <1>6, <1>7
<1>9. st = [last EXCEPT !.move[dest] = (@ \cup last.move[src]) \ {dest, src}]
  <2>1. HandedOver(dest, src, base) = last
    BY <1>2, <1>7
  <2>2. HandOverMoves(dest, src, ml, rd) =
          [HandedOver(dest, src, base) EXCEPT
             !.move[dest] = (@ \cup HandedOver(dest, src, base).move[src]) \ {dest, src}]
    BY <1>1 DEF HandOverMoves, HandedOver
  <2>3. QED
    BY <2>1, <2>2
<1>10. st.mloc = last.mloc /\ st.ready = last.ready
  <2> DEFINE mv2 == [last.move EXCEPT ![dest] = (@ \cup last.move[src]) \ {dest, src}]
  <2>1. st = [last EXCEPT !.move = mv2]
    BY <1>8, <1>9 DEF Carried
  <2> HIDE DEF mv2
  <2>2. QED
    BY <1>8, <2>1 DEF Carried
<1>11. QED
  BY <1>8, <1>10 DEF Carried

(* A list without elements has no entries. *)
LEMMA EmptyQueue ==
  ASSUME NEW ml, Queued(<<>>, ml)
  PROVE  \A mov \in Node \X Node : ml[mov] # "ready"
<1>1. 1 .. Len(<<>>) = {}
  OBVIOUS
<1>2. QED
  BY <1>1 DEF Queued

(* The inductive invariant of moves.ready. *)
QueueInv ==
  /\ Queued(ready, mloc)
  /\ phase = "throw" => ready # <<>> /\ Head(ready)[2] = "stray"
  /\ phase \in {"assign", "done"} => ready = <<>>

(* A step after which the two still agree and no stray is gone. *)
QueueKept == Queued(ready, mloc)' /\ (HasStray(ready) => HasStray(ready)')

(* The copies of the function have their entries. *)
LEMMA QueueInit == Init => QueueInv
<1> SUFFICES ASSUME NEW edges \in SUBSET Pair, NEW moves \in SUBSET Pair,
                    Constructed(edges, moves)
             PROVE  QueueInv
  BY DEF Init
<1> DEFINE S     == {mov \in Node \X Node : mov \in moves \/ <<mov[2], mov[1]>> \in moves}
           calls == [n \in Node |-> n]
           none  == [mov \in Node \X Node |-> "none"]
<1>1. /\ graph0 = [interfere |-> Neighbours(edges), move |-> Neighbours(moves)]
      /\ move = graph0.move
      /\ mloc = [mov \in Node \X Node |-> IF mov[2] \in move[mov[1]] THEN "ready" ELSE "none"]
      /\ ready = Entered(InTurn(calls, S))
      /\ phase = "initialize"
  BY DEF Constructed
<1>2. \A n, m \in Node : m \in move[n] <=> <<m, n>> \in moves \/ <<n, m>> \in moves
  <2>1. move = Neighbours(moves)
    BY <1>1
  <2>2. QED
    BY <2>1 DEF Neighbours
<1>3. \A mov \in Node \X Node : mloc[mov] = "ready" <=> mov \in S
  <2> TAKE mov \in Node \X Node
  <2>1. mov[1] \in Node /\ mov[2] \in Node /\ mov = <<mov[1], mov[2]>>
    OBVIOUS
  <2>2. mov \in S <=> <<mov[1], mov[2]>> \in moves \/ <<mov[2], mov[1]>> \in moves
    BY <2>1
  <2>3. mloc[mov] = "ready" <=> mov[2] \in move[mov[1]]
    BY <1>1
  <2> HIDE DEF S
  <2>4. QED
    BY <1>2, <2>1, <2>2, <2>3
<1>4. S \in SUBSET (Node \X Node) /\ \A p \in S : calls[p[1]] \in Int
  BY NAssumption DEF Node
<1>5. /\ \A mov \in S : none[mov] # "ready"
      /\ \A mov \in Node \X Node : mloc[mov] = "ready" <=> none[mov] = "ready" \/ mov \in S
  <2>1. \A mov \in Node \X Node : none[mov] # "ready"
    OBVIOUS
  <2> HIDE DEF S, none
  <2>2. QED
    BY <1>3, <1>4, <2>1
<1>6. Queued(<<>>, none)
  <2>1. <<>> \in Seq(Cell) /\ 1 .. Len(<<>>) = {}
    OBVIOUS
  <2>2. \A mov \in Node \X Node : none[mov] # "ready"
    OBVIOUS
  <2> HIDE DEF none
  <2>3. QED
    BY <2>1, <2>2 DEF Queued
<1> HIDE DEF S, calls, none
<1>7. ready \in Seq(Cell) /\ Queued(<<>> \o ready, mloc)
  BY <1>1, <1>4, <1>5, <1>6, EnteredQueued
<1>8. <<>> \o ready = ready
  BY <1>7, ConcatEmptySeq
<1>9. QED
  BY <1>1, <1>7, <1>8 DEF QueueInv

(* relocate of a move to a list that is not moves.ready. *)
LEMMA RetireQueued ==
  ASSUME MovesInv, QueueInv, NEW mov \in Node \X Node, NEW list \in MoveList \ {"ready"}, NEW ns,
         RetireMove(mov, list, ns)
  PROVE  QueueKept
<1>1. mloc' = [mloc EXCEPT ![mov] = list] /\ ready' = Unlink(ready, mloc, mov)
  BY DEF RetireMove
<1>2. mloc \in MoveLoc /\ Queued(ready, mloc)
  BY DEF MovesInv, MoveType, QueueInv
<1>3. Relocated(mloc, mloc', mov) /\ mloc'[mov] # "ready"
  BY <1>1, <1>2 DEF Relocated, MoveLoc, MoveList
<1>4. /\ Queued(Unlink(ready, mloc, mov), mloc')
      /\ HasStray(ready) => HasStray(Unlink(ready, mloc, mov))
  BY <1>2, <1>3, UnlinkQueued
<1>5. QED
  BY <1>1, <1>4 DEF QueueKept

(* simplify() enters the moves of the nodes whose degree dropped below K. *)
LEMMA SimplifyQueued ==
  ASSUME ColoringInv, MovesInv, QueueInv, NEW n \in Node, Simplify(n)
  PROVE  QueueKept
<1> DEFINE l  == [loc EXCEPT ![n] = "select_stack"]
           ns == Adjacent(interfere, l, n)
           on == DecrementEnables(interfere, degree, l, ns)
<1>1. mloc' = EnableLoc(move, mloc, on) /\ ready' = Enable(ready, move, mloc, on)
  BY DEF Simplify
<1>2. ns \in SUBSET Node
  BY DEF Adjacent, ColoringInv, ColoringType
<1> HIDE DEF l, ns
<1>3. \A m \in DOMAIN on : on[m] \in Int
  BY <1>2, DecrementCalls
<1>4. mloc \in MoveLoc /\ Queued(ready, mloc)
  BY DEF MovesInv, MoveType, QueueInv
<1> HIDE DEF on
<1>5. /\ Queued(Enable(ready, move, mloc, on), EnableLoc(move, mloc, on))
      /\ HasStray(ready) => HasStray(Enable(ready, move, mloc, on))
  BY <1>3, <1>4, EnableQueued
<1>6. QED
  BY <1>1, <1>5 DEF QueueKept

(* merge() takes its move out of the list, enters those of src, hands them    *)
(* over and enters those of the neighbours whose degree dropped.              *)
LEMMA MergeQueued ==
  ASSUME ColoringInv, MovesInv, QueueInv, NEW mov \in Node \X Node, CoalesceMerge(mov)
  PROVE  QueueKept
<1> DEFINE dest == Ends(mov)[1]
           src  == Ends(mov)[2]
           l1   == [loc EXCEPT ![src] = "coalesced"]
           ml1  == [mloc EXCEPT ![mov] = "coalesced"]
           rd1  == Unlink(ready, mloc, mov)
           call == [n \in {src} |-> src]
           ml   == EnableLoc(move, ml1, call)
           rd   == Enable(rd1, move, ml1, call)
           st   == HandOverMoves(dest, src, ml, rd)
           d1   == ConnectDegree(dest, interfere[src])
           ns   == {n \in interfere[src] : l1[n] \notin OutOfGraph}
           on   == DecrementEnables(Connect(dest, interfere[src]), d1, l1, ns)
<1>1. /\ dest # src
      /\ mloc' = EnableLoc(st.move, st.mloc, on)
      /\ ready' = Enable(st.ready, st.move, st.mloc, on)
  BY DEF CoalesceMerge
<1>2. dest \in Node /\ src \in Node
  BY EndsAreRoots
<1>3. ns \in SUBSET Node
  <2> HIDE DEF dest, src, l1
  <2> QED BY <1>2 DEF ColoringInv, ColoringType
<1>4. mloc \in MoveLoc /\ Queued(ready, mloc)
  BY DEF MovesInv, MoveType, QueueInv
<1> HIDE DEF dest, src, l1, d1, ns
<1>5. Relocated(mloc, ml1, mov) /\ ml1[mov] # "ready"
  BY <1>4 DEF Relocated, MoveLoc, MoveList
<1> HIDE DEF ml1
<1>6. Queued(rd1, ml1) /\ (HasStray(ready) => HasStray(rd1)) /\ ml1 \in MoveLoc
  BY <1>4, <1>5, UnlinkQueued DEF Relocated
<1>7. \A n \in DOMAIN call : call[n] \in Int
  BY <1>2, NAssumption DEF Node
<1> HIDE DEF rd1, call
<1>8. Queued(rd, ml) /\ (HasStray(rd1) => HasStray(rd)) /\ ml \in MoveLoc
  BY <1>6, <1>7, EnableQueued, EnableTracks
<1> HIDE DEF ml, rd
<1>9. st.mloc \in MoveLoc /\ Queued(st.ready, st.mloc) /\ (HasStray(rd) => HasStray(st.ready))
  BY <1>1, <1>2, <1>8, HandOverMovesCarries
<1>10. \A n \in DOMAIN on : on[n] \in Int
  BY <1>3, DecrementCalls
<1> HIDE DEF st, on
<1>11. /\ Queued(Enable(st.ready, st.move, st.mloc, on), EnableLoc(st.move, st.mloc, on))
       /\ HasStray(st.ready) => HasStray(Enable(st.ready, st.move, st.mloc, on))
  BY <1>9, <1>10, EnableQueued
<1>12. QED
  BY <1>1, <1>6, <1>8, <1>9, <1>11 DEF QueueKept

(* Every step of colorize() keeps moves.ready in agreement, and no exception  *)
(* leaves it while its front is an entry.                                    *)
LEMMA QueueNext ==
  ASSUME ColoringInv, MovesInv, QueueInv, [Next]_vars
  PROVE  QueueInv' /\ QueueKept
<1>1. ASSUME NEW n \in Node, Simplify(n) PROVE QueueInv' /\ QueueKept
  <2>1. phase = "colorize" /\ phase' = "colorize"
    BY <1>1 DEF Simplify
  <2>2. QED
    BY <1>1, <2>1, SimplifyQueued DEF QueueKept, QueueInv
<1>2. ASSUME NEW n \in Node, Freeze(n) \/ Spill(n) PROVE QueueInv' /\ QueueKept
  <2>1. /\ phase = "colorize" /\ phase' = phase /\ ready = <<>> /\ ready' = ready
        /\ \A mov \in Node \X Node : mloc'[mov] \in {mloc[mov], "frozen"}
    BY <1>2 DEF Freeze, Spill, GiveUpMoves
  <2>2. \A mov \in Node \X Node : mloc[mov] # "ready"
    BY <2>1, EmptyQueue DEF QueueInv
  <2>3. \A mov \in Node \X Node : mloc'[mov] = "ready" <=> mloc[mov] = "ready"
    BY <2>1, <2>2
  <2>4. QED
    BY <2>1, <2>3 DEF QueueInv, QueueKept, Queued
(* A step that leaves the moves alone. *)
<1>3. ASSUME UNCHANGED <<mloc, ready>>
      PROVE  QueueKept
  BY <1>3 DEF QueueInv, QueueKept
<1>4. ASSUME NEW mov \in Node \X Node, NEW list \in MoveList \ {"ready"}, NEW ns,
             Coalesceable(mov), RetireMove(mov, list, ns)
      PROVE  QueueInv' /\ QueueKept
  <2>1. phase = "colorize" /\ phase' = phase
    BY <1>4 DEF Coalesceable, Due, RetireMove
  <2>2. QED
    BY <1>4, <2>1, RetireQueued DEF QueueKept, QueueInv
<1>5. ASSUME NEW mov \in Node \X Node, Coalesce(mov) PROVE QueueInv' /\ QueueKept
  <2>1. CASE CoalesceUntracked(mov)
    <3>1. /\ mloc[mov] = "none" /\ ready # <<>> /\ mov = Head(ready)[1]
          /\ phase' = "throw" /\ UNCHANGED <<mloc, ready>>
      BY <2>1 DEF CoalesceUntracked, Due
    <3>2. Head(ready) = Entry(mov) \/ Head(ready)[2] = "stray"
      BY <3>1, FrontCell DEF QueueInv, Queued
    <3>3. Head(ready) # Entry(mov)
      BY <3>1, FrontCell DEF QueueInv, Queued
    <3>4. QED
      BY <1>3, <3>1, <3>2, <3>3 DEF QueueInv, QueueKept
  <2>2. CASE CoalesceMerge(mov)
    <3>1. phase' = "colorize"
      BY <2>2, CoalesceMergeMoves
    <3>2. QED
      BY <2>2, <3>1, MergeQueued DEF QueueKept, QueueInv
  <2>3. CASE CoalesceSame(mov)
    BY <1>4, <2>3 DEF CoalesceSame, MoveList
  <2>4. CASE CoalesceConstrained(mov)
    BY <1>4, <2>4 DEF CoalesceConstrained, MoveList
  <2>5. CASE CoalesceSchedule(mov)
    BY <1>4, <2>5 DEF CoalesceSchedule, MoveList
  <2>6. QED
    BY <1>5, <2>1, <2>2, <2>3, <2>4, <2>5 DEF Coalesce
<1>6. ASSUME NEW n \in Node, AssignColor(n) PROVE QueueInv' /\ QueueKept
  BY <1>3, <1>6 DEF AssignColor, QueueInv, QueueKept
<1>7. CASE Initialize
  BY <1>3, <1>7 DEF Initialize, QueueInv, QueueKept
<1>8. CASE Select
  BY <1>3, <1>8 DEF Select, QueueInv, QueueKept
<1>9. CASE Finish
  BY <1>3, <1>9 DEF Finish, QueueInv, QueueKept
<1>10. CASE Returned \/ UNCHANGED vars
  <2>1. UNCHANGED <<mloc, ready, phase>>
    BY <1>10 DEF Returned, vars
  <2>2. QED
    BY <1>3, <2>1 DEF QueueInv, QueueKept
<1>11. ready # <<>> => Head(ready)[1] \in Node \X Node
  BY FrontCell DEF QueueInv, Queued
<1>12. QED
  BY <1>1, <1>2, <1>5, <1>6, <1>7, <1>8, <1>9, <1>10, <1>11 DEF Next

-----------------------------------------------------------------------------
(* The copies that are always coalesced.                                     *)

(* The only copy of t is to or from the register r, which interferes with    *)
(* all that t interferes with.                                               *)
SafeCopy(t, r) ==
  /\ t \in Node \ Precolored /\ r \in Precolored
  /\ graph0.move[t] = {r}
  /\ r \notin graph0.interfere[t]
  /\ graph0.interfere[t] \subseteq graph0.interfere[r]

(* Until it is coalesced the copy is ready, so that t is not simplified and  *)
(* nothing is frozen or spilled, and the neighbours of t, whatever they were *)
(* merged into, interfere with r.                                            *)
Waiting(t, r) ==
  /\ phase \in {"initialize", "colorize", "throw"}
  /\ \A n \in Node : alias[n] = t <=> n = t
  /\ move[t] = {r} /\ mloc[<<t, r>>] = "ready"
  /\ loc[t] \in {"initial", "freeze", "to_spill"}
  /\ \A n \in interfere[t] : alias[n] # r /\ alias[n] \in interfere[r]

(* A safe copy waits until it is coalesced. *)
SafeInv == \A t, r \in Node : SafeCopy(t, r) => alias[t] = r \/ Waiting(t, r)

(* The whole of it. *)
AllocInv == ColoringInv /\ MovesInv /\ QueueInv /\ SafeInv

(* The copies of the program are all ready at first. *)
LEMMA SafeInit == Init => SafeInv
<1> SUFFICES ASSUME NEW edges \in SUBSET Pair, NEW moves \in SUBSET Pair,
                    Constructed(edges, moves), NEW t \in Node, NEW r \in Node, SafeCopy(t, r)
             PROVE  Waiting(t, r)
  BY DEF Init, SafeInv
<1>1. /\ graph0 = [interfere |-> Neighbours(edges), move |-> Neighbours(moves)]
      /\ interfere = graph0.interfere /\ move = graph0.move
      /\ alias = [n \in Node |-> n]
      /\ loc = [n \in Node |-> IF n \in Precolored THEN "precolored" ELSE "initial"]
      /\ mloc = [mov \in Node \X Node |-> IF mov[2] \in move[mov[1]] THEN "ready" ELSE "none"]
      /\ phase = "initialize"
  BY DEF Constructed
<1>2. move[t] = {r} /\ r \notin interfere[t] /\ interfere[t] \subseteq interfere[r]
      /\ t \notin Precolored
  BY <1>1 DEF SafeCopy
<1>3. interfere[t] \subseteq Node
  BY <1>1 DEF Neighbours
<1>4. mloc[<<t, r>>] = "ready"
  <2>1. <<t, r>> \in Node \X Node /\ r \in move[t]
    BY <1>2
  <2>2. QED
    BY <1>1, <2>1
<1>5. \A n \in interfere[t] : alias[n] # r /\ alias[n] \in interfere[r]
  BY <1>1, <1>2, <1>3
<1>6. QED
  BY <1>1, <1>2, <1>4, <1>5 DEF Waiting

(* A value whose copy is ready is move related. *)
LEMMA WaitingRelated ==
  ASSUME NEW t, NEW r, NEW mv, NEW ml, mv[t] = {r}, ml[<<t, r>>] = "ready"
  PROVE  MoveRelated(mv, ml, t)
BY DEF MoveRelated, EffectiveMoves

(* The register of a safe copy is a representative, its value no register.   *)
LEMMA SafeEnds ==
  ASSUME ColoringInv, NEW t \in Node, NEW r \in Node, SafeCopy(t, r)
  PROVE  loc[r] = "precolored" /\ alias[r] = r /\ loc[t] # "precolored" /\ t # r
         /\ Pin[t] = NoColor
BY DEF ColoringInv, Classes, SafeCopy, Precolored

(* A step that leaves the graph and the copy alone leaves it waiting. *)
LEMMA StillWaiting ==
  ASSUME NEW t, NEW r, Waiting(t, r),
         UNCHANGED <<interfere, alias, move>>,
         phase' \in {"initialize", "colorize", "throw"},
         mloc'[<<t, r>>] = "ready",
         loc'[t] \in {"initial", "freeze", "to_spill"}
  PROVE  Waiting(t, r)'
BY DEF Waiting

(* The copy is never the one that coalesce() retires: its ends are r and t,  *)
(* which do not interfere, and the George test accepts them.                 *)
LEMMA SafeCopyMerges ==
  ASSUME ColoringInv, MovesInv, NEW t \in Node, NEW r \in Node, SafeCopy(t, r), Waiting(t, r)
  PROVE  /\ Ends(<<t, r>>) = <<r, t>>
         /\ ~Interferes(r, t)
         /\ Mergable(r, t)
<1>1. loc[r] = "precolored" /\ alias[r] = r /\ loc[t] # "precolored" /\ t # r /\ Pin[t] = NoColor
  BY SafeEnds
<1>2. alias[t] = t
  BY DEF Waiting
<1>3. Ends(<<t, r>>) = <<r, t>>
  BY <1>1, <1>2 DEF Ends
<1>4. t \notin interfere[r]
  <2>1. t \in interfere[r] => r \in interfere[t]
    BY DEF ColoringInv, Edges
  <2>2. r \notin interfere[t]
    BY <1>1 DEF Waiting
  <2>3. QED
    BY <2>1, <2>2
<1>5. ~Interferes(r, t)
  BY <1>1, <1>2, <1>4 DEF Interferes
<1>6. George(r, t)
  BY <1>1 DEF George, Interferes, Waiting
<1>7. QED
  BY <1>1, <1>3, <1>5, <1>6 DEF Mergable

(* Retiring another move does not touch it. *)
LEMMA RetireSafe ==
  ASSUME ColoringInv, MovesInv, SafeInv, phase = "colorize",
         NEW mov \in Node \X Node, NEW list, NEW ns, RetireMove(mov, list, ns),
         Ends(mov)[1] = Ends(mov)[2] \/ loc[Ends(mov)[2]] = "precolored"
           \/ Interferes(Ends(mov)[1], Ends(mov)[2]) \/ ~Mergable(Ends(mov)[1], Ends(mov)[2])
  PROVE  SafeInv'
<1> SUFFICES ASSUME NEW t \in Node, NEW r \in Node, SafeCopy(t, r)'
             PROVE  alias'[t] = r \/ Waiting(t, r)'
  BY DEF SafeInv
<1>1. /\ UNCHANGED <<graph0, interfere, alias, move, phase>>
      /\ mloc' = [mloc EXCEPT ![mov] = list]
      /\ loc' = [n \in Node |-> IF n \in {m \in Range(ns) :
                      Unfreezes(move, [mloc EXCEPT ![mov] = list], degree, loc, m)}
                    THEN "simplify" ELSE loc[n]]
  BY DEF RetireMove
<1>2. SafeCopy(t, r)
  BY <1>1 DEF SafeCopy
<1>3. CASE alias[t] = r
  BY <1>1, <1>3
<1>4. CASE Waiting(t, r)
  <2>1. mov # <<t, r>>
    <3> SUFFICES ASSUME mov = <<t, r>> PROVE FALSE
      OBVIOUS
    <3>1. Ends(mov)[1] = r /\ Ends(mov)[2] = t /\ ~Interferes(r, t) /\ Mergable(r, t)
      BY <1>2, <1>4, SafeCopyMerges
    <3>2. r # t /\ loc[t] # "precolored"
      BY <1>2, SafeEnds
    <3>3. QED
      BY <3>1, <3>2
  <2>2. [mloc EXCEPT ![mov] = list][<<t, r>>] = "ready" /\ move[t] = {r}
    BY <1>4, <2>1 DEF Waiting, MovesInv, MoveType, MoveLoc
  <2>3. MoveRelated(move, [mloc EXCEPT ![mov] = list], t)
    BY <2>2, WaitingRelated
  <2>4. loc'[t] = loc[t]
    BY <1>1, <2>3 DEF Unfreezes
  <2>5. QED
    BY <1>1, <1>4, <2>2, <2>4, StillWaiting DEF Waiting
<1>5. QED
  BY <1>2, <1>3, <1>4 DEF SafeInv

(* Merging two other values keeps the neighbours of t neighbours of r.       *)
LEMMA MergeKeepsNeighbours ==
  ASSUME ColoringInv, NEW t \in Node, NEW r \in Node, SafeCopy(t, r), Waiting(t, r),
         NEW dest \in Node, NEW src \in Node, dest # src,
         alias[dest] = dest, alias[src] = src, dest # t, src # t, src # r,
         ~Interferes(dest, src),
         interfere' = Connect(dest, interfere[src]),
         alias' = [n \in Node |-> IF alias[n] = src THEN dest ELSE alias[n]]
  PROVE  \A n \in interfere'[t] : alias'[n] # r /\ alias'[n] \in interfere'[r]
<1>1. /\ interfere \in [Node -> SUBSET Node] /\ alias \in [Node -> Node]
      /\ \A a, b \in Node : b \in interfere[a] => a \in interfere[b]
      /\ alias[r] = r
  BY SafeEnds DEF ColoringInv, ColoringType, Edges
<1>2. \A n \in interfere[t] : n \in Node /\ alias[n] # r /\ alias[n] \in interfere[r]
  BY <1>1 DEF Waiting
<1> DEFINE new == {alias[n] : n \in interfere[src]} \ {dest}
<1>3. \A v \in Node : interfere'[v] = IF v = dest THEN interfere[v] \cup new
                                      ELSE IF v \in new THEN interfere[v] \cup {dest}
                                      ELSE interfere[v]
  BY DEF Connect
<1>4. interfere[r] \subseteq interfere'[r]
  BY <1>3
(* A neighbour of r that is merged leaves dest as one. *)
<1>5. src \in interfere[r] => dest # r /\ dest \in interfere'[r]
  <2> SUFFICES ASSUME src \in interfere[r] PROVE dest # r /\ dest \in interfere'[r]
    OBVIOUS
  <2>1. dest # r
    BY DEF Interferes
  <2>2. r \in interfere[src]
    BY <1>1
  <2>3. r \in new
    BY <1>1, <2>1, <2>2
  <2> HIDE DEF new
  <2>4. QED
    BY <1>3, <2>1, <2>3
<1>6. t \in new => src \in interfere[r]
  <2> SUFFICES ASSUME t \in new PROVE src \in interfere[r]
    OBVIOUS
  <2>1. PICK n \in interfere[src] : alias[n] = t
    OBVIOUS
  <2>2. n \in Node
    BY <1>1
  <2>3. n = t
    BY <2>1, <2>2 DEF Waiting
  <2>4. src \in interfere[t]
    BY <1>1, <2>1, <2>3
  <2>5. QED
    BY <1>2, <2>4
<1> HIDE DEF new
<1> TAKE n \in interfere'[t]
<1>7. n \in interfere[t] \/ (n = dest /\ src \in interfere[r])
  BY <1>3, <1>6
<1>8. CASE n = dest /\ src \in interfere[r]
  BY <1>5, <1>8
<1>9. CASE n \in interfere[t]
  <2>1. n \in Node /\ alias[n] # r /\ alias[n] \in interfere[r]
    BY <1>2, <1>9
  <2>2. CASE alias[n] = src
    <3>1. alias'[n] = dest
      BY <2>1, <2>2
    <3>2. QED
      BY <1>5, <2>1, <2>2, <3>1
  <2>3. CASE alias[n] # src
    <3>1. alias'[n] = alias[n]
      BY <2>1, <2>3
    <3>2. QED
      BY <1>4, <2>1, <3>1
  <2>4. QED
    BY <2>2, <2>3
<1>10. QED
  BY <1>7, <1>8, <1>9

(* merge() takes t into r, or two other values. *)
LEMMA CoalesceMergeSafe ==
  ASSUME ColoringInv, MovesInv, SafeInv, NEW mov \in Node \X Node, CoalesceMerge(mov)
  PROVE  SafeInv'
<1> DEFINE dest  == Ends(mov)[1]
           src   == Ends(mov)[2]
           l1    == [loc EXCEPT ![src] = "coalesced"]
           ml1   == [mloc EXCEPT ![mov] = "coalesced"]
           call  == [n \in {src} |-> src]
           ml    == EnableLoc(move, ml1, call)
           rd    == Enable(Unlink(ready, mloc, mov), move, ml1, call)
           st    == HandOverMoves(dest, src, ml, rd)
           d1    == ConnectDegree(dest, interfere[src])
           ns    == {n \in interfere[src] : l1[n] \notin OutOfGraph}
           d2    == Decremented(d1, l1, ns)
           on    == DecrementEnables(Connect(dest, interfere[src]), d1, l1, ns)
           ml2   == EnableLoc(st.move, st.mloc, on)
           l2    == DecrementLoc(st.move, st.mloc, d1, l1, ns)
           spill == d2[dest] >= K /\ l2[dest] = "freeze"
           l3    == IF spill THEN [l2 EXCEPT ![dest] = "to_spill"] ELSE l2
           free  == Unfreezes(st.move, ml2, d2, l3, dest)
<1> HIDE DEF ml1, call, ml, rd, st, d1, d2, ns, on, ml2
<1>1. /\ phase = "colorize" /\ phase' \in {"colorize", "throw"}
      /\ dest # src /\ loc[src] # "precolored" /\ ~Interferes(dest, src)
      /\ interfere' = Connect(dest, interfere[src])
      /\ move' = st.move /\ mloc' = ml2
      /\ alias' = [n \in Node |-> IF alias[n] = src THEN dest ELSE alias[n]]
      /\ loc' = IF free THEN [l3 EXCEPT ![dest] = "simplify"] ELSE l3
      /\ UNCHANGED graph0
      /\ Tracked(mov)
  BY DEF CoalesceMerge, Coalesceable, Due, Tracked, ml1, call, ml, rd, st, d1, d2, ns, on, ml2
<1>3. dest \in Node /\ src \in Node /\ alias[dest] = dest /\ alias[src] = src
  BY EndsAreRoots
<1>4. dest \in move[src] /\ src \in move[dest]
  BY <1>1, DueEnds
<1>5. Merging(dest, src, ml)
  <2>1. dest = Ends(mov)[1] /\ src = Ends(mov)[2]
    OBVIOUS
  <2> HIDE DEF dest, src
  <2>2. QED
    BY <1>1, <2>1, MergeStarts DEF ml, ml1
<1>6. alias \in [Node -> Node] /\ loc \in [Node -> NodeList]
  BY DEF ColoringInv, ColoringType
<1>7. mov = <<mov[1], mov[2]>> /\ (dest = alias[mov[1]] \/ src = alias[mov[1]])
      /\ mov[1] \in Node
  BY DEF Ends
<1> HIDE DEF dest, src
<1>8. MergedMoves(dest, src, ml, st)
  <2>1. st = HandOverMoves(dest, src, ml, rd)
    BY DEF st
  <2>2. QED
    BY <1>5, <1>6, <2>1, HandOverEnds
<1>9. PICK last :
        /\ Handed(dest, src, ml, N, last)
        /\ st.ok = TRUE /\ st.mloc = last.mloc
        /\ st.move = [last.move EXCEPT ![dest] = (move[dest] \cup move[src]) \ {dest, src}]
  BY <1>8 DEF MergedMoves
<1>10. last.move \in [Node -> SUBSET Node] /\ last.mloc \in MoveLoc
  BY <1>9 DEF Handed
<1>11. phase' = "colorize"
  BY CoalesceMergeMoves
<1> SUFFICES ASSUME NEW t \in Node, NEW r \in Node, SafeCopy(t, r)'
             PROVE  alias'[t] = r \/ Waiting(t, r)'
  BY DEF SafeInv
<1>12. SafeCopy(t, r)
  BY <1>1 DEF SafeCopy
<1>13. loc[r] = "precolored" /\ alias[r] = r /\ loc[t] # "precolored" /\ t # r
  BY <1>12, SafeEnds
<1>14. src # r
  BY <1>1, <1>13
<1>15. CASE alias[t] = r
  <2>1. alias'[t] = r
    BY <1>1, <1>14, <1>15
  <2>2. QED
    BY <2>1
<1>16. CASE Waiting(t, r)
  <2>1. move[t] = {r} /\ mloc[<<t, r>>] = "ready" /\ alias[t] = t
        /\ loc[t] \in {"initial", "freeze", "to_spill"}
        /\ \A n \in Node : alias[n] = t <=> n = t
    BY <1>16 DEF Waiting
  <2>2. dest # t
    BY <1>4, <1>14, <2>1
  <2>3. CASE src = t
    <3>1. dest = r
      BY <1>4, <2>1, <2>3
    <3>2. alias'[t] = r
      BY <1>1, <2>1, <2>3, <3>1
    <3>3. QED
      BY <3>2
  <2>4. CASE src # t
    <3>1. t \notin move[src]
      <4>1. t \in move[src] => src \in move[t]
        BY <1>3, <2>1 DEF MovesInv, MoveSets
      <4>2. QED
        BY <1>14, <2>1, <4>1
    <3>2. st.move[t] = {r}
      <4>1. last.move[t] = move[t]
        BY <1>9, <2>2, <2>4, <3>1 DEF Handed
      <4>2. QED
        BY <1>9, <1>10, <2>1, <2>2, <4>1
    <3>3. mov # <<t, r>>
      BY <1>7, <2>1, <2>2, <2>4
    <3>4. ml[<<t, r>>] = "ready"
      <4>1. mloc \in MoveLoc
        BY DEF MovesInv, MoveType
      <4>2. ml1 \in MoveLoc /\ ml1[<<t, r>>] = "ready"
        BY <2>1, <3>3, <4>1 DEF ml1, MoveLoc, MoveList
      <4>3. \A p \in Node \X Node : ml1[p] = "ready" => ml[p] = "ready"
        BY <4>2, EnableTracks DEF ml
      <4>4. QED
        BY <4>2, <4>3
    <3>5. st.mloc[<<t, r>>] = "ready"
      BY <1>9, <1>14, <2>2, <2>4, <3>1, <3>4 DEF Handed
    <3>6. mloc'[<<t, r>>] = "ready"
      <4>1. \A p \in Node \X Node : st.mloc[p] = "ready" => ml2[p] = "ready"
        BY <1>9, <1>10, EnableTracks DEF ml2
      <4>2. QED
        BY <1>1, <3>5, <4>1
    <3>7. MoveRelated(st.move, st.mloc, t)
      BY <3>2, <3>5, WaitingRelated
    <3>8. l1[t] = loc[t] /\ l1 \in [Node -> NodeList]
      BY <1>3, <1>6, <2>4 DEF NodeList
    <3>9. l2[t] \in {loc[t], "freeze"} /\ l2 \in [Node -> NodeList]
      <4>1. l2[t] \in {l1[t], "freeze"}
        BY <3>7 DEF DecrementLoc
      <4>2. l2 \in [Node -> NodeList]
        BY <3>8 DEF DecrementLoc, NodeList
      <4>3. QED
        BY <3>8, <4>1, <4>2
    <3> HIDE DEF l1, l2, free
    <3>10. loc'[t] = l2[t]
      BY <1>1, <2>2, <3>9
    <3>11. loc'[t] \in {"initial", "freeze", "to_spill"}
      BY <2>1, <3>9, <3>10
    <3>12. \A n \in interfere'[t] : alias'[n] # r /\ alias'[n] \in interfere'[r]
      BY <1>1, <1>3, <1>12, <1>14, <1>16, <2>2, <2>4, MergeKeepsNeighbours
    <3>13. \A n \in Node : alias'[n] = t <=> n = t
      BY <1>1, <2>1, <2>2, <2>4
    <3>14. move'[t] = {r}
      BY <1>1, <3>2
    <3>15. QED
      BY <1>11, <3>6, <3>11, <3>12, <3>13, <3>14 DEF Waiting
  <2>5. QED
    BY <2>3, <2>4
<1>17. QED
  BY <1>12, <1>15, <1>16 DEF SafeInv

(* Every step of colorize() keeps the safe copies ready or has coalesced them. *)
LEMMA SafeNext ==
  ASSUME ColoringInv, MovesInv, QueueInv, SafeInv, [Next]_vars
  PROVE  SafeInv'
<1>1. ASSUME NEW n \in Node, Simplify(n) PROVE SafeInv'
  <2> DEFINE l  == [loc EXCEPT ![n] = "select_stack"]
             ns == Adjacent(interfere, l, n)
             on == DecrementEnables(interfere, degree, l, ns)
  <2>1. /\ mloc' = EnableLoc(move, mloc, on) /\ loc' = DecrementLoc(move, mloc, degree, l, ns)
        /\ loc[n] = "simplify" /\ phase = "colorize"
        /\ UNCHANGED <<graph0, interfere, move, alias, phase>>
    BY <1>1 DEF Simplify, IsFront
  <2> HIDE DEF ns, on
  <2> SUFFICES ASSUME NEW t \in Node, NEW r \in Node, SafeCopy(t, r)'
               PROVE  alias'[t] = r \/ Waiting(t, r)'
    BY DEF SafeInv
  <2>2. SafeCopy(t, r)
    BY <2>1 DEF SafeCopy
  <2>3. CASE alias[t] = r
    BY <2>1, <2>3
  <2>4. CASE Waiting(t, r)
    <3>1. mloc[<<t, r>>] = "ready" /\ move[t] = {r} /\ loc[t] \in {"initial", "freeze", "to_spill"}
      BY <2>4 DEF Waiting
    <3>2. MoveRelated(move, mloc, t)
      BY <3>1, WaitingRelated
    <3>3. mloc'[<<t, r>>] = "ready"
      BY <2>1, <3>1, EnableTracks DEF MovesInv, MoveType
    <3>4. l[t] = loc[t]
      BY <2>1, <3>1 DEF ColoringInv, ColoringType
    <3>5. loc'[t] \in {loc[t], "freeze"}
      BY <2>1, <3>2, <3>4 DEF DecrementLoc
    <3>6. QED
      BY <2>1, <2>4, <3>1, <3>3, <3>5, StillWaiting
  <2>5. QED
    BY <2>2, <2>3, <2>4 DEF SafeInv
<1>2. CASE Initialize
  <2>1. /\ loc' = [n \in Node |->
               IF loc[n] # "initial" THEN loc[n]
               ELSE IF Significant(n) THEN "to_spill"
               ELSE IF MoveRelated(move, mloc, n) THEN "freeze"
               ELSE "simplify"]
        /\ phase' = "colorize"
        /\ UNCHANGED <<graph0, interfere, move, alias, mloc>>
    BY <1>2 DEF Initialize
  <2> SUFFICES ASSUME NEW t \in Node, NEW r \in Node, SafeCopy(t, r)'
               PROVE  alias'[t] = r \/ Waiting(t, r)'
    BY DEF SafeInv
  <2>2. SafeCopy(t, r)
    BY <2>1 DEF SafeCopy
  <2>3. CASE alias[t] = r
    BY <2>1, <2>3
  <2>4. CASE Waiting(t, r)
    <3>1. mloc[<<t, r>>] = "ready" /\ move[t] = {r} /\ loc[t] \in {"initial", "freeze", "to_spill"}
      BY <2>4 DEF Waiting
    <3>2. MoveRelated(move, mloc, t)
      BY <3>1, WaitingRelated
    <3>3. loc'[t] \in {"initial", "freeze", "to_spill"}
      BY <2>1, <3>1, <3>2
    <3>4. QED
      BY <2>1, <2>4, <3>1, <3>3, StillWaiting
  <2>5. QED
    BY <2>2, <2>3, <2>4 DEF SafeInv
(* Nothing else is done while a copy is ready, or while colours are given.   *)
<1>3. ASSUME ready = <<>> \/ phase \in {"assign", "done"}, UNCHANGED <<graph0, alias>>
      PROVE  SafeInv'
  <2>1. \A t, r \in Node : ~Waiting(t, r)
    <3>1. ready = <<>> => \A t, r \in Node : mloc[<<t, r>>] # "ready"
      BY EmptyQueue DEF QueueInv
    <3>2. QED
      BY <1>3, <3>1 DEF Waiting
  <2>2. QED
    BY <1>3, <2>1 DEF SafeInv, SafeCopy
<1>4. ASSUME NEW mov \in Node \X Node, Coalesce(mov) PROVE SafeInv'
  <2>1. CASE CoalesceMerge(mov)
    BY <2>1, CoalesceMergeSafe
  <2>2. CASE CoalesceSame(mov)
    BY <2>2, RetireSafe DEF CoalesceSame, Coalesceable, Due
  <2>3. CASE CoalesceConstrained(mov)
    BY <2>3, RetireSafe DEF CoalesceConstrained, Coalesceable, Due
  <2>4. CASE CoalesceSchedule(mov)
    BY <2>4, RetireSafe DEF CoalesceSchedule, Coalesceable, Due
  <2>5. CASE CoalesceUntracked(mov)
    <3>1. UNCHANGED <<graph0, interfere, alias, move, mloc, loc>> /\ phase' = "throw"
      BY <2>5 DEF CoalesceUntracked
    <3>2. QED
      BY <3>1 DEF SafeInv, SafeCopy, Waiting
  <2>6. QED
    BY <1>4, <2>1, <2>2, <2>3, <2>4, <2>5 DEF Coalesce
<1>5. ASSUME NEW n \in Node, Freeze(n) \/ Spill(n) PROVE SafeInv'
  BY <1>3, <1>5 DEF Freeze, Spill, GiveUpMoves
<1>6. ASSUME NEW n \in Node, AssignColor(n) PROVE SafeInv'
  BY <1>3, <1>6 DEF AssignColor
<1>7. CASE Select
  BY <1>3, <1>7 DEF Select
<1>8. CASE Finish
  BY <1>3, <1>8 DEF Finish
<1>9. CASE Returned \/ UNCHANGED vars
  <2>1. UNCHANGED vars
    BY <1>9 DEF Returned
  <2>2. QED
    BY <2>1 DEF vars, SafeInv, SafeCopy, Waiting
<1>10. ready # <<>> => Head(ready)[1] \in Node \X Node
  BY FrontCell DEF QueueInv, Queued
<1>11. QED
  BY <1>1, <1>2, <1>4, <1>5, <1>6, <1>7, <1>8, <1>9, <1>10 DEF Next

(* The invariant of the allocator holds throughout colorize(). *)
THEOREM AllocInvariant == Spec => []AllocInv
<1>1. Init => AllocInv
  BY InitInv, MovesInit, QueueInit, SafeInit DEF AllocInv
<1>2. AllocInv /\ [Next]_vars => AllocInv'
  BY NextInv, MovesNext, QueueNext, SafeNext DEF AllocInv, QueueInv, Queued
<1> QED BY <1>1, <1>2, PTL DEF Spec

(* colorize() never gives one register to two values that interfere, for    *)
(* every graph, every set of copies and every number of registers, in       *)
(* whatever order nodes are removed, merged and picked for spilling.        *)
THEOREM ColoringIsProper == Spec => []ProperColoring
<1>1. AllocInv => ProperColoring
  <2> SUFFICES ASSUME AllocInv, phase = "done",
                      NEW a \in Node, NEW b \in graph0.interfere[a], colors[a] # NoColor
               PROVE  colors[a] # colors[b]
    BY DEF ProperColoring
  <2>1. b \in Node /\ alias[a] \in Node /\ alias[b] \in Node
    BY DEF AllocInv, ColoringInv, ColoringType
  <2>2. alias[b] \in interfere[alias[a]]
    BY DEF AllocInv, ColoringInv, EdgesKept
  <2>3. alias[alias[a]] = alias[a] /\ alias[alias[b]] = alias[b]
    BY <2>1 DEF AllocInv, ColoringInv, Classes
  <2>4. colors[a] = colors[alias[a]] /\ colors[b] = colors[alias[b]]
    BY <2>1 DEF AllocInv, ColoringInv, Shared
  <2> QED BY <2>1, <2>2, <2>3, <2>4 DEF AllocInv, ColoringInv, ProperRoots
<1> QED BY <1>1, AllocInvariant, PTL

(* The answer of colorize() is complete: a value has a register exactly if  *)
(* it is not reported as spilled, and a register proxy has its register.    *)
THEOREM ColoringIsAnswered == Spec => []Answered
<1>1. AllocInv => Answered
  BY DEF AllocInv, ColoringInv
<1> QED BY <1>1, AllocInvariant, PTL

(* Coalescing never merges two values that interfere, nor drops the edge    *)
(* between their classes.                                                   *)
THEOREM CoalescingKeepsEdges == Spec => []EdgesKept
<1>1. AllocInv => EdgesKept
  BY DEF AllocInv, ColoringInv
<1> QED BY <1>1, AllocInvariant, PTL

(* The tables of the allocator hold what their C++ types say. *)
THEOREM AllocatorTyped == Spec => []TypeOK
<1>1. AllocInv => TypeOK
  BY DEF AllocInv, ColoringInv, ColoringType, MovesInv, MoveType, MoveLoc, QueueInv, Queued,
         Cell, TypeOK
<1> QED BY <1>1, AllocInvariant, PTL

(* Every move of a representative has its entry in both directions, whatever *)
(* was coalesced before and whatever entries were left behind, so that no     *)
(* lookup of merge() or effective_moves() fails.  The one at the start of     *)
(* coalesce() can: then the front of moves.ready is a stray of replace().     *)
THEOREM MovesStayTracked == Spec => []MovesTracked
<1>1. AllocInv => MovesTracked
  BY DEF AllocInv, MovesInv, MoveSets, Tracked, QueueInv, MovesTracked
<1> QED BY <1>1, AllocInvariant, PTL

(* A value whose only copy is to or from a register that interferes with all *)
(* its neighbours gets that register: the George half of mergable() accepts  *)
(* the copy before anything is frozen or spilled, whatever is merged first.  *)
THEOREM SafeMovesAreJoined == Spec => []SafeMovesJoined
<1>1. AllocInv => SafeMovesJoined
  <2> SUFFICES ASSUME AllocInv, phase = "done",
                      NEW t \in Node \ Precolored, NEW r \in Precolored,
                      graph0.move[t] = {r}, r \notin graph0.interfere[t],
                      graph0.interfere[t] \subseteq graph0.interfere[r]
               PROVE  colors[t] = Pin[r]
    BY DEF SafeMovesJoined
  <2>1. t \in Node /\ r \in Node /\ SafeCopy(t, r)
    BY DEF SafeCopy, Precolored
  <2>2. alias[t] = r
    BY <2>1 DEF AllocInv, SafeInv, Waiting
  <2>3. QED
    BY <2>1, <2>2 DEF AllocInv, ColoringInv, Shared, Answered
<1> QED BY <1>1, AllocInvariant, PTL
-----------------------------------------------------------------------------
(* Every turn of colorize() brings its end nearer.                           *)

(* The coalesced list grows with the classes. *)
LEMMA CoalescedStay ==
  ASSUME ColoringInv, ColoringInv', alias' = alias
  PROVE  UNCHANGED At("coalesced")
<1>1. /\ \A n \in Node : loc[n] = "coalesced" <=> alias[n] # n
      /\ \A n \in Node : loc'[n] = "coalesced" <=> alias'[n] # n
  BY DEF ColoringInv, Classes
<1>2. QED
  BY <1>1 DEF At

(* enable_moves makes scheduled moves ready: as many are left to look at. *)
LEMMA EnableActive ==
  ASSUME NEW mv, NEW ns, mloc' = EnableLoc(mv, mloc, ns)
  PROVE  UNCHANGED Active
BY DEF EnableLoc, Enabled, Active

(* simplify() takes a node out of the graph. *)
LEMMA SimplifyAdvances ==
  ASSUME ColoringInv, ColoringInv', NEW n \in Node, Simplify(n)
  PROVE  Advances
<1> DEFINE l  == [loc EXCEPT ![n] = "select_stack"]
           ns == Adjacent(interfere, l, n)
           on == DecrementEnables(interfere, degree, l, ns)
<1>1. /\ phase = "colorize" /\ phase' = "colorize" /\ alias' = alias
      /\ loc[n] = "simplify"
      /\ loc' = DecrementLoc(move, mloc, degree, l, ns)
      /\ mloc' = EnableLoc(move, mloc, on)
  BY DEF Simplify, IsFront
<1>2. loc \in [Node -> NodeList]
  BY DEF ColoringInv, ColoringType
<1>3. l \in [Node -> NodeList] /\ \A m \in ns : l[m] \notin OutOfGraph
  BY <1>2 DEF NodeList, Adjacent
<1>4. UNCHANGED At("coalesced")
  BY <1>1, CoalescedStay
<1> HIDE DEF ns, on
<1>5. UNCHANGED Active
  BY <1>1, EnableActive
<1> HIDE DEF l
<1>6. \A m \in Node : loc'[m] # l[m] =>
        l[m] \notin OutOfGraph /\ loc'[m] \in {"simplify", "freeze"}
  BY <1>1, <1>3, DecrementMovesNodes DEF OutOfGraph
<1>7. l[n] = "select_stack" /\ \A m \in Node \ {n} : l[m] = loc[m]
  BY <1>2 DEF l
<1>8. n \in InGraph /\ n \notin InGraph'
  BY <1>1, <1>6, <1>7 DEF InGraph, OutOfGraph
<1>9. InGraph' \subseteq InGraph
  BY <1>6, <1>7, <1>8 DEF InGraph, OutOfGraph
<1>10. QED
  BY <1>1, <1>4, <1>5, <1>8, <1>9 DEF Advances, Below

(* coalesce() is done with a move, or lets it wait. *)
LEMMA RetireAdvances ==
  ASSUME ColoringInv, ColoringInv', MovesInv, phase = "colorize", NEW mov \in Ready,
         NEW list \in {"coalesced", "constrained", "scheduled"}, NEW ns,
         RetireMove(mov, list, ns), list = "scheduled" => ns = <<>>
  PROVE  Advances
<1>1. /\ mloc' = [mloc EXCEPT ![mov] = list]
      /\ alias' = alias /\ phase' = phase
  BY DEF RetireMove
<1>2. UNCHANGED At("coalesced")
  BY <1>1, CoalescedStay
<1>3. mov \in Node \X Node /\ mloc[mov] = "ready" /\ mloc \in MoveLoc
  BY DEF Ready, MovesInv, MoveType
<1>4. /\ mloc'[mov] = list
      /\ \A m \in Node \X Node : m # mov => mloc'[m] = mloc[m]
  BY <1>1, <1>3 DEF MoveLoc
<1>5. CASE list # "scheduled"
  <2>1. Active' \subseteq Active /\ mov \in Active /\ mov \notin Active'
    BY <1>3, <1>4, <1>5 DEF Active
  <2>2. QED
    BY <1>1, <1>2, <2>1 DEF Advances, Below
<1>6. CASE list = "scheduled"
  <2>1. loc' = loc
    <3>1. loc' = [n \in Node |-> IF n \in {q \in Range(ns) :
                      Unfreezes(move, mloc', degree, loc, q)} THEN "simplify" ELSE loc[n]]
      BY <1>1 DEF RetireMove
    <3>2. Range(ns) = {}
      BY <1>6 DEF Range
    <3>3. QED
      BY <3>1, <3>2 DEF ColoringInv, ColoringType
  <2>2. UNCHANGED <<Active, InGraph>>
    BY <1>3, <1>4, <1>6, <2>1 DEF Active, InGraph
  <2>3. Ready' \subseteq Ready /\ mov \in Ready /\ mov \notin Ready'
    BY <1>3, <1>4, <1>6 DEF Ready
  <2>4. QED
    BY <1>1, <1>2, <2>2, <2>3 DEF Advances, Below
<1>7. QED
  BY <1>5, <1>6

(* merge() takes a value away for good, whatever becomes of the moves. *)
LEMMA MergeAdvances ==
  ASSUME ColoringInv, ColoringInv', MovesInv, NEW mov \in Node \X Node, CoalesceMerge(mov)
  PROVE  Advances
<1> DEFINE dest == Ends(mov)[1]
           src  == Ends(mov)[2]
<1>1. /\ phase = "colorize" /\ phase' \in {phase, "throw"} /\ dest # src
      /\ alias' = [n \in Node |-> IF alias[n] = src THEN dest ELSE alias[n]]
  BY DEF CoalesceMerge, Coalesceable, Due
<1>2. phase' = "colorize"
  BY CoalesceMergeMoves
<1>4. dest \in Node /\ src \in Node /\ alias[dest] = dest /\ alias[src] = src
  BY EndsAreRoots
<1> HIDE DEF dest, src
<1>5. /\ \A n \in Node : loc[n] = "coalesced" <=> alias[n] # n
      /\ \A n \in Node : loc'[n] = "coalesced" <=> alias'[n] # n
  BY DEF ColoringInv, Classes
<1>6. src \notin At("coalesced") /\ src \in At("coalesced")'
  BY <1>1, <1>4, <1>5 DEF At
<1>7. At("coalesced") \subseteq At("coalesced")'
  BY <1>1, <1>4, <1>5 DEF At
<1>8. QED
  BY <1>1, <1>2, <1>6, <1>7 DEF Advances, Below

(* freeze and spill give up a node, and with it moves that still waited. *)
LEMMA GiveUpAdvances ==
  ASSUME ColoringInv, ColoringInv', phase = "colorize", NEW n \in Node,
         loc[n] \in {"freeze", "to_spill"}, GiveUpMoves(n)
  PROVE  Advances
<1> DEFINE moves == EffectiveMoves(move, mloc, n)
           ml    == [mov \in Node \X Node |-> IF mov \in moves THEN "frozen" ELSE mloc[mov]]
           l     == [loc EXCEPT ![n] = "simplify"]
           freed == {m \in Node : /\ \E mov \in moves : m = alias[mov[2]]
                                  /\ ~MoveRelated(move, ml, m) /\ ~Significant(m)
                                  /\ l[m] = "freeze"}
<1>1. /\ mloc' = ml /\ phase' = phase /\ alias' = alias
      /\ loc' = [m \in Node |-> IF m \in freed THEN "simplify" ELSE l[m]]
  BY DEF GiveUpMoves
<1>2. UNCHANGED At("coalesced")
  BY <1>1, CoalescedStay
<1>3. l = [m \in Node |-> IF m = n THEN "simplify" ELSE loc[m]]
  BY DEF ColoringInv, ColoringType
<1>4. \A m \in freed : l[m] = "freeze"
  OBVIOUS
<1> HIDE DEF moves, freed, l
<1>5. Active' \subseteq Active
  BY <1>1 DEF Active
<1>6. Ready' \subseteq Active'
  BY DEF Ready, Active
<1>7. CASE Active' # Active
  BY <1>1, <1>2, <1>5, <1>7 DEF Advances, Below
<1>8. CASE Active' = Active
  <2>1. Ready' = Ready
    <3>1. \A mov \in Node \X Node : mloc'[mov] \in {mloc[mov], "frozen"}
      BY <1>1
    <3>2. \A mov \in Node \X Node : mloc[mov] = "ready" => mloc'[mov] # "frozen"
      BY <1>8 DEF Active
    <3>3. QED
      BY <3>1, <3>2 DEF Ready
  <2>2. UNCHANGED InGraph
    BY <1>1, <1>3, <1>4 DEF InGraph, OutOfGraph
  <2>3. Pending' \subseteq Pending /\ n \in Pending /\ n \notin Pending'
    BY <1>1, <1>3, <1>4 DEF Pending, At
  <2>4. QED
    BY <1>1, <1>2, <1>8, <2>1, <2>2, <2>3 DEF Advances, Below
<1>9. QED
  BY <1>7, <1>8

(* A colour is given, or found to be missing, once for every stacked node. *)
LEMMA AssignAdvances ==
  ASSUME ColoringInv, NEW n \in Node, AssignColor(n)
  PROVE  Advances
<1>1. /\ phase = "assign" /\ phase' = "assign"
      /\ loc[n] = "select_stack"
      /\ \E list \in {"spilled", "colored"} : loc' = [loc EXCEPT ![n] = list]
  BY DEF AssignColor, IsBack
<1>2. loc \in [Node -> NodeList]
  BY DEF ColoringInv, ColoringType
<1>3. At("select_stack")' \subseteq At("select_stack")
      /\ n \in At("select_stack") /\ n \notin At("select_stack")'
  BY <1>1, <1>2 DEF At
<1>4. QED
  BY <1>1, <1>3 DEF Advances, Below

(* So does every step but the ones after the return, while there is no stray *)
(* whose move is retired again and again.                                    *)
LEMMA NextAdvances ==
  ASSUME ColoringInv, MovesInv, QueueInv, ColoringInv', ~Strayed, Next
  PROVE  Advances \/ Returned
<1>1. /\ ready \in Seq(Cell) /\ DOMAIN ready = 1 .. Len(ready)
      /\ \A p \in Node \X Node : (\E i \in 1 .. Len(ready) : ready[i] = Entry(p)) => p \in Ready
  BY LenProperties DEF QueueInv, Queued, Ready
<1>2. ready # <<>> => Head(ready)[1] \in Ready
  <2> SUFFICES ASSUME ready # <<>> PROVE Head(ready)[1] \in Ready
    OBVIOUS
  <2>1. /\ Head(ready)[1] \in Node \X Node /\ Head(ready) = ready[1]
        /\ 1 \in 1 .. Len(ready)
        /\ Head(ready) = Entry(Head(ready)[1]) \/ Head(ready)[2] = "stray"
    BY <1>1, FrontCell
  <2>2. ready[1] = Entry(Head(ready)[1])
    BY <1>1, <2>1 DEF Strayed
  <2>3. QED
    BY <1>1, <2>1, <2>2
<1>3. ASSUME NEW mov \in Ready, Coalesce(mov) PROVE Advances
  <2>1. mov \in Node \X Node
    BY DEF Ready
  <2>2. CASE CoalesceMerge(mov)
    BY <2>1, <2>2, MergeAdvances
  <2>3. CASE CoalesceSame(mov)
    BY <2>3, RetireAdvances DEF CoalesceSame, Coalesceable, Due
  <2>4. CASE CoalesceConstrained(mov)
    BY <2>4, RetireAdvances DEF CoalesceConstrained, Coalesceable, Due
  <2>5. CASE CoalesceSchedule(mov)
    BY <2>5, RetireAdvances DEF CoalesceSchedule, Coalesceable, Due
  <2>6. CASE CoalesceUntracked(mov)
    BY <2>6 DEF CoalesceUntracked, Ready
  <2>7. QED
    BY <1>3, <2>2, <2>3, <2>4, <2>5, <2>6 DEF Coalesce
<1>4. ASSUME NEW n \in Node, Freeze(n) \/ Spill(n) PROVE Advances
  BY <1>4, GiveUpAdvances DEF Freeze, Spill, IsFront
<1>5. CASE Initialize \/ Select \/ Finish
  BY <1>5 DEF Initialize, Select, Finish, Advances, PhaseOrder
<1>6. QED
  BY <1>2, <1>3, <1>4, <1>5, SimplifyAdvances, AssignAdvances DEF Next

(* With one it stays in the list, so that the loop is never left. *)
LEMMA NextStrays ==
  ASSUME ColoringInv, MovesInv, QueueInv, Strayed, Next
  PROVE  Strayed' /\ phase' \in {"colorize", "throw"}
<1>1. /\ ready \in Seq(Cell) /\ DOMAIN ready = 1 .. Len(ready)
      /\ phase \in {"assign", "done"} => ready = <<>>
  BY LenProperties DEF QueueInv, Queued
<1>2. HasStray(ready) /\ ready # <<>>
  BY <1>1, EmptySeq DEF Strayed, HasStray
<1>3. Strayed'
  <2>1. Queued(ready, mloc)' /\ HasStray(ready)'
    BY <1>2, QueueNext DEF QueueKept, QueueInv
  <2>2. (DOMAIN ready = 1 .. Len(ready))'
    BY <2>1, LenProperties DEF Queued
  <2>3. QED
    BY <2>1, <2>2 DEF Strayed, HasStray
<1>4. ASSUME NEW n \in Node, Simplify(n) PROVE phase' = "colorize"
  BY <1>4 DEF Simplify
<1>5. ASSUME NEW mov \in Node \X Node, Coalesce(mov) PROVE phase' \in {"colorize", "throw"}
  BY <1>5, CoalesceMergeMoves
     DEF Coalesce, CoalesceUntracked, CoalesceSame, CoalesceConstrained, CoalesceSchedule,
         Coalesceable, Due, RetireMove
<1>6. ready # <<>> => Head(ready)[1] \in Node \X Node
  BY <1>1, FrontCell
<1>7. Initialize => phase' = "colorize"
  BY DEF Initialize
<1>8. ~Select /\ ~Finish /\ \A n \in Node : ~Freeze(n) /\ ~Spill(n) /\ ~AssignColor(n)
  BY <1>1, <1>2 DEF Select, Finish, Freeze, Spill, AssignColor
<1>9. Returned => phase' = "throw"
  BY <1>1, <1>2 DEF Returned, vars
<1>10. QED
  BY <1>2, <1>3, <1>4, <1>5, <1>6, <1>7, <1>8, <1>9 DEF Next

(* Each turn of colorize()'s loop and each colour given makes smaller what is *)
(* left to do, although degrees wrap, nodes return from the select stack and  *)
(* moves become ready again, as long as replace() has left no stray entry in  *)
(* moves.ready: on a graph whose merges leave none, colorize() terminates.    *)
(* With the first stray it never returns.                                    *)
THEOREM ColorizeAdvances == Spec => TurnsAdvance
<1> DEFINE Turn == IF Strayed THEN Strayed' /\ phase' \in {"colorize", "throw"} ELSE Advances
<1>1. AllocInv /\ AllocInv' /\ [Next]_vars => [Turn]_vars
  <2> SUFFICES ASSUME AllocInv, AllocInv', Next, vars' # vars PROVE Turn
    OBVIOUS
  <2>1. ~Returned
    BY DEF Returned
  <2>2. QED
    BY <2>1, NextAdvances, NextStrays DEF AllocInv
<1> QED BY <1>1, AllocInvariant, PTL DEF Spec, TurnsAdvance
=============================================================================
