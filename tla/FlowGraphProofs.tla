-------------------------- MODULE FlowGraphProofs --------------------------
(* Dominance, as FlowGraph defines it with paths, is an order on the blocks  *)
(* that can be reached, and the dominators of a block form a chain.  A path  *)
(* is never spelled out: the blocks that paths avoiding d reach are the      *)
(* least set that is closed under going on without d.                        *)
(* First come the facts about numbers and finite sets that the other proofs  *)
(* use too: a set of naturals that is not empty has a least member, and a    *)
(* bounded one a greatest; a fold over indices is a function that exists.    *)
EXTENDS FlowGraph, Integers, FiniteSets, FiniteSetsExt, FiniteSetTheorems, TLAPS

(* The least counterexample of an argument by induction. *)
LEMMA LeastMember ==
  ASSUME NEW T \in SUBSET Nat, T # {}
  PROVE  \E m \in T : \A n \in T : m <= n
<1> DEFINE R == OpToRel(<, Nat)
<1>1. IsWellFoundedOn(R, Nat)
  BY NatLessThanWellFounded DEF OpToRel
<1>2. PICK x \in T : \A y \in T : ~(<<y, x>> \in R)
  BY <1>1, WFMin
<1>3. \A y \in T : ~(y < x)
  BY <1>2 DEF OpToRel
<1>4. QED
  BY <1>3

(* The greatest: the distance to the bound has a least value. *)
LEMMA GreatestMember ==
  ASSUME NEW T \in SUBSET Nat, T # {}, NEW bound \in Nat, \A n \in T : n <= bound
  PROVE  \E m \in T : \A n \in T : n <= m
<1> DEFINE D == {k \in Nat : bound - k \in T}
<1>1. PICK n \in T : TRUE
  OBVIOUS
<1>2. bound - n \in Nat /\ bound - (bound - n) = n
  BY <1>1
<1>3. bound - n \in D
  BY <1>1, <1>2
<1>4. PICK d \in D : \A e \in D : d <= e
  BY <1>3, LeastMember
<1>5. ASSUME NEW t \in T PROVE t <= bound - d
  <2>1. bound - t \in D
    BY <1>5
  <2>2. QED
    BY <1>4, <2>1
<1>6. QED
  BY <1>4, <1>5

(* What holds at 0 and passes from n to n + 1 holds up to any bound. *)
LEMMA InductionUpTo ==
  ASSUME NEW S, NEW bound \in Nat, 0 \in S,
         \A n \in 0 .. bound - 1 : n \in S => n + 1 \in S
  PROVE  0 .. bound \subseteq S
<1> SUFFICES ASSUME ~(0 .. bound \subseteq S) PROVE FALSE
  OBVIOUS
<1> DEFINE T == {n \in 0 .. bound : n \notin S}
<1>1. T \in SUBSET Nat /\ T # {}
  OBVIOUS
<1>2. PICK m \in T : \A n \in T : m <= n
  BY <1>1, LeastMember
<1>3. m # 0 /\ m - 1 \in 0 .. bound - 1 /\ m - 1 \notin T
  BY <1>2
<1>4. m - 1 \in S /\ (m - 1) + 1 = m
  BY <1>3
<1>5. QED
  BY <1>3, <1>4

(* Max, on a set of indices. *)
LEMMA MaxOf ==
  ASSUME NEW n \in Nat, NEW s \in SUBSET (1 .. n), s # {}
  PROVE  Max(s) \in s /\ \A k \in s : k <= Max(s)
<1>1. s \in SUBSET Nat /\ \A k \in s : k <= n
  OBVIOUS
<1>2. \E m \in s : \A k \in s : k <= m
  BY <1>1, GreatestMember
<1>3. \E m \in s : \A k \in s : m >= k
  BY <1>1, <1>2
<1>4. QED
  BY <1>1, <1>3 DEF Max

(* iter folds g over the sets of indices up to n, the greatest index last. *)
IsFold(n, base, g, iter) ==
  \A s \in SUBSET (1 .. n) :
    iter[s] = IF s = {} THEN base ELSE g[<<Max(s), iter[s \ {Max(s)}]>>]

(* There is a fold of every g: it is built index by index. *)
LEMMA FoldExists ==
  ASSUME NEW n \in Nat, NEW A, NEW base \in A, NEW g \in [(1 .. n) \X A -> A]
  PROVE  \E iter \in [SUBSET (1 .. n) -> A] : IsFold(n, base, g, iter)
<1> DEFINE S == {m \in 0 .. n : \E iter \in [SUBSET (1 .. m) -> A] : IsFold(m, base, g, iter)}
<1>1. 0 \in S
  <2>1. PICK iter : iter = [s \in SUBSET (1 .. 0) |-> base]
    OBVIOUS
  <2>2. \A s \in SUBSET (1 .. 0) : s = {}
    OBVIOUS
  <2>3. IsFold(0, base, g, iter)
    BY <2>1, <2>2 DEF IsFold
  <2>4. iter \in [SUBSET (1 .. 0) -> A] /\ 0 \in 0 .. n
    BY <2>1
  <2>5. QED
    BY <2>3, <2>4, Zenon
<1>2. ASSUME NEW m \in 0 .. n - 1, m \in S PROVE m + 1 \in S
  <2>1. PICK iter \in [SUBSET (1 .. m) -> A] : IsFold(m, base, g, iter)
    BY <1>2
  <2>2. PICK next : next = [s \in SUBSET (1 .. m + 1) |->
                              IF m + 1 \in s THEN g[<<m + 1, iter[s \ {m + 1}]>>] ELSE iter[s]]
    OBVIOUS
  <2>3. m \in Nat /\ m + 1 \in 1 .. n /\ m + 1 \in 0 .. n
    OBVIOUS
  <2>4. ASSUME NEW s \in SUBSET (1 .. m + 1)
        PROVE  s \ {m + 1} \in SUBSET (1 .. m) /\ (m + 1 \notin s => s \in SUBSET (1 .. m))
    BY <2>3
  <2>5. next \in [SUBSET (1 .. m + 1) -> A]
    <3>1. ASSUME NEW s \in SUBSET (1 .. m + 1)
          PROVE  (IF m + 1 \in s THEN g[<<m + 1, iter[s \ {m + 1}]>>] ELSE iter[s]) \in A
      BY <2>3, <2>4
    <3>2. QED
      BY <2>2, <3>1
  <2>6. \A s \in SUBSET (1 .. m) : s \in SUBSET (1 .. m + 1) /\ m + 1 \notin s /\ next[s] = iter[s]
    <3> TAKE s \in SUBSET (1 .. m)
    <3>1. s \in SUBSET (1 .. m + 1) /\ m + 1 \notin s
      BY <2>3
    <3>2. QED
      BY <2>2, <3>1
  <2>7. ASSUME NEW s \in SUBSET (1 .. m + 1)
        PROVE  next[s] = IF s = {} THEN base ELSE g[<<Max(s), next[s \ {Max(s)}]>>]
    <3>1. CASE s = {}
      <4>1. s \in SUBSET (1 .. m)
        BY <3>1
      <4>2. next[s] = iter[s] /\ iter[s] = base
        BY <2>1, <2>6, <3>1, <4>1 DEF IsFold
      <4>3. QED
        BY <3>1, <4>2
    <3>2. CASE s # {} /\ m + 1 \notin s
      <4>1. s \in SUBSET (1 .. m)
        BY <2>4, <3>2
      <4>2. s \ {Max(s)} \in SUBSET (1 .. m)
        BY <4>1
      <4>3. iter[s] = g[<<Max(s), iter[s \ {Max(s)}]>>]
        BY <2>1, <3>2, <4>1 DEF IsFold
      <4>4. QED
        BY <2>6, <3>2, <4>1, <4>2, <4>3
    <3>3. CASE m + 1 \in s
      <4>1. m + 1 \in Nat /\ s # {}
        BY <2>3, <3>3
      <4>2. Max(s) \in s /\ \A k \in s : k <= Max(s)
        BY <4>1, MaxOf
      <4>3. Max(s) = m + 1
        <5>1. Max(s) \in 1 .. m + 1 /\ m + 1 <= Max(s)
          BY <3>3, <4>2
        <5> DEFINE x == Max(s)
        <5> HIDE DEF x
        <5>2. x \in 1 .. m + 1 /\ m + 1 <= x
          BY <5>1 DEF x
        <5>3. x = m + 1
          BY <5>2
        <5>4. QED
          BY <5>3 DEF x
      <4>4. s \ {m + 1} \in SUBSET (1 .. m)
        BY <2>4
      <4>5. next[s] = g[<<m + 1, iter[s \ {m + 1}]>>]
        BY <2>2, <3>3
      <4>6. next[s \ {m + 1}] = iter[s \ {m + 1}]
        BY <2>6, <4>4
      <4>7. QED
        BY <4>1, <4>3, <4>5, <4>6
    <3>4. QED
      BY <3>1, <3>2, <3>3
  <2>8. IsFold(m + 1, base, g, next)
    BY <2>7 DEF IsFold
  <2>9. QED
    BY <2>3, <2>5, <2>8
<1>3. 0 .. n \subseteq S
  <2> HIDE DEF S
  <2> QED BY <1>1, <1>2, InductionUpTo
<1>4. n \in S
  <2> HIDE DEF S
  <2> QED BY <1>3
<1>5. QED
  BY <1>4

-----------------------------------------------------------------------------
(* The blocks that some path from the entrance reaches without passing d. *)
Avoiding(pred, d) == {b \in Block : ~Dominates(pred, d, b)}

(* The entrance is a block, and 0 is not: no path passes it. *)
LEMMA EntryIsBlock == Entry \in Block /\ 0 \notin Block
BY NBAssumption DEF Block, Entry

(* The entrance, and a block with a predecessor that some path reaches       *)
(* without passing d, are reached without passing d, unless they are d.      *)
LEMMA PathsExtend ==
  ASSUME NEW pred \in [Block -> SUBSET Block], NEW b \in Block, NEW d,
         Dominates(pred, d, b), b # d
  PROVE  b # Entry /\ \A p \in pred[b] : Dominates(pred, d, p)
<1>1. PICK S \in SUBSET (Block \ {d}) : ClosedAvoiding(pred, S, d) /\ b \notin S
  BY DEF Dominates
<1>2. b # Entry
  BY <1>1 DEF ClosedAvoiding
<1>3. ASSUME NEW p \in pred[b] PROVE Dominates(pred, d, p)
  <2>1. p \notin S
    BY <1>1, b # d DEF ClosedAvoiding
  <2>2. QED
    BY <1>1, <2>1 DEF Dominates
<1>4. QED
  BY <1>2, <1>3

(* Every set that is closed under going on shows what it leaves out to be    *)
(* unreachable; Avoiding(pred, d) is closed under going on without d.        *)
LEMMA AvoidingClosed ==
  ASSUME NEW pred \in [Block -> SUBSET Block], NEW d, NEW b \in Block, b # d,
         b = Entry \/ pred[b] \cap Avoiding(pred, d) # {}
  PROVE  b \in Avoiding(pred, d)
BY PathsExtend DEF Avoiding

(* A set that holds the entrance and all that edges lead to from it holds    *)
(* every block that can be reached.                                          *)
LEMMA ClosedReaches ==
  ASSUME NEW pred \in [Block -> SUBSET Block], NEW S \in SUBSET Block, Entry \in S,
         \A b \in Block : pred[b] \cap S # {} => b \in S,
         NEW b \in Block, ~Unreachable(pred, b)
  PROVE  b \in S
<1>1. ClosedAvoiding(pred, S, 0)
  BY DEF ClosedAvoiding
<1>2. QED
  BY <1>1 DEF Unreachable

(* Every path to a block passes the block. *)
LEMMA DominatesItself ==
  ASSUME NEW pred, NEW b \in Block
  PROVE  Dominates(pred, b, b)
<1>1. ClosedAvoiding(pred, Block \ {b}, b)
  BY EntryIsBlock DEF ClosedAvoiding
<1>2. QED
  BY <1>1 DEF Dominates

(* Every path passes the entrance. *)
LEMMA EntryDominates ==
  ASSUME NEW pred, NEW b \in Block
  PROVE  Dominates(pred, Entry, b)
<1>1. ClosedAvoiding(pred, {}, Entry)
  BY DEF ClosedAvoiding
<1>2. QED
  BY <1>1 DEF Dominates

(* The empty path reaches the entrance and passes nothing else. *)
LEMMA EntryUndominated ==
  ASSUME NEW pred \in [Block -> SUBSET Block], NEW d, Dominates(pred, d, Entry)
  PROVE  d = Entry
BY PathsExtend, EntryIsBlock

(* A path that passes b passes what dominates b. *)
LEMMA DominatesTransitive ==
  ASSUME NEW pred \in [Block -> SUBSET Block],
         NEW a \in Block, NEW b \in Block, NEW c \in Block,
         Dominates(pred, a, b), Dominates(pred, b, c)
  PROVE  Dominates(pred, a, c)
<1>1. PICK S \in SUBSET (Block \ {a}) : ClosedAvoiding(pred, S, a) /\ b \notin S
  BY DEF Dominates
<1>2. PICK T \in SUBSET (Block \ {b}) : ClosedAvoiding(pred, T, b) /\ c \notin T
  BY DEF Dominates
<1> DEFINE U == S \cap T
<1>3. Entry # a => Entry \in U
  BY <1>1, <1>2 DEF ClosedAvoiding
<1>4. ASSUME NEW x \in Block \ {a}, pred[x] \cap U # {} PROVE x \in U
  <2>1. x \in S
    BY <1>1, <1>4 DEF ClosedAvoiding
  <2>2. x \in T
    BY <1>1, <1>2, <1>4, <2>1 DEF ClosedAvoiding
  <2>3. QED
    BY <2>1, <2>2
<1>5. ClosedAvoiding(pred, U, a)
  BY <1>3, <1>4 DEF ClosedAvoiding
<1>6. U \in SUBSET (Block \ {a}) /\ c \notin U
  BY <1>1, <1>2
<1>7. QED
  BY <1>5, <1>6 DEF Dominates

(* Two blocks cannot each come first on every path to the other. *)
LEMMA DominatesAntisymmetric ==
  ASSUME NEW pred \in [Block -> SUBSET Block], NEW d \in Block, NEW e \in Block,
         Dominates(pred, d, e), Dominates(pred, e, d), ~Unreachable(pred, e)
  PROVE  d = e
<1> SUFFICES ASSUME d # e PROVE FALSE
  OBVIOUS
<1> DEFINE S == Avoiding(pred, d) \cap Avoiding(pred, e)
<1>0. d \notin Avoiding(pred, e) /\ e \notin Avoiding(pred, d)
  BY DEF Avoiding
<1>1. Entry \in S
  <2>1. Entry # d /\ Entry # e
    BY EntryUndominated
  <2>2. QED
    BY <2>1, AvoidingClosed, EntryIsBlock
<1>2. ASSUME NEW x \in Block, pred[x] \cap S # {} PROVE x \in S
  <2>1. x # d => x \in Avoiding(pred, d)
    BY <1>2, AvoidingClosed
  <2>2. x # e => x \in Avoiding(pred, e)
    BY <1>2, AvoidingClosed
  <2>3. QED
    BY <1>0, <2>1, <2>2
<1>3. e \in S
  <2>1. S \in SUBSET Block
    BY DEF Avoiding
  <2>2. QED
    BY <1>1, <1>2, <2>1, ClosedReaches
<1>4. QED
  BY <1>0, <1>3

(* Of two dominators of a block one dominates the other: take the one that a *)
(* path to the block passes last.                                            *)
LEMMA DominatorsFormChain ==
  ASSUME NEW pred \in [Block -> SUBSET Block],
         NEW d \in Block, NEW e \in Block, NEW b \in Block, ~Unreachable(pred, b),
         Dominates(pred, d, b), Dominates(pred, e, b)
  PROVE  Dominates(pred, d, e) \/ Dominates(pred, e, d)
<1> SUFFICES ASSUME ~Dominates(pred, d, e), ~Dominates(pred, e, d) PROVE FALSE
  OBVIOUS
<1> DEFINE S == Avoiding(pred, d) \cup Avoiding(pred, e)
<1>0. e \in Avoiding(pred, d) /\ d \in Avoiding(pred, e) /\ d # e
  BY DominatesItself DEF Avoiding
<1>1. Entry \in S
  BY <1>0, AvoidingClosed, EntryIsBlock
<1>2. ASSUME NEW x \in Block, pred[x] \cap S # {} PROVE x \in S
  <2>1. CASE pred[x] \cap Avoiding(pred, d) # {}
    BY <1>0, <2>1, AvoidingClosed
  <2>2. CASE pred[x] \cap Avoiding(pred, e) # {}
    BY <1>0, <2>2, AvoidingClosed
  <2>3. QED
    BY <1>2, <2>1, <2>2
<1>3. b \in S
  <2>1. S \in SUBSET Block
    BY DEF Avoiding
  <2>2. QED
    BY <1>1, <1>2, <2>1, ClosedReaches
<1>4. QED
  BY <1>3 DEF Avoiding

(* What strictly dominates a block dominates all its predecessors. *)
LEMMA StrictlyAbovePredecessors ==
  ASSUME NEW pred \in [Block -> SUBSET Block], NEW b \in Block, NEW d,
         StrictlyDominates(pred, d, b), NEW p \in pred[b]
  PROVE  Dominates(pred, d, p)
BY PathsExtend DEF StrictlyDominates

(* The dominators of a block, its immediate dominator's and itself. *)
LEMMA AboveImmediate ==
  ASSUME NEW pred \in [Block -> SUBSET Block], NEW b \in Block, NEW d \in Block,
         ImmediatelyDominates(pred, d, b), NEW e \in Block
  PROVE  Dominates(pred, e, b) <=> e = b \/ Dominates(pred, e, d)
<1>1. StrictlyDominates(pred, e, b) => Dominates(pred, e, d)
  BY DEF ImmediatelyDominates
<1>2. Dominates(pred, e, d) => Dominates(pred, e, b)
  BY DominatesTransitive DEF ImmediatelyDominates, StrictlyDominates
<1>3. QED
  BY <1>1, <1>2, DominatesItself DEF StrictlyDominates

-----------------------------------------------------------------------------
(* The dominator tree.  A block is as deep in it as it has dominators. *)
Dominators(pred, b) == {d \in Block : Dominates(pred, d, b)}

Depth(pred, b) == Cardinality(Dominators(pred, b))

(* A block has finitely many dominators. *)
LEMMA DepthBounded ==
  ASSUME NEW pred, NEW b \in Block
  PROVE  IsFiniteSet(Dominators(pred, b)) /\ Depth(pred, b) \in 0 .. NB
<1>1. IsFiniteSet(Block) /\ Cardinality(Block) = NB /\ NB \in Nat
  BY NBAssumption, FS_Interval DEF Block
<1>2. Dominators(pred, b) \in SUBSET Block
  BY DEF Dominators
<1>3. IsFiniteSet(Dominators(pred, b)) /\ Cardinality(Dominators(pred, b)) <= NB
  BY <1>1, <1>2, FS_Subset
<1>4. Cardinality(Dominators(pred, b)) \in Nat
  BY <1>3, FS_CardinalityType
<1>5. QED
  BY <1>1, <1>3, <1>4 DEF Depth

(* A dominator is less deep than what it dominates. *)
LEMMA DepthGrows ==
  ASSUME NEW pred \in [Block -> SUBSET Block], NEW d \in Block, NEW e \in Block,
         ~Unreachable(pred, e), d # e, Dominates(pred, d, e)
  PROVE  Depth(pred, d) < Depth(pred, e)
<1>1. Dominators(pred, d) \subseteq Dominators(pred, e)
  BY DominatesTransitive DEF Dominators
<1>2. e \in Dominators(pred, e) /\ e \notin Dominators(pred, d)
  BY DominatesItself, DominatesAntisymmetric DEF Dominators
<1>3. Dominators(pred, d) # Dominators(pred, e)
  BY <1>2
<1>4. Depth(pred, d) <= Depth(pred, e) /\ Depth(pred, d) # Depth(pred, e)
  BY <1>1, <1>3, DepthBounded, FS_Subset DEF Depth
<1>5. Depth(pred, d) \in Nat /\ Depth(pred, e) \in Nat
  BY DepthBounded
<1>6. QED
  BY <1>4, <1>5

(* The deepest strict dominator of a block is the immediate one. *)
LEMMA DeepestIsImmediate ==
  ASSUME NEW pred \in [Block -> SUBSET Block], \A x \in Block : ~Unreachable(pred, x),
         NEW b \in Block, NEW d \in Block, StrictlyDominates(pred, d, b),
         \A e \in Block : StrictlyDominates(pred, e, b) => Depth(pred, e) <= Depth(pred, d)
  PROVE  ImmediatelyDominates(pred, d, b)
<1> SUFFICES ASSUME NEW e \in Block, StrictlyDominates(pred, e, b)
             PROVE  Dominates(pred, e, d)
  BY DEF ImmediatelyDominates
<1>1. CASE e = d
  BY <1>1, DominatesItself
<1>2. CASE e # d
  <2>1. Dominates(pred, d, e) \/ Dominates(pred, e, d)
    BY DominatorsFormChain DEF StrictlyDominates
  <2>2. ~Dominates(pred, d, e)
    <3>1. Depth(pred, e) <= Depth(pred, d)
      OBVIOUS
    <3>2. Depth(pred, d) \in Nat /\ Depth(pred, e) \in Nat
      BY DepthBounded
    <3>3. QED
      BY <1>2, <3>1, <3>2, DepthGrows
  <2>3. QED
    BY <2>1, <2>2
<1>3. QED
  BY <1>1, <1>2

(* Every block but the entrance has a deepest strict dominator. *)
LEMMA DeepestExists ==
  ASSUME NEW pred, NEW b \in Block, b # Entry
  PROVE  \E d \in Block : /\ StrictlyDominates(pred, d, b)
                          /\ \A e \in Block : StrictlyDominates(pred, e, b) =>
                               Depth(pred, e) <= Depth(pred, d)
<1> DEFINE depths == {k \in 0 .. NB : \E d \in Block : StrictlyDominates(pred, d, b) /\ Depth(pred, d) = k}
<1>1. Entry \in Block /\ StrictlyDominates(pred, Entry, b)
  BY EntryIsBlock, EntryDominates DEF StrictlyDominates
<1>2. \A d \in Block : StrictlyDominates(pred, d, b) => Depth(pred, d) \in depths
  BY DepthBounded
<1>3. NB \in Nat
  BY NBAssumption
<1>4. depths \in SUBSET Nat /\ depths # {} /\ \A k \in depths : k <= NB
  BY <1>1, <1>2, <1>3
<1>5. PICK k \in depths : \A j \in depths : j <= k
  <2> HIDE DEF depths
  <2>1. QED
    BY <1>3, <1>4, GreatestMember
<1>6. PICK d \in Block : StrictlyDominates(pred, d, b) /\ Depth(pred, d) = k
  OBVIOUS
<1>7. QED
  BY <1>2, <1>5, <1>6

(* build_dom_tree finds a parent for every block but the entrance. *)
LEMMA ImmediateExists ==
  ASSUME NEW pred \in [Block -> SUBSET Block], \A x \in Block : ~Unreachable(pred, x),
         NEW b \in Block, b # Entry
  PROVE  \E d \in Block : ImmediatelyDominates(pred, d, b)
BY DeepestExists, DeepestIsImmediate

(* No block has two parents in the dominator tree. *)
LEMMA ImmediateUnique ==
  ASSUME NEW pred \in [Block -> SUBSET Block], \A x \in Block : ~Unreachable(pred, x),
         NEW b \in Block, NEW d \in Block, NEW e \in Block,
         ImmediatelyDominates(pred, d, b), ImmediatelyDominates(pred, e, b)
  PROVE  d = e
BY DominatesAntisymmetric DEF ImmediatelyDominates

(* What holds at the entrance and passes from every block to those that it   *)
(* immediately dominates holds everywhere.                                   *)
LEMMA TreeInduction ==
  ASSUME NEW pred \in [Block -> SUBSET Block], \A x \in Block : ~Unreachable(pred, x),
         NEW S, Entry \in S,
         \A d, b \in Block : ImmediatelyDominates(pred, d, b) /\ d \in S => b \in S
  PROVE  Block \subseteq S
<1> SUFFICES ASSUME NEW bad \in Block, bad \notin S PROVE FALSE
  OBVIOUS
<1> DEFINE depths == {k \in 0 .. NB : \E b \in Block : b \notin S /\ Depth(pred, b) = k}
<1>1. Depth(pred, bad) \in depths /\ depths \in SUBSET Nat
  BY DepthBounded
<1>2. PICK k \in depths : \A j \in depths : k <= j
  <2> HIDE DEF depths
  <2>1. QED
    BY <1>1, LeastMember
<1>3. PICK b \in Block : b \notin S /\ Depth(pred, b) = k
  OBVIOUS
<1>4. PICK d \in Block : ImmediatelyDominates(pred, d, b)
  BY <1>3, ImmediateExists
<1>5. Depth(pred, d) < k
  BY <1>3, <1>4, DepthGrows DEF ImmediatelyDominates, StrictlyDominates
<1>6. d \notin S
  BY <1>3, <1>4
<1>7. Depth(pred, d) \in depths
  BY <1>6, DepthBounded
<1>8. k \in Nat /\ Depth(pred, d) \in Nat
  BY <1>1, <1>7
<1>9. QED
  BY <1>2, <1>5, <1>7, <1>8
=============================================================================
