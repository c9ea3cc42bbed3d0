------------------------- MODULE ConstructSSAProofs -------------------------
(* Proofs about ConstructSSA: on every control-flow graph and for every set  *)
(* of variables, phis are at the joins that need one and where versions do   *)
(* meet, and the renamed function reads what the original function reads.    *)
EXTENDS ConstructSSA, FlowGraphProofs, SequenceTheorems

-----------------------------------------------------------------------------
(* The function as it was written, and the analyses: none of it changes. *)
Pred == PredOf(succ)

Program ==
  /\ succ \in [Block -> SUBSET Block] /\ \A b \in Block : Entry \notin succ[b]
  /\ body \in [Block -> Seq(Inst)]
  /\ exit_use \in [Block -> SUBSET Var]
  /\ \A b \in Block : ~Unreachable(Pred, b)
  /\ children = [b \in Block |-> {c \in Block : ImmediatelyDominates(Pred, b, c)}]
  /\ frontier = [b \in Block |-> {w \in Block : InFrontier(Pred, w, b)}]
  /\ live = [b \in Block |-> {v \in Var : LiveIn(succ, body, exit_use, v, b)}]

(* What a block is when nothing is known but its type. *)
LEMMA PredType ==
  ASSUME Program
  PROVE  /\ Pred \in [Block -> SUBSET Block]
         /\ \A b, c \in Block : c \in succ[b] <=> b \in Pred[c]
BY DEF Program, Pred, PredOf

(* Instructions define and read variables. *)
LEMMA BodyType ==
  ASSUME Program, NEW b \in Block
  PROVE  /\ Len(body[b]) \in Nat
         /\ DOMAIN body[b] = 1 .. Len(body[b])
         /\ \A i \in 1 .. Len(body[b]) : body[b][i].def \subseteq Var /\ body[b][i].uses \subseteq Var
<1>1. body[b] \in Seq(Inst)
  BY DEF Program
<1>2. \A i \in 1 .. Len(body[b]) : body[b][i] \in Inst
  BY <1>1
<1>3. QED
  BY <1>1, <1>2, LenProperties DEF Inst

(* Liveness closes over the blocks that read a variable first and over those *)
(* that pass it on.                                                          *)
LEMMA LiveClosed ==
  ASSUME Program, NEW b \in Block, NEW v \in Var,
         \/ ReadsFirst(v, body[b], exit_use[b])
         \/ /\ \A i \in DOMAIN body[b] : v \notin body[b][i].def
            /\ \E c \in succ[b] : v \in live[c]
  PROVE  v \in live[b]
<1> SUFFICES ASSUME NEW S \in SUBSET Block,
                    \A c \in Block : \/ ReadsFirst(v, body[c], exit_use[c])
                                     \/ /\ \A i \in DOMAIN body[c] : v \notin body[c][i].def
                                        /\ succ[c] \cap S # {}
                                     => c \in S
             PROVE  b \in S
  BY DEF Program, LiveIn
<1>1. ASSUME NEW c \in succ[b], v \in live[c]
      PROVE  c \in S
  <2>1. c \in Block
    BY DEF Program
  <2>2. LiveIn(succ, body, exit_use, v, c)
    BY <1>1, <2>1 DEF Program
  <2>3. QED
    BY <2>2 DEF LiveIn
<1>2. QED
  BY <1>1

(* v is live before instruction i of b. *)
LiveAt(b, i, v) ==
  \/ \E j \in i .. Len(body[b]) : /\ v \in body[b][j].uses
                                  /\ \A k \in i .. j - 1 : v \notin body[b][k].def
  \/ /\ \A k \in i .. Len(body[b]) : v \notin body[b][k].def
     /\ v \in exit_use[b] \/ \E c \in succ[b] : v \in live[c]

(* What is live before the first instruction is live into the block. *)
LEMMA LiveAtStart ==
  ASSUME Program, NEW b \in Block, NEW v \in Var, LiveAt(b, 1, v)
  PROVE  v \in live[b]
<1> DEFINE n == Len(body[b])
           accesses == {i \in DOMAIN body[b] : v \in body[b][i].def \cup body[b][i].uses}
<1>0. n \in Nat /\ DOMAIN body[b] = 1 .. n
  BY BodyType
<1>1. accesses \in SUBSET Nat
  BY <1>0
<1>2. accesses = {} \/ \E m \in accesses : \A k \in accesses : m <= k
  <2> HIDE DEF accesses
  <2> QED BY <1>1, LeastMember
<1>3. CASE \E j \in 1 .. n : /\ v \in body[b][j].uses
                             /\ \A k \in 1 .. j - 1 : v \notin body[b][k].def
  <2>1. PICK j \in 1 .. n : /\ v \in body[b][j].uses
                            /\ \A k \in 1 .. j - 1 : v \notin body[b][k].def
    BY <1>3
  <2>2. j \in accesses
    BY <1>0, <2>1
  <2>3. PICK m \in accesses : \A k \in accesses : m <= k
    BY <1>2, <2>2
  <2>4. v \in body[b][m].uses
    <3>1. m <= j /\ m \in 1 .. n
      BY <2>2, <2>3, <1>0
    <3>2. CASE m = j
      BY <3>2, <2>1
    <3>3. CASE m # j
      <4>1. m \in 1 .. j - 1
        BY <1>0, <3>1, <3>3
      <4>2. v \notin body[b][m].def
        BY <2>1, <4>1
      <4>3. QED
        BY <2>3, <4>2
    <3>4. QED
      BY <3>2, <3>3
  <2>5. ReadsFirst(v, body[b], exit_use[b])
    BY <2>3, <2>4 DEF ReadsFirst
  <2>6. QED
    BY <2>5, LiveClosed
<1>4. CASE /\ \A k \in 1 .. n : v \notin body[b][k].def
           /\ v \in exit_use[b] \/ \E c \in succ[b] : v \in live[c]
  <2>1. CASE \E c \in succ[b] : v \in live[c]
    BY <1>0, <1>4, <2>1, LiveClosed
  <2>2. CASE v \in exit_use[b]
    <3>1. ReadsFirst(v, body[b], exit_use[b])
      BY <1>0, <1>2, <1>4, <2>2 DEF ReadsFirst
    <3>2. QED
      BY <3>1, LiveClosed
  <2>3. QED
    BY <1>4, <2>1, <2>2
<1>5. QED
  BY <1>3, <1>4 DEF LiveAt

(* An instruction that does not define v leaves it live if it was live       *)
(* before, and what is live after it is live before it.                      *)
LEMMA LiveBefore ==
  ASSUME Program, NEW b \in Block, NEW v \in Var, NEW i \in 1 .. Len(body[b]),
         v \notin body[b][i].def, LiveAt(b, i + 1, v)
  PROVE  LiveAt(b, i, v)
<1> DEFINE n == Len(body[b])
<1>0. n \in Nat
  BY BodyType
<1>1. CASE \E j \in i + 1 .. n : /\ v \in body[b][j].uses
                                 /\ \A k \in i + 1 .. j - 1 : v \notin body[b][k].def
  <2>1. PICK j \in i + 1 .. n : /\ v \in body[b][j].uses
                                /\ \A k \in i + 1 .. j - 1 : v \notin body[b][k].def
    BY <1>1
  <2>2. j \in i .. n /\ \A k \in i .. j - 1 : k = i \/ k \in i + 1 .. j - 1
    BY <1>0, <2>1
  <2>3. QED
    BY <2>1, <2>2 DEF LiveAt
<1>2. CASE /\ \A k \in i + 1 .. n : v \notin body[b][k].def
           /\ v \in exit_use[b] \/ \E c \in succ[b] : v \in live[c]
  <2>1. \A k \in i .. n : k = i \/ k \in i + 1 .. n
    BY <1>0
  <2>2. QED
    BY <1>2, <2>1 DEF LiveAt
<1>3. QED
  BY <1>1, <1>2 DEF LiveAt

-----------------------------------------------------------------------------
(* AddPhi.  Every block that defines v, by an instruction or by a phi, waits *)
(* in the loop of v or has a phi of v at each join of its frontier where v   *)
(* is live.                                                                  *)
Defined(b, v) == b \in Defines(v) \/ v \in phi[b]

(* The frontier of b has the phis that a definition of v in b calls for. *)
PhiClosed(b, v) == \A w \in frontier[b] : v \in live[w] => v \in phi[w]

(* The loops of AddPhi, over the variables and over the worklist of one. *)
PhiInv ==
  /\ pc \in {"phi", "rename", "run"}
  /\ allocs \subseteq Var
  /\ alloc = {} => worklist = {}
  /\ alloc # {} => \E v \in Var : alloc = {v} /\ v \notin allocs
  /\ worklist \subseteq in_worklist /\ in_worklist \subseteq Block
  /\ phi \in [Block -> SUBSET Var]
  /\ \A b \in Block : phi[b] \subseteq live[b] /\ phi[b] \cap allocs = {}
  /\ \A v \in alloc : in_worklist = {b \in Block : Defined(b, v)}
  /\ \A v \in Var \ allocs, b \in Block :
       Defined(b, v) => (v \in alloc /\ b \in worklist) \/ PhiClosed(b, v)
  /\ pc # "phi" => worklist = {} /\ allocs = {}

(* ConstructSSA starts from exact dominators, frontiers and live sets. *)
LEMMA ProgramInit == Init => Program
<1> SUFFICES ASSUME NEW graph \in [Block -> Targets], NEW insts \in [Block -> Seq(Inst)],
                    NEW uses \in [Block -> SUBSET Var], Construct(graph, insts, uses)
             PROVE  Program
  BY DEF Init
<1>1. succ = graph /\ body = insts /\ exit_use = uses
  BY DEF Construct
<1>2. succ \in [Block -> SUBSET Block] /\ \A b \in Block : Entry \notin succ[b]
  BY <1>1 DEF Targets
<1>3. QED
  BY <1>1, <1>2 DEF Construct, Program, Pred

(* The function as written stays what it was. *)
LEMMA ProgramKept == Program /\ UNCHANGED program => Program'
BY DEF Program, program, Pred

(* Before the first variable there are no phis. *)
LEMMA PhiInit == Init => PhiInv
BY DEF Init, Construct, PhiInv, Defined

(* The worklist of a variable begins with the blocks that define it. *)
LEMMA StartAllocInv ==
  ASSUME Program, PhiInv, NEW v \in Var, StartAlloc(v)
  PROVE  PhiInv'
<1>1. /\ pc = "phi" /\ pc' = pc /\ worklist = {} /\ v \in allocs
      /\ allocs' = allocs \ {v} /\ alloc' = {v}
      /\ worklist' = Defines(v) /\ in_worklist' = Defines(v)
      /\ phi' = phi /\ live' = live /\ frontier' = frontier /\ body' = body
  BY DEF StartAlloc, program
<1>2. Defines(v) \subseteq Block /\ \A w : Defines(w)' = Defines(w)
  BY <1>1 DEF Defines
<1>3. \A b \in Block : v \notin phi[b]
  BY <1>1 DEF PhiInv
<1>4. \A b, w : (Defined(b, w)' <=> Defined(b, w)) /\ (PhiClosed(b, w)' <=> PhiClosed(b, w))
  BY <1>1, <1>2 DEF Defined, PhiClosed
<1>5. in_worklist' = {b \in Block : Defined(b, v)}
  BY <1>1, <1>2, <1>3 DEF Defined
<1>6. ASSUME NEW w \in Var \ allocs', NEW b \in Block, Defined(b, w)
      PROVE  (w \in alloc' /\ b \in worklist') \/ PhiClosed(b, w)
  <2>1. CASE w = v
    BY <1>1, <1>3, <1>6, <2>1 DEF Defined
  <2>2. CASE w # v
    BY <1>1, <1>6, <2>2 DEF PhiInv
  <2>3. QED
    BY <2>1, <2>2
<1>7. QED
  BY <1>1, <1>2, <1>4, <1>5, <1>6 DEF PhiInv

(* A block leaves the worklist with the phis of its frontier in place, and   *)
(* a block that got its first phi enters it.                                 *)
LEMMA PlacePhiInv ==
  ASSUME Program, PhiInv, NEW b \in Block, PlacePhi(b)
  PROVE  PhiInv'
<1> DEFINE needy == {f \in frontier[b] : alloc \subseteq live[f]}
<1>1. /\ pc = "phi" /\ pc' = pc /\ b \in worklist
      /\ phi' = [c \in Block |-> IF c \in needy THEN phi[c] \cup alloc ELSE phi[c]]
      /\ worklist' = (worklist \ {b}) \cup (needy \ in_worklist)
      /\ in_worklist' = in_worklist \cup needy
      /\ alloc' = alloc /\ allocs' = allocs
      /\ live' = live /\ frontier' = frontier /\ body' = body
  BY DEF PlacePhi, program
<1>2. PICK v \in Var : alloc = {v} /\ v \notin allocs
  BY <1>1 DEF PhiInv
<1>3. needy \subseteq Block /\ needy = {f \in frontier[b] : v \in live[f]}
  BY <1>2 DEF Program
<1> HIDE DEF needy
<1>4. /\ \A c \in Block : phi'[c] = IF c \in needy THEN phi[c] \cup {v} ELSE phi[c]
      /\ phi' \in [Block -> SUBSET Var]
  BY <1>1, <1>2 DEF PhiInv
<1>5. \A w : Defines(w)' = Defines(w)
  BY <1>1 DEF Defines
<1>6. \A c \in Block : phi'[c] \subseteq live'[c] /\ phi'[c] \cap allocs' = {}
  BY <1>1, <1>2, <1>3, <1>4 DEF PhiInv
<1>7. \A w : \A c \in Block : Defined(c, w)' <=> Defined(c, w) \/ (w = v /\ c \in needy)
  BY <1>4, <1>5 DEF Defined
<1>8. in_worklist' = {c \in Block : Defined(c, v)'}
  <2>1. in_worklist = {c \in Block : Defined(c, v)}
    BY <1>2 DEF PhiInv
  <2>2. QED
    BY <1>1, <1>3, <1>7, <2>1
<1>9. ASSUME NEW w \in Var \ allocs', NEW c \in Block, Defined(c, w)'
      PROVE  (w \in alloc' /\ c \in worklist') \/ PhiClosed(c, w)'
  <2>0. ASSUME PhiClosed(c, w) PROVE PhiClosed(c, w)'
    <3> SUFFICES ASSUME NEW x \in frontier[c], w \in live[x] PROVE w \in phi'[x]
      BY <1>1 DEF PhiClosed
    <3>1. x \in Block
      BY DEF Program
    <3>2. w \in phi[x]
      BY <2>0 DEF PhiClosed
    <3>3. QED
      BY <3>1, <3>2, <1>4
  <2>1. CASE w # v
    BY <1>1, <1>2, <1>7, <1>9, <2>0, <2>1 DEF PhiInv
  <2>2. CASE w = v /\ c = b
    <3> SUFFICES ASSUME NEW x \in frontier[b], v \in live[x] PROVE v \in phi'[x]
      BY <1>1, <2>2 DEF PhiClosed
    <3>1. x \in Block /\ x \in needy
      BY <1>3 DEF Program
    <3>2. QED
      BY <3>1, <1>4
  <2>3. CASE w = v /\ c # b /\ Defined(c, v)
    BY <1>1, <1>2, <2>0, <2>3 DEF PhiInv
  <2>4. CASE w = v /\ c # b /\ ~Defined(c, v)
    <3>1. c \in needy
      BY <1>7, <1>9, <2>4
    <3>2. c \notin in_worklist
      BY <1>2, <2>4 DEF PhiInv
    <3>3. QED
      BY <1>1, <1>2, <2>4, <3>1, <3>2
  <2>5. QED
    BY <2>1, <2>2, <2>3, <2>4
<1>10. worklist' \subseteq in_worklist' /\ in_worklist' \subseteq Block
  BY <1>1, <1>3 DEF PhiInv
<1>11. QED
  BY <1>1, <1>2, <1>4, <1>6, <1>8, <1>9, <1>10 DEF PhiInv

(* Rename and the run leave the phis alone. *)
LEMMA PhiKept ==
  ASSUME PhiInv, UNCHANGED <<program, addPhi>>, pc' \in {"phi", "rename", "run"},
         \/ pc' = pc
         \/ pc = "phi" /\ worklist = {} /\ allocs = {}
         \/ pc = "rename"
  PROVE  PhiInv'
<1>1. \A b, v : (Defined(b, v)' <=> Defined(b, v)) /\ (PhiClosed(b, v)' <=> PhiClosed(b, v))
  BY DEF Defined, PhiClosed, Defines, program, addPhi
<1>2. QED
  BY <1>1 DEF PhiInv, program, addPhi

-----------------------------------------------------------------------------
(* Rename.  The places where a block defines a variable, counted. *)
LEMMA DefPlacesType ==
  ASSUME Program, PhiInv, NEW b \in Block, NEW v \in Var
  PROVE  /\ DefPlaces(b, v) \subseteq 0 .. Len(body[b])
         /\ IsFiniteSet(DefPlaces(b, v))
         /\ 0 \in DefPlaces(b, v) <=> v \in phi[b]
         /\ \A i \in 1 .. Len(body[b]) : i \in DefPlaces(b, v) <=> v \in body[b][i].def
         /\ DefPlaces(b, v) = {} <=> ~Defined(b, v)
<1>1. Len(body[b]) \in Nat /\ DOMAIN body[b] = 1 .. Len(body[b])
  BY BodyType
<1>2. \A i : i \in DefPlaces(b, v) <=>
         (i = 0 /\ v \in phi[b]) \/ (i \in 1 .. Len(body[b]) /\ v \in body[b][i].def)
  BY <1>1 DEF DefPlaces
<1>3. DefPlaces(b, v) \subseteq 0 .. Len(body[b])
  BY <1>1, <1>2
<1>4. IsFiniteSet(DefPlaces(b, v))
  <2>1. 0 \in Int /\ Len(body[b]) \in Int
    BY <1>1
  <2>2. IsFiniteSet(0 .. Len(body[b]))
    BY <2>1, FS_Interval
  <2>3. QED
    BY <1>3, <2>2, FS_Subset
<1>5. DefPlaces(b, v) = {} <=> ~Defined(b, v)
  BY <1>1, <1>2 DEF Defined, Defines
<1>6. QED
  BY <1>1, <1>2, <1>3, <1>4, <1>5

(* Counting the definitions of v instruction by instruction. *)
LEMMA DefsBeforeCounts ==
  ASSUME Program, PhiInv, NEW b \in Block, NEW v \in Var, NEW i \in Int
  PROVE  /\ DefsBefore(b, v, i) \in Nat /\ DefCount(b, v) \in Nat
         /\ DefsBefore(b, v, i) <= DefCount(b, v)
         /\ i > Len(body[b]) => DefsBefore(b, v, i) = DefCount(b, v)
         /\ DefsBefore(b, v, i) = 0 <=> \A j \in DefPlaces(b, v) : j >= i
         /\ i \notin DefPlaces(b, v) => DefsBefore(b, v, i + 1) = DefsBefore(b, v, i)
         /\ i \in DefPlaces(b, v) => DefsBefore(b, v, i + 1) = DefsBefore(b, v, i) + 1
<1> DEFINE P == DefPlaces(b, v)
           before == {j \in P : j < i}
           upto == {j \in P : j < i + 1}
<1>1. P \subseteq 0 .. Len(body[b]) /\ IsFiniteSet(P) /\ Len(body[b]) \in Nat
  BY DefPlacesType, BodyType
<1>2. before \in SUBSET P /\ DefsBefore(b, v, i) = Cardinality(before)
  BY DEF DefsBefore
<1>3. DefsBefore(b, v, i + 1) = Cardinality(upto)
  BY DEF DefsBefore
<1>4. DefCount(b, v) = Cardinality(P)
  BY DEF DefCount
<1>0. \A j \in P : j \in Int /\ j <= Len(body[b])
  BY <1>1
<1> HIDE DEF P
<1>5. IsFiniteSet(before) /\ Cardinality(before) <= Cardinality(P)
  BY <1>1, <1>2, FS_Subset
<1>6. Cardinality(before) \in Nat /\ Cardinality(P) \in Nat
  BY <1>1, <1>5, FS_CardinalityType
<1>7. ASSUME i > Len(body[b]) PROVE before = P
  <2>1. \A j \in P : j < i
    BY <1>0, <1>1, <1>7
  <2>2. QED
    BY <2>1
<1>8. Cardinality(before) = 0 <=> before = {}
  <2> HIDE DEF before
  <2> QED BY <1>5, FS_EmptySet
<1>9. before = {} <=> \A j \in P : j >= i
  BY <1>0
<1>10. ASSUME i \notin P PROVE upto = before
  BY <1>0, <1>10
<1>11. ASSUME i \in P PROVE Cardinality(upto) = Cardinality(before) + 1
  <2>0. \A j \in P : j < i + 1 <=> j < i \/ j = i
    BY <1>0
  <2>1. upto = before \cup {i} /\ i \notin before
    <3>1. i \notin before
      OBVIOUS
    <3>2. \A j : j \in upto <=> j \in before \cup {i}
      BY <1>11, <2>0
    <3>3. QED
      BY <3>1, <3>2
  <2> HIDE DEF upto, before
  <2>2. QED
    BY <2>1, <1>5, FS_AddElement
<1>12. QED
  BY <1>2, <1>3, <1>4, <1>5, <1>6, <1>7, <1>8, <1>9, <1>10, <1>11 DEF P

(* A later place of the block gets a later version. *)
LEMMA DefsBeforeGrows ==
  ASSUME Program, PhiInv, NEW b \in Block, NEW v \in Var,
         NEW i \in DefPlaces(b, v), NEW j \in Int, i < j
  PROVE  DefsBefore(b, v, i) < DefsBefore(b, v, j)
<1> DEFINE P == DefPlaces(b, v)
           upto == {k \in P : k < i + 1}
           before == {k \in P : k < j}
<1>1. P \subseteq 0 .. Len(body[b]) /\ IsFiniteSet(P) /\ Len(body[b]) \in Nat
  BY DefPlacesType, BodyType
<1>2. i \in Int /\ upto \in SUBSET before
  BY <1>1
<1>3. before \in SUBSET P
  OBVIOUS
<1>4. DefsBefore(b, v, i + 1) = Cardinality(upto) /\ DefsBefore(b, v, j) = Cardinality(before)
  BY DEF DefsBefore
<1> HIDE DEF P, before, upto
<1>5. IsFiniteSet(before)
  BY <1>1, <1>3, FS_Subset
<1>6. Cardinality(upto) <= Cardinality(before)
  BY <1>5, <1>2, FS_Subset
<1>7. DefsBefore(b, v, i + 1) = DefsBefore(b, v, i) + 1 /\ DefsBefore(b, v, i) \in Nat
  BY <1>2, DefsBeforeCounts
<1>8. DefsBefore(b, v, j) \in Nat
  BY DefsBeforeCounts
<1>9. QED
  BY <1>4, <1>6, <1>7, <1>8

(* The definitions of v in the blocks of S. *)
DefsIn(S, v) == {d \in S \X Nat : d[2] \in DefPlaces(d[1], v)}

(* Renaming one more block takes as many versions as the block has           *)
(* definitions.                                                              *)
LEMMA DefsInGrows ==
  ASSUME Program, PhiInv, NEW S \in SUBSET Block, NEW v \in Var,
         IsFiniteSet(DefsIn(S, v)), NEW b \in Block, b \notin S
  PROVE  /\ IsFiniteSet(DefsIn(S \cup {b}, v))
         /\ Cardinality(DefsIn(S \cup {b}, v)) = Cardinality(DefsIn(S, v)) + DefCount(b, v)
<1> DEFINE new == {b} \X DefPlaces(b, v)
<1>1. DefPlaces(b, v) \subseteq 0 .. Len(body[b]) /\ IsFiniteSet(DefPlaces(b, v)) /\ Len(body[b]) \in Nat
  BY DefPlacesType, BodyType
<1>2. IsFiniteSet({b}) /\ Cardinality({b}) = 1
  BY FS_Singleton
<1>3. IsFiniteSet(new) /\ Cardinality(new) = 1 * Cardinality(DefPlaces(b, v))
  BY <1>1, <1>2, FS_Product
<1>4. DefPlaces(b, v) \subseteq Nat
  BY <1>1
<1>5. DefsIn(S \cup {b}, v) = DefsIn(S, v) \cup new
  BY <1>4 DEF DefsIn
<1>6. DefsIn(S, v) \cap new = {}
  BY DEF DefsIn
<1>7. Cardinality(DefPlaces(b, v)) \in Nat /\ Cardinality(DefsIn(S, v)) \in Nat
  BY <1>1, FS_CardinalityType
<1> HIDE DEF new
<1>8. Cardinality({}) = 0
  BY FS_EmptySet
<1>9. /\ IsFiniteSet(DefsIn(S, v) \cup new)
      /\ Cardinality(DefsIn(S, v) \cup new) =
           Cardinality(DefsIn(S, v)) + Cardinality(new) - Cardinality(DefsIn(S, v) \cap new)
  BY <1>3, FS_Union
<1>10. Cardinality(new) = DefCount(b, v) /\ DefCount(b, v) \in Nat
  BY <1>3, <1>7 DEF DefCount
<1>11. Cardinality(DefsIn(S, v) \cup new) = Cardinality(DefsIn(S, v)) + DefCount(b, v)
  <2>1. Cardinality(DefsIn(S, v) \cap new) = 0
    BY <1>6, <1>8, Zenon
  <2>2. QED
    BY <1>7, <1>9, <1>10, <2>1
<1>12. QED
  BY <1>5, <1>9, <1>11

(* There are no more versions than Versions has. *)
LEMMA DefsInBounded ==
  ASSUME Program, PhiInv, NEW S \in SUBSET Block, NEW v \in Var
  PROVE  /\ IsFiniteSet(DefsIn(S, v))
         /\ Cardinality(DefsIn(S, v)) \in Versions(body)
         /\ 0 .. Cardinality(DefsIn(S, v)) \subseteq Versions(body)
<1> DEFINE places == [b \in Block |-> {b} \X DOMAIN body[b]]
           insts == UNION {{b} \X DOMAIN body[b] : b \in Block}
           phis == Block \X {0}
<1>1. IsFiniteSet(Block) /\ Cardinality(Block) = NB /\ NB \in Nat
  BY NBAssumption, FS_Interval DEF Block
<1>2. IsFiniteSet(phis) /\ Cardinality(phis) = NB
  <2>1. IsFiniteSet({0}) /\ Cardinality({0}) = 1
    BY FS_Singleton
  <2>2. IsFiniteSet(phis) /\ Cardinality(phis) = NB * 1
    BY <1>1, <2>1, FS_Product
  <2>3. QED
    BY <1>1, <2>2
<1>3. \A b \in Block : IsFiniteSet(places[b])
  <2> TAKE b \in Block
  <2>1. Len(body[b]) \in Nat /\ DOMAIN body[b] = 1 .. Len(body[b])
    BY BodyType
  <2>2. 1 \in Int /\ Len(body[b]) \in Int
    BY <2>1
  <2>5. IsFiniteSet(1 .. Len(body[b]))
    BY <2>2, FS_Interval
  <2>6. IsFiniteSet({b})
    BY FS_Singleton
  <2>3. IsFiniteSet({b} \X (1 .. Len(body[b])))
    BY <2>5, <2>6, FS_Product
  <2>4. QED
    BY <2>1, <2>3
<1>4. IsFiniteSet({{b} \X DOMAIN body[b] : b \in Block})
  <2> DEFINE T == {{b} \X DOMAIN body[b] : b \in Block}
  <2>1. places \in Surjection(Block, T)
    BY DEF Surjection
  <2> HIDE DEF T, places
  <2>2. IsFiniteSet(T)
    BY <1>1, <2>1, FS_Surjection
  <2> QED BY <2>2 DEF T
<1>5. IsFiniteSet(insts)
  <2> DEFINE T == {{b} \X DOMAIN body[b] : b \in Block}
  <2>1. \A X \in T : IsFiniteSet(X)
    BY <1>3
  <2>2. IsFiniteSet(T)
    BY <1>4
  <2> HIDE DEF T
  <2>3. IsFiniteSet(UNION T)
    BY <2>1, <2>2, FS_UNION
  <2> QED BY <2>3 DEF T
<1>6. DefsIn(S, v) \in SUBSET (phis \cup insts)
  <2> SUFFICES ASSUME NEW d \in S \X Nat, d[2] \in DefPlaces(d[1], v)
               PROVE  d \in phis \cup insts
    BY DEF DefsIn
  <2>1. PICK b \in Block, i \in Nat : d = <<b, i>> /\ i \in DefPlaces(b, v)
    OBVIOUS
  <2>2. DOMAIN body[b] = 1 .. Len(body[b]) /\ Len(body[b]) \in Nat /\ i \in 0 .. Len(body[b])
    BY <2>1, DefPlacesType, BodyType
  <2>3. CASE i = 0
    BY <2>1, <2>3
  <2>4. CASE i # 0
    <3>1. i \in DOMAIN body[b]
      BY <2>2, <2>4
    <3>2. d \in {b} \X DOMAIN body[b]
      BY <2>1, <3>1
    <3>3. QED
      BY <3>2
  <2>5. QED
    BY <2>3, <2>4
<1>7. Cardinality(insts) \in Nat
  BY <1>5, FS_CardinalityType
<1>8. Versions(body) = 0 .. NB + Cardinality(insts)
  BY DEF Versions
<1> HIDE DEF insts, phis, places
<1>9. IsFiniteSet(phis \cup insts) /\ IsFiniteSet(phis \cap insts)
      /\ Cardinality(phis \cup insts) = NB + Cardinality(insts) - Cardinality(phis \cap insts)
  BY <1>2, <1>5, FS_Union, FS_Intersection
<1>10. Cardinality(phis \cap insts) \in Nat
  BY <1>9, FS_CardinalityType
<1>11. IsFiniteSet(DefsIn(S, v)) /\ Cardinality(DefsIn(S, v)) <= Cardinality(phis \cup insts)
  BY <1>6, <1>9, FS_Subset
<1>12. Cardinality(DefsIn(S, v)) \in Nat
  BY <1>11, FS_CardinalityType
<1>13. QED
  BY <1>1, <1>7, <1>8, <1>9, <1>10, <1>11, <1>12

-----------------------------------------------------------------------------
(* The names that v has: before instruction i of b, where b defines it, and  *)
(* at the end of b.                                                          *)
UseName(b, v, i) == name[<<"use", b, i, v>>]
DefName(b, v, i) == name[<<"def", b, i, v>>]
EndName(b, v) == UseName(b, v, Len(body[b]) + 1)

(* A block that was renamed: before its first definition of v it reads what  *)
(* its immediate dominator ended with, afterwards its last definition, and   *)
(* the phis of its successors take what it ended with.                       *)
BlockRenamed(b, v) ==
  /\ \A i \in 1 .. Len(body[b]) + 1 : UseName(b, v, i) \in {Named} \cup (0 .. version[v] - 1)
  /\ \A i \in 1 .. Len(body[b]) + 1 : (\A j \in DefPlaces(b, v) : j >= i) =>
       \A d \in Block : b \in children[d] => UseName(b, v, i) = EndName(d, v)
  /\ \A i \in DefPlaces(b, v) : /\ DefName(b, v, i) \in 0 .. version[v] - 1
                                /\ UseName(b, v, i + 1) = DefName(b, v, i)
  /\ \A i \in 1 .. Len(body[b]) :
       i \notin DefPlaces(b, v) => UseName(b, v, i + 1) = UseName(b, v, i)
  /\ \A c \in succ[b] : v \in phi[c] => name[<<"arg", c, b, v>>] = EndName(b, v)

(* The blocks in done were renamed, each after its immediate dominator, and  *)
(* their definitions share the versions out.                                 *)
Renamed(done) ==
  /\ DOMAIN name = Slot(body)
  /\ \A v \in Var : version[v] = Cardinality(DefsIn(done, v))
  /\ \A b \in done, v \in Var : BlockRenamed(b, v)
  /\ \A b \in done, d \in Block : b \in children[d] => d \in done
  /\ \A v \in Var : \A b, c \in done : \A i \in DefPlaces(b, v), j \in DefPlaces(c, v) :
       DefName(b, v, i) = DefName(c, v, j) => b = c /\ i = j

(* The version at height n of the stack of v; the stack stands on the        *)
(* NamedValue.                                                               *)
AtHeight(v, n) == IF n = 0 THEN Named ELSE rename_stack[v][n]

(* Every read and every definition has a place in the table of names. *)
LEMMA Slots ==
  ASSUME Program, NEW b \in Block, NEW v \in Var
  PROVE  /\ \A i \in 0 .. Len(body[b]) + 1 :
              <<"use", b, i, v>> \in Slot(body) /\ <<"def", b, i, v>> \in Slot(body)
         /\ \A c \in Block : <<"arg", c, b, v>> \in Slot(body)
<1>1. ASSUME NEW i \in 0 .. Len(body[b]) + 1, NEW kind \in {"use", "def"}
      PROVE  <<kind, b, i, v>> \in Slot(body)
  <2>1. <<kind, b, i, v>> \in {"use", "def"} \X {b} \X (0 .. Len(body[b]) + 1) \X Var
    OBVIOUS
  <2>2. QED
    BY <2>1 DEF Slot
<1>2. ASSUME NEW c \in Block PROVE <<"arg", c, b, v>> \in Slot(body)
  BY DEF Slot
<1>3. QED
  BY <1>1, <1>2

(* The parts of a slot. *)
LEMMA SlotParts ==
  ASSUME NEW kind, NEW b, NEW i, NEW v
  PROVE  /\ <<kind, b, i, v>>[1] = kind /\ <<kind, b, i, v>>[2] = b
         /\ <<kind, b, i, v>>[3] = i /\ <<kind, b, i, v>>[4] = v
OBVIOUS

(* rename(b) gives names to the operands of b and to what the phis of its    *)
(* successors take from it, and to no other.                                 *)
LEMMA RenameBlockNames ==
  ASSUME Program, PhiInv, DOMAIN name = Slot(body), NEW b \in Block, RenameBlock(b),
         UNCHANGED <<program, phi>>, NEW c \in Block, NEW v \in Var
  PROVE  /\ DOMAIN name' = Slot(body')
         /\ \A i \in 1 .. Len(body[c]) + 1 :
              UseName(c, v, i)' = IF c = b THEN TopAt(b, v, i) ELSE UseName(c, v, i)
         /\ \A i \in DefPlaces(c, v) :
              DefName(c, v, i)' =
                IF c = b THEN version[v] + DefsBefore(b, v, i) ELSE DefName(c, v, i)
         /\ \A d \in Block : name'[<<"arg", d, c, v>>] =
              IF c = b /\ d \in succ[b] /\ v \in phi[d]
              THEN TopAt(b, v, Len(body[b]) + 1) ELSE name[<<"arg", d, c, v>>]
<1>1. name' = [s \in Slot(body) |-> NameIn(b, s)]
  BY DEF RenameBlock
<1>2. Len(body[c]) \in Nat /\ DefPlaces(c, v) \subseteq 0 .. Len(body[c])
  BY BodyType, DefPlacesType
<1>3. ASSUME NEW i \in 1 .. Len(body[c]) + 1
      PROVE  UseName(c, v, i)' = IF c = b THEN TopAt(b, v, i) ELSE UseName(c, v, i)
  <2>0. i \in 0 .. Len(body[c]) + 1 /\ i > 0
    BY <1>2
  <2>1. <<"use", c, i, v>> \in Slot(body) /\ i > 0
    BY <2>0, Slots
  <2>2. NameIn(b, <<"use", c, i, v>>) = IF c = b THEN TopAt(b, v, i) ELSE UseName(c, v, i)
    BY <2>1 DEF NameIn, UseName
  <2>3. QED
    BY <1>1, <2>1, <2>2 DEF UseName
<1>4. ASSUME NEW i \in DefPlaces(c, v)
      PROVE  DefName(c, v, i)' =
               IF c = b THEN version[v] + DefsBefore(b, v, i) ELSE DefName(c, v, i)
  <2>0. i \in 0 .. Len(body[c]) + 1
    BY <1>2
  <2>1. <<"def", c, i, v>> \in Slot(body)
    BY <2>0, Slots
  <2>2. NameIn(b, <<"def", c, i, v>>) =
          IF c = b THEN version[v] + DefsBefore(b, v, i) ELSE DefName(c, v, i)
    <3> DEFINE s == <<"def", c, i, v>>
    <3>1. s[1] = "def" /\ s[2] = c /\ s[3] = i /\ s[4] = v
      BY SlotParts
    <3> HIDE DEF s
    <3>2. NameIn(b, s) = IF c = b THEN version[v] + DefsBefore(b, v, i) ELSE name[s]
      BY <1>4, <3>1 DEF NameIn
    <3>3. QED
      BY <3>2 DEF DefName, s
  <2>3. QED
    BY <1>1, <2>1, <2>2 DEF DefName
<1>5. ASSUME NEW d \in Block
      PROVE  name'[<<"arg", d, c, v>>] =
               IF c = b /\ d \in succ[b] /\ v \in phi[d]
               THEN TopAt(b, v, Len(body[b]) + 1) ELSE name[<<"arg", d, c, v>>]
  <2>1. <<"arg", d, c, v>> \in Slot(body)
    BY Slots
  <2>2. NameIn(b, <<"arg", d, c, v>>) =
          IF c = b /\ d \in succ[b] /\ v \in phi[d]
          THEN TopAt(b, v, Len(body[b]) + 1) ELSE name[<<"arg", d, c, v>>]
    <3> DEFINE s == <<"arg", d, c, v>>
    <3>1. s[1] = "arg" /\ s[2] = d /\ s[3] = c /\ s[4] = v
      BY SlotParts
    <3> HIDE DEF s
    <3>2. NameIn(b, s) = IF c = b /\ d \in succ[b] /\ v \in phi[d]
                         THEN TopAt(b, v, Len(body[b]) + 1) ELSE name[s]
      BY <3>1 DEF NameIn
    <3>3. QED
      BY <3>2 DEF s
  <2>3. QED
    BY <1>1, <2>1, <2>2
<1>6. DOMAIN name' = Slot(body')
  BY <1>1 DEF program
<1>7. QED
  BY <1>3, <1>4, <1>5, <1>6

(* The stack of v holds versions that were given out. *)
StackTyped(v) == version[v] \in Nat /\ rename_stack[v] \in Seq(0 .. version[v] - 1)

(* What is on top of the stack while rename(b) goes through the block. *)
LEMMA TopAtFacts ==
  ASSUME Program, PhiInv, NEW b \in Block, NEW v \in Var, StackTyped(v)
  PROVE  /\ \A i \in 1 .. Len(body[b]) + 1 :
              /\ TopAt(b, v, i) \in {Named} \cup (0 .. version[v] + DefCount(b, v) - 1)
              /\ (\A j \in DefPlaces(b, v) : j >= i) =>
                   TopAt(b, v, i) = AtHeight(v, Len(rename_stack[v]))
         /\ \A i \in DefPlaces(b, v) :
              /\ TopAt(b, v, i + 1) = version[v] + DefsBefore(b, v, i)
              /\ version[v] + DefsBefore(b, v, i) \in version[v] .. version[v] + DefCount(b, v) - 1
         /\ \A i \in 1 .. Len(body[b]) :
              i \notin DefPlaces(b, v) => TopAt(b, v, i + 1) = TopAt(b, v, i)
<1> DEFINE n == Len(body[b])
           stack == rename_stack[v]
<1>1. n \in Nat /\ DefPlaces(b, v) \subseteq 0 .. n
  BY BodyType, DefPlacesType
<1>2. stack \in Seq(0 .. version[v] - 1) /\ version[v] \in Nat
  BY DEF StackTyped
<1>3. Len(stack) \in Nat /\ (Len(stack) = 0 <=> stack = <<>>)
  BY <1>2, EmptySeq, LenProperties
<1>4. Len(stack) # 0 => stack[Len(stack)] \in 0 .. version[v] - 1
  BY <1>2, <1>3
<1>5. \A i : TopAt(b, v, i) = IF DefsBefore(b, v, i) > 0 THEN version[v] + DefsBefore(b, v, i) - 1
                              ELSE AtHeight(v, Len(stack))
  BY <1>3 DEF TopAt, AtHeight, Last
<1>6. AtHeight(v, Len(stack)) \in {Named} \cup (0 .. version[v] - 1)
  BY <1>4 DEF AtHeight
<1> HIDE DEF n, stack
<1>7. ASSUME NEW i \in 1 .. n + 1
      PROVE  /\ TopAt(b, v, i) \in {Named} \cup (0 .. version[v] + DefCount(b, v) - 1)
             /\ (\A j \in DefPlaces(b, v) : j >= i) => TopAt(b, v, i) = AtHeight(v, Len(stack))
  <2>1. i \in Int
    BY <1>1
  <2>2. /\ DefsBefore(b, v, i) \in Nat /\ DefCount(b, v) \in Nat
        /\ DefsBefore(b, v, i) <= DefCount(b, v)
        /\ DefsBefore(b, v, i) = 0 <=> \A j \in DefPlaces(b, v) : j >= i
    BY <2>1, DefsBeforeCounts
  <2>3. QED
    BY <1>2, <1>5, <1>6, <2>2
<1>8. ASSUME NEW i \in DefPlaces(b, v)
      PROVE  /\ TopAt(b, v, i + 1) = version[v] + DefsBefore(b, v, i)
             /\ version[v] + DefsBefore(b, v, i) \in version[v] .. version[v] + DefCount(b, v) - 1
  <2>1. i \in Int /\ i + 1 \in Int
    BY <1>1
  <2>2. /\ DefsBefore(b, v, i) \in Nat /\ DefCount(b, v) \in Nat
        /\ DefsBefore(b, v, i + 1) = DefsBefore(b, v, i) + 1
    BY <2>1, DefsBeforeCounts
  <2>3. DefsBefore(b, v, i + 1) <= DefCount(b, v)
    BY <2>1, DefsBeforeCounts
  <2>4. DefsBefore(b, v, i + 1) > 0
    BY <2>2
  <2>5. TopAt(b, v, i + 1) = version[v] + DefsBefore(b, v, i + 1) - 1
    BY <1>5, <2>4
  <2>6. QED
    BY <1>2, <2>2, <2>3, <2>5
<1>9. ASSUME NEW i \in 1 .. n, i \notin DefPlaces(b, v)
      PROVE  TopAt(b, v, i + 1) = TopAt(b, v, i)
  <2>1. i \in Int
    BY <1>1
  <2>2. DefsBefore(b, v, i + 1) = DefsBefore(b, v, i)
    BY <1>9, <2>1, DefsBeforeCounts
  <2>3. QED
    BY <1>5, <2>2
<1>10. QED
  BY <1>7, <1>8, <1>9 DEF n, stack

(* rename(b) pushes the versions it gives out on what it found. *)
LEMMA RenameBlockPushes ==
  ASSUME Program, PhiInv, NEW b \in Block, RenameBlock(b), UNCHANGED <<program, phi>>,
         NEW v \in Var, StackTyped(v)
  PROVE  /\ StackTyped(v)'
         /\ version'[v] = version[v] + DefCount(b, v)
         /\ Len(rename_stack'[v]) = Len(rename_stack[v]) + DefCount(b, v)
         /\ \A n \in 0 .. Len(rename_stack[v]) : AtHeight(v, n)' = AtHeight(v, n)
         /\ AtHeight(v, Len(rename_stack[v]))' = TopAt(b, v, Len(body[b]) + 1)
<1> DEFINE stack == rename_stack[v]
           count == DefCount(b, v)
           new == [k \in 1 .. count |-> version[v] + k - 1]
<1>1. stack \in Seq(0 .. version[v] - 1) /\ version[v] \in Nat
  BY DEF StackTyped
<1>2. count \in Nat /\ Len(body[b]) \in Nat /\ DefsBefore(b, v, Len(body[b]) + 1) = count
  <2>1. Len(body[b]) \in Nat
    BY BodyType
  <2>2. Len(body[b]) + 1 \in Int /\ Len(body[b]) + 1 > Len(body[b])
    BY <2>1
  <2>3. QED
    BY <2>1, <2>2, DefsBeforeCounts
<1>3. rename_stack'[v] = stack \o new /\ version'[v] = version[v] + count
  BY DEF RenameBlock
<1> HIDE DEF count
<1>4. new \in Seq(0 .. version[v] + count - 1) /\ Len(new) = count
  <2>1. new \in [1 .. count -> 0 .. version[v] + count - 1]
    BY <1>1, <1>2
  <2>2. QED
    BY <1>2, <2>1, IsASeq, LenProperties
<1>5. stack \in Seq(0 .. version[v] + count - 1)
  <2>1. 0 .. version[v] - 1 \subseteq 0 .. version[v] + count - 1
    BY <1>1, <1>2
  <2>2. QED
    BY <1>1, <2>1, SeqMonotonic
<1>6. /\ stack \o new \in Seq(0 .. version[v] + count - 1)
      /\ Len(stack \o new) = Len(stack) + count
      /\ \A n \in 1 .. Len(stack) : (stack \o new)[n] = stack[n]
      /\ \A k \in 1 .. count : (stack \o new)[Len(stack) + k] = version[v] + k - 1
  <2>1. Len(stack) \in Nat
    BY <1>1, LenProperties
  <2>2. \A k \in 1 .. count : /\ Len(stack) + k \in 1 .. Len(stack) + Len(new)
                              /\ Len(stack) + k > Len(stack) /\ (Len(stack) + k) - Len(stack) = k
    BY <1>2, <1>4, <2>1
  <2>3. /\ stack \o new \in Seq(0 .. version[v] + count - 1)
        /\ Len(stack \o new) = Len(stack) + Len(new)
        /\ \A n \in 1 .. Len(stack) + Len(new) :
             (stack \o new)[n] = IF n <= Len(stack) THEN stack[n] ELSE new[n - Len(stack)]
    BY <1>4, <1>5, ConcatProperties
  <2>4. \A k \in 1 .. count : new[k] = version[v] + k - 1
    OBVIOUS
  <2> HIDE DEF new
  <2>5. \A k \in 1 .. count : (stack \o new)[Len(stack) + k] = new[k]
    BY <2>1, <2>2, <2>3
  <2>6. \A n \in 1 .. Len(stack) : (stack \o new)[n] = stack[n]
    BY <1>2, <1>4, <2>1, <2>3
  <2>7. QED
    BY <1>4, <2>3, <2>4, <2>5, <2>6
<1> HIDE DEF new
<1>7. Len(stack) \in Nat /\ (Len(stack) = 0 <=> stack = <<>>)
  BY <1>1, EmptySeq, LenProperties
<1>8. StackTyped(v)'
  <2>1. version[v] + count \in Nat /\ (version[v] + count) - 1 = version[v] + count - 1
    BY <1>1, <1>2
  <2>2. rename_stack'[v] \in Seq(0 .. version'[v] - 1) /\ version'[v] \in Nat
    BY <1>3, <1>6, <2>1
  <2>3. QED
    BY <2>2 DEF StackTyped
<1>9. \A n \in 0 .. Len(stack) : AtHeight(v, n)' = AtHeight(v, n)
  BY <1>3, <1>6, <1>7 DEF AtHeight
<1>10. AtHeight(v, Len(rename_stack[v]))' = TopAt(b, v, Len(body[b]) + 1)
  <2>1. CASE count = 0
    BY <1>2, <1>3, <1>6, <1>7, <1>9, <2>1 DEF AtHeight, TopAt, Last
  <2>2. CASE count # 0
    <3>1. count \in 1 .. count /\ Len(stack) + count # 0
      BY <1>2, <1>7, <2>2
    <3>2. AtHeight(v, Len(rename_stack[v]))' = version[v] + count - 1
      BY <1>3, <1>6, <3>1 DEF AtHeight
    <3>3. QED
      BY <1>2, <2>2, <3>2 DEF TopAt
  <2>3. QED
    BY <2>1, <2>2
<1>11. QED
  BY <1>3, <1>6, <1>8, <1>9, <1>10 DEF count

(* rename(b), called with what the immediate dominator of b ended with on    *)
(* the stacks, renames b and spoils no block that was renamed before.        *)
LEMMA RenameBlockRenames ==
  ASSUME Program, PhiInv, NEW done \in SUBSET Block, Renamed(done),
         NEW b \in Block, b \notin done, RenameBlock(b), UNCHANGED <<program, phi>>,
         \A v \in Var : StackTyped(v),
         \A d \in Block : b \in children[d] =>
           d \in done /\ \A v \in Var : AtHeight(v, Len(rename_stack[v])) = EndName(d, v)
  PROVE  Renamed(done \cup {b})'
<1>1. /\ DOMAIN name = Slot(body)
      /\ body' = body /\ succ' = succ /\ phi' = phi /\ children' = children
  BY DEF Renamed, program
<1>2. /\ \A c, v : DefPlaces(c, v)' = DefPlaces(c, v)
      /\ \A S, v : DefsIn(S, v)' = DefsIn(S, v)
  BY <1>1 DEF DefPlaces, DefsIn
<1>3. ASSUME NEW v \in Var
      PROVE  /\ version[v] \in Nat /\ DefCount(b, v) \in Nat
             /\ version'[v] = version[v] + DefCount(b, v)
             /\ version'[v] = Cardinality(DefsIn(done \cup {b}, v)')
  <2>1. version[v] \in Nat /\ version'[v] = version[v] + DefCount(b, v)
    BY RenameBlockPushes DEF StackTyped
  <2>2. IsFiniteSet(DefsIn(done, v))
    BY DefsInBounded
  <2>3. Cardinality(DefsIn(done \cup {b}, v)) = Cardinality(DefsIn(done, v)) + DefCount(b, v)
    BY <2>2, DefsInGrows
  <2>4. DefCount(b, v) \in Nat
    <3>1. 0 \in Int
      OBVIOUS
    <3>2. QED
      BY <3>1, DefsBeforeCounts
  <2>5. QED
    BY <1>2, <2>1, <2>3, <2>4 DEF Renamed
<1>4. ASSUME NEW c \in Block, NEW v \in Var
      PROVE  Len(body[c]) \in Nat /\ Len(body[c]) + 1 \in 1 .. Len(body[c]) + 1
             /\ DefPlaces(c, v) \subseteq 0 .. Len(body[c])
  BY BodyType, DefPlacesType
<1>5. ASSUME NEW c \in Block, NEW v \in Var
      PROVE  /\ \A i \in 1 .. Len(body[c]) + 1 :
                  UseName(c, v, i)' = IF c = b THEN TopAt(b, v, i) ELSE UseName(c, v, i)
             /\ \A i \in DefPlaces(c, v) : DefName(c, v, i)' =
                  IF c = b THEN version[v] + DefsBefore(b, v, i) ELSE DefName(c, v, i)
             /\ \A d \in Block : name'[<<"arg", d, c, v>>] =
                  IF c = b /\ d \in succ[b] /\ v \in phi[d]
                  THEN TopAt(b, v, Len(body[b]) + 1) ELSE name[<<"arg", d, c, v>>]
             /\ EndName(c, v)' = IF c = b THEN TopAt(b, v, Len(body[b]) + 1) ELSE EndName(c, v)
  <2>1. /\ \A i \in 1 .. Len(body[c]) + 1 :
             UseName(c, v, i)' = IF c = b THEN TopAt(b, v, i) ELSE UseName(c, v, i)
        /\ \A i \in DefPlaces(c, v) : DefName(c, v, i)' =
             IF c = b THEN version[v] + DefsBefore(b, v, i) ELSE DefName(c, v, i)
        /\ \A d \in Block : name'[<<"arg", d, c, v>>] =
             IF c = b /\ d \in succ[b] /\ v \in phi[d]
             THEN TopAt(b, v, Len(body[b]) + 1) ELSE name[<<"arg", d, c, v>>]
    BY <1>1, RenameBlockNames
  <2>2. PICK n \in 1 .. Len(body[c]) + 1 : n = Len(body[c]) + 1
    BY <1>4
  <2>3. EndName(c, v)' = UseName(c, v, n)' /\ EndName(c, v) = UseName(c, v, n)
    BY <1>1, <2>2 DEF EndName, UseName
  <2>4. EndName(c, v)' = IF c = b THEN TopAt(b, v, Len(body[b]) + 1) ELSE EndName(c, v)
    BY <2>1, <2>2, <2>3
  <2>5. QED
    BY <2>1, <2>4
<1>6. DOMAIN name' = Slot(body')
  BY <1>1, RenameBlockNames DEF RenameBlock
<1>7. ASSUME NEW v \in Var PROVE BlockRenamed(b, v)'
  <2>1. ASSUME NEW i \in 1 .. Len(body[b]) + 1
        PROVE  UseName(b, v, i)' \in {Named} \cup (0 .. version'[v] - 1)
    <3>1. TopAt(b, v, i) \in {Named} \cup (0 .. version[v] + DefCount(b, v) - 1)
      BY TopAtFacts
    <3>2. UseName(b, v, i)' = TopAt(b, v, i)
      BY <1>5
    <3>3. QED
      BY <1>3, <3>1, <3>2
  <2>2. ASSUME NEW i \in 1 .. Len(body[b]) + 1, \A j \in DefPlaces(b, v) : j >= i,
               NEW d \in Block, b \in children[d]
        PROVE  UseName(b, v, i)' = EndName(d, v)'
    <3>1. TopAt(b, v, i) = AtHeight(v, Len(rename_stack[v]))
      BY <2>2, TopAtFacts
    <3>2. d # b /\ AtHeight(v, Len(rename_stack[v])) = EndName(d, v)
      BY <2>2
    <3>3. UseName(b, v, i)' = TopAt(b, v, i) /\ EndName(d, v)' = EndName(d, v)
      BY <1>5, <3>2
    <3>4. QED
      BY <3>1, <3>2, <3>3
  <2>3. ASSUME NEW i \in DefPlaces(b, v)
        PROVE  /\ DefName(b, v, i)' \in 0 .. version'[v] - 1
               /\ UseName(b, v, i + 1)' = DefName(b, v, i)'
    <3>1. i + 1 \in 1 .. Len(body[b]) + 1
      BY <1>4
    <3>2. /\ TopAt(b, v, i + 1) = version[v] + DefsBefore(b, v, i)
          /\ version[v] + DefsBefore(b, v, i) \in version[v] .. version[v] + DefCount(b, v) - 1
      BY TopAtFacts
    <3>3. UseName(b, v, i + 1)' = TopAt(b, v, i + 1)
      BY <1>5, <3>1
    <3>4. DefName(b, v, i)' = version[v] + DefsBefore(b, v, i)
      BY <1>5
    <3>5. QED
      BY <1>3, <3>2, <3>3, <3>4
  <2>4. ASSUME NEW i \in 1 .. Len(body[b]), i \notin DefPlaces(b, v)
        PROVE  UseName(b, v, i + 1)' = UseName(b, v, i)'
    <3>1. i + 1 \in 1 .. Len(body[b]) + 1 /\ i \in 1 .. Len(body[b]) + 1
      BY <1>4
    <3>2. TopAt(b, v, i + 1) = TopAt(b, v, i)
      BY <2>4, TopAtFacts
    <3>3. QED
      BY <1>5, <3>1, <3>2
  <2>5. ASSUME NEW c \in succ[b], v \in phi[c]
        PROVE  name'[<<"arg", c, b, v>>] = EndName(b, v)'
    <3>1. c \in Block
      BY DEF Program
    <3>2. name'[<<"arg", c, b, v>>] = TopAt(b, v, Len(body[b]) + 1)
      BY <1>5, <2>5, <3>1
    <3>3. QED
      BY <1>5, <3>2
  <2>6. QED
    BY <1>1, <1>2, <2>1, <2>2, <2>3, <2>4, <2>5 DEF BlockRenamed
<1>8. ASSUME NEW c \in done, NEW v \in Var PROVE BlockRenamed(c, v)'
  <2>0. c \in Block /\ c # b /\ BlockRenamed(c, v)
    BY DEF Renamed
  <2>1. ASSUME NEW i \in 1 .. Len(body[c]) + 1
        PROVE  UseName(c, v, i)' \in {Named} \cup (0 .. version'[v] - 1)
    <3>1. UseName(c, v, i)' = UseName(c, v, i)
      BY <1>5, <2>0
    <3>2. UseName(c, v, i) \in {Named} \cup (0 .. version[v] - 1)
      BY <2>0 DEF BlockRenamed
    <3>3. QED
      BY <1>3, <3>1, <3>2
  <2>2. ASSUME NEW i \in 1 .. Len(body[c]) + 1, \A j \in DefPlaces(c, v) : j >= i,
               NEW d \in Block, c \in children[d]
        PROVE  UseName(c, v, i)' = EndName(d, v)'
    <3>1. d # b
      BY <2>2 DEF Renamed
    <3>2. UseName(c, v, i)' = UseName(c, v, i) /\ EndName(d, v)' = EndName(d, v)
      BY <1>5, <2>0, <3>1
    <3>3. UseName(c, v, i) = EndName(d, v)
      BY <2>0, <2>2 DEF BlockRenamed
    <3>4. QED
      BY <3>2, <3>3
  <2>3. ASSUME NEW i \in DefPlaces(c, v)
        PROVE  /\ DefName(c, v, i)' \in 0 .. version'[v] - 1
               /\ UseName(c, v, i + 1)' = DefName(c, v, i)'
    <3>1. i + 1 \in 1 .. Len(body[c]) + 1
      BY <1>4, <2>0
    <3>2. DefName(c, v, i) \in 0 .. version[v] - 1 /\ UseName(c, v, i + 1) = DefName(c, v, i)
      BY <2>0 DEF BlockRenamed
    <3>3. UseName(c, v, i + 1)' = UseName(c, v, i + 1) /\ DefName(c, v, i)' = DefName(c, v, i)
      BY <1>5, <2>0, <3>1
    <3>4. QED
      BY <1>3, <3>2, <3>3
  <2>4. ASSUME NEW i \in 1 .. Len(body[c]), i \notin DefPlaces(c, v)
        PROVE  UseName(c, v, i + 1)' = UseName(c, v, i)'
    <3>1. i + 1 \in 1 .. Len(body[c]) + 1 /\ i \in 1 .. Len(body[c]) + 1
      BY <1>4, <2>0
    <3>2. UseName(c, v, i + 1) = UseName(c, v, i)
      BY <2>0, <2>4 DEF BlockRenamed
    <3>3. QED
      BY <1>5, <2>0, <3>1, <3>2
  <2>5. ASSUME NEW d \in succ[c], v \in phi[d]
        PROVE  name'[<<"arg", d, c, v>>] = EndName(c, v)'
    <3>1. d \in Block
      BY <2>0 DEF Program
    <3>2. name[<<"arg", d, c, v>>] = EndName(c, v)
      BY <2>0, <2>5 DEF BlockRenamed
    <3>3. QED
      BY <1>5, <2>0, <3>1, <3>2
  <2>6. QED
    BY <1>1, <1>2, <2>1, <2>2, <2>3, <2>4, <2>5 DEF BlockRenamed
<1>9. ASSUME NEW v \in Var, NEW c \in done \cup {b}, NEW d \in done \cup {b},
             NEW i \in DefPlaces(c, v), NEW j \in DefPlaces(d, v),
             DefName(c, v, i)' = DefName(d, v, j)'
      PROVE  c = d /\ i = j
  <2>0. c \in Block /\ d \in Block
    OBVIOUS
  <2>1. ASSUME NEW x \in done, NEW k \in DefPlaces(x, v), NEW m \in DefPlaces(b, v)
        PROVE  DefName(x, v, k)' # DefName(b, v, m)'
    <3>1. x \in Block /\ x # b
      OBVIOUS
    <3>2. DefName(x, v, k)' = DefName(x, v, k) /\ DefName(b, v, m)' = version[v] + DefsBefore(b, v, m)
      BY <1>5, <3>1
    <3>3. DefName(x, v, k) \in 0 .. version[v] - 1
      BY DEF Renamed, BlockRenamed
    <3>4. version[v] + DefsBefore(b, v, m) \in version[v] .. version[v] + DefCount(b, v) - 1
      BY TopAtFacts
    <3>5. QED
      BY <1>3, <3>2, <3>3, <3>4
  <2>2. CASE c = b /\ d = b
    <3>1. i \in Int /\ j \in Int
      BY <1>4, <2>0
    <3>2. DefsBefore(b, v, i) \in Nat /\ DefsBefore(b, v, j) \in Nat
      BY <3>1, DefsBeforeCounts
    <3>3. version[v] + DefsBefore(b, v, i) = version[v] + DefsBefore(b, v, j)
      BY <1>5, <1>9, <2>2
    <3>4. DefsBefore(b, v, i) = DefsBefore(b, v, j)
      BY <1>3, <3>2, <3>3
    <3>5. ~(i < j) /\ ~(j < i)
      BY <2>2, <3>1, <3>2, <3>4, DefsBeforeGrows
    <3>6. QED
      BY <2>2, <3>1, <3>5
  <2>3. CASE c # b /\ d # b
    <3>1. DefName(c, v, i) = DefName(d, v, j)
      BY <1>5, <1>9, <2>0, <2>3
    <3>2. QED
      BY <2>3, <3>1 DEF Renamed
  <2>4. CASE c # b /\ d = b
    BY <1>9, <2>1, <2>4
  <2>5. CASE c = b /\ d # b
    BY <1>9, <2>1, <2>5
  <2>6. QED
    BY <2>2, <2>3, <2>4, <2>5
<1>10. \A c \in done \cup {b}, d \in Block : c \in children[d] => d \in done \cup {b}
  BY DEF Renamed
<1>11. \A c \in done \cup {b}, v \in Var : BlockRenamed(c, v)'
  BY <1>7, <1>8
<1>12. \A v \in Var : \A c, d \in done \cup {b} :
         \A i \in DefPlaces(c, v)', j \in DefPlaces(d, v)' :
           DefName(c, v, i)' = DefName(d, v, j)' => c = d /\ i = j
  BY <1>2, <1>9
<1>13. \A v \in Var : version'[v] = Cardinality(DefsIn(done \cup {b}, v)')
  BY <1>3
<1>14. QED
  BY <1>1, <1>6, <1>10, <1>11, <1>12, <1>13 DEF Renamed

(* The name at the end of a block changes only when the block is renamed. *)
LEMMA EndNames ==
  ASSUME Program, PhiInv, DOMAIN name = Slot(body), NEW b \in Block, RenameBlock(b),
         UNCHANGED <<program, phi>>, NEW c \in Block, NEW v \in Var
  PROVE  EndName(c, v)' = IF c = b THEN TopAt(b, v, Len(body[b]) + 1) ELSE EndName(c, v)
<1>1. Len(body[c]) \in Nat /\ body' = body
  BY BodyType DEF program
<1>2. PICK n \in 1 .. Len(body[c]) + 1 : n = Len(body[c]) + 1
  BY <1>1
<1>3. EndName(c, v)' = UseName(c, v, n)' /\ EndName(c, v) = UseName(c, v, n)
  BY <1>1, <1>2 DEF EndName, UseName
<1>4. UseName(c, v, n)' = IF c = b THEN TopAt(b, v, n) ELSE UseName(c, v, n)
  BY RenameBlockNames
<1>5. QED
  BY <1>2, <1>3, <1>4

(* Steps that leave names and versions alone leave renamed blocks renamed.   *)
LEMMA RenamedKept ==
  ASSUME NEW done, Renamed(done), UNCHANGED <<program, phi, name, version>>
  PROVE  Renamed(done)'
<1>1. /\ name' = name /\ version' = version /\ phi' = phi
      /\ body' = body /\ succ' = succ /\ children' = children
  BY DEF program
<1>2. \A b, v : DefPlaces(b, v)' = DefPlaces(b, v)
  BY <1>1 DEF DefPlaces
<1>3. \A S, v : DefsIn(S, v)' = DefsIn(S, v)
  BY <1>2 DEF DefsIn
<1>4. \A b, v, i : UseName(b, v, i)' = UseName(b, v, i) /\ DefName(b, v, i)' = DefName(b, v, i)
  BY <1>1 DEF UseName, DefName
<1>5. \A b, v : EndName(b, v)' = EndName(b, v)
  BY <1>1 DEF EndName, UseName
<1>6. \A b, v : BlockRenamed(b, v)' <=> BlockRenamed(b, v)
  BY <1>1, <1>2, <1>4, <1>5 DEF BlockRenamed
<1>7. QED
  BY <1>1, <1>2, <1>3, <1>4, <1>6 DEF Renamed

-----------------------------------------------------------------------------
(* The walk down the dominator tree.  The calls of rename are one above the  *)
(* other on the way from the entrance; height[k] is how high the stacks are  *)
(* when the k-th call has pushed its versions, and the top of that part is   *)
(* what its block ended with.  A child that was not renamed waits in the     *)
(* call of its parent.                                                       *)
FrameType == [block : Block, left : SUBSET Block, push_count : [Var -> Nat]]

(* How high the stack of each variable is after each call of rename. *)
Heights(height) ==
  /\ height \in [0 .. Len(frames) -> [Var -> Nat]]
  /\ \A v \in Var : height[0][v] = 0 /\ height[Len(frames)][v] = Len(rename_stack[v])
  /\ \A v \in Var : \A k \in 1 .. Len(frames) :
       /\ height[k][v] = height[k - 1][v] + frames[k].push_count[v]
       /\ AtHeight(v, height[k][v]) = EndName(frames[k].block, v)
  /\ \A v \in Var : \A j, k \in 0 .. Len(frames) : j <= k => height[j][v] <= height[k][v]

(* The calls of rename that have not returned, and the children they have    *)
(* still to visit.                                                           *)
Calls(done) ==
  /\ frames \in Seq(FrameType)
  /\ Entry \in done
  /\ \A k \in 1 .. Len(frames) : /\ frames[k].block \in done
                                 /\ frames[k].left \subseteq children[frames[k].block] \ done
  /\ \A j, k \in 1 .. Len(frames) : frames[j].block = frames[k].block => j = k
  /\ \A d \in done : \A c \in children[d] \ done :
       \E k \in 1 .. Len(frames) : frames[k].block = d /\ c \in frames[k].left

(* The walk with the blocks in done behind it. *)
Walk(done, height) ==
  /\ \A v \in Var : StackTyped(v)
  /\ Calls(done)
  /\ Heights(height)

(* The names of the blocks behind the walk, and the stacks on its way. *)
RenameInv ==
  /\ pc = "phi" => /\ name = [s \in Slot(body) |-> Named]
                   /\ version = [v \in Var |-> 0]
                   /\ rename_stack = [v \in Var |-> <<>>]
  /\ pc # "phi" => \E done \in SUBSET Block, height \in [0 .. Len(frames) -> [Var -> Nat]] :
                     Renamed(done) /\ Walk(done, height)
  /\ pc = "run" => frames = <<>>

(* Before the walk nothing has a name and the stacks are empty. *)
LEMMA RenameInit == Init => RenameInv
BY DEF Init, Construct, RenameInv

(* The dominator tree is a tree. *)
LEMMA ChildrenType ==
  ASSUME Program, NEW d \in Block
  PROVE  /\ children[d] \subseteq Block /\ Entry \notin children[d]
         /\ \A c \in children[d] : c # d /\ \A e \in Block : c \in children[e] => e = d
<1>1. Pred \in [Block -> SUBSET Block]
  BY PredType
<1>2. \A c \in Block : c \in children[d] <=> ImmediatelyDominates(Pred, d, c)
  BY DEF Program
<1>3. Entry \notin children[d]
  BY <1>1, <1>2, EntryIsBlock, EntryUndominated DEF ImmediatelyDominates, StrictlyDominates
<1>4. ASSUME NEW c \in children[d], NEW e \in Block, c \in children[e] PROVE e = d
  <2>1. c \in Block /\ ImmediatelyDominates(Pred, d, c) /\ ImmediatelyDominates(Pred, e, c)
    BY <1>4 DEF Program
  <2>2. \A x \in Block : ~Unreachable(Pred, x)
    BY DEF Program
  <2>3. QED
    BY <1>1, <2>1, <2>2, ImmediateUnique
<1>5. QED
  BY <1>2, <1>3, <1>4 DEF ImmediatelyDominates, StrictlyDominates, Program

(* A call of rename counts what it pushes. *)
LEMMA FrameTyped ==
  ASSUME Program, PhiInv, NEW b \in Block
  PROVE  Frame(b) \in FrameType
<1>1. \A v \in Var : DefCount(b, v) \in Nat
  <2> TAKE v \in Var
  <2>1. 0 \in Int
    OBVIOUS
  <2>2. QED
    BY <2>1, DefsBeforeCounts
<1>2. QED
  BY <1>1, ChildrenType DEF Frame, FrameType

(* The first call of rename. *)
LEMMA StartRenameInv ==
  ASSUME Program, PhiInv, RenameInv, StartRename
  PROVE  RenameInv'
<1>1. /\ pc = "phi" /\ pc' = "rename" /\ RenameBlock(Entry) /\ frames' = <<Frame(Entry)>>
      /\ UNCHANGED <<program, phi>> /\ children' = children /\ body' = body
  BY DEF StartRename, addPhi, program
<1>2. /\ name = [s \in Slot(body) |-> Named] /\ version = [v \in Var |-> 0]
      /\ rename_stack = [v \in Var |-> <<>>]
  BY <1>1 DEF RenameInv
<1>3. Renamed({})
  <2>1. \A v \in Var : DefsIn({}, v) = {}
    BY DEF DefsIn
  <2>2. Cardinality({}) = 0
    BY FS_EmptySet
  <2>3. QED
    BY <1>2, <2>1, <2>2 DEF Renamed
<1>4. \A v \in Var : StackTyped(v) /\ Len(rename_stack[v]) = 0
  <2> TAKE v \in Var
  <2>1. rename_stack[v] = <<>> /\ version[v] = 0
    BY <1>2
  <2>2. <<>> \in Seq(0 .. version[v] - 1) /\ Len(<<>>) = 0
    BY EmptySeq
  <2>3. QED
    BY <2>1, <2>2 DEF StackTyped
<1>5. Entry \in Block /\ \A d \in Block : Entry \notin children[d]
  BY EntryIsBlock, ChildrenType
<1>6. Renamed({Entry})'
  <2>1. Renamed({} \cup {Entry})'
    BY <1>1, <1>3, <1>4, <1>5, RenameBlockRenames
  <2>2. {} \cup {Entry} = {Entry}
    OBVIOUS
  <2>3. QED
    BY <2>1, <2>2
<1>7. Frame(Entry) \in FrameType
  BY <1>5, FrameTyped
<1>8. frames' \in Seq(FrameType) /\ Len(frames') = 1 /\ frames'[1] = Frame(Entry)
  BY <1>1, <1>7
<1>9. /\ frames'[1].block = Entry /\ frames'[1].left = children[Entry]
      /\ frames'[1].push_count = [v \in Var |-> DefCount(Entry, v)]
  BY <1>8 DEF Frame
<1>10. Calls({Entry})'
  BY <1>1, <1>5, <1>8, <1>9 DEF Calls
<1>11. ASSUME NEW v \in Var
       PROVE  /\ StackTyped(v)' /\ DefCount(Entry, v) \in Nat
              /\ Len(rename_stack'[v]) = DefCount(Entry, v)
              /\ \A n \in Nat : n = DefCount(Entry, v) => AtHeight(v, n)' = EndName(Entry, v)'
  <2>1. 0 \in Int
    OBVIOUS
  <2>2. DefCount(Entry, v) \in Nat
    BY <1>5, <2>1, DefsBeforeCounts
  <2>3. /\ StackTyped(v)' /\ Len(rename_stack'[v]) = Len(rename_stack[v]) + DefCount(Entry, v)
        /\ AtHeight(v, Len(rename_stack[v]))' = TopAt(Entry, v, Len(body[Entry]) + 1)
    BY <1>1, <1>4, <1>5, RenameBlockPushes
  <2>4. EndName(Entry, v)' = TopAt(Entry, v, Len(body[Entry]) + 1)
    BY <1>1, <1>3, <1>5, EndNames DEF Renamed
  <2>5. Len(rename_stack'[v]) = DefCount(Entry, v)
    BY <1>4, <2>2, <2>3
  <2>6. QED
    BY <2>2, <2>3, <2>4, <2>5 DEF AtHeight
<1>12. PICK height : height = [k \in 0 .. 1 |-> [v \in Var |-> IF k = 0 THEN 0 ELSE DefCount(Entry, v)]]
  OBVIOUS
<1>13. Heights(height)'
  <2>1. height \in [0 .. 1 -> [Var -> Nat]]
    BY <1>11, <1>12
  <2>2. \A v \in Var : height[0][v] = 0 /\ height[1][v] = DefCount(Entry, v)
    BY <1>12
  <2>3. \A v \in Var : AtHeight(v, height[1][v])' = EndName(frames[1].block, v)'
    <3> TAKE v \in Var
    <3>1. PICK n \in Nat : n = height[1][v]
      BY <1>11, <2>2
    <3>2. AtHeight(v, n)' = EndName(Entry, v)'
      BY <1>11, <2>2, <3>1
    <3>3. QED
      BY <1>9, <3>1, <3>2 DEF AtHeight, EndName
  <2>4. \A v \in Var : height[1][v] = height[0][v] + frames'[1].push_count[v]
    BY <1>9, <1>11, <2>2
  <2>5. \A v \in Var : \A j, k \in 0 .. 1 : j <= k => height[j][v] <= height[k][v]
    BY <1>11, <2>2
  <2>6. QED
    BY <1>8, <1>9, <1>11, <2>1, <2>2, <2>3, <2>4, <2>5 DEF Heights
<1>14. Walk({Entry}, height)'
  BY <1>10, <1>11, <1>13 DEF Walk
<1>15. QED
  BY <1>1, <1>5, <1>6, <1>14 DEF RenameInv, Walk, Heights

(* What is left of a sequence when its end is popped. *)
LEMMA PrefixFacts ==
  ASSUME NEW S, NEW s \in Seq(S), NEW m \in Nat, m <= Len(s)
  PROVE  /\ SubSeq(s, 1, m) \in Seq(S) /\ Len(SubSeq(s, 1, m)) = m
         /\ \A k \in 1 .. m : SubSeq(s, 1, m)[k] = s[k]
<1>1. Len(s) \in Nat /\ 1 \in Int /\ m \in Int
  BY LenProperties
<1>2. \A k \in 1 .. m : s[k] \in S
  BY <1>1
<1>3. /\ SubSeq(s, 1, m) \in Seq(S)
      /\ Len(SubSeq(s, 1, m)) = IF 1 <= m THEN m - 1 + 1 ELSE 0
      /\ \A k \in 1 .. m - 1 + 1 : SubSeq(s, 1, m)[k] = s[1 + k - 1]
  BY <1>1, <1>2, SubSeqProperties
<1>4. ASSUME NEW k \in 1 .. m PROVE SubSeq(s, 1, m)[k] = s[k]
  <2>1. k \in 1 .. m - 1 + 1 /\ 1 + k - 1 = k
    OBVIOUS
  <2>2. SubSeq(s, 1, m)[k] = s[1 + k - 1]
    BY <1>3, <2>1
  <2>3. QED
    BY <2>1, <2>2
<1>5. QED
  BY <1>3, <1>4

(* The calls of rename when the last one calls rename(c). *)
LEMMA FramesPushed ==
  ASSUME Program, PhiInv, frames \in Seq(FrameType), NEW c \in Block, RenameChild(c)
  PROVE  /\ Len(frames) \in Nat \ {0}
         /\ frames' \in Seq(FrameType) /\ Len(frames') = Len(frames) + 1
         /\ \A k \in 1 .. Len(frames) :
              /\ frames'[k].block = frames[k].block
              /\ frames'[k].push_count = frames[k].push_count
              /\ frames'[k].left = IF k = Len(frames) THEN frames[k].left \ {c} ELSE frames[k].left
         /\ frames'[Len(frames) + 1] = Frame(c)
<1> DEFINE n == Len(frames)
           f == Frame(c)
           g == [Last(frames) EXCEPT !.left = @ \ {c}]
<1>0. f \in FrameType /\ frames # <<>>
  BY FrameTyped DEF RenameChild
<1>1. n \in Nat \ {0} /\ \A k \in 1 .. n : frames[k] \in FrameType
  BY <1>0, EmptySeq, LenProperties
<1>2. Last(frames) = frames[n] /\ frames[n] \in FrameType
  BY <1>1 DEF Last
<1>3. g \in FrameType /\ g.block = frames[n].block /\ g.push_count = frames[n].push_count
      /\ g.left = frames[n].left \ {c}
  BY <1>2 DEF FrameType
<1>4. /\ Front(frames) \in Seq(FrameType) /\ Len(Front(frames)) = n - 1
      /\ \A k \in 1 .. n - 1 : Front(frames)[k] = frames[k]
  <2>1. n - 1 \in Nat /\ n - 1 <= Len(frames)
    BY <1>1
  <2>2. QED
    BY <2>1, PrefixFacts DEF Front
<1> DEFINE h == Front(frames)
<1> HIDE DEF f, g, n, h
<1>5. /\ Append(h, g) \in Seq(FrameType) /\ Len(Append(h, g)) = n
      /\ \A k \in 1 .. n - 1 : Append(h, g)[k] = frames[k]
      /\ Append(h, g)[n] = g
  BY <1>1, <1>3, <1>4 DEF h
<1> DEFINE a == Append(h, g)
<1>6. /\ a \o <<f>> \in Seq(FrameType) /\ Len(a \o <<f>>) = n + 1
      /\ \A k \in 1 .. n : (a \o <<f>>)[k] = a[k]
      /\ (a \o <<f>>)[n + 1] = f
  <2> HIDE DEF a
  <2>1. a \in Seq(FrameType) /\ Len(a) = n
    BY <1>5 DEF a
  <2>2. QED
    BY <1>0, <1>1, <2>1
<1>7. frames' = a \o <<f>>
  BY DEF RenameChild, a, h, g, f
<1> HIDE DEF a
<1>8. ASSUME NEW k \in 1 .. n PROVE frames'[k] = IF k = n THEN g ELSE frames[k]
  <2>1. k = n \/ k \in 1 .. n - 1
    BY <1>1
  <2>2. QED
    BY <1>5, <1>6, <1>7, <2>1 DEF a
<1>9. QED
  BY <1>1, <1>3, <1>6, <1>7, <1>8 DEF n, f

(* The call of rename(c) from the call for its immediate dominator. *)
LEMMA RenameChildInv ==
  ASSUME Program, PhiInv, RenameInv, NEW c \in Block, RenameChild(c)
  PROVE  RenameInv'
<1>1. /\ pc = "rename" /\ pc' = pc /\ frames # <<>> /\ c \in Last(frames).left
      /\ RenameBlock(c) /\ UNCHANGED <<program, phi>> /\ children' = children /\ body' = body
      /\ frames' = Append(Front(frames), [Last(frames) EXCEPT !.left = @ \ {c}]) \o <<Frame(c)>>
  BY DEF RenameChild, addPhi, program
<1>2. PICK done \in SUBSET Block, height \in [0 .. Len(frames) -> [Var -> Nat]] :
        Renamed(done) /\ Walk(done, height)
  BY <1>1 DEF RenameInv
<1> DEFINE n == Len(frames)
           new == done \cup {c}
<1>3. frames \in Seq(FrameType)
  BY <1>2 DEF Walk, Calls
<1>4. /\ n \in Nat \ {0} /\ frames' \in Seq(FrameType) /\ Len(frames') = n + 1
      /\ \A k \in 1 .. n :
           /\ frames'[k].block = frames[k].block /\ frames'[k].push_count = frames[k].push_count
           /\ frames'[k].left = IF k = n THEN frames[k].left \ {c} ELSE frames[k].left
      /\ frames'[n + 1] = Frame(c)
  BY <1>3, FramesPushed
<1>5. /\ frames'[n + 1].block = c /\ frames'[n + 1].left = children[c]
      /\ frames'[n + 1].push_count = [v \in Var |-> DefCount(c, v)]
  BY <1>4 DEF Frame
<1>6. PICK d \in done : d = frames[n].block /\ c \in children[d] \ done /\ c \in frames[n].left
  <2>1. n \in 1 .. n
    BY <1>4
  <2>2. c \in frames[n].left
    BY <1>1 DEF Last
  <2>3. QED
    BY <1>2, <2>1, <2>2 DEF Walk, Calls
<1>7. d \in Block /\ \A e \in Block : c \in children[e] => e = d
  BY <1>6, ChildrenType
<1>8. /\ \A v \in Var : StackTyped(v)
      /\ height \in [0 .. n -> [Var -> Nat]]
      /\ \A v \in Var : height[0][v] = 0 /\ height[n][v] = Len(rename_stack[v])
      /\ \A v \in Var : \A k \in 1 .. n :
           /\ height[k][v] = height[k - 1][v] + frames[k].push_count[v]
           /\ AtHeight(v, height[k][v]) = EndName(frames[k].block, v)
      /\ \A v \in Var : \A j, k \in 0 .. n : j <= k => height[j][v] <= height[k][v]
  BY <1>2 DEF Walk, Heights
<1>0. \A v \in Var : \A k \in 0 .. n : height[k][v] \in Nat /\ height[k][v] <= height[n][v]
  <2> TAKE v \in Var
  <2> TAKE k \in 0 .. n
  <2>1. n \in 0 .. n /\ k <= n
    BY <1>4
  <2>2. QED
    BY <1>8, <2>1
<1>9. Renamed(new)'
  <2>1. n \in 1 .. n
    BY <1>4
  <2>2. \A v \in Var : AtHeight(v, Len(rename_stack[v])) = EndName(d, v)
    BY <1>6, <1>8, <2>1
  <2>3. QED
    BY <1>1, <1>2, <1>6, <1>7, <1>8, <2>2, RenameBlockRenames
<1>10. Calls(new)'
  <2>0. /\ Entry \in done
        /\ \A k \in 1 .. n : /\ frames[k].block \in done
                             /\ frames[k].left \subseteq children[frames[k].block] \ done
        /\ \A j, k \in 1 .. n : frames[j].block = frames[k].block => j = k
        /\ \A e \in done : \A x \in children[e] \ done :
             \E k \in 1 .. n : frames[k].block = e /\ x \in frames[k].left
    BY <1>2 DEF Walk, Calls
  <2>00. \A k \in 1 .. n + 1 : k \in 1 .. n \/ k = n + 1
    BY <1>4
  <2>1. ASSUME NEW k \in 1 .. n + 1
        PROVE  frames'[k].block \in new /\ frames'[k].left \subseteq children[frames'[k].block] \ new
    <3>1. CASE k \in 1 .. n
      <4>1. frames[k].block \in done /\ frames[k].left \subseteq children[frames[k].block] \ done
        BY <2>0, <3>1
      <4>2. ASSUME k # n, c \in frames[k].left PROVE FALSE
        <5>1. frames[k].block = d
          BY <1>7, <4>1, <4>2
        <5>2. k = n
          BY <1>4, <1>6, <2>0, <3>1, <5>1
        <5>3. QED
          BY <4>2, <5>2
      <4>3. QED
        BY <1>4, <3>1, <4>1, <4>2
    <3>2. CASE k = n + 1
      <4>1. c \notin children[c]
        BY ChildrenType
      <4>2. \A x \in done : x \notin children[c]
        BY <1>2, <1>6 DEF Renamed
      <4>3. QED
        BY <1>5, <3>2, <4>1, <4>2
    <3>3. QED
      BY <2>00, <3>1, <3>2
  <2>2. ASSUME NEW j \in 1 .. n + 1, NEW k \in 1 .. n + 1, frames'[j].block = frames'[k].block
        PROVE  j = k
    <3>1. \A i \in 1 .. n : frames'[i].block \in done /\ frames'[i].block = frames[i].block
      BY <1>4, <2>0
    <3>2. c \notin done
      BY <1>6
    <3>3. QED
      BY <1>5, <2>0, <2>00, <2>2, <3>1, <3>2
  <2>3. ASSUME NEW e \in new, NEW x \in children[e] \ new
        PROVE  \E k \in 1 .. n + 1 : frames'[k].block = e /\ x \in frames'[k].left
    <3>1. CASE e = c
      <4>1. n + 1 \in 1 .. n + 1
        BY <1>4
      <4>2. QED
        BY <1>5, <2>3, <3>1, <4>1
    <3>2. CASE e \in done
      <4>1. PICK k \in 1 .. n : frames[k].block = e /\ x \in frames[k].left
        BY <2>0, <2>3, <3>2
      <4>2. k \in 1 .. n + 1 /\ x # c
        BY <1>4, <2>3
      <4>3. QED
        BY <1>4, <4>1, <4>2
    <3>3. QED
      BY <3>1, <3>2
  <2>4. frames' \in Seq(FrameType) /\ Entry \in new /\ Len(frames') = n + 1 /\ children' = children
    BY <1>1, <1>4, <2>0
  <2>5. \A k \in 1 .. n + 1 : /\ frames'[k].block \in new
                              /\ frames'[k].left \subseteq children[frames'[k].block] \ new
    BY <2>1
  <2>6. \A j, k \in 1 .. n + 1 : frames'[j].block = frames'[k].block => j = k
    BY <2>2
  <2>7. \A e \in new : \A x \in children[e] \ new :
          \E k \in 1 .. n + 1 : frames'[k].block = e /\ x \in frames'[k].left
    BY <2>3
  <2> HIDE DEF new, n
  <2>8. QED
    BY <2>4, <2>5, <2>6, <2>7 DEF Calls
<1>11. ASSUME NEW v \in Var
       PROVE  /\ StackTyped(v)' /\ DefCount(c, v) \in Nat
              /\ Len(rename_stack'[v]) = height[n][v] + DefCount(c, v)
              /\ \A m \in 0 .. height[n][v] : AtHeight(v, m)' = AtHeight(v, m)
              /\ \A m \in Nat : m = height[n][v] + DefCount(c, v) => AtHeight(v, m)' = EndName(c, v)'
              /\ \A e \in done : EndName(e, v)' = EndName(e, v)
  <2>1. 0 \in Int
    OBVIOUS
  <2>2. DefCount(c, v) \in Nat
    BY <2>1, DefsBeforeCounts
  <2>3. /\ StackTyped(v)' /\ Len(rename_stack'[v]) = Len(rename_stack[v]) + DefCount(c, v)
        /\ \A m \in 0 .. Len(rename_stack[v]) : AtHeight(v, m)' = AtHeight(v, m)
        /\ AtHeight(v, Len(rename_stack[v]))' = TopAt(c, v, Len(body[c]) + 1)
    BY <1>1, <1>8, RenameBlockPushes
  <2>4. \A e \in Block : EndName(e, v)' =
          IF e = c THEN TopAt(c, v, Len(body[c]) + 1) ELSE EndName(e, v)
    BY <1>1, <1>2, EndNames DEF Renamed
  <2>5. Len(rename_stack'[v]) = height[n][v] + DefCount(c, v)
    BY <1>8, <2>3
  <2>6. \A m \in Nat : m = height[n][v] + DefCount(c, v) => AtHeight(v, m)' = EndName(c, v)'
    BY <2>3, <2>4, <2>5 DEF AtHeight
  <2>7. QED
    BY <1>6, <1>8, <2>2, <2>3, <2>4, <2>5, <2>6
<1>12. PICK higher : higher = [k \in 0 .. n + 1 |-> IF k <= n THEN height[k]
                               ELSE [v \in Var |-> height[n][v] + DefCount(c, v)]]
  OBVIOUS
<1>13. Heights(higher)'
  <2>0. \A k \in 0 .. n + 1 : k \in 0 .. n \/ k = n + 1
    BY <1>4
  <2>1. /\ \A k \in 0 .. n : higher[k] = height[k]
        /\ \A v \in Var : higher[n + 1][v] = height[n][v] + DefCount(c, v)
    BY <1>4, <1>12
  <2>2. higher \in [0 .. n + 1 -> [Var -> Nat]]
    <3>1. \A k \in 0 .. n : height[k] \in [Var -> Nat]
      BY <1>8
    <3>2. n \in 0 .. n
      BY <1>4
    <3>3. [v \in Var |-> height[n][v] + DefCount(c, v)] \in [Var -> Nat]
      BY <1>11, <3>1, <3>2
    <3>4. QED
      BY <1>4, <1>12, <3>1, <3>3
  <2>3. \A v \in Var : height[n][v] \in Nat /\ higher[n + 1][v] \in Nat
    BY <1>0, <1>4, <2>2
  <2>4. ASSUME NEW v \in Var
        PROVE  higher[0][v] = 0 /\ higher[n + 1][v] = Len(rename_stack'[v])
    BY <1>4, <1>8, <1>11, <2>1
  <2>5. ASSUME NEW v \in Var, NEW k \in 1 .. n + 1
        PROVE  /\ higher[k][v] = higher[k - 1][v] + frames'[k].push_count[v]
               /\ AtHeight(v, higher[k][v])' = EndName(frames[k].block, v)'
    <3>1. CASE k \in 1 .. n
      <4>1. k \in 0 .. n /\ k - 1 \in 0 .. n /\ n \in 0 .. n
        BY <1>4, <3>1
      <4>2. higher[k][v] = higher[k - 1][v] + frames'[k].push_count[v]
        <5>1. higher[k][v] = height[k][v] /\ higher[k - 1][v] = height[k - 1][v]
          BY <2>1, <4>1
        <5>2. height[k][v] = height[k - 1][v] + frames[k].push_count[v]
          BY <1>8, <3>1
        <5>3. frames'[k].push_count[v] = frames[k].push_count[v]
          BY <1>4, <3>1
        <5>4. QED
          BY <5>1, <5>2, <5>3
      <4>3. higher[k][v] \in 0 .. height[n][v] /\ higher[k][v] = height[k][v]
        <5>1. height[k][v] <= height[n][v] /\ height[k][v] \in Nat /\ height[n][v] \in Nat
          BY <1>0, <4>1
        <5>2. height[k][v] \in 0 .. height[n][v]
          BY <5>1
        <5>3. higher[k][v] = height[k][v]
          BY <2>1, <4>1
        <5>4. QED
          BY <5>2, <5>3
      <4>4. PICK m \in 0 .. height[n][v] : m = higher[k][v]
        BY <4>3
      <4>5. AtHeight(v, m)' = EndName(frames[k].block, v)
        BY <1>8, <1>11, <3>1, <4>3, <4>4
      <4>6. PICK e \in done : e = frames[k].block /\ e = frames'[k].block
        BY <1>2, <1>4, <3>1 DEF Walk, Calls
      <4>7. EndName(e, v)' = EndName(e, v)
        BY <1>11
      <4>8. EndName(frames[k].block, v)' = EndName(e, v)'
        BY <4>6 DEF EndName, UseName
      <4>9. EndName(frames[k].block, v) = EndName(e, v)
        BY <4>6
      <4>10. AtHeight(v, higher[k][v])' = AtHeight(v, m)'
        BY <4>4 DEF AtHeight
      <4>11. QED
        BY <4>2, <4>5, <4>7, <4>8, <4>9, <4>10
    <3>2. CASE k = n + 1
      <4>1. k - 1 = n /\ n \in 0 .. n
        BY <1>4, <3>2
      <4>2. higher[k][v] = higher[k - 1][v] + frames'[k].push_count[v]
        BY <1>5, <2>1, <3>2, <4>1
      <4>3. PICK m \in Nat : m = higher[k][v]
        BY <2>3, <3>2
      <4>4. AtHeight(v, m)' = EndName(c, v)'
        BY <1>11, <2>1, <3>2, <4>3
      <4>5. EndName(frames[k].block, v)' = EndName(c, v)'
        BY <1>5, <3>2 DEF EndName, UseName
      <4>6. AtHeight(v, higher[k][v])' = AtHeight(v, m)'
        BY <4>3 DEF AtHeight
      <4>7. QED
        BY <4>2, <4>4, <4>5, <4>6
    <3>3. QED
      BY <1>4, <3>1, <3>2
  <2>6. ASSUME NEW v \in Var, NEW j \in 0 .. n + 1, NEW k \in 0 .. n + 1, j <= k
        PROVE  higher[j][v] <= higher[k][v]
    <3>0. \A i \in 0 .. n : height[i][v] \in Nat /\ height[i][v] <= height[n][v]
      BY <1>0
    <3>1. CASE k \in 0 .. n
      <4>1. j \in 0 .. n
        BY <1>4, <2>6, <3>1
      <4>2. QED
        BY <1>8, <2>1, <2>6, <3>1, <4>1
    <3>2. CASE k = n + 1 /\ j \in 0 .. n
      BY <1>11, <2>1, <2>3, <3>0, <3>2
    <3>3. CASE k = n + 1 /\ j = n + 1
      BY <2>3, <3>3
    <3>4. QED
      BY <2>0, <3>1, <3>2, <3>3
  <2>7. QED
    BY <1>4, <2>2, <2>4, <2>5, <2>6 DEF Heights
<1>14. Walk(new, higher)'
  BY <1>10, <1>11, <1>13 DEF Walk
<1>15. higher \in [0 .. Len(frames') -> [Var -> Nat]] /\ new \in SUBSET Block
  BY <1>13 DEF Heights
<1> HIDE DEF new
<1>16. QED
  BY <1>1, <1>9, <1>14, <1>15 DEF RenameInv

(* A call of rename returns: the stacks are as high as its caller left them. *)
LEMMA LeaveInv ==
  ASSUME Program, PhiInv, RenameInv, Leave
  PROVE  RenameInv'
<1> DEFINE n == Len(frames)
<1>1. /\ pc = "rename" /\ pc' = (IF n = 1 THEN "run" ELSE pc) /\ frames # <<>>
      /\ Last(frames).left = {} /\ frames' = Front(frames)
      /\ rename_stack' = [v \in Var |->
           SubSeq(rename_stack[v], 1, Len(rename_stack[v]) - Last(frames).push_count[v])]
      /\ UNCHANGED <<program, phi, name, version>> /\ children' = children /\ body' = body
  BY DEF Leave, addPhi, program
<1>2. PICK done \in SUBSET Block, height \in [0 .. Len(frames) -> [Var -> Nat]] :
        Renamed(done) /\ Walk(done, height)
  BY <1>1 DEF RenameInv
<1>3. frames \in Seq(FrameType)
  BY <1>2 DEF Walk, Calls
<1>4. n \in Nat \ {0} /\ n \in 1 .. n /\ n - 1 \in Nat /\ n - 1 \in 0 .. n /\ n \in 0 .. n
  BY <1>1, <1>3, EmptySeq, LenProperties
<1>5. /\ frames' \in Seq(FrameType) /\ Len(frames') = n - 1
      /\ \A k \in 1 .. n - 1 : frames'[k] = frames[k]
  <2>1. n - 1 <= Len(frames)
    BY <1>4
  <2>2. QED
    BY <1>1, <1>3, <1>4, <2>1, PrefixFacts DEF Front
<1>6. /\ \A v \in Var : StackTyped(v)
      /\ height \in [0 .. n -> [Var -> Nat]]
      /\ \A v \in Var : height[0][v] = 0 /\ height[n][v] = Len(rename_stack[v])
      /\ \A v \in Var : \A k \in 1 .. n :
           /\ height[k][v] = height[k - 1][v] + frames[k].push_count[v]
           /\ AtHeight(v, height[k][v]) = EndName(frames[k].block, v)
      /\ \A v \in Var : \A j, k \in 0 .. n : j <= k => height[j][v] <= height[k][v]
  BY <1>2 DEF Walk, Heights
<1>7. Renamed(done)'
  BY <1>1, <1>2, RenamedKept
<1>8. Calls(done)'
  <2>1. /\ Entry \in done
        /\ \A k \in 1 .. n : /\ frames[k].block \in done
                             /\ frames[k].left \subseteq children[frames[k].block] \ done
        /\ \A j, k \in 1 .. n : frames[j].block = frames[k].block => j = k
        /\ \A e \in done : \A x \in children[e] \ done :
             \E k \in 1 .. n : frames[k].block = e /\ x \in frames[k].left
    BY <1>2 DEF Walk, Calls
  <2>2. \A k \in 1 .. n - 1 : k \in 1 .. n
    BY <1>4
  <2>3. ASSUME NEW e \in done, NEW x \in children[e] \ done
        PROVE  \E k \in 1 .. n - 1 : frames'[k].block = e /\ x \in frames'[k].left
    <3>1. PICK k \in 1 .. n : frames[k].block = e /\ x \in frames[k].left
      BY <2>1
    <3>2. k # n
      BY <1>1, <3>1 DEF Last
    <3>3. k \in 1 .. n - 1
      BY <1>4, <3>2
    <3>4. QED
      BY <1>5, <3>1, <3>3
  <2>4. frames' \in Seq(FrameType) /\ Entry \in done /\ Len(frames') = n - 1 /\ children' = children
    BY <1>1, <1>5, <2>1
  <2>5. \A k \in 1 .. n - 1 : /\ frames'[k].block \in done
                              /\ frames'[k].left \subseteq children[frames'[k].block] \ done
    BY <1>5, <2>1, <2>2
  <2>6. \A j, k \in 1 .. n - 1 : frames'[j].block = frames'[k].block => j = k
    BY <1>5, <2>1, <2>2
  <2>7. \A e \in done : \A x \in children[e] \ done :
          \E k \in 1 .. n - 1 : frames'[k].block = e /\ x \in frames'[k].left
    BY <2>3
  <2> HIDE DEF n
  <2>8. QED
    BY <2>4, <2>5, <2>6, <2>7 DEF Calls
<1>9. ASSUME NEW v \in Var
      PROVE  /\ StackTyped(v)' /\ Len(rename_stack'[v]) = height[n - 1][v]
             /\ \A m \in 0 .. height[n - 1][v] : AtHeight(v, m)' = AtHeight(v, m)
  <2> DEFINE m == height[n - 1][v]
  <2>1. frames[n].push_count[v] \in Nat
    <3>1. frames[n] \in FrameType
      BY <1>3, <1>4, ElementOfSeq
    <3>2. QED
      BY <3>1 DEF FrameType
  <2>2. m \in Nat /\ m <= height[n][v] /\ height[n][v] = Len(rename_stack[v])
        /\ height[n][v] = m + frames[n].push_count[v]
    <3>0. n - 1 <= n
      BY <1>4
    <3>1. height[n - 1] \in [Var -> Nat] /\ n - 1 <= n
      <4>1. n - 1 \in 0 .. n /\ height \in [0 .. n -> [Var -> Nat]]
        BY <1>4, <1>6
      <4> HIDE DEF n
      <4> QED BY <3>0, <4>1
    <3>2. m \in Nat
      BY <3>1
    <3>3. height[n - 1][v] <= height[n][v]
      BY <1>4, <1>6, <3>1
    <3>4. QED
      BY <1>4, <1>6, <3>2, <3>3
  <2>3. Last(frames).push_count[v] = frames[n].push_count[v]
    BY DEF Last
  <2>4. Len(rename_stack[v]) - Last(frames).push_count[v] = m
    BY <2>1, <2>2, <2>3
  <2>5. rename_stack'[v] = SubSeq(rename_stack[v], 1, m)
    BY <1>1, <2>4
  <2>6. rename_stack[v] \in Seq(0 .. version[v] - 1) /\ version[v] \in Nat
    BY <1>6 DEF StackTyped
  <2> HIDE DEF m
  <2>7. /\ rename_stack'[v] \in Seq(0 .. version[v] - 1) /\ Len(rename_stack'[v]) = m
        /\ \A k \in 1 .. m : rename_stack'[v][k] = rename_stack[v][k]
    <3>1. m \in Nat /\ m <= Len(rename_stack[v])
      BY <2>2
    <3> DEFINE s == rename_stack[v]
               S == 0 .. version[v] - 1
    <3>2. s \in Seq(S) /\ m <= Len(s)
      BY <2>6, <3>1
    <3> HIDE DEF s, S
    <3>3. /\ SubSeq(s, 1, m) \in Seq(S) /\ Len(SubSeq(s, 1, m)) = m
          /\ \A k \in 1 .. m : SubSeq(s, 1, m)[k] = s[k]
      BY <3>1, <3>2, PrefixFacts
    <3>4. QED
      BY <2>5, <3>3 DEF s, S
  <2>8. StackTyped(v)'
    BY <1>1, <2>6, <2>7 DEF StackTyped
  <2>9. \A k \in 0 .. m : AtHeight(v, k)' = AtHeight(v, k)
    BY <2>2, <2>7 DEF AtHeight
  <2>10. QED
    BY <2>7, <2>8, <2>9 DEF m
<1>10. PICK lower : lower = [k \in 0 .. n - 1 |-> height[k]]
  OBVIOUS
<1>11. Heights(lower)'
  <2>0. /\ \A k \in 0 .. n - 1 : k \in 0 .. n /\ lower[k] = height[k]
        /\ \A k \in 1 .. n - 1 : k \in 1 .. n /\ k \in 0 .. n - 1 /\ k - 1 \in 0 .. n - 1
        /\ n - 1 \in 0 .. n - 1 /\ 0 \in 0 .. n - 1
    BY <1>4, <1>10
  <2>1. lower \in [0 .. n - 1 -> [Var -> Nat]]
    BY <1>6, <1>10, <2>0
  <2>2. \A v \in Var : lower[0][v] = 0 /\ lower[n - 1][v] = Len(rename_stack'[v])
    BY <1>6, <1>9, <2>0
  <2>3. \A v \in Var : \A j, k \in 0 .. n - 1 : j <= k => lower[j][v] <= lower[k][v]
    BY <1>6, <2>0
  <2>4. ASSUME NEW v \in Var, NEW k \in 1 .. n - 1
        PROVE  /\ lower[k][v] = lower[k - 1][v] + frames'[k].push_count[v]
               /\ AtHeight(v, lower[k][v])' = EndName(frames[k].block, v)'
    <3>1. lower[k][v] = lower[k - 1][v] + frames'[k].push_count[v]
      BY <1>5, <1>6, <2>0
    <3>2. lower[k][v] \in 0 .. height[n - 1][v]
      <4>1. lower[k][v] <= lower[n - 1][v]
        <5>1. k <= n - 1
          BY <1>4
        <5>2. QED
          BY <2>0, <2>3, <5>1
      <4>2. lower[k][v] \in Nat /\ height[n - 1][v] \in Nat
        BY <1>4, <1>6, <2>0, <2>1
      <4>3. QED
        BY <2>0, <4>1, <4>2
    <3>3. PICK m \in 0 .. height[n - 1][v] : m = lower[k][v]
      BY <3>2
    <3>4. AtHeight(v, m)' = EndName(frames[k].block, v)
      BY <1>6, <1>9, <2>0, <3>3
    <3>5. EndName(frames[k].block, v)' = EndName(frames[k].block, v)
      BY <1>1, <1>5 DEF EndName, UseName
    <3>6. AtHeight(v, lower[k][v])' = AtHeight(v, m)'
      BY <3>3 DEF AtHeight
    <3>7. QED
      BY <3>1, <3>4, <3>5, <3>6
  <2>5. QED
    BY <1>5, <2>1, <2>2, <2>3, <2>4 DEF Heights
<1>12. Walk(done, lower)'
  BY <1>8, <1>9, <1>11 DEF Walk
<1>13. pc' = "run" => frames' = <<>>
  BY <1>1, <1>5, EmptySeq
<1>14. /\ lower \in [0 .. Len(frames') -> [Var -> Nat]]
       /\ pc' # "phi"
  BY <1>1, <1>11 DEF Heights
<1>15. QED
  BY <1>7, <1>12, <1>13, <1>14 DEF RenameInv

(* The passes before and the run after Rename leave its state alone. *)
LEMMA RenameKept ==
  ASSUME RenameInv, UNCHANGED <<program, pc, rename>>, pc # "phi" => UNCHANGED phi
  PROVE  RenameInv'
<1>1. /\ pc' = pc /\ name' = name /\ version' = version /\ rename_stack' = rename_stack
      /\ frames' = frames /\ body' = body /\ children' = children
  BY DEF rename, program
<1>2. CASE pc = "phi"
  BY <1>1, <1>2 DEF RenameInv
<1>3. CASE pc # "phi"
  <2>1. PICK done \in SUBSET Block, height \in [0 .. Len(frames) -> [Var -> Nat]] :
        Renamed(done) /\ Walk(done, height)
    BY <1>3 DEF RenameInv
  <2>2. Renamed(done)'
    BY <1>1, <1>3, <2>1, RenamedKept
  <2>3. \A v : (StackTyped(v)' <=> StackTyped(v)) /\ \A m : AtHeight(v, m)' = AtHeight(v, m)
    BY <1>1 DEF StackTyped, AtHeight
  <2>4. Calls(done)'
    BY <1>1, <2>1 DEF Walk, Calls
  <2>5. Heights(height)'
    BY <1>1, <2>1 DEF Walk, Heights, AtHeight, EndName, UseName
  <2>6. Walk(done, height)'
    BY <2>1, <2>3, <2>4, <2>5 DEF Walk
  <2>7. QED
    BY <1>1, <1>3, <2>2, <2>6 DEF RenameInv
<1>4. QED
  BY <1>2, <1>3

(* When no call has a child left every block was renamed. *)
LEMMA NothingLeft ==
  ASSUME Program, RenameInv, pc # "phi", \A k \in 1 .. Len(frames) : frames[k].left = {}
  PROVE  Renamed(Block)
<1>1. PICK done \in SUBSET Block, height \in [0 .. Len(frames) -> [Var -> Nat]] :
        Renamed(done) /\ Walk(done, height)
  BY DEF RenameInv
<1>3. Entry \in done /\ \A d \in done : children[d] \subseteq done
  BY <1>1 DEF Walk, Calls
<1>4. Pred \in [Block -> SUBSET Block] /\ \A x \in Block : ~Unreachable(Pred, x)
  BY PredType DEF Program
<1>5. \A d, b \in Block : ImmediatelyDominates(Pred, d, b) /\ d \in done => b \in done
  BY <1>3 DEF Program
<1>6. Block \subseteq done
  BY <1>3, <1>4, <1>5, TreeInduction
<1>7. done = Block
  BY <1>6
<1>8. QED
  BY <1>1, <1>7

(* When rename has returned to its caller every block was renamed. *)
LEMMA AllRenamed ==
  ASSUME Program, RenameInv, pc = "run"
  PROVE  Renamed(Block)
<1>1. Len(frames) = 0
  BY DEF RenameInv
<1>2. QED
  BY <1>1, NothingLeft

-----------------------------------------------------------------------------
(* A block that does not define v ends with what its immediate dominator     *)
(* ended with.                                                               *)
LEMMA PassesThrough ==
  ASSUME Program, PhiInv, Renamed(Block), NEW d \in Block, NEW b \in children[d],
         NEW v \in Var, ~Defined(b, v)
  PROVE  EndName(b, v) = EndName(d, v)
<1>1. b \in Block
  BY ChildrenType
<1>2. Len(body[b]) \in Nat /\ DefPlaces(b, v) = {}
  BY <1>1, BodyType, DefPlacesType
<1>3. PICK n \in 1 .. Len(body[b]) + 1 : n = Len(body[b]) + 1
  BY <1>2
<1>4. UseName(b, v, n) = EndName(d, v)
  BY <1>1, <1>2 DEF Renamed, BlockRenamed
<1>5. QED
  BY <1>3, <1>4 DEF EndName

(* A join that got no phi needs none: on the way from its immediate          *)
(* dominator to each of its predecessors nothing defines the variable, so    *)
(* they all end with the same version.                                       *)
LEMMA JoinAgrees ==
  ASSUME Program, PhiInv, Renamed(Block), pc # "phi", NEW b \in Block, NEW c \in succ[b],
         NEW v \in Var, v \in live[c], v \notin phi[c]
  PROVE  UseName(c, v, 1) = EndName(b, v)
<1>1. c \in Block /\ c # Entry /\ b \in Pred[c] /\ Pred \in [Block -> SUBSET Block]
  BY PredType DEF Program
<1>2. \A x \in Block : ~Unreachable(Pred, x)
  BY DEF Program
<1>3. PICK d \in Block : ImmediatelyDominates(Pred, d, c)
  BY <1>1, <1>2, ImmediateExists
<1>4. UseName(c, v, 1) = EndName(d, v)
  <2>1. 1 \in 1 .. Len(body[c]) + 1 /\ \A j \in DefPlaces(c, v) : j >= 1
    <3>1. Len(body[c]) \in Nat /\ DefPlaces(c, v) \subseteq 0 .. Len(body[c]) /\ 0 \notin DefPlaces(c, v)
      BY <1>1, BodyType, DefPlacesType
    <3>2. QED
      BY <3>1
  <2>2. c \in children[d]
    BY <1>1, <1>3 DEF Program
  <2>3. QED
    BY <1>1, <2>1, <2>2 DEF Renamed, BlockRenamed
<1>5. ASSUME NEW n \in Block, Dominates(Pred, d, n), Dominates(Pred, n, b), n # d
      PROVE  ~Defined(n, v)
  <2>1. ~StrictlyDominates(Pred, n, c)
    <3>1. ASSUME StrictlyDominates(Pred, n, c) PROVE FALSE
      <4>1. Dominates(Pred, n, d)
        BY <1>3, <3>1 DEF ImmediatelyDominates
      <4>2. n = d
        BY <1>1, <1>2, <1>5, <4>1, DominatesAntisymmetric
      <4>3. QED
        BY <1>5, <4>2
    <3>2. QED
      BY <3>1
  <2>2. c \in frontier[n]
    BY <1>1, <1>5, <2>1 DEF Program, InFrontier
  <2>3. ~PhiClosed(n, v)
    BY <2>2 DEF PhiClosed
  <2>4. QED
    BY <2>3 DEF PhiInv
<1> DEFINE S == {n \in Block : Dominates(Pred, d, n) /\ Dominates(Pred, n, b) =>
                                 EndName(n, v) = EndName(d, v)}
<1>6. Entry \in S
  BY <1>1, EntryIsBlock, EntryUndominated
<1>7. ASSUME NEW m \in Block, NEW n \in Block, ImmediatelyDominates(Pred, m, n), m \in S
      PROVE  n \in S
  <2> SUFFICES ASSUME Dominates(Pred, d, n), Dominates(Pred, n, b), n # d
               PROVE  EndName(n, v) = EndName(d, v)
    OBVIOUS
  <2>1. Dominates(Pred, d, m)
    BY <1>7 DEF ImmediatelyDominates, StrictlyDominates
  <2>2. Dominates(Pred, m, b)
    BY <1>1, <1>7, DominatesTransitive DEF ImmediatelyDominates, StrictlyDominates
  <2>3. n \in children[m]
    BY <1>7 DEF Program
  <2>4. EndName(n, v) = EndName(m, v)
    BY <1>5, <2>3, PassesThrough
  <2>5. QED
    BY <1>7, <2>1, <2>2, <2>4
<1> HIDE DEF S
<1>8. Block \subseteq S
  BY <1>1, <1>2, <1>6, <1>7, TreeInduction
<1>9. Dominates(Pred, d, b) /\ Dominates(Pred, b, b)
  BY <1>1, <1>3, StrictlyAbovePredecessors, DominatesItself DEF ImmediatelyDominates
<1>10. EndName(b, v) = EndName(d, v)
  BY <1>8, <1>9 DEF S
<1>11. QED
  BY <1>4, <1>10

-----------------------------------------------------------------------------
(* The two runs: a variable that is live has the value that its name has. *)
Names == {Named} \cup Versions(body)

(* Before instruction i of b the two runs have the same value in every       *)
(* variable that is live.                                                    *)
Agree(b, i) == \A v \in Var : LiveAt(b, i, v) => env[v] = ssa[v][UseName(b, v, i)]

(* The two runs are at one place, and agree there. *)
RunInv ==
  /\ env \in [Var -> Value] /\ ssa \in [Var -> [Names -> Value]]
  /\ pc # "run" => place = <<Entry, 1>> /\ \A v \in Var : \A n \in Names : ssa[v][n] = env[v]
  /\ pc = "run" => \E b \in Block : \E i \in 1 .. Len(body[b]) + 1 :
                     place = <<b, i>> /\ Agree(b, i)

(* The two runs start with the same values. *)
LEMMA RunInit == Init => RunInv
BY DEF Init, Construct, RunInv, Names

(* Every version is one the renamed function has a variable for. *)
LEMMA NamesFit ==
  ASSUME Program, PhiInv, Renamed(Block), NEW b \in Block, NEW v \in Var
  PROVE  /\ \A i \in 1 .. Len(body[b]) + 1 : UseName(b, v, i) \in Names
         /\ \A i \in DefPlaces(b, v) : DefName(b, v, i) \in Names
<1>1. version[v] = Cardinality(DefsIn(Block, v)) /\ BlockRenamed(b, v)
  BY DEF Renamed
<1>2. 0 .. version[v] \subseteq Versions(body) /\ version[v] \in Versions(body)
  BY <1>1, DefsInBounded
<1>3. version[v] \in Int
  BY <1>2 DEF Versions
<1>4. 0 .. version[v] - 1 \subseteq Versions(body)
  <2>1. 0 .. version[v] - 1 \subseteq 0 .. version[v]
    BY <1>3
  <2>2. QED
    BY <1>2, <2>1
<1>5. QED
  BY <1>1, <1>4 DEF BlockRenamed, Names

(* The run begins when Rename is done: no version was written. *)
LEMMA RunBegins ==
  ASSUME Program, PhiInv, RenameInv, RunInv, Leave
  PROVE  RunInv'
<1>1. /\ pc = "rename" /\ pc' \in {"rename", "run"} /\ UNCHANGED <<program, run>>
      /\ place' = place /\ env' = env /\ ssa' = ssa /\ body' = body /\ name' = name
  BY DEF Leave, run, program
<1>2. place = <<Entry, 1>> /\ \A v \in Var : \A n \in Names : ssa[v][n] = env[v]
  BY <1>1 DEF RunInv
<1>3. Names' = Names
  BY <1>1 DEF Names
<1>4. CASE pc' # "run"
  BY <1>1, <1>2, <1>3, <1>4 DEF RunInv
<1>5. CASE pc' = "run"
  <2>1. Renamed(Block)
    <3>1. Len(frames) = 1 /\ frames[1].left = {}
      BY <1>1, <1>5 DEF Leave, Last
    <3>2. \A k \in 1 .. Len(frames) : frames[k].left = {}
      BY <3>1
    <3>3. QED
      BY <1>1, <3>2, NothingLeft
  <2>2. Entry \in Block /\ Len(body[Entry]) \in Nat
    BY EntryIsBlock, BodyType
  <2>3. PICK i \in 1 .. Len(body[Entry]) + 1 : i = 1
    BY <2>2
  <2>4. \A v \in Var : UseName(Entry, v, i) \in Names /\ UseName(Entry, v, i)' = UseName(Entry, v, i)
    BY <1>1, <2>1, <2>2, NamesFit DEF UseName
  <2>5. Agree(Entry, i)'
    BY <1>1, <1>2, <1>3, <2>4 DEF Agree
  <2>6. QED
    BY <1>1, <1>2, <1>3, <2>2, <2>3, <2>5 DEF RunInv
<1>6. QED
  BY <1>4, <1>5

(* An instruction runs. *)
LEMMA RunInstInv ==
  ASSUME Program, PhiInv, RenameInv, RunInv, RunInst
  PROVE  RunInv'
<1>1. pc = "run" /\ UNCHANGED <<program, pc, rename>>
  BY DEF RunInst
<1>2. Renamed(Block)
  BY <1>1, AllRenamed
<1>0. PICK b \in Block : \E i \in 1 .. Len(body[b]) + 1 : place = <<b, i>> /\ Agree(b, i)
  BY <1>1 DEF RunInv
<1>3. PICK i \in 1 .. Len(body[b]) + 1 : place = <<b, i>> /\ Agree(b, i)
  BY <1>0
<1>4. Len(body[b]) \in Nat /\ i \in 1 .. Len(body[b]) /\ i + 1 \in 1 .. Len(body[b]) + 1
  <2>1. Len(body[b]) \in Nat
    BY BodyType
  <2>2. ~(i > Len(body[b]))
    BY <1>3 DEF RunInst, AtExit, Here
  <2>3. QED
    BY <2>1, <2>2
<1> DEFINE def == body[b][i].def
<1>5. PICK x \in Value :
        /\ env' = [v \in Var |-> IF v \in def THEN x ELSE env[v]]
        /\ ssa' = [v \in Var |-> IF v \in def THEN [ssa[v] EXCEPT ![DefName(b, v, i)] = x]
                                 ELSE ssa[v]]
  BY <1>3 DEF RunInst, Here, DefName
<1>6. place' = <<b, i + 1>>
  BY <1>3 DEF RunInst, Here
<1>7. env' \in [Var -> Value] /\ ssa' \in [Var -> [Names -> Value]]
  BY <1>5 DEF RunInv
<1>8. body' = body /\ name' = name /\ Names' = Names /\ pc' = pc
  BY <1>1 DEF program, rename, Names
<1>9. ASSUME NEW v \in Var, LiveAt(b, i + 1, v)
      PROVE  env'[v] = ssa'[v][UseName(b, v, i + 1)]
  <2>1. CASE v \in def
    <3>1. i \in DefPlaces(b, v)
      BY <1>4, <2>1, DefPlacesType
    <3>2. DefName(b, v, i) \in Names /\ UseName(b, v, i + 1) = DefName(b, v, i)
      BY <1>2, <3>1, NamesFit DEF Renamed, BlockRenamed
    <3>3. ssa[v] \in [Names -> Value]
      BY DEF RunInv
    <3>4. ssa'[v] = [ssa[v] EXCEPT ![DefName(b, v, i)] = x] /\ env'[v] = x
      BY <1>5, <2>1
    <3>5. QED
      BY <3>2, <3>3, <3>4
  <2>2. CASE v \notin def
    <3>1. i \notin DefPlaces(b, v)
      BY <1>4, <2>2, DefPlacesType
    <3>2. UseName(b, v, i + 1) = UseName(b, v, i)
      BY <1>2, <1>4, <3>1 DEF Renamed, BlockRenamed
    <3>3. LiveAt(b, i, v)
      BY <1>4, <1>9, <2>2, LiveBefore
    <3>4. env[v] = ssa[v][UseName(b, v, i)]
      BY <1>3, <3>3 DEF Agree
    <3>5. QED
      BY <1>5, <2>2, <3>2, <3>4
  <2>3. QED
    BY <2>1, <2>2
<1>10. PICK k \in 1 .. Len(body[b]) + 1 : k = i + 1
  BY <1>4
<1>11. Agree(b, k)'
  <2>1. \A v \in Var : LiveAt(b, k, v)' <=> LiveAt(b, k, v)
    BY <1>1 DEF LiveAt, program
  <2>2. \A v : UseName(b, v, k)' = UseName(b, v, k)
    BY <1>8 DEF UseName
  <2>3. QED
    BY <1>9, <1>10, <2>1, <2>2 DEF Agree
<1>12. QED
  BY <1>1, <1>6, <1>7, <1>8, <1>10, <1>11 DEF RunInv

(* The exit of b is taken: the phis of c write what they take from b. *)
LEMMA RunExitInv ==
  ASSUME Program, PhiInv, RenameInv, RunInv, NEW c \in Block, RunExit(c)
  PROVE  RunInv'
<1>1. pc = "run" /\ UNCHANGED <<program, pc, rename, env, phi>>
  BY DEF RunExit, addPhi
<1>2. Renamed(Block)
  BY <1>1, AllRenamed
<1>0. PICK b \in Block : \E i \in 1 .. Len(body[b]) + 1 : place = <<b, i>> /\ Agree(b, i)
  BY <1>1 DEF RunInv
<1>3. PICK i \in 1 .. Len(body[b]) + 1 : place = <<b, i>> /\ Agree(b, i)
  BY <1>0
<1>4. Len(body[b]) \in Nat /\ i = Len(body[b]) + 1 /\ c \in succ[b]
  <2>1. Len(body[b]) \in Nat
    BY BodyType
  <2>2. i > Len(body[b]) /\ c \in succ[b]
    BY <1>3 DEF RunExit, AtExit, Here
  <2>3. QED
    BY <2>1, <2>2
<1>5. ssa' = [v \in Var |-> IF v \in phi[c]
                THEN [ssa[v] EXCEPT ![DefName(c, v, 0)] = ssa[v][name[<<"arg", c, b, v>>]]]
                ELSE ssa[v]]
  BY <1>3 DEF RunExit, Here, DefName
<1>6. place' = <<c, 1>>
  BY DEF RunExit
<1>7. ASSUME NEW v \in Var
      PROVE  /\ EndName(b, v) \in Names
             /\ v \in phi[c] => /\ name[<<"arg", c, b, v>>] = EndName(b, v)
                                /\ DefName(c, v, 0) \in Names
                                /\ UseName(c, v, 1) = DefName(c, v, 0)
             /\ v \in live[c] => env[v] = ssa[v][EndName(b, v)]
  <2>1. EndName(b, v) = UseName(b, v, i)
    BY <1>4 DEF EndName
  <2>2. EndName(b, v) \in Names
    BY <1>2, <2>1, NamesFit
  <2>3. ASSUME v \in phi[c]
        PROVE  /\ name[<<"arg", c, b, v>>] = EndName(b, v)
               /\ DefName(c, v, 0) \in Names
               /\ UseName(c, v, 1) = DefName(c, v, 0)
    <3>1. 0 \in DefPlaces(c, v)
      BY <2>3, DefPlacesType
    <3>2. DefName(c, v, 0) \in Names
      BY <1>2, <3>1, NamesFit
    <3>3. UseName(c, v, 0 + 1) = DefName(c, v, 0)
      BY <1>2, <3>1 DEF Renamed, BlockRenamed
    <3>4. name[<<"arg", c, b, v>>] = EndName(b, v)
      BY <1>2, <1>4, <2>3 DEF Renamed, BlockRenamed
    <3>5. QED
      BY <3>2, <3>3, <3>4
  <2>4. ASSUME v \in live[c] PROVE env[v] = ssa[v][EndName(b, v)]
    <3>1. \A k \in i .. Len(body[b]) : FALSE
      BY <1>4
    <3>2. LiveAt(b, i, v)
      BY <1>4, <2>4, <3>1 DEF LiveAt
    <3>3. QED
      BY <1>3, <2>1, <3>2 DEF Agree
  <2>5. QED
    BY <2>2, <2>3, <2>4
<1>8. body' = body /\ name' = name /\ Names' = Names /\ pc' = pc /\ env' = env
  BY <1>1 DEF program, rename, Names
<1>9. ssa' \in [Var -> [Names -> Value]]
  BY <1>5, <1>7 DEF RunInv
<1>10. ASSUME NEW v \in Var, LiveAt(c, 1, v)
       PROVE  env'[v] = ssa'[v][UseName(c, v, 1)]
  <2>1. v \in live[c]
    BY <1>10, LiveAtStart
  <2>2. CASE v \in phi[c]
    <3>1. ssa'[v] = [ssa[v] EXCEPT ![DefName(c, v, 0)] = ssa[v][EndName(b, v)]]
      BY <1>5, <1>7, <2>2
    <3>2. ssa[v] \in [Names -> Value]
      BY DEF RunInv
    <3>3. QED
      BY <1>7, <1>8, <2>1, <2>2, <3>1, <3>2
  <2>3. CASE v \notin phi[c]
    <3>1. UseName(c, v, 1) = EndName(b, v)
      BY <1>1, <1>2, <1>4, <2>1, <2>3, JoinAgrees
    <3>2. QED
      BY <1>5, <1>7, <1>8, <2>1, <2>3, <3>1
  <2>4. QED
    BY <2>2, <2>3
<1>11. PICK k \in 1 .. Len(body[c]) + 1 : k = 1
  <2>1. Len(body[c]) \in Nat
    BY BodyType
  <2>2. QED
    BY <2>1
<1>12. Agree(c, k)'
  <2>1. \A v \in Var : LiveAt(c, k, v)' <=> LiveAt(c, k, v)
    BY <1>1 DEF LiveAt, program
  <2>2. \A v : UseName(c, v, k)' = UseName(c, v, k)
    BY <1>8 DEF UseName
  <2>3. QED
    BY <1>10, <1>11, <2>1, <2>2 DEF Agree
<1>13. QED
  BY <1>1, <1>6, <1>8, <1>9, <1>11, <1>12 DEF RunInv

(* The two runs do not start before Rename is done. *)
LEMMA RunKept ==
  ASSUME RunInv, UNCHANGED <<program, run>>,
         (pc # "run" /\ pc' # "run") \/ UNCHANGED <<pc, name>>
  PROVE  RunInv'
<1>1. /\ place' = place /\ env' = env /\ ssa' = ssa /\ body' = body /\ Names' = Names
  BY DEF program, run, Names
<1>2. CASE pc # "run" /\ pc' # "run"
  BY <1>1, <1>2 DEF RunInv
<1>3. CASE UNCHANGED <<pc, name>>
  <2>1. \A b, i : Agree(b, i)' <=> Agree(b, i)
    BY <1>1, <1>3 DEF Agree, LiveAt, UseName, program
  <2>2. QED
    BY <1>1, <1>3, <2>1 DEF RunInv
<1>4. QED
  BY <1>2, <1>3

-----------------------------------------------------------------------------
(* The invariant of the two passes and of the runs that follow them. *)
SSAInv == Program /\ PhiInv /\ RenameInv /\ RunInv

(* Every step of ConstructSSA and of the two runs keeps SSAInv. *)
LEMMA SSANext ==
  ASSUME SSAInv, [Next]_vars
  PROVE  SSAInv'
<1> USE DEF SSAInv
<1>0. Program'
  <2>1. UNCHANGED program
    BY DEF Next, StartAlloc, PlacePhi, StartRename, RenameChild, Leave, RunInst, RunExit, Return, vars
  <2>2. QED
    BY <2>1, ProgramKept
<1>1. ASSUME NEW v \in Var, StartAlloc(v) PROVE SSAInv'
  <2>1. pc = "phi" /\ UNCHANGED <<program, pc, rename, run>>
    BY <1>1 DEF StartAlloc
  <2>2. QED
    BY <1>0, <1>1, <2>1, StartAllocInv, RenameKept, RunKept
<1>2. ASSUME NEW b \in Block, PlacePhi(b) PROVE SSAInv'
  <2>1. pc = "phi" /\ UNCHANGED <<program, pc, rename, run>>
    BY <1>2 DEF PlacePhi
  <2>2. QED
    BY <1>0, <1>2, <2>1, PlacePhiInv, RenameKept, RunKept
<1>3. CASE StartRename
  <2>1. /\ pc = "phi" /\ worklist = {} /\ allocs = {} /\ pc' = "rename"
        /\ UNCHANGED <<program, addPhi, run>>
    BY <1>3 DEF StartRename
  <2>2. QED
    BY <1>0, <1>3, <2>1, PhiKept, StartRenameInv, RunKept
<1>4. ASSUME NEW c \in Block, RenameChild(c) PROVE SSAInv'
  <2>1. pc = "rename" /\ pc' = pc /\ UNCHANGED <<program, addPhi, run>>
    BY <1>4 DEF RenameChild
  <2>2. QED
    BY <1>0, <1>4, <2>1, PhiKept, RenameChildInv, RunKept
<1>5. CASE Leave
  <2>1. pc = "rename" /\ pc' \in {"rename", "run"} /\ UNCHANGED <<program, addPhi, run>>
    BY <1>5 DEF Leave
  <2>2. QED
    BY <1>0, <1>5, <2>1, PhiKept, LeaveInv, RunBegins
<1>6. CASE RunInst
  <2>1. pc = "run" /\ UNCHANGED <<program, pc, addPhi, rename>> /\ phi' = phi
    BY <1>6 DEF RunInst, addPhi
  <2>2. PhiInv' /\ RenameInv'
    BY <2>1, PhiKept, RenameKept
  <2>3. QED
    BY <1>0, <1>6, <2>2, RunInstInv
<1>7. ASSUME NEW c \in Block, RunExit(c) PROVE SSAInv'
  <2>1. pc = "run" /\ UNCHANGED <<program, pc, addPhi, rename>> /\ phi' = phi
    BY <1>7 DEF RunExit, addPhi
  <2>2. PhiInv' /\ RenameInv'
    BY <2>1, PhiKept, RenameKept
  <2>3. QED
    BY <1>0, <1>7, <2>2, RunExitInv
<1>8. CASE UNCHANGED vars
  <2>1. UNCHANGED <<program, pc, addPhi, rename, run>> /\ phi' = phi /\ name' = name
    BY <1>8 DEF vars, addPhi, rename
  <2>2. PhiInv' /\ RenameInv'
    BY <2>1, PhiKept, RenameKept DEF PhiInv
  <2>3. RunInv'
    BY <2>1, RunKept
  <2>4. QED
    BY <1>0, <2>2, <2>3
<1>9. QED
  BY <1>1, <1>2, <1>3, <1>4, <1>5, <1>6, <1>7, <1>8 DEF Next, Return

-----------------------------------------------------------------------------
(* Where versions meet.  A phi is there because of a definition whose        *)
(* dominance ends at its block, and what the function is entered with has no *)
(* version.                                                                  *)
JoinInv ==
  /\ \A b \in Block : \A v \in phi[b] : \E d \in Block : Defined(d, v) /\ b \in frontier[d]
  /\ pc # "phi" => \A v \in Var : UseName(Entry, v, 1) = Named

(* The first place of a block in the table of names. *)
LEMMA FirstPlace ==
  ASSUME Program, NEW b \in Block
  PROVE  1 \in 1 .. Len(body[b]) + 1
BY BodyType

(* A phi gets its cause with the variable, and keeps it: nothing that was    *)
(* defined ceases to be.                                                     *)
LEMMA PlacePhiJoins ==
  ASSUME Program, PhiInv, JoinInv, NEW b \in Block, PlacePhi(b)
  PROVE  JoinInv'
<1>1. /\ pc = "phi" /\ pc' = pc /\ b \in worklist
      /\ phi' = [c \in Block |-> IF c \in frontier[b] /\ alloc \subseteq live[c]
                                 THEN phi[c] \cup alloc ELSE phi[c]]
      /\ frontier' = frontier /\ body' = body
  BY DEF PlacePhi, program
<1>2. PICK v \in Var : alloc = {v}
  BY <1>1 DEF PhiInv
<1>3. Defined(b, v)
  BY <1>1, <1>2 DEF PhiInv
<1>4. \A c \in Block : \A w : Defined(c, w) => Defined(c, w)'
  BY <1>1 DEF Defined, Defines
<1> SUFFICES ASSUME NEW c \in Block, NEW w \in phi'[c]
             PROVE  \E d \in Block : Defined(d, w) /\ c \in frontier[d]
  BY <1>1, <1>4 DEF JoinInv
<1>5. w \in phi[c] \/ (w = v /\ c \in frontier[b])
  BY <1>1, <1>2
<1>6. QED
  BY <1>3, <1>5 DEF JoinInv

(* Only the first call of rename names what the entrance reads first, and    *)
(* then every stack is empty: no edge leads back to it, so it has no phi.    *)
LEMMA RenameJoins ==
  ASSUME Program, PhiInv, RenameInv, JoinInv,
         StartRename \/ \E c \in Block : RenameChild(c)
  PROVE  JoinInv'
<1>1. UNCHANGED <<program, phi>> /\ pc' # "phi" /\ Entry \in Block
  BY EntryIsBlock DEF StartRename, RenameChild, addPhi
<1>2. \A b \in Block : \A v \in phi'[b] : \E d \in Block : Defined(d, v)' /\ b \in frontier'[d]
  BY <1>1 DEF JoinInv, Defined, Defines, program
<1>3. CASE StartRename
  <2>1. /\ RenameBlock(Entry) /\ DOMAIN name = Slot(body)
        /\ rename_stack = [v \in Var |-> <<>>]
    BY <1>3 DEF StartRename, RenameInv
  <2>2. ASSUME NEW v \in Var PROVE UseName(Entry, v, 1)' = Named
    <3>1. UseName(Entry, v, 1)' = TopAt(Entry, v, 1)
      BY <1>1, <2>1, FirstPlace, RenameBlockNames
    <3>2. v \notin phi[Entry]
      <4>1. ASSUME NEW d \in Block PROVE Entry \notin frontier[d]
        BY <1>1 DEF Program, InFrontier, Pred, PredOf
      <4>2. QED
        BY <1>1, <4>1 DEF JoinInv
    <3>3. {j \in DefPlaces(Entry, v) : j < 1} = {}
      <4>1. Len(body[Entry]) \in Nat /\ DefPlaces(Entry, v) \subseteq 0 .. Len(body[Entry])
            /\ 0 \notin DefPlaces(Entry, v)
        BY <1>1, <3>2, BodyType, DefPlacesType
      <4>2. QED
        BY <4>1
    <3>4. DefsBefore(Entry, v, 1) = 0
      BY <3>3, FS_EmptySet DEF DefsBefore
    <3>5. QED
      BY <2>1, <3>1, <3>4 DEF TopAt
  <2>3. QED
    BY <1>2, <2>2 DEF JoinInv
<1>4. ASSUME NEW c \in Block, RenameChild(c) PROVE JoinInv'
  <2>1. pc # "phi" /\ frames # <<>> /\ c \in Last(frames).left /\ RenameBlock(c)
    BY <1>4 DEF RenameChild
  <2>2. PICK done \in SUBSET Block, height \in [0 .. Len(frames) -> [Var -> Nat]] :
          Renamed(done) /\ Walk(done, height)
    BY <2>1 DEF RenameInv
  <2>3. c # Entry
    <3>1. frames \in Seq(FrameType) /\ Len(frames) \in 1 .. Len(frames)
      BY <2>1, <2>2, EmptySeq, LenProperties DEF Walk, Calls
    <3>2. c \in children[Last(frames).block] /\ Last(frames).block \in Block
      BY <2>1, <2>2, <3>1 DEF Walk, Calls, Last
    <3>3. QED
      BY <3>2, ChildrenType
  <2>4. DOMAIN name = Slot(body)
    BY <2>2 DEF Renamed
  <2>5. ASSUME NEW v \in Var PROVE UseName(Entry, v, 1)' = Named
    BY <1>1, <2>1, <2>3, <2>4, FirstPlace, RenameBlockNames DEF JoinInv
  <2>6. QED
    BY <1>2, <2>5 DEF JoinInv
<1>5. QED
  BY <1>3, <1>4

(* Every other step leaves the phis and the names alone. *)
LEMMA JoinNext ==
  ASSUME SSAInv, JoinInv, [Next]_vars
  PROVE  JoinInv'
<1>1. ASSUME UNCHANGED <<program, phi, name>>, pc = "phi" => pc' = "phi" PROVE JoinInv'
  <2>1. \A b, v : Defined(b, v)' <=> Defined(b, v)
    BY <1>1 DEF Defined, Defines, program
  <2>2. \A v : UseName(Entry, v, 1)' = UseName(Entry, v, 1)
    BY <1>1 DEF UseName
  <2>3. QED
    BY <1>1, <2>1, <2>2 DEF JoinInv, program
<1>2. ASSUME NEW v \in Var, StartAlloc(v) PROVE JoinInv'
  BY <1>1, <1>2 DEF StartAlloc, rename
<1>3. ASSUME NEW b \in Block, PlacePhi(b) PROVE JoinInv'
  BY <1>3, PlacePhiJoins DEF SSAInv
<1>4. CASE StartRename \/ \E c \in Block : RenameChild(c)
  BY <1>4, RenameJoins DEF SSAInv
<1>5. CASE Leave
  BY <1>1, <1>5 DEF Leave, addPhi
<1>6. CASE RunInst \/ UNCHANGED vars \/ \E c \in Block : RunExit(c)
  BY <1>1, <1>6 DEF RunInst, RunExit, vars, addPhi, rename
<1>7. QED
  BY <1>2, <1>3, <1>4, <1>5, <1>6 DEF Next, Return

(* A block that defines v ends with the version of its last definition. *)
LEMMA EndsWithLast ==
  ASSUME Program, PhiInv, Renamed(Block), NEW b \in Block, NEW v \in Var, Defined(b, v)
  PROVE  \E i \in DefPlaces(b, v) : EndName(b, v) = DefName(b, v, i)
<1> DEFINE n == Len(body[b])
<1>1. n \in Nat /\ DefPlaces(b, v) \subseteq 0 .. n /\ DefPlaces(b, v) # {}
  BY BodyType, DefPlacesType
<1>2. PICK last \in DefPlaces(b, v) : \A j \in DefPlaces(b, v) : j <= last
  <2>1. DefPlaces(b, v) \in SUBSET Nat /\ \A j \in DefPlaces(b, v) : j <= n
    BY <1>1
  <2>2. QED
    BY <1>1, <2>1, GreatestMember
<1>3. last \in Nat /\ last <= n
  BY <1>1, <1>2
<1>4. BlockRenamed(b, v)
  BY DEF Renamed
<1>5. UseName(b, v, last + 1) = DefName(b, v, last)
  BY <1>2, <1>4 DEF BlockRenamed
<1> DEFINE S == {k \in 0 .. n - last : UseName(b, v, last + 1 + k) = DefName(b, v, last)}
           bound == n - last
<1>6. bound \in Nat /\ 0 \in S
  BY <1>1, <1>3, <1>5
<1>7. ASSUME NEW k \in 0 .. bound - 1, k \in S PROVE k + 1 \in S
  <2>1. PICK i \in 1 .. n : i = last + 1 + k
    BY <1>1, <1>3, <1>7
  <2>2. i \notin DefPlaces(b, v)
    BY <1>2, <1>3, <2>1
  <2>3. UseName(b, v, i + 1) = UseName(b, v, i)
    BY <1>4, <2>1, <2>2 DEF BlockRenamed
  <2>4. i + 1 = last + 1 + (k + 1) /\ k + 1 \in 0 .. n - last
    BY <1>1, <1>3, <1>7, <2>1
  <2>5. QED
    BY <1>7, <2>1, <2>3, <2>4
<1>8. bound \in S
  <2> HIDE DEF S, bound
  <2>1. 0 .. bound \subseteq S
    BY <1>6, <1>7, InductionUpTo
  <2>2. QED
    BY <1>6, <2>1
<1>9. last + 1 + bound = n + 1
  <2> HIDE DEF S, n
  <2> QED BY <1>1, <1>3
<1>10. QED
  BY <1>2, <1>8, <1>9 DEF EndName

(* What b ends with was defined in a block that dominates it, if it has a    *)
(* version; and if d dominates b and defines v, in one that d dominates.     *)
DefinedAbove(b, v) ==
  EndName(b, v) # Named =>
    \E n \in Block : Dominates(Pred, n, b) /\ \E i \in DefPlaces(n, v) : EndName(b, v) = DefName(n, v, i)

DefinedBelow(d, b, v) ==
  Dominates(Pred, d, b) =>
    \E n \in Block : Dominates(Pred, d, n) /\ \E i \in DefPlaces(n, v) : EndName(b, v) = DefName(n, v, i)

(* A variable that no dominator of x defines has no version at its end. *)
LEMMA EndsFromAbove ==
  ASSUME Program, PhiInv, JoinInv, Renamed(Block), pc # "phi", NEW v \in Var, NEW x \in Block
  PROVE  DefinedAbove(x, v)
<1> DEFINE S == {b \in Block : DefinedAbove(b, v)}
<1>1. Pred \in [Block -> SUBSET Block] /\ \A b \in Block : ~Unreachable(Pred, b)
  BY PredType DEF Program
<1>2. ASSUME NEW b \in Block, Defined(b, v) PROVE b \in S
  BY <1>2, EndsWithLast, DominatesItself DEF DefinedAbove
<1>3. Entry \in S
  <2>1. Entry \in Block
    BY EntryIsBlock
  <2>2. CASE ~Defined(Entry, v)
    <3>1. Len(body[Entry]) \in Nat /\ DefPlaces(Entry, v) = {}
      BY <2>1, <2>2, BodyType, DefPlacesType
    <3>2. BlockRenamed(Entry, v)
      BY <2>1 DEF Renamed
    <3> DEFINE T == {k \in 0 .. Len(body[Entry]) : UseName(Entry, v, k + 1) = Named}
               bound == Len(body[Entry])
    <3>3. 0 \in T /\ bound \in Nat
      BY <3>1 DEF JoinInv
    <3>4. ASSUME NEW k \in 0 .. bound - 1, k \in T PROVE k + 1 \in T
      <4>1. k + 1 \in 1 .. Len(body[Entry])
        BY <3>1, <3>4
      <4>2. UseName(Entry, v, (k + 1) + 1) = UseName(Entry, v, k + 1)
        BY <3>1, <3>2, <4>1 DEF BlockRenamed
      <4>3. QED
        BY <3>1, <3>4, <4>1, <4>2
    <3>5. bound \in T
      <4> HIDE DEF T, bound
      <4>1. 0 .. bound \subseteq T
        BY <3>3, <3>4, InductionUpTo
      <4>2. QED
        BY <3>3, <4>1
    <3>6. EndName(Entry, v) = Named
      BY <3>5 DEF EndName
    <3>7. QED
      BY <2>1, <3>6 DEF DefinedAbove
  <2>3. QED
    BY <1>2, <2>1, <2>2
<1>4. ASSUME NEW m \in Block, NEW b \in Block, ImmediatelyDominates(Pred, m, b), m \in S
      PROVE  b \in S
  <2>1. CASE ~Defined(b, v)
    <3>1. EndName(b, v) = EndName(m, v)
      BY <1>4, <2>1, PassesThrough DEF Program
    <3>2. ASSUME NEW n \in Block, Dominates(Pred, n, m) PROVE Dominates(Pred, n, b)
      BY <1>1, <1>4, <3>2, DominatesTransitive DEF ImmediatelyDominates, StrictlyDominates
    <3>3. QED
      BY <1>4, <3>1, <3>2 DEF DefinedAbove
  <2>2. QED
    BY <1>2, <2>1
<1> HIDE DEF S
<1>5. Block \subseteq S
  BY <1>1, <1>3, <1>4, TreeInduction
<1>6. QED
  BY <1>5 DEF S

(* Below d the versions from before d are not seen any more. *)
LEMMA EndsFromBelow ==
  ASSUME Program, PhiInv, Renamed(Block), NEW v \in Var, NEW d \in Block, Defined(d, v),
         NEW x \in Block
  PROVE  DefinedBelow(d, x, v)
<1> DEFINE S == {b \in Block : DefinedBelow(d, b, v)}
<1>1. Pred \in [Block -> SUBSET Block] /\ \A b \in Block : ~Unreachable(Pred, b)
  BY PredType DEF Program
<1>2. ASSUME NEW b \in Block, Defined(b, v) PROVE b \in S
  BY <1>2, EndsWithLast DEF DefinedBelow
<1>3. Entry \in S
  <2>1. Dominates(Pred, d, Entry) => d = Entry
    BY <1>1, EntryUndominated
  <2>2. QED
    BY <1>2, <2>1, EntryIsBlock DEF DefinedBelow
<1>4. ASSUME NEW m \in Block, NEW b \in Block, ImmediatelyDominates(Pred, m, b), m \in S
      PROVE  b \in S
  <2>1. CASE ~Defined(b, v)
    <3>1. EndName(b, v) = EndName(m, v)
      BY <1>4, <2>1, PassesThrough DEF Program
    <3>2. Dominates(Pred, d, b) => Dominates(Pred, d, m)
      <4>1. d # b
        BY <2>1
      <4>2. QED
        BY <1>1, <1>4, <4>1, AboveImmediate
    <3>3. QED
      BY <1>4, <3>1, <3>2 DEF DefinedBelow
  <2>2. QED
    BY <1>2, <2>1
<1> HIDE DEF S
<1>5. Block \subseteq S
  BY <1>1, <1>3, <1>4, TreeInduction
<1>6. QED
  BY <1>5 DEF S

(* Where the dominance of d ends, an edge comes in that d does not dominate. *)
LEMMA EntersFromOutside ==
  ASSUME Program, NEW d \in Block, NEW b \in frontier[d]
  PROVE  /\ b \in Block
         /\ \E p \in Pred[b] : Dominates(Pred, d, p)
         /\ \E q \in Pred[b] : ~Dominates(Pred, d, q)
<1>1. b \in Block /\ InFrontier(Pred, b, d) /\ Pred \in [Block -> SUBSET Block]
  BY PredType DEF Program
<1>2. \E p \in Pred[b] : Dominates(Pred, d, p)
  BY <1>1 DEF InFrontier
<1> SUFFICES ASSUME \A q \in Pred[b] : Dominates(Pred, d, q) PROVE FALSE
  BY <1>1, <1>2
<1> DEFINE S == Avoiding(Pred, d) \ {b}
<1>3. b # Entry
  BY <1>1, <1>2 DEF Program, Pred, PredOf
<1>4. CASE d # b
  <2>1. b \notin Avoiding(Pred, d)
    <3>1. ClosedAvoiding(Pred, S, d)
      <4>1. Entry # d => Entry \in S
        BY <1>1, <1>3, AvoidingClosed, EntryIsBlock
      <4>2. ASSUME NEW c \in Block \ {d}, Pred[c] \cap S # {} PROVE c \in S
        <5>1. c \in Avoiding(Pred, d)
          BY <1>1, <4>2, AvoidingClosed
        <5>2. c # b
          BY <4>2 DEF Avoiding
        <5>3. QED
          BY <5>1, <5>2
      <4>3. QED
        BY <4>1, <4>2 DEF ClosedAvoiding
    <3>2. S \in SUBSET (Block \ {d}) /\ b \notin S
      BY DominatesItself DEF Avoiding
    <3>3. Dominates(Pred, d, b)
      BY <3>1, <3>2 DEF Dominates
    <3>4. QED
      BY <3>3 DEF Avoiding
  <2>2. Dominates(Pred, d, b)
    BY <1>1, <2>1 DEF Avoiding
  <2>3. QED
    BY <1>1, <1>4, <2>2 DEF InFrontier, StrictlyDominates
<1>5. CASE d = b
  <2> DEFINE T == Avoiding(Pred, b)
  <2>1. Entry \in T
    BY <1>1, <1>3, AvoidingClosed, EntryIsBlock
  <2>2. ASSUME NEW c \in Block, Pred[c] \cap T # {} PROVE c \in T
    <3>1. c # b
      BY <1>5, <2>2 DEF Avoiding
    <3>2. QED
      BY <1>1, <2>2, <3>1, AvoidingClosed
  <2>3. ~Unreachable(Pred, b) /\ T \in SUBSET Block
    BY <1>1 DEF Program, Avoiding
  <2> HIDE DEF T
  <2>4. b \in T
    BY <1>1, <2>1, <2>2, <2>3, ClosedReaches
  <2>5. QED
    BY <1>1, <2>4, DominatesItself DEF T, Avoiding
<1>6. QED
  BY <1>4, <1>5

(* The invariant of ConstructSSA. *)
THEOREM SSAInvariant == Spec => []SSAInv
<1>1. Init => SSAInv
  BY ProgramInit, PhiInit, RenameInit, RunInit DEF SSAInv
<1>2. SSAInv /\ [Next]_vars => SSAInv'
  BY SSANext
<1> QED BY <1>1, <1>2, PTL DEF Spec

(* A phi is where versions meet, on every control-flow graph: its block has  *)
(* a predecessor that the definition it is there for dominates, which ends   *)
(* with a version given below that definition, and one that it does not      *)
(* dominate, which cannot end with a version given there.                    *)
THEOREM PhisAreJoins == Spec => []PhisJoin
<1>1. Init => JoinInv
  BY DEF Init, Construct, JoinInv
<1>2. SSAInv /\ JoinInv => PhisJoin
  <2> SUFFICES ASSUME SSAInv, JoinInv, pc = "run", NEW b \in Block, NEW v \in phi[b]
               PROVE  \E p, q \in Block :
                        /\ b \in succ[p] /\ b \in succ[q]
                        /\ name[<<"arg", b, p, v>>] # name[<<"arg", b, q, v>>]
    BY DEF PhisJoin
  <2> USE DEF SSAInv
  <2>1. v \in Var /\ Renamed(Block)
    BY AllRenamed DEF PhiInv
  <2>2. PICK d \in Block : Defined(d, v) /\ b \in frontier[d]
    BY DEF JoinInv
  <2>3. PICK p \in Pred[b] : Dominates(Pred, d, p)
    BY <2>2, EntersFromOutside
  <2>4. PICK q \in Pred[b] : ~Dominates(Pred, d, q)
    BY <2>2, EntersFromOutside
  <2>5. p \in Block /\ q \in Block /\ b \in succ[p] /\ b \in succ[q]
        /\ Pred \in [Block -> SUBSET Block]
    BY <2>3, <2>4, PredType
  <2>6. /\ name[<<"arg", b, p, v>>] = EndName(p, v)
        /\ name[<<"arg", b, q, v>>] = EndName(q, v)
    BY <2>1, <2>5 DEF Renamed, BlockRenamed
  <2>7. EndName(p, v) # EndName(q, v)
    <3> SUFFICES ASSUME EndName(p, v) = EndName(q, v) PROVE FALSE
      OBVIOUS
    <3>1. PICK m \in Block : /\ Dominates(Pred, d, m)
                             /\ \E i \in DefPlaces(m, v) : EndName(p, v) = DefName(m, v, i)
      BY <2>1, <2>2, <2>3, <2>5, EndsFromBelow DEF DefinedBelow
    <3>2. PICK i \in DefPlaces(m, v) : EndName(p, v) = DefName(m, v, i)
      BY <3>1
    <3>3. DefName(m, v, i) \in 0 .. version[v] - 1
      BY <2>1 DEF Renamed, BlockRenamed
    <3>4. EndName(q, v) # Named
      BY <3>2, <3>3 DEF Named
    <3>5. PICK n \in Block : /\ Dominates(Pred, n, q)
                             /\ \E j \in DefPlaces(n, v) : EndName(q, v) = DefName(n, v, j)
      BY <2>1, <2>5, <3>4, EndsFromAbove DEF DefinedAbove
    <3>6. m = n
      BY <2>1, <3>2, <3>5 DEF Renamed
    <3>7. QED
      BY <2>4, <2>5, <3>1, <3>5, <3>6, DominatesTransitive
  <2>8. QED
    BY <2>5, <2>6, <2>7
<1>3. SSAInv /\ JoinInv /\ [Next]_vars => JoinInv'
  BY JoinNext
<1> QED BY <1>1, <1>2, <1>3, SSAInvariant, PTL DEF Spec

(* Rename gives every definition, phis included, a version of its own, on    *)
(* every control-flow graph and in whatever order the children are visited.  *)
THEOREM AssignsOnce == Spec => []SingleAssignment
<1>1. SSAInv => SingleAssignment
  <2> SUFFICES ASSUME SSAInv, pc = "run", NEW v \in Var, NEW b \in Block, NEW c \in Block,
                      NEW i \in DefPlaces(b, v), NEW j \in DefPlaces(c, v)
               PROVE  /\ DefName(b, v, i) # Named
                      /\ DefName(b, v, i) = DefName(c, v, j) => b = c /\ i = j
    BY DEF SingleAssignment, DefName
  <2>1. Renamed(Block)
    BY AllRenamed DEF SSAInv
  <2>2. DefName(b, v, i) \in 0 .. version[v] - 1
    BY <2>1 DEF Renamed, BlockRenamed
  <2>3. DefName(b, v, i) # Named
    BY <2>2 DEF Named
  <2>4. QED
    BY <2>1, <2>3 DEF Renamed
<1> QED BY <1>1, SSAInvariant, PTL

(* The renamed function computes what the original computes: whatever path   *)
(* the two run along, every use reads the value that the variable had in the *)
(* original.                                                                 *)
THEOREM RenamedReadsTheSame == Spec => []UsesAgree
<1>1. SSAInv => UsesAgree
  <2> SUFFICES ASSUME SSAInv, pc = "run", NEW v \in Reads
               PROVE  env[v] = ssa[v][name[<<"use", Here, place[2], v>>]]
    BY DEF UsesAgree
  <2>1. PICK b \in Block : \E i \in 1 .. Len(body[b]) + 1 : place = <<b, i>> /\ Agree(b, i)
    BY DEF SSAInv, RunInv
  <2>2. PICK i \in 1 .. Len(body[b]) + 1 : place = <<b, i>> /\ Agree(b, i)
    BY <2>1
  <2>3. Here = b /\ place[2] = i
    BY <2>2 DEF Here
  <2>4. Program
    BY DEF SSAInv
  <2>5. v \in Var /\ LiveAt(b, i, v)
    <3>1. Len(body[b]) \in Nat
      BY <2>4, BodyType
    <3>2. CASE i > Len(body[b])
      <4>1. v \in exit_use[b] /\ \A k \in i .. Len(body[b]) : FALSE
        BY <2>3, <3>1, <3>2 DEF Reads, AtExit
      <4>2. QED
        BY <2>4, <4>1 DEF LiveAt, Program
    <3>3. CASE ~(i > Len(body[b]))
      <4>1. v \in body[b][i].uses /\ i \in i .. Len(body[b]) /\ i \in 1 .. Len(body[b])
            /\ \A k \in i .. i - 1 : FALSE
        BY <2>3, <3>1, <3>3 DEF Reads, AtExit
      <4>2. v \in Var
        BY <2>4, <4>1, BodyType
      <4>3. QED
        BY <4>1, <4>2 DEF LiveAt
    <3>4. QED
      BY <3>2, <3>3
  <2>6. QED
    BY <2>2, <2>3, <2>5 DEF Agree, UseName
<1> QED BY <1>1, SSAInvariant, PTL

(* The fold of StacksBalanced adds the push counts up. *)
LEMMA PushCountsAdd ==
  ASSUME NEW fs \in Seq(FrameType), NEW v \in Var,
         NEW h \in [0 .. Len(fs) -> Nat], h[0] = 0,
         \A k \in 1 .. Len(fs) : h[k] = h[k - 1] + fs[k].push_count[v]
  PROVE  FoldLeft(LAMBDA sum, f : sum + f.push_count[v], 0, fs) = h[Len(fs)]
<1> DEFINE n == Len(fs)
           Step(iter) == [s \in SUBSET (DOMAIN fs) |->
             IF s = {} THEN 0 ELSE iter[s \ {Max(s)}] + fs[Max(s)].push_count[v]]
           fold == CHOOSE iter : iter = Step(iter)
<1>1. FoldLeft(LAMBDA sum, f : sum + f.push_count[v], 0, fs) = fold[DOMAIN fs]
  BY DEF FoldLeft, MapThenFoldSet
<1>2. n \in Nat /\ DOMAIN fs = 1 .. n /\ n = Len(fs)
  BY LenProperties
<1>3. \A k \in 1 .. n : fs[k].push_count[v] \in Nat
  <2> TAKE k \in 1 .. n
  <2>1. fs[k] \in FrameType
    BY ElementOfSeq
  <2>2. QED
    BY <2>1 DEF FrameType
<1>4. PICK g : g = [p \in (1 .. n) \X Nat |-> p[2] + fs[p[1]].push_count[v]]
  OBVIOUS
<1>5. g \in [(1 .. n) \X Nat -> Nat]
  BY <1>3, <1>4
<1> HIDE DEF n
<1>6. PICK iter \in [SUBSET (1 .. n) -> Nat] : IsFold(n, 0, g, iter)
  <2>1. 0 \in Nat
    OBVIOUS
  <2>2. QED
    BY <1>2, <1>5, <2>1, FoldExists
<1>7. ASSUME NEW s \in SUBSET (1 .. n)
      PROVE  iter[s] = IF s = {} THEN 0 ELSE iter[s \ {Max(s)}] + fs[Max(s)].push_count[v]
  <2>1. CASE s = {}
    BY <1>6, <2>1 DEF IsFold
  <2>2. CASE s # {}
    <3>1. Max(s) \in 1 .. n
      BY <1>2, <2>2, MaxOf
    <3>2. iter[s \ {Max(s)}] \in Nat
      <4> DEFINE t == s \ {Max(s)}
      <4>1. t \in SUBSET (1 .. n)
        OBVIOUS
      <4> HIDE DEF t
      <4>2. iter[t] \in Nat
        BY <1>6, <4>1
      <4>3. QED
        BY <4>2 DEF t
    <3>3. g[<<Max(s), iter[s \ {Max(s)}]>>] = iter[s \ {Max(s)}] + fs[Max(s)].push_count[v]
      BY <1>4, <3>1, <3>2
    <3>4. QED
      BY <1>6, <2>2, <3>3 DEF IsFold
  <2>3. QED
    BY <2>1, <2>2
<1>8. iter = Step(iter)
  BY <1>2, <1>6, <1>7
<1>9. fold = Step(fold)
  <2> HIDE DEF Step
  <2> QED BY <1>8
<1>10. \A s \in SUBSET (1 .. n) :
         fold[s] = IF s = {} THEN 0 ELSE fold[s \ {Max(s)}] + fs[Max(s)].push_count[v]
  <2> HIDE DEF fold
  <2> QED BY <1>2, <1>9
<1> HIDE DEF fold
<1> DEFINE S == {k \in 0 .. n : fold[1 .. k] = h[k]}
<1>11. 0 \in S
  <2>1. 1 .. 0 = {} /\ {} \in SUBSET (1 .. n)
    OBVIOUS
  <2>2. fold[{}] = 0
    BY <1>10, <2>1
  <2>3. QED
    BY <1>2, <2>1, <2>2
<1>12. ASSUME NEW k \in 0 .. n - 1, k \in S PROVE k + 1 \in S
  <2>1. k + 1 \in 1 .. n /\ k + 1 \in 0 .. n /\ (k + 1) - 1 = k
    BY <1>2
  <2>2. 1 .. k + 1 \in SUBSET (1 .. n) /\ 1 .. k + 1 # {}
    <3>1. 1 .. k + 1 \in SUBSET (1 .. n)
      BY <1>2
    <3>2. 1 \in 1 .. k + 1
      OBVIOUS
    <3>3. QED
      BY <3>1, <3>2
  <2>3. Max(1 .. k + 1) \in 1 .. k + 1 /\ \A j \in 1 .. k + 1 : j <= Max(1 .. k + 1)
    BY <1>2, <2>2, MaxOf
  <2>4. Max(1 .. k + 1) = k + 1
    <3> DEFINE x == Max(1 .. k + 1)
    <3> HIDE DEF x
    <3>0. k + 1 \in 1 .. k + 1
      OBVIOUS
    <3>1. x \in 1 .. k + 1 /\ k + 1 <= x
      BY <2>3, <3>0 DEF x
    <3>2. x = k + 1
      BY <3>1
    <3>3. QED
      BY <3>2 DEF x
  <2>5. (1 .. k + 1) \ {k + 1} = 1 .. k
    OBVIOUS
  <2>6. fold[1 .. k + 1] = fold[(1 .. k + 1) \ {k + 1}] + fs[k + 1].push_count[v]
    BY <1>10, <2>2, <2>4
  <2>7. fold[1 .. k + 1] = h[k] + fs[k + 1].push_count[v]
    BY <1>12, <2>5, <2>6
  <2>8. h[k + 1] = h[k] + fs[k + 1].push_count[v]
    BY <1>2, <2>1
  <2>9. QED
    BY <2>1, <2>7, <2>8
<1>13. 0 .. n \subseteq S
  <2> HIDE DEF S
  <2> QED BY <1>2, <1>11, <1>12, InductionUpTo
<1>14. n \in S
  <2> HIDE DEF S
  <2> QED BY <1>2, <1>13
<1>15. QED
  BY <1>1, <1>2, <1>14

(* The pops of rename undo its pushes: while the calls nest, the stack of a  *)
(* variable holds what their blocks pushed, and when the first call has      *)
(* returned it is empty.                                                     *)
THEOREM StacksAreBalanced == Spec => []StacksBalanced
<1>1. SSAInv => StacksBalanced
  <2> SUFFICES ASSUME SSAInv, pc # "phi", NEW v \in Var
               PROVE  Len(rename_stack[v]) =
                        FoldLeft(LAMBDA sum, f : sum + f.push_count[v], 0, frames)
    BY DEF StacksBalanced
  <2>1. PICK done \in SUBSET Block, height \in [0 .. Len(frames) -> [Var -> Nat]] : Walk(done, height)
    BY DEF SSAInv, RenameInv
  <2>2. /\ frames \in Seq(FrameType)
        /\ height \in [0 .. Len(frames) -> [Var -> Nat]]
        /\ height[0][v] = 0 /\ height[Len(frames)][v] = Len(rename_stack[v])
        /\ \A k \in 1 .. Len(frames) : height[k][v] = height[k - 1][v] + frames[k].push_count[v]
    BY <2>1 DEF Walk, Calls, Heights
  <2>3. Len(frames) \in Nat
    BY <2>2, LenProperties
  <2>4. PICK h : h = [k \in 0 .. Len(frames) |-> height[k][v]]
    OBVIOUS
  <2>5. h \in [0 .. Len(frames) -> Nat]
    BY <2>2, <2>4
  <2>6. h[0] = 0 /\ h[Len(frames)] = Len(rename_stack[v])
    BY <2>2, <2>3, <2>4
  <2>7. \A k \in 1 .. Len(frames) : h[k] = h[k - 1] + frames[k].push_count[v]
    <3> TAKE k \in 1 .. Len(frames)
    <3>1. k \in 0 .. Len(frames) /\ k - 1 \in 0 .. Len(frames)
      BY <2>3
    <3>2. QED
      BY <2>2, <2>4, <3>1
  <2>8. FoldLeft(LAMBDA sum, f : sum + f.push_count[v], 0, frames) = h[Len(frames)]
    BY <2>2, <2>5, <2>6, <2>7, PushCountsAdd
  <2>9. QED
    BY <2>6, <2>8
<1> QED BY <1>1, SSAInvariant, PTL
=============================================================================
