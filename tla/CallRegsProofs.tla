--------------------------- MODULE CallRegsProofs ---------------------------
(* Proofs about CallRegs: caller and callee agree on the place of every      *)
(* argument, for every number of parameters of primitive types and every     *)
(* sequence of parameter registers.                                          *)
EXTENDS CallRegs, Integers, FiniteSetTheorems, SequenceTheorems, TLAPS

(* The least counterexample of an argument by induction. *)
LEMMA LeastMember ==
  ASSUME NEW T \in SUBSET Nat, T # {}
  PROVE  \E m \in T : \A n \in T : m <= n
<1> DEFINE R == OpToRel(<, Nat)
<1>1. IsWellFoundedOn(R, Nat)
  BY NatLessThanWellFounded DEF OpToRel
<1>2. PICK x \in T : \A y \in T : ~(<<y, x>> \in R)
  BY <1>1, WFMin
<1>3. \A y \in T : ~(y < x)
  BY <1>2 DEF OpToRel
<1>4. QED
  BY <1>3

(* What holds at 0 and passes from n to n + 1 holds up to any bound. *)
LEMMA InductionUpTo ==
  ASSUME NEW S, NEW bound \in Nat, 0 \in S,
         \A n \in 0 .. bound - 1 : n \in S => n + 1 \in S
  PROVE  0 .. bound \subseteq S
<1> SUFFICES ASSUME ~(0 .. bound \subseteq S) PROVE FALSE
  OBVIOUS
<1> DEFINE T == {n \in 0 .. bound : n \notin S}
<1>1. T \in SUBSET Nat /\ T # {}
  OBVIOUS
<1>2. PICK m \in T : \A n \in T : m <= n
  BY <1>1, LeastMember
<1>3. m # 0 /\ m - 1 \in 0 .. bound - 1 /\ m - 1 \notin T
  BY <1>2
<1>4. m - 1 \in S /\ (m - 1) + 1 = m
  BY <1>3
<1>5. QED
  BY <1>3, <1>4

(* The types of parameters that are not a Reference. *)
Primitive == {"int", "float"}

(* The calls that work: no parameter is a Reference, and a function that has *)
(* parameters on the stack has spilled none that came in a register.         *)
PrimitiveCall ==
  \E ts \in Seq(Primitive) :
    \E spilled \in SUBSET InRegister(ts) :
      /\ spilled # {} => InRegister(ts) = DOMAIN ts
      /\ CallTo(ts, spilled)

-----------------------------------------------------------------------------
(* How many parameters before k have the class of k. *)
Rank(ts, k) == Cardinality({j \in 1 .. k - 1 : Class(ts[j]) = Class(ts[k])})

(* With one entry for each type, the entries are those of the types. *)
LEMMA OneEntryEach ==
  ASSUME NEW ts \in Seq(Primitive)
  PROVE  FlattenSeq([i \in DOMAIN ts |-> Assigns(ts[i])]) = [i \in DOMAIN ts |-> Class(ts[i])]
<1> DEFINE n == Len(ts)
           C(i) == Class(ts[i])
           seqs == [i \in 1 .. n |-> <<C(i)>>]
           Step(f) == [i \in 1 .. n |-> IF i = 1 THEN seqs[i] ELSE f[i - 1] \o seqs[i]]
           flat == CHOOSE f : f = Step(f)
<1>1. n \in Nat /\ DOMAIN ts = 1 .. n /\ \A i \in 1 .. n : ts[i] \in Primitive
  BY LenProperties, ElementOfSeq
<1>2. [i \in DOMAIN ts |-> Assigns(ts[i])] = seqs
  BY <1>1 DEF Assigns, Primitive, Class
<1> HIDE DEF C
<1>3. Len(seqs) = n /\ DOMAIN seqs = 1 .. n /\ \A i \in 1 .. n : seqs[i] = <<C(i)>>
  <2>1. seqs \in Seq({<<C(i)>> : i \in 1 .. n})
    BY <1>1
  <2>2. QED
    BY <1>1, <2>1
<1>4. CASE n = 0
  <2>1. FlattenSeq(seqs) = seqs
    BY <1>3, <1>4 DEF FlattenSeq
  <2>2. seqs = [i \in 1 .. n |-> C(i)]
    BY <1>4
  <2>3. QED
    BY <1>1, <1>2, <2>1, <2>2 DEF C
<1>5. CASE n # 0
  <2>1. FlattenSeq(seqs) = flat[n]
    <3>1. FlattenSeq(seqs) = (CHOOSE f : f = [i \in 1 .. Len(seqs) |->
                                IF i = 1 THEN seqs[i] ELSE f[i - 1] \o seqs[i]])[Len(seqs)]
      <4> HIDE DEF n, seqs
      <4> QED BY <1>3, <1>5 DEF FlattenSeq
    <3>2. QED
      BY <1>3, <3>1
  <2>2. PICK g : g = [i \in 1 .. n |-> [k \in 1 .. i |-> C(k)]]
    OBVIOUS
  <2>3. g = Step(g)
    <3>1. ASSUME NEW i \in 1 .. n, i # 1 PROVE g[i] = g[i - 1] \o seqs[i]
      <4>1. i - 1 \in 1 .. n /\ i - 1 \in Nat /\ i \in Nat /\ (i - 1) + 1 = i
        BY <1>1, <3>1
      <4>2. g[i] = [k \in 1 .. i |-> C(k)] /\ g[i - 1] = [k \in 1 .. i - 1 |-> C(k)]
            /\ seqs[i] = <<C(i)>>
        BY <1>3, <2>2, <4>1
      <4>3. [k \in 1 .. i - 1 |-> C(k)] \in Seq({C(k) : k \in 1 .. n})
            /\ <<C(i)>> \in Seq({C(k) : k \in 1 .. n})
        BY <4>1
      <4>4. Len([k \in 1 .. i - 1 |-> C(k)]) = i - 1 /\ Len(<<C(i)>>) = 1
        BY <4>1, <4>3
      <4>5. [k \in 1 .. i - 1 |-> C(k)] \o <<C(i)>> = [k \in 1 .. i |-> C(k)]
        BY <4>1, <4>3, <4>4
      <4>6. QED
        BY <4>2, <4>5
    <3>2. 1 \in 1 .. n => g[1] = seqs[1]
      BY <1>3, <2>2
    <3>3. QED
      BY <2>2, <3>1, <3>2
  <2>4. flat = Step(flat)
    <3> HIDE DEF Step
    <3> QED BY <2>3
  <2> HIDE DEF flat
  <2>5. \A i \in 1 .. n : flat[i] = IF i = 1 THEN seqs[i] ELSE flat[i - 1] \o seqs[i]
    BY <2>4
  <2>6. \A i \in 1 .. n : g[i] = IF i = 1 THEN seqs[i] ELSE g[i - 1] \o seqs[i]
    BY <2>3
  <2> HIDE DEF seqs, n
  <2> DEFINE S == {i \in 0 .. n : i = 0 \/ flat[i] = g[i]}
  <2>7. 0 \in S
    BY <1>1
  <2>8. ASSUME NEW i \in 0 .. n - 1, i \in S PROVE i + 1 \in S
    <3>1. i + 1 \in 1 .. n /\ (i + 1) - 1 = i /\ i + 1 \in 0 .. n
      BY <1>1
    <3>2. flat[i + 1] = g[i + 1]
      <4>1. CASE i = 0
        BY <2>5, <2>6, <3>1, <4>1
      <4>2. CASE i # 0
        <5>1. flat[i] = g[i] /\ i + 1 # 1
          BY <2>8, <4>2
        <5>2. QED
          BY <2>5, <2>6, <3>1, <5>1
      <4>3. QED
        BY <4>1, <4>2
    <3>3. QED
      BY <3>1, <3>2
  <2>9. 0 .. n \subseteq S
    <3> HIDE DEF S
    <3> QED BY <1>1, <2>7, <2>8, InductionUpTo
  <2>10. flat[n] = g[n] /\ n \in 1 .. n
    BY <1>1, <1>5, <2>9
  <2>11. QED
    BY <1>1, <1>2, <2>1, <2>2, <2>10 DEF C
<1>6. QED
  BY <1>4, <1>5

(* assign_call_regs numbers the parameters of each class. *)
LEMMA RegsByRank ==
  ASSUME NEW ts \in Seq(Primitive)
  PROVE  AssignCallRegs(ts) =
           [k \in DOMAIN ts |-> IF Rank(ts, k) < Len(Parameters(Class(ts[k])))
                                THEN Parameters(Class(ts[k]))[Rank(ts, k) + 1] ELSE NoReg]
<1> DEFINE classes == [i \in DOMAIN ts |-> Class(ts[i])]
<1>1. Len(ts) \in Nat /\ DOMAIN ts = 1 .. Len(ts)
  BY LenProperties
<1>2. ASSUME NEW k \in DOMAIN ts
      PROVE  /\ {j \in 1 .. k - 1 : classes[j] = classes[k]}
                  = {j \in 1 .. k - 1 : Class(ts[j]) = Class(ts[k])}
             /\ classes[k] = Class(ts[k])
  <2>1. \A j \in 1 .. k - 1 : j \in DOMAIN ts
    BY <1>1
  <2>2. QED
    BY <2>1
<1> HIDE DEF classes
<1>3. FlattenSeq([i \in DOMAIN ts |-> Assigns(ts[i])]) = classes
  BY OneEntryEach DEF classes
<1>4. DOMAIN classes = DOMAIN ts
  BY DEF classes
<1>5. AssignCallRegs(ts) =
        [k \in DOMAIN classes |->
           IF Cardinality({j \in 1 .. k - 1 : classes[j] = classes[k]}) < Len(Parameters(classes[k]))
           THEN Parameters(classes[k])[Cardinality({j \in 1 .. k - 1 : classes[j] = classes[k]}) + 1]
           ELSE NoReg]
  BY <1>3 DEF AssignCallRegs
<1>6. QED
  BY <1>2, <1>4, <1>5 DEF Rank

(* Counting the members of S up to i tells the members apart. *)
LEMMA CountsDiffer ==
  ASSUME NEW n \in Nat, NEW S \in SUBSET (1 .. n), NEW T \in SUBSET (1 .. n),
         S \subseteq T, NEW x \in T, x \notin S
  PROVE  Cardinality(S) \in Nat /\ Cardinality(T) \in Nat /\ Cardinality(S) < Cardinality(T)
<1>1. IsFiniteSet(1 .. n)
  BY FS_Interval
<1>2. IsFiniteSet(T)
  BY <1>1, FS_Subset
<1>3. /\ IsFiniteSet(S) /\ Cardinality(S) <= Cardinality(T)
      /\ Cardinality(T) = Cardinality(S) => T = S
  BY <1>2, FS_Subset
<1>4. Cardinality(S) \in Nat /\ Cardinality(T) \in Nat
  BY <1>2, <1>3, FS_CardinalityType
<1>5. Cardinality(T) # Cardinality(S)
  BY <1>3
<1>6. QED
  BY <1>3, <1>4, <1>5

(* Two parameters of one class have different ranks. *)
LEMMA RanksDiffer ==
  ASSUME NEW ts \in Seq(Primitive), NEW i \in DOMAIN ts, NEW k \in DOMAIN ts, i < k,
         Class(ts[i]) = Class(ts[k])
  PROVE  Rank(ts, i) # Rank(ts, k)
<1>1. Len(ts) \in Nat /\ DOMAIN ts = 1 .. Len(ts)
  BY LenProperties
<1> DEFINE S == {j \in 1 .. i - 1 : Class(ts[j]) = Class(ts[i])}
           T == {j \in 1 .. k - 1 : Class(ts[j]) = Class(ts[k])}
<1>2. S \in SUBSET (1 .. Len(ts)) /\ T \in SUBSET (1 .. Len(ts))
  BY <1>1
<1>3. S \subseteq T
  BY <1>1
<1>4. i \in T /\ i \notin S
  BY <1>1
<1> HIDE DEF S, T
<1>5. Cardinality(S) \in Nat /\ Cardinality(T) \in Nat /\ Cardinality(S) < Cardinality(T)
  BY <1>1, <1>2, <1>3, <1>4, CountsDiffer
<1>6. QED
  BY <1>5 DEF S, T, Rank

(* A rank is a number. *)
LEMMA RankType ==
  ASSUME NEW ts \in Seq(Primitive), NEW k \in DOMAIN ts
  PROVE  Rank(ts, k) \in Nat
<1>1. Len(ts) \in Nat /\ DOMAIN ts = 1 .. Len(ts)
  BY LenProperties
<1> DEFINE S == {j \in 1 .. k - 1 : Class(ts[j]) = Class(ts[k])}
<1>2. S \in SUBSET (1 .. Len(ts))
  BY <1>1
<1> HIDE DEF S
<1>3. IsFiniteSet(1 .. Len(ts))
  BY <1>1, FS_Interval
<1>4. IsFiniteSet(S)
  BY <1>2, <1>3, FS_Subset
<1>5. Cardinality(S) \in Nat
  BY <1>4, FS_CardinalityType
<1>6. QED
  BY <1>5 DEF S, Rank

(* The registers of the parameters are registers, and no two parameters of a *)
(* class have one.                                                           *)
LEMMA RegsDiffer ==
  ASSUME NEW ts \in Seq(Primitive), NEW regs, regs = AssignCallRegs(ts)
  PROVE  /\ regs \in [DOMAIN ts -> 0 .. 31]
         /\ \A i, k \in DOMAIN ts :
              regs[i] # NoReg /\ regs[i] = regs[k] /\ Class(ts[i]) = Class(ts[k]) => i = k
<1>1. /\ DOMAIN regs = DOMAIN ts
      /\ \A k \in DOMAIN ts :
           regs[k] = IF Rank(ts, k) < Len(Parameters(Class(ts[k])))
                     THEN Parameters(Class(ts[k]))[Rank(ts, k) + 1] ELSE NoReg
      /\ regs = [k \in DOMAIN ts |-> regs[k]]
  BY RegsByRank
<1>2. \A c : /\ Parameters(c) \in Seq(1 .. 31) /\ Len(Parameters(c)) \in Nat
             /\ DOMAIN Parameters(c) = 1 .. Len(Parameters(c))
             /\ \A i, j \in DOMAIN Parameters(c) : Parameters(c)[i] = Parameters(c)[j] => i = j
  BY ParamsAssumption, LenProperties DEF Parameters
<1>3. ASSUME NEW k \in DOMAIN ts
      PROVE  /\ Rank(ts, k) \in Nat
             /\ Rank(ts, k) < Len(Parameters(Class(ts[k]))) =>
                  Rank(ts, k) + 1 \in DOMAIN Parameters(Class(ts[k]))
  BY <1>2, RankType
<1>4. ASSUME NEW k \in DOMAIN ts PROVE regs[k] \in 0 .. 31
  <2>1. CASE Rank(ts, k) < Len(Parameters(Class(ts[k])))
    <3>1. regs[k] = Parameters(Class(ts[k]))[Rank(ts, k) + 1]
      BY <1>1, <2>1
    <3>2. regs[k] \in 1 .. 31
      <4>1. PICK q : q = Parameters(Class(ts[k]))
        OBVIOUS
      <4>2. PICK j : j = Rank(ts, k) + 1
        OBVIOUS
      <4>3. q \in Seq(1 .. 31) /\ j \in 1 .. Len(q)
        BY <1>2, <1>3, <2>1, <4>1, <4>2
      <4>4. q[j] \in 1 .. 31
        BY <4>3, ElementOfSeq
      <4>5. QED
        BY <3>1, <4>1, <4>2, <4>4
    <3>3. QED
      BY <3>2
  <2>2. CASE ~(Rank(ts, k) < Len(Parameters(Class(ts[k]))))
    BY <1>1, <2>2 DEF NoReg
  <2>3. QED
    BY <2>1, <2>2
<1>5. ASSUME NEW i \in DOMAIN ts, NEW k \in DOMAIN ts,
             regs[i] # NoReg, regs[i] = regs[k], Class(ts[i]) = Class(ts[k])
      PROVE  i = k
  <2>1. Rank(ts, i) < Len(Parameters(Class(ts[i]))) /\ Rank(ts, k) < Len(Parameters(Class(ts[i])))
    BY <1>1, <1>5
  <2>2. Parameters(Class(ts[i]))[Rank(ts, i) + 1] = Parameters(Class(ts[i]))[Rank(ts, k) + 1]
    BY <1>1, <1>5, <2>1
  <2>3. Rank(ts, i) + 1 = Rank(ts, k) + 1
    BY <1>2, <1>3, <1>5, <2>1, <2>2
  <2>4. Rank(ts, i) = Rank(ts, k)
    BY <1>3, <2>3
  <2>5. ~(i < k) /\ ~(k < i)
    BY <1>5, <2>4, RanksDiffer
  <2>6. i \in Nat /\ k \in Nat
    BY LenProperties
  <2>7. QED
    BY <2>5, <2>6
<1>6. QED
  BY <1>1, <1>4, <1>5

(* The arguments on the stack have slots of their own. *)
LEMMA SlotsDiffer ==
  ASSUME NEW n \in Nat, NEW S \in SUBSET (1 .. n), NEW i \in S
  PROVE  /\ Slot(S, i) \in 1 .. n
         /\ \A k \in S : Slot(S, i) = Slot(S, k) => i = k
<1> DEFINE Upto(k) == {j \in S : j <= k}
<1>1. \A k \in S : Upto(k) \in SUBSET (1 .. n)
  OBVIOUS
<1>0. \A k \in S : k \in Nat
  OBVIOUS
<1>2. ASSUME NEW a \in S, NEW b \in S, a < b PROVE Slot(S, a) # Slot(S, b)
  <2>0. a \in Nat /\ b \in Nat
    BY <1>0
  <2>a. \A j \in S : j \in Nat /\ (j <= a => j <= b)
    BY <1>0, <1>2, <2>0
  <2>b. b <= b /\ ~(b <= a)
    BY <1>2, <2>0
  <2>1. Upto(a) \subseteq Upto(b) /\ b \in Upto(b) /\ b \notin Upto(a)
    BY <2>a, <2>b
  <2> HIDE DEF Upto
  <2>2. Cardinality(Upto(a)) \in Nat /\ Cardinality(Upto(b)) \in Nat
        /\ Cardinality(Upto(a)) < Cardinality(Upto(b))
    BY <1>1, <2>1, CountsDiffer
  <2>3. QED
    BY <2>2 DEF Upto, Slot
<1>3. \A k \in S : Slot(S, i) = Slot(S, k) => i = k
  <2> TAKE k \in S
  <2>1. i \in Nat /\ k \in Nat
    BY <1>0
  <2>2. QED
    BY <1>2, <2>1
<1>4. Slot(S, i) \in 1 .. n
  <2>0. i \in Nat /\ i <= i
    BY <1>0
  <2>1. i \in Upto(i) /\ Upto(i) \in SUBSET (1 .. n)
    BY <1>1, <2>0
  <2> HIDE DEF Upto
  <2>2. IsFiniteSet(1 .. n) /\ Cardinality(1 .. n) = n
    BY FS_Interval
  <2>3. IsFiniteSet(Upto(i)) /\ Cardinality(Upto(i)) <= n
    BY <2>1, <2>2, FS_Subset
  <2>4. Cardinality(Upto(i)) \in Nat /\ Cardinality(Upto(i)) # 0
    BY <2>1, <2>3, FS_CardinalityType, FS_EmptySet
  <2>5. QED
    BY <2>3, <2>4 DEF Upto, Slot
<1>5. QED
  BY <1>3, <1>4

-----------------------------------------------------------------------------
(* The arguments that were moved are in their registers. *)
Moved ==
  \A i \in DOMAIN types : i < next =>
    /\ args[i] = AssignCallRegs(types)[i]
    /\ args[i] # NoReg => file[Class(types[i])][args[i]] = i

(* The arguments without a register are in their slots. *)
Stacked ==
  LET left == {i \in DOMAIN types : AssignCallRegs(types)[i] = NoReg}
  IN  /\ DOMAIN stack = DOMAIN types
      /\ \A i \in left : stack[Slot(left, i)] = i

(* The inductive invariant: what was moved is in its register, what was      *)
(* stored is in its slot.                                                    *)
CallInv ==
  /\ types \in Seq(Primitive)
  /\ spills \subseteq InRegister(types)
  /\ spills # {} => InRegister(types) = DOMAIN types
  /\ next \in 1 .. Len(types) + 1
  /\ args \in [DOMAIN types -> 0 .. 31]
  /\ file \in [{"general", "float"} -> [0 .. 31 -> Nat]]
  /\ pc \in {"caller", "callee", "body"}
  /\ Moved
  /\ pc # "caller" => next = Len(types) + 1
  /\ pc = "callee" => Stacked
  /\ ArgumentsArrive

(* Before the first MOV nothing has been moved. *)
LEMMA CallInit == PrimitiveCall => CallInv
<1> SUFFICES ASSUME NEW ts \in Seq(Primitive), NEW spilled \in SUBSET InRegister(ts),
                    spilled # {} => InRegister(ts) = DOMAIN ts, CallTo(ts, spilled)
             PROVE  CallInv
  BY DEF PrimitiveCall
<1>1. Len(ts) \in Nat /\ DOMAIN ts = 1 .. Len(ts)
  BY LenProperties
<1>2. types = ts /\ spills = spilled /\ next = 1 /\ pc = "caller"
      /\ args = [i \in DOMAIN ts |-> NoReg]
      /\ file = [c \in {"general", "float"} |-> [r \in 0 .. 31 |-> Garbage]]
  BY DEF CallTo
<1>3. args \in [DOMAIN types -> 0 .. 31] /\ file \in [{"general", "float"} -> [0 .. 31 -> Nat]]
  BY <1>2 DEF NoReg, Garbage
<1>4. Moved
  <2>1. \A i \in DOMAIN types : ~(i < next)
    <3>1. \A i \in 1 .. Len(ts) : ~(i < 1)
      BY <1>1
    <3>2. QED
      BY <1>1, <1>2, <3>1
  <2>2. QED
    BY <2>1 DEF Moved
<1>5. next \in 1 .. Len(types) + 1
  BY <1>1, <1>2
<1>6. QED
  BY <1>2, <1>3, <1>4, <1>5 DEF CallInv, ArgumentsArrive

(* A MOV into a register leaves the arguments moved before where they are. *)
LEMMA MoveArgInv ==
  ASSUME CallInv, MoveArg
  PROVE  CallInv'
<1> DEFINE regs == AssignCallRegs(types)
           reg == regs[next]
<1>1. /\ types \in Seq(Primitive) /\ args \in [DOMAIN types -> 0 .. 31]
      /\ file \in [{"general", "float"} -> [0 .. 31 -> Nat]]
      /\ Len(types) \in Nat /\ DOMAIN types = 1 .. Len(types)
  BY LenProperties DEF CallInv
<1>2. /\ pc = "caller" /\ next \in DOMAIN types /\ next' = next + 1
      /\ args' = [args EXCEPT ![next] = reg]
      /\ file' = IF reg = NoReg THEN file ELSE [file EXCEPT ![Class(types[next])][reg] = next]
      /\ UNCHANGED <<types, spills, stack, params, pc>>
  BY DEF MoveArg
<1>3. /\ regs \in [DOMAIN types -> 0 .. 31]
      /\ \A i, k \in DOMAIN types :
           regs[i] # NoReg /\ regs[i] = regs[k] /\ Class(types[i]) = Class(types[k]) => i = k
  BY <1>1, RegsDiffer
<1> HIDE DEF regs
<1>4. \A i \in DOMAIN types : Class(types[i]) \in {"general", "float"}
  BY DEF Class
<1>a. PICK n \in Nat : n = Len(types) /\ DOMAIN types = 1 .. n
  BY <1>1
<1>b. next \in 1 .. n
  BY <1>2, <1>a
<1>c. next \in Nat /\ next + 1 \in 1 .. n + 1
  BY <1>b
<1>5. args' \in [DOMAIN types -> 0 .. 31] /\ file' \in [{"general", "float"} -> [0 .. 31 -> Nat]]
  <2>1. next \in Nat /\ reg \in 0 .. 31
    BY <1>2, <1>3, <1>c
  <2>2. QED
    BY <1>1, <1>2, <1>4, <2>1
<1>6. ASSUME NEW i \in DOMAIN types, i < next'
      PROVE  args'[i] = regs[i] /\ (args'[i] # NoReg => file'[Class(types[i])][args'[i]] = i)
  <2>1. i < next \/ i = next
    <3>1. i \in 1 .. n /\ i < next + 1
      BY <1>2, <1>6, <1>a
    <3>2. QED
      BY <1>c, <3>1
  <2>2. CASE i = next
    <3>1. args'[i] = regs[i] /\ regs[i] \in 0 .. 31
      BY <1>1, <1>2, <1>3, <2>2
    <3>2. regs[i] # NoReg => file'[Class(types[i])][regs[i]] = i
      BY <1>1, <1>2, <1>4, <2>2, <3>1
    <3>3. QED
      BY <3>1, <3>2
  <2>3. CASE i # next
    <3>1. args'[i] = args[i] /\ args[i] = regs[i] /\ regs[i] \in 0 .. 31
          /\ (args[i] # NoReg => file[Class(types[i])][args[i]] = i)
      BY <1>1, <1>2, <1>3, <2>1, <2>3 DEF CallInv, Moved, regs
    <3>2. CASE regs[i] # NoReg /\ reg # NoReg
      <4>1. regs[i] # reg \/ Class(types[i]) # Class(types[next])
        BY <1>2, <1>3, <2>3, <3>2
      <4>2. file'[Class(types[i])][regs[i]] = file[Class(types[i])][regs[i]]
        BY <1>1, <1>2, <1>4, <3>1, <3>2, <4>1
      <4>3. QED
        BY <3>1, <4>2
    <3>3. CASE regs[i] = NoReg \/ reg = NoReg
      BY <1>2, <3>1, <3>3
    <3>4. QED
      BY <3>2, <3>3
  <2>4. QED
    BY <2>2, <2>3
<1>7. Moved'
  BY <1>2, <1>6 DEF Moved, regs
<1>8. next' \in 1 .. Len(types) + 1
  BY <1>2, <1>a, <1>c
<1>9. QED
  BY <1>2, <1>5, <1>7, <1>8 DEF CallInv, ArgumentsArrive

(* The proxies have the classes of the arguments: the caller finds the same  *)
(* arguments without a register as the callee.                               *)
LEMMA CallStepInv ==
  ASSUME CallInv, Call
  PROVE  CallInv'
<1> DEFINE regs == AssignCallRegs(types)
           left == {i \in DOMAIN types : regs[i] = NoReg}
<1>1. /\ types \in Seq(Primitive) /\ args \in [DOMAIN types -> 0 .. 31]
      /\ Len(types) \in Nat /\ DOMAIN types = 1 .. Len(types)
      /\ next \in 1 .. Len(types) + 1
  BY LenProperties DEF CallInv
<1>2. [i \in DOMAIN types |-> ArgType(i)] = types
  <2>1. \A i \in DOMAIN types : ArgType(i) = types[i]
    <3> TAKE i \in DOMAIN types
    <3>1. types[i] \in Primitive
      BY <1>1, ElementOfSeq
    <3>2. QED
      BY <3>1 DEF ArgType, Class, Primitive
  <2>2. QED
    BY <1>1, <2>1
<1>3. /\ pc = "caller" /\ next \notin DOMAIN types /\ pc' = "callee"
      /\ stack' = [k \in DOMAIN types |->
                     IF \E i \in left : Slot(left, i) = k
                     THEN ArgValue(CHOOSE i \in left : Slot(left, i) = k) ELSE Garbage]
      /\ UNCHANGED <<types, spills, next, args, file, params>>
  <2> DEFINE seen == AssignCallRegs([i \in DOMAIN types |-> ArgType(i)])
             over == {i \in DOMAIN types : seen[i] = NoReg}
  <2>1. seen = regs
    BY <1>2
  <2>2. over = left
    BY <2>1
  <2>3. /\ pc = "caller" /\ next \notin DOMAIN types /\ pc' = "callee"
        /\ stack' = [k \in DOMAIN types |->
                       IF \E i \in over : Slot(over, i) = k
                       THEN ArgValue(CHOOSE i \in over : Slot(over, i) = k) ELSE Garbage]
        /\ UNCHANGED <<types, spills, next, args, file, params>>
    BY DEF Call
  <2> HIDE DEF over, left
  <2>4. QED
    BY <2>2, <2>3
<1>4. next = Len(types) + 1
  BY <1>1, <1>3
<1>5. \A i \in left : ArgValue(i) = i
  <2> TAKE i \in left
  <2>1. i < next
    BY <1>1, <1>4
  <2>2. args[i] = NoReg
    BY <2>1 DEF CallInv, Moved
  <2>3. QED
    BY <2>2 DEF ArgValue
<1>6. left \in SUBSET (1 .. Len(types))
  BY <1>1
<1> HIDE DEF left
<1>7. \A i \in left : stack'[Slot(left, i)] = i
  <2> TAKE i \in left
  <2>1. Slot(left, i) \in DOMAIN types /\ \A k \in left : Slot(left, i) = Slot(left, k) => i = k
    BY <1>1, <1>6, SlotsDiffer
  <2>2. (CHOOSE k \in left : Slot(left, k) = Slot(left, i)) = i
    <3>1. \E k \in left : Slot(left, k) = Slot(left, i)
      OBVIOUS
    <3> DEFINE c == CHOOSE k \in left : Slot(left, k) = Slot(left, i)
    <3>2. c \in left /\ Slot(left, c) = Slot(left, i)
      BY <3>1
    <3> HIDE DEF c
    <3>3. c = i
      BY <2>1, <3>2
    <3>4. QED
      BY <3>3 DEF c
  <2>3. stack'[Slot(left, i)] = ArgValue(i)
    BY <1>3, <2>1, <2>2
  <2>4. QED
    BY <1>5, <2>3
<1>8. DOMAIN stack' = DOMAIN types
  BY <1>3
<1>9. Stacked'
  <2>1. {i \in DOMAIN types' : AssignCallRegs(types')[i] = NoReg} = left /\ types' = types
    BY <1>3 DEF left
  <2>2. QED
    BY <1>7, <1>8, <2>1 DEF Stacked
<1>10. Moved'
  BY <1>3 DEF CallInv, Moved
<1>11. QED
  BY <1>3, <1>4, <1>9, <1>10 DEF CallInv, ArgumentsArrive

(* The callee finds a parameter on the stack where the caller left it, or    *)
(* where it has stored the register that it spilled.                         *)
LEMMA ReceiveInv ==
  ASSUME CallInv, Receive
  PROVE  CallInv'
<1> DEFINE regs == AssignCallRegs(types)
           left == {i \in DOMAIN types : regs[i] = NoReg}
           reference == left \cup spills
           incoming(i) == file[Class(types[i])][regs[i]]
           stored == [k \in DOMAIN stack |->
                        IF \E i \in spills : Slot(reference, i) = k
                        THEN incoming(CHOOSE i \in spills : Slot(reference, i) = k) ELSE stack[k]]
<1>1. /\ types \in Seq(Primitive) /\ Len(types) \in Nat /\ DOMAIN types = 1 .. Len(types)
      /\ spills \subseteq DOMAIN types /\ \A i \in spills : regs[i] # NoReg
      /\ spills # {} => left = {}
  <2>1. types \in Seq(Primitive) /\ spills \subseteq InRegister(types)
        /\ (spills # {} => InRegister(types) = DOMAIN types)
    BY DEF CallInv
  <2>2. \A i \in InRegister(types) : i \in DOMAIN types /\ regs[i] # NoReg
    BY DEF InRegister
  <2>3. InRegister(types) = DOMAIN types => left = {}
    BY <2>2
  <2>4. QED
    BY <2>1, <2>2, <2>3, LenProperties
<1>2. /\ pc = "callee" /\ pc' = "body" /\ UNCHANGED <<types, spills, next, args, file>>
      /\ params' = [i \in DOMAIN types |-> IF i \in reference THEN stored[Slot(reference, i)]
                                           ELSE incoming(i)]
  BY DEF Receive
<1>3. /\ next = Len(types) + 1 /\ Moved /\ DOMAIN stack = DOMAIN types
      /\ \A i \in left : stack[Slot(left, i)] = i
  BY <1>2 DEF CallInv, Stacked
<1>4. \A i \in DOMAIN types : regs[i] # NoReg => incoming(i) = i
  <2> TAKE i \in DOMAIN types
  <2>1. i < next
    <3>1. PICK n \in Nat : n = Len(types) /\ DOMAIN types = 1 .. n
      BY <1>1
    <3>2. i \in 1 .. n
      BY <3>1
    <3>3. i < n + 1
      BY <3>2
    <3>4. QED
      BY <1>3, <3>1, <3>3
  <2>2. QED
    BY <1>3, <2>1 DEF Moved
<1>5. reference \in SUBSET (1 .. Len(types))
  BY <1>1
<1>6. ASSUME NEW i \in spills PROVE stored[Slot(reference, i)] = i
  <2>1. Slot(reference, i) \in 1 .. Len(types)
        /\ \A k \in reference : Slot(reference, i) = Slot(reference, k) => i = k
    <3> HIDE DEF reference
    <3>1. i \in reference
      BY DEF reference
    <3>2. QED
      BY <1>1, <1>5, <3>1, SlotsDiffer
  <2> DEFINE c == CHOOSE k \in spills : Slot(reference, k) = Slot(reference, i)
  <2>2. c \in spills /\ Slot(reference, c) = Slot(reference, i)
    <3> HIDE DEF reference
    <3> QED OBVIOUS
  <2>3. c = i
    <3> HIDE DEF c
    <3> QED BY <2>1, <2>2
  <2>4. stored[Slot(reference, i)] = incoming(c)
    <3> HIDE DEF reference, incoming
    <3> QED BY <1>1, <1>3, <2>1
  <2>5. QED
    <3> HIDE DEF c, incoming, stored, reference
    <3> QED BY <1>1, <1>4, <2>3, <2>4
<1>7. ASSUME NEW i \in left PROVE stored[Slot(reference, i)] = i
  <2>1. spills = {} /\ reference = left
    BY <1>1
  <2>2. Slot(left, i) \in 1 .. Len(types)
    <3> HIDE DEF left
    <3>1. left \in SUBSET (1 .. Len(types))
      BY <1>5, <2>1
    <3>2. QED
      BY <1>1, <3>1, SlotsDiffer
  <2>3. stored[Slot(left, i)] = stack[Slot(left, i)]
    <3> HIDE DEF left, incoming
    <3> QED BY <1>1, <1>3, <2>1, <2>2
  <2>4. QED
    <3> HIDE DEF left, reference, stored
    <3> QED BY <1>3, <2>1, <2>3
<1>8. ASSUME NEW i \in DOMAIN types PROVE params'[i] = i
  <2>1. params'[i] = IF i \in reference THEN stored[Slot(reference, i)] ELSE incoming(i)
    BY <1>2
  <2>2. i \in reference => i \in spills \/ i \in left
    OBVIOUS
  <2>3. i \notin reference => regs[i] # NoReg
    OBVIOUS
  <2> HIDE DEF reference, stored, incoming, left, regs
  <2>4. QED
    BY <1>4, <1>6, <1>7, <2>1, <2>2, <2>3
<1>9. ArgumentsArrive' /\ Moved'
  BY <1>2, <1>3, <1>8 DEF ArgumentsArrive, Moved
<1>10. QED
  BY <1>2, <1>3, <1>9 DEF CallInv

(* CallInv holds throughout every call that PrimitiveCall starts. *)
THEOREM CallInvariant == PrimitiveCall /\ [][Next]_vars => []CallInv
<1>1. CallInv /\ [Next]_vars => CallInv'
  <2> SUFFICES ASSUME CallInv, [Next]_vars PROVE CallInv'
    OBVIOUS
  <2>1. CASE UNCHANGED vars
    BY <2>1 DEF vars, CallInv, Moved, Stacked, ArgumentsArrive, InRegister
  <2>2. CASE Body
    BY <2>1, <2>2 DEF Body
  <2>3. QED
    BY <2>1, <2>2, MoveArgInv, CallStepInv, ReceiveInv DEF Next
<1>2. QED
  BY <1>1, CallInit, PTL

(* ArgumentsArrive for every signature of primitive types and any parameter  *)
(* registers: the caller of assign_call_regs and its callee agree on the     *)
(* register or the slot of every argument, as long as the callee spills a    *)
(* register parameter only when it has no stack parameters.                  *)
THEOREM ArgumentsAlwaysArrive == PrimitiveCall /\ [][Next]_vars => []ArgumentsArrive
<1>1. CallInv => ArgumentsArrive
  BY DEF CallInv
<1>2. QED
  BY <1>1, CallInvariant, PTL
=============================================================================
