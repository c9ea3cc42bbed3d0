------------------------- MODULE ScheduleCopyProofs -------------------------
(* Proofs about ScheduleCopy: for every set of phi copies the sequence of   *)
(* MOVs that schedule_copy appends does what the phis do in one step.       *)
EXTENDS ScheduleCopy, FiniteSetTheorems, SequenceTheorems, TLAPS

(* A variable is the destination of one copy; the worklist repeats nothing. *)
Queued ==
  /\ \A c, d \in copies : c[2] = d[2] => c = d
  /\ Pending \subseteq copies
  /\ IsInjective(worklist)
  /\ pc = "setup" => worklist = <<>> /\ copy_set = copies /\ map = [l \in Loc |-> l]
  /\ pc = "done" => Pending = {}

(* The value of a source is in the source itself, in a temporary, or in the *)
(* destination of a copy of that source that ran.                           *)
Tracked ==
  \A c \in Pending :
    \/ map[c[1]] = c[1]
    \/ map[c[1]] \in temps
    \/ \E d \in copies \ Pending : d[1] = c[1] /\ d[2] = map[c[1]]

CopyInv == TypeOK /\ Queued /\ Tracked /\ SourcesSaved /\ ReadyIsSafe /\ Delivered

-----------------------------------------------------------------------------
(* A listing is a vector without repetitions. *)
LEMMA ListingIsVector ==
  ASSUME NEW S \in SUBSET Copy, NEW w \in Listings(S)
  PROVE  w \in Seq(Copy) /\ Range(w) = S /\ IsInjective(w)
<1>1. IsFiniteSet(Var \cup Const)
  BY LocationsFinite, FS_Union
<1>2. IsFiniteSet(Copy)
  BY <1>1, LocationsFinite, FS_Product DEF Copy
<1>3. Cardinality(S) \in Nat
  BY <1>2, FS_Subset, FS_CardinalityType
<1> QED BY <1>3 DEF Listings

(* Two vectors without repetitions and nothing in common, one after the     *)
(* other, the first without its last element.                               *)
LEMMA Spliced ==
  ASSUME NEW s \in Seq(Copy), NEW w \in Seq(Copy), NEW t \in Seq(Copy), NEW n \in Nat,
         IsInjective(s), IsInjective(w), Range(w) \cap Range(s) = {},
         Len(s) = n + 1, Len(t) = n + Len(w),
         \A i \in 1 .. n : t[i] = s[i],
         \A i \in 1 .. Len(w) : t[n + i] = w[i]
  PROVE  /\ s[n + 1] \in Range(s)
         /\ Range(t) = (Range(s) \ {s[n + 1]}) \cup Range(w)
         /\ IsInjective(t)
<1>1. DOMAIN s = 1 .. n + 1 /\ DOMAIN w = 1 .. Len(w) /\ DOMAIN t = 1 .. n + Len(w)
  OBVIOUS
<1>2. Len(w) \in Nat
  OBVIOUS
<1>3. \A i \in 1 .. n + Len(w) : i \in 1 .. n \/ (i - n \in 1 .. Len(w) /\ t[i] = w[i - n])
  <2> TAKE i \in 1 .. n + Len(w)
  <2>1. CASE i > n
    <3>1. i - n \in 1 .. Len(w)
      BY <1>2, <2>1
    <3>2. t[n + (i - n)] = w[i - n]
      BY <3>1
    <3>3. n + (i - n) = i
      OBVIOUS
    <3> QED BY <3>1, <3>2, <3>3
  <2> QED BY <1>2, <2>1
<1>4. s[n + 1] \in Range(s)
  BY <1>1 DEF Range
<1>5. ASSUME NEW i \in 1 .. n PROVE s[i] \in Range(s) /\ s[i] # s[n + 1] /\ t[i] \in Range(t)
  <2>1. i \in DOMAIN s /\ n + 1 \in DOMAIN s /\ i # n + 1 /\ i \in DOMAIN t
    BY <1>1, <1>2
  <2> QED BY <2>1 DEF Range, IsInjective
<1>6. ASSUME NEW i \in 1 .. Len(w) PROVE w[i] \in Range(w) /\ w[i] \in Range(t)
  <2>1. i \in DOMAIN w /\ n + i \in DOMAIN t
    BY <1>1, <1>2
  <2> QED BY <2>1 DEF Range
<1>7. \A x \in Range(t) : x \in (Range(s) \ {s[n + 1]}) \cup Range(w)
  <2> SUFFICES ASSUME NEW i \in 1 .. n + Len(w)
               PROVE  t[i] \in (Range(s) \ {s[n + 1]}) \cup Range(w)
    BY <1>1 DEF Range
  <2> QED BY <1>3, <1>5, <1>6
<1>8. \A x \in Range(s) \ {s[n + 1]} : x \in Range(t)
  <2> SUFFICES ASSUME NEW i \in 1 .. n + 1, s[i] # s[n + 1] PROVE s[i] \in Range(t)
    BY <1>1 DEF Range
  <2>1. i \in 1 .. n
    OBVIOUS
  <2> QED BY <1>5, <2>1
<1>9. \A x \in Range(w) : x \in Range(t)
  <2> SUFFICES ASSUME NEW i \in 1 .. Len(w) PROVE w[i] \in Range(t)
    BY <1>1 DEF Range
  <2> QED BY <1>6
<1>10. IsInjective(t)
  <2> SUFFICES ASSUME NEW i \in 1 .. n + Len(w), NEW j \in 1 .. n + Len(w), t[i] = t[j]
               PROVE  i = j
    BY <1>1 DEF IsInjective
  <2>1. CASE i \in 1 .. n /\ j \in 1 .. n
    <3>1. i \in DOMAIN s /\ j \in DOMAIN s
      BY <1>1, <2>1
    <3> QED BY <2>1, <3>1 DEF IsInjective
  <2>2. CASE i \notin 1 .. n /\ j \notin 1 .. n
    <3>1. i - n \in DOMAIN w /\ j - n \in DOMAIN w /\ w[i - n] = w[j - n]
      BY <1>1, <1>3, <2>2
    <3>2. i - n = j - n
      BY <3>1 DEF IsInjective
    <3> QED BY <3>2
  <2>3. CASE i \in 1 .. n /\ j \notin 1 .. n
    <3>1. t[i] \in Range(s) /\ t[j] \in Range(w)
      BY <1>3, <1>5, <1>6, <2>3
    <3> QED BY <3>1
  <2>4. CASE i \notin 1 .. n /\ j \in 1 .. n
    <3>1. t[j] \in Range(s) /\ t[i] \in Range(w)
      BY <1>3, <1>5, <1>6, <2>4
    <3> QED BY <3>1
  <2> QED BY <2>1, <2>2, <2>3, <2>4
<1> QED BY <1>4, <1>7, <1>8, <1>9, <1>10

(* What worklist.pop_back() and then emplace_back do to the vector. *)
LEMMA PopAndAppend ==
  ASSUME NEW s \in Seq(Copy), s # <<>>, IsInjective(s),
         NEW w \in Seq(Copy), IsInjective(w), Range(w) \cap Range(s) = {}
  PROVE  LET t == SubSeq(s, 1, Len(s) - 1) \o w
         IN  /\ t \in Seq(Copy)
             /\ s[Len(s)] \in Range(s)
             /\ Range(t) = (Range(s) \ {s[Len(s)]}) \cup Range(w)
             /\ IsInjective(t)
<1> DEFINE n == Len(s) - 1
           f == SubSeq(s, 1, n)
           t == f \o w
<1>1. n \in Nat /\ Len(s) = n + 1
  OBVIOUS
<1>2. f \in Seq(Copy) /\ Len(f) = n /\ \A i \in 1 .. n : f[i] = s[i]
  <2>1. /\ f \in Seq(Copy)
        /\ Len(f) = IF 1 <= n THEN n - 1 + 1 ELSE 0
        /\ \A i \in 1 .. n - 1 + 1 : f[i] = s[1 + i - 1]
    BY <1>1, SubSeqProperties
  <2> QED BY <1>1, <2>1
<1> HIDE DEF n, f
<1>3. /\ t \in Seq(Copy) /\ Len(t) = n + Len(w)
      /\ \A i \in 1 .. n : t[i] = s[i]
      /\ \A i \in 1 .. Len(w) : t[n + i] = w[i]
  <2>1. /\ t \in Seq(Copy) /\ Len(t) = n + Len(w)
        /\ \A i \in 1 .. n + Len(w) : t[i] = IF i <= n THEN f[i] ELSE w[i - n]
    <3>1. f \in Seq(Copy) /\ w \in Seq(Copy)
      BY <1>2
    <3>2. /\ f \o w \in Seq(Copy) /\ Len(f \o w) = Len(f) + Len(w)
          /\ \A i \in 1 .. Len(f) + Len(w) :
               (f \o w)[i] = IF i <= Len(f) THEN f[i] ELSE w[i - Len(f)]
      BY <3>1, ConcatProperties, Zenon
    <3> QED BY <1>2, <3>2
  <2> HIDE DEF t
  <2>2. \A i \in 1 .. Len(w) : t[n + i] = w[i]
    <3> TAKE i \in 1 .. Len(w)
    <3>1. n + i \in 1 .. n + Len(w) /\ ~(n + i <= n) /\ (n + i) - n = i
      BY <1>1
    <3> QED BY <2>1, <3>1
  <2> QED BY <1>1, <1>2, <2>1, <2>2
<1> HIDE DEF t
<1>4. /\ s[n + 1] \in Range(s)
      /\ Range(t) = (Range(s) \ {s[n + 1]}) \cup Range(w)
      /\ IsInjective(t)
  BY <1>1, <1>3, Spliced, SMTT(60)
<1> QED BY <1>1, <1>3, <1>4 DEF t, f, n

-----------------------------------------------------------------------------
(* Before the first pass every value is in place. *)
LEMMA InitInv == Init => CopyInv
<1> SUFFICES ASSUME Init PROVE CopyInv
  OBVIOUS
<1>1. worklist = <<>> /\ Range(worklist) = {} /\ Pending = copies
  BY DEF Init, Range, Pending
<1>2. TypeOK
  BY <1>1 DEF Init, TypeOK
<1>3. \A c \in copies : c[1] \in Loc
  BY DEF Init, Copy, Loc
<1>4. Queued
  BY <1>1 DEF Init, Queued, IsInjective
<1>5. Tracked /\ SourcesSaved /\ ReadyIsSafe
  BY <1>1, <1>3 DEF Init, Tracked, SourcesSaved, ReadyIsSafe
<1>6. Delivered
  BY <1>1 DEF Init, Delivered, Loc
<1> QED BY <1>2, <1>4, <1>5, <1>6 DEF CopyInv

(* The first ready copies overwrite what no copy reads. *)
LEMMA SetUpInv ==
  ASSUME CopyInv, SetUp
  PROVE  CopyInv'
<1> DEFINE ready == {c \in copy_set : ~Used(c[2])}
<1>1. /\ pc = "setup" /\ pc' = "iterate"
      /\ worklist' \in Listings(ready) /\ copy_set' = copy_set \ ready
      /\ UNCHANGED <<copies, map, value, temps>>
  BY DEF SetUp
<1>2. worklist = <<>> /\ copy_set = copies /\ copies \subseteq Copy
  BY <1>1 DEF CopyInv, Queued, TypeOK
<1>3. ready \in SUBSET Copy
  BY <1>2
<1> HIDE DEF ready
<1>4. worklist' \in Seq(Copy) /\ Range(worklist') = ready /\ IsInjective(worklist')
  BY <1>1, <1>3, ListingIsVector
<1>5. Range(worklist) = {}
  BY <1>2 DEF Range
<1>6. Pending = copies /\ Pending' = copies
  BY <1>1, <1>2, <1>4, <1>5 DEF Pending, ready
<1>7. TypeOK' /\ Queued'
  BY <1>1, <1>2, <1>4, <1>6 DEF CopyInv, TypeOK, Queued
<1>8. Tracked' /\ SourcesSaved' /\ Delivered'
  BY <1>1, <1>6 DEF CopyInv, Tracked, SourcesSaved, Delivered
<1>9. ReadyIsSafe'
  BY <1>1, <1>2, <1>4, <1>6 DEF ReadyIsSafe, ready, Used
<1> QED BY <1>7, <1>8, <1>9 DEF CopyInv

(* The step at the heart of the algorithm: the destination of a ready copy  *)
(* is overwritten, and no waiting copy loses its source.                    *)
LEMMA TakeReadyInv ==
  ASSUME CopyInv, TakeReady
  PROVE  /\ CopyInv'
         /\ Pending' \subseteq Pending /\ Pending' # Pending
<1> DEFINE last  == worklist[Len(worklist)]
           src   == last[1]
           dest  == last[2]
           freed == {c \in copy_set : c[2] = src}
<1>1. PICK w \in Listings(freed) : worklist' = SubSeq(worklist, 1, Len(worklist) - 1) \o w
  BY DEF TakeReady
<1>2. /\ pc = "iterate" /\ worklist # <<>>
      /\ value' = [value EXCEPT ![dest] = value[map[src]]]
      /\ map' = [map EXCEPT ![src] = dest]
      /\ copy_set' = copy_set \ freed
      /\ UNCHANGED <<copies, temps, pc>>
  BY DEF TakeReady
<1>3. /\ worklist \in Seq(Copy) /\ copy_set \subseteq Copy
      /\ map \in [Loc -> Loc] /\ value \in [Loc -> Loc]
  BY DEF CopyInv, TypeOK
<1>4. freed \in SUBSET Copy /\ freed \subseteq copy_set
  BY <1>3
<1> HIDE DEF freed
<1>5. w \in Seq(Copy) /\ Range(w) = freed /\ IsInjective(w)
  BY <1>4, ListingIsVector
<1>6. IsInjective(worklist) /\ freed \cap Range(worklist) = {}
  BY <1>4 DEF CopyInv, TypeOK, Queued
<1> HIDE DEF last
<1>7. /\ worklist' \in Seq(Copy) /\ last \in Range(worklist) /\ IsInjective(worklist')
      /\ Range(worklist') = (Range(worklist) \ {last}) \cup freed
  BY <1>1, <1>2, <1>3, <1>5, <1>6, PopAndAppend DEF last
<1>8. last \in Pending /\ last \in copies /\ last \notin copy_set
  BY <1>7 DEF CopyInv, TypeOK, Queued, Pending
<1>9. Pending' = Pending \ {last}
  BY <1>2, <1>4, <1>7, <1>8 DEF Pending
<1>10. /\ last \in Copy /\ src \in Loc /\ dest \in Loc /\ dest \in Var /\ last = <<src, dest>>
  BY <1>8 DEF CopyInv, TypeOK, Copy, Loc
<1>11. /\ \A c \in copies : c[1] \in Loc /\ c[2] \in Loc
       /\ \A c \in copies : c[2] = dest => c = last
  BY <1>8 DEF CopyInv, Queued, TypeOK, Copy, Loc
<1>12. Pending \subseteq copies
  BY DEF CopyInv, Queued
<1> HIDE DEF src, dest
<1>13. TypeOK'
  BY <1>2, <1>3, <1>4, <1>7, <1>8, <1>10 DEF CopyInv, TypeOK
<1>14. Queued'
  BY <1>2, <1>4, <1>7, <1>9, <1>12 DEF CopyInv, Queued
<1>15. ASSUME NEW c \in Pending', c[1] # src PROVE map[c[1]] # dest
  <2>1. c \in Pending /\ c # last /\ c \in copies
    BY <1>9, <1>12
  <2>2. CASE map[c[1]] = c[1]
    <3>1. c[1] = dest => map[dest] # dest
      BY <1>7, <2>1 DEF CopyInv, ReadyIsSafe, dest
    <3> QED BY <2>2, <3>1
  <2>3. CASE map[c[1]] \in temps
    BY <1>10, <2>3, LocationsDisjoint DEF CopyInv, TypeOK
  <2>4. CASE \E d \in copies \ Pending : d[1] = c[1] /\ d[2] = map[c[1]]
    BY <1>8, <1>11, <2>4
  <2> QED BY <2>1, <2>2, <2>3, <2>4 DEF CopyInv, Tracked
<1>16. SourcesSaved'
  <2> SUFFICES ASSUME NEW c \in Pending' PROVE value'[map'[c[1]]] = c[1]
    BY DEF SourcesSaved
  <2>1. c \in Pending /\ c[1] \in Loc
    BY <1>9, <1>11, <1>12
  <2>2. value[map[c[1]]] = c[1] /\ map[c[1]] \in Loc
    BY <1>3, <2>1 DEF CopyInv, SourcesSaved
  <2>3. CASE c[1] = src
    BY <1>2, <1>3, <1>10, <2>2, <2>3
  <2>4. CASE c[1] # src
    BY <1>2, <1>3, <1>10, <1>15, <2>1, <2>2, <2>4
  <2> QED BY <2>3, <2>4
<1>17. Tracked'
  <2> SUFFICES ASSUME NEW c \in Pending'
               PROVE  \/ map'[c[1]] = c[1]
                      \/ map'[c[1]] \in temps
                      \/ \E d \in copies \ Pending' : d[1] = c[1] /\ d[2] = map'[c[1]]
    BY <1>2 DEF Tracked
  <2>1. c \in Pending /\ c[1] \in Loc
    BY <1>9, <1>11, <1>12
  <2>2. CASE c[1] = src
    <3>1. map'[c[1]] = dest
      BY <1>2, <1>3, <1>10, <2>2
    <3>2. last \in copies \ Pending' /\ last[1] = c[1] /\ last[2] = dest
      BY <1>8, <1>9, <1>10, <2>2
    <3> QED BY <3>1, <3>2
  <2>3. CASE c[1] # src
    <3>1. map'[c[1]] = map[c[1]]
      BY <1>2, <1>3, <2>1, <2>3
    <3>2. copies \ Pending \subseteq copies \ Pending'
      BY <1>9
    <3> QED BY <2>1, <3>1, <3>2 DEF CopyInv, Tracked
  <2> QED BY <2>2, <2>3
<1>18. ReadyIsSafe'
  <2> SUFFICES ASSUME NEW c \in Range(worklist'), NEW d \in Pending', d[1] = c[2]
               PROVE  map'[c[2]] # c[2]
    BY DEF ReadyIsSafe
  <2>1. c \in Pending' /\ c # last /\ c \in copies /\ c[2] \in Loc
    BY <1>9, <1>11, <1>12 DEF Pending
  <2>2. CASE c[2] = src
    <3>1. dest # src
      BY <1>11, <2>1, <2>2
    <3> QED BY <1>2, <1>3, <2>1, <2>2, <3>1
  <2>3. CASE c[2] # src
    <3>1. c \in Range(worklist) /\ d \in Pending
      BY <1>7, <1>9, <2>3 DEF freed
    <3>2. map'[c[2]] = map[c[2]]
      BY <1>2, <1>3, <2>1, <2>3
    <3> QED BY <3>1, <3>2 DEF CopyInv, ReadyIsSafe
  <2> QED BY <2>2, <2>3
<1>19. Delivered'
  <2>1. copies \ Pending' = (copies \ Pending) \cup {last}
    BY <1>8, <1>9
  <2>2. \A c \in copies \ Pending' : value'[c[2]] = c[1]
    <3> TAKE c \in copies \ Pending'
    <3>1. CASE c = last
      <4>1. value[map[src]] = src
        BY <1>8, <1>10 DEF CopyInv, SourcesSaved, src
      <4> QED BY <1>2, <1>3, <1>10, <3>1, <4>1
    <3>2. CASE c # last
      <4>1. c[2] # dest /\ c[2] \in Loc /\ c \in copies \ Pending
        BY <1>11, <2>1, <3>2
      <4> QED BY <1>2, <1>3, <4>1 DEF CopyInv, Delivered
    <3> QED BY <3>1, <3>2
  <2>3. ASSUME NEW v \in Var \cup Const, \A c \in copies \ Pending' : c[2] # v
        PROVE  value'[v] = v
    <3>1. v # dest
      BY <1>10, <2>1, <2>3
    <3>2. v \in Loc /\ value[v] = v
      BY <2>1, <2>3 DEF CopyInv, Delivered, Loc
    <3> QED BY <1>2, <1>3, <3>1, <3>2
  <2> QED BY <1>2, <2>2, <2>3 DEF Delivered
<1>20. Pending' \subseteq Pending /\ Pending' # Pending
  BY <1>8, <1>9
<1> QED BY <1>13, <1>14, <1>16, <1>17, <1>18, <1>19, <1>20 DEF CopyInv

(* A destination on a cycle still has its own value, which the temporary    *)
(* keeps for the copies that read it.                                       *)
LEMMA BreakCycleInv ==
  ASSUME CopyInv, BreakCycle
  PROVE  CopyInv' /\ Pending' = Pending
<1>1. PICK c \in copy_set, temp \in Temp \ temps :
        /\ copy_set' = copy_set \ {c}
        /\ value' = [value EXCEPT ![temp] = value[c[2]]]
        /\ map' = [map EXCEPT ![c[2]] = temp]
        /\ worklist' = <<c>>
        /\ temps' = temps \cup {temp}
  BY DEF BreakCycle
<1>2. pc = "iterate" /\ worklist = <<>> /\ UNCHANGED <<copies, pc>>
  BY DEF BreakCycle
<1>3. /\ copy_set \subseteq Copy /\ map \in [Loc -> Loc] /\ value \in [Loc -> Loc]
      /\ temps \subseteq Temp
  BY DEF CopyInv, TypeOK
<1>4. Range(worklist) = {} /\ Range(worklist') = {c} /\ IsInjective(worklist')
  BY <1>1, <1>2 DEF Range, IsInjective
<1>5. Pending = copy_set /\ Pending' = copy_set /\ c \in copies /\ copy_set \subseteq copies
  BY <1>1, <1>4 DEF Pending, CopyInv, Queued
<1>6. /\ \A d \in copies : d[1] \in Loc /\ d[2] \in Loc /\ d[1] \notin Temp /\ d[2] \notin Temp
      /\ \A d \in copies : d[2] = c[2] => d = c
      /\ c[2] \in Var
  BY <1>5, LocationsDisjoint DEF CopyInv, Queued, TypeOK, Copy, Loc
<1>7. temp \in Loc /\ temp \in Temp /\ temp \notin temps /\ c[2] \in Loc
  BY <1>5, <1>6 DEF Loc
<1>8. value[c[2]] = c[2]
  <2>1. \A d \in copies \ Pending : d[2] # c[2]
    BY <1>5, <1>6
  <2> QED BY <1>6, <2>1 DEF CopyInv, Delivered
<1>9. TypeOK'
  <2>1. value' \in [Loc -> Loc] /\ map' \in [Loc -> Loc]
    BY <1>1, <1>3, <1>7
  <2>2. worklist' \in Seq(Copy) /\ copy_set' \subseteq Copy /\ temps' \subseteq Temp
    BY <1>1, <1>3, <1>7
  <2>3. copy_set' \cap Range(worklist') = {}
    BY <1>1, <1>4
  <2> QED BY <1>2, <2>1, <2>2, <2>3 DEF CopyInv, TypeOK
<1>10. Queued'
  BY <1>1, <1>2, <1>4, <1>5 DEF CopyInv, Queued
<1>11. ASSUME NEW d \in copy_set PROVE map[d[1]] # temp
  <2>1. d \in Pending /\ d[1] # temp
    BY <1>5, <1>6, <1>7
  <2>2. \A e \in copies : e[2] # temp
    BY <1>6, <1>7
  <2> QED BY <1>7, <2>1, <2>2 DEF CopyInv, Tracked
<1>12. SourcesSaved'
  <2> SUFFICES ASSUME NEW d \in copy_set PROVE value'[map'[d[1]]] = d[1]
    BY <1>5 DEF SourcesSaved
  <2>1. d[1] \in Loc /\ value[map[d[1]]] = d[1] /\ map[d[1]] \in Loc
    BY <1>3, <1>5, <1>6 DEF CopyInv, SourcesSaved
  <2>2. CASE d[1] = c[2]
    BY <1>1, <1>3, <1>7, <1>8, <2>2
  <2>3. CASE d[1] # c[2]
    BY <1>1, <1>3, <1>7, <1>11, <2>1, <2>3
  <2> QED BY <2>2, <2>3
<1>13. Tracked'
  <2> SUFFICES ASSUME NEW d \in copy_set
               PROVE  \/ map'[d[1]] = d[1]
                      \/ map'[d[1]] \in temps'
                      \/ \E e \in copies \ Pending' : e[1] = d[1] /\ e[2] = map'[d[1]]
    BY <1>2, <1>5 DEF Tracked
  <2>1. d[1] \in Loc
    BY <1>5, <1>6
  <2>2. CASE d[1] = c[2]
    BY <1>1, <1>3, <1>7, <2>2
  <2>3. CASE d[1] # c[2]
    <3>1. map'[d[1]] = map[d[1]]
      BY <1>1, <1>3, <2>1, <2>3
    <3> QED BY <1>1, <1>5, <3>1 DEF CopyInv, Tracked
  <2> QED BY <2>2, <2>3
<1>14. ReadyIsSafe'
  <2>1. map'[c[2]] # c[2]
    BY <1>1, <1>3, <1>5, <1>6, <1>7
  <2> QED BY <1>4, <2>1 DEF ReadyIsSafe
<1>15. Delivered'
  <2>1. \A l \in Loc : l \notin Temp => value'[l] = value[l]
    BY <1>1, <1>3, <1>7
  <2>2. \A v \in Var \cup Const : v \in Loc /\ v \notin Temp
    BY LocationsDisjoint DEF Loc
  <2> QED BY <1>2, <1>5, <1>6, <2>1, <2>2 DEF CopyInv, Delivered
<1> QED BY <1>5, <1>9, <1>10, <1>12, <1>13, <1>14, <1>15 DEF CopyInv

(* Returning leaves every location alone. *)
LEMMA FinishInv ==
  ASSUME CopyInv, Finish
  PROVE  CopyInv'
<1>1. Pending = {} /\ UNCHANGED <<copies, copy_set, worklist, map, value, temps>> /\ pc' = "done"
  BY DEF Finish, Pending, Range
<1>2. Pending' = {}
  BY <1>1 DEF Pending
<1> QED BY <1>1, <1>2
        DEF CopyInv, TypeOK, Queued, Tracked, SourcesSaved, ReadyIsSafe, Delivered

(* The invariant says nothing beyond the variables of schedule_copy. *)
LEMMA StutterInv ==
  ASSUME CopyInv, UNCHANGED vars
  PROVE  CopyInv'
BY DEF CopyInv, TypeOK, Queued, Tracked, SourcesSaved, ReadyIsSafe, Delivered, Pending, vars

(* The invariant of schedule_copy. *)
THEOREM CopyInvariant == Spec => []CopyInv
<1>1. CopyInv /\ [Next]_vars => CopyInv'
  BY SetUpInv, TakeReadyInv, BreakCycleInv, FinishInv, StutterInv DEF Next, Returned
<1> QED BY <1>1, InitInv, PTL DEF Spec

(* No MOV that schedule_copy appends overwrites a value that a later MOV    *)
(* has to deliver, whatever cycles and shared sources the phis form.        *)
THEOREM SourcesAreSaved == Spec => []SourcesSaved
<1>1. CopyInv => SourcesSaved
  BY DEF CopyInv
<1> QED BY <1>1, CopyInvariant, PTL

(* The ready queue never holds a destination that a pending copy still has  *)
(* to read: the use counts of schedule_copy stay exact, whatever the order  *)
(* in which copies are taken and cycles are broken.                         *)
THEOREM ReadyStaysSafe == Spec => []ReadyIsSafe
<1>1. CopyInv => ReadyIsSafe
  BY DEF CopyInv
<1> QED BY <1>1, CopyInvariant, PTL

(* What schedule_copy has appended did what was asked: the copies that ran  *)
(* delivered the old values, and no other variable was touched.             *)
THEOREM CopiesAreDelivered == Spec => [](TypeOK /\ Delivered)
<1>1. CopyInv => TypeOK /\ Delivered
  BY DEF CopyInv
<1> QED BY <1>1, CopyInvariant, PTL

(* schedule_copy() comes to an end on every set of copies: with each turn    *)
(* there is less to do, also where a cycle is broken.                        *)
THEOREM SchedulingAdvances == Spec => CopiesAdvance
<1>1. CopyInv /\ [Next]_vars => [Advances]_vars
  <2> SUFFICES ASSUME CopyInv, [Next]_vars, vars' # vars PROVE Advances
    OBVIOUS
  <2>1. CASE SetUp
    BY <2>1 DEF SetUp, Advances
  <2>2. CASE TakeReady
    <3>1. pc' = pc
      BY <2>2 DEF TakeReady
    <3> QED BY <2>2, <3>1, TakeReadyInv DEF Advances
  <2>3. CASE BreakCycle
    <3>1. pc' = pc
      BY <2>3 DEF BreakCycle
    <3>2. \E c \in copy_set : copy_set' = copy_set \ {c}
      BY <2>3 DEF BreakCycle
    <3> QED BY <2>3, <3>1, <3>2, BreakCycleInv DEF Advances
  <2>4. CASE Finish
    BY <2>4 DEF Finish, Advances
  <2> QED BY <2>1, <2>2, <2>3, <2>4 DEF Next, Returned
<1> QED BY <1>1, CopyInvariant, PTL DEF Spec, CopiesAdvance

(* The sequence of MOVs is an atomic parallel assignment: schedule_copy     *)
(* implements what the phi instructions promise, for every set of copies.   *)
THEOREM ImplementsParallelAssign == Spec => AssignsInParallel
<1>1. Init => Atomically!Init
  BY DEF Init, Atomically!Init, Copy
<1>2. CopyInv /\ [Next]_vars => [Atomically!Next]_(Atomically!vars)
  <2> SUFFICES ASSUME CopyInv, [Next]_vars
               PROVE  [Atomically!Next]_(Atomically!vars)
    OBVIOUS
  <2>1. CASE Finish
    <3>1. /\ pc = "iterate" /\ pc' = "done" /\ UNCHANGED <<copies, value>>
          /\ Pending = {}
      BY <2>1 DEF Finish, Pending, Range
    <3>2. \A v \in Var : value[v] =
            IF \E c \in copies : c[2] = v THEN Atomically!Source(v) ELSE v
      <4> TAKE v \in Var
      <4>1. CASE \E c \in copies : c[2] = v
        <5>1. (CHOOSE c \in copies : c[2] = v) \in {c \in copies : c[2] = v}
          BY <4>1
        <5> QED BY <3>1, <4>1, <5>1 DEF Atomically!Source, CopyInv, Delivered
      <4>2. CASE ~\E c \in copies : c[2] = v
        BY <3>1, <4>2 DEF CopyInv, Delivered
      <4> QED BY <4>1, <4>2
    <3>3. Atomically!Cross
      BY <3>1, <3>2 DEF Atomically!Cross
    <3> QED BY <3>3 DEF Atomically!Next
  <2>2. CASE SetUp \/ TakeReady \/ BreakCycle
    BY <2>2 DEF SetUp, TakeReady, BreakCycle, Atomically!vars
  <2>3. CASE Returned \/ UNCHANGED vars
    BY <2>3 DEF Returned, vars, Atomically!vars
  <2> QED BY <2>1, <2>2, <2>3 DEF Next
<1> QED BY <1>1, <1>2, CopyInvariant, PTL DEF Spec, AssignsInParallel, Atomically!Spec
=============================================================================
