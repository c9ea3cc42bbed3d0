-------------------------- MODULE ObserversProofs --------------------------
(* The use-def graph stays exact under every sequence of calls.  What the    *)
(* observers see of a program is a set of places, a site with its operands,  *)
(* and a set of assignments, a variable with the address of an instruction;  *)
(* no site is in two places.  Every call adds and removes places, and the    *)
(* records follow.                                                           *)
EXTENDS Observers, SequenceTheorems, TLAPS

------------------------------------------------------------------------------
(* Sequences of instructions.                                                *)

(* No two instructions of a sequence share an address. *)
SeqOwn(s) == \A j, k \in DOMAIN s : s[j].id = s[k].id => j = k

(* The addresses in a sequence. *)
Ids(s) == {i.id : i \in ToSet(s)}

(* The members of a sequence are what it holds at its positions. *)
LEMMA SetOf ==
  ASSUME NEW S, NEW s \in Seq(S)
  PROVE  /\ DOMAIN s = 1 .. Len(s) /\ Len(s) \in Nat
         /\ ToSet(s) \subseteq S
         /\ \A k \in DOMAIN s : s[k] \in ToSet(s) /\ s[k] \in S
         /\ \A e \in ToSet(s) : \E k \in DOMAIN s : e = s[k]
BY DEF ToSet

(* r is s without its position k. *)
Shorter(S, s, k, r) ==
  /\ r \in Seq(S) /\ Len(r) = Len(s) - 1
  /\ \A j \in 1 .. Len(r) : r[j] = IF j < k THEN s[j] ELSE s[j + 1]

(* r is s with e before position k. *)
Longer(S, s, k, e, r) ==
  /\ r \in Seq(S) /\ Len(r) = Len(s) + 1
  /\ \A j \in 1 .. Len(r) : r[j] = IF j < k THEN s[j] ELSE IF j = k THEN e ELSE s[j - 1]

(* erase: what is left of a sequence. *)
LEMMA RemoveAtSet ==
  ASSUME NEW S, NEW s \in Seq(S), NEW k \in DOMAIN s, NEW r, r = RemoveAt(s, k)
  PROVE  Shorter(S, s, k, r)
<1>1. k \in 1 .. Len(s) /\ Len(s) \in Nat
  OBVIOUS
<1> DEFINE a == SubSeq(s, 1, k - 1)
           b == SubSeq(s, k + 1, Len(s))
<1>2. a \in Seq(S) /\ Len(a) = k - 1 /\ \A j \in 1 .. k - 1 : a[j] = s[j]
  BY <1>1
<1>3. b \in Seq(S) /\ Len(b) = Len(s) - k /\ \A j \in 1 .. Len(s) - k : b[j] = s[j + k]
  BY <1>1
<1>4. r = a \o b
  BY DEF RemoveAt
<1> HIDE DEF a, b
<1>5. /\ r \in Seq(S) /\ Len(r) = Len(s) - 1
      /\ \A j \in 1 .. Len(r) : r[j] = IF j <= k - 1 THEN a[j] ELSE b[j - (k - 1)]
  <2>1. /\ a \o b \in Seq(S) /\ Len(a \o b) = Len(a) + Len(b)
        /\ \A j \in 1 .. Len(a) + Len(b) : (a \o b)[j] = IF j <= Len(a) THEN a[j] ELSE b[j - Len(a)]
    BY <1>2, <1>3, ConcatProperties
  <2>2. Len(a) + Len(b) = Len(s) - 1
    BY <1>1, <1>2, <1>3
  <2>3. QED
    BY <1>2, <1>4, <2>1, <2>2
<1>6. ASSUME NEW j \in 1 .. Len(r) PROVE r[j] = IF j < k THEN s[j] ELSE s[j + 1]
  <2> j \in 1 .. Len(s) - 1
    BY <1>5
  <2>1. CASE j < k
    BY <1>1, <1>2, <1>5, <2>1
  <2>2. CASE ~(j < k)
    <3> DEFINE m == j - (k - 1)
    <3>1. m \in 1 .. Len(s) - k /\ m + k = j + 1
      BY <1>1, <2>2
    <3>2. r[j] = b[m]
      BY <1>1, <1>5, <2>2, <3>1
    <3>3. b[m] = s[m + k]
      <4> HIDE DEF m
      <4> QED BY <1>3, <3>1
    <3>4. QED
      BY <2>2, <3>1, <3>2, <3>3
  <2>3. QED
    BY <2>1, <2>2
<1>7. QED
  BY <1>5, <1>6 DEF Shorter

(* insert: what a sequence becomes. *)
LEMMA InsertAtSet ==
  ASSUME NEW S, NEW s \in Seq(S), NEW k \in 1 .. Len(s) + 1, NEW e \in S,
         NEW r, r = InsertAt(s, k, e)
  PROVE  Longer(S, s, k, e, r)
<1>1. k \in 1 .. Len(s) + 1 /\ Len(s) \in Nat
  OBVIOUS
<1> DEFINE a == SubSeq(s, 1, k - 1)
           b == SubSeq(s, k, Len(s))
           c == a \o <<e>>
<1>2. a \in Seq(S) /\ Len(a) = k - 1 /\ \A j \in 1 .. k - 1 : a[j] = s[j]
  BY <1>1
<1>3. b \in Seq(S) /\ Len(b) = Len(s) - k + 1 /\ \A j \in 1 .. Len(s) - k + 1 : b[j] = s[j + k - 1]
  BY <1>1
<1>4. r = c \o b
  BY DEF InsertAt
<1> HIDE DEF a, b
<1>5. c \in Seq(S) /\ Len(c) = k /\ \A j \in 1 .. k : c[j] = IF j < k THEN s[j] ELSE e
  BY <1>1, <1>2
<1> HIDE DEF c
<1>6. /\ r \in Seq(S) /\ Len(r) = Len(s) + 1
      /\ \A j \in 1 .. Len(r) : r[j] = IF j <= k THEN c[j] ELSE b[j - k]
  <2>1. /\ c \o b \in Seq(S) /\ Len(c \o b) = Len(c) + Len(b)
        /\ \A j \in 1 .. Len(c) + Len(b) : (c \o b)[j] = IF j <= Len(c) THEN c[j] ELSE b[j - Len(c)]
    BY <1>3, <1>5, ConcatProperties
  <2>2. Len(c) + Len(b) = Len(s) + 1
    BY <1>1, <1>3, <1>5
  <2>3. QED
    BY <1>4, <1>5, <2>1, <2>2
<1>7. ASSUME NEW j \in 1 .. Len(r)
      PROVE  r[j] = IF j < k THEN s[j] ELSE IF j = k THEN e ELSE s[j - 1]
  <2>1. CASE j <= k
    BY <1>1, <1>5, <1>6, <2>1
  <2>2. CASE ~(j <= k)
    <3>1. PICK m \in 1 .. Len(s) - k + 1 : m = j - k /\ m + k - 1 = j - 1
      BY <1>1, <1>6, <2>2
    <3>2. r[j] = b[m]
      BY <1>6, <2>2, <3>1
    <3>3. QED
      BY <1>1, <1>3, <2>2, <3>1, <3>2
  <2>3. QED
    BY <2>1, <2>2
<1>8. QED
  BY <1>6, <1>7 DEF Longer

(* Erasing one of several instructions with addresses of their own. *)
LEMMA EraseSeq ==
  ASSUME NEW S, NEW s \in Seq(S), SeqOwn(s), NEW k \in DOMAIN s, NEW r, r = RemoveAt(s, k)
  PROVE  r \in Seq(S) /\ SeqOwn(r) /\ ToSet(r) = ToSet(s) \ {s[k]}
<1>1. /\ r \in Seq(S) /\ Len(r) = Len(s) - 1 /\ Len(r) \in Nat
      /\ \A j \in 1 .. Len(r) : r[j] = IF j < k THEN s[j] ELSE s[j + 1]
  <2>1. Shorter(S, s, k, r)
    BY RemoveAtSet
  <2>2. QED
    BY <2>1 DEF Shorter
<1>2. DOMAIN s = 1 .. Len(s) /\ DOMAIN r = 1 .. Len(r) /\ k \in 1 .. Len(s) /\ Len(s) \in Nat
  BY <1>1
<1>3. \A j, m \in 1 .. Len(s) : s[j].id = s[m].id => j = m
  BY <1>2 DEF SeqOwn
<1>4. ASSUME NEW j \in 1 .. Len(r), NEW m \in 1 .. Len(r), r[j].id = r[m].id PROVE j = m
  <2> DEFINE At(n) == IF n < k THEN n ELSE n + 1
  <2>1. r[j] = s[At(j)] /\ r[m] = s[At(m)] /\ At(j) \in 1 .. Len(s) /\ At(m) \in 1 .. Len(s)
    BY <1>1, <1>2
  <2>2. At(j) = At(m)
    <3> HIDE DEF At
    <3> QED BY <1>3, <1>4, <2>1
  <2>3. QED
    BY <1>1, <1>2, <2>2
<1>5. ASSUME NEW e \in ToSet(r) PROVE e \in ToSet(s) /\ e # s[k]
  <2>1. PICK j \in 1 .. Len(r) : e = r[j]
    BY <1>2 DEF ToSet
  <2>2. PICK m \in 1 .. Len(s) : e = s[m] /\ m # k
    BY <1>1, <1>2, <2>1
  <2>3. QED
    BY <1>2, <1>3, <2>2 DEF ToSet
<1>6. ASSUME NEW e \in ToSet(s), e # s[k] PROVE e \in ToSet(r)
  <2>1. PICK m \in 1 .. Len(s) : e = s[m] /\ m # k
    BY <1>2, <1>6 DEF ToSet
  <2>2. PICK j \in 1 .. Len(r) : r[j] = s[m]
    <3>1. CASE m < k
      <4>1. m \in 1 .. Len(r) /\ r[m] = s[m]
        BY <1>1, <1>2, <3>1
      <4>2. QED
        BY <4>1
    <3>2. CASE ~(m < k)
      <4>1. m - 1 \in 1 .. Len(r) /\ ~(m - 1 < k) /\ (m - 1) + 1 = m
        BY <1>1, <1>2, <2>1, <3>2
      <4>2. r[m - 1] = s[m]
        BY <1>1, <4>1
      <4>3. QED
        BY <4>1, <4>2
    <3>3. QED
      BY <3>1, <3>2
  <2>3. QED
    BY <1>2, <2>1, <2>2 DEF ToSet
<1>7. SeqOwn(r)
  BY <1>2, <1>4 DEF SeqOwn
<1>8. QED
  BY <1>1, <1>5, <1>6, <1>7

(* Inserting an instruction with an address of its own. *)
LEMMA InsertSeq ==
  ASSUME NEW S, NEW s \in Seq(S), SeqOwn(s), NEW k \in 1 .. Len(s) + 1, NEW e \in S,
         e.id \notin Ids(s), NEW r, r = InsertAt(s, k, e)
  PROVE  r \in Seq(S) /\ SeqOwn(r) /\ ToSet(r) = ToSet(s) \cup {e}
<1>1. /\ r \in Seq(S) /\ Len(r) = Len(s) + 1 /\ Len(s) \in Nat
      /\ \A j \in 1 .. Len(r) : r[j] = IF j < k THEN s[j] ELSE IF j = k THEN e ELSE s[j - 1]
  <2>1. Longer(S, s, k, e, r)
    BY InsertAtSet
  <2>2. QED
    BY <2>1 DEF Longer
<1>2. DOMAIN s = 1 .. Len(s) /\ DOMAIN r = 1 .. Len(r) /\ k \in 1 .. Len(r)
  BY <1>1
<1>3. \A j, m \in 1 .. Len(s) : s[j].id = s[m].id => j = m
  BY <1>2 DEF SeqOwn
<1>4. \A j \in 1 .. Len(s) : s[j].id # e.id
  BY <1>2 DEF Ids, ToSet
<1>5. ASSUME NEW j \in 1 .. Len(r), NEW m \in 1 .. Len(r), r[j].id = r[m].id PROVE j = m
  <2> DEFINE At(n) == IF n < k THEN n ELSE n - 1
  <2>1. ASSUME NEW n \in 1 .. Len(r) PROVE IF n = k THEN r[n] = e ELSE r[n] = s[At(n)] /\ At(n) \in 1 .. Len(s)
    BY <1>1, <1>2
  <2>2. CASE j = k \/ m = k
    <3> HIDE DEF At
    <3> QED BY <1>4, <1>5, <2>1, <2>2
  <2>3. CASE j # k /\ m # k
    <3>1. At(j) = At(m)
      <4> HIDE DEF At
      <4> QED BY <1>3, <1>5, <2>1, <2>3
    <3>2. QED
      BY <1>1, <1>2, <2>3, <3>1
  <2>4. QED
    BY <2>2, <2>3
<1>6. ASSUME NEW d \in ToSet(r) PROVE d \in ToSet(s) \cup {e}
  <2>1. PICK j \in 1 .. Len(r) : d = r[j]
    BY <1>2 DEF ToSet
  <2>2. d = e \/ \E m \in 1 .. Len(s) : d = s[m]
    BY <1>1, <1>2, <2>1
  <2>3. QED
    BY <1>2, <2>2 DEF ToSet
<1>7. e \in ToSet(r)
  BY <1>1, <1>2 DEF ToSet
<1>8. ASSUME NEW d \in ToSet(s) PROVE d \in ToSet(r)
  <2>1. PICK m \in 1 .. Len(s) : d = s[m]
    BY <1>2 DEF ToSet
  <2>2. CASE m < k
    <3>1. m \in 1 .. Len(r) /\ r[m] = d
      BY <1>1, <1>2, <2>1, <2>2
    <3>2. QED
      BY <1>2, <3>1 DEF ToSet
  <2>3. CASE ~(m < k)
    <3>1. m + 1 \in 1 .. Len(r) /\ ~(m + 1 < k) /\ m + 1 # k /\ (m + 1) - 1 = m
      BY <1>1, <1>2, <2>3
    <3>2. r[m + 1] = d
      BY <1>1, <2>1, <3>1
    <3>3. QED
      BY <1>2, <3>1, <3>2 DEF ToSet
  <2>4. QED
    BY <2>2, <2>3
<1>9. SeqOwn(r)
  BY <1>2, <1>5 DEF SeqOwn
<1>10. QED
  BY <1>1, <1>6, <1>7, <1>8, <1>9

(* r is s, where e takes the place of its member d. *)
InPlace(S, s, d, e, r) ==
  r \in Seq(S) /\ SeqOwn(r) /\ ToSet(r) = (ToSet(s) \ {d}) \cup {e}

(* Replacing an instruction at its address. *)
LEMMA ReplaceSeq ==
  ASSUME NEW S, NEW s \in Seq(S), SeqOwn(s), NEW k \in DOMAIN s, NEW e \in S,
         e.id = s[k].id
  PROVE  InPlace(S, s, s[k], e, [s EXCEPT ![k] = e])
<1> DEFINE r == [s EXCEPT ![k] = e]
<1>1. /\ DOMAIN s = 1 .. Len(s) /\ DOMAIN r = DOMAIN s /\ r \in Seq(S)
      /\ \A j \in DOMAIN s : s[j] \in S /\ r[j] = IF j = k THEN e ELSE s[j]
  OBVIOUS
<1>2. \A j \in DOMAIN s : r[j].id = s[j].id
  BY <1>1
<1>3. SeqOwn(r)
  BY <1>1, <1>2 DEF SeqOwn
<1>4. \A j \in DOMAIN s : j # k => s[j] # s[k]
  BY DEF SeqOwn
<1>5. ToSet(r) = (ToSet(s) \ {s[k]}) \cup {e}
  <2>1. ASSUME NEW d \in ToSet(r) PROVE d \in (ToSet(s) \ {s[k]}) \cup {e}
    BY <1>1, <1>4 DEF ToSet
  <2>2. ASSUME NEW d \in ToSet(s), d # s[k] PROVE d \in ToSet(r)
    BY <1>1, <2>2 DEF ToSet
  <2>3. e \in ToSet(r)
    BY <1>1 DEF ToSet
  <2>4. QED
    BY <2>1, <2>2, <2>3
<1>6. QED
  BY <1>1, <1>3, <1>5 DEF InPlace

(* Splitting a sequence before k. *)
LEMMA SplitSeq ==
  ASSUME NEW S, NEW s \in Seq(S), SeqOwn(s), NEW k \in 1 .. Len(s) + 1,
         NEW a, a = SubSeq(s, 1, k - 1), NEW b, b = SubSeq(s, k, Len(s))
  PROVE  /\ a \in Seq(S) /\ b \in Seq(S) /\ SeqOwn(a) /\ SeqOwn(b)
         /\ ToSet(a) \cup ToSet(b) = ToSet(s)
         /\ Ids(a) \cap Ids(b) = {}
<1>1. k \in 1 .. Len(s) + 1 /\ Len(s) \in Nat /\ DOMAIN s = 1 .. Len(s)
  OBVIOUS
<1>2. a \in Seq(S) /\ Len(a) = k - 1 /\ \A j \in 1 .. k - 1 : a[j] = s[j]
  BY <1>1
<1>3. b \in Seq(S) /\ Len(b) = Len(s) - k + 1 /\ \A j \in 1 .. Len(s) - k + 1 : b[j] = s[j + k - 1]
  BY <1>1
<1>4. DOMAIN a = 1 .. k - 1 /\ DOMAIN b = 1 .. Len(s) - k + 1
  BY <1>2, <1>3
<1>5. \A j, m \in 1 .. Len(s) : s[j].id = s[m].id => j = m
  BY <1>1 DEF SeqOwn
<1>6. SeqOwn(a)
  <2>1. 1 .. k - 1 \subseteq 1 .. Len(s)
    BY <1>1
  <2>2. QED
    BY <1>2, <1>4, <1>5, <2>1 DEF SeqOwn
<1>7. ASSUME NEW j \in DOMAIN b PROVE j \in Int /\ j + k - 1 \in 1 .. Len(s) /\ b[j] = s[j + k - 1] /\ j + k - 1 > k - 1
  BY <1>1, <1>3, <1>4
<1>8. SeqOwn(b)
  <2>1. SUFFICES ASSUME NEW j \in DOMAIN b, NEW m \in DOMAIN b, b[j].id = b[m].id PROVE j = m
    BY DEF SeqOwn
  <2>2. j + k - 1 = m + k - 1
    <3> DEFINE x == j + k - 1
               y == m + k - 1
    <3>1. x \in 1 .. Len(s) /\ y \in 1 .. Len(s) /\ s[x].id = s[y].id
      BY <1>7, <2>1
    <3> HIDE DEF x, y
    <3>2. x = y
      BY <1>5, <3>1
    <3>3. QED
      BY <3>2 DEF x, y
  <2>3. QED
    BY <1>1, <1>7, <2>2
<1>9. ToSet(a) \cup ToSet(b) = ToSet(s)
  <2>1. ASSUME NEW d \in ToSet(a) PROVE d \in ToSet(s)
    BY <1>1, <1>2, <1>4 DEF ToSet
  <2>2. ASSUME NEW d \in ToSet(b) PROVE d \in ToSet(s)
    BY <1>1, <1>7 DEF ToSet
  <2>3. ASSUME NEW d \in ToSet(s) PROVE d \in ToSet(a) \cup ToSet(b)
    <3>1. PICK m \in 1 .. Len(s) : d = s[m]
      BY <1>1 DEF ToSet
    <3>2. CASE m < k
      <4>1. m \in 1 .. k - 1
        BY <1>1, <3>2
      <4>2. QED
        BY <1>2, <1>4, <3>1, <4>1 DEF ToSet
    <3>3. CASE ~(m < k)
      <4> DEFINE j == m - k + 1
      <4>1. j \in 1 .. Len(s) - k + 1 /\ j + k - 1 = m
        BY <1>1, <3>3
      <4> HIDE DEF j
      <4>2. j \in DOMAIN b /\ b[j] = d
        BY <1>3, <1>4, <3>1, <4>1
      <4>3. QED
        BY <4>2 DEF ToSet
    <3>4. QED
      BY <3>2, <3>3
  <2>4. QED
    BY <2>1, <2>2, <2>3
<1>10. Ids(a) \cap Ids(b) = {}
  <2>1. SUFFICES ASSUME NEW i \in DOMAIN a, NEW j \in DOMAIN b, a[i].id = b[j].id PROVE FALSE
    BY DEF Ids, ToSet
  <2> DEFINE x == j + k - 1
  <2>2. x \in 1 .. Len(s) /\ i \in 1 .. Len(s) /\ s[i].id = s[x].id /\ x > i
    BY <1>1, <1>2, <1>4, <1>7, <2>1
  <2> HIDE DEF x
  <2>3. QED
    BY <1>5, <2>2
<1>11. QED
  BY <1>2, <1>3, <1>6, <1>8, <1>9, <1>10

------------------------------------------------------------------------------
(* What the observers see.                                                   *)

(* The place of an instruction, of an exit; the assignment of an instruction. *)
PlaceOf(i) == <<i.id, i.args>>
ExitPlace(b, e) == <<-b, e.arg>>
AssignmentOf(i) == <<i.res, i.id>>

(* The places and the assignments of a sequence, a block, a program. *)
SeqPlaces(s) == {PlaceOf(i) : i \in ToSet(s)}
SeqAssignments(s) == {AssignmentOf(i) : i \in ToSet(s)}
BlockPlaces(q, b) == SeqPlaces(q.body[b]) \cup {ExitPlace(b, q.exit[b])}
Places(q) == UNION {BlockPlaces(q, b) : b \in AllBlocks(q)}
Assignments(q) == UNION {SeqAssignments(q.body[b]) : b \in AllBlocks(q)}

(* What is recorded of places and of assignments. *)
SitesOf(P) == UNION {Sites(s[1], s[2]) : s \in P}
Named(D) == {d \in D : d[1] # NoVar}
Vars(D) == {d[1] : d \in D}

(* A site is in one place, an address in one assignment, and in SSA form also *)
(* a variable.                                                               *)
DistinctSites(P) == \A s, t \in P : s[1] = t[1] => s = t
OnceIn(D) == \A d, e \in D : d[1] = e[1] /\ d[1] # NoVar => d = e

(* A site that is recorded is that of its place. *)
LEMMA SiteOf ==
  ASSUME NEW site, NEW args, NEW u \in Sites(site, args)
  PROVE  \E k \in DOMAIN args : IsVar(args[k]) /\ u = <<site, k, args[k].v>> /\ u[1] = site
BY DEF Sites

(* Places that go take their sites with them, no more. *)
LEMMA ExactUses ==
  ASSUME NEW P, DistinctSites(P), NEW X \in SUBSET P, NEW Y, NEW Q, Q = (P \ X) \cup Y
  PROVE  SitesOf(Q) = (SitesOf(P) \ SitesOf(X)) \cup SitesOf(Y)
<1>1. ASSUME NEW u \in SitesOf(Q) PROVE u \in (SitesOf(P) \ SitesOf(X)) \cup SitesOf(Y)
  <2>1. PICK s \in Q : u \in Sites(s[1], s[2])
    BY DEF SitesOf
  <2>2. CASE s \in Y
    BY <2>1, <2>2 DEF SitesOf
  <2>3. CASE s \in P /\ s \notin X
    <3>1. u \in SitesOf(P)
      BY <2>1, <2>3 DEF SitesOf
    <3>2. ASSUME u \in SitesOf(X) PROVE FALSE
      <4>1. PICK t \in X : u \in Sites(t[1], t[2])
        BY <3>2 DEF SitesOf
      <4>2. u[1] = s[1] /\ u[1] = t[1]
        BY <2>1, <4>1, SiteOf
      <4>3. QED
        BY <2>3, <4>2 DEF DistinctSites
    <3>3. QED
      BY <3>1, <3>2
  <2>4. QED
    BY <2>2, <2>3
<1>2. ASSUME NEW u \in SitesOf(Y) PROVE u \in SitesOf(Q)
  BY DEF SitesOf
<1>3. ASSUME NEW u \in SitesOf(P), u \notin SitesOf(X) PROVE u \in SitesOf(Q)
  BY <1>3 DEF SitesOf
<1>4. QED
  BY <1>1, <1>2, <1>3

(* Places that are added bring their sites. *)
LEMMA SitesUnion ==
  ASSUME NEW P, NEW Q
  PROVE  SitesOf(P \cup Q) = SitesOf(P) \cup SitesOf(Q)
BY DEF SitesOf

(* The same for assignments and MultiDefInfo. *)
LEMMA ExactDefs ==
  ASSUME NEW D, NEW X, NEW Y, NEW E, E = (D \ X) \cup Y
  PROVE  Named(E) = (Named(D) \ Named(X)) \cup Named(Y)
BY DEF Named

(* Of the recorded definitions, those that before_erase leaves, and those    *)
(* that after_add makes of them, for the assignments in U.                   *)
Left(defs, U) == {d \in defs : d[1] \notin Vars(Named(U))}
Erased(multi, defs, U) == IF multi THEN defs \ Named(U) ELSE Left(defs, U)
Added(multi, defs, U) == (IF multi THEN defs ELSE Left(defs, U)) \cup Named(U)

(* DefInfo finds what it erases and what it records by the variable, which   *)
(* is right as long as a variable is assigned once.                          *)
LEMMA ExactSingleDefs ==
  ASSUME NEW D, OnceIn(D), NEW X \in SUBSET D, NEW Y, NEW E, E = (D \ X) \cup Y, OnceIn(E)
  PROVE  Named(E) = Left(Left(Named(D), X), Y) \cup Named(Y)
<1> DEFINE R == {d \in Named(D) : d[1] \notin Vars(Named(X))}
<1>1. ASSUME NEW d \in Named(D), d \notin X PROVE d[1] \notin Vars(Named(X))
  BY <1>1 DEF Named, Vars, OnceIn
<1>2. ASSUME NEW d \in Named(E), d \notin Y
      PROVE  d \in R /\ d[1] \notin Vars(Named(Y))
  <2>1. d \in Named(D) /\ d \notin X
    BY <1>2 DEF Named
  <2>2. d[1] \notin Vars(Named(Y))
    BY <1>2 DEF Named, Vars, OnceIn
  <2>3. QED
    BY <1>1, <2>1, <2>2
<1>3. ASSUME NEW d \in R PROVE d \in Named(E)
  BY DEF Named, Vars
<1>4. Named(Y) \subseteq Named(E)
  BY DEF Named
<1>5. Left(R, Y) \cup Named(Y) = {d \in R : d[1] \notin Vars(Named(Y))} \cup Named(Y)
  BY DEF Left
<1>6. R = Left(Named(D), X)
  BY DEF Left
<1> HIDE DEF R
<1>7. ASSUME NEW d \in Named(E) PROVE d \in {e \in R : e[1] \notin Vars(Named(Y))} \cup Named(Y)
  <2>1. CASE d \in Y
    BY <2>1 DEF Named
  <2>2. CASE d \notin Y
    BY <1>2, <2>2
  <2>3. QED
    BY <2>1, <2>2
<1>8. QED
  BY <1>3, <1>4, <1>5, <1>6, <1>7

(* What after_add_block and before_erase_block record is what the block has. *)
LEMMA BlockUses ==
  ASSUME NEW q, NEW b
  PROVE  UsesIn(q, b) = SitesOf(BlockPlaces(q, b))
<1>1. ASSUME NEW u \in UsesIn(q, b) PROVE u \in SitesOf(BlockPlaces(q, b))
  <2>1. CASE u \in Sites(-b, q.exit[b].arg)
    <3>1. ExitPlace(b, q.exit[b]) \in BlockPlaces(q, b)
      BY DEF BlockPlaces
    <3>2. QED
      BY <2>1, <3>1 DEF SitesOf, ExitPlace
  <2>2. CASE \E i \in ToSet(q.body[b]) : u \in Sites(i.id, i.args)
    <3>1. PICK i \in ToSet(q.body[b]) : u \in Sites(i.id, i.args)
      BY <2>2
    <3>2. PlaceOf(i) \in BlockPlaces(q, b)
      BY DEF BlockPlaces, SeqPlaces
    <3>3. QED
      BY <3>1, <3>2 DEF SitesOf, PlaceOf
  <2>3. QED
    BY <2>1, <2>2 DEF UsesIn
<1>2. ASSUME NEW u \in SitesOf(BlockPlaces(q, b)) PROVE u \in UsesIn(q, b)
  <2>1. PICK s \in BlockPlaces(q, b) : u \in Sites(s[1], s[2])
    BY DEF SitesOf
  <2>2. CASE s = ExitPlace(b, q.exit[b])
    BY <2>1, <2>2 DEF ExitPlace, UsesIn
  <2>3. CASE \E i \in ToSet(q.body[b]) : s = PlaceOf(i)
    BY <2>1, <2>3 DEF PlaceOf, UsesIn
  <2>4. QED
    BY <2>2, <2>3 DEF BlockPlaces, SeqPlaces
<1>3. QED
  BY <1>1, <1>2

(* A new observer records the uses in all places of the program. *)
LEMMA AllUses ==
  ASSUME NEW q
  PROVE  ReferenceUses(q) = SitesOf(Places(q))
<1>1. ReferenceUses(q) = UNION {SitesOf(BlockPlaces(q, b)) : b \in AllBlocks(q)}
  BY BlockUses DEF ReferenceUses
<1>2. QED
  BY <1>1 DEF SitesOf, Places

------------------------------------------------------------------------------
(* The structure of a program.                                               *)

(* Addresses, sequence by sequence. *)
OwnParts(q) ==
  /\ \A b \in AllBlocks(q) : SeqOwn(q.body[b]) /\ \A n \in Ids(q.body[b]) : 0 < n /\ n < q.next
  /\ \A b, c \in AllBlocks(q) : b # c => Ids(q.body[b]) \cap Ids(q.body[c]) = {}

(* A block has a positive number, a body and an exit. *)
LEMMA BlockFacts ==
  ASSUME NEW q, IsProgram(q), NEW b \in AllBlocks(q)
  PROVE  /\ b \in Labels /\ b \in Nat /\ b > 0
         /\ q.body[b] \in Seq(Instruction) /\ q.exit[b] \in Exit
         /\ \E f \in ToSet(q.funcs) : f \in Funcs /\ b \in Blocks(q, f)
<1>1. PICK f \in ToSet(q.funcs) : b \in Blocks(q, f)
  BY DEF AllBlocks
<1>2. f \in Funcs
  BY SetOf DEF IsProgram
<1>3. q.blocks[f] \in Seq(Labels)
  BY <1>2 DEF IsProgram
<1>4. b \in Labels
  BY <1>1, <1>3, SetOf DEF Blocks
<1>5. b \in Nat /\ b > 0
  BY <1>4, LabelsAssumption
<1>6. QED
  BY <1>1, <1>2, <1>4, <1>5 DEF IsProgram

(* The same said of positions and said of sequences. *)
LEMMA OwnIff ==
  ASSUME NEW q, IsProgram(q)
  PROVE  OwnAddresses(q) <=> OwnParts(q)
<1>1. \A b \in AllBlocks(q) : \A i : i \in ToSet(q.body[b]) <=> \E k \in DOMAIN q.body[b] : i = q.body[b][k]
  BY DEF ToSet
<1>2. ASSUME OwnAddresses(q) PROVE OwnParts(q)
  <2>1. ASSUME NEW b \in AllBlocks(q), NEW n \in Ids(q.body[b]) PROVE 0 < n /\ n < q.next
    BY <1>2 DEF OwnAddresses, Ids, Listed
  <2>2. \A b \in AllBlocks(q) : SeqOwn(q.body[b])
    BY <1>2 DEF OwnAddresses, SeqOwn
  <2>3. ASSUME NEW b \in AllBlocks(q), NEW c \in AllBlocks(q), b # c
        PROVE  Ids(q.body[b]) \cap Ids(q.body[c]) = {}
    BY <1>1, <1>2, <2>3 DEF OwnAddresses, Ids
  <2>4. QED
    BY <2>1, <2>2, <2>3 DEF OwnParts
<1>3. ASSUME OwnParts(q) PROVE OwnAddresses(q)
  <2>1. ASSUME NEW b \in AllBlocks(q), NEW c \in AllBlocks(q), NEW j \in DOMAIN q.body[b],
               NEW k \in DOMAIN q.body[c], q.body[b][j].id = q.body[c][k].id
        PROVE  b = c /\ j = k
    <3>1. q.body[b][j].id \in Ids(q.body[b]) /\ q.body[c][k].id \in Ids(q.body[c])
      BY <1>1 DEF Ids
    <3>2. b = c
      BY <1>3, <2>1, <3>1 DEF OwnParts
    <3>3. QED
      BY <1>3, <2>1, <3>2 DEF OwnParts, SeqOwn
  <2>2. ASSUME NEW i \in Listed(q) PROVE 0 < i.id /\ i.id < q.next
    BY <1>3 DEF OwnParts, Ids, Listed
  <2>3. QED
    BY <2>1, <2>2 DEF OwnAddresses
<1>4. QED
  BY <1>2, <1>3

(* No site is in two places, and no address in two assignments. *)
LEMMA Distinct ==
  ASSUME NEW q, IsProgram(q), OwnAddresses(q)
  PROVE  /\ DistinctSites(Places(q))
         /\ \A d, e \in Assignments(q) : d[2] = e[2] => d = e
         /\ \A i, j \in Listed(q) : i.id = j.id => i = j
         /\ Assignments(q) = {AssignmentOf(i) : i \in Listed(q)}
<1>1. \A i, j \in Listed(q) : i.id = j.id => i = j
  <2>1. SUFFICES ASSUME NEW b \in AllBlocks(q), NEW c \in AllBlocks(q), NEW i \in ToSet(q.body[b]),
                        NEW j \in ToSet(q.body[c]), i.id = j.id
                 PROVE  i = j
    BY DEF Listed
  <2>2. PICK k \in DOMAIN q.body[b], m \in DOMAIN q.body[c] : i = q.body[b][k] /\ j = q.body[c][m]
    BY DEF ToSet
  <2>3. QED
    BY <2>1, <2>2 DEF OwnAddresses
<1>2. Assignments(q) = {AssignmentOf(i) : i \in Listed(q)}
  BY DEF Assignments, SeqAssignments, Listed
<1>3. \A d, e \in Assignments(q) : d[2] = e[2] => d = e
  BY <1>1, <1>2 DEF AssignmentOf
<1>4. ASSUME NEW s \in Places(q)
      PROVE  \/ \E i \in Listed(q) : s = PlaceOf(i) /\ s[1] > 0 /\ s[1] \in Nat
             \/ \E b \in AllBlocks(q) : s = ExitPlace(b, q.exit[b]) /\ s[1] = -b /\ s[1] \in Int /\ s[1] < 0
  <2>1. PICK b \in AllBlocks(q) : s \in BlockPlaces(q, b)
    BY DEF Places
  <2>2. b \in Nat /\ b > 0 /\ q.body[b] \in Seq(Instruction)
    BY BlockFacts
  <2>3. CASE s = ExitPlace(b, q.exit[b])
    BY <2>2, <2>3 DEF ExitPlace
  <2>4. CASE s \in SeqPlaces(q.body[b])
    <3>1. PICK i \in ToSet(q.body[b]) : s = PlaceOf(i)
      BY <2>4 DEF SeqPlaces
    <3>2. i \in Listed(q) /\ i.id \in Nat
      <4>1. i \in Instruction
        BY <2>2, SetOf
      <4>2. QED
        BY <4>1 DEF Listed, Instruction
    <3>3. i.id > 0
      BY <3>2 DEF OwnAddresses
    <3>4. QED
      BY <3>1, <3>2, <3>3 DEF PlaceOf
  <2>5. QED
    BY <2>1, <2>3, <2>4 DEF BlockPlaces
<1>5. DistinctSites(Places(q))
  <2>1. SUFFICES ASSUME NEW s \in Places(q), NEW t \in Places(q), s[1] = t[1] PROVE s = t
    BY DEF DistinctSites
  <2>2. CASE \E i \in Listed(q) : s = PlaceOf(i) /\ s[1] > 0 /\ s[1] \in Nat
    <3>1. PICK i \in Listed(q) : s = PlaceOf(i) /\ s[1] > 0
      BY <2>2
    <3>2. PICK j \in Listed(q) : t = PlaceOf(j)
      BY <1>4, <2>1, <2>2
    <3>3. i = j
      BY <1>1, <2>1, <3>1, <3>2 DEF PlaceOf
    <3>4. QED
      BY <3>1, <3>2, <3>3
  <2>3. CASE \E b \in AllBlocks(q) : s = ExitPlace(b, q.exit[b]) /\ s[1] = -b /\ s[1] \in Int /\ s[1] < 0
    <3>1. PICK b \in AllBlocks(q) : s = ExitPlace(b, q.exit[b]) /\ s[1] = -b
      BY <2>3
    <3>2. PICK c \in AllBlocks(q) : t = ExitPlace(c, q.exit[c]) /\ t[1] = -c
      BY <1>4, <2>1, <2>3
    <3>3. b \in Nat /\ c \in Nat
      BY BlockFacts
    <3>4. b = c
      BY <2>1, <3>1, <3>2, <3>3
    <3>5. QED
      BY <3>1, <3>2, <3>4
  <2>4. QED
    BY <1>4, <2>2, <2>3
<1>6. QED
  BY <1>1, <1>2, <1>3, <1>5

(* SSA form, said of the assignments. *)
LEMMA OnceIff ==
  ASSUME NEW q, IsProgram(q), OwnAddresses(q)
  PROVE  AssignedOnce(q) <=> OnceIn(Assignments(q))
<1>1. Assignments(q) = {AssignmentOf(i) : i \in Listed(q)} /\ \A i, j \in Listed(q) : i.id = j.id => i = j
  BY Distinct
<1>2. ASSUME AssignedOnce(q), NEW d \in Assignments(q), NEW e \in Assignments(q),
             d[1] = e[1], d[1] # NoVar
      PROVE  d = e
  <2>1. PICK i \in Listed(q), j \in Listed(q) : d = AssignmentOf(i) /\ e = AssignmentOf(j)
    BY <1>1
  <2>2. i.res = j.res /\ i.res # NoVar
    BY <1>2, <2>1 DEF AssignmentOf
  <2>3. QED
    BY <1>2, <2>1, <2>2 DEF AssignedOnce
<1>3. ASSUME OnceIn(Assignments(q)), NEW i \in Listed(q), NEW j \in Listed(q),
             i.res = j.res, i.res # NoVar
      PROVE  i = j
  <2>1. AssignmentOf(i) \in Assignments(q) /\ AssignmentOf(j) \in Assignments(q)
    BY <1>1
  <2>2. AssignmentOf(i)[1] = i.res /\ AssignmentOf(j)[1] = j.res /\ AssignmentOf(i)[2] = i.id
        /\ AssignmentOf(j)[2] = j.id
    BY DEF AssignmentOf
  <2>3. AssignmentOf(i) = AssignmentOf(j)
    BY <1>3, <2>1, <2>2 DEF OnceIn
  <2>4. QED
    BY <1>1, <2>2, <2>3
<1>4. QED
  BY <1>2, <1>3 DEF AssignedOnce, OnceIn

(* What the observers have recorded, said of places and assignments. *)
Recorded(q) ==
  /\ q.uses = SitesOf(Places(q))
  /\ q.defs = Named(Assignments(q))

(* A graph built anew records them all: DefInfo keeps one of several, but in *)
(* SSA form there is one.                                                    *)
LEMMA VerifyIff ==
  ASSUME NEW q, IsProgram(q), OwnAddresses(q), q.multi \/ AssignedOnce(q)
  PROVE  /\ ReferenceUses(q) = SitesOf(Places(q))
         /\ ReferenceDefs(q) = Named(Assignments(q))
         /\ verify(q) <=> Recorded(q)
<1>1. ReferenceUses(q) = SitesOf(Places(q))
  BY AllUses
<1>2. Assignments(q) = {AssignmentOf(i) : i \in Listed(q)}
  BY Distinct
<1>3. ReferenceDefs(q) = {<<i.res, i.id>> : i \in {j \in Listed(q) : j.res # NoVar}}
  <2>1. ASSUME NEW j \in Listed(q), j.res # NoVar
        PROVE  q.multi \/ \A k \in Listed(q) : k # j /\ k.res = j.res => ~SeenBefore(q, j, k)
    BY <2>1 DEF AssignedOnce
  <2>2. QED
    BY <2>1 DEF ReferenceDefs
<1>4. ReferenceDefs(q) = Named(Assignments(q))
  BY <1>2, <1>3 DEF Named, AssignmentOf
<1>5. QED
  BY <1>1, <1>4 DEF verify, Recorded

(* The inductive invariant: the program is one, and the records follow it. *)
Good(q) ==
  /\ IsProgram(q)
  /\ OwnAddresses(q)
  /\ q.multi \/ AssignedOnce(q)
  /\ Recorded(q)

(* Two blocks have no place and no assignment in common. *)
LEMMA BlocksApart ==
  ASSUME NEW q, IsProgram(q), OwnAddresses(q), NEW b \in AllBlocks(q), NEW c \in AllBlocks(q), b # c
  PROVE  /\ BlockPlaces(q, b) \cap BlockPlaces(q, c) = {}
         /\ SeqAssignments(q.body[b]) \cap SeqAssignments(q.body[c]) = {}
<1>1. Ids(q.body[b]) \cap Ids(q.body[c]) = {}
  BY OwnIff DEF OwnParts
<1>2. \A i \in ToSet(q.body[b]) : i.id \in Ids(q.body[b])
  BY DEF Ids
<1>3. \A i \in ToSet(q.body[c]) : i.id \in Ids(q.body[c])
  BY DEF Ids
<1>4. b \in Nat /\ b > 0 /\ c \in Nat /\ c > 0
  BY BlockFacts
<1>5. ASSUME NEW n \in Ids(q.body[b]) \cup Ids(q.body[c]) PROVE n # -b /\ n # -c
  <2>1. n \in Int /\ n > 0
    <3>1. PICK d \in {b, c} : n \in Ids(q.body[d])
      BY DEF Ids
    <3>2. n > 0
      BY <3>1, OwnIff DEF OwnParts
    <3>3. q.body[d] \in Seq(Instruction)
      BY <3>1, BlockFacts
    <3>4. PICK i \in ToSet(q.body[d]) : n = i.id
      BY <3>1 DEF Ids
    <3>5. i \in Instruction
      BY <3>3, SetOf
    <3>6. QED
      BY <3>2, <3>4, <3>5 DEF Instruction
  <2>2. QED
    BY <1>4, <2>1
<1>6. ASSUME NEW s \in BlockPlaces(q, b), s \in BlockPlaces(q, c) PROVE FALSE
  <2>1. s[1] \in Ids(q.body[b]) \/ s[1] = -b
    BY <1>2 DEF BlockPlaces, SeqPlaces, PlaceOf, ExitPlace
  <2>2. s[1] \in Ids(q.body[c]) \/ s[1] = -c
    BY <1>3, <1>6 DEF BlockPlaces, SeqPlaces, PlaceOf, ExitPlace
  <2>3. -b # -c
    BY <1>4
  <2>4. QED
    BY <1>1, <1>5, <2>1, <2>2, <2>3
<1>7. ASSUME NEW d \in SeqAssignments(q.body[b]), d \in SeqAssignments(q.body[c]) PROVE FALSE
  <2>1. d[2] \in Ids(q.body[b]) /\ d[2] \in Ids(q.body[c])
    BY <1>2, <1>3, <1>7 DEF SeqAssignments, AssignmentOf
  <2>2. QED
    BY <1>1, <2>1
<1>8. QED
  BY <1>6, <1>7

(* What r is when block b of q gets other instructions and another exit. *)
BlockChanged(q, b, s, e, r) ==
  /\ IsProgram(r) /\ OwnAddresses(r)
  /\ Places(r) = (Places(q) \ BlockPlaces(q, b)) \cup (SeqPlaces(s) \cup {ExitPlace(b, e)})
  /\ Assignments(r) = (Assignments(q) \ SeqAssignments(q.body[b])) \cup SeqAssignments(s)

(* Everything but the records of q and r is the same but body, exit and next. *)
SameLists(q, r) ==
  /\ DOMAIN r = Fields
  /\ r.multi = q.multi /\ r.funcs = q.funcs /\ r.blocks = q.blocks

(* One block gets other instructions, whose addresses are its own or new. *)
LEMMA OneBlock ==
  ASSUME NEW q, IsProgram(q), OwnAddresses(q), NEW b \in AllBlocks(q),
         NEW s \in Seq(Instruction), SeqOwn(s), NEW e \in Exit,
         NEW r, SameLists(q, r), r.next \in Nat, q.next <= r.next,
         r.body = [q.body EXCEPT ![b] = s], r.exit = [q.exit EXCEPT ![b] = e],
         \A n \in Ids(s) : n \in Ids(q.body[b]) \/ (q.next <= n /\ n < r.next)
  PROVE  BlockChanged(q, b, s, e, r)
<1>1. AllBlocks(r) = AllBlocks(q) /\ \A f : Blocks(r, f) = Blocks(q, f)
  BY DEF AllBlocks, Blocks, SameLists
<1>2. q.body \in [AllBlocks(q) -> Seq(Instruction)] /\ q.exit \in [AllBlocks(q) -> Exit]
      /\ q.next \in Nat \ {0}
  BY DEF IsProgram
<1>3. /\ r.body \in [AllBlocks(q) -> Seq(Instruction)] /\ r.exit \in [AllBlocks(q) -> Exit]
      /\ r.body[b] = s /\ r.exit[b] = e
      /\ \A c \in AllBlocks(q) \ {b} : r.body[c] = q.body[c] /\ r.exit[c] = q.exit[c]
  BY <1>2
<1>4. IsProgram(r)
  <2>1. r.next \in Nat \ {0}
    BY <1>2
  <2>2. QED
    BY <1>1, <1>3, <2>1 DEF IsProgram, SameLists
<1>5. OwnParts(q)
  BY OwnIff
<1>6. ASSUME NEW c \in AllBlocks(q), NEW n \in Ids(q.body[c]) PROVE n \in Int /\ 0 < n /\ n < q.next /\ n < r.next
  <2>1. PICK i \in ToSet(q.body[c]) : n = i.id
    BY DEF Ids
  <2>2. i \in Instruction
    BY BlockFacts, SetOf
  <2>3. n \in Int
    BY <2>1, <2>2 DEF Instruction
  <2>4. 0 < n /\ n < q.next
    BY <1>5 DEF OwnParts
  <2>5. QED
    BY <1>2, <2>3, <2>4
<1>7. ASSUME NEW n \in Ids(s) PROVE n \in Int
  <2>1. PICK i \in ToSet(s) : n = i.id
    BY DEF Ids
  <2>2. i \in Instruction
    BY SetOf
  <2>3. QED
    BY <2>1, <2>2 DEF Instruction
<1>8. OwnParts(r)
  <2>1. ASSUME NEW c \in AllBlocks(q)
        PROVE  SeqOwn(r.body[c]) /\ \A n \in Ids(r.body[c]) : 0 < n /\ n < r.next
    <3>1. CASE c = b
      BY <1>2, <1>3, <1>6, <1>7, <3>1
    <3>2. CASE c # b
      BY <1>3, <1>5, <1>6, <3>2 DEF OwnParts
    <3>3. QED
      BY <3>1, <3>2
  <2>2. ASSUME NEW c \in AllBlocks(q), c # b PROVE Ids(s) \cap Ids(q.body[c]) = {}
    <3>1. SUFFICES ASSUME NEW n \in Ids(s), n \in Ids(q.body[c]) PROVE FALSE
      OBVIOUS
    <3>2. n < q.next /\ n \in Int
      BY <1>6, <3>1
    <3>3. n \in Ids(q.body[b])
      BY <1>2, <3>2
    <3>4. QED
      BY <1>5, <2>2, <3>1, <3>3 DEF OwnParts
  <2>3. ASSUME NEW c \in AllBlocks(q), NEW d \in AllBlocks(q), c # d
        PROVE  Ids(r.body[c]) \cap Ids(r.body[d]) = {}
    <3>1. CASE c = b
      BY <1>3, <2>2, <2>3, <3>1
    <3>2. CASE d = b
      BY <1>3, <2>2, <2>3, <3>2
    <3>3. CASE c # b /\ d # b
      BY <1>3, <1>5, <2>3, <3>3 DEF OwnParts
    <3>4. QED
      BY <3>1, <3>2, <3>3
  <2>4. QED
    BY <1>1, <2>1, <2>3 DEF OwnParts
<1>9. OwnAddresses(r)
  BY <1>4, <1>8, OwnIff
<1>10. /\ BlockPlaces(r, b) = SeqPlaces(s) \cup {ExitPlace(b, e)}
       /\ \A c \in AllBlocks(q) \ {b} : BlockPlaces(r, c) = BlockPlaces(q, c)
  BY <1>3 DEF BlockPlaces
<1>11. \A c \in AllBlocks(q) \ {b} : /\ BlockPlaces(q, b) \cap BlockPlaces(q, c) = {}
                                     /\ SeqAssignments(q.body[b]) \cap SeqAssignments(q.body[c]) = {}
  BY BlocksApart
<1>12. Places(r) = (Places(q) \ BlockPlaces(q, b)) \cup (SeqPlaces(s) \cup {ExitPlace(b, e)})
  BY <1>1, <1>10, <1>11 DEF Places
<1>13. Assignments(r) = (Assignments(q) \ SeqAssignments(q.body[b])) \cup SeqAssignments(s)
  BY <1>1, <1>3, <1>11 DEF Assignments
<1>14. QED
  BY <1>4, <1>9, <1>12, <1>13 DEF BlockChanged

------------------------------------------------------------------------------
(* The records.                                                              *)

(* The records stay exact when the places X and the assignments U go, Y and W *)
(* come, and the observers hear of both.                                     *)
LEMMA RecordsFollow ==
  ASSUME NEW q, Good(q),
         NEW r, IsProgram(r), OwnAddresses(r), r.multi = q.multi,
         r.multi \/ OnceIn(Assignments(r)),
         NEW X \in SUBSET Places(q), NEW Y, Places(r) = (Places(q) \ X) \cup Y,
         r.uses = (q.uses \ SitesOf(X)) \cup SitesOf(Y),
         NEW U \in SUBSET Assignments(q), NEW W,
         Assignments(r) = (Assignments(q) \ U) \cup W,
         r.defs = Added(q.multi, Erased(q.multi, q.defs, U), W)
  PROVE  Good(r)
<1>1. r.uses = SitesOf(Places(r))
  <2>1. DistinctSites(Places(q))
    BY Distinct DEF Good
  <2>2. q.uses = SitesOf(Places(q))
    BY DEF Good, Recorded
  <2>3. QED
    BY <2>1, <2>2, ExactUses
<1>2. q.defs = Named(Assignments(q)) /\ q.multi \in BOOLEAN
  BY DEF Good, Recorded, IsProgram
<1>3. r.defs = Named(Assignments(r))
  <2>1. CASE q.multi
    BY <1>2, <2>1, ExactDefs DEF Added, Erased
  <2>2. CASE ~q.multi
    <3>1. OnceIn(Assignments(q))
      BY <2>2, OnceIff DEF Good
    <3>2. OnceIn(Assignments(r))
      BY <2>2
    <3>3. Named(Assignments(r)) = Left(Left(Named(Assignments(q)), U), W) \cup Named(W)
      <4> DEFINE D == Assignments(q)
                 E == Assignments(r)
      <4>1. OnceIn(D) /\ U \in SUBSET D /\ E = (D \ U) \cup W /\ OnceIn(E)
        BY <3>1, <3>2
      <4> HIDE DEF D, E
      <4>2. Named(E) = Left(Left(Named(D), U), W) \cup Named(W)
        BY <4>1, ExactSingleDefs
      <4>3. QED
        BY <4>2 DEF D, E
    <3>4. QED
      BY <1>2, <2>2, <3>3 DEF Added, Erased
  <2>3. QED
    BY <2>1, <2>2
<1>4. r.multi \/ AssignedOnce(r)
  BY OnceIff
<1>5. QED
  BY <1>1, <1>3, <1>4 DEF Good, Recorded

(* Everything but the records of q and r is the same. *)
SameProgram(q, r) ==
  SameLists(q, r) /\ r.body = q.body /\ r.exit = q.exit /\ r.next = q.next

(* The variable that an instruction assigns. *)
LEMMA VarsOfOne ==
  ASSUME NEW i
  PROVE  Vars(Named({AssignmentOf(i)})) = IF i.res = NoVar THEN {} ELSE {i.res}
<1> DEFINE D == Named({AssignmentOf(i)})
<1>1. D = IF i.res = NoVar THEN {} ELSE {AssignmentOf(i)}
  BY DEF Named, AssignmentOf
<1>2. AssignmentOf(i)[1] = i.res
  BY DEF AssignmentOf
<1> HIDE DEF D
<1>3. Vars(D) = IF i.res = NoVar THEN {} ELSE {i.res}
  BY <1>1, <1>2 DEF Vars
<1>4. QED
  BY <1>3 DEF D

(* after_add of an instruction. *)
LEMMA AfterAdd ==
  ASSUME NEW q, DOMAIN q = Fields, q.multi \in BOOLEAN, \A d \in q.defs : d[1] # NoVar,
         NEW i, NEW r, r = after_add(q, i)
  PROVE  /\ SameProgram(q, r)
         /\ r.uses = q.uses \cup SitesOf({PlaceOf(i)})
         /\ r.defs = Added(q.multi, q.defs, {AssignmentOf(i)})
<1>1. SameProgram(q, r)
  BY DEF after_add, SameProgram, SameLists, Fields
<1>2. r.uses = q.uses \cup Sites(i.id, i.args)
      /\ r.defs = (IF q.multi THEN q.defs ELSE q.defs \ defs_of(q, i.res)) \cup Defines(i)
  BY DEF after_add, Fields
<1>3. SitesOf({PlaceOf(i)}) = Sites(i.id, i.args)
  BY DEF SitesOf, PlaceOf
<1>4. Defines(i) = Named({AssignmentOf(i)})
  BY DEF Defines, Named, AssignmentOf
<1>5. q.defs \ defs_of(q, i.res) = Left(q.defs, {AssignmentOf(i)})
  BY VarsOfOne DEF defs_of, Left
<1>6. QED
  BY <1>1, <1>2, <1>3, <1>4, <1>5 DEF Added

(* before_erase of an instruction. *)
LEMMA BeforeErase ==
  ASSUME NEW q, DOMAIN q = Fields, q.multi \in BOOLEAN, \A d \in q.defs : d[1] # NoVar,
         NEW i, NEW r, r = before_erase(q, i)
  PROVE  /\ SameProgram(q, r)
         /\ r.uses = q.uses \ SitesOf({PlaceOf(i)})
         /\ r.defs = Erased(q.multi, q.defs, {AssignmentOf(i)})
         /\ \A d \in r.defs : d[1] # NoVar
<1>1. SameProgram(q, r)
  BY DEF before_erase, SameProgram, SameLists, Fields
<1>2. r.uses = q.uses \ Sites(i.id, i.args)
      /\ r.defs = q.defs \ (IF q.multi THEN Defines(i) ELSE defs_of(q, i.res))
  BY DEF before_erase, Fields
<1>3. SitesOf({PlaceOf(i)}) = Sites(i.id, i.args)
  BY DEF SitesOf, PlaceOf
<1>4. Defines(i) = Named({AssignmentOf(i)})
  BY DEF Defines, Named, AssignmentOf
<1>5. q.defs \ defs_of(q, i.res) = Left(q.defs, {AssignmentOf(i)})
  BY VarsOfOne DEF defs_of, Left
<1>6. QED
  BY <1>1, <1>2, <1>3, <1>4, <1>5 DEF Erased

(* DefsIn and defined, of instructions that define a variable once. *)
LEMMA SeqDefs ==
  ASSUME NEW q, q.multi \in BOOLEAN, NEW s \in Seq(Instruction), SeqOwn(s),
         q.multi \/ OnceIn(SeqAssignments(s))
  PROVE  /\ DefsIn(q, s) = Named(SeqAssignments(s))
         /\ defined(s) = Vars(Named(SeqAssignments(s)))
<1>1. \A i : i \in ToSet(s) <=> \E k \in DOMAIN s : i = s[k]
  BY DEF ToSet
<1>2. DOMAIN s = 1 .. Len(s) /\ Len(s) \in Nat
  OBVIOUS
<1>3. ASSUME NEW j \in DOMAIN s, s[j].res # NoVar, ~q.multi
      PROVE  \A m \in DOMAIN s : m > j => s[m].res # s[j].res
  <2>1. SUFFICES ASSUME NEW m \in DOMAIN s, m > j, s[m].res = s[j].res PROVE FALSE
    OBVIOUS
  <2>2. AssignmentOf(s[m]) \in SeqAssignments(s) /\ AssignmentOf(s[j]) \in SeqAssignments(s)
    BY <1>1 DEF SeqAssignments
  <2>3. AssignmentOf(s[m])[1] = s[m].res /\ AssignmentOf(s[j])[1] = s[j].res
        /\ AssignmentOf(s[m])[2] = s[m].id /\ AssignmentOf(s[j])[2] = s[j].id
    BY DEF AssignmentOf
  <2>4. AssignmentOf(s[m]) = AssignmentOf(s[j])
    BY <1>3, <2>1, <2>2, <2>3 DEF OnceIn
  <2>5. m = j
    BY <2>3, <2>4 DEF SeqOwn
  <2>6. QED
    BY <1>2, <2>1, <2>5
<1>4. DefsIn(q, s) = {<<s[k].res, s[k].id>> : k \in {j \in DOMAIN s : s[j].res # NoVar}}
  BY <1>3 DEF DefsIn
<1>5. DefsIn(q, s) = Named(SeqAssignments(s))
  BY <1>1, <1>4 DEF Named, SeqAssignments, AssignmentOf
<1>6. defined(s) = Vars(Named(SeqAssignments(s)))
  <2>1. ASSUME NEW x \in defined(s) PROVE x \in Vars(Named(SeqAssignments(s)))
    <3>1. PICK i \in ToSet(s) : x = i.res /\ x # NoVar
      BY DEF defined
    <3>2. AssignmentOf(i) \in Named(SeqAssignments(s)) /\ AssignmentOf(i)[1] = x
      BY <3>1 DEF Named, SeqAssignments, AssignmentOf
    <3>3. QED
      BY <3>2 DEF Vars
  <2>2. ASSUME NEW x \in Vars(Named(SeqAssignments(s))) PROVE x \in defined(s)
    <3>1. PICK d \in Named(SeqAssignments(s)) : x = d[1]
      BY DEF Vars
    <3>2. PICK i \in ToSet(s) : d = AssignmentOf(i) /\ d[1] # NoVar
      BY DEF Named, SeqAssignments
    <3>3. QED
      BY <3>1, <3>2 DEF AssignmentOf, defined
  <2>3. QED
    BY <2>1, <2>2
<1>7. QED
  BY <1>5, <1>6

(* after_add of a block, of which nothing needs to be recorded yet. *)
LEMMA AfterAddBlock ==
  ASSUME NEW q, DOMAIN q = Fields, q.multi \in BOOLEAN, NEW b,
         q.body[b] \in Seq(Instruction), SeqOwn(q.body[b]),
         q.multi \/ OnceIn(SeqAssignments(q.body[b])),
         NEW r, r = after_add_block(q, b)
  PROVE  /\ SameProgram(q, r)
         /\ r.uses = q.uses \cup SitesOf(BlockPlaces(q, b))
         /\ r.defs = Added(q.multi, q.defs, SeqAssignments(q.body[b]))
<1>1. SameProgram(q, r)
  BY DEF after_add_block, SameProgram, SameLists, Fields
<1>2. /\ r.uses = q.uses \cup UsesIn(q, b)
      /\ r.defs = (IF q.multi THEN q.defs ELSE {d \in q.defs : d[1] \notin defined(q.body[b])})
                   \cup DefsIn(q, q.body[b])
  BY DEF after_add_block, Fields
<1>3. QED
  BY <1>1, <1>2, BlockUses, SeqDefs DEF Added, Left

(* before_erase of a block. *)
LEMMA BeforeEraseBlock ==
  ASSUME NEW q, DOMAIN q = Fields, q.multi \in BOOLEAN, NEW b,
         q.body[b] \in Seq(Instruction), SeqOwn(q.body[b]),
         q.multi \/ OnceIn(SeqAssignments(q.body[b])),
         NEW r, r = before_erase_block(q, b)
  PROVE  /\ SameProgram(q, r)
         /\ r.uses = q.uses \ SitesOf(BlockPlaces(q, b))
         /\ r.defs = Erased(q.multi, q.defs, SeqAssignments(q.body[b]))
<1>1. SameProgram(q, r)
  BY DEF before_erase_block, SameProgram, SameLists, Fields
<1>2. /\ r.uses = q.uses \ UsesIn(q, b)
      /\ r.defs = IF q.multi THEN q.defs \ DefsIn(q, q.body[b])
                  ELSE {d \in q.defs : d[1] \notin defined(q.body[b])}
  BY DEF before_erase_block, Fields
<1>3. UsesIn(q, b) = SitesOf(BlockPlaces(q, b))
  BY BlockUses
<1>4. /\ DefsIn(q, q.body[b]) = Named(SeqAssignments(q.body[b]))
      /\ defined(q.body[b]) = Vars(Named(SeqAssignments(q.body[b])))
  BY SeqDefs
<1>5. r.defs = Erased(q.multi, q.defs, SeqAssignments(q.body[b]))
  BY <1>2, <1>4 DEF Erased, Left
<1>6. QED
  BY <1>1, <1>2, <1>3, <1>5
------------------------------------------------------------------------------
(* Calls on one block.                                                       *)

(* The places and the assignments of several instructions. *)
PlacesOf(I) == {PlaceOf(i) : i \in I}
AssignmentsOf(I) == {AssignmentOf(i) : i \in I}

(* A new instruction assigns what no other one does, those in G apart. *)
Fresh(q, G, A) ==
  q.multi \/ \A i \in A : i.res = NoVar \/ \A j \in Listed(q) \ G : j.res # i.res

(* The observers hear that the instructions in G go and that those in A come. *)
Heard(q, G, A, r) ==
  /\ r.uses = (q.uses \ SitesOf(PlacesOf(G))) \cup SitesOf(PlacesOf(A))
  /\ r.defs = Added(q.multi, Erased(q.multi, q.defs, AssignmentsOf(G)), AssignmentsOf(A))

(* In block b of q, the instructions in G make room for those in A. *)
Swapped(q, b, G, A, s, r) ==
  /\ s \in Seq(Instruction) /\ SeqOwn(s)
  /\ ToSet(s) = (ToSet(q.body[b]) \ G) \cup A
  /\ SameLists(q, r) /\ r.next \in Nat /\ q.next <= r.next
  /\ r.body = [q.body EXCEPT ![b] = s] /\ r.exit = q.exit
  /\ \A n \in Ids(s) : n \in Ids(q.body[b]) \/ (q.next <= n /\ n < r.next)

(* Such a change, of which the observers hear, leaves their records exact. *)
LEMMA SwapKeeps ==
  ASSUME NEW q, Good(q), NEW b \in AllBlocks(q), NEW G \in SUBSET ToSet(q.body[b]),
         NEW A, \A i, j \in A : i = j, Fresh(q, G, A),
         NEW s, NEW r, Swapped(q, b, G, A, s, r), Heard(q, G, A, r)
  PROVE  Good(r)
<1>1. IsProgram(q) /\ OwnAddresses(q) /\ (q.multi \/ AssignedOnce(q))
  BY DEF Good
<1>2. q.exit \in [AllBlocks(q) -> Exit] /\ q.exit[b] \in Exit
  BY <1>1 DEF IsProgram
<1>3. BlockChanged(q, b, s, q.exit[b], r)
  <2>1. q.exit = [q.exit EXCEPT ![b] = q.exit[b]]
    BY <1>2
  <2> DEFINE e == q.exit[b]
  <2>2. /\ s \in Seq(Instruction) /\ SeqOwn(s) /\ e \in Exit
        /\ SameLists(q, r) /\ r.next \in Nat /\ q.next <= r.next
        /\ r.body = [q.body EXCEPT ![b] = s] /\ r.exit = [q.exit EXCEPT ![b] = e]
        /\ \A n \in Ids(s) : n \in Ids(q.body[b]) \/ (q.next <= n /\ n < r.next)
    BY <1>2, <2>1 DEF Swapped
  <2> HIDE DEF e
  <2>3. BlockChanged(q, b, s, e, r)
    BY <1>1, <2>2, OneBlock
  <2>4. QED
    BY <2>3 DEF e
<1>4. /\ DistinctSites(Places(q))
      /\ \A d, e \in Assignments(q) : d[2] = e[2] => d = e
      /\ \A i, j \in Listed(q) : i.id = j.id => i = j
      /\ Assignments(q) = AssignmentsOf(Listed(q))
  BY <1>1, Distinct DEF AssignmentsOf
<1>5. ToSet(q.body[b]) \subseteq Listed(q)
  BY DEF Listed
<1>6. PlacesOf(G) \subseteq Places(q) /\ AssignmentsOf(G) \subseteq Assignments(q)
  BY DEF PlacesOf, Places, BlockPlaces, SeqPlaces, AssignmentsOf, Assignments, SeqAssignments
<1>7. Places(r) = (Places(q) \ PlacesOf(G)) \cup PlacesOf(A)
  <2> DEFINE E == {ExitPlace(b, q.exit[b])}
             T == SeqPlaces(q.body[b])
  <2>1. Places(r) = (Places(q) \ (T \cup E)) \cup (SeqPlaces(s) \cup E)
    BY <1>3 DEF BlockChanged, BlockPlaces
  <2>2. SeqPlaces(s) = (T \ PlacesOf(G)) \cup PlacesOf(A)
    <3>1. \A i, j \in ToSet(q.body[b]) : PlaceOf(i) = PlaceOf(j) => i = j
      BY <1>4, <1>5 DEF PlaceOf
    <3>2. ToSet(s) = (ToSet(q.body[b]) \ G) \cup A
      BY DEF Swapped
    <3>3. QED
      BY <3>1, <3>2 DEF SeqPlaces, PlacesOf
  <2>3. T \subseteq Places(q) /\ E \subseteq Places(q)
    BY DEF Places, BlockPlaces
  <2>4. PlacesOf(G) \subseteq T /\ PlacesOf(G) \cap E = {}
    <3>1. PlacesOf(G) \subseteq T
      BY DEF PlacesOf, SeqPlaces
    <3>2. ASSUME NEW i \in G, PlaceOf(i) = ExitPlace(b, q.exit[b]) PROVE FALSE
      <4>1. i.id = -b
        BY <3>2 DEF PlaceOf, ExitPlace
      <4>2. b \in Nat /\ b > 0 /\ q.body[b] \in Seq(Instruction)
        BY <1>1, BlockFacts
      <4>3. i.id > 0
        BY <1>1, <1>5 DEF OwnAddresses
      <4>4. i.id \in Nat
        <5>1. i \in Instruction
          BY <4>2, SetOf
        <5>2. QED
          BY <5>1 DEF Instruction
      <4>5. QED
        BY <4>1, <4>2, <4>3, <4>4
    <3>3. QED
      BY <3>1, <3>2 DEF PlacesOf
  <2> HIDE DEF E, T
  <2>5. QED
    BY <2>1, <2>2, <2>3, <2>4
<1>8. Assignments(r) = (Assignments(q) \ AssignmentsOf(G)) \cup AssignmentsOf(A)
  <2> DEFINE T == SeqAssignments(q.body[b])
  <2>1. Assignments(r) = (Assignments(q) \ T) \cup SeqAssignments(s)
    BY <1>3 DEF BlockChanged
  <2>2. SeqAssignments(s) = (T \ AssignmentsOf(G)) \cup AssignmentsOf(A)
    <3>1. \A i, j \in ToSet(q.body[b]) : AssignmentOf(i) = AssignmentOf(j) => i = j
      BY <1>4, <1>5 DEF AssignmentOf
    <3>2. ToSet(s) = (ToSet(q.body[b]) \ G) \cup A
      BY DEF Swapped
    <3>3. QED
      BY <3>1, <3>2 DEF SeqAssignments, AssignmentsOf
  <2>3. T \subseteq Assignments(q) /\ AssignmentsOf(G) \subseteq T
    BY DEF Assignments, AssignmentsOf, SeqAssignments
  <2> HIDE DEF T
  <2>4. QED
    BY <2>1, <2>2, <2>3
<1>9. IsProgram(r) /\ OwnAddresses(r) /\ r.multi = q.multi
  BY <1>3 DEF BlockChanged, Swapped, SameLists
<1>10. r.multi \/ OnceIn(Assignments(r))
  <2>1. SUFFICES ASSUME ~q.multi PROVE OnceIn(Assignments(r))
    BY <1>9
  <2>2. OnceIn(Assignments(q))
    BY <1>1, <2>1, OnceIff
  <2>3. ASSUME NEW d \in Assignments(q), d \notin AssignmentsOf(G), NEW a \in AssignmentsOf(A),
               d[1] = a[1], d[1] # NoVar
        PROVE  FALSE
    <3>1. PICK j \in Listed(q) : d = AssignmentOf(j)
      BY <1>4 DEF AssignmentsOf
    <3>2. PICK i \in A : a = AssignmentOf(i)
      BY DEF AssignmentsOf
    <3>3. j \notin G
      BY <2>3, <3>1 DEF AssignmentsOf
    <3>4. j.res = i.res /\ i.res # NoVar
      BY <2>3, <3>1, <3>2 DEF AssignmentOf
    <3>5. QED
      BY <2>1, <3>3, <3>4 DEF Fresh
  <2>4. \A a, c \in AssignmentsOf(A) : a = c
    BY DEF AssignmentsOf
  <2>5. QED
    BY <1>8, <2>2, <2>3, <2>4 DEF OnceIn
<1>11. r.uses = (q.uses \ SitesOf(PlacesOf(G))) \cup SitesOf(PlacesOf(A))
       /\ r.defs = Added(q.multi, Erased(q.multi, q.defs, AssignmentsOf(G)), AssignmentsOf(A))
  BY DEF Heard
<1>12. QED
  BY <1>6, <1>7, <1>8, <1>9, <1>10, <1>11, RecordsFollow

(* What every good program has, in the form in which the calls need it. *)
LEMMA GoodFacts ==
  ASSUME NEW q, Good(q)
  PROVE  /\ IsProgram(q) /\ OwnAddresses(q)
         /\ DOMAIN q = Fields /\ q.multi \in BOOLEAN /\ q.next \in Nat /\ q.next > 0
         /\ q.uses = SitesOf(Places(q)) /\ \A d \in q.defs : d[1] # NoVar
         /\ q.body \in [AllBlocks(q) -> Seq(Instruction)]
         /\ q.exit \in [AllBlocks(q) -> Exit]
         /\ \A b \in AllBlocks(q) : SeqOwn(q.body[b])
         /\ \A b \in AllBlocks(q) : \A n \in Ids(q.body[b]) : n \in Nat /\ 0 < n /\ n < q.next
<1>1. IsProgram(q) /\ OwnAddresses(q) /\ Recorded(q)
  BY DEF Good
<1>2. ASSUME NEW b \in AllBlocks(q), NEW n \in Ids(q.body[b]) PROVE n \in Nat
  <2>1. PICK i \in ToSet(q.body[b]) : n = i.id
    BY DEF Ids
  <2>2. i \in Instruction
    BY <1>1, BlockFacts, SetOf
  <2>3. QED
    BY <2>1, <2>2 DEF Instruction
<1>3. OwnParts(q)
  BY <1>1, OwnIff
<1>4. DOMAIN q = Fields /\ q.multi \in BOOLEAN /\ q.next \in Nat /\ q.next > 0
  BY <1>1 DEF IsProgram
<1>5. q.body \in [AllBlocks(q) -> Seq(Instruction)] /\ q.exit \in [AllBlocks(q) -> Exit]
  BY <1>1 DEF IsProgram
<1>6. QED
  BY <1>1, <1>2, <1>3, <1>4, <1>5 DEF Recorded, Named, OwnParts

(* An instruction that gets an address is one. *)
LEMMA Addressed ==
  ASSUME NEW i \in Instruction, NEW n \in Nat, NEW e, e = [i EXCEPT !.id = n]
  PROVE  e \in Instruction /\ e.id = n /\ e.res = i.res /\ e.args = i.args
BY DEF Instruction

(* Block::replace: the new instruction takes over the address. *)
LEMMA ReplaceKeeps ==
  ASSUME NEW q, Good(q), NEW b \in AllBlocks(q), NEW k \in DOMAIN q.body[b],
         NEW i \in Instruction,
         q.multi \/ i.res = NoVar \/ \A j \in Listed(q) \ {q.body[b][k]} : j.res # i.res
  PROVE  Good(replace(q, b, k, i))
<1> DEFINE old == q.body[b][k]
           e == [i EXCEPT !.id = old.id]
           m == before_erase(q, old)
           n == [m EXCEPT !.body[b][k] = e]
           r == after_add(n, e)
           s == [q.body[b] EXCEPT ![k] = e]
<1>1. replace(q, b, k, i) = r
  BY DEF replace
<1>2. /\ DOMAIN q = Fields /\ q.multi \in BOOLEAN /\ q.next \in Nat
      /\ \A d \in q.defs : d[1] # NoVar
      /\ q.body \in [AllBlocks(q) -> Seq(Instruction)] /\ SeqOwn(q.body[b])
  BY GoodFacts
<1>3. q.body[b] \in Seq(Instruction) /\ old \in Instruction /\ old \in ToSet(q.body[b])
  BY <1>2, SetOf
<1>4. e \in Instruction /\ e.id = old.id /\ e.res = i.res
  <2>1. old.id \in Nat
    BY <1>3 DEF Instruction
  <2> HIDE DEF old
  <2>2. QED
    BY <2>1, Addressed
<1>5. s \in Seq(Instruction) /\ SeqOwn(s) /\ ToSet(s) = (ToSet(q.body[b]) \ {old}) \cup {e}
  <2> DEFINE t == q.body[b]
  <2>1. t \in Seq(Instruction) /\ SeqOwn(t) /\ k \in DOMAIN t /\ e \in Instruction
        /\ e.id = t[k].id /\ s = [t EXCEPT ![k] = e] /\ old = t[k]
    BY <1>2, <1>3, <1>4
  <2> HIDE DEF t, e, s, old
  <2>2. InPlace(Instruction, t, t[k], e, [t EXCEPT ![k] = e])
    BY <2>1, ReplaceSeq
  <2>3. QED
    BY <2>1, <2>2 DEF t, InPlace
<1> HIDE DEF e, old
<1>6. /\ SameProgram(q, m)
      /\ m.uses = q.uses \ SitesOf({PlaceOf(old)})
      /\ m.defs = Erased(q.multi, q.defs, {AssignmentOf(old)})
      /\ \A d \in m.defs : d[1] # NoVar
  BY <1>2, BeforeErase
<1> HIDE DEF m
<1>7. /\ SameLists(q, n) /\ n.exit = q.exit /\ n.next = q.next
      /\ n.uses = m.uses /\ n.defs = m.defs /\ n.body = [q.body EXCEPT ![b] = s]
  <2>1. DOMAIN m = Fields /\ m.body = q.body
    BY <1>6 DEF SameProgram, SameLists
  <2>2. n.body = [q.body EXCEPT ![b] = s]
    BY <2>1 DEF Fields
  <2>3. QED
    BY <1>6, <2>1, <2>2 DEF SameProgram, SameLists, Fields
<1> HIDE DEF n, s
<1>8. /\ SameProgram(n, r)
      /\ r.uses = n.uses \cup SitesOf({PlaceOf(e)})
      /\ r.defs = Added(n.multi, n.defs, {AssignmentOf(e)})
  <2>1. DOMAIN n = Fields /\ n.multi \in BOOLEAN /\ \A d \in n.defs : d[1] # NoVar
    BY <1>2, <1>6, <1>7 DEF SameLists
  <2>2. QED
    BY <2>1, AfterAdd
<1> HIDE DEF r
<1> DEFINE G == {old}
           A == {e}
<1>9. PlacesOf(G) = {PlaceOf(old)} /\ PlacesOf(A) = {PlaceOf(e)}
      /\ AssignmentsOf(G) = {AssignmentOf(old)} /\ AssignmentsOf(A) = {AssignmentOf(e)}
  BY DEF PlacesOf, AssignmentsOf
<1>10. Heard(q, G, A, r)
  BY <1>6, <1>7, <1>8, <1>9 DEF Heard, SameLists
<1>11. Ids(s) \subseteq Ids(q.body[b])
  BY <1>3, <1>4, <1>5 DEF Ids
<1>12. Swapped(q, b, G, A, s, r)
  BY <1>2, <1>5, <1>7, <1>8, <1>11 DEF Swapped, SameLists, SameProgram
<1>13. Fresh(q, G, A)
  BY <1>4 DEF Fresh, old
<1>14. G \in SUBSET ToSet(q.body[b]) /\ \A x, y \in A : x = y
  BY <1>3
<1> HIDE DEF G, A
<1>15. QED
  BY <1>1, <1>10, <1>12, <1>13, <1>14, SwapKeeps

(* Block::insert: the instruction gets the next address. *)
LEMMA InsertKeeps ==
  ASSUME NEW q, Good(q), NEW b \in AllBlocks(q), NEW k \in 1 .. Len(q.body[b]) + 1,
         NEW i \in Instruction,
         q.multi \/ i.res = NoVar \/ \A j \in Listed(q) \ {} : j.res # i.res
  PROVE  Good(insert_at(q, b, k, i))
<1> DEFINE e == [i EXCEPT !.id = q.next]
           s == InsertAt(q.body[b], k, e)
           n == [q EXCEPT !.body[b] = s, !.next = q.next + 1]
           r == after_add(n, e)
<1>1. insert_at(q, b, k, i) = r
  BY DEF insert_at
<1>2. /\ DOMAIN q = Fields /\ q.multi \in BOOLEAN /\ q.next \in Nat
      /\ \A d \in q.defs : d[1] # NoVar
      /\ q.body \in [AllBlocks(q) -> Seq(Instruction)] /\ SeqOwn(q.body[b])
      /\ \A x \in Ids(q.body[b]) : x \in Nat /\ x < q.next
  BY GoodFacts
<1>3. q.body[b] \in Seq(Instruction)
  BY <1>2
<1>4. e \in Instruction /\ e.id = q.next /\ e.res = i.res
  BY <1>2, Addressed
<1> HIDE DEF e
<1>5. s \in Seq(Instruction) /\ SeqOwn(s) /\ ToSet(s) = ToSet(q.body[b]) \cup {e}
  <2>1. e.id \notin Ids(q.body[b])
    BY <1>2, <1>4
  <2>2. QED
    BY <1>2, <1>3, <1>4, <2>1, InsertSeq
<1> HIDE DEF s
<1>6. /\ SameLists(q, n) /\ n.exit = q.exit /\ n.next = q.next + 1
      /\ n.uses = q.uses /\ n.defs = q.defs /\ n.body = [q.body EXCEPT ![b] = s]
  BY <1>2 DEF SameLists, Fields
<1> HIDE DEF n
<1>7. /\ SameProgram(n, r)
      /\ r.uses = n.uses \cup SitesOf({PlaceOf(e)})
      /\ r.defs = Added(n.multi, n.defs, {AssignmentOf(e)})
  <2>1. DOMAIN n = Fields /\ n.multi \in BOOLEAN /\ \A d \in n.defs : d[1] # NoVar
    BY <1>2, <1>6 DEF SameLists
  <2>2. QED
    BY <2>1, AfterAdd
<1> HIDE DEF r
<1> DEFINE G == {}
           A == {e}
<1>8. PlacesOf(G) = {} /\ PlacesOf(A) = {PlaceOf(e)}
      /\ AssignmentsOf(G) = {} /\ AssignmentsOf(A) = {AssignmentOf(e)}
  BY DEF PlacesOf, AssignmentsOf
<1>9. SitesOf({}) = {} /\ Named({}) = {} /\ Vars({}) = {}
  BY DEF SitesOf, Named, Vars
<1>10. Heard(q, G, A, r)
  BY <1>6, <1>7, <1>8, <1>9 DEF Heard, SameLists, Erased, Left
<1>11. \A x \in Ids(s) : x \in Ids(q.body[b]) \/ x = q.next
  BY <1>4, <1>5 DEF Ids
<1>12. Swapped(q, b, G, A, s, r)
  BY <1>2, <1>5, <1>6, <1>7, <1>11 DEF Swapped, SameLists, SameProgram
<1>13. Fresh(q, G, A)
  BY <1>4 DEF Fresh
<1>14. G \in SUBSET ToSet(q.body[b]) /\ \A x, y \in A : x = y
  OBVIOUS
<1> HIDE DEF G, A
<1>15. QED
  BY <1>1, <1>10, <1>12, <1>13, <1>14, SwapKeeps

(* Block::erase. *)
LEMMA EraseKeeps ==
  ASSUME NEW q, Good(q), NEW b \in AllBlocks(q), NEW k \in DOMAIN q.body[b]
  PROVE  Good(erase(q, b, k))
<1> DEFINE old == q.body[b][k]
           m == before_erase(q, old)
           s == RemoveAt(q.body[b], k)
           r == [m EXCEPT !.body[b] = RemoveAt(m.body[b], k)]
<1>1. erase(q, b, k) = r
  BY DEF erase
<1>2. /\ DOMAIN q = Fields /\ q.multi \in BOOLEAN /\ q.next \in Nat
      /\ \A d \in q.defs : d[1] # NoVar
      /\ q.body \in [AllBlocks(q) -> Seq(Instruction)] /\ SeqOwn(q.body[b])
  BY GoodFacts
<1>3. q.body[b] \in Seq(Instruction) /\ old \in ToSet(q.body[b])
  BY <1>2, SetOf
<1>4. s \in Seq(Instruction) /\ SeqOwn(s) /\ ToSet(s) = ToSet(q.body[b]) \ {old}
  BY <1>2, <1>3, EraseSeq
<1> HIDE DEF old
<1>5. /\ SameProgram(q, m)
      /\ m.uses = q.uses \ SitesOf({PlaceOf(old)})
      /\ m.defs = Erased(q.multi, q.defs, {AssignmentOf(old)})
  BY <1>2, BeforeErase
<1> HIDE DEF m
<1>6. DOMAIN m = Fields /\ m.body = q.body
  BY <1>5 DEF SameProgram, SameLists
<1>7. RemoveAt(m.body[b], k) = s
  BY <1>6
<1> HIDE DEF s
<1>8. /\ SameLists(q, r) /\ r.exit = q.exit /\ r.next = q.next
      /\ r.uses = m.uses /\ r.defs = m.defs /\ r.body = [q.body EXCEPT ![b] = s]
  BY <1>5, <1>6, <1>7 DEF SameProgram, SameLists, Fields
<1> HIDE DEF r
<1> DEFINE G == {old}
           A == {}
<1>9. PlacesOf(G) = {PlaceOf(old)} /\ PlacesOf(A) = {}
      /\ AssignmentsOf(G) = {AssignmentOf(old)} /\ AssignmentsOf(A) = {}
  BY DEF PlacesOf, AssignmentsOf
<1>10. SitesOf({}) = {} /\ Named({}) = {} /\ Vars({}) = {}
  BY DEF SitesOf, Named, Vars
<1>11. Heard(q, G, A, r)
  BY <1>5, <1>8, <1>9, <1>10 DEF Heard, Added, Left
<1>12. Ids(s) \subseteq Ids(q.body[b])
  BY <1>4 DEF Ids
<1>13. Swapped(q, b, G, A, s, r)
  BY <1>2, <1>4, <1>8, <1>12 DEF Swapped
<1>14. Fresh(q, G, A) /\ G \in SUBSET ToSet(q.body[b]) /\ \A x, y \in A : x = y
  BY <1>3 DEF Fresh
<1> HIDE DEF G, A
<1>15. QED
  BY <1>1, <1>11, <1>13, <1>14, SwapKeeps

(* Definitions that are recorded again, or erased and recorded again. *)
LEMMA ReAdded ==
  ASSUME NEW multi \in BOOLEAN, NEW D, multi \/ OnceIn(D), NEW U \in SUBSET D
  PROVE  /\ Added(multi, Named(D), U) = Named(D)
         /\ Added(multi, Erased(multi, Named(D), U), U) = Named(D)
<1>1. Named(U) \subseteq Named(D)
  BY DEF Named
<1>2. CASE multi
  BY <1>1, <1>2 DEF Added, Erased
<1>3. CASE ~multi
  <2>1. ASSUME NEW d \in Named(D), d[1] \in Vars(Named(U)) PROVE d \in Named(U)
    BY <1>3, <2>1 DEF Vars, Named, OnceIn
  <2>2. Left(Named(D), U) \cup Named(U) = Named(D)
    BY <1>1, <2>1 DEF Left
  <2>3. Left(Left(Named(D), U), U) = Left(Named(D), U)
    BY DEF Left
  <2>4. QED
    BY <1>3, <2>2, <2>3 DEF Added, Erased
<1>4. QED
  BY <1>2, <1>3

(* r is q with another exit of block b, which the observers saw go and come back. *)
ExitSet(q, b, e, r) ==
  LET U == SeqAssignments(q.body[b])
  IN  /\ SameLists(q, r) /\ r.body = q.body /\ r.next = q.next
      /\ r.exit = [q.exit EXCEPT ![b] = e]
      /\ r.uses = (q.uses \ SitesOf(BlockPlaces(q, b)))
                  \cup SitesOf(SeqPlaces(q.body[b]) \cup {ExitPlace(b, e)})
      /\ r.defs = Added(q.multi, Erased(q.multi, q.defs, U), U)

(* Block::setExit, without what the observers recorded before. *)
LEMMA SetExitRecords ==
  ASSUME NEW q, DOMAIN q = Fields, q.multi \in BOOLEAN, NEW b,
         q.body[b] \in Seq(Instruction), SeqOwn(q.body[b]),
         q.multi \/ OnceIn(SeqAssignments(q.body[b])),
         q.exit = [c \in DOMAIN q.exit |-> q.exit[c]], b \in DOMAIN q.exit,
         NEW e
  PROVE  ExitSet(q, b, e, setExit(q, b, e))
<1> DEFINE r == setExit(q, b, e)
<1> DEFINE m == before_erase_block(q, b)
           n == [m EXCEPT !.exit[b] = e]
<1>1. r = after_add_block(n, b)
  BY DEF setExit
<1>2. /\ SameProgram(q, m)
      /\ m.uses = q.uses \ SitesOf(BlockPlaces(q, b))
      /\ m.defs = Erased(q.multi, q.defs, SeqAssignments(q.body[b]))
  BY BeforeEraseBlock
<1> HIDE DEF m
<1>3. /\ SameLists(q, n) /\ n.body = q.body /\ n.next = q.next
      /\ n.uses = m.uses /\ n.defs = m.defs /\ n.exit = [q.exit EXCEPT ![b] = e]
  <2>1. DOMAIN m = Fields /\ m.exit = q.exit
    BY <1>2 DEF SameProgram, SameLists
  <2>2. n.exit = [q.exit EXCEPT ![b] = e]
    BY <2>1 DEF Fields
  <2>3. QED
    BY <1>2, <2>1, <2>2 DEF SameProgram, SameLists, Fields
<1> HIDE DEF n
<1>4. BlockPlaces(n, b) = SeqPlaces(q.body[b]) \cup {ExitPlace(b, e)}
  <2>1. n.exit[b] = e
    BY <1>3
  <2>2. QED
    BY <1>3, <2>1 DEF BlockPlaces
<1>5. /\ SameProgram(n, r)
      /\ r.uses = n.uses \cup SitesOf(BlockPlaces(n, b))
      /\ r.defs = Added(n.multi, n.defs, SeqAssignments(n.body[b]))
  <2>1. DOMAIN n = Fields /\ n.multi \in BOOLEAN /\ n.multi = q.multi /\ n.body[b] = q.body[b]
    BY <1>3 DEF SameLists
  <2>2. QED
    BY <1>1, <2>1, AfterAddBlock
<1>6. QED
  BY <1>2, <1>3, <1>4, <1>5 DEF SameProgram, SameLists, ExitSet

(* The assignments of a block are among those of its program. *)
LEMMA BlockOnce ==
  ASSUME NEW q, Good(q), NEW b \in AllBlocks(q)
  PROVE  /\ SeqAssignments(q.body[b]) \in SUBSET Assignments(q)
         /\ BlockPlaces(q, b) \in SUBSET Places(q)
         /\ q.multi \/ OnceIn(Assignments(q))
         /\ q.multi \/ OnceIn(SeqAssignments(q.body[b]))
<1>1. SeqAssignments(q.body[b]) \subseteq Assignments(q) /\ BlockPlaces(q, b) \subseteq Places(q)
  BY DEF Assignments, Places
<1>2. q.multi \/ OnceIn(Assignments(q))
  BY OnceIff DEF Good
<1>3. QED
  BY <1>1, <1>2 DEF OnceIn

(* The records stay exact. *)
LEMMA SetExitKeeps ==
  ASSUME NEW q, Good(q), NEW b \in AllBlocks(q), NEW e \in Exit
  PROVE  Good(setExit(q, b, e))
<1> DEFINE r == setExit(q, b, e)
           s == q.body[b]
           U == SeqAssignments(s)
           X == BlockPlaces(q, b)
           Y == SeqPlaces(s) \cup {ExitPlace(b, e)}
<1>1. /\ IsProgram(q) /\ OwnAddresses(q) /\ DOMAIN q = Fields /\ q.multi \in BOOLEAN
      /\ q.next \in Nat /\ q.body \in [AllBlocks(q) -> Seq(Instruction)]
      /\ q.exit \in [AllBlocks(q) -> Exit] /\ SeqOwn(s)
  BY GoodFacts
<1>2. s \in Seq(Instruction) /\ q.body = [q.body EXCEPT ![b] = s]
      /\ q.exit = [c \in DOMAIN q.exit |-> q.exit[c]] /\ b \in DOMAIN q.exit
  BY <1>1
<1>3. /\ U \in SUBSET Assignments(q) /\ X \in SUBSET Places(q)
      /\ q.multi \/ OnceIn(Assignments(q))
      /\ q.multi \/ OnceIn(U)
  BY BlockOnce
<1>4. /\ SameLists(q, r) /\ r.body = q.body /\ r.next = q.next
      /\ r.exit = [q.exit EXCEPT ![b] = e]
      /\ r.uses = (q.uses \ SitesOf(X)) \cup SitesOf(Y)
      /\ r.defs = Added(q.multi, Erased(q.multi, q.defs, U), U)
  <2>1. ExitSet(q, b, e, r)
    BY <1>1, <1>2, <1>3, SetExitRecords
  <2>2. QED
    BY <2>1 DEF ExitSet
<1> HIDE DEF r
<1>5. BlockChanged(q, b, s, e, r)
  <2> HIDE DEF s
  <2>1. /\ r.next \in Nat /\ q.next <= r.next /\ r.body = [q.body EXCEPT ![b] = s]
        /\ \A n \in Ids(s) : n \in Ids(q.body[b]) \/ (q.next <= n /\ n < r.next)
    BY <1>1, <1>2, <1>4 DEF s
  <2>2. s \in Seq(Instruction) /\ SeqOwn(s) /\ SameLists(q, r) /\ r.exit = [q.exit EXCEPT ![b] = e]
    BY <1>1, <1>2, <1>4
  <2>3. QED
    BY <1>1, <2>1, <2>2, OneBlock
<1>6. /\ IsProgram(r) /\ OwnAddresses(r) /\ r.multi = q.multi
      /\ Places(r) = (Places(q) \ X) \cup Y
      /\ Assignments(r) = (Assignments(q) \ U) \cup U
  BY <1>4, <1>5 DEF BlockChanged, SameLists
<1>7. r.multi \/ OnceIn(Assignments(r))
  <2>1. Assignments(r) = Assignments(q)
    BY <1>3, <1>6
  <2>2. QED
    BY <1>3, <1>6, <2>1
<1> HIDE DEF U, X, Y, s
<1>8. Good(r)
  BY <1>3, <1>4, <1>6, <1>7, RecordsFollow
<1>9. QED
  BY <1>8 DEF r
------------------------------------------------------------------------------
(* Calls that change which blocks there are.                                 *)

(* r is a program with one block more than q, in function f. *)
Grown(q, f, b, r) ==
  /\ DOMAIN r = Fields /\ r.multi = q.multi /\ r.funcs = q.funcs
  /\ r.next \in Nat /\ q.next <= r.next
  /\ r.blocks = [q.blocks EXCEPT ![f] = Append(q.blocks[f], b)]
  /\ r.body \in [AllBlocks(q) \cup {b} -> Seq(Instruction)]
  /\ r.exit \in [AllBlocks(q) \cup {b} -> Exit]

(* A block of no function joins one. *)
LEMMA GrownIsProgram ==
  ASSUME NEW q, IsProgram(q), NEW f \in ToSet(q.funcs), NEW b \in Labels \ AllBlocks(q),
         NEW r, Grown(q, f, b, r)
  PROVE  IsProgram(r) /\ AllBlocks(r) = AllBlocks(q) \cup {b}
<1>0. \A i, j \in ToSet(q.funcs) : i # j => Blocks(q, i) \cap Blocks(q, j) = {}
  BY DEF IsProgram
<1>1. q.funcs \in Seq(Funcs) /\ q.blocks \in [Funcs -> Seq(Labels)] /\ q.next \in Nat \ {0}
      /\ \A g \in Funcs : IsInjective(q.blocks[g])
  BY DEF IsProgram
<1>2. f \in Funcs /\ ToSet(q.funcs) \subseteq Funcs
  BY <1>1, SetOf
<1> DEFINE s == q.blocks[f]
           t == Append(s, b)
<1>3. s \in Seq(Labels) /\ IsInjective(s)
  BY <1>1, <1>2
<1>4. b \notin ToSet(s)
  BY DEF AllBlocks, Blocks
<1> HIDE DEF s
<1>5. /\ t \in Seq(Labels) /\ Len(t) = Len(s) + 1 /\ DOMAIN t = 1 .. Len(s) + 1
      /\ DOMAIN s = 1 .. Len(s) /\ Len(s) \in Nat
      /\ \A k \in 1 .. Len(s) : t[k] = s[k]
      /\ t[Len(s) + 1] = b
  BY <1>3
<1> HIDE DEF t
<1>6. ToSet(t) = ToSet(s) \cup {b}
  BY <1>5 DEF ToSet
<1>7. IsInjective(t)
  <2>1. ASSUME NEW j \in DOMAIN t, NEW k \in DOMAIN t, t[j] = t[k] PROVE j = k
    <3>1. \A m \in 1 .. Len(s) : s[m] # b
      BY <1>4, <1>5 DEF ToSet
    <3>2. \A m \in DOMAIN t : m \in 1 .. Len(s) \/ m = Len(s) + 1
      BY <1>5
    <3>3. QED
      BY <1>3, <1>5, <2>1, <3>1, <3>2 DEF IsInjective
  <2>2. QED
    BY <2>1 DEF IsInjective
<1>8. /\ r.blocks \in [Funcs -> Seq(Labels)] /\ r.blocks[f] = t
      /\ \A g \in Funcs \ {f} : r.blocks[g] = q.blocks[g]
  BY <1>1, <1>2, <1>5 DEF Grown, s, t
<1>9. \A g \in ToSet(q.funcs) : Blocks(r, g) = IF g = f THEN Blocks(q, f) \cup {b} ELSE Blocks(q, g)
  BY <1>2, <1>6, <1>8 DEF Blocks, s
<1>10. r.funcs = q.funcs
  BY DEF Grown
<1>11. AllBlocks(r) = AllBlocks(q) \cup {b}
  BY <1>9, <1>10 DEF AllBlocks
<1>12. ASSUME NEW g \in ToSet(r.funcs), NEW h \in ToSet(r.funcs), g # h
       PROVE  Blocks(r, g) \cap Blocks(r, h) = {}
  <2>1. b \notin Blocks(q, g) /\ b \notin Blocks(q, h)
    <3>1. b \notin AllBlocks(q) /\ g \in ToSet(q.funcs) /\ h \in ToSet(q.funcs)
      BY <1>10
    <3>2. QED
      BY <3>1 DEF AllBlocks
  <2>2. Blocks(q, g) \cap Blocks(q, h) = {}
    <3>1. g \in ToSet(q.funcs) /\ h \in ToSet(q.funcs) /\ g # h
      BY <1>10, <1>12
    <3>2. QED
      BY <1>0, <3>1
  <2>3. \A i \in ToSet(r.funcs) : Blocks(r, i) \subseteq Blocks(q, i) \cup (IF i = f THEN {b} ELSE {})
    BY <1>9, <1>10
  <2>4. /\ Blocks(r, g) \subseteq Blocks(q, g) \cup (IF g = f THEN {b} ELSE {})
        /\ Blocks(r, h) \subseteq Blocks(q, h) \cup (IF h = f THEN {b} ELSE {})
    BY <2>3
  <2>5. QED
    BY <1>12, <2>1, <2>2, <2>4
<1>13. \A g \in Funcs : IsInjective(r.blocks[g])
  BY <1>1, <1>7, <1>8
<1>14. r.next \in Nat \ {0} /\ r.multi \in BOOLEAN /\ IsInjective(r.funcs) /\ r.funcs \in Seq(Funcs)
  BY <1>1 DEF Grown, IsProgram
<1>15. QED
  BY <1>8, <1>11, <1>12, <1>13, <1>14 DEF IsProgram, Grown

(* Instructions that get addresses one after another. *)
LEMMA PlacedSeq ==
  ASSUME NEW insts \in Seq(Instruction), NEW n \in Nat,
         NEW s, s = [k \in 1 .. Len(insts) |-> [insts[k] EXCEPT !.id = n + k - 1]]
  PROVE  /\ s \in Seq(Instruction) /\ SeqOwn(s) /\ DOMAIN s = DOMAIN insts
         /\ \A k \in DOMAIN insts : s[k].res = insts[k].res
         /\ \A x \in Ids(s) : x \in Nat /\ n <= x /\ x < n + Len(insts)
<1>1. DOMAIN insts = 1 .. Len(insts) /\ Len(insts) \in Nat /\ DOMAIN s = 1 .. Len(insts)
  OBVIOUS
<1>2. ASSUME NEW k \in 1 .. Len(insts)
      PROVE  /\ s[k] \in Instruction /\ s[k].id = n + k - 1 /\ s[k].res = insts[k].res
             /\ n + k - 1 \in Nat /\ k \in Int
  <2> DEFINE i == insts[k]
             m == n + k - 1
  <2>1. i \in Instruction /\ m \in Nat /\ k \in Int
    BY <1>1
  <2>2. s[k] = [i EXCEPT !.id = m]
    OBVIOUS
  <2> HIDE DEF i, m
  <2>3. s[k] \in Instruction /\ s[k].id = m /\ s[k].res = i.res
    BY <2>1, <2>2, Addressed
  <2>4. QED
    BY <2>1, <2>3 DEF i, m
<1>3. s \in Seq(Instruction)
  BY <1>1, <1>2
<1>4. SeqOwn(s)
  <2>1. ASSUME NEW j \in 1 .. Len(insts), NEW k \in 1 .. Len(insts), s[j].id = s[k].id PROVE j = k
    <3>1. n + j - 1 = n + k - 1 /\ j \in Int /\ k \in Int
      BY <1>2, <2>1
    <3>2. QED
      BY <3>1
  <2>2. QED
    BY <1>1, <2>1 DEF SeqOwn
<1>5. ASSUME NEW x \in Ids(s) PROVE x \in Nat /\ n <= x /\ x < n + Len(insts)
  <2>1. PICK k \in 1 .. Len(insts) : x = s[k].id
    BY <1>1 DEF Ids, ToSet
  <2>2. x = n + k - 1 /\ x \in Nat
    BY <1>2, <2>1
  <2>3. QED
    BY <1>1, <2>1, <2>2
<1>6. QED
  BY <1>1, <1>2, <1>3, <1>4, <1>5

(* Func::addBlock. *)
LEMMA AddBlockKeeps ==
  ASSUME NEW q, Good(q), NEW f \in ToSet(q.funcs), NEW b \in Labels \ AllBlocks(q),
         NEW insts \in Seq(Instruction), NEW e \in Exit,
         \A k \in DOMAIN insts : q.multi \/ insts[k].res = NoVar
                                 \/ \A j \in Listed(q) \ {} : j.res # insts[k].res,
         q.multi \/ \A j, k \in DOMAIN insts :
                      insts[j].res = insts[k].res /\ insts[j].res # NoVar => j = k
  PROVE  Good(addBlock(q, f, b, insts, e))
<1> DEFINE s == [k \in 1 .. Len(insts) |-> [insts[k] EXCEPT !.id = q.next + k - 1]]
           n == [q EXCEPT !.blocks[f] = Append(@, b),
                          !.body = [c \in DOMAIN @ \cup {b} |-> IF c = b THEN s ELSE @[c]],
                          !.exit = [c \in DOMAIN @ \cup {b} |-> IF c = b THEN e ELSE @[c]],
                          !.next = @ + Len(insts)]
           r == after_add_block(n, b)
           W == SeqAssignments(s)
           Y == SeqPlaces(s) \cup {ExitPlace(b, e)}
<1>1. addBlock(q, f, b, insts, e) = r
  BY DEF addBlock
<1>2. /\ IsProgram(q) /\ OwnAddresses(q) /\ DOMAIN q = Fields /\ q.multi \in BOOLEAN
      /\ q.next \in Nat /\ q.next > 0
      /\ q.body \in [AllBlocks(q) -> Seq(Instruction)] /\ q.exit \in [AllBlocks(q) -> Exit]
      /\ \A d \in q.defs : d[1] # NoVar
      /\ \A c \in AllBlocks(q) : \A x \in Ids(q.body[c]) : x \in Nat /\ 0 < x /\ x < q.next
  BY GoodFacts
<1>3. Len(insts) \in Nat
  OBVIOUS
<1>4. /\ s \in Seq(Instruction) /\ SeqOwn(s) /\ DOMAIN s = DOMAIN insts
      /\ \A k \in DOMAIN insts : s[k].res = insts[k].res
      /\ \A x \in Ids(s) : x \in Nat /\ q.next <= x /\ x < q.next + Len(insts)
  BY <1>2, PlacedSeq
<1> HIDE DEF s
<1>5. /\ DOMAIN n = Fields /\ n.multi = q.multi /\ n.funcs = q.funcs
      /\ n.next = q.next + Len(insts) /\ n.uses = q.uses /\ n.defs = q.defs
      /\ n.blocks = [q.blocks EXCEPT ![f] = Append(q.blocks[f], b)]
      /\ n.body = [c \in AllBlocks(q) \cup {b} |-> IF c = b THEN s ELSE q.body[c]]
      /\ n.exit = [c \in AllBlocks(q) \cup {b} |-> IF c = b THEN e ELSE q.exit[c]]
  BY <1>2 DEF Fields
<1> HIDE DEF n
<1>6. /\ n.body[b] = s /\ n.exit[b] = e
      /\ \A c \in AllBlocks(q) : n.body[c] = q.body[c] /\ n.exit[c] = q.exit[c]
  BY <1>5
<1>7. \A j, k \in DOMAIN s : ~q.multi /\ s[j].res = s[k].res /\ s[j].res # NoVar => j = k
  BY <1>4
<1>8. q.multi \/ OnceIn(W)
  <2>1. ASSUME NEW x \in W, NEW y \in W, x[1] = y[1], x[1] # NoVar, ~q.multi PROVE x = y
    <3>1. PICK j \in DOMAIN s, k \in DOMAIN s : x = AssignmentOf(s[j]) /\ y = AssignmentOf(s[k])
      BY DEF SeqAssignments, ToSet
    <3>2. s[j].res = s[k].res /\ s[j].res # NoVar
      BY <2>1, <3>1 DEF AssignmentOf
    <3>3. j = k
      BY <1>7, <2>1, <3>2
    <3>4. QED
      BY <3>1, <3>3
  <2>2. QED
    BY <2>1 DEF OnceIn
<1>9. /\ SameProgram(n, r)
      /\ r.uses = n.uses \cup SitesOf(BlockPlaces(n, b))
      /\ r.defs = Added(n.multi, n.defs, SeqAssignments(n.body[b]))
  <2>1. /\ DOMAIN n = Fields /\ n.multi \in BOOLEAN
        /\ n.body[b] \in Seq(Instruction) /\ SeqOwn(n.body[b])
        /\ n.multi \/ OnceIn(SeqAssignments(n.body[b]))
    BY <1>2, <1>4, <1>5, <1>6, <1>8
  <2>2. QED
    BY <2>1, AfterAddBlock
<1> HIDE DEF r
<1>10. /\ DOMAIN r = Fields /\ r.multi = q.multi /\ r.funcs = q.funcs
       /\ r.next = q.next + Len(insts) /\ r.blocks = n.blocks /\ r.body = n.body /\ r.exit = n.exit
       /\ r.uses = q.uses \cup SitesOf(Y)
       /\ r.defs = Added(q.multi, q.defs, W)
  BY <1>5, <1>6, <1>9 DEF SameProgram, SameLists, BlockPlaces
<1>11. Grown(q, f, b, r)
  <2>1. r.body \in [AllBlocks(q) \cup {b} -> Seq(Instruction)]
    BY <1>2, <1>4, <1>5, <1>10
  <2>2. r.exit \in [AllBlocks(q) \cup {b} -> Exit]
    BY <1>2, <1>5, <1>10
  <2>3. QED
    BY <1>2, <1>3, <1>5, <1>10, <2>1, <2>2 DEF Grown
<1>12. IsProgram(r) /\ AllBlocks(r) = AllBlocks(q) \cup {b}
  BY <1>2, <1>11, GrownIsProgram
<1>13. OwnAddresses(r)
  <2>1. OwnParts(q)
    BY <1>2, OwnIff
  <2>2. ASSUME NEW c \in AllBlocks(r)
        PROVE  SeqOwn(r.body[c]) /\ \A x \in Ids(r.body[c]) : 0 < x /\ x < r.next
    <3>1. CASE c = b
      BY <1>2, <1>3, <1>4, <1>6, <1>10, <3>1
    <3>2. CASE c # b
      <4>1. c \in AllBlocks(q) /\ r.body[c] = q.body[c]
        BY <1>6, <1>10, <1>12, <3>2
      <4>2. \A x \in Ids(r.body[c]) : x \in Nat /\ 0 < x /\ x < q.next
        BY <1>2, <4>1
      <4>3. QED
        BY <1>2, <1>3, <1>10, <2>1, <4>1, <4>2 DEF OwnParts
    <3>3. QED
      BY <3>1, <3>2
  <2>3. ASSUME NEW c \in AllBlocks(q) PROVE Ids(s) \cap Ids(q.body[c]) = {}
    <3>1. ASSUME NEW x \in Ids(s), x \in Ids(q.body[c]) PROVE FALSE
      <4>1. x \in Nat /\ q.next <= x /\ x < q.next
        BY <1>2, <1>4, <3>1
      <4>2. QED
        BY <1>2, <4>1
    <3>2. QED
      BY <3>1
  <2>4. ASSUME NEW c \in AllBlocks(r), NEW d \in AllBlocks(r), c # d
        PROVE  Ids(r.body[c]) \cap Ids(r.body[d]) = {}
    <3>1. CASE c = b
      <4>1. d \in AllBlocks(q)
        BY <1>12, <2>4, <3>1
      <4>2. QED
        BY <1>6, <1>10, <2>3, <3>1, <4>1
    <3>2. CASE d = b
      <4>1. c \in AllBlocks(q)
        BY <1>12, <2>4, <3>2
      <4>2. QED
        BY <1>6, <1>10, <2>3, <3>2, <4>1
    <3>3. CASE c # b /\ d # b
      <4>1. c \in AllBlocks(q) /\ d \in AllBlocks(q)
        BY <1>12, <3>3
      <4>2. QED
        BY <1>6, <1>10, <2>1, <2>4, <4>1 DEF OwnParts
    <3>4. QED
      BY <3>1, <3>2, <3>3
  <2>5. OwnParts(r)
    BY <2>2, <2>4 DEF OwnParts
  <2>6. QED
    BY <1>12, <2>5, OwnIff
<1>14. /\ BlockPlaces(r, b) = Y /\ SeqAssignments(r.body[b]) = W
       /\ \A c \in AllBlocks(q) : /\ BlockPlaces(r, c) = BlockPlaces(q, c)
                                  /\ SeqAssignments(r.body[c]) = SeqAssignments(q.body[c])
  BY <1>6, <1>10 DEF BlockPlaces
<1> DEFINE X == {}
           U == {}
<1>15. Places(r) = (Places(q) \ X) \cup Y
  BY <1>12, <1>14 DEF Places
<1>16. Assignments(r) = (Assignments(q) \ U) \cup W
  BY <1>12, <1>14 DEF Assignments
<1>17. r.multi \/ OnceIn(Assignments(r))
  <2>1. SUFFICES ASSUME ~q.multi PROVE OnceIn(Assignments(r))
    BY <1>10
  <2>2. OnceIn(Assignments(q))
    BY <2>1, OnceIff DEF Good
  <2>3. ASSUME NEW d \in Assignments(q), NEW a \in W, d[1] = a[1], d[1] # NoVar PROVE FALSE
    <3>1. PICK j \in Listed(q) : d = AssignmentOf(j)
      BY <1>2, Distinct
    <3>2. PICK k \in DOMAIN insts : a = AssignmentOf(s[k])
      BY <1>4 DEF SeqAssignments, ToSet
    <3>3. j.res = insts[k].res /\ insts[k].res # NoVar
      BY <1>4, <2>3, <3>1, <3>2 DEF AssignmentOf
    <3>4. QED
      BY <2>1, <3>3
  <2>4. QED
    BY <1>8, <1>16, <2>1, <2>2, <2>3 DEF OnceIn
<1>18. /\ r.uses = (q.uses \ SitesOf(X)) \cup SitesOf(Y)
       /\ r.defs = Added(q.multi, Erased(q.multi, q.defs, U), W)
  <2>1. SitesOf({}) = {} /\ Named({}) = {} /\ Vars({}) = {}
    BY DEF SitesOf, Named, Vars
  <2>2. Erased(q.multi, q.defs, {}) = q.defs
    BY <2>1 DEF Erased, Left
  <2>3. QED
    BY <1>10, <2>1, <2>2
<1>19. X \in SUBSET Places(q) /\ U \in SUBSET Assignments(q) /\ r.multi = q.multi
  BY <1>10
<1> HIDE DEF X, U, Y, W
<1>20. Good(r)
  BY <1>12, <1>13, <1>15, <1>16, <1>17, <1>18, <1>19, RecordsFollow
<1>21. QED
  BY <1>1, <1>20

(* A list without one of its members, which is in it once. *)
LEMMA WithoutSeq ==
  ASSUME NEW S, NEW s \in Seq(S), IsInjective(s), NEW e \in ToSet(s), NEW r, r = Without(s, e)
  PROVE  r \in Seq(S) /\ IsInjective(r) /\ ToSet(r) = ToSet(s) \ {e}
<1> DEFINE k == CHOOSE j \in DOMAIN s : s[j] = e
<1>1. k \in DOMAIN s /\ s[k] = e
  BY DEF ToSet
<1>2. r = RemoveAt(s, k)
  BY DEF Without
<1> HIDE DEF k
<1>3. Shorter(S, s, k, r)
  BY <1>1, <1>2, RemoveAtSet
<1>4. /\ r \in Seq(S) /\ Len(r) = Len(s) - 1 /\ Len(r) \in Nat /\ Len(s) \in Nat
      /\ \A j \in 1 .. Len(r) : r[j] = IF j < k THEN s[j] ELSE s[j + 1]
      /\ DOMAIN s = 1 .. Len(s) /\ DOMAIN r = 1 .. Len(r) /\ k \in 1 .. Len(s)
  BY <1>1, <1>3 DEF Shorter
<1>5. \A j, m \in 1 .. Len(s) : s[j] = s[m] => j = m
  BY <1>4 DEF IsInjective
<1>6. ASSUME NEW j \in 1 .. Len(r), NEW m \in 1 .. Len(r), r[j] = r[m] PROVE j = m
  <2> DEFINE At(n) == IF n < k THEN n ELSE n + 1
  <2>1. r[j] = s[At(j)] /\ r[m] = s[At(m)] /\ At(j) \in 1 .. Len(s) /\ At(m) \in 1 .. Len(s)
    BY <1>4
  <2>2. At(j) = At(m)
    <3> HIDE DEF At
    <3> QED BY <1>5, <1>6, <2>1
  <2>3. QED
    BY <1>4, <2>2
<1>7. ASSUME NEW d \in ToSet(r) PROVE d \in ToSet(s) /\ d # e
  <2>1. PICK j \in 1 .. Len(r) : d = r[j]
    BY <1>4 DEF ToSet
  <2>2. PICK m \in 1 .. Len(s) : d = s[m] /\ m # k
    BY <1>4, <2>1
  <2>3. QED
    BY <1>1, <1>4, <1>5, <2>2 DEF ToSet
<1>8. ASSUME NEW d \in ToSet(s), d # e PROVE d \in ToSet(r)
  <2>1. PICK m \in 1 .. Len(s) : d = s[m] /\ m # k
    BY <1>1, <1>4, <1>8 DEF ToSet
  <2>2. PICK j \in 1 .. Len(r) : r[j] = s[m]
    <3>1. CASE m < k
      <4>1. m \in 1 .. Len(r) /\ r[m] = s[m]
        BY <1>4, <3>1
      <4>2. QED
        BY <4>1
    <3>2. CASE ~(m < k)
      <4>1. m - 1 \in 1 .. Len(r) /\ ~(m - 1 < k) /\ (m - 1) + 1 = m
        BY <1>4, <2>1, <3>2
      <4>2. r[m - 1] = s[m]
        BY <1>4, <4>1
      <4>3. QED
        BY <4>1, <4>2
    <3>3. QED
      BY <3>1, <3>2
  <2>3. QED
    BY <1>4, <2>1, <2>2 DEF ToSet
<1>9. IsInjective(r)
  BY <1>4, <1>6 DEF IsInjective
<1>10. QED
  BY <1>4, <1>7, <1>8, <1>9

(* r is q without the blocks in gone, of which the observers heard. *)
Shrunk(q, gone, r) ==
  /\ r.multi = q.multi /\ r.next = q.next
  /\ AllBlocks(r) = AllBlocks(q) \ gone
  /\ r.body = [b \in AllBlocks(q) \ gone |-> q.body[b]]
  /\ r.exit = [b \in AllBlocks(q) \ gone |-> q.exit[b]]
  /\ r.uses = q.uses \ UNION {SitesOf(BlockPlaces(q, b)) : b \in gone}
  /\ r.defs = Erased(q.multi, q.defs, UNION {SeqAssignments(q.body[b]) : b \in gone})

(* The records stay exact. *)
LEMMA ShrunkKeeps ==
  ASSUME NEW q, Good(q), NEW gone \in SUBSET AllBlocks(q), NEW r, IsProgram(r), Shrunk(q, gone, r)
  PROVE  Good(r)
<1> DEFINE X == UNION {BlockPlaces(q, b) : b \in gone}
           U == UNION {SeqAssignments(q.body[b]) : b \in gone}
<1>1. IsProgram(q) /\ OwnAddresses(q)
  BY GoodFacts
<1>2. /\ r.multi = q.multi /\ r.next = q.next /\ AllBlocks(r) = AllBlocks(q) \ gone
      /\ \A b \in AllBlocks(r) : r.body[b] = q.body[b] /\ r.exit[b] = q.exit[b]
      /\ \A b \in AllBlocks(r) : b \in AllBlocks(q)
  BY DEF Shrunk
<1>3. OwnAddresses(r)
  <2>1. OwnParts(q)
    BY <1>1, OwnIff
  <2>2. OwnParts(r)
    BY <1>2, <2>1 DEF OwnParts
  <2>3. QED
    BY <2>2, OwnIff
<1>4. \A b, c \in AllBlocks(q) : b # c => /\ BlockPlaces(q, b) \cap BlockPlaces(q, c) = {}
                                         /\ SeqAssignments(q.body[b]) \cap SeqAssignments(q.body[c]) = {}
  BY <1>1, BlocksApart
<1>5. \A b \in AllBlocks(r) : BlockPlaces(r, b) = BlockPlaces(q, b)
  BY <1>2 DEF BlockPlaces
<1> DEFINE Y == {}
           W == {}
<1>6. Places(r) = (Places(q) \ X) \cup Y
  <2>1. ASSUME NEW x \in Places(r) PROVE x \in Places(q) /\ x \notin X
    <3>1. PICK b \in AllBlocks(r) : x \in BlockPlaces(q, b)
      BY <1>5 DEF Places
    <3>2. b \in AllBlocks(q) /\ b \notin gone
      BY <1>2
    <3>3. QED
      BY <1>4, <3>1, <3>2 DEF Places
  <2>2. ASSUME NEW x \in Places(q), x \notin X PROVE x \in Places(r)
    <3>1. PICK b \in AllBlocks(q) : x \in BlockPlaces(q, b)
      BY DEF Places
    <3>2. b \in AllBlocks(r)
      BY <1>2, <2>2, <3>1
    <3>3. QED
      BY <1>5, <3>1, <3>2 DEF Places
  <2>3. QED
    BY <2>1, <2>2
<1>7. Assignments(r) = (Assignments(q) \ U) \cup W
  <2>1. ASSUME NEW x \in Assignments(r) PROVE x \in Assignments(q) /\ x \notin U
    <3>1. PICK b \in AllBlocks(r) : x \in SeqAssignments(q.body[b])
      BY <1>2 DEF Assignments
    <3>2. b \in AllBlocks(q) /\ b \notin gone
      BY <1>2
    <3>3. QED
      BY <1>4, <3>1, <3>2 DEF Assignments
  <2>2. ASSUME NEW x \in Assignments(q), x \notin U PROVE x \in Assignments(r)
    <3>1. PICK b \in AllBlocks(q) : x \in SeqAssignments(q.body[b])
      BY DEF Assignments
    <3>2. b \in AllBlocks(r)
      BY <1>2, <2>2, <3>1
    <3>3. QED
      BY <1>2, <3>1, <3>2 DEF Assignments
  <2>3. QED
    BY <2>1, <2>2
<1>8. r.multi \/ OnceIn(Assignments(r))
  <2>1. q.multi \/ OnceIn(Assignments(q))
    BY OnceIff DEF Good
  <2>2. QED
    BY <1>2, <1>7, <2>1 DEF OnceIn
<1>9. r.uses = (q.uses \ SitesOf(X)) \cup SitesOf(Y)
  <2>1. SitesOf(X) = UNION {SitesOf(BlockPlaces(q, b)) : b \in gone}
    BY DEF SitesOf
  <2>2. SitesOf({}) = {}
    BY DEF SitesOf
  <2>3. QED
    BY <2>1, <2>2 DEF Shrunk
<1>10. r.defs = Added(q.multi, Erased(q.multi, q.defs, U), W)
  <2>1. r.defs = Erased(q.multi, q.defs, U)
    BY DEF Shrunk
  <2>2. Named({}) = {} /\ Vars({}) = {}
    BY DEF Named, Vars
  <2>3. QED
    BY <2>1, <2>2 DEF Added, Left
<1>11. X \in SUBSET Places(q) /\ U \in SUBSET Assignments(q)
  BY DEF Places, Assignments
<1> HIDE DEF X, U, Y, W
<1>12. QED
  <2>1. r.multi = q.multi /\ IsProgram(r)
    BY <1>2
  <2>2. QED
    BY <1>3, <1>6, <1>7, <1>8, <1>9, <1>10, <1>11, <2>1, RecordsFollow

(* Func::removeBlock. *)
LEMMA RemoveBlockKeeps ==
  ASSUME NEW q, Good(q), NEW f \in ToSet(q.funcs), NEW b \in Blocks(q, f)
  PROVE  Good(removeBlock(q, f, b))
<1> DEFINE m == before_erase_block(q, b)
           r == [m EXCEPT !.blocks[f] = Without(@, b),
                          !.body = Restrict2(@, DOMAIN m.body \ {b}),
                          !.exit = Restrict2(@, DOMAIN m.body \ {b})]
           t == Without(q.blocks[f], b)
<1>1. removeBlock(q, f, b) = r
  BY DEF removeBlock
<1>2. /\ IsProgram(q) /\ DOMAIN q = Fields /\ q.multi \in BOOLEAN
      /\ q.body \in [AllBlocks(q) -> Seq(Instruction)] /\ q.exit \in [AllBlocks(q) -> Exit]
      /\ \A c \in AllBlocks(q) : SeqOwn(q.body[c])
  BY GoodFacts
<1>3. b \in AllBlocks(q)
  BY DEF AllBlocks
<1>4. q.multi \/ OnceIn(SeqAssignments(q.body[b]))
  BY <1>3, BlockOnce
<1>5. /\ SameProgram(q, m)
      /\ m.uses = q.uses \ SitesOf(BlockPlaces(q, b))
      /\ m.defs = Erased(q.multi, q.defs, SeqAssignments(q.body[b]))
  <2>1. q.body[b] \in Seq(Instruction) /\ SeqOwn(q.body[b])
    BY <1>2, <1>3
  <2>2. QED
    BY <1>2, <1>4, <2>1, BeforeEraseBlock
<1> HIDE DEF m
<1>6. DOMAIN m = Fields /\ m.body = q.body /\ m.exit = q.exit /\ m.blocks = q.blocks
  BY <1>5 DEF SameProgram, SameLists
<1>7. /\ DOMAIN r = Fields /\ r.multi = q.multi /\ r.funcs = q.funcs /\ r.next = q.next
      /\ r.uses = m.uses /\ r.defs = m.defs
      /\ r.blocks = [q.blocks EXCEPT ![f] = t]
      /\ r.body = [c \in AllBlocks(q) \ {b} |-> q.body[c]]
      /\ r.exit = [c \in AllBlocks(q) \ {b} |-> q.exit[c]]
  <2>1. /\ DOMAIN r = Fields /\ r.multi = m.multi /\ r.funcs = m.funcs /\ r.next = m.next
        /\ r.uses = m.uses /\ r.defs = m.defs
    BY <1>6 DEF Fields
  <2>2. r.blocks = [m.blocks EXCEPT ![f] = Without(m.blocks[f], b)]
    BY <1>6 DEF Fields
  <2>3. r.body = [c \in DOMAIN m.body \ {b} |-> m.body[c]]
        /\ r.exit = [c \in DOMAIN m.body \ {b} |-> m.exit[c]]
    BY <1>6 DEF Restrict2, Fields
  <2>4. DOMAIN m.body = AllBlocks(q)
    BY <1>2, <1>6
  <2> HIDE DEF r
  <2>5. QED
    BY <1>5, <1>6, <2>1, <2>2, <2>3, <2>4 DEF SameProgram, SameLists
<1> HIDE DEF r
<1>8. /\ q.funcs \in Seq(Funcs) /\ q.blocks \in [Funcs -> Seq(Labels)]
      /\ \A g \in Funcs : IsInjective(q.blocks[g])
  BY <1>2 DEF IsProgram
<1>9. \A g, h \in ToSet(q.funcs) : g # h => Blocks(q, g) \cap Blocks(q, h) = {}
  BY <1>2 DEF IsProgram
<1>10. f \in Funcs /\ ToSet(q.funcs) \subseteq Funcs
  BY <1>8, SetOf
<1>11. t \in Seq(Labels) /\ IsInjective(t) /\ ToSet(t) = ToSet(q.blocks[f]) \ {b}
  <2> DEFINE s == q.blocks[f]
  <2>1. s \in Seq(Labels) /\ IsInjective(s) /\ b \in ToSet(s)
    BY <1>8, <1>10 DEF Blocks
  <2>2. t = Without(s, b)
    OBVIOUS
  <2> HIDE DEF s, t
  <2>3. t \in Seq(Labels) /\ IsInjective(t) /\ ToSet(t) = ToSet(s) \ {b}
    BY <2>1, <2>2, WithoutSeq
  <2>4. QED
    BY <2>3 DEF s
<1> HIDE DEF t
<1>12. /\ r.blocks \in [Funcs -> Seq(Labels)] /\ r.blocks[f] = t
       /\ \A g \in Funcs \ {f} : r.blocks[g] = q.blocks[g]
  BY <1>7, <1>8, <1>10, <1>11
<1>13. \A g \in ToSet(q.funcs) : Blocks(r, g) = IF g = f THEN Blocks(q, f) \ {b} ELSE Blocks(q, g)
  BY <1>10, <1>11, <1>12 DEF Blocks
<1>14. \A g \in ToSet(q.funcs) : b \in Blocks(q, g) => g = f
  BY <1>9
<1>15. AllBlocks(r) = AllBlocks(q) \ {b}
  BY <1>7, <1>13, <1>14 DEF AllBlocks
<1>16. \A g \in Funcs : IsInjective(r.blocks[g])
  BY <1>8, <1>11, <1>12
<1>17. \A g, h \in ToSet(r.funcs) : g # h => Blocks(r, g) \cap Blocks(r, h) = {}
  <2>1. \A g \in ToSet(q.funcs) : Blocks(r, g) \subseteq Blocks(q, g)
    BY <1>13
  <2>2. \A g, h \in ToSet(q.funcs) : g # h => Blocks(r, g) \cap Blocks(r, h) = {}
    BY <1>9, <2>1
  <2>3. QED
    BY <1>7, <2>2
<1>18. r.body \in [AllBlocks(r) -> Seq(Instruction)] /\ r.exit \in [AllBlocks(r) -> Exit]
  BY <1>2, <1>7, <1>15
<1>19. r.next \in Nat \ {0} /\ r.multi \in BOOLEAN /\ IsInjective(r.funcs) /\ r.funcs \in Seq(Funcs)
  BY <1>2, <1>7 DEF IsProgram
<1>20. IsProgram(r)
  BY <1>7, <1>12, <1>16, <1>17, <1>18, <1>19 DEF IsProgram
<1> DEFINE gone == {b}
<1>21. Shrunk(q, gone, r)
  <2>1. UNION {SitesOf(BlockPlaces(q, c)) : c \in gone} = SitesOf(BlockPlaces(q, b))
        /\ UNION {SeqAssignments(q.body[c]) : c \in gone} = SeqAssignments(q.body[b])
    OBVIOUS
  <2>2. QED
    BY <1>5, <1>7, <1>15, <2>1 DEF Shrunk
<1>22. gone \in SUBSET AllBlocks(q)
  BY <1>3
<1> HIDE DEF gone
<1>23. QED
  BY <1>1, <1>20, <1>21, <1>22, ShrunkKeeps

(* Program::removeFunc: all blocks of a function go. *)
LEMMA RemoveFuncKeeps ==
  ASSUME NEW q, Good(q), NEW f \in ToSet(q.funcs)
  PROVE  Good(removeFunc(q, f))
<1> DEFINE r == removeFunc(q, f)
           t == Without(q.funcs, f)
           gone == Blocks(q, f)
<1>1. /\ IsProgram(q) /\ DOMAIN q = Fields /\ q.multi \in BOOLEAN
      /\ q.body \in [AllBlocks(q) -> Seq(Instruction)] /\ q.exit \in [AllBlocks(q) -> Exit]
      /\ \A c \in AllBlocks(q) : SeqOwn(q.body[c])
  BY GoodFacts
<1>2. gone \in SUBSET AllBlocks(q)
  BY DEF AllBlocks
<1>3. /\ DOMAIN r = Fields /\ r.multi = q.multi /\ r.next = q.next /\ r.blocks = q.blocks
      /\ r.funcs = t
      /\ r.body = [c \in AllBlocks(q) \ gone |-> q.body[c]]
      /\ r.exit = [c \in AllBlocks(q) \ gone |-> q.exit[c]]
      /\ r.uses = q.uses \ UNION {UsesIn(q, b) : b \in gone}
      /\ r.defs = IF q.multi THEN q.defs \ UNION {DefsIn(q, q.body[b]) : b \in gone}
                  ELSE {d \in q.defs : d[1] \notin UNION {defined(q.body[b]) : b \in gone}}
  <2>1. DOMAIN q.body = AllBlocks(q)
    BY <1>1
  <2>2. QED
    BY <1>1, <2>1 DEF removeFunc, Restrict2, Fields
<1> HIDE DEF r
<1>4. q.funcs \in Seq(Funcs) /\ IsInjective(q.funcs) /\ q.blocks \in [Funcs -> Seq(Labels)]
      /\ q.next \in Nat \ {0} /\ \A g \in Funcs : IsInjective(q.blocks[g])
  BY <1>1 DEF IsProgram
<1>5. \A g, h \in ToSet(q.funcs) : g # h => Blocks(q, g) \cap Blocks(q, h) = {}
  BY <1>1 DEF IsProgram
<1>6. t \in Seq(Funcs) /\ IsInjective(t) /\ ToSet(t) = ToSet(q.funcs) \ {f}
  BY <1>4, WithoutSeq
<1> HIDE DEF t
<1>7. \A g : Blocks(r, g) = Blocks(q, g)
  BY <1>3 DEF Blocks
<1>8. AllBlocks(r) = AllBlocks(q) \ gone
  <2>1. ASSUME NEW b \in AllBlocks(r) PROVE b \in AllBlocks(q) /\ b \notin gone
    <3>1. PICK g \in ToSet(q.funcs) : g # f /\ b \in Blocks(q, g)
      BY <1>3, <1>6, <1>7 DEF AllBlocks
    <3>2. QED
      BY <1>5, <3>1 DEF AllBlocks
  <2>2. ASSUME NEW b \in AllBlocks(q), b \notin gone PROVE b \in AllBlocks(r)
    <3>1. PICK g \in ToSet(q.funcs) : g # f /\ b \in Blocks(q, g)
      BY <2>2 DEF AllBlocks
    <3>2. QED
      BY <1>3, <1>6, <1>7, <3>1 DEF AllBlocks
  <2>3. QED
    BY <2>1, <2>2
<1>9. \A g, h \in ToSet(r.funcs) : g # h => Blocks(r, g) \cap Blocks(r, h) = {}
  <2>1. ToSet(r.funcs) \subseteq ToSet(q.funcs)
    BY <1>3, <1>6
  <2>2. QED
    BY <1>5, <1>7, <2>1
<1>10. r.body \in [AllBlocks(r) -> Seq(Instruction)] /\ r.exit \in [AllBlocks(r) -> Exit]
  BY <1>1, <1>3, <1>8
<1>11. IsProgram(r)
  BY <1>1, <1>3, <1>4, <1>6, <1>9, <1>10 DEF IsProgram
<1>12. ASSUME NEW b \in gone
       PROVE  /\ UsesIn(q, b) = SitesOf(BlockPlaces(q, b))
              /\ DefsIn(q, q.body[b]) = Named(SeqAssignments(q.body[b]))
              /\ defined(q.body[b]) = Vars(Named(SeqAssignments(q.body[b])))
  <2>1. b \in AllBlocks(q)
    BY <1>2
  <2>2. q.multi \/ OnceIn(SeqAssignments(q.body[b]))
    BY <2>1, BlockOnce
  <2>3. q.body[b] \in Seq(Instruction) /\ SeqOwn(q.body[b])
    BY <1>1, <2>1
  <2>4. UsesIn(q, b) = SitesOf(BlockPlaces(q, b))
    BY BlockUses
  <2>5. QED
    BY <1>1, <2>2, <2>3, <2>4, SeqDefs
<1>13. Shrunk(q, gone, r)
  <2> DEFINE U == UNION {SeqAssignments(q.body[b]) : b \in gone}
  <2>1. r.uses = q.uses \ UNION {SitesOf(BlockPlaces(q, b)) : b \in gone}
    BY <1>3, <1>12
  <2>2. UNION {DefsIn(q, q.body[b]) : b \in gone} = Named(U)
    <3>1. UNION {DefsIn(q, q.body[b]) : b \in gone} = UNION {Named(SeqAssignments(q.body[b])) : b \in gone}
      BY <1>12
    <3>2. QED
      BY <3>1 DEF Named
  <2>3. UNION {defined(q.body[b]) : b \in gone} = Vars(Named(U))
    <3>1. UNION {defined(q.body[b]) : b \in gone} = UNION {Vars(Named(SeqAssignments(q.body[b]))) : b \in gone}
      BY <1>12
    <3>2. QED
      BY <3>1 DEF Named, Vars
  <2>4. r.defs = Erased(q.multi, q.defs, U)
    BY <1>3, <2>2, <2>3 DEF Erased, Left
  <2>5. QED
    BY <1>3, <1>8, <2>1, <2>4 DEF Shrunk
<1> HIDE DEF gone
<1>14. Good(r)
  BY <1>2, <1>11, <1>13, ShrunkKeeps
<1>15. QED
  BY <1>14 DEF r

(* Naming another source in the phis of a sequence. *)
MovedIn(s, b, new) ==
  [j \in DOMAIN s |-> [s[j] EXCEPT !.src =
     [k \in DOMAIN s[j].src |-> IF s[j].src[k] = b THEN new ELSE s[j].src[k]]]]

(* Everything but the sources stays. *)
Alike(s, t) ==
  /\ DOMAIN t = DOMAIN s
  /\ \A k \in DOMAIN s : t[k].id = s[k].id /\ t[k].args = s[k].args /\ t[k].res = s[k].res

(* What the observers see of a sequence depends on nothing but addresses,    *)
(* operands and results.                                                     *)
LEMMA SameViews ==
  ASSUME NEW s, NEW t, Alike(s, t)
  PROVE  /\ SeqPlaces(t) = SeqPlaces(s) /\ SeqAssignments(t) = SeqAssignments(s)
         /\ Ids(t) = Ids(s) /\ (SeqOwn(s) => SeqOwn(t))
<1>0. /\ DOMAIN t = DOMAIN s
      /\ \A k \in DOMAIN s : t[k].id = s[k].id /\ t[k].args = s[k].args /\ t[k].res = s[k].res
  BY DEF Alike
<1>1. \A k \in DOMAIN s : PlaceOf(t[k]) = PlaceOf(s[k]) /\ AssignmentOf(t[k]) = AssignmentOf(s[k])
  BY <1>0 DEF PlaceOf, AssignmentOf
<1>2. SeqPlaces(s) = {PlaceOf(s[k]) : k \in DOMAIN s} /\ SeqPlaces(t) = {PlaceOf(t[k]) : k \in DOMAIN s}
  BY <1>0 DEF SeqPlaces, ToSet
<1>3. SeqAssignments(s) = {AssignmentOf(s[k]) : k \in DOMAIN s}
      /\ SeqAssignments(t) = {AssignmentOf(t[k]) : k \in DOMAIN s}
  BY <1>0 DEF SeqAssignments, ToSet
<1>4. Ids(s) = {s[k].id : k \in DOMAIN s} /\ Ids(t) = {t[k].id : k \in DOMAIN s}
  BY <1>0 DEF Ids, ToSet
<1>5. SeqOwn(s) => SeqOwn(t)
  BY <1>0 DEF SeqOwn
<1>6. SeqPlaces(t) = SeqPlaces(s)
  BY <1>1, <1>2
<1>7. SeqAssignments(t) = SeqAssignments(s)
  BY <1>1, <1>3
<1>8. Ids(t) = Ids(s)
  BY <1>0, <1>4
<1>9. QED
  BY <1>5, <1>6, <1>7, <1>8

(* That is what it does. *)
LEMMA MovedSeq ==
  ASSUME NEW s \in Seq(Instruction), NEW b, NEW new \in Labels, NEW t, t = MovedIn(s, b, new)
  PROVE  t \in Seq(Instruction) /\ Alike(s, t)
<1>0. t = [j \in DOMAIN s |-> [s[j] EXCEPT !.src =
             [k \in DOMAIN s[j].src |-> IF s[j].src[k] = b THEN new ELSE s[j].src[k]]]]
  BY DEF MovedIn
<1>1. DOMAIN s = 1 .. Len(s) /\ Len(s) \in Nat
  OBVIOUS
<1>2. ASSUME NEW j \in DOMAIN s
      PROVE  /\ t[j] \in Instruction
             /\ t[j].id = s[j].id /\ t[j].args = s[j].args /\ t[j].res = s[j].res
  <2> DEFINE i == s[j]
             a == i.src
             d == [k \in DOMAIN a |-> IF a[k] = b THEN new ELSE a[k]]
  <2>1. i \in Instruction /\ t[j] = [i EXCEPT !.src = d]
    BY <1>0
  <2>2. a \in Seq(Labels)
    <3> HIDE DEF i
    <3>1. QED
      BY <2>1 DEF Instruction
  <2>3. d \in Seq(Labels)
    <3> HIDE DEF a
    <3>1. DOMAIN a = 1 .. Len(a) /\ Len(a) \in Nat /\ \A k \in 1 .. Len(a) : a[k] \in Labels
      BY <2>2
    <3>2. QED
      BY <3>1
  <2> HIDE DEF i, d
  <2>4. t[j] \in Instruction /\ t[j].id = i.id /\ t[j].args = i.args /\ t[j].res = i.res
    BY <2>1, <2>3 DEF Instruction
  <2>5. QED
    BY <2>4 DEF i
<1>3. t \in Seq(Instruction) /\ DOMAIN t = DOMAIN s
  BY <1>0, <1>1, <1>2
<1>4. QED
  BY <1>2, <1>3 DEF Alike

(* Func::split: the rest of a block moves to a new one, which the observers  *)
(* see come before they see the block with its new exit go and come back.    *)
LEMMA SplitKeeps ==
  ASSUME NEW q, Good(q), NEW f \in ToSet(q.funcs), NEW b \in Blocks(q, f),
         NEW k \in 1 .. Len(q.body[b]) + 1, NEW e \in Exit, NEW new \in Labels \ AllBlocks(q)
  PROVE  Good(split(q, f, b, k, e, new))
<1> DEFINE s == q.body[b]
           head == SubSeq(s, 1, k - 1)
           tail == SubSeq(s, k, Len(s))
           all == AllBlocks(q) \cup {new}
           q0 == [q EXCEPT !.body = [c \in DOMAIN @ \cup {new} |->
                                       IF c = new THEN SubSeq(@[b], k, Len(@[b]))
                                       ELSE IF c = b THEN SubSeq(@[b], 1, k - 1) ELSE @[c]],
                           !.exit = [c \in DOMAIN @ \cup {new} |-> IF c = new THEN @[b] ELSE @[c]]]
           q1 == after_add_block(q0, new)
           q2 == setExit(q1, b, e)
           Source(c) == IF c = b THEN new ELSE c
           Moved(i) == [i EXCEPT !.src = [j \in DOMAIN @ |-> Source(@[j])]]
           r == [q2 EXCEPT !.body = [c \in DOMAIN @ |->
                                       IF c \in Blocks(q, f) THEN [j \in DOMAIN @[c] |-> Moved(@[c][j])]
                                       ELSE @[c]],
                           !.blocks[f] = Append(@, new)]
<1>1. split(q, f, b, k, e, new) = r
  BY DEF split
<1>2. /\ IsProgram(q) /\ OwnAddresses(q) /\ DOMAIN q = Fields /\ q.multi \in BOOLEAN
      /\ q.next \in Nat /\ q.next > 0
      /\ q.body \in [AllBlocks(q) -> Seq(Instruction)] /\ q.exit \in [AllBlocks(q) -> Exit]
      /\ \A c \in AllBlocks(q) : SeqOwn(q.body[c])
  BY GoodFacts
<1>3. q.uses = SitesOf(Places(q)) /\ q.defs = Named(Assignments(q))
  BY DEF Good, Recorded
<1>4. b \in AllBlocks(q) /\ Blocks(q, f) \subseteq AllBlocks(q) /\ b # new
  BY DEF AllBlocks
<1>5. s \in Seq(Instruction) /\ SeqOwn(s) /\ q.exit[b] \in Exit
  BY <1>2, <1>4
<1> HIDE DEF s
<1>6. k \in 1 .. Len(s) + 1
  BY DEF s
<1>7. /\ head \in Seq(Instruction) /\ tail \in Seq(Instruction) /\ SeqOwn(head) /\ SeqOwn(tail)
      /\ ToSet(head) \cup ToSet(tail) = ToSet(s)
      /\ Ids(head) \cap Ids(tail) = {}
  BY <1>5, <1>6, SplitSeq
<1>8. /\ DOMAIN q0 = Fields /\ q0.multi = q.multi /\ q0.funcs = q.funcs /\ q0.blocks = q.blocks
      /\ q0.next = q.next /\ q0.uses = q.uses /\ q0.defs = q.defs
      /\ q0.body = [c \in all |-> IF c = new THEN tail ELSE IF c = b THEN head ELSE q.body[c]]
      /\ q0.exit = [c \in all |-> IF c = new THEN q.exit[b] ELSE q.exit[c]]
  BY <1>2 DEF Fields, s
<1> HIDE DEF q0, head, tail
<1>9. /\ q0.body[new] = tail /\ q0.body[b] = head
      /\ \A c \in AllBlocks(q) \ {b} : q0.body[c] = q.body[c]
      /\ q0.exit[new] = q.exit[b] /\ q0.exit[b] = q.exit[b]
      /\ \A c \in AllBlocks(q) : q0.exit[c] = q.exit[c]
  BY <1>4, <1>8
<1> DEFINE H == SeqPlaces(head)
           T == SeqPlaces(tail)
           En == {ExitPlace(new, q.exit[b])}
           Eb == {ExitPlace(b, q.exit[b])}
           Ee == {ExitPlace(b, e)}
           DH == SeqAssignments(head)
           DT == SeqAssignments(tail)
           D == Assignments(q)
<1>10. SeqPlaces(s) = H \cup T /\ SeqAssignments(s) = DH \cup DT
  BY <1>7 DEF SeqPlaces, SeqAssignments
<1>11. DH \in SUBSET D /\ DT \in SUBSET D /\ (q.multi \/ OnceIn(D))
       /\ (q.multi \/ OnceIn(DH)) /\ (q.multi \/ OnceIn(DT))
  <2>1. SeqAssignments(s) \subseteq D
    BY <1>4 DEF Assignments, s
  <2>2. q.multi \/ OnceIn(D)
    BY OnceIff DEF Good
  <2>3. QED
    BY <1>10, <2>1, <2>2 DEF OnceIn
<1>12. /\ SameProgram(q0, q1)
       /\ q1.uses = q.uses \cup SitesOf(T \cup En)
       /\ q1.defs = Named(D)
  <2>1. /\ DOMAIN q0 = Fields /\ q0.multi \in BOOLEAN /\ q0.body[new] \in Seq(Instruction)
        /\ SeqOwn(q0.body[new]) /\ (q0.multi \/ OnceIn(SeqAssignments(q0.body[new])))
    BY <1>2, <1>7, <1>8, <1>9, <1>11
  <2>2. /\ SameProgram(q0, q1)
        /\ q1.uses = q0.uses \cup SitesOf(BlockPlaces(q0, new))
        /\ q1.defs = Added(q0.multi, q0.defs, SeqAssignments(q0.body[new]))
    BY <2>1, AfterAddBlock
  <2>3. BlockPlaces(q0, new) = T \cup En
    BY <1>9 DEF BlockPlaces
  <2>4. Added(q.multi, Named(D), DT) = Named(D)
    BY <1>2, <1>11, ReAdded
  <2>5. QED
    BY <1>3, <1>8, <1>9, <2>2, <2>3, <2>4
<1> HIDE DEF q1
<1>13. /\ DOMAIN q1 = Fields /\ q1.multi = q.multi /\ q1.funcs = q.funcs /\ q1.blocks = q.blocks
       /\ q1.next = q.next /\ q1.body = q0.body /\ q1.exit = q0.exit
  BY <1>8, <1>12 DEF SameProgram, SameLists
<1>14. /\ DOMAIN q2 = Fields /\ q2.multi = q.multi /\ q2.funcs = q.funcs /\ q2.blocks = q.blocks
       /\ q2.next = q.next /\ q2.body = q0.body /\ q2.exit = [q0.exit EXCEPT ![b] = e]
       /\ q2.uses = (q1.uses \ SitesOf(H \cup Eb)) \cup SitesOf(H \cup Ee)
       /\ q2.defs = Named(D)
  <2>1. /\ DOMAIN q1 = Fields /\ q1.multi \in BOOLEAN /\ q1.body[b] = head
        /\ q1.body[b] \in Seq(Instruction) /\ SeqOwn(q1.body[b])
        /\ (q1.multi \/ OnceIn(SeqAssignments(q1.body[b])))
        /\ q1.exit = [c \in DOMAIN q1.exit |-> q1.exit[c]] /\ b \in DOMAIN q1.exit
    BY <1>2, <1>4, <1>7, <1>8, <1>9, <1>11, <1>13
  <2>2. ExitSet(q1, b, e, q2)
    BY <2>1, SetExitRecords
  <2>3. BlockPlaces(q1, b) = H \cup Eb
    BY <1>9, <1>13 DEF BlockPlaces
  <2>4. Added(q.multi, Erased(q.multi, Named(D), DH), DH) = Named(D)
    BY <1>2, <1>11, ReAdded
  <2>5. SameLists(q1, q2) /\ q2.body = q1.body /\ q2.next = q1.next
        /\ q2.exit = [q1.exit EXCEPT ![b] = e]
        /\ q2.uses = (q1.uses \ SitesOf(BlockPlaces(q1, b)))
                  \cup SitesOf(SeqPlaces(q1.body[b]) \cup {ExitPlace(b, e)})
        /\ q2.defs = Added(q1.multi, Erased(q1.multi, q1.defs, SeqAssignments(q1.body[b])),
                           SeqAssignments(q1.body[b]))
    BY <2>2 DEF ExitSet
  <2>6. QED
    BY <1>12, <1>13, <2>1, <2>3, <2>4, <2>5 DEF SameLists
<1> HIDE DEF q2
<1>15. /\ DOMAIN r = Fields /\ r.multi = q.multi /\ r.funcs = q.funcs /\ r.next = q.next
       /\ r.uses = q2.uses /\ r.defs = q2.defs /\ r.exit = q2.exit
       /\ r.blocks = [q.blocks EXCEPT ![f] = Append(q.blocks[f], new)]
       /\ r.body = [c \in all |-> IF c \in Blocks(q, f) THEN MovedIn(q0.body[c], b, new)
                                  ELSE q0.body[c]]
  <2>1. DOMAIN q0.body = all
    BY <1>8
  <2>2. /\ DOMAIN r = Fields /\ r.multi = q2.multi /\ r.funcs = q2.funcs /\ r.next = q2.next
        /\ r.uses = q2.uses /\ r.defs = q2.defs /\ r.exit = q2.exit
        /\ r.blocks = [q2.blocks EXCEPT ![f] = Append(q2.blocks[f], new)]
    BY <1>14 DEF Fields
  <2>3. r.body = [c \in DOMAIN q2.body |->
                    IF c \in Blocks(q, f) THEN [j \in DOMAIN q2.body[c] |-> Moved(q2.body[c][j])]
                    ELSE q2.body[c]]
    <3> HIDE DEF Moved
    <3>1. QED
      BY <1>14 DEF Fields
  <2>4. ASSUME NEW u PROVE [j \in DOMAIN u |-> Moved(u[j])] = MovedIn(u, b, new)
    BY DEF MovedIn
  <2> HIDE DEF r, Moved
  <2>5. r.body = [c \in all |-> IF c \in Blocks(q, f) THEN MovedIn(q0.body[c], b, new)
                                ELSE q0.body[c]]
    BY <1>14, <2>1, <2>3, <2>4
  <2>6. QED
    BY <1>14, <2>2, <2>5
<1> HIDE DEF r, Moved, Source
<1>16. ASSUME NEW c \in all
       PROVE  /\ q0.body[c] \in Seq(Instruction) /\ SeqOwn(q0.body[c])
              /\ r.body[c] \in Seq(Instruction) /\ SeqOwn(r.body[c])
              /\ SeqPlaces(r.body[c]) = SeqPlaces(q0.body[c])
              /\ SeqAssignments(r.body[c]) = SeqAssignments(q0.body[c])
              /\ Ids(r.body[c]) = Ids(q0.body[c])
  <2> DEFINE u == q0.body[c]
             t == r.body[c]
  <2>1. u \in Seq(Instruction) /\ SeqOwn(u)
    BY <1>2, <1>7, <1>9
  <2>2. CASE c \in Blocks(q, f)
    <3>1. t = MovedIn(u, b, new)
      BY <1>15, <2>2
    <3> HIDE DEF t, u
    <3>2. t \in Seq(Instruction) /\ Alike(u, t)
      BY <2>1, <3>1, MovedSeq
    <3>3. SeqPlaces(t) = SeqPlaces(u) /\ SeqAssignments(t) = SeqAssignments(u) /\ Ids(t) = Ids(u)
          /\ (SeqOwn(u) => SeqOwn(t))
      BY <3>2, SameViews
    <3>4. QED
      BY <2>1, <3>2, <3>3 DEF t, u
  <2>3. CASE c \notin Blocks(q, f)
    BY <1>15, <2>1, <2>3
  <2>4. QED
    BY <2>2, <2>3
<1>17. r.body \in [all -> Seq(Instruction)]
  BY <1>15, <1>16
<1>18. r.exit \in [all -> Exit] /\ r.exit[b] = e /\ r.exit[new] = q.exit[b]
       /\ \A c \in AllBlocks(q) \ {b} : r.exit[c] = q.exit[c]
  <2>1. q0.exit \in [all -> Exit]
    BY <1>2, <1>4, <1>5, <1>8
  <2>2. QED
    BY <1>4, <1>9, <1>14, <1>15, <2>1
<1>19. Grown(q, f, new, r)
  <2>1. /\ DOMAIN r = Fields /\ r.multi = q.multi /\ r.funcs = q.funcs
        /\ r.next \in Nat /\ q.next <= r.next
        /\ r.blocks = [q.blocks EXCEPT ![f] = Append(q.blocks[f], new)]
    BY <1>2, <1>15
  <2>2. r.body \in [AllBlocks(q) \cup {new} -> Seq(Instruction)]
        /\ r.exit \in [AllBlocks(q) \cup {new} -> Exit]
    BY <1>17, <1>18
  <2>3. QED
    BY <2>1, <2>2 DEF Grown
<1>20. IsProgram(r) /\ AllBlocks(r) = all
  <2>1. IsProgram(q)
    BY <1>2
  <2>2. IsProgram(r) /\ AllBlocks(r) = AllBlocks(q) \cup {new}
    BY <1>19, <2>1, GrownIsProgram
  <2>3. QED
    BY <2>2
<1>21. Ids(s) = Ids(head) \cup Ids(tail)
  BY <1>7 DEF Ids
<1>22. OwnAddresses(r)
  <2>1. OwnParts(q)
    BY <1>2, OwnIff
  <2>2. ASSUME NEW c \in all
        PROVE  IF c \in {b, new} THEN Ids(q0.body[c]) \subseteq Ids(q.body[b])
               ELSE Ids(q0.body[c]) = Ids(q.body[c]) /\ c \in AllBlocks(q)
    BY <1>9, <1>21 DEF s
  <2>3. ASSUME NEW c \in all, NEW x \in Ids(r.body[c]) PROVE 0 < x /\ x < r.next
    <3>1. x \in Ids(q0.body[c])
      BY <1>16
    <3>2. PICK d \in AllBlocks(q) : x \in Ids(q.body[d])
      BY <1>4, <2>2, <3>1
    <3>3. QED
      BY <1>15, <2>1, <3>2 DEF OwnParts
  <2>4. ASSUME NEW c \in all, NEW d \in all, c # d PROVE Ids(r.body[c]) \cap Ids(r.body[d]) = {}
    <3>1. Ids(r.body[c]) = Ids(q0.body[c]) /\ Ids(r.body[d]) = Ids(q0.body[d])
      BY <1>16
    <3>2. CASE c \in {b, new} /\ d \in {b, new}
      BY <1>7, <1>9, <2>4, <3>1, <3>2
    <3>3. CASE c \in {b, new} /\ d \notin {b, new}
      <4>1. Ids(q.body[b]) \cap Ids(q.body[d]) = {}
        BY <1>4, <2>1, <2>2, <3>3 DEF OwnParts
      <4>2. QED
        BY <2>2, <3>1, <3>3, <4>1
    <3>4. CASE c \notin {b, new} /\ d \in {b, new}
      <4>1. Ids(q.body[b]) \cap Ids(q.body[c]) = {}
        BY <1>4, <2>1, <2>2, <3>4 DEF OwnParts
      <4>2. QED
        BY <2>2, <3>1, <3>4, <4>1
    <3>5. CASE c \notin {b, new} /\ d \notin {b, new}
      BY <2>1, <2>2, <2>4, <3>1, <3>5 DEF OwnParts
    <3>6. QED
      BY <3>2, <3>3, <3>4, <3>5
  <2>5. OwnParts(r)
    BY <1>16, <1>20, <2>3, <2>4 DEF OwnParts
  <2>6. QED
    BY <1>20, <2>5, OwnIff
<1> DEFINE P == Places(q)
<1>23. /\ BlockPlaces(r, b) = H \cup Ee /\ BlockPlaces(r, new) = T \cup En
       /\ \A c \in AllBlocks(q) \ {b} : BlockPlaces(r, c) = BlockPlaces(q, c)
       /\ SeqAssignments(r.body[b]) = DH /\ SeqAssignments(r.body[new]) = DT
       /\ \A c \in AllBlocks(q) \ {b} : SeqAssignments(r.body[c]) = SeqAssignments(q.body[c])
  BY <1>4, <1>9, <1>16, <1>18 DEF BlockPlaces
<1>24. BlockPlaces(q, b) = H \cup T \cup Eb
  BY <1>10 DEF BlockPlaces, s
<1>25. Assignments(r) = D
  <2>1. SeqAssignments(q.body[b]) = DH \cup DT
    BY <1>10 DEF s
  <2>2. QED
    BY <1>4, <1>20, <1>23, <2>1 DEF Assignments
<1> DEFINE Q == P \cup En
           R == UNION {BlockPlaces(q, c) : c \in AllBlocks(q) \ {b}}
<1>26. P = H \cup T \cup Eb \cup R /\ Places(r) = H \cup Ee \cup T \cup En \cup R
  <2>1. P = BlockPlaces(q, b) \cup R
    BY <1>4 DEF Places
  <2>2. Places(r) = BlockPlaces(r, b) \cup BlockPlaces(r, new) \cup R
    <3>1. R = UNION {BlockPlaces(r, c) : c \in AllBlocks(q) \ {b}}
      BY <1>23
    <3>2. QED
      BY <1>4, <1>20, <3>1 DEF Places
  <2>3. QED
    BY <1>23, <1>24, <2>1, <2>2
<1>27. R \cap (H \cup Eb) = {}
  <2>1. \A c \in AllBlocks(q) \ {b} : BlockPlaces(q, b) \cap BlockPlaces(q, c) = {}
    BY <1>2, <1>4, BlocksApart
  <2>2. QED
    BY <1>24, <2>1
<1>28. \A x \in P : x[1] # -new
  <2>1. ASSUME NEW x \in P, x[1] = -new PROVE FALSE
    <3>1. PICK c \in AllBlocks(q) : x \in BlockPlaces(q, c)
      BY DEF Places
    <3>2. /\ c \in Nat /\ c > 0 /\ new \in Nat /\ new > 0 /\ c # new
      BY <1>2, BlockFacts, LabelsAssumption
    <3>3. CASE x = ExitPlace(c, q.exit[c])
      BY <2>1, <3>2, <3>3 DEF ExitPlace
    <3>4. CASE x \in SeqPlaces(q.body[c])
      <4>1. PICK i \in ToSet(q.body[c]) : x = PlaceOf(i)
        BY <3>4 DEF SeqPlaces
      <4>2. i.id \in Ids(q.body[c])
        BY DEF Ids
      <4>3. i.id \in Nat /\ i.id > 0
        BY <4>2, GoodFacts
      <4>4. QED
        BY <2>1, <3>2, <4>1, <4>3 DEF PlaceOf
    <3>5. QED
      BY <3>1, <3>3, <3>4 DEF BlockPlaces
  <2>2. QED
    BY <2>1
<1>29. DistinctSites(P)
  BY <1>2, Distinct
<1>30. DistinctSites(Q)
  <2>1. \A x \in En : x[1] = -new
    BY DEF ExitPlace
  <2>2. \A x, y \in En : x = y
    OBVIOUS
  <2> HIDE DEF P, En
  <2>3. QED
    BY <1>28, <1>29, <2>1, <2>2 DEF DistinctSites
<1>31. (H \cup T) \cap (En \cup Eb) = {} /\ H \cap T = {} /\ En \cap Eb = {}
  <2>1. ASSUME NEW x \in H \cup T PROVE x[1] \in Nat /\ x[1] > 0 /\ (x \in H => x[1] \in Ids(head)) /\ (x \in T => x[1] \in Ids(tail))
    <3>1. (x \in H => x[1] \in Ids(head)) /\ (x \in T => x[1] \in Ids(tail))
      BY DEF SeqPlaces, PlaceOf, Ids
    <3>2. x[1] \in Ids(q.body[b])
      BY <1>21, <2>1, <3>1 DEF s
    <3>3. x[1] \in Nat /\ x[1] > 0
      BY <1>4, <3>2, GoodFacts
    <3>4. QED
      BY <3>1, <3>3
  <2>2. b \in Nat /\ b > 0 /\ new \in Nat /\ new > 0
    BY <1>2, <1>4, BlockFacts, LabelsAssumption
  <2>3. \A x \in En : x[1] = -new
    BY DEF ExitPlace
  <2>4. \A x \in Eb : x[1] = -b
    BY DEF ExitPlace
  <2> HIDE DEF H, T, En, Eb
  <2>5. ASSUME NEW x \in H \cup T, x \in En \cup Eb PROVE FALSE
    BY <2>1, <2>2, <2>3, <2>4, <2>5
  <2>6. H \cap T = {}
    BY <1>7, <2>1
  <2>7. ASSUME NEW x \in En, x \in Eb PROVE FALSE
    BY <1>4, <2>2, <2>3, <2>4, <2>7
  <2>8. QED
    BY <2>5, <2>6, <2>7
<1> DEFINE X == H \cup Eb
           Y == H \cup Ee
<1>32. Places(r) = (Q \ X) \cup Y /\ X \in SUBSET Q
  <2>1. R \cap X = {} /\ T \cap X = {} /\ En \cap X = {}
    BY <1>27, <1>31
  <2> HIDE DEF P, R, H, T, En, Eb, Ee
  <2>2. QED
    BY <1>26, <2>1
<1>33. r.uses = SitesOf(Places(r))
  <2>1. q2.uses = (q1.uses \ SitesOf(X)) \cup SitesOf(Y)
    BY <1>14
  <2>2. q1.uses = SitesOf(Q)
    <3>1. q1.uses = SitesOf(P) \cup SitesOf(T \cup En)
      BY <1>3, <1>12
    <3> HIDE DEF P, T, En, Eb, H, R
    <3>2. SitesOf(P) \cup SitesOf(T \cup En) = SitesOf(P \cup (T \cup En))
      BY SitesUnion
    <3>3. P \cup (T \cup En) = Q
      BY <1>26
    <3>4. QED
      BY <3>1, <3>2, <3>3
  <2> HIDE DEF Q, X, Y
  <2>3. SitesOf(Places(r)) = (SitesOf(Q) \ SitesOf(X)) \cup SitesOf(Y)
    BY <1>30, <1>32, ExactUses
  <2>4. QED
    BY <1>15, <2>1, <2>2, <2>3
<1>34. r.defs = Named(Assignments(r))
  BY <1>14, <1>15, <1>25
<1>35. r.multi \/ AssignedOnce(r)
  <2>1. r.multi \/ OnceIn(Assignments(r))
    BY <1>11, <1>15, <1>25
  <2>2. QED
    BY <1>20, <1>22, <2>1, OnceIff
<1>36. Good(r)
  BY <1>20, <1>22, <1>33, <1>34, <1>35 DEF Good, Recorded
<1>37. QED
  BY <1>1, <1>36

------------------------------------------------------------------------------
(* The replacements of the graph.                                            *)

(* r has the instructions of q in their places, at their addresses. *)
SameShape(q, r) ==
  /\ SameLists(q, r) /\ r.next = q.next
  /\ r.body \in [AllBlocks(q) -> Seq(Instruction)]
  /\ r.exit \in [AllBlocks(q) -> Exit]
  /\ \A b \in AllBlocks(q) :
       /\ DOMAIN r.body[b] = DOMAIN q.body[b]
       /\ \A k \in DOMAIN q.body[b] : r.body[b][k].id = q.body[b][k].id

(* It is a program as q is. *)
LEMMA ShapeKeeps ==
  ASSUME NEW q, IsProgram(q), OwnAddresses(q), NEW r, SameShape(q, r)
  PROVE  IsProgram(r) /\ OwnAddresses(r) /\ AllBlocks(r) = AllBlocks(q)
<1>1. DOMAIN r = Fields /\ r.multi = q.multi /\ r.funcs = q.funcs /\ r.blocks = q.blocks
      /\ r.next = q.next
  BY DEF SameShape, SameLists
<1>2. \A f : Blocks(r, f) = Blocks(q, f)
  BY <1>1 DEF Blocks
<1>3. AllBlocks(r) = AllBlocks(q)
  BY <1>1, <1>2 DEF AllBlocks
<1>4. r.body \in [AllBlocks(r) -> Seq(Instruction)] /\ r.exit \in [AllBlocks(r) -> Exit]
  BY <1>3 DEF SameShape
<1>5. IsProgram(r)
  BY <1>1, <1>2, <1>4 DEF IsProgram
<1>6. ASSUME NEW b \in AllBlocks(q)
      PROVE  Ids(r.body[b]) = Ids(q.body[b]) /\ (SeqOwn(q.body[b]) => SeqOwn(r.body[b]))
  <2> DEFINE s == q.body[b]
             t == r.body[b]
  <2>1. DOMAIN t = DOMAIN s /\ \A k \in DOMAIN s : t[k].id = s[k].id
    BY DEF SameShape
  <2> HIDE DEF s, t
  <2>2. Ids(s) = {s[k].id : k \in DOMAIN s} /\ Ids(t) = {t[k].id : k \in DOMAIN s}
    BY <2>1 DEF Ids, ToSet
  <2>3. SeqOwn(s) => SeqOwn(t)
    BY <2>1 DEF SeqOwn
  <2>4. Ids(t) = Ids(s)
    BY <2>1, <2>2
  <2>5. QED
    BY <2>3, <2>4 DEF s, t
<1>7. OwnParts(r)
  <2>1. OwnParts(q)
    BY OwnIff
  <2>2. QED
    BY <1>1, <1>3, <1>6, <2>1 DEF OwnParts
<1>8. QED
  BY <1>3, <1>5, <1>7, OwnIff

(* Operands with o where x was. *)
Sub(args, x, o) == [k \in DOMAIN args |-> IF args[k] = V(x) THEN o ELSE args[k]]

(* Values know whether they are variables. *)
LEMMA ValueFacts ==
  ASSUME NEW o \in Value
  PROVE  IsVar(o) <=> \E x \in Variables : o = V(x) /\ o.v = x
<1>1. CASE o \in [v : Variables]
  <2>1. IsVar(o)
    BY <1>1 DEF IsVar
  <2>2. o = V(o.v) /\ o.v \in Variables
    BY <1>1 DEF V
  <2>3. QED
    BY <2>1, <2>2
<1>2. CASE o \in [c : Int, t : STRING]
  <2>1. DOMAIN o = {"c", "t"}
    BY <1>2
  <2>2. ~IsVar(o)
    BY <2>1 DEF IsVar
  <2>3. \A x : IsVar(V(x))
    BY DEF IsVar, V
  <2>4. QED
    BY <2>2, <2>3
<1>3. QED
  BY <1>1, <1>2 DEF Value

(* Operands are values, and substitution keeps them so. *)
LEMMA SubSeqOf ==
  ASSUME NEW args \in Seq(Value), NEW x, NEW o \in Value
  PROVE  Sub(args, x, o) \in Seq(Value) /\ DOMAIN Sub(args, x, o) = DOMAIN args
<1>1. DOMAIN args = 1 .. Len(args) /\ Len(args) \in Nat /\ \A k \in DOMAIN args : args[k] \in Value
  OBVIOUS
<1>2. QED
  BY <1>1 DEF Sub

(* The sites of operands after a substitution. *)
LEMMA SubSites ==
  ASSUME NEW site, NEW args \in Seq(Value), NEW x \in Variables, NEW o \in Value, NEW u
  PROVE  u \in Sites(site, Sub(args, x, o)) <=>
           \/ u \in Sites(site, args) /\ u[3] # x
           \/ \E k \in DOMAIN args : args[k] = V(x) /\ IsVar(o) /\ u = <<site, k, o.v>>
<1>1. \A k \in DOMAIN args : args[k] \in Value
  OBVIOUS
<1>2. \A k \in DOMAIN args : IsVar(args[k]) => args[k] = V(args[k].v)
  BY <1>1, ValueFacts
<1>3. V(x).v = x
  BY DEF V
<1>4. DOMAIN Sub(args, x, o) = DOMAIN args
      /\ \A k \in DOMAIN args : Sub(args, x, o)[k] = IF args[k] = V(x) THEN o ELSE args[k]
  BY DEF Sub
<1>5. ASSUME u \in Sites(site, Sub(args, x, o))
      PROVE  \/ u \in Sites(site, args) /\ u[3] # x
             \/ \E k \in DOMAIN args : args[k] = V(x) /\ IsVar(o) /\ u = <<site, k, o.v>>
  <2>1. PICK k \in DOMAIN args : IsVar(Sub(args, x, o)[k]) /\ u = <<site, k, Sub(args, x, o)[k].v>>
    BY <1>4, <1>5 DEF Sites
  <2>2. CASE args[k] = V(x)
    BY <1>4, <2>1, <2>2
  <2>3. CASE args[k] # V(x)
    <3>1. IsVar(args[k]) /\ u = <<site, k, args[k].v>> /\ u[3] = args[k].v
      BY <1>4, <2>1, <2>3
    <3>2. u[3] # x
      BY <1>2, <2>3, <3>1
    <3>3. QED
      BY <3>1, <3>2 DEF Sites
  <2>4. QED
    BY <2>2, <2>3
<1>6. ASSUME u \in Sites(site, args), u[3] # x PROVE u \in Sites(site, Sub(args, x, o))
  <2>1. PICK k \in DOMAIN args : IsVar(args[k]) /\ u = <<site, k, args[k].v>>
    BY <1>6 DEF Sites
  <2>2. Sub(args, x, o)[k] = args[k]
    BY <1>3, <1>4, <1>6, <2>1
  <2>3. QED
    BY <1>4, <2>1, <2>2 DEF Sites
<1>7. ASSUME NEW k \in DOMAIN args, args[k] = V(x), IsVar(o), u = <<site, k, o.v>>
      PROVE  u \in Sites(site, Sub(args, x, o))
  <2>1. Sub(args, x, o)[k] = o
    BY <1>4, <1>7
  <2>2. QED
    BY <1>4, <1>7, <2>1 DEF Sites
<1>8. QED
  BY <1>5, <1>6, <1>7

(* The recorded sites of x are where the program reads it. *)
UseSites(q, x) == {<<u[1], u[2]>> : u \in uses_of(q, x)}

(* That is so. *)
LEMMA UseSitesAre ==
  ASSUME NEW q, Good(q), NEW x \in Variables, NEW s \in Places(q), s[2] \in Seq(Value), NEW k
  PROVE  <<s[1], k>> \in UseSites(q, x) <=> k \in DOMAIN s[2] /\ s[2][k] = V(x)
<1>1. IsProgram(q) /\ OwnAddresses(q) /\ q.uses = SitesOf(Places(q))
  BY GoodFacts
<1>2. DistinctSites(Places(q))
  BY <1>1, Distinct
<1>3. \A n \in DOMAIN s[2] : s[2][n] \in Value
  OBVIOUS
<1>4. ASSUME <<s[1], k>> \in UseSites(q, x) PROVE k \in DOMAIN s[2] /\ s[2][k] = V(x)
  <2>1. PICK u \in q.uses : u[3] = x /\ <<u[1], u[2]>> = <<s[1], k>>
    BY <1>4 DEF UseSites, uses_of
  <2>2. PICK t \in Places(q) : u \in Sites(t[1], t[2])
    BY <1>1 DEF SitesOf
  <2>3. PICK n \in DOMAIN t[2] : IsVar(t[2][n]) /\ u = <<t[1], n, t[2][n].v>>
    BY <2>2 DEF Sites
  <2>4. t[1] = s[1] /\ n = k /\ t[2][n].v = x
    BY <2>1, <2>3
  <2>5. t = s
    BY <1>2, <2>4 DEF DistinctSites
  <2>6. k \in DOMAIN s[2] /\ IsVar(s[2][k]) /\ s[2][k].v = x
    BY <2>3, <2>4, <2>5
  <2>7. QED
    BY <1>3, <2>6, ValueFacts
<1>5. ASSUME k \in DOMAIN s[2], s[2][k] = V(x) PROVE <<s[1], k>> \in UseSites(q, x)
  <2>1. IsVar(s[2][k]) /\ s[2][k].v = x
    BY <1>5 DEF IsVar, V
  <2>2. <<s[1], k, x>> \in Sites(s[1], s[2])
    BY <1>5, <2>1 DEF Sites
  <2>3. <<s[1], k, x>> \in q.uses
    BY <1>1, <2>2 DEF SitesOf
  <2>4. QED
    BY <2>3 DEF UseSites, uses_of
<1>6. QED
  BY <1>4, <1>5

(* The operands in a program are sequences of values. *)
LEMMA OperandsOf ==
  ASSUME NEW q, IsProgram(q), NEW b \in AllBlocks(q)
  PROVE  /\ \A i \in ToSet(q.body[b]) : i \in Instruction /\ i.args \in Seq(Value)
                                        /\ PlaceOf(i) \in Places(q)
                                        /\ PlaceOf(i)[1] = i.id /\ PlaceOf(i)[2] = i.args
         /\ LET t == ExitPlace(b, q.exit[b])
            IN  /\ q.exit[b] \in Exit /\ q.exit[b].arg \in Seq(Value) /\ t \in Places(q)
                /\ t[1] = -b /\ t[2] = q.exit[b].arg
<1>1. q.body[b] \in Seq(Instruction) /\ q.exit[b] \in Exit
  BY BlockFacts
<1>2. ASSUME NEW i \in ToSet(q.body[b])
      PROVE  i \in Instruction /\ i.args \in Seq(Value) /\ PlaceOf(i) \in Places(q)
             /\ PlaceOf(i)[1] = i.id /\ PlaceOf(i)[2] = i.args
  <2>1. i \in Instruction
    BY <1>1, SetOf
  <2>2. i.args \in Seq(Value)
    BY <2>1 DEF Instruction
  <2>3. PlaceOf(i) \in Places(q)
    BY DEF Places, BlockPlaces, SeqPlaces
  <2>4. QED
    BY <2>1, <2>2, <2>3 DEF PlaceOf
<1>3. q.exit[b].arg \in Seq(Value)
  <2> DEFINE e == q.exit[b]
  <2>1. e \in Exit
    BY <1>1
  <2> HIDE DEF e
  <2>2. e.arg \in Seq(Value)
    BY <2>1 DEF Exit
  <2>3. QED
    BY <2>2 DEF e
<1>4. ExitPlace(b, q.exit[b]) \in Places(q)
  BY DEF Places, BlockPlaces
<1>5. ExitPlace(b, q.exit[b])[1] = -b /\ ExitPlace(b, q.exit[b])[2] = q.exit[b].arg
  BY DEF ExitPlace
<1>6. QED
  BY <1>1, <1>2, <1>3, <1>4, <1>5

(* Every place is that of an instruction or of an exit. *)
LEMMA PlaceIs ==
  ASSUME NEW q, NEW s \in Places(q)
  PROVE  \E b \in AllBlocks(q) : s = ExitPlace(b, q.exit[b])
                                 \/ \E i \in ToSet(q.body[b]) : s = PlaceOf(i)
BY DEF Places, BlockPlaces, SeqPlaces

(* To read x is to have it in a place. *)
LEMMA ReadsIff ==
  ASSUME NEW q, IsProgram(q), NEW x
  PROVE  Reads(q, x) <=> \E s \in Places(q) : \E k \in DOMAIN s[2] : s[2][k] = V(x)
<1>1. ASSUME Reads(q, x) PROVE \E s \in Places(q) : \E k \in DOMAIN s[2] : s[2][k] = V(x)
  <2>1. CASE \E i \in Listed(q) : \E k \in DOMAIN i.args : i.args[k] = V(x)
    <3>1. PICK i \in Listed(q) : \E k \in DOMAIN i.args : i.args[k] = V(x)
      BY <2>1
    <3>2. PICK b \in AllBlocks(q) : i \in ToSet(q.body[b])
      BY DEF Listed
    <3>3. PlaceOf(i) \in Places(q) /\ PlaceOf(i)[2] = i.args
      BY <3>2, OperandsOf
    <3>4. QED
      BY <3>1, <3>3
  <2>2. CASE \E b \in AllBlocks(q) : \E k \in DOMAIN q.exit[b].arg : q.exit[b].arg[k] = V(x)
    <3>1. PICK b \in AllBlocks(q) : \E k \in DOMAIN q.exit[b].arg : q.exit[b].arg[k] = V(x)
      BY <2>2
    <3> DEFINE t == ExitPlace(b, q.exit[b])
    <3>2. t \in Places(q) /\ t[2] = q.exit[b].arg
      BY OperandsOf
    <3>3. QED
      BY <3>1, <3>2
  <2>3. QED
    BY <1>1, <2>1, <2>2 DEF Reads
<1>2. ASSUME NEW s \in Places(q), NEW k \in DOMAIN s[2], s[2][k] = V(x) PROVE Reads(q, x)
  <2>1. PICK b \in AllBlocks(q) : s = ExitPlace(b, q.exit[b])
                                 \/ \E i \in ToSet(q.body[b]) : s = PlaceOf(i)
    BY PlaceIs
  <2>2. CASE s = ExitPlace(b, q.exit[b])
    <3>1. s[2] = q.exit[b].arg
      BY <2>2 DEF ExitPlace
    <3>2. QED
      BY <1>2, <3>1 DEF Reads
  <2>3. CASE \E i \in ToSet(q.body[b]) : s = PlaceOf(i)
    <3>1. PICK i \in ToSet(q.body[b]) : s = PlaceOf(i)
      BY <2>3
    <3>2. s[2] = i.args /\ i \in Listed(q)
      BY <3>1 DEF PlaceOf, Listed
    <3>3. QED
      BY <1>2, <3>2 DEF Reads
  <2>4. QED
    BY <2>1, <2>2, <2>3
<1>3. QED
  BY <1>1, <1>2

(* r is q where o stands for every operand x, of which there are some. *)
Substituted(q, x, o, r) ==
  /\ SameLists(q, r) /\ r.next = q.next /\ r.defs = q.defs
  /\ r.body = [b \in AllBlocks(q) |-> [k \in DOMAIN q.body[b] |->
                 [q.body[b][k] EXCEPT !.args = Sub(q.body[b][k].args, x, o)]]]
  /\ r.exit = [b \in AllBlocks(q) |-> [q.exit[b] EXCEPT !.arg = Sub(q.exit[b].arg, x, o)]]
  /\ r.uses = (q.uses \ uses_of(q, x))
              \cup (IF IsVar(o) THEN {<<s[1], s[2], o.v>> : s \in UseSites(q, x)} ELSE {})

(* UseInfo::replace_all_uses_with changes what it finds at the recorded sites, *)
(* and these are where x is read.                                              *)
LEMMA ReplaceUsesIs ==
  ASSUME NEW q, Good(q), NEW x \in Variables, NEW o \in Value,
         NEW r, r = replace_all_uses_with(q, x, o)
  PROVE  IF UseSites(q, x) = {} THEN r = q ELSE Substituted(q, x, o, r)
<1> DEFINE sites == {<<u[1], u[2]>> : u \in uses_of(q, x)}
           Put(site, args) == [k \in DOMAIN args |-> IF <<site, k>> \in sites THEN o ELSE args[k]]
           Rewrite(i) == [i EXCEPT !.args = Put(i.id, @)]
           Rewritten(b) == [q.exit[b] EXCEPT !.arg = Put(-b, @)]
           t == [q EXCEPT
                  !.body = [b \in DOMAIN @ |-> [k \in DOMAIN @[b] |-> Rewrite(@[b][k])]],
                  !.exit = [b \in DOMAIN @ |-> Rewritten(b)],
                  !.uses = (@ \ uses_of(q, x))
                           \cup (IF IsVar(o) THEN {<<s[1], s[2], o.v>> : s \in sites} ELSE {})]
<1>1. r = IF sites = {} THEN q ELSE t
  BY DEF replace_all_uses_with
<1>2. sites = UseSites(q, x)
  BY DEF UseSites
<1> HIDE DEF sites
<1>3. /\ IsProgram(q) /\ DOMAIN q = Fields
      /\ q.body \in [AllBlocks(q) -> Seq(Instruction)] /\ q.exit \in [AllBlocks(q) -> Exit]
  BY GoodFacts
<1>4. ASSUME NEW s \in Places(q), s[2] \in Seq(Value) PROVE Put(s[1], s[2]) = Sub(s[2], x, o)
  <2>1. \A k \in DOMAIN s[2] : <<s[1], k>> \in sites <=> s[2][k] = V(x)
    BY <1>2, <1>4, UseSitesAre
  <2>2. QED
    BY <2>1 DEF Sub
<1>5. ASSUME NEW b \in AllBlocks(q), NEW k \in DOMAIN q.body[b]
      PROVE  Rewrite(q.body[b][k]) = [q.body[b][k] EXCEPT !.args = Sub(q.body[b][k].args, x, o)]
  <2> DEFINE i == q.body[b][k]
             s == PlaceOf(i)
  <2>1. i \in ToSet(q.body[b])
    BY <1>3, SetOf
  <2>2. s \in Places(q) /\ s[2] \in Seq(Value) /\ s[1] = i.id /\ s[2] = i.args
    BY <1>3, <2>1, OperandsOf
  <2> HIDE DEF i, s, Put
  <2>3. Put(i.id, i.args) = Sub(i.args, x, o)
    BY <1>4, <2>2
  <2>4. Rewrite(i) = [i EXCEPT !.args = Sub(i.args, x, o)]
    BY <2>3
  <2>5. QED
    BY <2>4 DEF i
<1>6. ASSUME NEW b \in AllBlocks(q)
      PROVE  Rewritten(b) = [q.exit[b] EXCEPT !.arg = Sub(q.exit[b].arg, x, o)]
  <2> DEFINE e == q.exit[b]
             s == ExitPlace(b, e)
  <2>1. s \in Places(q) /\ s[2] \in Seq(Value) /\ s[1] = -b /\ s[2] = e.arg
    BY <1>3, OperandsOf
  <2> HIDE DEF e, s, Put
  <2>2. Put(-b, e.arg) = Sub(e.arg, x, o)
    BY <1>4, <2>1
  <2>3. Rewritten(b) = [e EXCEPT !.arg = Sub(e.arg, x, o)]
    BY <2>2 DEF e
  <2>4. QED
    BY <2>3 DEF e
<1> HIDE DEF Put
<1>7. /\ DOMAIN t = Fields /\ t.multi = q.multi /\ t.funcs = q.funcs /\ t.blocks = q.blocks
      /\ t.next = q.next /\ t.defs = q.defs
      /\ t.body = [b \in DOMAIN q.body |-> [k \in DOMAIN q.body[b] |-> Rewrite(q.body[b][k])]]
      /\ t.exit = [b \in DOMAIN q.exit |-> Rewritten(b)]
      /\ t.uses = (q.uses \ uses_of(q, x))
                  \cup (IF IsVar(o) THEN {<<s[1], s[2], o.v>> : s \in sites} ELSE {})
  <2> HIDE DEF Rewrite, Rewritten
  <2>1. QED
    BY <1>3 DEF Fields
<1> HIDE DEF t, Rewrite, Rewritten
<1>8. t.body = [b \in AllBlocks(q) |-> [k \in DOMAIN q.body[b] |->
                  [q.body[b][k] EXCEPT !.args = Sub(q.body[b][k].args, x, o)]]]
  <2> DEFINE F(b) == [k \in DOMAIN q.body[b] |-> Rewrite(q.body[b][k])]
             G(b) == [k \in DOMAIN q.body[b] |->
                        [q.body[b][k] EXCEPT !.args = Sub(q.body[b][k].args, x, o)]]
  <2>1. \A b \in AllBlocks(q) : F(b) = G(b)
    BY <1>5
  <2>2. DOMAIN q.body = AllBlocks(q) /\ t.body = [b \in DOMAIN q.body |-> F(b)]
    BY <1>3, <1>7
  <2> HIDE DEF F, G
  <2>3. t.body = [b \in AllBlocks(q) |-> G(b)]
    BY <2>1, <2>2
  <2>4. QED
    BY <2>3 DEF G
<1>9. t.exit = [b \in AllBlocks(q) |-> [q.exit[b] EXCEPT !.arg = Sub(q.exit[b].arg, x, o)]]
  <2>1. DOMAIN q.exit = AllBlocks(q)
    BY <1>3
  <2>2. QED
    BY <1>6, <1>7, <2>1
<1>10. Substituted(q, x, o, t)
  BY <1>2, <1>7, <1>8, <1>9 DEF Substituted, SameLists
<1>11. QED
  BY <1>1, <1>2, <1>10

(* The operands in a place are values. *)
LEMMA PlaceArgs ==
  ASSUME NEW q, IsProgram(q), NEW s \in Places(q)
  PROVE  s[2] \in Seq(Value)
<1>1. PICK b \in AllBlocks(q) : s = ExitPlace(b, q.exit[b])
                                \/ \E i \in ToSet(q.body[b]) : s = PlaceOf(i)
  BY PlaceIs
<1>2. CASE s = ExitPlace(b, q.exit[b])
  BY <1>2, OperandsOf
<1>3. CASE \E i \in ToSet(q.body[b]) : s = PlaceOf(i)
  BY <1>3, OperandsOf
<1>4. QED
  BY <1>1, <1>2, <1>3

(* A place after the substitution. *)
SubPlace(s, x, o) == <<s[1], Sub(s[2], x, o)>>

(* The program after a substitution. *)
LEMMA SubstitutedShape ==
  ASSUME NEW q, IsProgram(q), NEW x \in Variables, NEW o \in Value,
         NEW r, Substituted(q, x, o, r)
  PROVE  /\ SameShape(q, r)
         /\ \A b \in AllBlocks(q) : SeqAssignments(r.body[b]) = SeqAssignments(q.body[b])
         /\ \A b \in AllBlocks(q) : BlockPlaces(r, b) = {SubPlace(s, x, o) : s \in BlockPlaces(q, b)}
<1> DEFINE G(b) == [k \in DOMAIN q.body[b] |->
                      [q.body[b][k] EXCEPT !.args = Sub(q.body[b][k].args, x, o)]]
           E(b) == [q.exit[b] EXCEPT !.arg = Sub(q.exit[b].arg, x, o)]
<1>1. r.body = [b \in AllBlocks(q) |-> G(b)] /\ r.exit = [b \in AllBlocks(q) |-> E(b)]
      /\ SameLists(q, r) /\ r.next = q.next
  BY DEF Substituted
<1>2. ASSUME NEW b \in AllBlocks(q)
      PROVE  /\ r.body[b] \in Seq(Instruction) /\ DOMAIN r.body[b] = DOMAIN q.body[b]
             /\ \A k \in DOMAIN q.body[b] :
                  /\ r.body[b][k].id = q.body[b][k].id /\ r.body[b][k].res = q.body[b][k].res
                  /\ r.body[b][k].args = Sub(q.body[b][k].args, x, o)
  <2> DEFINE s == q.body[b]
             t == r.body[b]
  <2>1. s \in Seq(Instruction)
    BY BlockFacts
  <2>2. t = [k \in DOMAIN s |-> [s[k] EXCEPT !.args = Sub(s[k].args, x, o)]]
    BY <1>1
  <2> HIDE DEF s, t
  <2>3. DOMAIN t = DOMAIN s /\ DOMAIN s = 1 .. Len(s) /\ Len(s) \in Nat
    BY <2>1, <2>2
  <2>4. ASSUME NEW k \in DOMAIN s
        PROVE  t[k] \in Instruction /\ t[k].id = s[k].id /\ t[k].res = s[k].res
               /\ t[k].args = Sub(s[k].args, x, o)
    <3> DEFINE i == s[k]
               a == Sub(i.args, x, o)
    <3>1. i \in Instruction /\ t[k] = [i EXCEPT !.args = a]
      BY <2>1, <2>2
    <3>2. a \in Seq(Value)
      <4>1. i.args \in Seq(Value)
        <5> HIDE DEF i
        <5>1. QED
          BY <3>1 DEF Instruction
      <4>2. QED
        BY <4>1, SubSeqOf
    <3> HIDE DEF i, a
    <3>3. t[k] \in Instruction /\ t[k].id = i.id /\ t[k].res = i.res /\ t[k].args = a
      BY <3>1, <3>2 DEF Instruction
    <3>4. QED
      BY <3>3 DEF i, a
  <2>5. t \in Seq(Instruction)
    <3>1. t = [k \in 1 .. Len(s) |-> t[k]]
      BY <2>2, <2>3
    <3>2. QED
      BY <2>3, <2>4, <3>1
  <2>6. QED
    BY <2>3, <2>4, <2>5 DEF s, t
<1>3. ASSUME NEW b \in AllBlocks(q)
      PROVE  r.exit[b] \in Exit /\ r.exit[b].arg = Sub(q.exit[b].arg, x, o)
  <2> DEFINE e == q.exit[b]
             a == Sub(e.arg, x, o)
  <2>1. e \in Exit /\ e.arg \in Seq(Value)
    BY OperandsOf
  <2>2. a \in Seq(Value)
    BY <2>1, SubSeqOf
  <2>3. r.exit[b] = [e EXCEPT !.arg = a]
    BY <1>1
  <2> HIDE DEF e, a
  <2>4. r.exit[b] \in Exit /\ r.exit[b].arg = a
    BY <2>1, <2>2, <2>3 DEF Exit
  <2>5. QED
    BY <2>4 DEF e, a
<1> HIDE DEF G, E
<1>4. SameShape(q, r)
  <2>1. r.body \in [AllBlocks(q) -> Seq(Instruction)]
    BY <1>1, <1>2
  <2>2. r.exit \in [AllBlocks(q) -> Exit]
    BY <1>1, <1>3
  <2>3. QED
    BY <1>1, <1>2, <2>1, <2>2 DEF SameShape
<1>5. ASSUME NEW b \in AllBlocks(q)
      PROVE  /\ SeqAssignments(r.body[b]) = SeqAssignments(q.body[b])
             /\ BlockPlaces(r, b) = {SubPlace(s, x, o) : s \in BlockPlaces(q, b)}
  <2> DEFINE s == q.body[b]
             t == r.body[b]
  <2>1. DOMAIN t = DOMAIN s
        /\ \A k \in DOMAIN s : t[k].id = s[k].id /\ t[k].res = s[k].res /\ t[k].args = Sub(s[k].args, x, o)
    BY <1>2
  <2> HIDE DEF s, t
  <2>2. \A k \in DOMAIN s : AssignmentOf(t[k]) = AssignmentOf(s[k])
    BY <2>1 DEF AssignmentOf
  <2>3. SeqAssignments(s) = {AssignmentOf(s[k]) : k \in DOMAIN s}
        /\ SeqAssignments(t) = {AssignmentOf(t[k]) : k \in DOMAIN s}
    BY <2>1 DEF SeqAssignments, ToSet
  <2>4. SeqAssignments(t) = SeqAssignments(s)
    BY <2>2, <2>3
  <2>5. \A k \in DOMAIN s : PlaceOf(t[k]) = SubPlace(PlaceOf(s[k]), x, o)
    BY <2>1 DEF PlaceOf, SubPlace
  <2>6. SeqPlaces(s) = {PlaceOf(s[k]) : k \in DOMAIN s} /\ SeqPlaces(t) = {PlaceOf(t[k]) : k \in DOMAIN s}
    BY <2>1 DEF SeqPlaces, ToSet
  <2>7. SeqPlaces(t) = {SubPlace(c, x, o) : c \in SeqPlaces(s)}
    BY <2>5, <2>6
  <2>8. ExitPlace(b, r.exit[b]) = SubPlace(ExitPlace(b, q.exit[b]), x, o)
    BY <1>3 DEF ExitPlace, SubPlace
  <2>9. BlockPlaces(r, b) = SeqPlaces(t) \cup {ExitPlace(b, r.exit[b])}
        /\ BlockPlaces(q, b) = SeqPlaces(s) \cup {ExitPlace(b, q.exit[b])}
    BY DEF BlockPlaces, s, t
  <2>10. BlockPlaces(r, b) = {SubPlace(c, x, o) : c \in BlockPlaces(q, b)}
    BY <2>7, <2>8, <2>9
  <2>11. QED
    BY <2>4, <2>10 DEF s, t
<1>6. QED
  BY <1>4, <1>5

(* UseInfo::replace_all_uses_with. *)
LEMMA ReplaceUsesKeeps ==
  ASSUME NEW q, Good(q), NEW x \in Variables, NEW o \in Value,
         NEW r, r = replace_all_uses_with(q, x, o)
  PROVE  Good(r) /\ (o # V(x) => ~Reads(r, x))
<1>1. IsProgram(q) /\ OwnAddresses(q) /\ q.uses = SitesOf(Places(q)) /\ q.defs = Named(Assignments(q))
      /\ (q.multi \/ AssignedOnce(q))
  BY DEF Good, Recorded
<1>2. CASE UseSites(q, x) = {}
  <2>1. r = q
    BY <1>2, ReplaceUsesIs
  <2>2. ~Reads(q, x)
    <3>1. SUFFICES ASSUME Reads(q, x) PROVE FALSE
      OBVIOUS
    <3>2. PICK s \in Places(q) : \E k \in DOMAIN s[2] : s[2][k] = V(x)
      BY <1>1, <3>1, ReadsIff
    <3>3. s[2] \in Seq(Value)
      BY <1>1, PlaceArgs
    <3>4. PICK k \in DOMAIN s[2] : s[2][k] = V(x)
      BY <3>2
    <3>5. <<s[1], k>> \in UseSites(q, x)
      BY <3>3, <3>4, UseSitesAre
    <3>6. QED
      BY <1>2, <3>5
  <2>3. QED
    BY <2>1, <2>2
<1>3. CASE UseSites(q, x) # {}
  <2>1. Substituted(q, x, o, r)
    BY <1>3, ReplaceUsesIs
  <2>2. /\ SameShape(q, r)
        /\ \A b \in AllBlocks(q) : SeqAssignments(r.body[b]) = SeqAssignments(q.body[b])
        /\ \A b \in AllBlocks(q) : BlockPlaces(r, b) = {SubPlace(s, x, o) : s \in BlockPlaces(q, b)}
    BY <1>1, <2>1, SubstitutedShape
  <2>3. IsProgram(r) /\ OwnAddresses(r) /\ AllBlocks(r) = AllBlocks(q)
    BY <1>1, <2>2, ShapeKeeps
  <2>4. Assignments(r) = Assignments(q)
    BY <2>2, <2>3 DEF Assignments
  <2>5. Places(r) = {SubPlace(s, x, o) : s \in Places(q)}
    BY <2>2, <2>3 DEF Places
  <2>6. r.multi = q.multi /\ r.defs = q.defs
        /\ r.uses = (q.uses \ uses_of(q, x))
              \cup (IF IsVar(o) THEN {<<s[1], s[2], o.v>> : s \in UseSites(q, x)} ELSE {})
    BY <2>1 DEF Substituted, SameLists
  <2>7. ASSUME NEW u
        PROVE  u \in SitesOf(Places(r)) <=>
                 \/ u \in q.uses /\ u[3] # x
                 \/ \E s \in Places(q) : \E k \in DOMAIN s[2] :
                      s[2][k] = V(x) /\ IsVar(o) /\ u = <<s[1], k, o.v>>
    <3>1. u \in SitesOf(Places(r)) <=> \E s \in Places(q) : u \in Sites(s[1], Sub(s[2], x, o))
      <4>1. u \in SitesOf(Places(r)) <=> \E t \in Places(r) : u \in Sites(t[1], t[2])
        BY DEF SitesOf
      <4>2. \A s : SubPlace(s, x, o)[1] = s[1] /\ SubPlace(s, x, o)[2] = Sub(s[2], x, o)
        BY DEF SubPlace
      <4>3. QED
        BY <2>5, <4>1, <4>2
    <3>2. u \in q.uses <=> \E s \in Places(q) : u \in Sites(s[1], s[2])
      BY <1>1 DEF SitesOf
    <3>3. ASSUME NEW s \in Places(q)
          PROVE  u \in Sites(s[1], Sub(s[2], x, o)) <=>
                   \/ u \in Sites(s[1], s[2]) /\ u[3] # x
                   \/ \E k \in DOMAIN s[2] : s[2][k] = V(x) /\ IsVar(o) /\ u = <<s[1], k, o.v>>
      <4>1. s[2] \in Seq(Value)
        BY <1>1, PlaceArgs
      <4>2. QED
        BY <4>1, SubSites
    <3>4. QED
      BY <3>1, <3>2, <3>3
  <2>8. ASSUME NEW u
        PROVE  (\E s \in Places(q) : \E k \in DOMAIN s[2] :
                  s[2][k] = V(x) /\ u = <<s[1], k, o.v>>)
               <=> \E a \in UseSites(q, x) : u = <<a[1], a[2], o.v>>
    <3>1. ASSUME NEW s \in Places(q), NEW k \in DOMAIN s[2], s[2][k] = V(x), u = <<s[1], k, o.v>>
          PROVE  \E a \in UseSites(q, x) : u = <<a[1], a[2], o.v>>
      <4>1. s[2] \in Seq(Value)
        BY <1>1, PlaceArgs
      <4> DEFINE a == <<s[1], k>>
      <4>2. a \in UseSites(q, x)
        BY <3>1, <4>1, UseSitesAre
      <4>3. a[1] = s[1] /\ a[2] = k
        OBVIOUS
      <4> HIDE DEF a
      <4>4. QED
        BY <3>1, <4>2, <4>3
    <3>2. ASSUME NEW a \in UseSites(q, x), u = <<a[1], a[2], o.v>>
          PROVE  \E s \in Places(q) : \E k \in DOMAIN s[2] : s[2][k] = V(x) /\ u = <<s[1], k, o.v>>
      <4>1. PICK w \in q.uses : w[3] = x /\ a = <<w[1], w[2]>>
        BY DEF UseSites, uses_of
      <4>2. PICK s \in Places(q) : w \in Sites(s[1], s[2])
        BY <1>1 DEF SitesOf
      <4>3. PICK k \in DOMAIN s[2] : w = <<s[1], k, s[2][k].v>>
        BY <4>2 DEF Sites
      <4>4. a = <<s[1], k>> /\ a[1] = s[1] /\ a[2] = k
        BY <4>1, <4>3
      <4>5. s[2] \in Seq(Value)
        BY <1>1, PlaceArgs
      <4>6. s[2][k] = V(x)
        BY <4>4, <4>5, UseSitesAre
      <4>7. QED
        BY <3>2, <4>4, <4>6
    <3>3. QED
      BY <3>1, <3>2
  <2>9. r.uses = SitesOf(Places(r))
    <3>1. ASSUME NEW u PROVE u \in r.uses <=> u \in SitesOf(Places(r))
      <4>1. u \in q.uses \ uses_of(q, x) <=> u \in q.uses /\ u[3] # x
        BY DEF uses_of
      <4>2. u \in (IF IsVar(o) THEN {<<s[1], s[2], o.v>> : s \in UseSites(q, x)} ELSE {})
            <=> IsVar(o) /\ \E a \in UseSites(q, x) : u = <<a[1], a[2], o.v>>
        OBVIOUS
      <4>3. QED
        BY <2>6, <2>7, <2>8, <4>1, <4>2
    <3>2. QED
      BY <3>1
  <2>10. r.multi \/ AssignedOnce(r)
    BY <1>1, <2>3, <2>4, <2>6, OnceIff
  <2>11. Good(r)
    BY <1>1, <2>3, <2>4, <2>6, <2>9, <2>10 DEF Good, Recorded
  <2>12. ASSUME o # V(x), Reads(r, x) PROVE FALSE
    <3>1. PICK t \in Places(r) : \E k \in DOMAIN t[2] : t[2][k] = V(x)
      BY <2>3, <2>12, ReadsIff
    <3>2. PICK s \in Places(q) : t = SubPlace(s, x, o)
      BY <2>5
    <3>3. t[2] = Sub(s[2], x, o)
      BY <3>2 DEF SubPlace
    <3>4. QED
      BY <2>12, <3>1, <3>3 DEF Sub
  <2>13. QED
    BY <2>11, <2>12
<1>4. QED
  BY <1>2, <1>3

(* An assignment of x becomes one of y. *)
Renamed(d, x, y) == IF d[1] = x THEN <<y, d[2]>> ELSE d

(* DefInfo and MultiDefInfo::replace_all_defs_with: the recorded sites are    *)
(* where x is assigned.                                                       *)
LEMMA ReplaceDefsKeeps ==
  ASSUME NEW q, Good(q), NEW x \in Variables, NEW y \in Variables, x # y,
         q.multi \/ \A i \in Listed(q) \ {} : i.res # y,
         NEW r, r = replace_all_defs_with(q, x, y)
  PROVE  Good(r) /\ ~Assigns(r, x)
<1> DEFINE sites == {d[2] : d \in defs_of(q, x)}
           Rewrite(i) == IF i.id \in sites THEN [i EXCEPT !.res = y] ELSE i
           left == IF q.multi THEN q.defs ELSE q.defs \ defs_of(q, y)
           t == [q EXCEPT
                  !.body = [b \in DOMAIN @ |-> [k \in DOMAIN @[b] |-> Rewrite(@[b][k])]],
                  !.defs = {d \in left \cup {<<y, k>> : k \in sites} : d[1] # x}]
<1>1. r = IF sites = {} THEN q ELSE t
  BY DEF replace_all_defs_with
<1>2. /\ IsProgram(q) /\ OwnAddresses(q) /\ DOMAIN q = Fields /\ q.multi \in BOOLEAN
      /\ q.body \in [AllBlocks(q) -> Seq(Instruction)] /\ q.exit \in [AllBlocks(q) -> Exit]
      /\ q.uses = SitesOf(Places(q))
  BY GoodFacts
<1>3. q.defs = Named(Assignments(q)) /\ (q.multi \/ AssignedOnce(q))
  BY DEF Good, Recorded
<1>4. /\ \A d, e \in Assignments(q) : d[2] = e[2] => d = e
      /\ Assignments(q) = {AssignmentOf(i) : i \in Listed(q)}
  BY <1>2, Distinct
<1>5. x # NoVar /\ y # NoVar
  BY VariablesAssumption
<1>6. \A n : n \in sites <=> \E d \in Assignments(q) : d[1] = x /\ d[2] = n
  BY <1>3, <1>5 DEF defs_of, Named
<1>7. \A d \in Assignments(q) : d[2] \in sites <=> d[1] = x
  BY <1>4, <1>6
<1> HIDE DEF sites
<1>8. CASE sites = {}
  <2>1. r = q
    BY <1>1, <1>8
  <2>2. \A i \in Listed(q) : i.res # x
    <3>1. ASSUME NEW i \in Listed(q), i.res = x PROVE FALSE
      <4>1. AssignmentOf(i) \in Assignments(q) /\ AssignmentOf(i)[1] = x
        BY <1>4, <3>1 DEF AssignmentOf
      <4>2. QED
        BY <1>7, <1>8, <4>1
    <3>2. QED
      BY <3>1
  <2>3. QED
    BY <2>1, <2>2 DEF Assigns
<1>9. CASE sites # {}
  <2>1. r = t
    BY <1>1, <1>9
  <2>2. /\ SameLists(q, r) /\ r.next = q.next /\ r.uses = q.uses /\ r.exit = q.exit
        /\ r.body = [b \in AllBlocks(q) |-> [k \in DOMAIN q.body[b] |-> Rewrite(q.body[b][k])]]
        /\ r.defs = {d \in left \cup {<<y, k>> : k \in sites} : d[1] # x}
    <3>1. DOMAIN q.body = AllBlocks(q)
      BY <1>2
    <3> HIDE DEF Rewrite, left
    <3>2. QED
      BY <1>2, <2>1, <3>1 DEF SameLists, Fields
  <2> HIDE DEF t
  <2>3. ASSUME NEW b \in AllBlocks(q)
        PROVE  /\ r.body[b] \in Seq(Instruction) /\ DOMAIN r.body[b] = DOMAIN q.body[b]
               /\ \A k \in DOMAIN q.body[b] :
                    /\ r.body[b][k].id = q.body[b][k].id /\ r.body[b][k].args = q.body[b][k].args
                    /\ AssignmentOf(r.body[b][k]) = Renamed(AssignmentOf(q.body[b][k]), x, y)
    <3> DEFINE s == q.body[b]
               u == r.body[b]
    <3>1. s \in Seq(Instruction) /\ ToSet(s) \subseteq Listed(q)
      BY <1>2, BlockFacts DEF Listed
    <3>2. u = [k \in DOMAIN s |-> Rewrite(s[k])]
      BY <2>2
    <3> HIDE DEF s, u
    <3>3. DOMAIN u = DOMAIN s /\ DOMAIN s = 1 .. Len(s) /\ Len(s) \in Nat
      BY <3>1, <3>2
    <3>4. ASSUME NEW k \in DOMAIN s
          PROVE  u[k] \in Instruction /\ u[k].id = s[k].id /\ u[k].args = s[k].args
                 /\ AssignmentOf(u[k]) = Renamed(AssignmentOf(s[k]), x, y)
      <4> DEFINE i == s[k]
      <4>1. i \in Instruction /\ i \in Listed(q) /\ u[k] = Rewrite(i)
        BY <3>1, <3>2, SetOf
      <4> HIDE DEF i
      <4>2. i.id \in sites <=> i.res = x
        <5>1. AssignmentOf(i) \in Assignments(q)
          BY <1>4, <4>1
        <5>2. AssignmentOf(i)[1] = i.res /\ AssignmentOf(i)[2] = i.id
          BY DEF AssignmentOf
        <5>3. QED
          BY <1>7, <5>1, <5>2
      <4>3. CASE i.res = x
        <5>1. u[k] = [i EXCEPT !.res = y]
          BY <4>1, <4>2, <4>3
        <5>2. u[k] \in Instruction /\ u[k].id = i.id /\ u[k].args = i.args /\ u[k].res = y
          <6>1. i \in Instruction /\ y \in Variables \cup {NoVar}
            BY <4>1
          <6>2. QED
            BY <5>1, <6>1 DEF Instruction
        <5>3. AssignmentOf(u[k]) = Renamed(AssignmentOf(i), x, y)
          BY <4>3, <5>2 DEF AssignmentOf, Renamed
        <5>4. QED
          BY <5>2, <5>3 DEF i
      <4>4. CASE i.res # x
        <5>1. u[k] = i
          BY <4>1, <4>2, <4>4
        <5>2. AssignmentOf(i) = Renamed(AssignmentOf(i), x, y)
          BY <4>4 DEF AssignmentOf, Renamed
        <5>3. QED
          BY <4>1, <5>1, <5>2 DEF i
      <4>5. QED
        BY <4>3, <4>4
    <3>5. u \in Seq(Instruction)
      <4>1. u = [k \in 1 .. Len(s) |-> u[k]]
        BY <3>2, <3>3
      <4>2. QED
        BY <3>3, <3>4, <4>1
    <3>6. QED
      BY <3>3, <3>4, <3>5 DEF s, u
  <2> HIDE DEF Rewrite
  <2>4. SameShape(q, r)
    <3>1. r.body \in [AllBlocks(q) -> Seq(Instruction)]
      BY <2>2, <2>3
    <3>2. QED
      BY <1>2, <2>2, <2>3, <3>1 DEF SameShape
  <2>5. IsProgram(r) /\ OwnAddresses(r) /\ AllBlocks(r) = AllBlocks(q)
    BY <1>2, <2>4, ShapeKeeps
  <2>6. ASSUME NEW b \in AllBlocks(q)
        PROVE  /\ BlockPlaces(r, b) = BlockPlaces(q, b)
               /\ SeqAssignments(r.body[b]) = {Renamed(d, x, y) : d \in SeqAssignments(q.body[b])}
    <3> DEFINE s == q.body[b]
               u == r.body[b]
    <3>1. DOMAIN u = DOMAIN s
          /\ \A k \in DOMAIN s : u[k].id = s[k].id /\ u[k].args = s[k].args
                                 /\ AssignmentOf(u[k]) = Renamed(AssignmentOf(s[k]), x, y)
      BY <2>3
    <3> HIDE DEF s, u
    <3>2. \A k \in DOMAIN s : PlaceOf(u[k]) = PlaceOf(s[k])
      BY <3>1 DEF PlaceOf
    <3>3. SeqPlaces(s) = {PlaceOf(s[k]) : k \in DOMAIN s} /\ SeqPlaces(u) = {PlaceOf(u[k]) : k \in DOMAIN s}
      BY <3>1 DEF SeqPlaces, ToSet
    <3>4. SeqPlaces(u) = SeqPlaces(s)
      BY <3>2, <3>3
    <3>5. SeqAssignments(s) = {AssignmentOf(s[k]) : k \in DOMAIN s}
          /\ SeqAssignments(u) = {AssignmentOf(u[k]) : k \in DOMAIN s}
      BY <3>1 DEF SeqAssignments, ToSet
    <3>6. SeqAssignments(u) = {Renamed(d, x, y) : d \in SeqAssignments(s)}
      BY <3>1, <3>5
    <3>7. BlockPlaces(r, b) = BlockPlaces(q, b)
      BY <2>2, <3>4 DEF BlockPlaces, s, u
    <3>8. QED
      BY <3>6, <3>7 DEF s, u
  <2>7. Places(r) = Places(q)
    BY <2>5, <2>6 DEF Places
  <2>8. Assignments(r) = {Renamed(d, x, y) : d \in Assignments(q)}
    BY <2>5, <2>6 DEF Assignments
  <2>9. left = q.defs
    <3>1. CASE q.multi
      BY <3>1
    <3>2. CASE ~q.multi
      <4>1. ASSUME NEW d \in q.defs, d[1] = y PROVE FALSE
        <5>1. PICK i \in Listed(q) : d = AssignmentOf(i)
          BY <1>3, <1>4 DEF Named
        <5>2. i.res = y
          BY <4>1, <5>1 DEF AssignmentOf
        <5>3. QED
          BY <3>2, <5>2
      <4>2. defs_of(q, y) = {}
        BY <4>1 DEF defs_of
      <4>3. QED
        BY <3>2, <4>2
    <3>3. QED
      BY <3>1, <3>2
  <2> HIDE DEF left
  <2>10. r.defs = Named(Assignments(r))
    <3>1. ASSUME NEW d \in r.defs PROVE d \in Named(Assignments(r))
      <4>1. CASE d \in q.defs
        <5>1. d[1] # x
          BY <2>2
        <5>2. d \in Assignments(q) /\ d[1] # NoVar /\ Renamed(d, x, y) = d
          BY <1>3, <4>1, <5>1 DEF Named, Renamed
        <5>3. QED
          BY <2>8, <5>2 DEF Named
      <4>2. CASE \E k \in sites : d = <<y, k>>
        <5>1. PICK e \in Assignments(q) : e[1] = x /\ d = <<y, e[2]>>
          BY <1>6, <4>2
        <5>2. d = Renamed(e, x, y) /\ d[1] = y
          BY <5>1 DEF Renamed
        <5>3. QED
          BY <1>5, <2>8, <5>2 DEF Named
      <4>3. QED
        BY <2>2, <2>9, <4>1, <4>2
    <3>2. ASSUME NEW d \in Named(Assignments(r)) PROVE d \in r.defs
      <4>1. PICK e \in Assignments(q) : d = Renamed(e, x, y) /\ d[1] # NoVar
        BY <2>8 DEF Named
      <4>2. CASE e[1] = x
        <5>1. d = <<y, e[2]>> /\ d[1] = y /\ e[2] \in sites
          BY <1>7, <4>1, <4>2 DEF Renamed
        <5>2. QED
          BY <2>2, <5>1
      <4>3. CASE e[1] # x
        <5>1. d = e
          BY <4>1, <4>3 DEF Renamed
        <5>2. d \in q.defs
          BY <1>3, <4>1, <5>1 DEF Named
        <5>3. QED
          BY <2>2, <2>9, <4>3, <5>1, <5>2
      <4>4. QED
        BY <4>2, <4>3
    <3>3. QED
      BY <3>1, <3>2
  <2>11. r.uses = SitesOf(Places(r))
    BY <1>2, <2>2, <2>7
  <2>12. r.multi = q.multi
    BY <2>2 DEF SameLists
  <2>13. r.multi \/ AssignedOnce(r)
    <3>1. SUFFICES ASSUME ~q.multi PROVE OnceIn(Assignments(r))
      BY <2>5, <2>12, OnceIff
    <3>2. OnceIn(Assignments(q))
      BY <1>2, <1>3, <3>1, OnceIff
    <3>3. ASSUME NEW d \in Assignments(q) PROVE d[1] # y
      <4>1. PICK i \in Listed(q) : d = AssignmentOf(i)
        BY <1>4
      <4>2. QED
        BY <3>1, <4>1 DEF AssignmentOf
    <3>4. ASSUME NEW d \in Assignments(q), NEW e \in Assignments(q),
                 Renamed(d, x, y)[1] = Renamed(e, x, y)[1], Renamed(d, x, y)[1] # NoVar
          PROVE  d = e
      <4>1. \A c \in Assignments(q) : Renamed(c, x, y)[1] = IF c[1] = x THEN y ELSE c[1]
        BY DEF Renamed
      <4>2. d[1] = e[1] /\ d[1] # NoVar
        BY <1>5, <3>3, <3>4, <4>1
      <4>3. QED
        BY <3>2, <4>2 DEF OnceIn
    <3>5. QED
      BY <2>8, <3>4 DEF OnceIn
  <2>14. Good(r)
    BY <2>5, <2>10, <2>11, <2>13 DEF Good, Recorded
  <2>15. ASSUME NEW i \in Listed(r), i.res = x PROVE FALSE
    <3>1. AssignmentOf(i) \in Assignments(r) /\ AssignmentOf(i)[1] = x
      BY <2>5, <2>15, Distinct DEF AssignmentOf
    <3>2. PICK d \in Assignments(q) : AssignmentOf(i) = Renamed(d, x, y)
      BY <2>8, <3>1
    <3>3. QED
      BY <3>1, <3>2 DEF Renamed
  <2>16. QED
    BY <2>14, <2>15 DEF Assigns
<1>10. QED
  BY <1>8, <1>9

(* A graph built anew is exact. *)
LEMMA GraphGood ==
  ASSUME NEW q, IsProgram(q), OwnAddresses(q), NEW m \in BOOLEAN, m \/ AssignedOnce(q)
  PROVE  Good(Graph(q, m))
<1> DEFINE n == [q EXCEPT !.multi = m]
           r == Graph(q, m)
<1>1. DOMAIN q = Fields
  BY DEF IsProgram
<1>2. /\ DOMAIN n = Fields /\ n.multi = m /\ n.funcs = q.funcs /\ n.blocks = q.blocks
      /\ n.body = q.body /\ n.exit = q.exit /\ n.next = q.next
  BY <1>1 DEF Fields
<1> HIDE DEF n
<1>3. /\ DOMAIN r = Fields /\ r.multi = m /\ r.funcs = q.funcs /\ r.blocks = q.blocks
      /\ r.body = q.body /\ r.exit = q.exit /\ r.next = q.next
      /\ r.uses = ReferenceUses(n) /\ r.defs = ReferenceDefs(n)
  <2>1. r = [n EXCEPT !.uses = ReferenceUses(n), !.defs = ReferenceDefs(n)]
    BY DEF Graph, Observed, n
  <2> HIDE DEF r
  <2>2. QED
    BY <1>2, <2>1 DEF Fields
<1> HIDE DEF r
<1>4. ASSUME NEW o \in {n, r}
      PROVE  /\ IsProgram(o) /\ OwnAddresses(o) /\ (o.multi \/ AssignedOnce(o))
             /\ Places(o) = Places(q) /\ Assignments(o) = Assignments(q)
  <2>1. /\ DOMAIN o = Fields /\ o.multi = m /\ o.funcs = q.funcs /\ o.blocks = q.blocks
        /\ o.body = q.body /\ o.exit = q.exit /\ o.next = q.next
    BY <1>2, <1>3
  <2>2. (\A f : Blocks(o, f) = Blocks(q, f)) /\ AllBlocks(o) = AllBlocks(q)
    BY <2>1 DEF Blocks, AllBlocks
  <2>3. IsProgram(o)
    BY <2>1, <2>2 DEF IsProgram
  <2>4. Listed(o) = Listed(q)
    BY <2>1, <2>2 DEF Listed
  <2>5. OwnAddresses(o)
    BY <2>1, <2>2, <2>4 DEF OwnAddresses
  <2>6. o.multi \/ AssignedOnce(o)
    BY <2>1, <2>4 DEF AssignedOnce
  <2>7. \A b : BlockPlaces(o, b) = BlockPlaces(q, b)
    BY <2>1 DEF BlockPlaces
  <2>8. Places(o) = Places(q)
    BY <2>2, <2>7 DEF Places
  <2>9. Assignments(o) = Assignments(q)
    BY <2>1, <2>2 DEF Assignments
  <2>10. QED
    BY <2>3, <2>5, <2>6, <2>8, <2>9
<1>5. /\ IsProgram(n) /\ OwnAddresses(n) /\ (n.multi \/ AssignedOnce(n))
      /\ Places(n) = Places(q) /\ Assignments(n) = Assignments(q)
  BY <1>4
<1>6. /\ IsProgram(r) /\ OwnAddresses(r) /\ (r.multi \/ AssignedOnce(r))
      /\ Places(r) = Places(q) /\ Assignments(r) = Assignments(q)
  BY <1>4
<1>7. ReferenceUses(n) = SitesOf(Places(n)) /\ ReferenceDefs(n) = Named(Assignments(n))
  BY <1>5, VerifyIff
<1>8. Good(r)
  BY <1>3, <1>5, <1>6, <1>7 DEF Good, Recorded
<1>9. QED
  BY <1>8 DEF r

------------------------------------------------------------------------------
(* Every sequence of calls.                                                  *)

(* The calls on a block. *)
BlockCall(b) ==
  \/ \E k \in DOMAIN p.body[b], i \in New : Replace(b, k, i)
  \/ \E k \in 1 .. Len(p.body[b]) + 1, i \in New : Insert(b, k, i)
  \/ \E k \in DOMAIN p.body[b] : Erase(b, k)
  \/ \E e \in NewExits : SetExit(b, e)

(* The calls on a function. *)
FuncCall(f) ==
  \/ \E b \in Labels \ AllBlocks(p), insts \in NewBodies, e \in NewExits :
       AddBlock(f, b, insts, e)
  \/ \E b \in Blocks(p, f) :
       \/ RemoveBlock(f, b)
       \/ \E k \in 1 .. Len(p.body[b]) + 1, e \in NewExits, new \in Labels \ AllBlocks(p) :
            Split(f, b, k, e, new)
  \/ RemoveFunc(f)

(* A call on a block keeps the records exact. *)
LEMMA BlockCallKeeps ==
  ASSUME Good(p), NEW b \in AllBlocks(p), BlockCall(b)
  PROVE  Good(p')
<1>1. ASSUME NEW k \in DOMAIN p.body[b], NEW i \in New, Replace(b, k, i) PROVE Good(p')
  <2>1. i \in Instruction
    BY InputsAssumption
  <2>2. p.multi \/ i.res = NoVar \/ \A j \in Listed(p) \ {p.body[b][k]} : j.res # i.res
    BY <1>1 DEF Replace, MayDefine
  <2>3. Good(replace(p, b, k, i))
    BY <2>1, <2>2, ReplaceKeeps
  <2>4. QED
    BY <1>1, <2>3 DEF Replace
<1>2. ASSUME NEW k \in 1 .. Len(p.body[b]) + 1, NEW i \in New, Insert(b, k, i) PROVE Good(p')
  <2>1. i \in Instruction
    BY InputsAssumption
  <2>2. p.multi \/ i.res = NoVar \/ \A j \in Listed(p) \ {} : j.res # i.res
    BY <1>2 DEF Insert, MayDefine
  <2>3. Good(insert_at(p, b, k, i))
    BY <2>1, <2>2, InsertKeeps
  <2>4. QED
    BY <1>2, <2>3 DEF Insert
<1>3. ASSUME NEW k \in DOMAIN p.body[b], Erase(b, k) PROVE Good(p')
  BY <1>3, EraseKeeps DEF Erase
<1>4. ASSUME NEW e \in NewExits, SetExit(b, e) PROVE Good(p')
  <2>1. e \in Exit
    BY InputsAssumption
  <2>2. QED
    BY <1>4, <2>1, SetExitKeeps DEF SetExit
<1>5. QED
  BY <1>1, <1>2, <1>3, <1>4 DEF BlockCall

(* A call on a function keeps the records exact. *)
LEMMA FuncCallKeeps ==
  ASSUME Good(p), NEW f \in ToSet(p.funcs), FuncCall(f)
  PROVE  Good(p')
<1>1. ASSUME NEW b \in Labels \ AllBlocks(p), NEW insts \in NewBodies, NEW e \in NewExits,
             AddBlock(f, b, insts, e)
      PROVE  Good(p')
  <2>1. insts \in Seq(Instruction) /\ e \in Exit
    BY InputsAssumption
  <2>2. \A k \in DOMAIN insts : p.multi \/ insts[k].res = NoVar
                                 \/ \A j \in Listed(p) \ {} : j.res # insts[k].res
    BY <1>1 DEF AddBlock, MayDefine
  <2>3. p.multi \/ \A j, k \in DOMAIN insts :
                      insts[j].res = insts[k].res /\ insts[j].res # NoVar => j = k
    BY <1>1 DEF AddBlock
  <2>4. Good(addBlock(p, f, b, insts, e))
    BY <2>1, <2>2, <2>3, AddBlockKeeps
  <2>5. QED
    BY <1>1, <2>4 DEF AddBlock
<1>2. ASSUME NEW b \in Blocks(p, f), RemoveBlock(f, b) PROVE Good(p')
  BY <1>2, RemoveBlockKeeps DEF RemoveBlock
<1>3. ASSUME NEW b \in Blocks(p, f), NEW k \in 1 .. Len(p.body[b]) + 1, NEW e \in NewExits,
             NEW new \in Labels \ AllBlocks(p), Split(f, b, k, e, new)
      PROVE  Good(p')
  <2>1. e \in Exit
    BY InputsAssumption
  <2>2. Good(split(p, f, b, k, e, new))
    BY <2>1, SplitKeeps
  <2>3. QED
    BY <1>3, <2>2 DEF Split
<1>4. ASSUME RemoveFunc(f) PROVE Good(p')
  BY <1>4, RemoveFuncKeeps DEF RemoveFunc
<1>5. QED
  BY <1>1, <1>2, <1>3, <1>4 DEF FuncCall

(* The inductive invariant is one. *)
LEMMA NextKeeps ==
  ASSUME Good(p), [Next]_vars
  PROVE  Good(p')
<1>1. CASE UNCHANGED vars
  BY <1>1 DEF vars
<1>2. CASE Next
  <2>1. AnyCall
    BY <1>2 DEF Next
  <2>2. ASSUME NEW m \in BOOLEAN, Observe(m) PROVE Good(p')
    <3>1. IsProgram(p) /\ OwnAddresses(p)
      BY DEF Good
    <3>2. QED
      BY <2>2, <3>1, GraphGood DEF Observe
  <2>3. ASSUME NEW b \in AllBlocks(p), BlockCall(b) PROVE Good(p')
    BY <2>3, BlockCallKeeps
  <2>4. ASSUME NEW f \in ToSet(p.funcs), FuncCall(f) PROVE Good(p')
    BY <2>4, FuncCallKeeps
  <2>5. ASSUME NEW x \in Variables, NEW o \in NewValues, ReplaceUses(x, o) PROVE Good(p')
    <3>1. o \in Value
      BY InputsAssumption
    <3>2. QED
      BY <2>5, <3>1, ReplaceUsesKeeps DEF ReplaceUses
  <2>6. ASSUME NEW x \in Variables, NEW y \in Variables, ReplaceDefs(x, y) PROVE Good(p')
    <3>1. x # y /\ y # NoVar
      BY <2>6, VariablesAssumption DEF ReplaceDefs
    <3>2. p.multi \/ \A i \in Listed(p) \ {} : i.res # y
      BY <2>6, <3>1 DEF ReplaceDefs, MayDefine
    <3>3. QED
      BY <2>6, <3>1, <3>2, ReplaceDefsKeeps DEF ReplaceDefs
  <2>7. QED
    BY <2>1, <2>2, <2>3, <2>4, <2>5, <2>6 DEF AnyCall, BlockCall, FuncCall
<1>3. QED
  BY <1>1, <1>2

(* Whatever passes call, the program stays one and the records follow it. *)
LEMMA GoodInvariant == Spec => []Good(p)
<1>1. Init => Good(p)
  <2>1. SUFFICES ASSUME NEW q \in Programs, NEW m \in BOOLEAN, m \/ AssignedOnce(q), p = Graph(q, m)
                 PROVE  Good(p)
    BY DEF Init
  <2>2. IsProgram(q) /\ OwnAddresses(q)
    BY ProgramsAssumption
  <2>3. QED
    BY <2>1, <2>2, GraphGood
<1>2. Good(p) /\ [Next]_vars => Good(p)'
  BY NextKeeps
<1>3. QED
  BY <1>1, <1>2, PTL DEF Spec

(* WellFormed: no sequence of calls (Block::insert, Func::split, addBlock,   *)
(* removeBlock, ...) puts a block in two places, gives two instructions one  *)
(* address or, where a pass keeps SSA form, leaves it.                       *)
THEOREM ProgramsStayWellFormed == Spec => []WellFormed
<1>1. Good(p) => WellFormed
  BY DEF Good, WellFormed
<1>2. QED
  BY <1>1, GoodInvariant, PTL

(* GraphExact: after any sequence of calls, the observers (UseInfo, DefInfo, *)
(* MultiDefInfo) have recorded what new ones would record, so that their     *)
(* verify() never fails, for any program, values and number of calls.        *)
THEOREM GraphStaysExact == Spec => []GraphExact
<1>1. Good(p) => GraphExact
  <2>1. SUFFICES ASSUME Good(p) PROVE verify(p)
    BY DEF GraphExact
  <2>2. IsProgram(p) /\ OwnAddresses(p) /\ (p.multi \/ AssignedOnce(p)) /\ Recorded(p)
    BY <2>1 DEF Good
  <2>3. QED
    BY <2>2, VerifyIff
<1>2. QED
  BY <1>1, GoodInvariant, PTL

(* ReplacedEverywhere: replace_all_uses_with leaves no operand that reads    *)
(* the old variable and replace_all_defs_with no instruction that assigns    *)
(* it, because the recorded sites are all there are.                         *)
THEOREM ReplacementsAreComplete == Spec => ReplacedEverywhere
<1>1. Good(p) /\ [Next]_vars =>
        [\A x \in Variables :
           /\ \A o \in NewValues : ReplaceUses(x, o) /\ o # V(x) => ~Reads(p', x)
           /\ \A y \in Variables : ReplaceDefs(x, y) => ~Assigns(p', x)]_vars
  <2>1. SUFFICES ASSUME Good(p), NEW x \in Variables
                 PROVE  /\ \A o \in NewValues : ReplaceUses(x, o) /\ o # V(x) => ~Reads(p', x)
                        /\ \A y \in Variables : ReplaceDefs(x, y) => ~Assigns(p', x)
    OBVIOUS
  <2>2. ASSUME NEW o \in NewValues, ReplaceUses(x, o), o # V(x) PROVE ~Reads(p', x)
    <3>1. o \in Value
      BY InputsAssumption
    <3>2. QED
      BY <2>1, <2>2, <3>1, ReplaceUsesKeeps DEF ReplaceUses
  <2>3. ASSUME NEW y \in Variables, ReplaceDefs(x, y) PROVE ~Assigns(p', x)
    <3>1. x # y /\ y # NoVar
      BY <2>3, VariablesAssumption DEF ReplaceDefs
    <3>2. p.multi \/ \A i \in Listed(p) \ {} : i.res # y
      BY <2>3, <3>1 DEF ReplaceDefs, MayDefine
    <3>3. QED
      BY <2>1, <2>3, <3>1, <3>2, ReplaceDefsKeeps DEF ReplaceDefs
  <2>4. QED
    BY <2>2, <2>3
<1>2. QED
  BY <1>1, GoodInvariant, PTL DEF Spec, ReplacedEverywhere
=============================================================================
