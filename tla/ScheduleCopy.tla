---------------------------- MODULE ScheduleCopy ----------------------------
(* ReplacePhi::schedule_copy of transform/ssa/destruct.hpp: the copies that  *)
(* the phi instructions of the successors ask of one block are put in an     *)
(* order in which no copy reads what an earlier one has overwritten; a cycle *)
(* is broken with a fresh temporary.                                         *)
(*                                                                           *)
(* A MOV takes effect on `value' when it is appended: the block runs the     *)
(* copies in the order in which they are appended.  Every location starts    *)
(* with a value named after itself, so that "holds the value x had" reads    *)
(* value[l] = x.                                                             *)
EXTENDS Integers, Sequences, FiniteSets, Functions

CONSTANTS
  Var,     \* the variables of the function
  Const,   \* constant operands, never a destination
  Temp     \* what Func::newTemp can return

ASSUME LocationsFinite == IsFiniteSet(Var) /\ IsFiniteSet(Const)
ASSUME LocationsDisjoint ==
  Var \cap Const = {} /\ Var \cap Temp = {} /\ Const \cap Temp = {}

Loc == Var \cup Const \cup Temp

VARIABLES
  copies,    \* {from, to} for every phi of a successor, kept to state properties
  copy_set,  \* the copies that wait
  worklist,  \* the copies that are ready
  map,       \* where the value of a source is found now
  value,     \* the value in every location
  temps,     \* the temporaries handed out
  pc         \* the pass schedule_copy is in

vars == <<copies, copy_set, worklist, map, value, temps, pc>>

Copy == (Var \cup Const) \X Var

(* used[v]: some copy reads v. *)
Used(v) == \E c \in copies : c[1] = v

Pending == copy_set \cup Range(worklist)

(* The vectors that hold the elements of a set, each once. *)
Listings(S) == {w \in [1 .. Cardinality(S) -> S] : Range(w) = S /\ IsInjective(w)}

-----------------------------------------------------------------------------
(* Pass 1: a phi has one value for the block, a variable is defined by one phi. *)
Init ==
  /\ copies \in SUBSET Copy
  /\ \A c, d \in copies : c[2] = d[2] => c = d
  /\ copy_set = copies
  /\ worklist = <<>>
  /\ map = [l \in Loc |-> l]
  /\ value = [l \in Loc |-> l]
  /\ temps = {}
  /\ pc = "setup"

(* A slip in SetUp: every copy is ready. *)
SetUpAllReady ==
  /\ pc = "setup"
  /\ worklist' \in Listings(copy_set)
  /\ copy_set' = {}
  /\ pc' = "iterate"
  /\ UNCHANGED <<copies, map, value, temps>>

(* Pass 2: the copies whose destination nobody reads are ready. *)
SetUp ==
  LET ready == {c \in copy_set : ~Used(c[2])}
  IN  /\ pc = "setup"
      /\ worklist' \in Listings(ready)
      /\ copy_set' = copy_set \ ready
      /\ pc' = "iterate"
      /\ UNCHANGED <<copies, map, value, temps>>

(* Slips in TakeReady: the source is read in place; the copy stays ready. *)
TakeReadyInPlace ==
  LET last  == worklist[Len(worklist)]
      freed == {c \in copy_set : c[2] = last[1]}
  IN  /\ pc = "iterate"
      /\ worklist # <<>>
      /\ value' = [value EXCEPT ![last[2]] = value[last[1]]]
      /\ map' = [map EXCEPT ![last[1]] = last[2]]
      /\ \E w \in Listings(freed) : worklist' = SubSeq(worklist, 1, Len(worklist) - 1) \o w
      /\ copy_set' = copy_set \ freed
      /\ UNCHANGED <<copies, temps, pc>>

TakeReadyAgain ==
  LET last == worklist[Len(worklist)]
  IN  /\ pc = "iterate"
      /\ worklist # <<>>
      /\ value' = [value EXCEPT ![last[2]] = value[map[last[1]]]]
      /\ UNCHANGED <<copies, copy_set, worklist, map, temps, pc>>

(* Pass 3, inner loop: take the last ready copy, append it, and make ready  *)
(* the copies that waited to overwrite its source.                          *)
TakeReady ==
  LET last  == worklist[Len(worklist)]
      src   == last[1]
      dest  == last[2]
      freed == {c \in copy_set : c[2] = src}
  IN  /\ pc = "iterate"
      /\ worklist # <<>>
      /\ value' = [value EXCEPT ![dest] = value[map[src]]]
      /\ map' = [map EXCEPT ![src] = dest]
      /\ \E w \in Listings(freed) : worklist' = SubSeq(worklist, 1, Len(worklist) - 1) \o w
      /\ copy_set' = copy_set \ freed
      /\ UNCHANGED <<copies, temps, pc>>

(* A slip in BreakCycle: nobody is told where the value was saved. *)
BreakCycleUntold ==
  /\ pc = "iterate"
  /\ worklist = <<>>
  /\ \E c \in copy_set, temp \in Temp \ temps :
       /\ copy_set' = copy_set \ {c}
       /\ value' = [value EXCEPT ![temp] = value[c[2]]]
       /\ worklist' = <<c>>
       /\ temps' = temps \cup {temp}
  /\ UNCHANGED <<copies, map, pc>>

(* Pass 3, outer loop: only cycles are left; save a destination and go on. *)
BreakCycle ==
  /\ pc = "iterate"
  /\ worklist = <<>>
  /\ \E c \in copy_set, temp \in Temp \ temps :
       /\ copy_set' = copy_set \ {c}
       /\ value' = [value EXCEPT ![temp] = value[c[2]]]
       /\ map' = [map EXCEPT ![c[2]] = temp]
       /\ worklist' = <<c>>
       /\ temps' = temps \cup {temp}
  /\ UNCHANGED <<copies, pc>>

Finish ==
  /\ pc = "iterate"
  /\ worklist = <<>> /\ copy_set = {}
  /\ pc' = "done"
  /\ UNCHANGED <<copies, copy_set, worklist, map, value, temps>>

(* schedule_copy has returned. *)
Returned == pc = "done" /\ UNCHANGED vars

Next == SetUp \/ TakeReady \/ BreakCycle \/ Finish \/ Returned

Spec == Init /\ [][Next]_vars

(* The loops run without waiting for anything. *)
FairSpec == Spec /\ WF_vars(Next)

-----------------------------------------------------------------------------
(* A copy waits or is ready, never both. *)
TypeOK ==
  /\ copies \subseteq Copy /\ copy_set \subseteq Copy
  /\ worklist \in Seq(Copy) /\ copy_set \cap Range(worklist) = {}
  /\ map \in [Loc -> Loc] /\ value \in [Loc -> Loc]
  /\ temps \subseteq Temp
  /\ pc \in {"setup", "iterate", "done"}

(* The value a waiting copy has to deliver is still where map says: no copy *)
(* appended so far has overwritten it (the swap problem).                   *)
SourcesSaved == \A c \in Pending : value[map[c[1]]] = c[1]

(* A copy is ready only if nobody needs the old value of its destination    *)
(* in place: either no waiting copy reads it, or map has it elsewhere.      *)
ReadyIsSafe == \A c \in Range(worklist), d \in Pending : d[1] = c[2] => map[c[2]] # c[2]

(* The copies that ran delivered, and what is no destination is untouched. *)
Delivered ==
  /\ \A c \in copies \ Pending : value[c[2]] = c[1]
  /\ \A v \in Var \cup Const : (\A c \in copies \ Pending : c[2] # v) => value[v] = v

(* The block assigns in one atomic step, as the phi instructions do. *)
Atomically == INSTANCE ParallelAssign WITH
  value <- [v \in Var |-> IF pc = "done" THEN value[v] ELSE v], over <- (pc = "done")

AssignsInParallel == Atomically!Spec

(* schedule_copy returns. *)
Termination == <>(pc = "done")

(* One copy less is pending, or one less waits while as many are pending.    *)
Advances ==
  \/ pc = "setup" /\ pc' = "iterate"
  \/ pc = "iterate" /\ pc' = "done"
  \/ /\ pc' = pc
     /\ \/ Pending' \subseteq Pending /\ Pending' # Pending
        \/ /\ Pending' = Pending
           /\ copy_set' \subseteq copy_set /\ copy_set' # copy_set

(* Each turn of the loops brings the end nearer: a copy that leaves the      *)
(* worklist never returns, and the copies that it sets free waited before.   *)
CopiesAdvance == [][Advances]_vars
=============================================================================
