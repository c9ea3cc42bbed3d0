---------------------------- MODULE ConstructSSA ----------------------------
(* ConstructSSA of transform/ssa/construct.hpp on one function: AddPhi puts  *)
(* pruned phi instructions at iterated dominance frontiers, Rename gives     *)
(* every definition a version of its own and every use the version that is   *)
(* on top of its variable's stack on a walk down the dominator tree.         *)
(*                                                                           *)
(* Afterwards the function runs twice side by side, as it was written and as *)
(* it was renamed: every definition writes the same arbitrary value in both. *)
(*                                                                           *)
(* What AddPhi and Rename take from the analyses (the dominator tree, the    *)
(* frontiers and the live variables) is given by what those compute, which   *)
(* the modules Dominance and Liveness are about.                             *)
EXTENDS FlowGraph, Sequences, SequencesExt

CONSTANTS
  Var,     \* the mutable allocs of the function, locals and parameters
  Value    \* the values a variable can hold

VARIABLES
  succ, body, exit_use,       \* the function as it was written
  children, frontier, live,   \* the results of the analyses
  pc,            \* the pass that runs
  allocs,        \* the allocs whose loop has not begun
  alloc,         \* the alloc whose loop runs, a set of at most one
  worklist,      \* the blocks that wait in that loop
  in_worklist,   \* the blocks that have been in it
  phi,           \* the variables with a phi at the start of every block
  version,       \* the next version of every variable
  rename_stack,  \* the versions in scope
  frames,        \* the calls of rename: the block, the children left, push_count
  name,          \* the version every operand was renamed to
  place,         \* the block and the instruction the two runs are at
  env,           \* the value of every variable in the original
  ssa            \* the value of every version in the renamed function

program == <<succ, body, exit_use, children, frontier, live>>
addPhi == <<allocs, alloc, worklist, in_worklist, phi>>
rename == <<version, rename_stack, frames, name>>
run == <<place, env, ssa>>
vars == <<program, pc, addPhi, rename, run>>

Inst == [def : SUBSET Var, uses : SUBSET Var]

(* An operand that was not renamed still is the NamedValue. *)
Named == -1

Defines(v) == {b \in Block : \E i \in DOMAIN body[b] : v \in body[b][i].def}

(* The operands of the function: instruction 0 of a block stands for its     *)
(* phis, the one after the last for its exit, and <<"arg", b, p, v>> is what *)
(* the phi of v in b takes from p.                                           *)
Slot(insts) ==
  (UNION {{"use", "def"} \X {b} \X (0 .. Len(insts[b]) + 1) \X Var : b \in Block})
    \cup ({"arg"} \X Block \X Block \X Var)

(* The versions a variable can get: every instruction and every block's phi  *)
(* defines it at most once.                                                  *)
Versions(insts) ==
  0 .. NB + Cardinality(UNION {{b} \X DOMAIN insts[b] : b \in Block})

-----------------------------------------------------------------------------
(* Liveness::in, for blocks whose instructions have no phi yet. *)
ReadsFirst(v, insts, use) ==
  LET accesses == {i \in DOMAIN insts : v \in insts[i].def \cup insts[i].uses}
  IN  IF accesses = {} THEN v \in use
      ELSE \E i \in accesses : v \in insts[i].uses /\ \A j \in accesses : i <= j

LiveIn(graph, insts, uses, v, b) ==
  \A S \in SUBSET Block :
    (\A c \in Block : \/ ReadsFirst(v, insts[c], uses[c])
                      \/ /\ \A i \in DOMAIN insts[c] : v \notin insts[c][i].def
                         /\ graph[c] \cap S # {}
                      => c \in S) => b \in S

(* ConstructSSA is applied to a function all of whose blocks are reachable. *)
Construct(graph, insts, uses) ==
  LET pred == PredOf(graph)
  IN  /\ \A b \in Block : ~Unreachable(pred, b)
      /\ succ = graph /\ body = insts /\ exit_use = uses
      /\ children = [b \in Block |-> {c \in Block : ImmediatelyDominates(pred, b, c)}]
      /\ frontier = [b \in Block |-> {w \in Block : InFrontier(pred, w, b)}]
      /\ live = [b \in Block |-> {v \in Var : LiveIn(graph, insts, uses, v, b)}]
      /\ pc = "phi"
      /\ allocs = Var /\ alloc = {}
      /\ worklist = {} /\ in_worklist = {}
      /\ phi = [b \in Block |-> {}]
      /\ version = [v \in Var |-> 0]
      /\ rename_stack = [v \in Var |-> <<>>]
      /\ frames = <<>>
      /\ name = [s \in Slot(insts) |-> Named]
      /\ place = <<Entry, 1>>
      /\ env \in [Var -> Value]
      /\ ssa = [v \in Var |-> [n \in {Named} \cup Versions(insts) |-> env[v]]]

Init ==
  \E graph \in [Block -> Targets], insts \in [Block -> Seq(Inst)],
     uses \in [Block -> SUBSET Var] : Construct(graph, insts, uses)

-----------------------------------------------------------------------------
(* AddPhi::transform, the loop over the allocs. *)
StartAlloc(v) ==
  /\ pc = "phi" /\ worklist = {}
  /\ v \in allocs
  /\ allocs' = allocs \ {v}
  /\ alloc' = {v}
  /\ worklist' = Defines(v)
  /\ in_worklist' = Defines(v)
  /\ UNCHANGED <<program, pc, phi, rename, run>>

(* Slips in PlacePhi: a block that gets a phi is not queued; the phis go to  *)
(* the successors, joins or not.                                             *)
PlacePhiOnce(b) ==
  LET needy == {f \in frontier[b] : alloc \subseteq live[f]}
  IN  /\ pc = "phi"
      /\ b \in worklist
      /\ phi' = [c \in Block |-> IF c \in needy THEN phi[c] \cup alloc ELSE phi[c]]
      /\ worklist' = worklist \ {b}
      /\ UNCHANGED <<program, pc, allocs, alloc, in_worklist, rename, run>>

PlacePhiAtSuccessors(b) ==
  LET needy == {f \in succ[b] : alloc \subseteq live[f]}
  IN  /\ pc = "phi"
      /\ b \in worklist
      /\ phi' = [c \in Block |-> IF c \in needy THEN phi[c] \cup alloc ELSE phi[c]]
      /\ worklist' = (worklist \ {b}) \cup (needy \ in_worklist)
      /\ in_worklist' = in_worklist \cup needy
      /\ UNCHANGED <<program, pc, allocs, alloc, rename, run>>

(* The worklist loop: a queue filled from an unordered_set. *)
PlacePhi(b) ==
  LET needy == {f \in frontier[b] : alloc \subseteq live[f]}
  IN  /\ pc = "phi"
      /\ b \in worklist
      /\ phi' = [c \in Block |-> IF c \in needy THEN phi[c] \cup alloc ELSE phi[c]]
      /\ worklist' = (worklist \ {b}) \cup (needy \ in_worklist)
      /\ in_worklist' = in_worklist \cup needy
      /\ UNCHANGED <<program, pc, allocs, alloc, rename, run>>

-----------------------------------------------------------------------------
(* Rename: the places where b defines v, its phi first. *)
DefPlaces(b, v) ==
  {0 : p \in {q \in phi[b] : q = v}} \cup {i \in DOMAIN body[b] : v \in body[b][i].def}

DefsBefore(b, v, i) == Cardinality({j \in DefPlaces(b, v) : j < i})

DefCount(b, v) == Cardinality(DefPlaces(b, v))

(* What is on top of the stack of v before instruction i of b: rename_var    *)
(* leaves the NamedValue in place when the stack is empty.                   *)
TopAt(b, v, i) ==
  IF DefsBefore(b, v, i) > 0 THEN version[v] + DefsBefore(b, v, i) - 1
  ELSE IF rename_stack[v] = <<>> THEN Named
  ELSE Last(rename_stack[v])

(* The operand that slot s of block b becomes. *)
NameIn(b, s) ==
  LET v == s[4]
      i == s[3]
  IN  IF s[1] = "use" /\ s[2] = b /\ i > 0 THEN TopAt(b, v, i)
      ELSE IF s[1] = "def" /\ s[2] = b /\ i \in DefPlaces(b, v)
           THEN version[v] + DefsBefore(b, v, i)
      ELSE IF s[1] = "arg" /\ s[2] \in succ[b] /\ i = b /\ v \in phi[s[2]]
           THEN TopAt(b, v, Len(body[b]) + 1)
      ELSE name[s]

(* A slip in RenameBlock: the versions follow the depth of the stack. *)
RenameBlockByDepth(b) ==
  /\ name' = [s \in DOMAIN name |-> NameIn(b, s)]
  /\ rename_stack' = [v \in Var |->
       rename_stack[v] \o [k \in 1 .. DefCount(b, v) |-> version[v] + k - 1]]
  /\ version' = [v \in Var |-> Len(rename_stack[v]) + DefCount(b, v)]

(* rename(b) up to the loop over the children. *)
RenameBlock(b) ==
  /\ name' = [s \in DOMAIN name |-> NameIn(b, s)]
  /\ rename_stack' = [v \in Var |->
       rename_stack[v] \o [k \in 1 .. DefCount(b, v) |-> version[v] + k - 1]]
  /\ version' = [v \in Var |-> version[v] + DefCount(b, v)]

Frame(b) == [block |-> b, left |-> children[b], push_count |-> [v \in Var |-> DefCount(b, v)]]

StartRename ==
  /\ pc = "phi" /\ worklist = {} /\ allocs = {}
  /\ pc' = "rename"
  /\ RenameBlock(Entry)
  /\ frames' = <<Frame(Entry)>>
  /\ UNCHANGED <<program, addPhi, run>>

(* The loop over the children: the call of rename(c). *)
RenameChild(c) ==
  /\ pc = "rename" /\ frames # <<>>
  /\ c \in Last(frames).left
  /\ RenameBlock(c)
  /\ frames' = Append(Front(frames), [Last(frames) EXCEPT !.left = @ \ {c}]) \o <<Frame(c)>>
  /\ UNCHANGED <<program, pc, addPhi, run>>

(* A slip in Leave: one pop for a block, however much it pushed. *)
LeavePopsOne ==
  LET count == Last(frames).push_count
  IN  /\ pc = "rename" /\ frames # <<>>
      /\ Last(frames).left = {}
      /\ frames' = Front(frames)
      /\ rename_stack' = [v \in Var |->
           IF count[v] = 0 THEN rename_stack[v]
           ELSE SubSeq(rename_stack[v], 1, Len(rename_stack[v]) - 1)]
      /\ pc' = IF Len(frames) = 1 THEN "run" ELSE pc
      /\ UNCHANGED <<program, addPhi, version, name, run>>

(* The call returns: pop what the block pushed. *)
Leave ==
  LET count == Last(frames).push_count
  IN  /\ pc = "rename" /\ frames # <<>>
      /\ Last(frames).left = {}
      /\ frames' = Front(frames)
      /\ rename_stack' = [v \in Var |->
           SubSeq(rename_stack[v], 1, Len(rename_stack[v]) - count[v])]
      /\ pc' = IF Len(frames) = 1 THEN "run" ELSE pc
      /\ UNCHANGED <<program, addPhi, version, name, run>>

-----------------------------------------------------------------------------
(* The two functions run in step. *)
Here == place[1]
AtExit == place[2] > Len(body[Here])

RunInst ==
  /\ pc = "run" /\ ~AtExit
  /\ \E x \in Value :
       LET def == body[Here][place[2]].def
       IN  /\ env' = [v \in Var |-> IF v \in def THEN x ELSE env[v]]
           /\ ssa' = [v \in Var |-> IF v \in def
                        THEN [ssa[v] EXCEPT ![name[<<"def", Here, place[2], v>>]] = x]
                        ELSE ssa[v]]
  /\ place' = <<Here, place[2] + 1>>
  /\ UNCHANGED <<program, pc, addPhi, rename>>

(* The exit is taken; the phis of the target read before any of them writes. *)
RunExit(c) ==
  /\ pc = "run" /\ AtExit
  /\ c \in succ[Here]
  /\ ssa' = [v \in Var |-> IF v \in phi[c]
               THEN [ssa[v] EXCEPT ![name[<<"def", c, 0, v>>]] =
                       ssa[v][name[<<"arg", c, Here, v>>]]]
               ELSE ssa[v]]
  /\ place' = <<c, 1>>
  /\ UNCHANGED <<program, pc, addPhi, rename, env>>

(* The function has returned. *)
Return == pc = "run" /\ AtExit /\ succ[Here] = {} /\ UNCHANGED vars

Next ==
  \/ \E v \in Var : StartAlloc(v)
  \/ \E b \in Block : PlacePhi(b) \/ RenameChild(b) \/ RunExit(b)
  \/ StartRename
  \/ Leave
  \/ RunInst
  \/ Return

Spec == Init /\ [][Next]_vars

-----------------------------------------------------------------------------
(* The tables of the two passes hold what their C++ types say. *)
TypeOK ==
  /\ worklist \subseteq in_worklist /\ in_worklist \subseteq Block
  /\ phi \in [Block -> SUBSET Var]
  /\ version \in [Var -> Versions(body)]
  /\ name \in [Slot(body) -> {Named} \cup Versions(body)]
  /\ env \in [Var -> Value]

(* What the instruction, or the exit, at place reads. *)
Reads == IF AtExit THEN exit_use[Here] ELSE body[Here][place[2]].uses

(* Every use reads the same value in the renamed function as in the original *)
(* one, on whatever path it is reached and however often: every join that    *)
(* needs a phi has one and every operand got the right version.              *)
UsesAgree ==
  pc = "run" => \A v \in Reads : env[v] = ssa[v][name[<<"use", Here, place[2], v>>]]

(* Single assignment: no two definitions of a variable have one version, and *)
(* none is left without.                                                     *)
SingleAssignment ==
  pc = "run" => \A v \in Var, b, c \in Block :
    \A i \in DefPlaces(b, v), j \in DefPlaces(c, v) :
      /\ name[<<"def", b, i, v>>] # Named
      /\ name[<<"def", b, i, v>>] = name[<<"def", c, j, v>>] => b = c /\ i = j

(* The pops of rename undo its pushes: a block is renamed with the versions  *)
(* on the stacks that its dominators pushed, and nothing of a sibling.       *)
StacksBalanced ==
  pc \in {"rename", "run"} => \A v \in Var :
    Len(rename_stack[v]) =
      FoldLeft(LAMBDA sum, f : sum + f.push_count[v], 0, frames)

(* A phi is where versions meet: two of its operands differ, so it is never   *)
(* a copy of one version under another name.                                 *)
PhisJoin ==
  pc = "run" => \A b \in Block : \A v \in phi[b] :
    \E p, q \in Block : /\ b \in succ[p] /\ b \in succ[q]
                        /\ name[<<"arg", b, p, v>>] # name[<<"arg", b, q, v>>]
=============================================================================
