---------------------------- MODULE Interference ----------------------------
(* From the live sets to registers: InterfereGraph::build of                 *)
(* lowering/regalloc/graph.hpp, a colouring of the graph as BriggsAllocator  *)
(* returns it, and RegisterReplacement of lowering/regalloc/main.hpp.  The   *)
(* function before and the function after the replacement then run side by   *)
(* side, with whatever an instruction may compute.                           *)
(*                                                                           *)
(* A register is given by its proxy of map_registers, which is a LeftValue   *)
(* as others.  The graphs of the two register classes are one set of edges,  *)
(* none of which joins the classes.                                          *)
EXTENDS Liveness

CONSTANTS
  Proxy,         \* the registers
  Floating,      \* the LeftValues of a floating-point type
  Memory,        \* references and compile-time constants, which need no register
  CallerSaved,   \* the registers that a called function may overwrite
  ReturnAddr,    \* the register that the call itself overwrites
  Reserved,      \* the registers that instruction selection takes for itself
  Data           \* what a variable or a register may hold

ASSUME ABIAssumption ==
  /\ Proxy \subseteq Var /\ Memory \subseteq Var \ Proxy
  /\ CallerSaved \subseteq Proxy /\ Reserved \subseteq Proxy /\ ReturnAddr \in Proxy

VARIABLES
  calls,     \* the places of the instructions that are calls
  stage,     \* what is being done
  here,      \* the instruction it is done at, as block and position
  lives,     \* lives of build(): what is live behind that instruction
  edges,     \* InterfereNode::interfere of all nodes, as a symmetric relation
  color,     \* the register of every node
  value,     \* before the replacement, what each variable holds that was assigned
  held       \* after it, what the registers and the names in memory hold

runVars == <<value, held>>
buildVars == <<calls, stage, here, lives, edges, color>>
allVars == <<vars, buildVars, runVars>>

(* need_register *)
Nodes == Var \ Memory
SameClass(a, b) == a \in Floating <=> b \in Floating

(* interfere(a, b) for every a of S and every b of T that is of its class. *)
Edges(S, T) ==
  {e \in (S \X T) \cup (T \X S) :
     e[1] # e[2] /\ e[1] \in Nodes /\ e[2] \in Nodes /\ SameClass(e[1], e[2])}

(* RegisterAllocation is a NonSSAPass. *)
NoPhis == \A b \in Block : \A i \in DOMAIN body[b] : body[b][i].from = {}

(* defined_var gives one variable at most. *)
OneResult(insts) ==
  \A b \in Block : \A i \in DOMAIN insts[b] : \A d, e \in insts[b][i].def : d = e

(* The analysis is about to start; from_precolored connects the registers. *)
Prepare(insts, uses, succ, places) ==
  /\ Analyse(insts, uses, succ)
  /\ calls = places
  /\ stage = "liveness"
  /\ here = <<Entry, 0>>
  /\ lives = {}
  /\ edges = Edges(Proxy, Proxy)
  /\ color = [p \in Proxy |-> p]
  /\ value = <<>> /\ held = <<>>

AllocInit ==
  \E insts \in [Block -> Seq(Inst)], uses \in [Block -> SUBSET Var],
     succ \in [Block -> Targets], places \in SUBSET (Block \X Nat) :
    OneResult(insts) /\ Prepare(insts, uses, succ, places)

SolveLiveness ==
  /\ stage = "liveness"
  /\ Solve
  /\ UNCHANGED <<body, exit_use, buildVars, runVars>>

-----------------------------------------------------------------------------
(* build()                                                                   *)

(* A block is read from its last instruction up. *)
EnterBlock(b) ==
  /\ here' = <<b, Len(body[b])>>
  /\ lives' = flow_in[b] \cup (exit_use[b] \cap Nodes)

Build ==
  /\ stage = "liveness" /\ solved /\ NoPhis
  /\ EnterBlock(Entry)
  /\ stage' = "build"
  /\ UNCHANGED <<vars, calls, edges, color, runVars>>

IsCall(b, i) == <<b, i>> \in calls
Defs(b, i) == body[b][i].def \cup {r \in {ReturnAddr} : IsCall(b, i)}

(* A slip in Crossing: what is live across a call may be in any register. *)
CrossesFreely(b, i, live) == {}

(* The registers that nothing live across the instruction may be in. *)
Crossing(b, i, live) == IF IsCall(b, i) THEN Edges(live, CallerSaved) ELSE {}

BuildInst ==
  LET b == here[1]
      i == here[2]
  IN  /\ stage = "build"
      /\ i > 0
      /\ edges' = edges \cup Edges(Defs(b, i), lives) \cup Crossing(b, i, lives)
      /\ lives' = (lives \ Defs(b, i)) \cup body[b][i].uses
      /\ here' = <<b, i - 1>>
      /\ UNCHANGED <<vars, calls, stage, color, runVars>>

NextBlock ==
  /\ stage = "build"
  /\ here[2] = 0 /\ here[1] < NB
  /\ EnterBlock(here[1] + 1)
  /\ UNCHANGED <<vars, calls, stage, edges, color, runVars>>

Reserve ==
  /\ stage = "build"
  /\ here = <<NB, 0>>
  /\ edges' = edges \cup Edges(Nodes, Reserved)
  /\ stage' = "color"
  /\ UNCHANGED <<vars, calls, here, lives, color, runVars>>

-----------------------------------------------------------------------------
(* What BriggsAllocator returns for the two graphs when it spills nothing. *)
Colorings ==
  {f \in [Nodes -> Proxy] :
     /\ \A p \in Proxy : f[p] = p
     /\ \A v \in Nodes : SameClass(v, f[v])
     /\ \A e \in edges : f[e[1]] # f[e[2]]}

Colorize ==
  /\ stage = "color"
  /\ color' \in Colorings
  /\ stage' = "replaced"
  /\ UNCHANGED <<vars, calls, here, lives, edges, runVars>>

(* Spilling changes the function, and all begins again with another one. *)
Spill ==
  /\ stage = "color"
  /\ stage' = "spilled"
  /\ UNCHANGED <<vars, calls, here, lives, edges, color, runVars>>

(* RegisterReplacement: replace *)
Home(v) == IF v \in Nodes THEN color[v] ELSE v

-----------------------------------------------------------------------------
(* What the function computed, or was given, and nothing destroyed. *)
Assigned == DOMAIN value

(* The function is called: its registers hold what the caller left there. *)
Enter ==
  /\ stage = "replaced"
  /\ held' \in [Proxy \cup Memory -> Data]
  /\ value' = [v \in (Proxy \cup Memory) \ Reserved |-> held'[v]]
  /\ here' = <<Entry, 1>>
  /\ stage' = "run"
  /\ UNCHANGED <<vars, calls, lives, edges, color>>

(* The registers that the code of an instruction overwrites on the side. *)
Lost(b, i) == Reserved \cup {r \in CallerSaved \cup {ReturnAddr} : IsCall(b, i)}

(* An instruction computes the same from the same: see ReadsAgree.  From     *)
(* something that was never assigned it computes nothing that counts.        *)
Execute ==
  LET b == here[1]
      i == here[2]
      inst == body[b][i]
      kept == Assigned \ (inst.def \cup Lost(b, i))
      new == IF inst.uses \subseteq Assigned THEN inst.def \ Reserved ELSE {}
  IN  /\ stage = "run"
      /\ i \in DOMAIN body[b]
      /\ \E result \in Data, rest \in [Lost(b, i) -> Data] :
           /\ value' = [v \in kept \cup new |-> IF v \in new THEN result ELSE value[v]]
           /\ held' = [x \in Proxy \cup Memory |->
                         IF \E d \in inst.def : x = Home(d) THEN result
                         ELSE IF x \in Lost(b, i) THEN rest[x]
                         ELSE held[x]]
      /\ here' = <<b, i + 1>>
      /\ UNCHANGED <<vars, calls, stage, lives, edges, color>>

AtExit == stage = "run" /\ here[2] = Len(body[here[1]]) + 1

Jump ==
  /\ AtExit
  /\ exit_use[here[1]] \subseteq Assigned
  /\ \E c \in flow_pred[here[1]] : here' = <<c, 1>>
  /\ UNCHANGED <<vars, calls, stage, lives, edges, color, runVars>>

(* The function returns, or its exit depends on something never assigned. *)
Return ==
  /\ AtExit
  /\ flow_pred[here[1]] = {} \/ ~(exit_use[here[1]] \subseteq Assigned)
  /\ stage' = "returned"
  /\ UNCHANGED <<vars, calls, here, lives, edges, color, runVars>>

Ended ==
  /\ stage \in {"spilled", "returned"} \/ (stage = "liveness" /\ solved /\ ~NoPhis)
  /\ UNCHANGED allVars

AllocNext ==
  \/ SolveLiveness
  \/ Build \/ BuildInst \/ NextBlock \/ Reserve
  \/ Colorize \/ Spill
  \/ Enter \/ Execute \/ Jump \/ Return
  \/ Ended

AllocSpec == AllocInit /\ [][AllocNext]_allVars

-----------------------------------------------------------------------------
(* What the instruction or the exit at hand reads. *)
ReadHere ==
  IF here[2] \in DOMAIN body[here[1]] THEN body[here[1]][here[2]].uses ELSE exit_use[here[1]]

(* RegisterReplacement: whatever the function reads of what it computed, the *)
(* code with registers reads the same: no register was given to something    *)
(* else in between, no called function and no scratch register of the        *)
(* selection destroyed it.                                                   *)
ReadsAgree ==
  stage = "run" => \A v \in ReadHere \cap Assigned : held[Home(v)] = value[v]
=============================================================================
