------------------------------ MODULE BackEnd ------------------------------
(***************************************************************************)
(* The driver from SSA form to registers (compiler.cpp, after the          *)
(* optimiser): DestructSSA, RegToMem, RegisterAllocation with its loop of  *)
(* building, colouring and spilling, RegisterReplacement,                  *)
(* RedundantMoveElimination, and the passes that clean up.                 *)
(***************************************************************************)
EXTENDS RegAlloc, IRExec

CONSTANTS Programs,    \* the programs that the optimiser hands over
          Abis,        \* register files
          Inputs,      \* what get_int can read: a set of sequences
          Fuel,        \* a bound on the blocks a run of a program enters
          MaxSpills    \* rounds that spill some values; then all are spilled

VARIABLES p,         \* the program
          abi,       \* the register file
          phase,     \* the pass that is due
          round,     \* rounds of RegisterAllocation that spilled something
          reloads,   \* the temporaries that spilling introduced
          expected   \* what the program did before the first pass
vars == <<p, abi, phase, round, reloads, expected>>

Init ==
    /\ \E q \in Programs : p = Observed([q EXCEPT !.multi = TRUE])
    /\ abi \in Abis
    /\ phase = "ssa2temp"
    /\ round = 0
    /\ reloads = {}
    /\ expected = [input \in Inputs |-> Behaviour(p, input, Fuel)]

Pass(name, q, next) ==
    /\ phase = name
    /\ p' = q
    /\ phase' = next
    /\ UNCHANGED <<abi, round, reloads, expected>>

\* A pass that repeats itself until it changes nothing.
RECURSIVE Repeat(_, _)
Repeat(F(_), acc) == LET r == F(acc.p) IN IF r.ch THEN Repeat(F, [r EXCEPT !.ch = TRUE]) ELSE acc
dead_blocks(q) == Repeat(LAMBDA r : ForFuncs(eliminate_blocks, r), Unchanged(q))
simplified(q) == Repeat(LAMBDA r : ForFuncs(simplify, r), Unchanged(q))

\* DestructSSA
SSAValue2TempValue == Pass("ssa2temp", ForFuncs(ssa_to_temp, p).p, "dead_block")
DeadBlockElimination == Pass("dead_block", dead_blocks(p).p, "split_edge")
SplitCriticalEdge == Pass("split_edge", ForFuncs(split_critical, p).p, "replace_phi")
ReplacePhi == Pass("replace_phi", replace_phis(p), "dead_temp")
DeadTempElimination == Pass("dead_temp", ForFuncs(dead_temp, p).p, "reg2mem")

RegToMem == Pass("reg2mem", reg_to_mem(p), "precolorize")
Precolorize == Pass("precolorize", precolorize(p, abi), "colorize")

\* RegisterAllocation: a round that colours everything ends the loop.
Colorable == Colorings(build(p, abi), abi)
Colorize ==
    /\ phase = "colorize"
    /\ \E c \in Colorable : p' = replace_registers(p, c)
    /\ phase' = "prune"
    /\ UNCHANGED <<abi, round, reloads, expected>>

\* A round that spills: one of the values that are sure of no register, or all
\* of them but those that an earlier round introduced.
Spillable(g) == {x \in g.nodes \ Registers(abi) : Joined(g, abi, x) = {}}
NewTemps(q) == UNION {{TempValue(f, n) : n \in p.temps[f] .. q.temps[f] - 1} : f \in ToSet(q.funcs)}
SpillChoices(values) == IF round < MaxSpills THEN {{x} : x \in values} ELSE {values \ reloads}
Spill ==
    /\ phase = "colorize"
    /\ \E S \in SpillChoices(Spillable(build(p, abi))) \ {{}} :
         /\ p' = spill_values(p, S)
         /\ reloads' = reloads \cup NewTemps(p')
    /\ round' = round + 1
    /\ UNCHANGED <<abi, phase, expected>>

RedundantMoveElimination == Pass("prune", drop_moves(p), "cleanup")

\* One turn of the last loop, which ends with a turn that changes nothing.
cleanup(q) ==
    LET Run(acc, F(_)) == Then(acc, F(acc.p))
        Shrunk == Run(dead_alloc(q), LAMBDA r : ForFuncs(dead_temp, r))
        Straight == Run(Run(Shrunk, dead_blocks), simplified)
    IN  Run(Straight, constant_folding)
Cleanup ==
    /\ phase = "cleanup"
    /\ LET r == cleanup(p)
       IN  /\ p' = r.p
           /\ phase' = IF r.ch THEN "cleanup" ELSE "done"
    /\ UNCHANGED <<abi, round, reloads, expected>>

Next ==
    \/ SSAValue2TempValue \/ DeadBlockElimination \/ SplitCriticalEdge \/ ReplacePhi
    \/ DeadTempElimination \/ RegToMem \/ Precolorize \/ Colorize \/ Spill
    \/ RedundantMoveElimination \/ Cleanup
    \/ phase = "done" /\ UNCHANGED vars

Spec == Init /\ [][Next]_vars

(***************************************************************************)
(* What the calling convention lets happen around the program: registers   *)
(* hold anything at first, a call leaves anything in the caller-saved ones *)
(* and in the return address, and the caller finds its callee-saved ones   *)
(* as it left them, which the run shows by printing them at the end.       *)
(***************************************************************************)
Garbage == Num(7)
Mark(n) == Num(-1 - n)
Saved == SetToSortSeq(abi.callee_saved, <)
Clobbers(i) ==
    IF ~IsCall(i) THEN <<>>
    ELSE LET lost == (abi.caller_saved \cup {abi.return_addr})
                     \ (IF i.res = NoVar THEN {} ELSE {abi.return_value})
         IN  SetToSeq({Mv(RegVar(n), Garbage) : n \in lost})
InConvention(q) ==
    LET start == SetToSeq({Mv(RegVar(n), IF n \in abi.callee_saved THEN Mark(n) ELSE Garbage) :
                              n \in 0 .. abi.size - 1})
        show == [k \in DOMAIN Saved |-> Inst("PRINTINT", NoVar, <<V(RegVar(Saved[k]))>>)]
        Body(b) == FlattenSeq([k \in DOMAIN q.body[b] |-> <<q.body[b][k]>> \o Clobbers(q.body[b][k])])
    IN  [q EXCEPT !.globals = @ \cup {Reg(n) : n \in 0 .. abi.size - 1},
                  !.body = [b \in DOMAIN @ |->
                      (IF b = entrance(q, "main") THEN start ELSE <<>>) \o Body(b)
                      \o (IF q.exit[b].to = <<>> THEN show ELSE <<>>)]]

(***************************************************************************)
(* Properties.                                                             *)
(***************************************************************************)
Precolored == phase \in {"colorize", "prune", "cleanup", "done"}

\* After every pass the program prints and returns for every input what it did
\* in SSA form; from Precolorize on also when calls change all the registers
\* they may, and with the callee-saved registers given back.
LoweredBehaviour ==
    \A input \in Inputs :
        IF ~Precolored THEN Behaviour(p, input, Fuel) = expected[input]
        ELSE Behaviour(InConvention(p), input, Fuel)
             = [expected[input] EXCEPT !.out = @ \o [k \in DOMAIN Saved |-> Mark(Saved[k]).c]]

\* When the loop of RegisterAllocation has spilled all the values it was given,
\* the temporaries of the reloads can be coloured: the loop (main.hpp, while
\* (true)) is not forced to spill what it introduced itself for ever.
SpillsSuffice ==
    phase = "colorize" /\ Spillable(build(p, abi)) \subseteq reloads => Colorable # {}

\* From the end of legalize on, spilling included, no phi is left and no
\* temporary has two definitions on record.
AssignedOnce ==
    phase \in {"dead_temp", "reg2mem", "precolorize", "colorize"} =>
        /\ \A d, e \in p.defs : d[1] = e[1] /\ d[1][1] = "temp" => d = e
        /\ \A b \in AllBlocks(p) : \A k \in DOMAIN p.body[b] : p.body[b][k].op # "PHI"

\* The definition and use sites that legalize and Spill rewrite are the ones a
\* new observer would find (UseInfo::verify, MultiDefInfo::verify).
SitesExact == verify(p)
=============================================================================
