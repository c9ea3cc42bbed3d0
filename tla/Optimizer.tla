----------------------------- MODULE Optimizer -----------------------------
(***************************************************************************)
(* The optimiser of the compiler driver: the passes run one after another, *)
(* and the list starts again as long as one of them changed the program.   *)
(* A pass with a loop of its own stays until a turn of it changes nothing. *)
(* CopyPropagation replaces the copies in the order of a hash table, which *)
(* is any order here.                                                      *)
(***************************************************************************)
EXTENDS OptimPasses, IRExec

CONSTANTS Programs,    \* the programs that construction of SSA form hands over
          Inputs,      \* what get_int can read: a set of sequences
          Threshold,   \* the size up to which a function is inlined
          Fuel,        \* a bound on the blocks a run of a program enters
          MaxRounds,   \* rounds of the driver that the programs may need
          MaxTurns     \* turns of one pass that they may need

VARIABLES p,        \* the program
          pass,     \* the position in the list of passes
          changed,  \* any_changed of this round
          copies,   \* CopyPropagation: the function, the copies left, changed
          round,    \* rounds begun, and turns of this pass that changed the program
          turn,
          expected  \* what the program did before the first pass
vars == <<p, pass, changed, copies, round, turn, expected>>

(***************************************************************************)
(* The driver.                                                             *)
(***************************************************************************)
Passes == <<"ssa2temp", "copy", "const", "def", "alloc", "temp", "block", "expr",
            "arith", "cfg", "block", "inline">>
Done == pass = Len(Passes) + 1
NoCopies == [f |-> 1, on |-> FALSE, todo |-> {}, ch |-> FALSE]

Init ==
    /\ \E q \in Programs : p = Observed(q)
    /\ pass = 1
    /\ changed = FALSE
    /\ copies = NoCopies
    /\ round = 1
    /\ turn = 0
    /\ expected = [input \in Inputs |-> Behaviour(p, input, Fuel)]

\* The end of a pass that reported ch.
Advance(ch) ==
    LET again == pass = Len(Passes) /\ (changed \/ ch)
    IN  /\ pass' = IF again THEN 1 ELSE pass + 1
        /\ round' = IF again THEN round + 1 ELSE round
        /\ changed' = (pass < Len(Passes) /\ (changed \/ ch))
        /\ turn' = 0

\* Another turn of a pass that loops while it changes something.
Again == turn' = turn + 1 /\ changed' = TRUE /\ UNCHANGED <<pass, round>>

Apply(name, r) ==
    /\ Passes[pass] = name
    /\ p' = r.p
    /\ Advance(r.ch)
    /\ UNCHANGED <<copies, expected>>

ApplyLoop(name, r) ==
    /\ Passes[pass] = name
    /\ p' = r.p
    /\ IF r.ch THEN Again ELSE Advance(FALSE)
    /\ UNCHANGED <<copies, expected>>

SSAValue2TempValue == ~Done /\ Apply("ssa2temp", ForFuncs(ssa_to_temp, p))

\* propagate() of one function: find the copies, replace each, and again.
IdentifyCopies ==
    /\ ~Done /\ Passes[pass] = "copy" /\ ~copies.on
    /\ copies' = [copies EXCEPT !.on = TRUE, !.ch = FALSE,
                                !.todo = identify_copies(p, p.funcs[copies.f])]
    /\ UNCHANGED <<p, pass, changed, round, turn, expected>>
ReplaceCopy ==
    /\ copies.on
    /\ \E c \in copies.todo :
         /\ p' = replace_all_uses_with(p, c[1], c[2])
         /\ copies' = [copies EXCEPT !.todo = @ \ {c}, !.ch = @ \/ uses_of(p, c[1]) # {}]
    /\ UNCHANGED <<pass, changed, round, turn, expected>>
EndPropagate ==
    /\ copies.on /\ copies.todo = {}
    /\ IF copies.ch THEN copies' = [copies EXCEPT !.on = FALSE] /\ Again
       ELSE IF copies.f < Len(p.funcs)
       THEN copies' = [NoCopies EXCEPT !.f = copies.f + 1] /\ UNCHANGED <<pass, changed, round, turn>>
       ELSE copies' = NoCopies /\ Advance(FALSE)
    /\ UNCHANGED <<p, expected>>

ConstantFolding == ~Done /\ Apply("const", constant_folding(p))
DeadDefElimination == ~Done /\ ApplyLoop("def", ForFuncs(eliminate_defs, p))
DeadAllocElimination == ~Done /\ Apply("alloc", dead_alloc(p))
DeadTempElimination == ~Done /\ Apply("temp", ForFuncs(dead_temp, p))
DeadBlockElimination == ~Done /\ ApplyLoop("block", ForFuncs(eliminate_blocks, p))
CommonSubexprElimination == ~Done /\ Apply("expr", ForFuncs(common_subexpr, p))
ArithmeticStrengthReduction == ~Done /\ Apply("arith", ForFuncs(strength_reduction, p))
SimplifyCFG == ~Done /\ ApplyLoop("cfg", ForFuncs(simplify, p))
Inlining == ~Done /\ Apply("inline", inlining(p, Threshold))

Next ==
    \/ SSAValue2TempValue \/ IdentifyCopies \/ ReplaceCopy \/ EndPropagate
    \/ ConstantFolding \/ DeadDefElimination \/ DeadAllocElimination \/ DeadTempElimination
    \/ DeadBlockElimination \/ CommonSubexprElimination \/ ArithmeticStrengthReduction
    \/ SimplifyCFG \/ Inlining
    \/ Done /\ UNCHANGED vars

Spec == Init /\ [][Next]_vars

(***************************************************************************)
(* Properties.                                                             *)
(***************************************************************************)
\* After every pass, and between two replacements of copies, the program
\* prints and returns for every input what it did before the first pass
\* (transform/optim: no pass may change what the IR VM shows).
SameBehaviour == \A input \in Inputs : Behaviour(p, input, Fuel) = expected[input]

\* The use-def graph that the passes consult is the one a new observer would
\* build (UseInfo::verify, DefInfo::verify): no operand moved, changed or
\* disappeared without a notification.
UseDefExact == verify(p)

\* The code stays in SSA form: a variable has one definition, it dominates
\* every use, and the phis of a reachable block name each of its reachable
\* predecessors once (what Construct SSA promises the passes, and the IR VM
\* and DestructSSA rely on).
SsaForm ==
    \A f \in ToSet(p.funcs) :
        LET live == reachable(p, f)
            Defs(x) == UNION {{<<b, k>> : k \in {j \in DOMAIN p.body[b] : p.body[b][j].res = x}} :
                                 b \in live}
            Dominated(d, b, k) ==
                \/ d[1] = b /\ d[2] < k
                \/ d[1] # b /\ b \in strictly_dominated(p, f, d[1])
            UseOk(o, b, k) == IsVar(o) => \A d \in Defs(o.v) : Dominated(d, b, k)
        IN  \A b \in live :
              /\ \A k \in DOMAIN p.body[b] :
                   LET i == p.body[b][k] IN
                   /\ i.res # NoVar => Cardinality(Defs(i.res)) = 1
                   /\ i.op # "PHI" => \A j \in DOMAIN i.args : UseOk(i.args[j], b, k)
                   /\ i.op = "PHI" =>
                        /\ pred(p, f, b) \cap live \subseteq ToSet(i.src)
                        /\ IsInjective(i.src)
                        /\ \A j \in DOMAIN i.args :
                             i.src[j] \in live => UseOk(i.args[j], i.src[j], Len(p.body[i.src[j]]) + 1)
              /\ \A j \in DOMAIN p.exit[b].arg : UseOk(p.exit[b].arg[j], b, Len(p.body[b]) + 1)

\* The loops come to an end: the driver's while (apply(program, ctx, passes)),
\* and within a pass while (propagate(...)), while (eliminate(...)) and
\* while (replace(...)), none of which the code bounds.
Converges == round <= MaxRounds /\ turn <= MaxTurns
=============================================================================
