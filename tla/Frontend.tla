------------------------------- MODULE Frontend -------------------------------
(***************************************************************************)
(* The front end: the semantic analysis goes through the items of a        *)
(* compilation unit, then the generator does, and the program of the IR    *)
(* that comes out is compared with the meaning of the source.              *)
(***************************************************************************)
EXTENDS IrGen, IRExec, CactMeaning

CONSTANTS Units,     \* the compilation units
          Inputs,    \* what get_int can read: a set of sequences
          SrcFuel,   \* a bound on the loop turns and calls of a run of the source
          Fuel       \* a bound on the blocks a run of the IR enters

VARIABLES unit,    \* the tree of the unit
          phase,   \* analyse, generate, done, or rejected
          sem,     \* the tables of the analysis
          items,   \* the items analysed so far
          g        \* the generator
vars == <<unit, phase, sem, items, g>>

Init ==
    /\ unit \in Units
    /\ phase = "analyse"
    /\ sem = Start
    /\ items = <<>>
    /\ g = [p |-> EmptyProgram, loops |-> <<>>, err |-> ""]

\* analysis(CompUnit): the next declaration or function.
AnalysisOf(i) == IF i.k = "decl" THEN analysis_decl(sem, i) ELSE analysis_func(sem, i)
Take(r) ==
    /\ sem' = r.s
    /\ items' = IF r.ok THEN Append(items, r.x) ELSE items
    /\ phase' = IF r.ok THEN "analyse" ELSE "rejected"
Analyse ==
    /\ phase = "analyse" /\ Len(items) < Len(unit)
    /\ Take(AnalysisOf(unit[Len(items) + 1]))
    /\ UNCHANGED <<unit, g>>
\* main must be there with its type.
CheckMain ==
    /\ phase = "analyse" /\ Len(items) = Len(unit)
    /\ phase' = IF main_ok(sem) THEN "generate" ELSE "rejected"
    /\ UNCHANGED <<unit, sem, items, g>>

\* generate: the next item; an exception ends the compilation.
Generate ==
    /\ phase = "generate" /\ items # <<>>
    /\ g' = gen_item(g, Head(items))
    /\ items' = Tail(items)
    /\ phase' = IF g'.err # "" \/ Len(items) = 1 THEN "done" ELSE "generate"
    /\ UNCHANGED <<unit, sem>>

Next ==
    \/ Analyse
    \/ CheckMain
    \/ Generate
    \/ phase \in {"done", "rejected"} /\ UNCHANGED vars

Spec == Init /\ [][Next]_vars

(***************************************************************************)
(* Properties.                                                             *)
(***************************************************************************)
\* Whatever the analysis accepts runs without breaking a rule of the language:
\* every name has one definition in scope, no constant and no array is
\* assigned, operands, arguments and results have the types they need, and a
\* function with a result always returns one (SemanticAST: names, checkType,
\* readonly_defs, always_return).
AcceptedRunsWell ==
    phase = "generate" => \A input \in Inputs : Meaning(unit, input, SrcFuel).s.sig # "wrong"

\* The generator handles every unit that the analysis accepts: it uses no null
\* block, throws no exception, and each block ends in an exit to a block of its
\* own function (Generator::gen, whose null scope and the always_return of the
\* analysis have to agree).
GeneratorTotal ==
    phase = "done" =>
        /\ g.err = ""
        /\ \A f \in ToSet(g.p.funcs) : \A b \in Blocks(g.p, f) :
              targets(g.p.exit[b]) \subseteq Blocks(g.p, f)

\* The IR prints and returns what the source says: the arms and loops a
\* statement is taken apart into, the order of && and ||, the definition that
\* a name stands for, initialisers that run at each turn, and rows of arrays
\* passed by address.
MeansTheSource ==
    phase = "done" /\ g.err = "" =>
        \A input \in Inputs :
            LET src == Meaning(unit, input, SrcFuel)
            IN  src.s.sig = "next" =>
                    Behaviour(g.p, input, Fuel) = [ok |-> TRUE, ret |-> src.v.c, out |-> src.s.out]
=============================================================================
