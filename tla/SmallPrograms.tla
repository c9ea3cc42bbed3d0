--------------------------- MODULE SmallPrograms ---------------------------
(* How the programs of the instances for TLC are written down.               *)
EXTENDS UseDef, TLC

\* An allocation with no clones, and the temporaries and versions of main.
A(name) == <<name, <<>>>>
T(n) == TempValue("main", n)
F(n) == TempValue("f", n)
X(n) == SSAValue(A("x"), n)
Y(n) == SSAValue(A("y"), n)
TV(n) == V(T(n))
Read(x) == Inst("GETINT", x, <<>>)
Write(o) == Inst("PRINTINT", NoVar, <<o>>)
Op(op, x, l, r) == Inst(op, x, <<l, r>>)
Move(x, o) == Inst("MOV", x, <<o>>)
Blk(insts, exit) == [insts |-> insts, exit |-> exit]

\* A function: its blocks are numbered from base + 1 on.
Fun(name, params, base, blocks) ==
    [name |-> name, params |-> params, base |-> base, blocks |-> blocks]
\* The program of a list of functions; comptime gives the constants.
Prog(funs, globals, comptime) ==
    LET Fn(n) == CHOOSE k \in DOMAIN funs : funs[k].name = n
        Home(b) == CHOOSE k \in DOMAIN funs : b - funs[k].base \in DOMAIN funs[k].blocks
        Local(b) == funs[Home(b)].blocks[b - funs[Home(b)].base]
        ids == UNION {{funs[k].base + j : j \in DOMAIN funs[k].blocks} : k \in DOMAIN funs}
        names == {funs[k].name : k \in DOMAIN funs}
    IN  [funcs |-> [k \in DOMAIN funs |-> funs[k].name],
         blocks |-> [n \in names |-> [j \in DOMAIN funs[Fn(n)].blocks |-> funs[Fn(n)].base + j]],
         body |-> [b \in ids |-> [k \in DOMAIN Local(b).insts |->
                                     [Local(b).insts[k] EXCEPT !.id = 10 * b + k]]],
         exit |-> [b \in ids |-> Local(b).exit],
         params |-> [n \in names |-> funs[Fn(n)].params],
         locals |-> [n \in names |-> IF n = "main" THEN {A("x"), A("y")} ELSE {}],
         globals |-> globals, comptime |-> comptime, refs |-> {A("g")}, init |-> <<>>,
         temps |-> [n \in names |-> 10], uses |-> {}, defs |-> {}, multi |-> FALSE,
         next |-> 1000]
Main(blocks) == Prog(<<Fun("main", <<>>, 0, blocks)>>, {A("g"), A("k")}, (A("k") :> Num(2)))
=============================================================================
