---------------------------- MODULE MCObservers ----------------------------
(* Observers on a program of two functions, with two variables: one is read  *)
(* twice by an instruction, and by a phi, a call of the other function, and   *)
(* the exits.                                                                *)
EXTENDS Observers

x == TempValue("main", 0)
y == TempValue("main", 1)
MCVariables == {x, y}
MCLabels == 1 .. 3
MCFuncs == {"main", "f"}

\* x = y + y; a phi of y that names block 1; a store that defines nothing.
Add  == Inst("ADD", x, <<V(y), V(y)>>)
Join == Phi(y, <<1>>, <<V(x)>>)
Put  == Inst("STORE", NoVar, <<V(x), Num(1)>>)
MCNew == {Add, Join, Put}
MCNewBodies == {<<>>, <<Put, Join>>}
MCNewExits == {Jump(2), Return(V(x))}
MCNewValues == {V(x), V(y), Num(0)}

At(i, n) == [i EXCEPT !.id = n]
Program(insts, e) ==
    [funcs |-> <<"main", "f">>, blocks |-> [f \in MCFuncs |-> IF f = "main" THEN <<1>> ELSE <<2>>],
     body |-> <<insts, <<>>>>, exit |-> <<e, Return(V(y))>>,
     params |-> <<>>, locals |-> <<>>, globals |-> <<>>, comptime |-> <<>>, refs |-> {},
     init |-> <<>>, temps |-> <<>>, uses |-> {}, defs |-> {}, multi |-> TRUE,
     next |-> Len(insts) + 1]
MCPrograms ==
    {Program(<<At(Add, 1), At(Join, 2)>>, Branch(V(y), 1, 2)),
     Program(<<At(Add, 1), At(Add, 2)>>, Return(V(x)))}
=============================================================================
