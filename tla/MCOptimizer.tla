---------------------------- MODULE MCOptimizer ----------------------------
(* Small programs in SSA form for Optimizer, one family for each shape that  *)
(* the passes have to get right.                                             *)
EXTENDS Optimizer, SmallPrograms

CONSTANT Corner   \* which family: "none" for those the passes keep

MCInputs == {<<a, b, 2>> : a \in {-3, 0, 3}, b \in {-1, 2}}

\* if (a < b) x = l; else x = r; print(x op o); with work in one arm.
Diamonds ==
    {Main(<<Blk(<<Read(T(0)), Read(T(1)), Op("LT", T(2), TV(0), TV(1))>>, Branch(TV(2), 2, 3)),
            Blk(<<Move(X(1), l)>>, Jump(4)),
            Blk(IF loud THEN <<Write(TV(0)), Move(X(2), r)>> ELSE <<Move(X(2), r)>>, Jump(4)),
            Blk(<<Phi(X(3), <<2, 3>>, <<V(X(1)), V(X(2))>>), Op(op, T(4), V(X(3)), o), Write(TV(4))>>,
                Return(V(X(3))))>>) :
       l \in {TV(0), Num(1)}, r \in {TV(0), TV(1), Num(1)}, loud \in BOOLEAN,
       op \in {"MUL", "SUB"}, o \in {Num(0), Num(1), Num(4), V(NamedValue(A("k")))}}

\* The condition is known: one arm goes, its phi argument with it.
Known ==
    {Main(<<Blk(<<Read(T(0)), Op(op, T(2), Num(1), Num(2))>>, Branch(TV(2), 2, 3)),
            Blk(<<Op("ADD", X(1), TV(0), Num(1)), Write(V(X(1)))>>, Jump(4)),
            Blk(<<Inst("NEG", X(2), <<TV(0)>>)>>, Jump(4)),
            Blk(<<Phi(X(3), <<2, 3>>, <<V(X(1)), V(X(2))>>), Phi(Y(3), <<2, 3>>, <<V(X(1)), TV(0)>>)>>,
                Jump(5)),
            Blk(<<Op("ADD", T(5), V(X(3)), V(Y(3)))>>, Return(TV(5)))>>) :
       op \in {"LT", "GT"}}

\* A loop whose two variables change places, one expression computed twice in it.
Loops ==
    {Main(<<Blk(<<Read(T(0)), Move(X(0), Num(0)), Read(T(1)), Read(T(2))>>, Jump(2)),
            Blk(<<Phi(X(1), <<1, 3>>, <<V(X(0)), V(X(2))>>),
                  Phi(T(3), <<1, 3>>, <<TV(1), u>>),
                  Phi(T(4), <<1, 3>>, <<TV(2), w>>),
                  Op("LT", T(5), V(X(1)), TV(0))>>, Branch(TV(5), 3, 4)),
            Blk(<<Op("MUL", T(6), TV(3), Num(2)), Op("MUL", T(7), Num(2), TV(3)),
                  Op("SUB", T(8), TV(6), TV(7)), Write(TV(8)), Op("ADD", X(2), V(X(1)), Num(1))>>,
                Jump(2)),
            Blk(<<Op("SUB", T(9), TV(3), TV(4))>>, Return(TV(9)))>>) :
       u \in {TV(3), TV(4), TV(1)}, w \in {TV(3), TV(4), TV(2)}}

\* The same expression in a block, in both arms below it and after the join; a
\* load on either side of a store.
Exprs ==
    {Main(<<Blk(<<Read(T(0)), Read(T(1)), Inst("STORE", NoVar, <<V(NamedValue(A("g"))), TV(0)>>),
                  Inst("LOAD", T(2), <<V(NamedValue(A("g")))>>)>>
                \o (IF above THEN <<Op("ADD", T(3), TV(0), TV(1))>> ELSE <<>>)
                \o <<Op("LT", T(4), TV(0), TV(1))>>, Branch(TV(4), 2, 3)),
            Blk(<<Op("ADD", T(5), TV(1), TV(0)), Write(TV(5)),
                  Inst("STORE", NoVar, <<V(NamedValue(A("g"))), TV(5)>>)>>, Jump(4)),
            Blk(<<Op("ADD", T(6), TV(0), TV(1)), Write(TV(6))>>, Jump(4)),
            Blk(<<Op("ADD", T(7), TV(0), TV(1)), Inst("LOAD", T(8), <<V(NamedValue(A("g")))>>),
                  Op("SUB", T(9), TV(8), TV(2)), Write(TV(9))>>, Return(TV(7)))>>) :
       above \in BOOLEAN}

\* Empty blocks in a row, and a join they lead to.
Chains ==
    {Main(<<Blk(<<Read(T(0)), Op("LT", T(1), TV(0), Num(1))>>, Branch(TV(1), 2, 3)),
            Blk(<<>>, Jump(e)),
            Blk(IF work THEN <<Write(TV(0))>> ELSE <<>>, Jump(5)),
            Blk(<<>>, Jump(5)),
            Blk(<<Phi(X(1), <<IF e = 4 THEN 4 ELSE 2, 3>>, <<Num(1), TV(0)>>)>>, Return(V(X(1))))>>) :
       e \in {4, 5}, work \in BOOLEAN}

\* f(n) with two returns or one that only stores, called in a loop and after it.
Callee(kind) ==
    Fun("f", <<A("n")>>, 20,
        IF kind = "void"
        THEN <<Blk(<<Inst("STORE", NoVar, <<V(NamedValue(A("g"))), V(NamedValue(A("n")))>>)>>,
                   Return(Void))>>
        ELSE <<Blk(<<Op("LT", F(0), V(NamedValue(A("n"))), Num(1))>>, Branch(V(F(0)), 22, 23)),
               Blk(<<>>, Return(Num(1))),
               Blk(<<Op("MUL", F(1), V(NamedValue(A("n"))), Num(2))>>, Return(V(F(1))))>>)
CallProg(kind, loop) ==
    Prog(<<Callee(kind),
           Fun("main", <<>>, 0,
             <<Blk(<<Read(T(0))>>, Jump(2)),
               Blk(<<Phi(X(1), <<1, 3>>, <<Num(0), V(X(2))>>),
                     Op("LT", T(1), V(X(1)), TV(0))>>, Branch(TV(1), 3, 4)),
               Blk((IF loop THEN <<Call("f", IF kind = "void" THEN NoVar ELSE T(2), <<V(X(1))>>)>>
                    ELSE <<Move(T(2), TV(0))>>)
                   \o <<Op("ADD", X(2), V(X(1)), Num(1))>>, Jump(2)),
               Blk(<<Call("f", IF kind = "void" THEN NoVar ELSE T(3), <<V(X(1))>>),
                     Inst("LOAD", T(4), <<V(NamedValue(A("g")))>>), Write(TV(4))>>,
                   Return(IF kind = "void" THEN TV(4) ELSE TV(3)))>>)>>,
         {A("g")}, <<>>)
CallProgs == {CallProg(kind, loop) : kind \in {"void", "int"}, loop \in BOOLEAN}

\* Both arms give x the same constant, and the phi of x comes before that of y.
ConstPhi ==
    {Main(<<Blk(<<Read(T(0)), Op("LT", T(1), TV(0), Num(1))>>, Branch(TV(1), 2, 3)),
            Blk(<<Move(X(1), Num(1)), Move(Y(1), Num(2))>>, Jump(4)),
            Blk(<<Move(X(2), Num(1)), Move(Y(2), Num(3))>>, Jump(4)),
            Blk(<<Phi(X(3), <<2, 3>>, <<V(X(1)), V(X(2))>>),
                  Phi(Y(3), <<2, 3>>, <<V(Y(1)), V(Y(2))>>), Write(V(X(3)))>>, Return(V(Y(3))))>>)}

\* if (false) { } else { } in front of a loop, nothing before it.
EmptyEntrance ==
    {Main(<<Blk(<<>>, Branch(Truth(FALSE), 2, 4)),
            Blk(<<>>, Jump(3)),
            Blk(<<>>, Jump(5)),
            Blk(<<>>, Jump(3)),
            Blk(<<Phi(X(1), <<3, 6>>, <<Num(0), V(X(2))>>), Op("LT", T(1), V(X(1)), Num(3))>>,
                Branch(TV(1), 6, 7)),
            Blk(<<Op("ADD", X(2), V(X(1)), Num(1)), Write(V(X(2)))>>, Jump(5)),
            Blk(<<>>, Return(V(X(1))))>>)}

\* x = x in code that follows an if whose two arms leave the loop.
DeadCopy ==
    {Main(<<Blk(<<Read(T(0)), Op("LT", T(1), TV(0), Num(1))>>, Branch(TV(1), 2, 3)),
            Blk(<<>>, Return(Num(1))),
            Blk(<<>>, Return(Num(2))),
            Blk(<<Move(NamedValue(A("x")), V(NamedValue(A("x"))))>>, Jump(3))>>)}

MCPrograms ==
    CASE Corner = "const_phi" -> ConstPhi
      [] Corner = "empty_entrance" -> EmptyEntrance
      [] Corner = "dead_copy" -> DeadCopy
      [] Corner = "none" -> Diamonds \cup Known \cup Loops \cup Exprs \cup Chains \cup CallProgs
=============================================================================
