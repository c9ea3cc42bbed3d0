----------------------------- MODULE MCFrontend -----------------------------
(* Small compilation units for Frontend, one family for each part of the     *)
(* language that the analysis and the generator have to get right.           *)
EXTENDS Frontend

CONSTANT Corner   \* which family: "none" for those the front end keeps

MCInputs == {<<0, 1>>, <<2, 0>>}

IntVal(n) == ConstExp(Num(n))
BoolVal(b) == ConstExp(Truth(b))
FloatVal == ConstExp([c |-> 1, t |-> "float32"])
X == LVal("x")
Bin(op, l, r) == BinaryExp(op, l, r)
At(a, i) == Bin("INDEX", a, i)
Less(n) == Bin("LT", X, IntVal(n))
Write(e) == ExpStmt(CallExp("print_int", <<e>>))
Scan(x) == AssignStmt(x, CallExp("get_int", <<>>))
Incr == AssignStmt(X, Bin("ADD", X, IntVal(1)))
Give(e) == ReturnStmt(<<e>>)
IfThen(c, t) == IfStmt(c, t, <<>>)
IfElse(c, t, e) == IfStmt(c, t, <<e>>)

\* A definition of one variable: the number tells it from the others.
IntDecl(name, id, init) == Decl(FALSE, Int32, <<Def(name, id, <<>>, init)>>)
IntConst(name, id, n) == Decl(TRUE, Int32, <<Def(name, id, <<>>, <<IntVal(n)>>)>>)
IntArray(const, name, id, dims, init) == Decl(const, Int32, <<Def(name, id, dims, init)>>)
Main(body) == FuncDef(Int32, "main", <<>>, body)

(***************************************************************************)
(* Statements: a loop whose body does not end the function or the turn in  *)
(* its last statement, and a function that has to return.                  *)
(***************************************************************************)
Stays == {BlockStmt(<<>>), Write(X), BlockStmt(<<IntDecl("x", 2, <<>>), Incr, Write(X)>>),
          IfThen(Less(2), ContinueStmt), IfElse(Less(2), Write(X), BreakStmt)}
Leaves == {BreakStmt, ContinueStmt, Give(X)}
Loop(body) ==
    Main(<<IntDecl("x", 1, <<>>), Scan(X), WhileStmt(Less(3), BlockStmt(<<Incr>> \o body)),
           Write(X), Give(IntVal(0))>>)
Loops ==
    {<<Loop(<<a, IfElse(Less(2), b, c), d>>)>> :
        a \in Stays, b \in Stays \cup Leaves, c \in {Write(X), BreakStmt}, d \in Stays}

Ends == {Give(X), IfElse(Less(1), Give(IntVal(1)), Give(X)), IfThen(Less(1), Give(X)),
         IfElse(Less(1), Give(X), Write(X)), IfElse(Less(2), Incr, BlockStmt(<<Give(X), Write(X)>>)),
         WhileStmt(Less(2), Incr), WhileStmt(Less(2), IfElse(Less(1), Incr, BreakStmt)),
         ReturnStmt(<<>>), BlockStmt(<<>>)}
CallOf(type) ==
    IF type = Unit THEN <<ExpStmt(CallExp("f", <<X>>)), Give(IntVal(0))>>
    ELSE <<Write(CallExp("f", <<X>>)), Give(IntVal(0))>>
Functions2 ==
    {<<FuncDef(t, "f", <<FuncParam("x", 1, Int32, <<>>)>>, <<a, b>>),
       Main(<<IntDecl("x", 2, <<>>), Scan(X)>> \o CallOf(t))>> :
        t \in {Int32, Unit}, a \in Ends, b \in Ends}

(***************************************************************************)
(* Conditions: t writes which operand it is and is true when that was read *)
(***************************************************************************)
Ask(n) == CallExp("t", <<IntVal(n), LVal(IF n % 2 = 0 THEN "y" ELSE "x")>>)
AskDef ==
    FuncDef(Int1, "t", <<FuncParam("n", 11, Int32, <<>>), FuncParam("v", 12, Int32, <<>>)>>,
            <<Write(LVal("n")), IfThen(Bin("EQ", LVal("v"), IntVal(0)), Give(BoolVal(FALSE))),
              Give(BoolVal(TRUE))>>)
Conjunctions == {Ask(1), UnaryExp("NOT", Ask(2)), Bin("AND", Ask(1), Ask(2)),
                 Bin("AND", Bin("AND", Ask(2), UnaryExp("NOT", Ask(1))), Ask(2))}
Conds == Conjunctions \cup {Bin("OR", l, r) : l, r \in Conjunctions}
         \cup {Bin("OR", Bin("OR", l, r), Ask(2)) : l, r \in Conjunctions}
CondUnit(use) ==
    <<AskDef, Main(<<Decl(FALSE, Int32, <<Def("x", 1, <<>>, <<>>), Def("y", 2, <<>>, <<>>)>>),
                     Scan(X), Scan(LVal("y"))>> \o use \o <<Give(LVal("y"))>>)>>
Conditions ==
    {CondUnit(<<IfElse(c, Write(IntVal(7)), Write(IntVal(6)))>>) : c \in Conds}
    \cup {CondUnit(<<WhileStmt(c, BlockStmt(<<Incr, IfThen(Bin("GT", X, IntVal(2)), BreakStmt)>>))>>) :
            c \in Conds}

(***************************************************************************)
(* Names                                                                   *)
(***************************************************************************)
ScopeItems(n) ==
    {IntDecl("x", 20 + n, <<IntVal(n)>>), IntConst("x", 30 + n, n), Incr, Write(X),
     BlockStmt(<<IntDecl("x", 40 + n, <<IntVal(5)>>), Incr, Write(X)>>),
     BlockStmt(<<Incr, IntConst("x", 50 + n, 6), Write(X)>>),
     WhileStmt(Less(3), BlockStmt(<<Incr, IntDecl("x", 60 + n, <<IntVal(4)>>), Write(X), Incr, Write(X)>>))}
Globals == {<<>>, <<IntDecl("x", 1, <<IntVal(1)>>)>>, <<IntConst("x", 2, 2)>>,
            <<IntDecl("x", 1, <<>>), IntDecl("x", 3, <<>>)>>, <<IntDecl("f", 4, <<>>)>>}
Scopes ==
    {gl \o <<FuncDef(Unit, "f", p, <<a, b>>),
             Main(<<c, ExpStmt(CallExp("f", [k \in DOMAIN p |-> IntVal(3)])), Give(IntVal(0))>>)>> :
        gl \in Globals, p \in {<<>>, <<FuncParam("x", 10, Int32, <<>>)>>},
        a \in ScopeItems(1), b \in ScopeItems(2), c \in {BlockStmt(<<>>), Incr}}
Mains ==
    {<<>>, <<Main(<<Give(IntVal(0))>>), Main(<<Give(IntVal(1))>>)>>,
     <<FuncDef(Unit, "main", <<>>, <<>>)>>,
     <<FuncDef(Int32, "main", <<FuncParam("x", 10, Int32, <<>>)>>, <<Give(IntVal(0))>>)>>,
     <<Main(<<ExpStmt(CallExp("f", <<>>)), Give(IntVal(0))>>), FuncDef(Unit, "f", <<>>, <<>>)>>}

(***************************************************************************)
(* Types: what may be assigned and passed                                  *)
(***************************************************************************)
Ones(n) == ListInit([k \in 1 .. n |-> IntVal(k)])
TypeGlobals ==
    <<IntDecl("x", 1, <<IntVal(1)>>), IntConst("c", 2, 1), IntArray(FALSE, "a", 3, <<2>>, <<>>),
      IntArray(TRUE, "k", 4, <<2>>, <<Ones(2)>>), IntArray(FALSE, "m", 5, <<2, 2>>, <<Ones(3)>>),
      IntArray(TRUE, "w", 6, <<2, 2>>, <<Ones(2)>>),
      Decl(FALSE, Float32, <<Def("f", 7, <<>>, <<>>)>>),
      FuncDef(Int32, "row", <<FuncParam("p", 8, Int32, <<2>>)>>,
              <<AssignStmt(At(LVal("p"), IntVal(1)), IntVal(7)), Give(At(LVal("p"), IntVal(0)))>>),
      FuncDef(Unit, "rows", <<FuncParam("p", 9, Int32, <<2, 2>>), FuncParam("i", 10, Int32, <<>>)>>,
              <<AssignStmt(At(At(LVal("p"), LVal("i")), IntVal(0)), CallExp("row", <<At(LVal("p"), IntVal(0))>>)),
                AssignStmt(LVal("i"), IntVal(5))>>)>>
ArrayVals == {LVal("a"), LVal("k"), LVal("m"), LVal("w"), At(LVal("m"), X), At(LVal("w"), IntVal(0))}
ScalarVals ==
    {IntVal(3), FloatVal, BoolVal(TRUE), X, LVal("f"), At(LVal("k"), IntVal(1)),
     At(At(LVal("m"), IntVal(1)), IntVal(0)), At(At(LVal("w"), IntVal(0)), X),
     At(X, IntVal(0)), At(LVal("a"), LVal("f")), LVal("u"), LVal("row"),
     Bin("ADD", X, FloatVal), Bin("ADD", LVal("f"), FloatVal), Bin("MUL", LVal("c"), X),
     UnaryExp("MINUS", X), UnaryExp("NOT", X), UnaryExp("MINUS", LVal("a")),
     CallExp("row", <<LVal("a")>>), CallExp("rows", <<LVal("m"), X>>), CallExp("row", <<X>>)}
ArrayLefts == {LVal("a"), LVal("m"), At(LVal("m"), IntVal(1)), LVal("k"), At(LVal("w"), IntVal(1))}
Lefts == {X, LVal("c"), LVal("f"), LVal("u"), LVal("row"), At(LVal("a"), X), At(LVal("k"), X),
          At(At(LVal("m"), X), IntVal(1)), At(At(LVal("w"), X), IntVal(1)), At(X, X)}
Show(e) == Write(e)
Shown == <<Show(X), Show(At(LVal("a"), IntVal(0))), Show(At(LVal("a"), IntVal(1))),
           Show(At(At(LVal("m"), IntVal(0)), IntVal(0))), Show(At(At(LVal("m"), IntVal(0)), IntVal(1))),
           Show(At(At(LVal("m"), IntVal(1)), IntVal(0))), Show(At(At(LVal("m"), IntVal(1)), IntVal(1))),
           Show(At(LVal("k"), IntVal(1)))>>
TypeUnit(st) == TypeGlobals \o <<Main(<<st>> \o Shown \o <<Give(IntVal(0))>>)>>
Assignments ==
    {TypeUnit(AssignStmt(l, e)) : l \in Lefts, e \in ScalarVals \cup ArrayVals}
    \cup {TypeUnit(AssignStmt(l, e)) : l \in ArrayLefts, e \in ScalarVals}
Calls ==
    {TypeUnit(ExpStmt(CallExp(f, <<e>>))) : f \in {"row", "print_int", "u", "x"}, e \in ScalarVals \cup ArrayVals}
    \cup {TypeUnit(ExpStmt(CallExp("rows", <<e, IntVal(1)>>))) : e \in ArrayVals \cup {X}}
    \cup {TypeUnit(ExpStmt(CallExp("rows", es))) : es \in {<<>>, <<LVal("m")>>, <<LVal("m"), X, X>>}}
ArrayAssignments == {TypeUnit(AssignStmt(l, e)) : l \in ArrayLefts, e \in ArrayVals}

(***************************************************************************)
(* Initialisers                                                            *)
(***************************************************************************)
L(vals) == ListInit(vals)
Inits ==
    {L(<<>>), IntVal(1), Ones(1), Ones(2), Ones(3), Ones(4), Ones(5), L(<<FloatVal>>),
     L(<<IntVal(1), FloatVal>>), L(<<Ones(1)>>), L(<<Ones(2), Ones(1)>>), L(<<L(<<>>), Ones(1)>>),
     L(<<Ones(3)>>), L(<<Ones(1), Ones(1), Ones(1)>>), L(<<IntVal(1), Ones(1)>>),
     L(<<L(<<Ones(1)>>), L(<<Ones(2)>>)>>), L(<<L(<<Ones(2), Ones(2)>>), L(<<Ones(1)>>)>>)}
MixedInits == {L(<<L(<<IntVal(1), IntVal(5)>>), L(<<Ones(2)>>)>>)}
RECURSIVE Elements(_, _)
Elements(e, dims) ==
    IF dims = <<>> THEN <<Show(e)>>
    ELSE FlattenSeq([i \in 1 .. dims[1] |-> Elements(At(e, IntVal(i - 1)), Tail(dims))])
ArrayUnits(inits) ==
    {<<Main(<<IntArray(const, "a", 1, dims, <<v>>)>> \o Elements(LVal("a"), dims) \o <<Give(IntVal(0))>>)>> :
        const \in BOOLEAN, dims \in {<<>>, <<2>>, <<2, 2>>, <<2, 1, 2>>}, v \in inits}
    \cup {<<IntArray(const, "a", 1, dims, <<v>>),
            Main(Elements(LVal("a"), dims) \o <<Give(IntVal(0))>>)>> :
        const \in BOOLEAN, dims \in {<<>>, <<2>>, <<2, 2>>, <<2, 1, 2>>}, v \in inits}
\* An array whose declaration is run again starts from its initialiser.
Again ==
    {<<Main(<<IntDecl("x", 1, <<>>),
              WhileStmt(Less(2), BlockStmt(<<IntArray(FALSE, "a", 2, <<2>>, <<v>>), Incr,
                  AssignStmt(At(LVal("a"), IntVal(0)), Bin("ADD", At(LVal("a"), IntVal(0)), X)),
                  Show(At(LVal("a"), IntVal(0))), Show(At(LVal("a"), IntVal(1)))>>)),
              Give(X)>>)>> : v \in {L(<<>>), Ones(1), Ones(2)}}

MCUnits ==
    CASE Corner = "none" ->
            UNION {Loops, Functions2, Conditions, Scopes, Mains, Assignments, Calls,
                   ArrayUnits(Inits), Again}
      [] Corner = "while_leaves" -> {<<Loop(<<a>>)>> : a \in Leaves}
      [] Corner = "stray_break" -> {<<Main(<<a, Give(IntVal(0))>>)>> : a \in {BreakStmt, ContinueStmt}}
      [] Corner = "mixed_init" -> ArrayUnits(MixedInits)
      [] Corner = "array_assign" -> ArrayAssignments
=============================================================================
