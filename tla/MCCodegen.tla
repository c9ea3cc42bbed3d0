------------------------------ MODULE MCCodegen ------------------------------
(***************************************************************************)
(* Codegen on a machine of 2-bit bytes: int32 has 8 bits, a register 16    *)
(* and an immediate 5, so the constants below lie on both sides of every   *)
(* boundary.  x, y and z are the variables of a program, in registers 7,   *)
(* 28 and 9; p and q are floats in f1 and f2.                              *)
(***************************************************************************)
EXTENDS Codegen

CONSTANT Corner     \* the part of the program space to compile

X(t) == Var(7, t)
Y(t) == Var(28, t)
Z(t) == Var(9, t)
P(t) == Var(1, t)
Q(t) == Var(2, t)

Ints == {-128, -17, -16, -1, 0, 1, 15, 16, 127}
Wide == {c \in Ints : ~fits_i12(c)}
Arith == {"ADD", "SUB", "MUL", "DIV", "MOD"}
Ret == [k |-> "return"]

\* A function: blocks <<label, insts, exit>>, the class of its inputs.
Fn(kind, locals, blocks, opt, live) ==
    [kind |-> kind, locals |-> locals, opt |-> opt, live |-> live,
     blocks |-> [b \in DOMAIN blocks |->
        [label |-> blocks[b][1], insts |-> blocks[b][2], exit |-> blocks[b][3]]]]
One(kind, locals, insts, live) == Fn(kind, locals, <<<<"entry", insts, Ret>>>>, FALSE, live)

IntLive(res) == {v \in {X("int32"), Y("int32"), Z("int32")} : v.r # res.r} \cup {res}

OneInput(t) == IF t = "int1" THEN "int1" ELSE "unary"

\* x op y, x op c and c op y, with the result apart from or on an operand.
BinaryForms(op, t, rt, consts) ==
    {One(t, <<>>, <<Binary(op, Var(r, rt), X(t), Y(t))>>, IntLive(Var(r, rt))) : r \in {7, 28, 9}}
    \cup {One(OneInput(t), <<>>, <<Binary(op, Var(r, rt), X(t), IntConst(c, t))>>, IntLive(Var(r, rt))) :
              r \in {7, 9}, c \in consts}
ConstLeft(op, t, rt, consts) ==
    {One(OneInput(t), <<>>, <<Binary(op, Var(r, rt), IntConst(c, t), X(t))>>, IntLive(Var(r, rt))) :
              r \in {7, 9}, c \in consts}

Arithmetic ==
    UNION {BinaryForms(op, "int32", "int32", Ints) \cup ConstLeft(op, "int32", "int32", Ints) :
               op \in Arith}
Compared ==
    UNION {BinaryForms(op, "int32", "int1", Ints)
           \cup ConstLeft(op, "int32", "int1",
                    IF op \in {"GT", "LEQ"} THEN Ints \ Wide ELSE Ints) : op \in Comparisons}
Logical ==
    UNION {BinaryForms(op, "int1", "int1", {0, 1}) \cup ConstLeft(op, "int1", "int1", {0, 1}) :
               op \in {"AND", "OR"}}
ShiftOps ==
    {One("unary", <<>>, <<Binary(op, Z("int32"), X("int32"), IntConst(c, "int32"))>>,
         IntLive(Z("int32"))) : op \in {"SHL", "SHRL", "SHRA"}, c \in {0, 1, 7}}
UnaryOps ==
    {One("unary", <<>>, <<Unary("NEG", Var(r, "int32"), X("int32"))>>, IntLive(Var(r, "int32"))) :
         r \in {7, 9}}
    \cup {One("int1", <<>>, <<Unary("NOT", Var(r, "int1"), X("int1"))>>, IntLive(Var(r, "int1"))) :
              r \in {7, 9}}
    \cup {One("unary", <<>>, <<Unary(op, Z("int32"), IntConst(c, "int32"))>>, IntLive(Z("int32"))) :
              op \in {"MOV", "NEG"}, c \in Ints \ {-128}}
    \cup {One("unary", <<>>, <<Unary("MOV", Z("int32"), X("int32"))>>, IntLive(Z("int32"))),
          One("unary", <<>>, <<Binary("ADD", Z("int32"), X("int32"),
                [k |-> "comptime", v |-> 15, t |-> "int32", name |-> "N"])>>, IntLive(Z("int32")))}

FloatConsts == {-3, 0, 2}
Floats(t) ==
    LET C(v) == [k |-> "const", v |-> v, t |-> t]
        live(res) == {P(t), Q(t), res}
        ops == {"ADD", "SUB", "MUL"}
    IN  {One(t, <<>>, <<Binary(op, P(t), P(t), Q(t))>>, live(P(t))) : op \in ops}
        \cup {One(t, <<>>, <<Binary(op, P(t), P(t), C(c))>>, live(P(t))) : op \in ops, c \in FloatConsts}
        \cup {One(t, <<>>, <<Binary(op, Z("int1"), P(t), Q(t))>>, live(Z("int1"))) : op \in Comparisons}
        \cup {One(t, <<>>, <<Binary(op, Z("int1"), C(2), P(t))>>, live(Z("int1"))) : op \in Comparisons}
        \cup {One(t, <<>>, <<Unary("MOV", P(t), C(c))>>, live(P(t))) : c \in FloatConsts}
        \cup {One(t, <<>>, <<Unary("MOV", P(t), Q(t))>>, live(P(t)))}

\* if (x op y) z = 1 else z = 2, with the condition dead after the branch.
Branches ==
    LET If(c, opt) ==
            Fn("int32", <<>>,
               <<<<"entry", <<c>>, [k |-> "branch", cond |-> Z("int1"), yes |-> "then", no |-> "else"]>>,
                 <<"then", <<Unary("MOV", Z("int32"), IntConst(1, "int32"))>>,
                   [k |-> "jump", target |-> "exit"]>>,
                 <<"else", <<Unary("MOV", Z("int32"), IntConst(2, "int32"))>>,
                   [k |-> "jump", target |-> "exit"]>>,
                 <<"exit", <<Binary("ADD", Z("int32"), Z("int32"), X("int32"))>>, Ret>>>>,
               opt, IntLive(Z("int32")))
    IN  {If(Binary(op, Z("int1"), X("int32"), Y("int32")), opt) : op \in Comparisons, opt \in BOOLEAN}
        \cup {If(Binary(op, Z("int1"), X("int32"), IntConst(c, "int32")), TRUE) :
                  op \in Comparisons, c \in {-17, 0, 15}}

Local(n, e, len, init) == [name |-> n, e |-> e, n |-> len, init |-> init]
Alloc(n, e) == [k |-> "alloc", name |-> n, t |-> "ref", e |-> e]
Scalars == {"int32", "int1", "float32", "float64"}
Reg(t) == IF t \in FloatTypes THEN P(t) ELSE X(t)
ResultReg(t) == IF t \in FloatTypes THEN Q(t) ELSE Z(t)

\* Scalars behind an array of n words: stores, loads, and a store then a load.
Memory ==
    {Fn(t, <<Local("A", "int32", n, <<>>), Local("B", t, 1, <<>>)>>,
        <<<<"entry", <<Binary("STORE", Reg(t), Alloc(g, t), Reg(t)),
                       Unary("LOAD", ResultReg(t), Alloc(g, t))>>, Ret>>>>, opt, {Reg(t), ResultReg(t)}) :
        t \in Scalars, n \in {1, 3, 5}, g \in {"B", GlobalName}, opt \in BOOLEAN}
    \cup {One("unary", <<Local("A", "int32", n, <<>>)>>,
              <<Binary("STORE", X("int32"), Alloc(g, "int32"), IntConst(c, "int32")),
                Unary("LOAD", Z("int32"), Alloc(g, "int32"))>>, IntLive(Z("int32"))) :
              n \in {1, 5}, g \in {"A", GlobalName}, c \in {-17, 1}}

\* Initialised locals: scalars near sp, arrays anywhere.
Initialised ==
    {One("unary", <<Local("S", t, 1, <<v>>), Local("A", e, n, init), Local("B", e, n, init)>>,
         <<Unary("LOAD", ResultReg(t), Alloc("S", t))>>, {X("int32"), ResultReg(t)}) :
        t \in {"int32", "int1", "float32"}, v \in {0, 1}, e \in {"int32", "int1"}, n \in {3},
        init \in {<<>>, <<0, 0, 0>>, <<1, 0, 1>>}}

\* A[i] of an array of three words, and array constants into it.
Elements ==
    LET A == <<Local("P", "int1", 1, <<>>), Local("A", "int32", 3, <<>>)>>
        ref == [Var(9, "ref") EXCEPT !.e = "int32"]
    IN  {One("index", A, <<Binary("BORROW_ELEM", ref, Alloc("A", "int32"), ix),
                           Binary("STORE", X("int32"), ref, v)>>, {X("int32"), Y("int32")}) :
            ix \in {Y("int32"), IntConst(2, "int32")}, v \in {X("int32"), IntConst(-17, "int32")}}
        \cup {One("index", A, <<Binary("BORROW_ELEM", ref, Alloc("A", "int32"), Y("int32")),
                                Unary("LOAD", X("int32"), ref)>>, {X("int32"), Y("int32")})}
        \cup {One("unary", A, <<Binary("STORE_ARRAY", X("int32"), Alloc("A", "int32"),
                                    [k |-> "const", v |-> v, t |-> "int32"])>>,
                  {X("int32"), Y("int32")}) :
                v \in {<<0, 0, 0>>, <<1, 0, 0>>, <<1, 2, 3>>, <<0, 5, 0>>}}

Comptime == [k |-> "comptime", v |-> 15, t |-> "int32", name |-> "N"]
Output ==
    {One("unary", <<>>, <<CallInst("print_int", NoResult, <<x>>)>>,
         {X("int32"), Y("int32")}) : x \in {X("int32"), Comptime}}
    \cup {One("float32", <<>>, <<CallInst("print_float", NoResult, <<P("float32")>>)>>,
              {P("float32"), Q("float32")})}
    \cup {One("int1", <<>>, <<CallInst("print_bool", NoResult, <<X("int1")>>)>>, {X("int1"), Y("int1")})}

\* Two numbers are read, in order, and the second one is printed.
Input ==
    {One("unary", <<>>, <<CallInst("get_int", X("int32"), <<>>), CallInst("get_int", Y("int32"), <<>>),
                          Binary("SUB", Z("int32"), X("int32"), Y("int32")),
                          CallInst("print_int", NoResult, <<Y("int32")>>)>>, IntLive(Z("int32")))}
    \cup {One(t, <<>>, <<CallInst(get, P(t), <<>>), CallInst(get, Q(t), <<>>),
                         Binary("SUB", P(t), P(t), Q(t)), CallInst(put, NoResult, <<Q(t)>>)>>, {P(t), Q(t)}) :
              <<t, get, put>> \in {<<"float32", "get_float", "print_float">>,
                                   <<"float64", "get_double", "print_double">>}}

\* The disagreements, apart: a wide constant on the left of > or <=; a scalar
\* initialiser beyond the reach of an immediate; a negated float.
WideConstLeft == UNION {ConstLeft(op, "int32", "int1", Wide) : op \in {"GT", "LEQ"}}
FarScalar ==
    {One("unary", <<Local("A", "int32", 5, <<>>), Local("S", "int32", 1, <<1>>)>>,
         <<Unary("LOAD", Z("int32"), Alloc("S", "int32"))>>, IntLive(Z("int32")))}
NegatedFloat == {One("float32", <<>>, <<Unary("NEG", P("float32"), Q("float32"))>>, {P("float32")})}

MCPrograms ==
    CASE Corner = "none" -> Arithmetic \cup Compared \cup Logical \cup ShiftOps \cup UnaryOps
                            \cup Floats("float32") \cup Floats("float64") \cup Branches
                            \cup Memory \cup Initialised \cup Elements \cup Output \cup Input
      [] Corner = "wide_const_left" -> WideConstLeft
      [] Corner = "far_scalar" -> FarScalar
      [] Corner = "negated_float" -> NegatedFloat

\* Division by zero and INT_MIN / -1 are undefined for the IR machine as well.
Defined(p, in) ==
    \A b \in DOMAIN p.blocks : \A k \in DOMAIN p.blocks[b].insts :
        LET i == p.blocks[b].insts[k]
        IN  /\ i.k = "binary" /\ i.op \in {"DIV", "MOD"} =>
                  /\ view_of(in, i.b) # 0
                  /\ view_of(in, i.a) = MinSigned(WLEN) => view_of(in, i.b) # -1
            /\ i.k = "unary" /\ i.op = "NEG" => view_of(in, i.a) # MinSigned(WLEN)

In(x, y, f1, f2, ft) ==
    [g |-> (7 :> x) @@ (28 :> y) @@ (9 :> 3), f |-> (1 :> f1) @@ (2 :> f2), ft |-> ft,
     inp |-> <<2, -3>>]
MCInputs(p) ==
    LET all == CASE p.kind = "int32" -> {In(x, y, 0, 0, "float32") : x \in Ints, y \in Ints}
                 [] p.kind = "unary" -> {In(x, 5, 0, 0, "float32") : x \in Ints}
                 [] p.kind = "int1"  -> {In(x, y, 0, 0, "float32") : x \in {0, 1}, y \in {0, 1}}
                 [] p.kind = "index" -> {In(x, y, 0, 0, "float32") : x \in {-17, 1}, y \in 0 .. 2}
                 [] p.kind \in FloatTypes -> {In(1, 5, a, b, p.kind) : a \in FloatConsts, b \in FloatConsts}
    IN  {in \in all : Defined(p, in)}
=============================================================================
