------------------------------ MODULE Lowering ------------------------------
(***************************************************************************)
(* The lowering passes between the IR that the IR VM runs and the one that *)
(* instruction selection reads (backend/ir/lowering): element addresses    *)
(* become integer arithmetic, globals and stored constants get a temporary *)
(* of their own, array initialisers become memset and memcpy, arguments    *)
(* move to the argument registers, and every definition takes the width of *)
(* its register.  Which register a variable has is the allocator's choice  *)
(* (BriggsAllocator); here a variable is its register from the start.      *)
(***************************************************************************)
EXTENDS Isel

Var(r, t) == [k |-> "reg", r |-> r, t |-> t, e |-> t]
IntConst(v, t) == [k |-> "const", v |-> v, t |-> t]
Unary(op, res, a) == [k |-> "unary", op |-> op, res |-> res, a |-> a]
Binary(op, res, a, b) == [k |-> "binary", op |-> op, res |-> res, a |-> a, b |-> b]
NoResult == [k |-> "none", t |-> "void"]
CallInst(f, res, args) == [k |-> "call", func |-> f, res |-> res, args |-> args]

\* Registers of the temporaries that lowering creates.
OffsetTemp == 29
BaseTemp == 30
ResultTemp == 31
ProxyTemp == 13
StoreTemp == 14

\* AddressLowering: &base[offset] = base + offset * sizeof(element), the
\* product at the width of int32.
lower_address(i) ==
    IF i.k = "binary" /\ i.op = "BORROW_ELEM"
    THEN <<Binary("MUL", Var(OffsetTemp, "int32"), i.b, IntConst(SizeOf[i.a.e], "int32")),
           Unary("CONVERT", Var(BaseTemp, "int"), i.a),
           Binary("ADD", Var(ResultTemp, "int"), Var(BaseTemp, "int"), Var(OffsetTemp, "int32")),
           Unary("CONVERT", i.res, Var(ResultTemp, "int"))>>
    ELSE <<i>>

IsGlobal(x, locals) ==
    \/ x.k = "comptime"
    \/ x.k = "alloc" /\ \A k \in DOMAIN locals : locals[k].name # x.name

\* AccessProxyLowering::convert_global: the first use of a global in a block
\* moves it into a proxy, which the later uses share.  A block of the instances
\* names one global, hence one proxy register.
convert_global(insts, locals) ==
    LET Proxy(x) == [x EXCEPT !.k = "reg"] @@ [r |-> ProxyTemp, e |-> x.t]
        Used(i) == CASE i.k = "call"   -> ToSet(i.args)
                     [] i.k = "binary" -> {i.a, i.b}
                     [] i.k = "unary"  -> IF i.op \in {"MOV", "CONVERT"} THEN {} ELSE {i.a}
        Globals(i) == {x \in Used(i) : IsGlobal(x, locals)}
        For(x, g) == IF x = g THEN Proxy(g) ELSE x
        Rewrite(i, g) ==
            CASE i.k = "call"   -> [i EXCEPT !.args = [k \in DOMAIN @ |-> For(@[k], g)]]
              [] i.k = "binary" -> [i EXCEPT !.a = For(@, g), !.b = For(@, g)]
              [] i.k = "unary"  -> [i EXCEPT !.a = For(@, g)]
        Step(acc, i) ==
            IF Globals(i) = {} THEN [acc EXCEPT !.out = Append(@, i)]
            ELSE LET g == CHOOSE x \in Globals(i) : TRUE
                     move == IF g \in acc.seen THEN <<>>
                             ELSE <<Unary("MOV", Var(ProxyTemp, g.t), g)>>
                 IN  [out  |-> acc.out \o move \o <<Rewrite(i, g)>>,
                      seen |-> acc.seen \cup {g}]
    IN  FoldLeft(Step, [out |-> <<>>, seen |-> {}], insts).out

\* AccessProxyLowering::convert_constexpr: a stored constant needs a register.
convert_constexpr(i) ==
    IF i.k = "binary" /\ i.op = "STORE" /\ i.b.k = "const"
    THEN <<Unary("MOV", Var(StoreTemp, i.b.t), i.b),
           [i EXCEPT !.b = Var(StoreTemp, i.b.t)]>>
    ELSE <<i>>

\* ConstexprValue::prune drops the trailing zeros of an array.
Prune(vals) ==
    SubSeq(vals, 1, CHOOSE n \in 0 .. Len(vals) :
                        /\ n = 0 \/ vals[n] # 0
                        /\ \A k \in n + 1 .. Len(vals) : vals[k] = 0)

\* ArrayInitLowering: clear what the constant does not cover, copy the rest
\* from a constant global that holds the pruned value.
InitSymbol == "__init"
lower_array_init(i) ==
    LET size == SizeOf[i.a.e] * Len(i.b.v)
        pruned == SizeOf[i.a.e] * Len(Prune(i.b.v))
        memset == CallInst("memset", NoResult, <<i.a, IntConst(0, "int"), IntConst(size, "int")>>)
        memcpy == CallInst("memcpy", NoResult,
                      <<i.a, [k |-> "alloc", name |-> InitSymbol, t |-> "ref", e |-> i.a.e],
                        IntConst(pruned, "int")>>)
    IN  IF i.k # "binary" \/ i.op # "STORE_ARRAY" THEN <<i>>
        ELSE IF pruned = 0 THEN <<memset>>
        ELSE IF pruned = size THEN <<memcpy>> ELSE <<memset, memcpy>>

\* colorize_call: the arguments move to the argument registers a0, a1, ...
\* of their class, the result from the first of them.
colorize_call(i) ==
    IF i.k # "call" THEN <<i>>
    ELSE LET Place(k) == Var(9 + k, i.args[k].t)
             placed == [i EXCEPT !.args = [k \in DOMAIN i.args |-> Place(k)]]
             retval == Var(10, i.res.t)
         IN  [k \in DOMAIN i.args |-> Unary("MOV", Place(k), i.args[k])]
             \o (IF i.res.k = "none" THEN <<placed>>
                 ELSE <<[placed EXCEPT !.res = retval], Unary("MOV", i.res, retval)>>)

\* ConstantFolding after lowering: "riscv asm only allows one immediate operand".
\* Two constants of one type give a constant of that type, whatever the result has.
Foldable(op, a, b) ==
    /\ a.k = "const" /\ b.k = "const" /\ a.t = b.t
    /\ CASE a.t = "int1" -> op \in {"AND", "OR", "EQ", "NEQ"}
         [] a.t \in FloatTypes -> op \in {"ADD", "SUB", "MUL", "DIV"} \cup Comparisons
         [] OTHER -> op \in {"ADD", "SUB", "MUL", "DIV", "MOD", "SHL", "SHRL", "SHRA"} \cup Comparisons
    /\ op \in {"DIV", "MOD"} => b.v # 0
fold_constants(i) ==
    IF i.k # "binary" \/ ~Foldable(i.op, i.a, i.b) THEN <<i>>
    ELSE IF i.op \in Comparisons
    THEN <<Unary("MOV", i.res, IntConst(eval_comparison(i.op, i.a.t, i.b.t, i.a.v, i.b.v), "int1"))>>
    ELSE <<Unary("MOV", i.res, IntConst(eval_binary(i.op, i.a.t, i.a.v, i.b.v), i.a.t))>>

\* RegisterReplacement: a definition takes the type of its register, a use
\* keeps its own.
Widen(i) ==
    IF i.k = "call" \/ (i.k = "binary" /\ i.op = "STORE") THEN <<i>>
    ELSE <<[i EXCEPT !.res.t = IF @ \in FloatTypes THEN "float" ELSE "int"]>>

\* RedundantMoveElimination: a move or conversion of a register to itself.
drop_move(i) ==
    IF /\ i.k = "unary" /\ i.op \in {"MOV", "CONVERT"} /\ InReg(i.a)
       /\ i.a.r = i.res.r /\ (i.a.t \in FloatTypes) = (i.res.t \in FloatTypes)
    THEN <<>> ELSE <<i>>

Expand(insts, F(_)) == FoldLeft(LAMBDA acc, i : acc \o F(i), <<>>, insts)

\* The passes in the order of the driver.
lower_block(insts, locals) ==
    LET addr    == Expand(insts, lower_address)
        proxies == Expand(convert_global(addr, locals), convert_constexpr)
        arrays  == Expand(proxies, lower_array_init)
        placed  == Expand(arrays, colorize_call)
        widened == Expand(Expand(placed, Widen), drop_move)
    IN  Expand(widened, fold_constants)
=============================================================================
