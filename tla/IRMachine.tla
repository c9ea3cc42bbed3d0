------------------------------ MODULE IRMachine ------------------------------
(***************************************************************************)
(* ir::vm::VirtualMachine (backend/ir/vm): the meaning of one instruction  *)
(* of the IR.  A value is an integer in the range of its type; a variable  *)
(* is named by the register it was given, vars.g for the integer and       *)
(* reference types and vars.f for the floating ones.  The memory has the   *)
(* same bytes and the same addresses as that of the target, so that what   *)
(* the two machines did can be compared byte by byte.                      *)
(***************************************************************************)
EXTENDS Words, Sequences, SequencesExt

\* ir::type::Primitive and references; Int and Float are the 64-bit types
\* that address lowering and register allocation introduce.
IntTypes   == {"int", "int32", "int1", "ref"}
FloatTypes == {"float", "float32", "float64"}
SizeOf == [int |-> 8, int32 |-> 4, int1 |-> 1, ref |-> 8,
           float |-> 8, float32 |-> 4, float64 |-> 8]
BitsOf(t) == BYTE * SizeOf[t]

\* A C++ conversion to the type that t stands for.
CastTo(t, v) ==
    IF t = "int1" THEN Bool(v # 0)
    ELSE IF t \in FloatTypes THEN Saturate(v, BitsOf(t))
    ELSE Wrap(v, BitsOf(t))

\* eval_binary: both operands are converted to the type of the destination.
eval_binary(op, dt, l, r) ==
    LET a == CastTo(dt, l)
        b == CastTo(dt, r)
    IN  CastTo(dt,
          CASE op = "ADD"  -> a + b
            [] op = "SUB"  -> a - b
            [] op = "MUL"  -> a * b
            [] op = "DIV"  -> Quotient(a, b)
            [] op = "MOD"  -> Remainder(a, b)
            [] op = "AND"  -> Bool(a # 0 /\ b # 0)
            [] op = "OR"   -> Bool(a # 0 \/ b # 0)
            [] op = "SHL"  -> ShiftLeft(a, b, BitsOf(dt))
            [] op = "SHRL" -> ShiftRightLogical(a, b, BitsOf(dt))
            [] op = "SHRA" -> ShiftRightArith(a, b))

eval_unary(op, dt, v) ==
    IF op = "NOT" THEN Bool(CastTo(dt, v) = 0) ELSE CastTo(dt, -CastTo(dt, v))

\* std::common_type of two primitive types.
CommonType(lt, rt) ==
    IF lt = rt THEN lt
    ELSE IF {lt, rt} \cap FloatTypes # {} THEN "float64"
    ELSE IF {lt, rt} \cap {"int", "ref"} # {} THEN "int" ELSE "int32"

Comparisons == {"LT", "GT", "LEQ", "GEQ", "EQ", "NEQ"}
eval_comparison(op, lt, rt, l, r) ==
    LET t == CommonType(lt, rt)
        a == CastTo(t, l)
        b == CastTo(t, r)
    IN  Bool(CASE op = "LT"  -> a < b
               [] op = "GT"  -> a > b
               [] op = "LEQ" -> a <= b
               [] op = "GEQ" -> a >= b
               [] op = "EQ"  -> a = b
               [] op = "NEQ" -> a # b)

assign(dt, st, v) == IF dt = st THEN v ELSE CastTo(dt, v)

\* A value of type t in memory.
ValueAt(mem, addr, t) ==
    LET bits == FromBytes(mem, addr, SizeOf[t])
    IN  CASE t = "int1" -> Bool(bits # 0)
          [] t \in FloatTypes -> FloatValue(bits, BitsOf(t))
          [] OTHER -> Wrap(bits, BitsOf(t))
PutValue(mem, addr, t, v) ==
    PutBytes(mem, addr, IF t \in FloatTypes THEN FloatBits(v, BitsOf(t))
                        ELSE Unsigned(v, BitsOf(t)), SizeOf[t])

\* assign() of arrays: element by element, the rest of the destination stays.
PutArray(mem, addr, t, vals) ==
    FoldLeftDomain(LAMBDA acc, k : PutValue(acc, addr + (k - 1) * SizeOf[t], t, vals[k]),
                   mem, vals)

\* view_of: the value of an operand; a variable, a constant, a compile-time
\* scalar, or the address of an allocation.
view_of(s, x) ==
    CASE x.k \in {"const", "comptime"} -> x.v
      [] x.k = "alloc" -> s.addr[x.name]
      [] x.k = "reg"   -> IF x.t \in FloatTypes THEN s.f[x.r] ELSE s.g[x.r]

SetVar(s, res, v) ==
    IF res.t \in FloatTypes THEN [s EXCEPT !.f[res.r] = v] ELSE [s EXCEPT !.g[res.r] = v]

\* unary_ops: MOV, CONVERT, NOT, NEG, LOAD.
ExecUnary(s, i) ==
    LET v == view_of(s, i.a)
    IN  SetVar(s, i.res,
          CASE i.op \in {"MOV", "CONVERT"} -> assign(i.res.t, i.a.t, v)
            [] i.op \in {"NOT", "NEG"} -> eval_unary(i.op, i.res.t, v)
            [] i.op = "LOAD" -> assign(i.res.t, i.a.e, ValueAt(s.mem, v, i.a.e)))

\* binary_ops: arithmetic, comparisons, element addresses, STORE.
ExecBinary(s, i) ==
    LET l == view_of(s, i.a)
        r == view_of(s, i.b)
    IN  CASE i.op \in Comparisons ->
                SetVar(s, i.res, eval_comparison(i.op, i.a.t, i.b.t, l, r))
          [] i.op = "BORROW_ELEM" -> SetVar(s, i.res, l + r * SizeOf[i.a.e])
          [] i.op = "LOAD_ELEM" ->
                SetVar(s, i.res, ValueAt(s.mem, l + r * SizeOf[i.a.e], i.a.e))
          [] i.op = "STORE" -> [s EXCEPT !.mem = PutValue(@, l, i.a.e, r)]
          [] i.op = "STORE_ARRAY" -> [s EXCEPT !.mem = PutArray(@, l, i.a.e, i.b.v)]
          [] OTHER -> SetVar(s, i.res, eval_binary(i.op, i.res.t, l, r))

\* A call of one of the input and output functions of BUILTIN_FUNCS.
InputFuncs == {"get_int", "get_float", "get_double"}
ExecBuiltin(s, i) ==
    LET t == [print_int |-> "int32", print_bool |-> "int1",
              print_float |-> "float32", print_double |-> "float64"][i.func]
    IN  IF i.func \in InputFuncs
        THEN [SetVar(s, i.res, CastTo(i.res.t, Head(s.inp))) EXCEPT !.inp = Tail(@)]
        ELSE [s EXCEPT !.out = Append(@, CastTo(t, view_of(s, i.args[1])))]

\* execute() of one instruction that is not a phi.
ExecInst(s, i) ==
    CASE i.k = "unary"  -> ExecUnary(s, i)
      [] i.k = "binary" -> ExecBinary(s, i)
      [] i.k = "call"   -> ExecBuiltin(s, i)
=============================================================================
