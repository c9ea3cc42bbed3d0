-------------------------------- MODULE Isel --------------------------------
(***************************************************************************)
(* Instruction selection (backend/rv64/isel.hpp): IR instructions over     *)
(* registers, constants and allocations to RV64 instructions.  The         *)
(* immediate field has ILEN bits (12 in RV64); t0 and ft0 are the scratch  *)
(* registers that the register allocator never hands out, t1 a second one  *)
(* used in the prologue only.                                              *)
(***************************************************************************)
EXTENDS IRMachine, RV64Machine, FiniteSets

CONSTANT ILEN       \* bits of the immediate of an I instruction
ASSUME IlenAssumption == ILEN \in 2 .. 12

sp  == 2
t0  == 5
t1  == 6
ft0 == 5

\* The instruction formats of inst.hpp that selection uses.
R(op, w, rd, a, b)   == [f |-> "R", op |-> op, w |-> w, rd |-> rd, rs1 |-> a, rs2 |-> b]
I(op, w, rd, a, imm) == [f |-> "I", op |-> op, w |-> w, rd |-> rd, rs1 |-> a, imm |-> imm]
FR(op, p, rd, a, b)  == [f |-> "FR", op |-> op, w |-> FALSE, p |-> p, rd |-> rd,
                         rs1 |-> a, rs2 |-> b]
FI(op, p, rd, a, imm) == [f |-> "FI", op |-> op, p |-> p, rd |-> rd, rs1 |-> a, imm |-> imm]
PR(op, rd, a) == [f |-> "PR", op |-> op, rd |-> rd, rs1 |-> a]
LI(rd, imm)   == [f |-> "LI", rd |-> rd, imm |-> imm]
LA(rd, sym)   == [f |-> "PL", op |-> "LA", rd |-> rd, symbol |-> sym]
Named(n)      == [global |-> n]     \* the symbol of a global, as against a literal
PL(op, rd, sym) == [f |-> "PL", op |-> op, rd |-> rd, symbol |-> sym]
PB(op, a, l)  == [f |-> "PB", op |-> op, rs1 |-> a, target |-> l]
J(l)    == [f |-> "PJ", op |-> "J", target |-> l]
CALL(l) == [f |-> "PJ", op |-> "CALL", target |-> l]
RET     == [f |-> "RET"]

\* Mutant: the largest immediate is off by one.
fits_i12_off_by_one(imm) == imm \in MinSigned(ILEN) .. MaxSigned(ILEN) + 1

fits_i12(imm) == imm \in Signed(ILEN)
InReg(x)   == x.k = "reg"
HasImm(x)  == x.k = "const" /\ x.t \in IntTypes     \* extract_imm succeeds
is_32bit_op(t) == t \in {"int32", "float32"}
is_fp_op(t)    == t \in FloatTypes
Precision(t)   == IF is_32bit_op(t) THEN "s" ELSE "d"

emit_add_reg_imm(rd, rs, imm, w) ==
    IF fits_i12(imm) THEN <<I("ADDI", w, rd, rs, imm)>>
    ELSE <<LI(t0, imm), R("ADD", w, rd, rs, t0)>>

\* resolve_addr: the instructions it emits, and the base and offset it returns.
resolve_addr(base, off) ==
    IF fits_i12(off) THEN [code |-> <<>>, base |-> base, imm |-> off]
    ELSE [code |-> emit_add_reg_imm(t0, base, off, FALSE), base |-> t0, imm |-> 0]

\* A float constant goes to the literal pool; its label is the constant itself.
emit_load_float_const(cv, rd) ==
    <<LA(t0, [lit |-> cv.v, t |-> cv.t]), FI("FL", Precision(cv.t), rd, t0, 0)>>

\* rd = the address of an allocation: a frame slot or a symbol.
AddressOf(rd, x, frame) ==
    IF x.name \in DOMAIN frame THEN emit_add_reg_imm(rd, sp, frame[x.name], FALSE)
    ELSE <<LA(rd, Named(x.name))>>

translate_mov(i, frame) ==
    LET rd == i.res.r
        x == i.a
        fp == is_fp_op(i.res.t)
    IN  CASE HasImm(x) -> <<LI(rd, x.v)>>
          [] x.k = "const" /\ ~HasImm(x) /\ fp -> emit_load_float_const(x, rd)
          [] InReg(x) /\ rd = x.r -> <<>>
          [] InReg(x) /\ rd # x.r ->
                IF fp THEN <<FR("FSGNJ", Precision(i.res.t), rd, x.r, x.r)>>
                ELSE <<PR("MV", rd, x.r)>>
          [] x.k = "comptime" -> IF fp THEN <<LA(rd, Named(x.name))>> ELSE <<LI(rd, x.v)>>
          [] x.k = "alloc" -> AddressOf(rd, x, frame)

translate_neg(i) ==
    LET rd == i.res.r
        x == i.a
    IN  IF is_fp_op(i.res.t) THEN <<FR("FSGNJN", Precision(i.res.t), rd, x.r, x.r)>>
        ELSE IF InReg(x)
        THEN <<PR(IF is_32bit_op(i.res.t) THEN "NEGW" ELSE "NEG", rd, x.r)>>
        ELSE <<LI(rd, -x.v)>>

translate_not(i) ==
    LET rd == i.res.r
        x == i.a
    IN  IF ~InReg(x) THEN <<LI(rd, Bool(x.v = 0))>>
        ELSE IF i.res.t = "int1" THEN <<I("XORI", FALSE, rd, x.r, 1)>>
        ELSE <<PR("SEQZ", rd, x.r)>>

\* Mutant: a bool is stored as a word.
int_store_op_word(t) == IF t = "int1" \/ is_32bit_op(t) THEN "SW" ELSE "SD"

int_load_op(t)  == IF t = "int1" THEN "LBU" ELSE IF is_32bit_op(t) THEN "LW" ELSE "LD"
int_store_op(t) == IF t = "int1" THEN "SB" ELSE IF is_32bit_op(t) THEN "SW" ELSE "SD"

\* A load or a store of the element type t through base + imm.
LoadFrom(rd, t, base, imm) ==
    IF is_fp_op(t) THEN FI("FL", Precision(t), rd, base, imm)
    ELSE I(int_load_op(t), FALSE, rd, base, imm)
StoreTo(rs, t, base, imm) ==
    IF is_fp_op(t) THEN FI("FS", Precision(t), rs, base, imm)
    ELSE I(int_store_op(t), FALSE, rs, base, imm)

translate_load(i, frame) ==
    LET rd == i.res.r
        x == i.a
        at == resolve_addr(sp, frame[x.name])
    IN  CASE x.k = "alloc" /\ x.name \in DOMAIN frame ->
                Append(at.code, LoadFrom(rd, x.e, at.base, at.imm))
          [] InReg(x) -> <<LoadFrom(rd, x.e, x.r, 0)>>
          [] x.k = "alloc" /\ x.name \notin DOMAIN frame ->
                IF is_fp_op(x.e) \/ SizeOf[x.e] = 1
                THEN <<LA(t0, Named(x.name)), LoadFrom(rd, x.e, t0, 0)>>
                ELSE <<PL(IF SizeOf[x.e] = 8 THEN "LGD" ELSE "LGW", rd, Named(x.name))>>

translate_convert(i, frame) ==
    LET rd == i.res.r
        x == i.a
        s32 == is_32bit_op(x.t)
        d32 == is_32bit_op(i.res.t)
        sfp == is_fp_op(x.t)
        dfp == is_fp_op(i.res.t)
    IN  CASE x.k = "alloc" -> AddressOf(rd, x, frame)
          [] InReg(x) /\ sfp /\ dfp ->
                IF s32 # d32 THEN <<FR("FCVT", Precision(x.t), rd, x.r, x.r)>>
                ELSE IF rd = x.r THEN <<>>
                ELSE <<FR("FSGNJ", Precision(i.res.t), rd, x.r, x.r)>>
          [] InReg(x) /\ sfp /\ ~dfp ->
                <<[FR("FCVT_X", Precision(x.t), rd, x.r, x.r) EXCEPT !.w = d32]>>
          [] InReg(x) /\ ~sfp /\ dfp ->
                <<[FR("FCVT_F", Precision(i.res.t), rd, x.r, x.r) EXCEPT !.w = s32]>>
          [] InReg(x) /\ ~sfp /\ ~dfp ->
                IF s32 /\ ~d32 THEN <<I("ADDI", TRUE, rd, x.r, 0)>>
                ELSE <<PR("MV", rd, x.r)>>

translate_unary(i, frame) ==
    CASE i.op = "MOV"  -> translate_mov(i, frame)
      [] i.op = "NEG"  -> translate_neg(i)
      [] i.op = "NOT"  -> translate_not(i)
      [] i.op = "LOAD" -> translate_load(i, frame)
      [] i.op = "CONVERT" -> translate_convert(i, frame)

emit_add_sp(delta) ==
    IF fits_i12(delta) THEN <<I("ADDI", FALSE, sp, sp, delta)>>
    ELSE <<LI(t0, delta), R("ADD", FALSE, sp, sp, t0)>>

\* The widest of 4, 2 and 1 bytes that is left at i, one store after another.
emit_store_bytes(data, base, off) ==
    LET sz == Len(data)
        far == ~fits_i12(off) \/ ~fits_i12(off + sz)
        sbase == IF far THEN t1 ELSE base
        soff == IF far THEN 0 ELSE off
        Chunk(i) == IF sz - i >= 4 THEN 4 ELSE IF sz - i >= 2 THEN 2 ELSE 1
        Value(i) == LET n == Chunk(i)
                        v == FromBytes([k \in 0 .. sz - 1 |-> data[k + 1]], i, n)
                    IN  IF n = 4 THEN Wrap(v, WLEN) ELSE v
        Op == <<"SB", "SH", "SH", "SW">>
        code[i \in 0 .. sz] ==
            IF i >= sz THEN <<>>
            ELSE <<LI(t0, Value(i)), I(Op[Chunk(i)], FALSE, t0, sbase, soff + i)>>
                 \o code[i + Chunk(i)]
    IN  (IF far THEN emit_add_reg_imm(t1, base, off, FALSE) ELSE <<>>) \o code[0]

translate_store(i, frame) ==
    LET x == i.a
        at == resolve_addr(sp, frame[x.name])
    IN  CASE x.k = "alloc" /\ x.name \in DOMAIN frame ->
                Append(at.code, StoreTo(i.b.r, i.b.t, at.base, at.imm))
          [] InReg(x) -> <<StoreTo(i.b.r, i.b.t, x.r, 0)>>
          [] x.k = "alloc" /\ x.name \notin DOMAIN frame ->
                <<LA(t0, Named(x.name)), StoreTo(i.b.r, i.b.t, t0, 0)>>

\* Floating point: a comparison writes a general register.
translate_fp(op, p, rd, a, b) ==
    CASE op \in {"ADD", "SUB", "MUL", "DIV"} ->
            <<FR([ADD |-> "FADD", SUB |-> "FSUB", MUL |-> "FMUL", DIV |-> "FDIV"][op],
                 p, rd, a, b)>>
      [] op = "LT"  -> <<FR("FLT", p, rd, a, b)>>
      [] op = "GT"  -> <<FR("FLT", p, rd, b, a)>>
      [] op = "LEQ" -> <<FR("FLE", p, rd, a, b)>>
      [] op = "GEQ" -> <<FR("FLE", p, rd, b, a)>>
      [] op = "EQ"  -> <<FR("FEQ", p, rd, a, b)>>
      [] op = "NEQ" -> <<FR("FEQ", p, rd, a, b), I("XORI", FALSE, rd, rd, 1)>>

Negate(rd) == <<I("XORI", FALSE, rd, rd, 1)>>
RegOp == [ADD |-> "ADD", SUB |-> "SUB", MUL |-> "MUL", DIV |-> "DIV", MOD |-> "REM",
          SHL |-> "SLL", SHRL |-> "SRL", SHRA |-> "SRA"]

translate_reg_reg(op, w, rd, a, b) ==
    CASE op \in DOMAIN RegOp -> <<R(RegOp[op], w, rd, a, b)>>
      [] op \in {"AND", "OR"} -> <<R(op, FALSE, rd, a, b)>>
      [] op = "LT"  -> <<R("SLT", FALSE, rd, a, b)>>
      [] op = "GT"  -> <<R("SLT", FALSE, rd, b, a)>>
      [] op = "LEQ" -> <<R("SLT", FALSE, rd, b, a)>> \o Negate(rd)
      [] op = "GEQ" -> <<R("SLT", FALSE, rd, a, b)>> \o Negate(rd)
      [] op = "EQ"  -> <<R("SUB", FALSE, rd, a, b), PR("SEQZ", rd, rd)>>
      [] op = "NEQ" -> <<R("SUB", FALSE, rd, a, b), PR("SNEZ", rd, rd)>>

\* rd = (a < imm), by SLTI or through t0.
SetLess(rd, a, imm) ==
    IF fits_i12(imm) THEN <<I("SLTI", FALSE, rd, a, imm)>>
    ELSE <<LI(t0, imm), R("SLT", FALSE, rd, a, t0)>>
\* Mutant: the comparison is the wrong way round.
SetGreater_swapped(rd, a, imm) == <<LI(t0, imm), R("SLT", FALSE, rd, a, t0)>>
\* rd = (imm < a).
SetGreater(rd, a, imm) == <<LI(t0, imm), R("SLT", FALSE, rd, t0, a)>>

\* A constant right operand.  The multiplicative cases build it in rd unless
\* that is the left operand too.
translate_reg_imm(op, w, rd, a, c) ==
    LET imm == Wrap(c, WLEN)
        tmp == IF rd = a THEN t0 ELSE rd
    IN  CASE op = "ADD" -> emit_add_reg_imm(rd, a, c, w)
          [] op = "SUB" -> emit_add_reg_imm(rd, a, -c, w)
          [] op = "LT"  -> SetLess(rd, a, imm)
          [] op = "GEQ" -> SetLess(rd, a, imm) \o Negate(rd)
          [] op = "GT"  -> IF fits_i12(imm + 1)
                           THEN <<I("SLTI", FALSE, rd, a, imm + 1)>> \o Negate(rd)
                           ELSE SetGreater(rd, a, imm)
          [] op = "LEQ" -> IF fits_i12(imm + 1)
                           THEN <<I("SLTI", FALSE, rd, a, imm + 1)>>
                           ELSE SetGreater(rd, a, imm) \o Negate(rd)
          [] op = "EQ"  -> <<LI(t0, imm), R("SUB", FALSE, rd, a, t0), PR("SEQZ", rd, rd)>>
          [] op = "NEQ" -> <<LI(t0, imm), R("SUB", FALSE, rd, a, t0), PR("SNEZ", rd, rd)>>
          [] op \in {"SHL", "SHRL", "SHRA"} ->
                <<I([SHL |-> "SLLI", SHRL |-> "SRLI", SHRA |-> "SRAI"][op], w, rd, a, imm)>>
          [] op \in {"MUL", "DIV", "MOD"} -> <<LI(tmp, imm), R(RegOp[op], w, rd, a, tmp)>>
          [] op \in {"AND", "OR"} -> <<LI(tmp, imm), R(op, FALSE, rd, a, tmp)>>

\* A constant left operand.  GT and LEQ compare the wrong way round when the
\* constant does not fit the immediate: SLT rd, t0, b is c < b.
translate_imm_reg(op, w, rd, c, b) ==
    LET tmp == IF rd = b THEN t0 ELSE rd
        less == IF fits_i12(c) THEN <<I("SLTI", FALSE, rd, b, c)>>
                ELSE <<LI(t0, c), R("SLT", FALSE, rd, t0, b)>>
    IN  CASE op = "ADD" -> emit_add_reg_imm(rd, b, c, w)
          [] op = "MUL" -> <<LI(tmp, c), R("MUL", w, rd, b, tmp)>>
          [] op \in {"AND", "OR"} -> <<LI(tmp, c), R(op, FALSE, rd, b, tmp)>>
          [] op = "EQ"  -> <<LI(tmp, c), R("SUB", FALSE, rd, b, tmp), PR("SEQZ", rd, rd)>>
          [] op = "NEQ" -> <<LI(tmp, c), R("SUB", FALSE, rd, b, tmp), PR("SNEZ", rd, rd)>>
          [] op \in {"SUB", "DIV", "MOD"} -> <<LI(tmp, c), R(RegOp[op], w, rd, tmp, b)>>
          [] op = "GT"  -> less
          [] op = "LEQ" -> less \o Negate(rd)
          [] op = "LT"  -> SetGreater(rd, b, c)
          [] op = "GEQ" -> SetGreater(rd, b, c) \o Negate(rd)

\* The operands of a floating point operation: a constant is loaded into ft0.
FpOperand(x) ==
    IF InReg(x) THEN [code |-> <<>>, r |-> x.r]
    ELSE [code |-> emit_load_float_const(x, ft0), r |-> ft0]

translate_binary(i, frame) ==
    LET x == i.a
        y == i.b
        t == IF SizeOf[x.t] < SizeOf[y.t] THEN y.t ELSE x.t
        w == is_32bit_op(t)
        rd == i.res.r
        fx == FpOperand(x)
        fy == FpOperand(y)
    IN  CASE i.op = "STORE" -> translate_store(i, frame)
          [] i.op # "STORE" /\ is_fp_op(t) ->
                fx.code \o fy.code \o translate_fp(i.op, Precision(t), rd, fx.r, fy.r)
          [] i.op # "STORE" /\ ~is_fp_op(t) /\ InReg(x) /\ InReg(y) ->
                translate_reg_reg(i.op, w, rd, x.r, y.r)
          [] i.op # "STORE" /\ ~is_fp_op(t) /\ InReg(x) /\ HasImm(y) ->
                translate_reg_imm(i.op, w, rd, x.r, y.v)
          [] i.op # "STORE" /\ ~is_fp_op(t) /\ HasImm(x) /\ InReg(y) ->
                translate_imm_reg(i.op, w, rd, x.v, y.r)

\* colorize_call has put the arguments in their registers; the stores of those
\* that have none are in CallRegs.
translate_call(i) == <<CALL(i.func)>>

translate_inst(i, frame) ==
    CASE i.k = "unary"  -> translate_unary(i, frame)
      [] i.k = "binary" -> translate_binary(i, frame)
      [] i.k = "call"   -> translate_call(i)

translate_exit(exit) ==
    CASE exit.k = "return" -> <<J("epilogue")>>
      [] exit.k = "jump"   -> <<J(exit.target)>>
      [] exit.k = "branch" -> <<PB("BNEZ", exit.cond.r, exit.yes), J(exit.no)>>

\* Mutant: rounds down, into the slot before.
AlignUp_down(off, align) == IF align <= 1 THEN off ELSE off - (off & (align - 1))
\* A power-of-two mask applied to a size that need not be one.
AlignUp(off, align) ==
    IF align <= 1 THEN off
    ELSE LET x == off + align - 1 IN x - (x & (align - 1))

\* ABI.mem.size of a local: a scalar, or n elements of an array.
LocalSize(l) == SizeOf[l.e] * l.n

outgoing_arg_area(blocks) ==
    LET areas == {0} \cup
                 UNION {{8 * Len(blocks[b].insts[k].args) :
                            k \in {k \in DOMAIN blocks[b].insts :
                                        blocks[b].insts[k].k = "call"}} :
                        b \in DOMAIN blocks}
    IN  CHOOSE a \in areas : \A o \in areas : o <= a

StackAlignment == 16
compute_frame(locals, outgoing) ==
    LET place[k \in 0 .. Len(locals)] ==
            IF k = 0 THEN [next |-> outgoing, offset |-> <<>>]
            ELSE LET before == place[k - 1]
                     at == AlignUp(before.next, LocalSize(locals[k]))
                 IN  [next |-> at + LocalSize(locals[k]), offset |-> Append(before.offset, at)]
        all == place[Len(locals)]
    IN  [total |-> AlignUp(all.next, StackAlignment),
         offsets |-> [name \in {locals[k].name : k \in DOMAIN locals} |->
                         all.offset[CHOOSE k \in DOMAIN locals : locals[k].name = name]]]

\* The stores that initialise the locals: the bytes of an array, or a scalar
\* through t0.  emit_add_reg_imm overwrites t0 when the offset does not fit.
InitLocal(l, off) ==
    LET op == [k \in {1, 4, 8} |-> IF k = 8 THEN "SD" ELSE IF k = 4 THEN "SW" ELSE "SB"]
        val == IF is_fp_op(l.e) THEN FloatBits(l.init[1], BitsOf(l.e)) ELSE l.init[1]
    IN  IF l.init = <<>> THEN <<>>
        ELSE IF l.n > 1
        THEN emit_store_bytes([b \in 1 .. LocalSize(l) |->
                 PutArray([a \in 0 .. LocalSize(l) - 1 |-> 0], 0, l.e, l.init)[b - 1]], sp, off)
        ELSE <<LI(t0, val)>> \o
             (IF fits_i12(off) THEN <<I(op[SizeOf[l.e]], FALSE, t0, sp, off)>>
              ELSE Append(emit_add_reg_imm(t1, sp, off, FALSE),
                          I(op[SizeOf[l.e]], FALSE, t0, t1, 0)))

\* A function: the prologue, the blocks in reverse post-order, the epilogue.
translate_func(locals, blocks) ==
    LET frame == compute_frame(locals, outgoing_arg_area(blocks))
        adjust == frame.total > 0
        inits == FoldLeft(LAMBDA acc, l : acc \o InitLocal(l, frame.offsets[l.name]),
                          <<>>, locals)
        body == [b \in DOMAIN blocks |->
                    [label |-> blocks[b].label,
                     insts |-> FoldLeft(LAMBDA acc, i : acc \o translate_inst(i, frame.offsets),
                                        <<>>, blocks[b].insts)
                               \o translate_exit(blocks[b].exit)]]
    IN  <<[label |-> "main",
           insts |-> (IF adjust THEN emit_add_sp(-frame.total) ELSE <<>>) \o inits
                     \o <<J("entry")>>]>>
        \o body
        \o <<[label |-> "epilogue",
              insts |-> (IF adjust THEN emit_add_sp(frame.total) ELSE <<>>) \o <<RET>>]>>
=============================================================================
