----------------------------- MODULE RV64Machine -----------------------------
(***************************************************************************)
(* rv64::vm::VirtualMachine (backend/rv64/vm): what each instruction does  *)
(* to the registers, the memory, the pc and the call stack.  The 32-bit    *)
(* form of an opcode (ADDW, SLLIW, ...) is the opcode with w = TRUE, the   *)
(* single and double form of a floating point opcode (FADD.S, FADD.D) the  *)
(* opcode with its precision p \in {"s", "d"}.                             *)
(*                                                                         *)
(* FSQRT, FMV, JAL, JALR, LUI and AUIPC are never emitted by this compiler *)
(* and are left out.  The input is a sequence of numbers, each in the      *)
(* range of the function that reads it.                                    *)
(***************************************************************************)
EXTENDS Words, Sequences, SequencesExt

CONSTANT MemSize    \* bytes of memory; MEM_SIZE in the code
ASSUME MemAssumption == MemSize \in Nat \ {0}

\* execute() resets the machine: zeroed registers and memory, main's pc,
\* the stack pointer in register 2 and the sentinel ~0 in register 1.
Reset(gprs, fprs, stackInit) ==
    [regs   |-> [r \in gprs |-> IF r = 2 THEN stackInit ELSE IF r = 1 THEN -1 ELSE 0],
     fregs  |-> [r \in fprs |-> 0],
     mem    |-> [a \in 0 .. MemSize - 1 |-> 0],
     pc     |-> 1, calls |-> <<>>, inp |-> <<>>, out |-> <<>>, fault |-> FALSE]

\* load<T>, store<T>: a segmentation fault ends the run.
InBounds(addr, n) == addr >= 0 /\ addr + n <= MemSize
Load(m, addr, n) == FromBytes(m.mem, addr, n)
Store(m, addr, v, n) ==
    IF InBounds(addr, n) THEN [m EXCEPT !.mem = PutBytes(@, addr, v, n)]
    ELSE [m EXCEPT !.fault = TRUE]

SetReg(m, r, v) == [m EXCEPT !.regs[r] = v]

\* get_f, get_d: a float is the low half of a floating point register.
FloatLen(p) == IF p = "s" THEN WLEN ELSE XLEN
GetF(m, r, p) == FloatValue(m.fregs[r] % 2^FloatLen(p), FloatLen(p))
\* set_f, set_d: set_f leaves the high half of the register as it was.
SetFBits(m, r, p, bits) ==
    [m EXCEPT !.fregs[r] = IF p = "s" THEN (@ \div 2^WLEN) * 2^WLEN + bits
                                      ELSE bits]
SetF(m, r, p, v) == SetFBits(m, r, p, FloatBits(v, FloatLen(p)))

\* The two-operand arithmetic that R and I instructions share, at width n.
\* DIV and REM never trap: a zero divisor gives -1 and the dividend.
Alu(op, x, y, n) ==
    LET a == Wrap(x, n)
        b == Wrap(y, n)
        shamt == y % n
    IN  CASE op = "ADD"  -> Wrap(a + b, n)
          [] op = "SUB"  -> Wrap(a - b, n)
          [] op = "MUL"  -> Wrap(a * b, n)
          [] op = "DIV"  -> IF b = 0 THEN -1 ELSE Wrap(Quotient(a, b), n)
          [] op = "REM"  -> IF b = 0 THEN a ELSE Remainder(a, b)
          [] op = "SLT"  -> Bool(a < b)
          [] op = "SLTU" -> Bool(Unsigned(a, n) < Unsigned(b, n))
          [] op = "AND"  -> BitAnd(a, b, n)
          [] op = "OR"   -> BitOr(a, b, n)
          [] op = "XOR"  -> BitXor(a, b, n)
          [] op = "SLL"  -> ShiftLeft(a, shamt, n)
          [] op = "SRL"  -> ShiftRightLogical(a, shamt, n)
          [] op = "SRA"  -> ShiftRightArith(a, shamt)

Width(i) == IF i.w THEN WLEN ELSE XLEN

exec_r(m, i) ==
    SetReg(m, i.rd, Alu(i.op, m.regs[i.rs1], m.regs[i.rs2], Width(i)))

\* Sign injection works on the bit patterns, which is why its width matters.
SignInject(m, i) ==
    LET n == FloatLen(i.p)
        half == 2^(n - 1)
        a == m.fregs[i.rs1] % 2^n
        s == (m.fregs[i.rs2] % 2^n) \div half
        t == IF i.op = "FSGNJN" THEN 1 - s ELSE s
    IN  SetFBits(m, i.rd, i.p, (a % half) + t * half)

exec_fr(m, i) ==
    LET a == GetF(m, i.rs1, i.p)    \* evaluated only where rs1 is an FPR
        b == GetF(m, i.rs2, i.p)
    IN  CASE i.op = "FADD" -> SetF(m, i.rd, i.p, a + b)
          [] i.op = "FSUB" -> SetF(m, i.rd, i.p, a - b)
          [] i.op = "FMUL" -> SetF(m, i.rd, i.p, a * b)
          [] i.op = "FDIV" -> SetF(m, i.rd, i.p, Quotient(a, b))
          [] i.op \in {"FSGNJ", "FSGNJN"} -> SignInject(m, i)
          [] i.op = "FEQ"  -> SetReg(m, i.rd, Bool(a = b))
          [] i.op = "FLT"  -> SetReg(m, i.rd, Bool(a < b))
          [] i.op = "FLE"  -> SetReg(m, i.rd, Bool(a <= b))
          \* p is the source's precision in FCVT.S.D and FCVT.D.S
          [] i.op = "FCVT" -> SetF(m, i.rd, IF i.p = "s" THEN "d" ELSE "s", a)
          \* FCVT.W.S, FCVT.L.D, ... and FCVT.S.W, FCVT.D.L, ...
          [] i.op = "FCVT_X" -> SetReg(m, i.rd, Wrap(a, Width(i)))
          [] i.op = "FCVT_F" -> SetF(m, i.rd, i.p, Wrap(m.regs[i.rs1], Width(i)))

\* ADDI, SLTI, XORI, ... are the R operation on the immediate.
AluOfImm == [ADDI |-> "ADD", SLTI |-> "SLT", SLTIU |-> "SLTU", XORI |-> "XOR",
             ORI |-> "OR", ANDI |-> "AND", SLLI |-> "SLL", SRLI |-> "SRL",
             SRAI |-> "SRA"]
LoadBytes  == [LD |-> 8, LW |-> 4, LWU |-> 4, LH |-> 2, LHU |-> 2, LB |-> 1, LBU |-> 1]
StoreBytes == [SD |-> 8, SW |-> 4, SH |-> 2, SB |-> 1]
UnsignedLoads == {"LWU", "LHU", "LBU"}

exec_i(m, i) ==
    LET addr == m.regs[i.rs1] + i.imm
    IN  IF i.op \in DOMAIN AluOfImm
        THEN SetReg(m, i.rd, Alu(AluOfImm[i.op], m.regs[i.rs1], i.imm, Width(i)))
        ELSE IF i.op \in DOMAIN StoreBytes
        THEN LET n == StoreBytes[i.op]
             IN  Store(m, addr, Unsigned(m.regs[i.rd], BYTE * n), n)
        ELSE LET n == LoadBytes[i.op]
                 v == Load(m, addr, n)
             IN  IF ~InBounds(addr, n) THEN [m EXCEPT !.fault = TRUE]
                 ELSE SetReg(m, i.rd, IF i.op \in UnsignedLoads THEN v
                                      ELSE Wrap(v, BYTE * n))

exec_b(m, i, labels) ==
    LET a == m.regs[i.rs1]
        b == m.regs[i.rs2]
        taken == CASE i.op = "BLT"  -> a < b
                   [] i.op = "BGE"  -> a >= b
                   [] i.op = "BLTU" -> Unsigned(a, XLEN) < Unsigned(b, XLEN)
                   [] i.op = "BGEU" -> Unsigned(a, XLEN) >= Unsigned(b, XLEN)
                   [] i.op = "BEQ"  -> a = b
                   [] i.op = "BNE"  -> a # b
    IN  IF taken THEN [m EXCEPT !.pc = labels[i.target]] ELSE m

exec_fi(m, i) ==
    LET addr == m.regs[i.rs1] + i.imm
        n == FloatLen(i.p) \div BYTE
    IN  IF ~InBounds(addr, n) THEN [m EXCEPT !.fault = TRUE]
        ELSE IF i.op = "FL" THEN SetFBits(m, i.rd, i.p, Load(m, addr, n))
        ELSE Store(m, addr, m.fregs[i.rd] % 2^FloatLen(i.p), n)

exec_pseudo_r(m, i) ==
    LET v == m.regs[i.rs1]
    IN  SetReg(m, i.rd, CASE i.op = "MV"   -> v
                          [] i.op = "NEG"  -> Wrap(-v, XLEN)
                          [] i.op = "NEGW" -> Wrap(-v, WLEN)
                          [] i.op = "SEQZ" -> Bool(v = 0)
                          [] i.op = "SNEZ" -> Bool(v # 0)
                          [] i.op = "NOT"  -> -v - 1)

exec_pseudo_li(m, i) == SetReg(m, i.rd, Wrap(i.imm, XLEN))

exec_pseudo_b(m, i, labels) ==
    IF (m.regs[i.rs1] = 0) = (i.op = "BEQZ")
    THEN [m EXCEPT !.pc = labels[i.target]] ELSE m

\* The library the VM provides: registers a0, a1, a2 are 10, 11, 12.
Builtins == {"print_int", "print_float", "print_double", "print_bool",
             "get_int", "get_float", "get_double", "memcpy", "memset"}
Builtin(m, name) ==
    LET a0 == m.regs[10]
        n == m.regs[12]
        fill == Unsigned(m.regs[11], BYTE)
    IN  CASE name = "print_int"    -> [m EXCEPT !.out = Append(@, a0)]
          [] name = "print_bool"   -> [m EXCEPT !.out = Append(@, Bool(a0 # 0))]
          [] name = "print_float"  -> [m EXCEPT !.out = Append(@, GetF(m, 10, "s"))]
          [] name = "print_double" -> [m EXCEPT !.out = Append(@, GetF(m, 10, "d"))]
          [] name = "get_int"    -> [SetReg(m, 10, Head(m.inp)) EXCEPT !.inp = Tail(@)]
          [] name = "get_float"  -> [SetF(m, 10, "s", Head(m.inp)) EXCEPT !.inp = Tail(@)]
          [] name = "get_double" -> [SetF(m, 10, "d", Head(m.inp)) EXCEPT !.inp = Tail(@)]
          [] name = "memset" ->
                IF ~InBounds(a0, n) THEN [m EXCEPT !.fault = TRUE]
                ELSE [m EXCEPT !.mem = [a \in DOMAIN @ |->
                          IF a \in a0 .. a0 + n - 1 THEN fill ELSE @[a]]]
          [] name = "memcpy" ->
                IF ~InBounds(a0, n) \/ ~InBounds(m.regs[11], n)
                THEN [m EXCEPT !.fault = TRUE]
                ELSE [m EXCEPT !.mem = [a \in DOMAIN @ |->
                          IF a \in a0 .. a0 + n - 1
                          THEN @[a - a0 + m.regs[11]] ELSE @[a]]]

\* A builtin runs in place; any other call pushes the return pc, which exec()
\* has already advanced.
exec_pseudo_j(m, i, labels) ==
    IF i.op = "CALL" /\ i.target \in Builtins THEN Builtin(m, i.target)
    ELSE IF i.op = "CALL"
    THEN [m EXCEPT !.calls = Append(@, m.pc), !.pc = labels[i.target]]
    ELSE [m EXCEPT !.pc = labels[i.target]]

exec_pseudo_l(m, i, symbols) ==
    LET addr == symbols[i.symbol]
    IN  CASE i.op = "LA"  -> SetReg(m, i.rd, addr)
          [] i.op = "LGD" -> SetReg(m, i.rd, Wrap(Load(m, addr, 8), XLEN))
          [] i.op = "LGW" -> SetReg(m, i.rd, Wrap(Load(m, addr, 4), WLEN))
          [] i.op = "SGD" -> Store(m, addr, Unsigned(m.regs[i.rd], XLEN), 8)
          [] i.op = "SGW" -> Store(m, addr, Unsigned(m.regs[i.rd], WLEN), 4)

\* Returning from main leaves the loop of execute() by a pc past the code.
exec_pseudo_ret(m, end) ==
    IF m.calls = <<>> THEN [m EXCEPT !.pc = end]
    ELSE [m EXCEPT !.pc = Last(m.calls), !.calls = Front(@)]

\* One round of the loop: advance the pc, then dispatch on the format.
exec(m0, i, labels, symbols, end) ==
    LET m == [m0 EXCEPT !.pc = @ + 1]
    IN  CASE i.f = "R"   -> exec_r(m, i)
          [] i.f = "FR"  -> exec_fr(m, i)
          [] i.f = "I"   -> exec_i(m, i)
          [] i.f = "B"   -> exec_b(m, i, labels)
          [] i.f = "FI"  -> exec_fi(m, i)
          [] i.f = "PR"  -> exec_pseudo_r(m, i)
          [] i.f = "LI"  -> exec_pseudo_li(m, i)
          [] i.f = "PB"  -> exec_pseudo_b(m, i, labels)
          [] i.f = "PJ"  -> exec_pseudo_j(m, i, labels)
          [] i.f = "PL"  -> exec_pseudo_l(m, i, symbols)
          [] i.f = "RET" -> exec_pseudo_ret(m, end)
=============================================================================
