------------------------------- MODULE Codegen -------------------------------
(***************************************************************************)
(* The back end as a whole: a function of the IR is lowered, selected,     *)
(* optimised and run on the RV64 virtual machine, and what it leaves is    *)
(* compared with what the IR virtual machine makes of the same function.   *)
(* A program is [locals, blocks, opt, live]: the stack locals with their   *)
(* initialisers, the blocks in reverse post-order, whether the assembly    *)
(* passes run, and the variables that are read after it.                   *)
(***************************************************************************)
EXTENDS Lowering

(* The assembly passes (backend/rv64/optim): redundant jumps, dead labels,   *)
(* branch conditions, redundant loads.  A function is a sequence of blocks   *)
(* [label, insts]; a block falls through to the next one.                    *)

\* peephole_apply: one pass over the windows from the back; Rule gives <<>>
\* for no match and <<replacement>> for a match at position i.
peephole_apply(insts, window, Rule(_, _)) ==
    LET last == Len(insts) - window + 1
        Rewrite(cur, i) ==
            LET r == Rule(cur, i)
            IN  IF i + window - 1 > Len(cur) \/ r = <<>> THEN cur
                ELSE SubSeq(cur, 1, i - 1) \o r[1] \o SubSeq(cur, i + window, Len(cur))
        pass[k \in Nat] == IF k = 0 THEN insts ELSE Rewrite(pass[k - 1], last + 1 - k)
    IN  IF last < 1 THEN insts ELSE pass[last]

\* A jump to the block that follows is dropped.  back() of a block that an
\* earlier round emptied is undefined; such a block is left alone here.
RedundantJumpElimination(asm) ==
    [b \in DOMAIN asm |->
        IF b < Len(asm) /\ asm[b].insts # <<>> /\ Last(asm[b].insts) = J(asm[b + 1].label)
        THEN [asm[b] EXCEPT !.insts = Front(@)] ELSE asm[b]]

Targets(insts) == {insts[k].target : k \in {k \in DOMAIN insts : insts[k].f \in {"B", "PB", "PJ"}}}

\* A block that nothing jumps to is appended to the one before it.
DeadLabelElimination(asm) ==
    LET used == {asm[1].label} \cup UNION {Targets(asm[b].insts) : b \in DOMAIN asm}
        Squash(done, blk) ==
            IF blk.label \in used THEN Append(done, blk)
            ELSE [done EXCEPT ![Len(done)].insts = @ \o blk.insts]
    IN  FoldLeft(Squash, <<>>, asm)

Inverted(op) == IF op = "BNEZ" THEN "BEQZ" ELSE "BNEZ"
cmp_rd(i) ==
    IF \/ i.f = "R" /\ i.op \in {"SLT", "SLTU"}
       \/ i.f = "I" /\ i.op \in {"SLTI", "SLTIU"}
       \/ i.f = "PR" /\ i.op \in {"SEQZ", "SNEZ"}
    THEN {i.rd} ELSE {}

\* #1: cmp x; xori x, x, 1; bnez x  =>  cmp x; beqz x
rule1(ii, k) ==
    LET x == ii[k + 1]
        br == ii[k + 2]
    IN  IF /\ x.f = "I" /\ br.f = "PB"
           /\ x.op = "XORI" /\ x.imm = 1 /\ x.rd = x.rs1
           /\ x.rd \in cmp_rd(ii[k]) /\ br.rs1 = x.rd
        THEN <<<<ii[k], PB(Inverted(br.op), br.rs1, br.target)>>>> ELSE <<>>

\* #2: slt x, y, z; bnez x  =>  blt y, z, and x is not written any more.
rule2(ii, k) ==
    LET c == ii[k]
        br == ii[k + 1]
        bop == IF br.op = "BNEZ" THEN [SLT |-> "BLT", SLTU |-> "BLTU"]
                                 ELSE [SLT |-> "BGE", SLTU |-> "BGEU"]
    IN  IF c.f = "R" /\ br.f = "PB" /\ c.op \in {"SLT", "SLTU"} /\ c.rd = br.rs1
        THEN <<<<[f |-> "B", op |-> bop[c.op], rs1 |-> c.rs1, rs2 |-> c.rs2,
                  target |-> br.target]>>>>
        ELSE <<>>

\* #3: seqz x, y; bnez x  =>  beqz y, and x is not written any more.
rule3(ii, k) ==
    LET c == ii[k]
        br == ii[k + 1]
    IN  IF c.f = "PR" /\ br.f = "PB" /\ c.op \in {"SEQZ", "SNEZ"} /\ c.rd = br.rs1
        THEN <<<<PB(IF (c.op = "SEQZ") = (br.op = "BNEZ") THEN "BEQZ" ELSE "BNEZ",
                    c.rs1, br.target)>>>>
        ELSE <<>>

Over(asm, Pass(_)) == [b \in DOMAIN asm |-> [asm[b] EXCEPT !.insts = Pass(@)]]

BranchCondSimplification(asm) ==
    LET Pass(insts) == peephole_apply(peephole_apply(peephole_apply(insts,
                           3, rule1), 2, rule2), 2, rule3)
    IN  Over(asm, Pass)

\* What a load of the bytes just stored from x leaves in z.
gen_extract(op, z, x) ==
    LET Shifted(n, back) == <<I("SLLI", FALSE, z, x, n * BYTE), I(back, FALSE, z, z, n * BYTE)>>
    IN  CASE op = "LD"  -> <<I("ADDI", FALSE, z, x, 0)>>
          [] op = "LW"  -> <<I("ADDI", TRUE, z, x, 0)>>
          [] op = "LWU" -> Shifted(4, "SRLI")
          [] op = "LH"  -> Shifted(6, "SRAI")
          [] op = "LHU" -> Shifted(6, "SRLI")
          [] op = "LB"  -> Shifted(7, "SRAI")
          [] op = "LBU" -> <<I("ANDI", FALSE, z, x, 2^BYTE - 1)>>

rule_load(ii, k) ==
    LET st == ii[k]
        ld == ii[k + 1]
    IN  IF /\ st.f = "I" /\ ld.f = "I"
           /\ st.op \in DOMAIN StoreBytes /\ ld.op \in DOMAIN LoadBytes
           /\ LoadBytes[ld.op] <= StoreBytes[st.op]
           /\ st.rs1 = ld.rs1 /\ st.imm = ld.imm
        THEN <<<<st>> \o gen_extract(ld.op, ld.rd, st.rd)>> ELSE <<>>

RedundantLoadElimination(asm) ==
    LET Pass(insts) == peephole_apply(insts, 2, rule_load) IN Over(asm, Pass)

\* One round of `while (apply(passes))`, in the order of the driver.
AsmRound(asm) ==
    RedundantLoadElimination(BranchCondSimplification(
        DeadLabelElimination(RedundantJumpElimination(asm))))

-----------------------------------------------------------------------------
CONSTANTS Programs,     \* the functions to compile
          Inputs(_),    \* the values of the variables a function may start with
          StackInit     \* sp at entry; globals and literals lie above

ASSUME LayoutAssumption == StackInit \in 0 .. MemSize

VARIABLES prog,     \* the function being compiled
          phase,    \* lower, select, optimise, run, done
          lowered,  \* its blocks after the lowering passes
          asm,      \* its assembly
          ir,       \* the state of the IR machine, at the end of the function
          m         \* the RV64 machine

vars == <<prog, phase, lowered, asm, ir, m>>

GlobalName == "G"
GlobalAddr == StackInit
InitAddr   == GlobalAddr + 8
PoolAddr   == InitAddr + 16

\* Module::float_literals in the order of selection, and where each one is.
Literals(code) ==
    LET loads == SelectSeq(code, LAMBDA i : i.f = "PL" /\ "lit" \in DOMAIN i.symbol)
    IN  [k \in DOMAIN loads |-> loads[k].symbol]
Code(blocks) == FlattenSeq([b \in DOMAIN blocks |-> blocks[b].insts])
Symbols(code) ==
    LET lits == Literals(code)
        all == ToSet(lits) \cup {Named(GlobalName), Named(InitSymbol)}
    IN  [s \in all |->
            CASE s = Named(GlobalName) -> GlobalAddr
              [] s = Named(InitSymbol) -> InitAddr
              [] "lit" \in DOMAIN s -> PoolAddr + 8 * ((CHOOSE k \in DOMAIN lits : lits[k] = s) - 1)]

\* The pc of each label: the loader lays the blocks out one after another.
Labels(blocks) ==
    [l \in {blocks[b].label : b \in DOMAIN blocks} |->
        LET at == CHOOSE b \in DOMAIN blocks : blocks[b].label = l
        IN  1 + Len(Code(SubSeq(blocks, 1, at - 1)))]

\* Stack memory holds whatever was there before.
Garbage == 1
Memory0 == [a \in 0 .. MemSize - 1 |-> Garbage]

\* The globals, the array constants and the literal pool of the module.
LoadData(mem, p, code) ==
    LET lits == Literals(code)
        arrays == SelectSeq(Code(p.blocks), LAMBDA i : i.k = "binary" /\ i.op = "STORE_ARRAY")
        consts == IF arrays = <<>> THEN mem
                  ELSE PutArray(mem, InitAddr, arrays[1].a.e, Prune(arrays[1].b.v))
    IN  FoldLeft(LAMBDA acc, s : PutValue(acc, Symbols(code)[s], s.t, s.lit), consts, lits)

Frame(p, blocks) == compute_frame(p.locals, outgoing_arg_area(blocks))

\* execute(Func): the locals get their addresses and initial values, then the
\* blocks run from the entrance; a return ends the function.
Addresses(p, frame) ==
    [n \in DOMAIN frame.offsets \cup {GlobalName} |->
        IF n = GlobalName THEN GlobalAddr ELSE StackInit - frame.total + frame.offsets[n]]
EnterFunc(p, frame, mem, in) ==
    LET addr == Addresses(p, frame)
    IN  [g |-> in.g, f |-> in.f, inp |-> in.inp, out |-> <<>>, addr |-> addr,
         mem |-> FoldLeft(LAMBDA acc, l : PutArray(acc, addr[l.name], l.e, l.init), mem, p.locals)]
BlockAt(p, l) == p.blocks[CHOOSE b \in DOMAIN p.blocks : p.blocks[b].label = l]
NextBlock(s, exit) ==
    CASE exit.k = "return" -> "return"
      [] exit.k = "jump"   -> exit.target
      [] exit.k = "branch" -> IF view_of(s, exit.cond) # 0 THEN exit.yes ELSE exit.no
RunIR(p, s0) ==
    LET run[n \in 0 .. Len(p.blocks)] ==
            IF n = 0 THEN [s |-> s0, at |-> p.blocks[1].label]
            ELSE LET prev == run[n - 1]
                     blk == BlockAt(p, prev.at)
                     s == FoldLeft(ExecInst, prev.s, blk.insts)
                 IN  IF prev.at = "return" THEN prev
                     ELSE [s |-> s, at |-> NextBlock(s, blk.exit)]
    IN  run[Len(p.blocks)].s

\* A variable's value in its register: integers sign-extended, a float in the
\* low half of its register.
GRegs == 0 .. 31
FRegs == 0 .. 31
Start(in, mem) ==
    [Reset(GRegs, FRegs, StackInit) EXCEPT
        !.regs  = [r \in GRegs |-> IF r \in DOMAIN in.g THEN in.g[r] ELSE @[r]],
        !.fregs = [r \in FRegs |-> IF r \in DOMAIN in.f
                                   THEN FloatBits(in.f[r], BitsOf(in.ft)) ELSE @[r]],
        !.mem   = mem,
        !.inp   = in.inp]

Init ==
    /\ prog \in Programs
    /\ \E in \in Inputs(prog) :
          /\ ir = in
          /\ m = Start(in, Memory0)
    /\ phase = "lower"
    /\ lowered = <<>>
    /\ asm = <<>>

LowerFunc ==
    /\ phase = "lower"
    /\ phase' = "select"
    /\ lowered' = [b \in DOMAIN prog.blocks |->
                      [prog.blocks[b] EXCEPT !.insts = lower_block(@, prog.locals)]]
    /\ UNCHANGED <<prog, asm, ir, m>>

Select ==
    /\ phase = "select"
    /\ phase' = IF prog.opt THEN "optimise" ELSE "run"
    /\ asm' = translate_func(prog.locals, lowered)
    /\ LET mem == LoadData(Memory0, prog, Code(asm'))
           frame == Frame(prog, lowered)
       IN  /\ m' = [m EXCEPT !.mem = mem]
           /\ ir' = RunIR(prog, EnterFunc(prog, frame, mem, ir))
    /\ UNCHANGED <<prog, lowered>>

\* `while (apply(passes));`
Optimise ==
    /\ phase = "optimise"
    /\ asm' = AsmRound(asm)
    /\ phase' = IF asm' = asm THEN "run" ELSE phase
    /\ UNCHANGED <<prog, lowered, ir, m>>

Step ==
    /\ phase = "run"
    /\ LET code == Code(asm)
           end == Len(code) + 1
       IN  /\ m' = exec(m, code[m.pc], Labels(asm), Symbols(code), end)
           /\ phase' = IF m'.pc = end \/ m'.fault THEN "done" ELSE phase
    /\ UNCHANGED <<prog, lowered, asm, ir>>

Next == LowerFunc \/ Select \/ Optimise \/ Step
Spec == Init /\ [][Next]_vars

-----------------------------------------------------------------------------
\* The registers hold the values the IR machine gave the variables that are
\* still read, whether the function wrote them or not, and sp is restored.
RegistersAgree ==
    phase = "done" =>
        /\ ~m.fault
        /\ m.regs[sp] = StackInit
        /\ \A x \in prog.live :
              IF x.t \in FloatTypes
              THEN GetF(m, x.r, Precision(x.t)) = ir.f[x.r]
              ELSE m.regs[x.r] = ir.g[x.r]

\* Memory and output are those of the IR machine, byte by byte, outside the
\* outgoing argument area: lowering, the prologue's initialisers and the
\* stores write what they should, and nothing beside it.
MemoryAgrees ==
    phase = "done" =>
        LET frame == Frame(prog, lowered)
            low == StackInit - frame.total
            scratch == low .. low + outgoing_arg_area(lowered) - 1
        IN  /\ \A a \in DOMAIN m.mem \ scratch : m.mem[a] = ir.mem[a]
            /\ m.out = ir.out

\* Every immediate fits its field, after selection and after every round of
\* the assembly passes; a shift amount is below the register width.
Shifts == {"SLLI", "SRLI", "SRAI"}
ImmediatesFit ==
    \A b \in DOMAIN asm : \A k \in DOMAIN asm[b].insts :
        LET i == asm[b].insts[k]
        IN  i.f \in {"I", "FI"} =>
                IF i.op \in Shifts THEN i.imm \in 0 .. XLEN - 1 ELSE i.imm \in Signed(ILEN)

\* The slots of the frame are disjoint, above the outgoing arguments, inside
\* the frame and aligned for their element, although the size of an array is
\* used as a mask without being a power of two.
FrameSound ==
    phase # "lower" =>
        LET f == Frame(prog, lowered)
            L == prog.locals
            Slot(k) == f.offsets[L[k].name] .. f.offsets[L[k].name] + LocalSize(L[k]) - 1
        IN  /\ f.total % StackAlignment = 0
            /\ \A k \in DOMAIN L :
                  /\ Slot(k) \subseteq outgoing_arg_area(lowered) .. f.total - 1
                  /\ f.offsets[L[k].name] % SizeOf[L[k].e] = 0
                  /\ \A n \in DOMAIN L : n # k => Slot(k) \cap Slot(n) = {}
=============================================================================
