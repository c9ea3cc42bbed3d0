------------------------------ MODULE RegAlloc ------------------------------
(***************************************************************************)
(* The passes of backend/ir/lowering around the colouring of a graph: what *)
(* must be in memory goes there (reg2mem), calls, returns and callee-saved *)
(* registers are tied to their registers (regalloc/precolorize), the       *)
(* interference graph is built (regalloc/graph), values are spilled        *)
(* (regalloc/spill), and the colours replace the values (regalloc/main).   *)
(*                                                                         *)
(* An ABI is a record: size, caller_saved, callee_saved, reserved,         *)
(* parameters (a sequence), return_value and return_addr.  All values are  *)
(* integers: the graph of the floating-point registers is built by the     *)
(* same code.                                                              *)
(***************************************************************************)
EXTENDS DestructSSA

Reg(n) == <<"__reg", <<n>>>>
RegVar(n) == NamedValue(Reg(n))
IsCall(i) == i.op \in {"CALL"} \cup LibraryCalls
Position(p, b, id) == CHOOSE k \in DOMAIN p.body[b] : p.body[b][k].id = id

\* Instruction k of b becomes the given ones.
ReplaceBy(p, b, k, insts) ==
    FoldLeftDomain(LAMBDA q, j : insert_at(q, b, k + j - 1, insts[j]), erase(p, b, k), insts)

(***************************************************************************)
(* reg2mem: replace_instruments, spill and RegToMem                        *)
(***************************************************************************)
InMemory(S, x) == x[1] = "named" /\ alloc_of(x) \in S
SpilledUses(S, args) ==
    {args[k].v : k \in {j \in DOMAIN args : IsVar(args[j]) /\ InMemory(S, args[j].v)}}

\* A value in memory is loaded once for an instruction, and stored after it.
reload(p, f, S, b, i) ==
    LET loads == SetToSeq(SpilledUses(S, i.args))
        n == p.temps[f]
        Temp(x) == TempValue(f, n - 1 + CHOOSE k \in DOMAIN loads : loads[k] = x)
        args == [k \in DOMAIN i.args |->
                    IF IsVar(i.args[k]) /\ i.args[k].v \in ToSet(loads)
                    THEN V(Temp(i.args[k].v)) ELSE i.args[k]]
        result == TempValue(f, n + Len(loads))
        stored == i.res # NoVar /\ InMemory(S, i.res)
        before == [k \in DOMAIN loads |-> Inst("LOAD", Temp(loads[k]), <<V(loads[k])>>)]
        new == [i EXCEPT !.args = args, !.res = IF stored THEN result ELSE @]
    IN  IF loads = <<>> /\ ~stored THEN p
        ELSE ReplaceBy([p EXCEPT !.temps[f] = @ + Len(loads) + (IF stored THEN 1 ELSE 0)],
                       b, Position(p, b, i.id),
                       before \o <<new>>
                       \o (IF stored THEN <<Inst("STORE", NoVar, <<V(i.res), V(result)>>)>> ELSE <<>>))
reload_exit(p, f, S, b) ==
    LET e == p.exit[b]
        q == newTemp(p, f)
        temp == LastTemp(q, f)
    IN  IF SpilledUses(S, e.arg) = {} THEN p
        ELSE setExit(append_inst(q, b, Inst("LOAD", temp, e.arg)), b, [e EXCEPT !.arg = <<V(temp)>>])
replace_instruments(p, f, S) ==
    FoldLeft(LAMBDA q, b :
        reload_exit(FoldLeft(LAMBDA r, i : reload(r, f, S, b, i), q, q.body[b]), f, S, b),
        p, p.blocks[f])

\* spill: the allocations in S become references.
spill_allocs(p, S) ==
    FoldLeft(LAMBDA q, f : replace_instruments(q, f, S), [p EXCEPT !.refs = @ \cup S], p.funcs)
reg_to_mem(p) == spill_allocs(p, p.globals \ p.refs)

\* Spill::apply: a temporary gets an allocation first.
spill_values(p, values) ==
    LET Slot(x) == IF x[1] = "temp" THEN <<"__spill", <<x[3], p.next>>>> ELSE alloc_of(x)
        Home(q, x) ==
            LET new == NamedValue(Slot(x))
                r == replace_all_uses_with(replace_all_defs_with(q, x, new), x, V(new))
            IN  [r EXCEPT !.locals[x[2]] = @ \cup {Slot(x)}]
        Homed == FoldSet(LAMBDA x, q : IF x[1] = "temp" THEN Home(q, x) ELSE q, p, values)
    IN  spill_allocs(Homed, {Slot(x) : x \in values})

(***************************************************************************)
(* Precolorize                                                             *)
(***************************************************************************)
map_registers(p, abi) == [p EXCEPT !.globals = @ \cup {Reg(n) : n \in 0 .. abi.size - 1}]

Mv(x, o) == Inst("MOV", x, <<o>>)
colorize_call(p, abi, b, i) ==
    LET n == Min({Len(i.args), Len(abi.parameters)})
        Proxy(k) == RegVar(abi.parameters[k])
        args == [k \in DOMAIN i.args |-> IF k <= n THEN V(Proxy(k)) ELSE i.args[k]]
        ret == RegVar(abi.return_value)
        moves == [k \in 1 .. n |-> Mv(Proxy(k), i.args[k])]
        call == [i EXCEPT !.args = args, !.res = IF @ = NoVar THEN NoVar ELSE ret]
        result == IF i.res = NoVar THEN <<>> ELSE <<Mv(i.res, V(ret))>>
    IN  IF ~IsCall(i) THEN p
        ELSE ReplaceBy(p, b, Position(p, b, i.id), moves \o <<call>> \o result)

ReturnBlocks(p, f) == {b \in Blocks(p, f) : p.exit[b].to = <<>>}
colorize_return(p, f, abi) ==
    LET proxy == RegVar(abi.return_value)
        One(b, q) == IF q.exit[b].arg[1] = Void THEN q
                     ELSE setExit(append_inst(q, b, Mv(proxy, q.exit[b].arg[1])), b, Return(V(proxy)))
    IN  FoldSet(One, p, ReturnBlocks(p, f))

\* From the last register to the first: saved at the entrance, and given back
\* at the end of the blocks that return.
save_register(p, f, n) ==
    LET q == newTemp(p, f)
        backup == LastTemp(q, f)
        saved == prepend_inst(q, entrance(q, f), Mv(backup, V(RegVar(n))))
    IN  FoldSet(LAMBDA b, r : append_inst(r, b, Mv(RegVar(n), V(backup))), saved, ReturnBlocks(q, f))
colorize_callee_saved(p, f, abi) ==
    FoldLeft(LAMBDA q, n : save_register(q, f, n), p, SetToSortSeq(abi.callee_saved, >))

precolorize(p, abi) ==
    LET CallsIn(q, f) ==
            FoldLeft(LAMBDA r, b : FoldLeft(LAMBDA s, i : colorize_call(s, abi, b, i), r, r.body[b]),
                     q, q.blocks[f])
        One(q, f) == colorize_callee_saved(colorize_return(CallsIn(q, f), f, abi), f, abi)
    IN  FoldLeft(One, map_registers(p, abi), p.funcs)

(***************************************************************************)
(* InterfereGraph::build                                                   *)
(***************************************************************************)
need_register(p, x) ==
    x[1] = "named" => alloc_of(x) \notin p.refs \cup DOMAIN p.comptime
UsedVars(args) == {args[k].v : k \in {j \in DOMAIN args : IsVar(args[j])}}

\* What a call defines besides its result.
DefsOf(abi, i) ==
    ({i.res} \ {NoVar}) \cup (IF IsCall(i) THEN {RegVar(abi.return_addr)} ELSE {})
LiveBefore(abi, live, i) == (live \ DefsOf(abi, i)) \cup UsedVars(i.args)

\* The variables live at the end of each block, its exit included, as pairs:
\* the least solution of the equations (which Liveness shows the solver to find).
At(out, b) == {l[2] : l \in {o \in out : o[1] = b}}
Up(abi, insts, live) == FoldRight(LAMBDA i, acc : LiveBefore(abi, acc, i), insts, live)
FlowsBack(p, b, abi, out) ==
    {b} \X UNION {Up(abi, p.body[c], At(out, c)) : c \in targets(p.exit[b])}
live_out(p, f, abi) ==
    LET AtExits == UNION {{b} \X UsedVars(p.exit[b].arg) : b \in Blocks(p, f)}
        Solve[n \in Nat] ==
            IF n = 0 THEN AtExits
            ELSE LET out == Solve[n - 1]
                 IN  out \cup UNION {FlowsBack(p, b, abi, out) : b \in Blocks(p, f)}
    IN  Solve[Len(p.blocks[f])]

Pairs(S, T) == {{x, y} : x \in S, y \in T}

\* Going up a block: what an instruction defines interferes with what is live
\* after it, and what is live across a call with every caller-saved register.
\* Mutant: a value that is live across a call may be in any register.
CrossCall_free(abi, live, i) == {}
CrossCall(abi, live, i) ==
    IF IsCall(i) THEN {{l, RegVar(n)} : l \in live, n \in abi.caller_saved} ELSE {}
\* Mutant: what an instruction reads is live after it as well.
Interferences_uses(abi, live, i) ==
    Pairs(DefsOf(abi, i), live \cup UsedVars(i.args)) \cup CrossCall(abi, live, i)
Interferences(abi, live, i) ==
    Pairs(DefsOf(abi, i), live) \cup CrossCall(abi, live, i)
BlockEdges(abi, insts, out) ==
    FoldRight(LAMBDA i, acc : [live  |-> LiveBefore(abi, acc.live, i),
                               edges |-> acc.edges \cup Interferences(abi, acc.live, i)],
              insts, [live |-> out, edges |-> {}]).edges

Registers(abi) == {RegVar(n) : n \in 0 .. abi.size - 1}
Between(p, edges) == {e \in edges : Cardinality(e) = 2 /\ \A x \in e : need_register(p, x)}
build_func(p, f, abi) ==
    LET out == live_out(p, f, abi)
    IN  UNION {BlockEdges(abi, p.body[b], At(out, b)) : b \in Blocks(p, f)}
Moves(p) ==
    {{i.res, i.args[1].v} : i \in {j \in UNION {ToSet(p.body[b]) : b \in AllBlocks(p)} :
                                       j.op = "MOV" /\ IsVar(j.args[1])}}
build(p, abi) ==
    LET nodes == Registers(abi) \cup {x \in UNION {VarsOf(p, f) : f \in ToSet(p.funcs)} \ {NoVar} :
                                         need_register(p, x)}
        reserved == {RegVar(n) : n \in abi.reserved}
    IN  [nodes |-> nodes,
         edges |-> Between(p, Pairs(Registers(abi), Registers(abi)) \cup Pairs(nodes, reserved)
                              \cup UNION {build_func(p, f, abi) : f \in ToSet(p.funcs)}),
         moves |-> Between(p, Moves(p))]

(***************************************************************************)
(* What BriggsAllocator answers.                                           *)
(***************************************************************************)
Adjacent(g, x) == UNION {e \in g.edges : x \in e} \ {x}
Partners(g, x) == UNION {e \in g.moves : x \in e} \ {x}

\* The register of a value whose only copy is to or from one that interferes
\* with all its neighbours (BriggsAllocator!SafeMovesJoined).
Joined(g, abi, x) ==
    {n \in 0 .. abi.size - 1 : /\ Partners(g, x) = {RegVar(n)}
                               /\ RegVar(n) \notin Adjacent(g, x)
                               /\ Adjacent(g, x) \subseteq Adjacent(g, RegVar(n))}

\* The answer is a proper colouring that extends the registers (ProperColoring,
\* Answered); of these, the ones in which two values share a register wherever
\* the graph lets them: one value comes first, and each takes the first register
\* left for it, counting from r.  Nothing, if one is left without.
Left(g, abi, c, x) ==
    (IF Joined(g, abi, x) = {} THEN 0 .. abi.size - 1 ELSE Joined(g, abi, x))
    \ {d[2] : d \in {e \in c : {e[1], x} \in g.edges}}
FirstFrom(abi, r, S) ==
    CHOOSE n \in S : \A m \in S : (n - r) % abi.size <= (m - r) % abi.size
Give(abi, r, c, x, left) == IF left = {} THEN {} ELSE {c \cup {<<x, FirstFrom(abi, r, left)>>}}
Take(g, abi, r, S, x) == UNION {Give(abi, r, c, x, Left(g, abi, c, x)) : c \in S}
FirstFit(g, abi, r, S, values) == FoldSet(LAMBDA x, T : Take(g, abi, r, T, x), S, values)
Colorings(g, abi) ==
    LET values == g.nodes \ Registers(abi)
        joined == {x \in values : Joined(g, abi, x) # {}}
        pinned == {{<<RegVar(n), n>> : n \in 0 .. abi.size - 1}}
        Start == FirstFit(g, abi, 0, pinned, joined)
        From(r, x) == FirstFit(g, abi, r, Take(g, abi, r, Start, x), values \ (joined \cup {x}))
    IN  IF values = joined THEN Start
        ELSE UNION {From(r, x) : x \in values \ joined, r \in 0 .. abi.size - 1}

(***************************************************************************)
(* RegisterReplacement and RedundantMoveElimination                        *)
(***************************************************************************)
Colored(c, x) ==
    LET own == {d \in c : d[1] = x}
    IN  IF own = {} THEN x ELSE RegVar((CHOOSE d \in own : TRUE)[2])
ColoredArgs(c, args) ==
    [k \in DOMAIN args |-> IF IsVar(args[k]) THEN V(Colored(c, args[k].v)) ELSE args[k]]
replace_registers(p, c) ==
    LET Inst1(i) == [i EXCEPT !.res = Colored(c, @), !.args = ColoredArgs(c, @)]
        Block1(q, b) ==
            setExit(ForInsts(Inst1, q, b).p, b, [q.exit[b] EXCEPT !.arg = ColoredArgs(c, @)])
    IN  FoldLeft(LAMBDA q, f : FoldLeft(Block1, q, q.blocks[f]), p, p.funcs)

drop_moves(p) ==
    LET One(b, q, i) ==
            IF i.op = "MOV" /\ i.args[1] = V(i.res) THEN erase(q, b, Position(q, b, i.id)) ELSE q
        Block1(q, b) == FoldLeft(LAMBDA r, i : One(b, r, i), q, q.body[b])
    IN  FoldLeft(LAMBDA q, f : FoldLeft(Block1, q, q.blocks[f]), p, p.funcs)
=============================================================================
