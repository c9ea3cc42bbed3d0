---------------------------- MODULE OptimPasses ----------------------------
(***************************************************************************)
(* The optimisation passes of backend/ir/transform/optim, each as an       *)
(* operator from a program to the program after one application (or one   *)
(* turn of its loop) and whether it changed anything: [p, ch].             *)
(***************************************************************************)
EXTENDS UseDef, IRMachine

Unchanged(p) == [p |-> p, ch |-> FALSE]

\* A step r that was made on acc.p.
Then(acc, r) == [p |-> r.p, ch |-> acc.ch \/ r.ch]

\* Applies a pass that works on one function at a time to all of them.
ForFuncs(Pass(_, _), p) ==
    FoldLeft(LAMBDA acc, f : Then(acc, Pass(acc.p, f)), Unchanged(p), p.funcs)

\* Applies Rewrite, which returns the new instruction, to each instruction of b;
\* an instruction that Rewrite returns as it is stays.
\* Mutant: an instruction that stays as it is counts as a change.
ReplaceInst_always(acc, b, k, new) == [p |-> replace(acc.p, b, k, new), ch |-> TRUE]
ReplaceInst(acc, b, k, new) ==
    IF new = acc.p.body[b][k] THEN acc ELSE [p |-> replace(acc.p, b, k, new), ch |-> TRUE]
ForInsts(Rewrite(_), p, b) ==
    FoldLeftDomain(LAMBDA acc, k : ReplaceInst(acc, b, k, Rewrite(acc.p.body[b][k])),
                   Unchanged(p), p.body[b])

Mov(i, o) == [Inst("MOV", i.res, <<o>>) EXCEPT !.id = i.id]

(***************************************************************************)
(* SSAValue2TempValue                                                      *)
(***************************************************************************)
ssa_to_temp(p, f) ==
    LET Step(acc, i) ==
            LET new == TempValue(f, acc.p.temps[f])
                q == replace_all_uses_with([acc.p EXCEPT !.temps[f] = @ + 1], i.res, V(new))
            IN  IF i.res[1] # "ssa" THEN acc
                ELSE [p |-> replace_all_defs_with(q, i.res, new), ch |-> TRUE]
    IN  FoldLeft(Step, Unchanged(p),
                 FlattenSeq([k \in DOMAIN p.blocks[f] |-> p.body[p.blocks[f][k]]]))

(***************************************************************************)
(* CopyPropagation                                                         *)
(***************************************************************************)
\* get_root: follows the copies until there is none or one comes round again.
get_root(copies, o) ==
    LET Walk[n \in Nat] ==
            IF n = 0 THEN [o |-> o, seen |-> {}, stop |-> FALSE]
            ELSE LET w == Walk[n - 1]
                 IN  IF \/ w.stop
                        \/ IsConst(w.o)
                        \/ w.o.v \notin DOMAIN copies
                        \/ copies[w.o.v] \in w.seen
                     THEN [w EXCEPT !.stop = TRUE]
                     ELSE [o |-> copies[w.o.v], seen |-> w.seen \cup {copies[w.o.v]},
                           stop |-> FALSE]
    IN  Walk[Cardinality(DOMAIN copies) + 1].o

\* A phi is a copy when its arguments, itself apart, have one root.
PhiRoots(copies, i) ==
    {r \in {get_root(copies, i.args[k]) : k \in DOMAIN i.args} : r # V(i.res)}
identify_copies(p, f) ==
    LET known == [x \in {NamedValue(a) : a \in (DOMAIN p.comptime \cap p.globals) \ p.refs} |->
                     p.comptime[alloc_of(x)]]
        Step(copies, i) ==
            CASE i.op = "MOV" -> Record(copies, i.res, i.args[1])
              [] i.op = "PHI" /\ (\A k \in DOMAIN i.args : IsVar(i.args[k]))
                              /\ Cardinality(PhiRoots(copies, i)) = 1 ->
                    Record(copies, i.res, CHOOSE r \in PhiRoots(copies, i) : TRUE)
              [] OTHER -> copies
        copies == FoldLeft(Step, known,
                     FlattenSeq([k \in DOMAIN p.blocks[f] |-> p.body[p.blocks[f][k]]]))
    IN  {<<x, get_root(copies, copies[x])>> : x \in DOMAIN copies}

(***************************************************************************)
(* ConstantFolding                                                         *)
(***************************************************************************)
\* ConstexprFolder::fold; nothing for what it does not fold.
NoFold == <<>>
fold_unary(op, o) ==
    CASE op = "NEG" /\ o.t = "int32" -> <<Num(eval_unary("NEG", "int32", o.c))>>
      [] op = "NOT" /\ o.t = "int1"  -> <<Truth(o.c = 0)>>
      [] OTHER -> NoFold
fold_binary(op, l, r) ==
    CASE l.t # r.t \/ l.t = "void" -> NoFold
      [] l.t = "int1" ->
            IF op \in {"AND", "OR"} THEN <<Truth(eval_binary(op, "int1", l.c, r.c) = 1)>>
            ELSE IF op \in {"EQ", "NEQ"} THEN <<Truth((l.c = r.c) = (op = "EQ"))>> ELSE NoFold
      [] op \in {"DIV", "MOD"} /\ r.c = 0 -> NoFold
      [] op \in {"ADD", "SUB", "MUL", "DIV", "MOD", "SHL", "SHRL", "SHRA"} ->
            <<Num(eval_binary(op, "int32", l.c, r.c))>>
      [] op \in Comparisons ->
            <<Truth(eval_comparison(op, "int32", "int32", l.c, r.c) = 1)>>
      [] OTHER -> NoFold

IsZero(o) == IsConst(o) /\ o.t # "void" /\ o.c = 0
IsOne(o)  == IsConst(o) /\ o.t = "int32" /\ o.c = 1
identity_result(i) ==
    LET l == i.args[1]
        r == i.args[2]
    IN  CASE i.op \in {"ADD", "SUB"} /\ IsZero(r) -> <<l>>
          [] i.op = "ADD" /\ IsZero(l) -> <<r>>
          [] i.op = "MUL" /\ IsOne(r) -> <<l>>
          [] i.op = "MUL" /\ IsOne(l) -> <<r>>
          [] OTHER -> NoFold

UnaryOps  == {"MOV", "NEG", "NOT", "LOAD"}
BinaryOps == {"ADD", "SUB", "MUL", "DIV", "MOD", "SHL", "AND", "OR", "STORE"} \cup Comparisons
fold_inst(i) ==
    LET consts == \A k \in DOMAIN i.args : IsConst(i.args[k])
        MovOf(folded) == IF folded = NoFold THEN i ELSE Mov(i, folded[1])
    IN  CASE i.res = NoVar -> i
          [] i.op \in UnaryOps /\ consts -> MovOf(fold_unary(i.op, i.args[1]))
          [] i.op \in BinaryOps /\ consts -> MovOf(fold_binary(i.op, i.args[1], i.args[2]))
          [] i.op \in BinaryOps -> MovOf(identity_result(i))
          [] i.op = "PHI" /\ consts /\ Cardinality(ToSet(i.args)) = 1 -> Mov(i, i.args[1])
          [] OTHER -> i

fold_exit(acc, b, e) ==
    IF Len(e.to) = 2 /\ IsConst(e.arg[1]) /\ e.arg[1].t = "int1"
    THEN [p |-> setExit(acc.p, b, Jump(IF e.arg[1].c = 1 THEN e.to[1] ELSE e.to[2])), ch |-> TRUE]
    ELSE acc
fold_block(p, b) == fold_exit(ForInsts(fold_inst, p, b), b, p.exit[b])

\* Uses of the allocations in S that are known at compile time become constants.
inline_comptime(p, S) ==
    FoldSet(LAMBDA a, acc :
              [p  |-> replace_all_uses_with(acc.p, NamedValue(a), p.comptime[a]),
               ch |-> acc.ch \/ uses_of(acc.p, NamedValue(a)) # {}],
            Unchanged(p), (S \cap DOMAIN p.comptime) \ p.refs)
constant_folding(p) ==
    LET Propagate(q, f) ==
            FoldLeft(LAMBDA acc, b : Then(acc, fold_block(acc.p, b)),
                     inline_comptime(q, q.locals[f]), q.blocks[f])
        AfterGlobals(g) == Then(g, ForFuncs(Propagate, g.p))
    IN  AfterGlobals(inline_comptime(p, p.globals))

(***************************************************************************)
(* DeadDefElimination, DeadAllocElimination, DeadTempElimination           *)
(***************************************************************************)
LibraryCalls == {"GETINT", "PRINTINT"}
has_side_effect(i) == i.op \in {"CALL", "STORE"} \cup LibraryCalls

\* One sweep; an erased instruction no longer uses its operands for the rest of it.
eliminate_defs(p, f) ==
    LET Sweep(acc, b) ==
            FoldLeft(LAMBDA a, i :
                IF i.res # NoVar /\ uses_of(a.p, i.res) = {} /\ ~has_side_effect(i)
                THEN [p |-> erase(a.p, b, CHOOSE k \in DOMAIN a.p.body[b] : a.p.body[b][k].id = i.id),
                      ch |-> TRUE]
                ELSE a,
                acc, acc.p.body[b])
    IN  FoldLeft(Sweep, Unchanged(p), p.blocks[f])

VarsOf(p, f) ==
    UNION {{u[3] : u \in UsesIn(p, b)} \cup {i.res : i \in ToSet(p.body[b])} : b \in Blocks(p, f)}
referenced(p, f) == {alloc_of(x) : x \in {y \in VarsOf(p, f) : y[1] \in {"named", "ssa"}}}
dead_alloc(p) ==
    LET all == UNION {referenced(p, f) : f \in ToSet(p.funcs)}
        q == [p EXCEPT !.locals = [f \in DOMAIN @ |-> @[f] \cap all], !.globals = @ \cap all]
    IN  [p |-> q, ch |-> \/ p.globals # q.globals
                         \/ \E f \in ToSet(p.funcs) : p.locals[f] # q.locals[f]]

\* The temporaries in use move to 0, 1, ... in ascending order.
dead_temp(p, f) ==
    LET live == SelectSeq([k \in 1 .. p.temps[f] |-> k - 1],
                    LAMBDA n : \/ defs_of(p, TempValue(f, n)) # {}
                               \/ uses_of(p, TempValue(f, n)) # {})
        Move(q, k) ==
            LET from == TempValue(f, live[k])
                to == TempValue(f, k - 1)
            IN  IF from = to THEN q
                ELSE replace_all_defs_with(replace_all_uses_with(q, from, V(to)), from, to)
        r == FoldLeftDomain(Move, p, live)
    IN  [p |-> [r EXCEPT !.temps[f] = Len(live)], ch |-> Len(live) # p.temps[f]]

(***************************************************************************)
(* DeadBlockElimination                                                    *)
(***************************************************************************)
KeepSources(i, S) ==
    LET keep == SelectSeq([k \in DOMAIN i.src |-> k], LAMBDA k : i.src[k] \in S)
    IN  [i EXCEPT !.src = [k \in DOMAIN keep |-> i.src[keep[k]]],
                  !.args = [k \in DOMAIN keep |-> i.args[keep[k]]]]

\* refine_phi on the phis at the head of block b; the first other instruction ends the loop.
RefinePhis(Refine(_), p, b) ==
    FoldLeftDomain(LAMBDA q, k :
        IF k \in LeadingPhis(q.body[b]) /\ Refine(q.body[b][k]) # q.body[b][k]
        THEN replace(q, b, k, Refine(q.body[b][k])) ELSE q,
        p, p.body[b])

eliminate_blocks(p, f) ==
    LET live == reachable(p, f)
        Refine(q, b) == IF b \in live THEN RefinePhis(LAMBDA i : KeepSources(i, live), q, b) ELSE q
        Drop(q, b) == IF b \in live THEN q ELSE removeBlock(q, f, b)
    IN  [p  |-> FoldLeft(Drop, FoldLeft(Refine, p, p.blocks[f]), p.blocks[f]),
         ch |-> Cardinality(live) # Len(p.blocks[f])]

(***************************************************************************)
(* CommonSubexprElimination                                                *)
(***************************************************************************)
\* The tree that DominanceTree builds, over the blocks that can be reached.
ReachAvoiding(p, f, d) ==
    LET Grow[n \in Nat] ==
            IF n = 0 THEN {entrance(p, f)} \ {d}
            ELSE LET S == Grow[n - 1] IN S \cup (UNION {targets(p.exit[b]) : b \in S} \ {d})
    IN  Grow[Len(p.blocks[f])]
strictly_dominated(p, f, d) == (reachable(p, f) \ ReachAvoiding(p, f, d)) \ {d}
dom_children(p, f, d) ==
    {b \in strictly_dominated(p, f, d) :
        \A c \in strictly_dominated(p, f, d) : b \notin strictly_dominated(p, f, c)}

commutative(op) == op \in {"MUL", "ADD", "AND", "OR", "EQ", "NEQ"}

\* Context: value_num, expr_num and num_value; the void constant has number 0.
EmptyContext == [val |-> [o \in {Void} |-> 0], expr |-> <<>>, num |-> [n \in {0} |-> Void]]
insert(ctx, o) ==
    LET n == Cardinality(DOMAIN ctx.val)
    IN  [ctx EXCEPT !.val = Record(@, o, n), !.num = Record(@, n, o)]
lookup(ctx, o) == IF o \in DOMAIN ctx.val THEN ctx ELSE insert(ctx, o)

\* convert: an expression that has a number becomes a move of that number's
\* value; with a commutative operator both orders get the number.
BothOrders(ctx, e) ==
    IF commutative(e[1]) THEN [ctx EXCEPT !.expr = Record(@, <<e[1], e[3], e[2]>>, @[e])] ELSE ctx
NewExpr(ctx, x, e) == [ctx EXCEPT !.expr = Record(@, e, ctx.val[V(x)])]
convert(ctx, i, e) ==
    IF e \in DOMAIN ctx.expr
    THEN [ctx  |-> BothOrders([ctx EXCEPT !.val = Record(@, V(i.res), ctx.expr[e])], e),
          inst |-> Mov(i, ctx.num[ctx.expr[e]])]
    ELSE [ctx  |-> BothOrders(NewExpr(insert(ctx, V(i.res)), i.res, e), e), inst |-> i]
encode(ctx, i) ==
    <<i.op, ctx.val[i.args[1]], IF Len(i.args) = 2 THEN ctx.val[i.args[2]] ELSE 0>>
number_inst(ctx, i) ==
    LET Convert(c) == convert(c, i, encode(c, i))
    IN  Convert(FoldLeft(lookup, ctx, i.args))
\* Mutant: loads are numbered, whatever is stored between them.
Numbered_loads(i) == i.res # NoVar /\ i.op \in (UnaryOps \cup BinaryOps) \ {"MOV", "STORE"}
Numbered(i) == i.res # NoVar /\ i.op \in (UnaryOps \cup BinaryOps) \ {"LOAD", "MOV", "STORE"}

\* The context goes down the dominator tree by value.
RECURSIVE eliminate_exprs(_, _, _, _)
eliminate_exprs(p, f, b, ctx) ==
    LET Take(acc, k, r) == [p |-> replace(acc.p, b, k, r.inst), ctx |-> r.ctx,
                            ch |-> acc.ch \/ r.inst # acc.p.body[b][k]]
        Step(acc, k) == IF Numbered(acc.p.body[b][k])
                        THEN Take(acc, k, number_inst(acc.ctx, acc.p.body[b][k])) ELSE acc
        Children(here) ==
            FoldSet(LAMBDA c, acc : Then(acc, eliminate_exprs(acc.p, f, c, here.ctx)),
                    [p |-> here.p, ch |-> here.ch], dom_children(p, f, b))
    IN  Children(FoldLeftDomain(Step, [p |-> p, ctx |-> ctx, ch |-> FALSE], p.body[b]))
common_subexpr(p, f) == eliminate_exprs(p, f, entrance(p, f), EmptyContext)

(***************************************************************************)
(* ArithmeticStrengthReduction                                             *)
(***************************************************************************)
log2_pow2(o) == {n \in 0 .. WLEN - 2 : IsConst(o) /\ o.t = "int32" /\ o.c = 2^n}
reduce_inst(i) ==
    LET c == IF IsConst(i.args[1]) THEN 1 ELSE 2
        n == log2_pow2(i.args[c])
    IN  IF i.op # "MUL" \/ n = {} THEN i
        ELSE [i EXCEPT !.op = "SHL", !.args = <<i.args[3 - c], Num(CHOOSE m \in n : TRUE)>>]
strength_reduction(p, f) ==
    FoldLeft(LAMBDA acc, b : Then(acc, ForInsts(reduce_inst, acc.p, b)),
             Unchanged(p), p.blocks[f])

(***************************************************************************)
(* SimplifyCFG                                                             *)
(***************************************************************************)
conflicts(p, f, replaced, target) ==
    \E k \in LeadingPhis(p.body[target]) :
        ToSet(p.body[target][k].src) \cap pred(p, f, replaced) # {}
mergable(p, from, to) == p.body[from] = <<>> \/ ~HasPhiFirst(p, to)
merge(p, from, to) ==
    [p EXCEPT !.body = [b \in DOMAIN @ |-> IF b = to THEN @[from] \o (IF from = to THEN <<>> ELSE @[to])
                                           ELSE IF b = from THEN <<>> ELSE @[b]]]

\* refine_phi: the predecessors of the replaced block take its place.
\* Mutant: the source is dropped, and nothing comes in its place.
InsteadOf_dropped(i, replaced, preds) == KeepSources(i, ToSet(i.src) \ {replaced})
InsteadOf(i, replaced, preds) ==
    LET rest == KeepSources(i, ToSet(i.src) \ {replaced})
        at == {k \in DOMAIN i.src : i.src[k] = replaced}
        new == SetToSeq(preds)
    IN  IF at = {} THEN i
        ELSE [rest EXCEPT !.src = @ \o new,
                          !.args = @ \o [k \in DOMAIN new |-> i.args[CHOOSE j \in at : TRUE]]]

\* The first block, in order, that its jump can be merged with.
squash_choice(p, f) ==
    LET Can(b) ==
            LET t == p.exit[b].to[1]
            IN  /\ pred(p, f, b) # {}
                /\ Len(p.exit[b].to) = 1
                /\ t # b
                /\ IF p.body[b] = <<>> THEN ~conflicts(p, f, b, t)
                   ELSE Cardinality(pred(p, f, t)) = 1 /\ mergable(p, b, t)
    IN  SelectSeq(p.blocks[f], Can)
squash(p, f) ==
    LET choice == squash_choice(p, f)
        replaced == choice[1]
        target == p.exit[replaced].to[1]
        preds == pred(p, f, replaced)
        Redirect(q, b) ==
            [RefinePhis(LAMBDA i : InsteadOf(i, replaced, preds), q, b) EXCEPT
                !.exit[b].to = [k \in DOMAIN @ |-> IF @[k] = replaced THEN target ELSE @[k]]]
    IN  IF choice = <<>> THEN Unchanged(p)
        ELSE [p |-> FoldLeft(Redirect, merge(p, replaced, target), p.blocks[f]), ch |-> TRUE]

\* The entrance is merged into its target, which takes the first place; the
\* old entrance goes to the last place and stays until it is found dead.
redirect(p, f) ==
    LET e == entrance(p, f)
        t == p.exit[e].to[1]
        n == Len(p.blocks[f])
        at == CHOOSE k \in 1 .. n : p.blocks[f][k] = t
        Swap(s, i, j) == [s EXCEPT ![i] = s[j], ![j] = s[i]]
    IN  IF \/ Len(p.exit[e].to) # 1
           \/ ~mergable(p, e, t)
           \/ HasPhiFirst(p, t)
           \/ Cardinality(pred(p, f, t)) > 1
        THEN Unchanged(p)
        ELSE [p |-> [merge(p, e, t) EXCEPT !.blocks[f] = Swap(Swap(@, 1, at), at, n)], ch |-> TRUE]

simplify(p, f) ==
    LET ThenRedirect(s) == Then(s, redirect(s.p, f))
    IN  ThenRedirect(squash(p, f))

(***************************************************************************)
(* Inlining                                                                *)
(***************************************************************************)
numInsts(p, f) == FoldLeft(LAMBDA n, b : n + Len(p.body[b]) + 1, 0, p.blocks[f])
Calls(p, b, f) == {k \in DOMAIN p.body[b] : p.body[b][k].op = "CALL" /\ p.body[b][k].fn = f}
inlinable(p, f, threshold) ==
    /\ f # "main"
    /\ numInsts(p, f) <= threshold
    /\ \A b \in Blocks(p, f) : Calls(p, b, f) = {}

\* find_site: the first call in the order of functions, blocks and instructions.
call_sites(p, f) ==
    FlattenSeq([n \in DOMAIN p.funcs |->
        LET g == p.funcs[n] IN
        FlattenSeq([m \in DOMAIN p.blocks[g] |->
            LET b == p.blocks[g][m] IN
            [j \in 1 .. Cardinality(Calls(p, b, f)) |->
                [func |-> g, block |-> b, at |-> SetToSortSeq(Calls(p, b, f), <)[j]]]])])

\* The clone of a callee: fresh blocks, allocations and temporaries of the caller.
CloneVar(p, f, g, copy, x) ==
    CASE x[1] = "temp" -> TempValue(g, p.temps[g] + x[3])
      [] x[1] \in {"named", "ssa"} /\ alloc_of(x) \in ToSet(p.params[f]) \cup p.locals[f] ->
            [x EXCEPT ![4] = Append(@, copy)]
      [] OTHER -> x
CloneArgs(p, f, g, copy, args) ==
    [k \in DOMAIN args |->
        IF IsVar(args[k]) THEN V(CloneVar(p, f, g, copy, args[k].v)) ELSE args[k]]

inline_site(p, site, f) ==
    LET g == site.func
        copy == p.next
        prologue == copy + 1
        epilogue == copy + 2
        remain == copy + 3
        bs == p.blocks[f]
        BlockOf(b) == copy + 3 + CHOOSE k \in DOMAIN bs : bs[k] = b
        Clone(a) == <<a[1], Append(a[2], copy)>>
        call == p.body[site.block][site.at]
        CloneInst(i) == [i EXCEPT !.res = CloneVar(p, f, g, copy, @),
                                  !.args = CloneArgs(p, f, g, copy, @),
                                  !.src = [k \in DOMAIN @ |-> BlockOf(@[k])]]
        CloneExit(b) ==
            LET e == p.exit[b]
            IN  IF e.to = <<>> THEN Jump(epilogue)
                ELSE [to |-> [k \in DOMAIN e.to |-> BlockOf(e.to[k])],
                      arg |-> CloneArgs(p, f, g, copy, e.arg)]
        exits == SelectSeq(bs, LAMBDA b : p.exit[b].to = <<>>)
        p1 == split([p EXCEPT !.next = @ + 4 + Len(bs)], g, site.block, site.at,
                    Jump(prologue), remain)
        p2 == erase(p1, remain, 1)
        p3 == [p2 EXCEPT !.locals[g] = @ \cup {Clone(a) : a \in ToSet(p.params[f]) \cup p.locals[f]},
                         !.temps[g] = @ + p.temps[f],
                         !.refs = @ \cup {Clone(a) : a \in p.locals[f] \cap @},
                         !.comptime = [a \in DOMAIN @ \cup {Clone(c) : c \in p.locals[f] \cap DOMAIN @}
                                          |-> IF a \in DOMAIN @ THEN @[a]
                                              ELSE @[CHOOSE c \in p.locals[f] : Clone(c) = a]]]
        p4 == addBlock(p3, g, prologue,
                [k \in DOMAIN call.args |->
                    Inst("MOV", NamedValue(Clone(p.params[f][k])), <<call.args[k]>>)],
                Jump(BlockOf(bs[1])))
        p5 == FoldLeft(LAMBDA q, b :
                  addBlock(q, g, BlockOf(b), [k \in DOMAIN p.body[b] |-> CloneInst(p.body[b][k])],
                           CloneExit(b)), p4, bs)
    IN  addBlock(p5, g, epilogue,
          <<Phi(call.res, [k \in DOMAIN exits |-> BlockOf(exits[k])],
                [k \in DOMAIN exits |-> CloneArgs(p, f, g, copy, p.exit[exits[k]].arg)[1]])>>,
          Jump(remain))

RECURSIVE inline_all(_, _)
inline_all(p, f) ==
    LET sites == call_sites(p, f)
    IN  IF sites = <<>> THEN p ELSE inline_all(inline_site(p, sites[1], f), f)

inlining(p, threshold) ==
    LET can == SelectSeq(p.funcs, LAMBDA f : inlinable(p, f, threshold))
    IN  IF can = <<>> THEN Unchanged(p)
        ELSE [p |-> removeFunc(inline_all(p, can[1]), can[1]), ch |-> TRUE]
=============================================================================
