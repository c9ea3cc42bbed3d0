-------------------------------- MODULE IrGen --------------------------------
(***************************************************************************)
(* ir::gen::Generator (backend/ir/gen): from the analysed tree to blocks.  *)
(* A statement is generated into a block, scope, and returns the block in  *)
(* which the next statement goes on, 0 (nullptr) when there is none.       *)
(* g = [p, loops, err]: the program so far, Func::loops, and what went     *)
(* wrong: the use of a null block, or an exception of the generator.       *)
(***************************************************************************)
EXTENDS Semantic, UseDef

Fail(g, why) == IF g.err = "" THEN [g EXCEPT !.err = why] ELSE g

\* An allocation of a definition has no clones yet.
AllocOf(id) == <<id, <<>>>>
Named(id) == V(NamedValue(AllocOf(id)))

\* Func::newTemp and newBlock, Block::append and setExit before the function
\* belongs to a program.  Results are pairs of g and what was made.
newTemp(g, f) == [g |-> [g EXCEPT !.p.temps[f] = @ + 1], x |-> TempValue(f, g.p.temps[f])]
NoExit == Jump(0)
newBlock(g, f) ==
    LET b == g.p.next
    IN  [g |-> [g EXCEPT !.p.next = @ + 1, !.p.blocks[f] = Append(@, b),
                         !.p.body = Record(@, b, <<>>), !.p.exit = Record(@, b, NoExit)],
         b |-> b]
append(g, b, i) == [g EXCEPT !.p.body[b] = Append(@, i)]
set_exit(g, b, e) == IF b = 0 THEN Fail(g, "null block") ELSE [g EXCEPT !.p.exit[b] = e]

\* An instruction with a fresh temporary for its result, which is the value.
Emit(r, b, op, args) ==
    [g |-> append(r.g, b, Inst(op, r.x, args)), o |-> V(r.x)]

(***************************************************************************)
(* Expressions                                                             *)
(***************************************************************************)
convert_unary(op) == [PLUS |-> "MOV", MINUS |-> "NEG", NOT |-> "NOT"][op]

\* gen(LVal): an allocation reached by reference is its address.
gen_lval(g, f, b, e) ==
    IF AllocOf(e.def) \in g.p.refs /\ ~IsRef(e.t)
    THEN Emit(newTemp(g, f), b, "LOAD", <<Named(e.def)>>)
    ELSE [g |-> g, o |-> Named(e.def)]

\* The element of a row is an address again, that of a scalar is read.
\* Mutant: every element counts as one scalar.
ElemSize_scalar(l) == Num(1)
ElemSize(l) == Num(size_of(l.t.elem))
LoadFrom(f, b, r) == Emit(newTemp(r.g, f), b, "LOAD", <<r.o>>)
gen_index(g, f, b, e, l, r) ==
    IF IsRef(e.t)
    THEN Emit(newTemp(g, f), b, IF e.t.ro THEN "BORROW_ELEM" ELSE "BORROW_ELEM_MUT",
              <<l, r, ElemSize(e.l)>>)
    ELSE LoadFrom(f, b, Emit(newTemp(g, f), b, "BORROW_ELEM", <<l, r, ElemSize(e.l)>>))

\* The builtin functions read and write; a call without a result has none.
gen_call(g, f, b, e, args) ==
    LET op == CASE e.fn = "get_int" -> "GETINT" [] e.fn = "print_int" -> "PRINTINT" [] OTHER -> "CALL"
        Inst2(x) == [Inst(op, x, args) EXCEPT !.fn = e.fn]
        r == newTemp(g, f)
    IN  IF type_eq(e.t, Unit) THEN [g |-> append(g, b, Inst2(NoVar)), o |-> Void]
        ELSE [g |-> append(r.g, b, Inst2(r.x)), o |-> V(r.x)]

RECURSIVE gen_exp(_, _, _, _)
\* The operands in order: the instructions of each, and the values.
gen_exps(g, f, b, es) ==
    FoldLeft(LAMBDA acc, e :
        LET r == gen_exp(acc.g, f, b, e) IN [g |-> r.g, os |-> Append(acc.os, r.o)],
        [g |-> g, os |-> <<>>], es)
gen_binary(f, b, e, r) ==
    IF e.op = "INDEX" THEN gen_index(r.g, f, b, e, r.os[1], r.os[2])
    ELSE Emit(newTemp(r.g, f), b, e.op, r.os)
gen_unary(f, b, e, r) == Emit(newTemp(r.g, f), b, convert_unary(e.op), <<r.o>>)
CallWith(f, b, e, r) == gen_call(r.g, f, b, e, r.os)
gen_exp(g, f, b, e) ==
    CASE e.k = "const"  -> [g |-> g, o |-> e.o]
      [] e.k = "lval"   -> gen_lval(g, f, b, e)
      [] e.k = "unary"  -> gen_unary(f, b, e, gen_exp(g, f, b, e.e))
      [] e.k = "binary" -> gen_binary(f, b, e, gen_exps(g, f, b, <<e.l, e.r>>))
      [] e.k = "call"   -> CallWith(f, b, e, gen_exps(g, f, b, e.args))

\* branch: && and || choose the block in which the right side is computed.
RECURSIVE branch(_, _, _, _, _, _)
SetRight(f, left, right, r) == [g |-> set_exit(r.g, right, r.e), e |-> left.e]
BranchRight(f, e, left, right, t, n) ==
    SetRight(f, left, right, branch(left.g, f, right, e.r, t, n))
BranchLeft(f, b, e, new, t, n) ==
    BranchRight(f, e, IF e.op = "AND" THEN branch(new.g, f, b, e.l, new.b, n)
                      ELSE branch(new.g, f, b, e.l, t, new.b), new.b, t, n)
BranchOn(r, t, n) == [g |-> r.g, e |-> Branch(r.o, t, n)]
branch(g, f, b, e, t, n) ==
    IF e.k = "binary" /\ e.op \in {"AND", "OR"}
    THEN BranchLeft(f, b, e, newBlock(g, f), t, n)
    ELSE BranchOn(gen_exp(g, f, b, e), t, n)

(***************************************************************************)
(* Declarations                                                            *)
(***************************************************************************)
\* construct: elements go one after another, each list to its element.
RECURSIVE construct(_, _, _, _)
construct(target, elems, at, buf) ==
    FoldLeftDomain(LAMBDA acc, k :
        LET here == at + (k - 1) * size_of(target.elem)
        IN  IF elems[k].k = "const" THEN Record(acc, here, elems[k].o.c)
            ELSE construct(target.elem, elems[k].vals, here, acc),
        buf, elems)
Zeros(t) == [k \in 1 .. size_of(t) |-> 0]
\* A list without lists for an array of arrays fills it in order.
gen_init(v, t) ==
    LET flat == ~IsArray(analysis_init(v).elem) /\ IsArray(t.elem)
    IN  IF v.k = "const" THEN v.o
        ELSE [c |-> construct(IF flat THEN flatten(t) ELSE t, v.vals, 1, Zeros(t)), t |-> "array"]
zeros_like(t) == IF IsArray(t) THEN [c |-> Zeros(t), t |-> "array"] ELSE [c |-> 0, t |-> t.k]
InitOf(def) == IF def.init = <<>> THEN zeros_like(def.t) ELSE gen_init(def.init[1], def.t)

Cells(o) == IF o.t = "array" THEN o.c ELSE <<o.c>>
\* gen(Decl): a constant is known at compile time, an array is reached by reference.
AddAlloc(g, d, def) ==
    LET a == AllocOf(def.id)
    IN  [g EXCEPT !.p.refs = IF IsArray(def.t) THEN @ \cup {a} ELSE @,
                  !.p.comptime = IF d.const THEN Record(@, a, InitOf(def)) ELSE @,
                  !.p.init = IF d.const /\ IsArray(def.t) THEN Record(@, a, Cells(InitOf(def))) ELSE @]
\* The initialiser of a local variable runs where the declaration stands.
gen_local(g, f, b, d, def) ==
    LET here == [AddAlloc(g, d, def) EXCEPT !.p.locals[f] = @ \cup {AllocOf(def.id)}]
    IN  IF d.const THEN here
        ELSE IF IsArray(def.t)
        THEN append(here, b, Inst("STORE", NoVar, <<Named(def.id), InitOf(def)>>))
        ELSE append(here, b, Inst("MOV", NamedValue(AllocOf(def.id)), <<InitOf(def)>>))
gen_decl(g, f, b, d) == FoldLeft(LAMBDA acc, def : gen_local(acc, f, b, d, def), g, d.defs)
\* A global variable is reached by reference.
gen_global(g, d, def) ==
    LET a == AllocOf(def.id)
        here == [AddAlloc(g, d, def) EXCEPT !.p.globals = @ \cup {a}]
    IN  IF d.const THEN here
        ELSE [here EXCEPT !.p.refs = @ \cup {a}, !.p.init = Record(@, a, Cells(InitOf(def)))]

(***************************************************************************)
(* Statements                                                              *)
(***************************************************************************)
Go(g, b) == [g |-> g, b |-> b]
SetBranch(r, b) == set_exit(r.g, b, r.e)
\* The end of an arm goes on at exit, unless there is none.
JoinAt(r, exit) == IF r.b = 0 THEN r.g ELSE set_exit(r.g, r.b, Jump(exit))

RECURSIVE gen_stmt(_, _, _, _)
gen_items(g, f, b, items) ==
    FoldLeft(LAMBDA acc, i :
        IF acc.b = 0 THEN acc
        ELSE IF i.k = "decl" THEN Go(gen_decl(acc.g, f, acc.b, i), acc.b)
        ELSE gen_stmt(acc.g, f, acc.b, i),
        Go(g, b), items)

\* The if_true and if_exit blocks, then if_false when there is an else.
ElseArm(f, st, g, exit, no) ==
    Go(IF st.els = <<>> THEN g ELSE JoinAt(gen_stmt(g, f, no, st.els[1]), exit), exit)
IfArms(f, b, st, g, yes, exit, no) ==
    ElseArm(f, st, JoinAt(gen_stmt(SetBranch(branch(g, f, b, st.c, yes, no), b), f, yes, st.t), exit),
            exit, no)
IfFalse(f, b, st, yes, exit) ==
    IF st.els = <<>> THEN IfArms(f, b, st, exit.g, yes, exit.b, exit.b)
    ELSE LET no == newBlock(exit.g, f) IN IfArms(f, b, st, no.g, yes, exit.b, no.b)
IfExit(f, b, st, yes) ==
    IfFalse(f, b, st, yes.b, IF st.always THEN Go(yes.g, 0) ELSE newBlock(yes.g, f))
gen_if(g, f, b, st) == IfExit(f, b, st, newBlock(g, f))

PopLoop(g) == [g EXCEPT !.loops = Front(@)]
WhileBody(f, st, g, cond, body, exit) ==
    LET inside == SetBranch(branch(g, f, cond, st.c, body, exit), cond)
        end == gen_stmt(inside, f, body, st.t)
    IN  Go(PopLoop(set_exit(end.g, end.b, Jump(cond))), exit)
gen_while(g, f, b, st) ==
    LET cond == newBlock(g, f)
        body == newBlock(cond.g, f)
        exit == newBlock(body.g, f)
        entered == [exit.g EXCEPT !.loops = Append(@, [continue |-> cond.b, break |-> exit.b])]
    IN  WhileBody(f, st, set_exit(entered, b, Jump(cond.b)), cond.b, body.b, exit.b)

\* To a variable by name, or by reference; to an element by its address.
AssignElem(f, b, st, r) ==
    LET addr == newTemp(r.g, f)
    IN  Go(append(append(addr.g, b, Inst("BORROW_ELEM_MUT", addr.x,
                                         <<r.os[1], r.os[2], ElemSize(st.l.l)>>)),
                  b, Inst("STORE", NoVar, <<V(addr.x), r.os[3]>>)), b)
AssignNamed(b, st, r) ==
    Go(append(r.g, b,
         IF AllocOf(st.l.def) \in r.g.p.refs /\ ~IsRef(st.l.t)
         THEN Inst("STORE", NoVar, <<Named(st.l.def), r.o>>)
         ELSE Inst("MOV", NamedValue(AllocOf(st.l.def)), <<r.o>>)), b)
gen_assign(g, f, b, st) ==
    IF st.l.k = "lval" THEN AssignNamed(b, st, gen_exp(g, f, b, st.e))
    ELSE AssignElem(f, b, st, gen_exps(g, f, b, <<st.l.l, st.l.r, st.e>>))

gen_return(g, f, b, st) ==
    LET r == gen_exps(g, f, b, st.vals)
    IN  Go(set_exit(r.g, b, Return(IF r.os = <<>> THEN Void ELSE r.os[1])), 0)
\* break and continue; currentLoop throws outside of a loop.
gen_leave(g, b, st) ==
    IF g.loops = <<>> THEN Go(Fail(g, "no loop"), 0)
    ELSE Go(set_exit(g, b, Jump(IF st.k = "break" THEN Last(g.loops).break
                                ELSE Last(g.loops).continue)), 0)

gen_stmt(g, f, b, st) ==
    CASE st.k = "if"     -> gen_if(g, f, b, st)
      [] st.k = "while"  -> gen_while(g, f, b, st)
      [] st.k = "block"  -> gen_items(g, f, b, st.items)
      [] st.k = "assign" -> gen_assign(g, f, b, st)
      [] st.k = "exp"    -> Go(gen_exp(g, f, b, st.e).g, b)
      [] st.k = "return" -> gen_return(g, f, b, st)
      [] st.k \in {"break", "continue"} -> gen_leave(g, b, st)

(***************************************************************************)
(* Functions                                                               *)
(***************************************************************************)
EndFunc(x, r) ==
    IF r.b = 0 THEN r.g
    ELSE IF ~leq(x.ret, Unit) THEN Fail(r.g, "control may reach end of function")
    ELSE set_exit(r.g, r.b, Return(Void))
AddFunc(g, x) ==
    [g EXCEPT !.p.funcs = Append(@, x.name), !.p.blocks = Record(@, x.name, <<>>),
              !.p.params = Record(@, x.name, [k \in DOMAIN x.params |-> AllocOf(x.params[k])]),
              !.p.locals = Record(@, x.name, {}), !.p.temps = Record(@, x.name, 0)]
FillFunc(x, entry) == EndFunc(x, gen_items(entry.g, x.name, entry.b, x.items))
gen_func(g, x) == FillFunc(x, newBlock(AddFunc(g, x), x.name))

gen_item(g, x) ==
    IF x.k = "func" THEN gen_func(g, x)
    ELSE FoldLeft(LAMBDA acc, def : gen_global(acc, x, def), g, x.defs)

EmptyProgram ==
    [funcs |-> <<>>, blocks |-> <<>>, body |-> <<>>, exit |-> <<>>, params |-> <<>>,
     locals |-> <<>>, globals |-> {}, comptime |-> <<>>, refs |-> {}, init |-> <<>>,
     temps |-> <<>>, uses |-> {}, defs |-> {}, multi |-> FALSE, next |-> 1]
=============================================================================
