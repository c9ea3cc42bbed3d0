------------------------------ MODULE Semantic ------------------------------
(***************************************************************************)
(* ast::SemanticAST (frontend/ast/analysis): names, types and the ways a   *)
(* statement can end.  The analysis returns the tree with what the maps    *)
(* defs, types and stmt_types say of its nodes; a node that violates a     *)
(* rule becomes Rejected, where the code throws SemanticError.  The boxes  *)
(* of the tree (PrimaryExp, LValExp, ExpBox, StmtBox) only forward.        *)
(***************************************************************************)
EXTENDS Integers, Sequences, SequencesExt

(***************************************************************************)
(* ir::type (backend/ir/type.hpp): the types of the language and of the    *)
(* IR, the order <= that assignments, calls and operators are checked      *)
(* with, and constructable, which initialisers are checked with.  Sizes    *)
(* are in scalars, since all scalars of an array have one type.            *)
(***************************************************************************)
Prim(name) == [k |-> name]
Int1    == Prim("int1")
Int32   == Prim("int32")
Float32 == Prim("float32")
Float64 == Prim("float64")
Top     == Prim("top")
Bottom  == Prim("bottom")
Primitives == {Int1, Int32, Float32, Float64}
Array(elem, n)        == [k |-> "array", elem |-> elem, size |-> n]
Slice(elem, ro)       == [k |-> "ref", elem |-> elem, ro |-> ro, slice |-> TRUE]
Pointer(elem, ro)     == [k |-> "ref", elem |-> elem, ro |-> ro, slice |-> FALSE]
ProductType(items)    == [k |-> "product", items |-> items]
SumType(items)        == [k |-> "sum", items |-> items]
FuncType(params, ret) == [k |-> "func", params |-> params, ret |-> ret]
Unit == ProductType(<<>>)

IsArray(t) == t.k = "array"
IsRef(t)   == t.k = "ref"

array_decay(t, ro) == Slice(t.elem, ro)
decay(t, ro) == IF IsArray(t) THEN array_decay(t, ro) ELSE t

RECURSIVE size_of(_)
size_of(t) == IF IsArray(t) THEN t.size * size_of(t.elem) ELSE 1
RECURSIVE array_elem(_)
array_elem(t) == IF IsArray(t) THEN array_elem(t.elem) ELSE t
flatten(t) == IF IsArray(t) THEN Array(array_elem(t), size_of(t)) ELSE t
RECURSIVE dim(_)
dim(t) == IF IsArray(t) THEN 1 + dim(t.elem) ELSE 0

(***************************************************************************)
(* from <= to                                                              *)
(***************************************************************************)
RECURSIVE leq(_, _)
leq_product(from, to) ==
    /\ Len(from.items) = Len(to.items)
    /\ \A k \in DOMAIN from.items : leq(from.items[k], to.items[k])
leq_func(from, to) == leq(to.params, from.params) /\ leq(from.ret, to.ret)
leq_array(from, to) ==
    leq(from.elem, to.elem) /\ leq(to.elem, from.elem) /\ from.size = to.size
\* Mutant: a constant array passes for one that may be written.
leq_reference_writable(from, to) ==
    leq(from.elem, to.elem) /\ (~to.ro => leq(to.elem, from.elem))
leq_reference(from, to) ==
    /\ leq(from.elem, to.elem)
    /\ from.ro => to.ro
    /\ ~to.ro => leq(to.elem, from.elem)
leq(from, to) ==
    CASE from = Bottom \/ to = Top -> TRUE
      [] from.k = "sum" -> \A k \in DOMAIN from.items : leq(from.items[k], to)
      [] to.k = "sum"   -> \E k \in DOMAIN to.items : leq(from, to.items[k])
      [] from.k = "product" /\ to.k = "product" -> leq_product(from, to)
      [] from.k = "func" /\ to.k = "func" -> leq_func(from, to)
      [] IsArray(from) /\ IsArray(to) -> leq_array(from, to)
      [] IsRef(from) /\ IsRef(to) -> leq_reference(from, to)
      [] IsArray(from) /\ IsRef(to) -> leq_reference(array_decay(from, FALSE), to)
      [] IsRef(from) /\ IsArray(to) -> leq_reference(from, array_decay(to, FALSE))
      [] OTHER -> from \in Primitives /\ from = to
type_eq(s, t) == leq(s, t) /\ leq(t, s)

\* lhs | rhs
Distinct(items) ==
    FoldLeft(LAMBDA acc, t : IF \E k \in DOMAIN acc : type_eq(acc[k], t) THEN acc ELSE Append(acc, t),
             <<>>, items)
union(lhs, rhs) ==
    LET Items(t) == IF t.k = "sum" THEN t.items ELSE <<t>>
        all == Distinct(Items(lhs) \o Items(rhs))
    IN  CASE lhs = Bottom -> rhs
          [] rhs = Bottom -> lhs
          [] type_eq(lhs, rhs) -> lhs
          [] OTHER -> IF Len(all) = 1 THEN all[1] ELSE SumType(all)

\* A list in one dimension may construct an array of several.
RECURSIVE constructable(_, _)
constructable(from, to) ==
    CASE IsArray(from) /\ IsArray(to) ->
            IF dim(from) > 1 /\ dim(to) # dim(from) THEN FALSE
            ELSE IF dim(from) = 1 /\ dim(to) > 1
            THEN constructable(from.elem, flatten(to).elem) /\ flatten(to).size >= from.size
            ELSE constructable(from.elem, to.elem) /\ from.size <= to.size
      [] IsRef(from) /\ IsRef(to) -> constructable(from.elem, to.elem)
      [] {from.k, to.k} = {"array", "ref"} -> FALSE
      [] OTHER -> leq(from, to)

(***************************************************************************)
(* The tree that ASTVisitor builds.                                        *)
(***************************************************************************)
ConstExp(o)         == [k |-> "const", o |-> o]
LVal(name)          == [k |-> "lval", name |-> name]
UnaryExp(op, e)     == [k |-> "unary", op |-> op, e |-> e]
BinaryExp(op, l, r) == [k |-> "binary", op |-> op, l |-> l, r |-> r]
CallExp(fn, args)   == [k |-> "call", fn |-> fn, args |-> args]

IfStmt(c, t, e)     == [k |-> "if", c |-> c, t |-> t, els |-> e]    \* e is empty or the else
WhileStmt(c, t)     == [k |-> "while", c |-> c, t |-> t]
BlockStmt(items)    == [k |-> "block", items |-> items]
AssignStmt(l, e)    == [k |-> "assign", l |-> l, e |-> e]
ExpStmt(e)          == [k |-> "exp", e |-> e]
ReturnStmt(e)       == [k |-> "return", vals |-> e]                 \* empty or the value
BreakStmt           == [k |-> "break"]
ContinueStmt        == [k |-> "continue"]

\* A definition: id tells it from the others, as its address does in the code.
Def(name, id, dims, init) == [name |-> name, id |-> id, dims |-> dims, init |-> init]
Decl(const, type, defs)   == [k |-> "decl", const |-> const, type |-> type, defs |-> defs]
ListInit(vals)            == [k |-> "list", vals |-> vals]
FuncParam(name, id, type, dims) == [name |-> name, id |-> id, type |-> type, dims |-> dims]
FuncDef(type, name, params, items) ==
    [k |-> "func", type |-> type, name |-> name, params |-> params, items |-> items]

(***************************************************************************)
(* Scopes: vars, innermost last; funcs are in a table of their own.        *)
(***************************************************************************)
pushScope(s) == [s EXCEPT !.vars = Append(@, <<>>)]
declared(s, name) == name \in DOMAIN s.vars[Len(s.vars)]
registerVariable(s, name, def) ==
    [s EXCEPT !.vars[Len(s.vars)] =
        [n \in DOMAIN @ \cup {name} |-> IF n = name THEN def ELSE @[n]]]
scopes_of(s, name) == {d \in DOMAIN s.vars : name \in DOMAIN s.vars[d]}
lookup_var(s, name) == s.vars[CHOOSE d \in scopes_of(s, name) :
                                \A e \in scopes_of(s, name) : e <= d][name]

BUILTIN_FUNCS ==
    [get_int   |-> [params |-> <<>>, ret |-> Int32],
     print_int |-> [params |-> <<Int32>>, ret |-> Unit]]

(***************************************************************************)
(* Expressions: upperbound is what the context admits, readonly that it    *)
(* does not write.                                                         *)
(***************************************************************************)
NUM == SumType(<<Int32, Float32, Float64>>)
Rejected == [k |-> "rejected", t |-> Top]
checkType(x, upperbound) == IF x # Rejected /\ leq(x.t, upperbound) THEN x ELSE Rejected
Comparing == {"EQ", "NEQ", "LT", "GT", "LEQ", "GEQ"}

analysis_lval(s, e, readonly) ==
    LET def == lookup_var(s, e.name)
    IN  IF scopes_of(s, e.name) = {} THEN Rejected
        ELSE IF def.ro /\ ~readonly THEN Rejected
        ELSE [k |-> "lval", def |-> def.id, t |-> decay(def.t, def.ro)]

RhsBound(op) ==
    CASE op \in {"AND", "OR"} -> Int1 [] op = "INDEX" -> Int32 [] OTHER -> NUM
LhsBound(op, upperbound, readonly) ==
    IF op = "INDEX" THEN Slice(upperbound, readonly) ELSE RhsBound(op)
BinaryType(op, lt, rt) ==
    CASE op \in Comparing -> Int1
      [] op = "INDEX" -> decay(lt.elem, lt.ro)
      [] OTHER -> IF leq(lt, rt) THEN rt ELSE lt
analysis_binary(op, l, r) ==
    IF Rejected \in {l, r} THEN Rejected
    ELSE IF op # "INDEX" /\ ~leq(l.t, r.t) /\ ~leq(r.t, l.t) THEN Rejected
    ELSE [k |-> "binary", op |-> op, l |-> l, r |-> r, t |-> BinaryType(op, l.t, r.t)]

analysis_call(s, e, args) ==
    IF Rejected \in ToSet(args) THEN Rejected
    ELSE [k |-> "call", fn |-> e.fn, args |-> args, t |-> s.funcs[e.fn].ret]

RECURSIVE analysis(_, _, _, _)
analysis(s, e, upperbound, readonly) ==
    checkType(
      CASE e.k = "const" -> [k |-> "const", o |-> e.o, t |-> Prim(e.o.t)]
        [] e.k = "lval" -> analysis_lval(s, e, readonly)
        [] e.k = "unary" ->
              LET x == analysis(s, e.e, IF e.op = "NOT" THEN Int1 ELSE NUM, TRUE)
              IN  IF x = Rejected THEN x ELSE [k |-> "unary", op |-> e.op, e |-> x, t |-> x.t]
        [] e.k = "binary" ->
              analysis_binary(e.op,
                  analysis(s, e.l, LhsBound(e.op, upperbound, readonly),
                           readonly \/ e.op # "INDEX"),
                  analysis(s, e.r, RhsBound(e.op), TRUE))
        [] e.k = "call" ->
              IF e.fn \notin DOMAIN s.funcs THEN Rejected
              ELSE IF Len(e.args) # Len(s.funcs[e.fn].params) THEN Rejected
              ELSE analysis_call(s, e, [k \in DOMAIN e.args |->
                       analysis(s, e.args[k], s.funcs[e.fn].params[k], TRUE)]),
      upperbound)

(***************************************************************************)
(* Declarations                                                            *)
(***************************************************************************)
ArrayOf(type, dims) == FoldRight(LAMBDA n, t : Array(t, n), dims, type)
\* A parameter with dimensions is a slice; its first dimension is not kept.
calcType(type, dims) ==
    IF dims = <<>> THEN type ELSE Slice(ArrayOf(type, Tail(dims)), FALSE)

\* The type of an initialiser; Top when its elements do not agree.
ElemType(t, x) ==
    IF Top \in {t, x} THEN Top
    ELSE IF constructable(t, x) THEN x ELSE IF constructable(x, t) THEN t ELSE Top
RECURSIVE analysis_init(_)
analysis_init(v) ==
    IF v.k = "const" THEN Prim(v.o.t)
    ELSE LET e == FoldLeft(LAMBDA t, x : ElemType(t, analysis_init(x)), Bottom, v.vals)
         IN  IF e = Top THEN Top ELSE Array(e, Len(v.vals))

\* The definitions of a declaration are registered first, then their values checked.
analysis_decl(s, d) ==
    LET Enter(acc, def) ==
            [ok |-> acc.ok /\ ~declared(acc.s, def.name),
             s |-> registerVariable(acc.s, def.name,
                       [id |-> def.id, t |-> ArrayOf(d.type, def.dims), ro |-> d.const])]
        entered == FoldLeft(Enter, [ok |-> TRUE, s |-> s], d.defs)
        ValueOk(def) ==
            constructable(IF def.init = <<>> THEN Bottom ELSE analysis_init(def.init[1]),
                          ArrayOf(d.type, def.dims))
        Typed(def) == [id |-> def.id, t |-> ArrayOf(d.type, def.dims), init |-> def.init]
    IN  [s |-> entered.s, ok |-> entered.ok /\ \A k \in DOMAIN d.defs : ValueOk(d.defs[k]),
         x |-> [k |-> "decl", const |-> d.const, defs |-> [k \in DOMAIN d.defs |-> Typed(d.defs[k])]]]

(***************************************************************************)
(* Statements: ret_type and always_return of StmtType                      *)
(***************************************************************************)
StmtType(ret, always) == [ret |-> ret, always |-> always]
Falls == StmtType(Bottom, FALSE)
append_type(a, b) == IF a.always THEN a ELSE StmtType(union(a.ret, b.ret), b.always)
\* Mutant: one arm that returns is enough.
merge_type_any(a, b) == StmtType(union(a.ret, b.ret), a.always \/ b.always)
merge_type(a, b) == StmtType(union(a.ret, b.ret), a.always /\ b.always)

\* A statement that was analysed: the tree, its type, whether it was accepted.
Checked(x, ty, ok) == [x |-> x, ty |-> ty, ok |-> ok]
Accepted(x) == x # Rejected

RECURSIVE analysis_stmt(_, _)
analysis_items(s, items) ==
    LET Step(acc, i) ==
            IF i.k = "decl"
            THEN LET d == analysis_decl(acc.s, i)
                 IN  [acc EXCEPT !.s = d.s, !.ok = @ /\ d.ok, !.xs = Append(@, d.x)]
            ELSE LET r == analysis_stmt(acc.s, i)
                 IN  [acc EXCEPT !.ok = @ /\ r.ok, !.xs = Append(@, r.x),
                                 !.ty = append_type(@, r.ty)]
    IN  FoldLeft(Step, [s |-> s, ok |-> TRUE, xs |-> <<>>, ty |-> Falls], items)
analysis_block(r) == Checked([k |-> "block", items |-> r.xs], r.ty, r.ok)
analysis_if(c, t, e) ==
    LET ty == merge_type(IF e = <<>> THEN Falls ELSE e[1].ty, t.ty)
    IN  Checked([k |-> "if", c |-> c, t |-> t.x, els |-> [k \in DOMAIN e |-> e[k].x],
                 always |-> ty.always],
                ty, Accepted(c) /\ t.ok /\ \A k \in DOMAIN e : e[k].ok)
analysis_while(c, t) ==
    Checked([k |-> "while", c |-> c, t |-> t.x], merge_type(Falls, t.ty), Accepted(c) /\ t.ok)
analysis_return(e) ==
    Checked([k |-> "return", vals |-> e], StmtType(IF e = <<>> THEN Unit ELSE e[1].t, TRUE),
            \A k \in DOMAIN e : Accepted(e[k]))
analysis_assign(s, l, e) ==
    LET var == analysis(s, l, e.t, FALSE)
    IN  Checked([k |-> "assign", l |-> var, e |-> e], Falls, Accepted(e) /\ Accepted(var))
analysis_exp(e) == Checked([k |-> "exp", e |-> e], Falls, Accepted(e))
analysis_stmt(s, st) ==
    CASE st.k = "block" -> analysis_block(analysis_items(pushScope(s), st.items))
      [] st.k = "if" ->
            analysis_if(analysis(s, st.c, Int1, TRUE), analysis_stmt(s, st.t),
                        [k \in DOMAIN st.els |-> analysis_stmt(s, st.els[k])])
      [] st.k = "while" -> analysis_while(analysis(s, st.c, Int1, TRUE), analysis_stmt(s, st.t))
      [] st.k = "return" ->
            analysis_return([k \in DOMAIN st.vals |-> analysis(s, st.vals[k], Top, TRUE)])
      [] st.k = "assign" -> analysis_assign(s, st.l, analysis(s, st.e, Top, TRUE))
      [] st.k = "exp" -> analysis_exp(analysis(s, st.e, Top, TRUE))
      [] OTHER -> Checked(st, Falls, TRUE)

(***************************************************************************)
(* Functions: parameters and body share one scope.                         *)
(***************************************************************************)
Signature(f) ==
    [params |-> [k \in DOMAIN f.params |-> calcType(f.params[k].type, f.params[k].dims)],
     ret |-> f.type]
registerFunction(s, f) ==
    [s EXCEPT !.funcs = [n \in DOMAIN @ \cup {f.name} |-> IF n = f.name THEN Signature(f) ELSE @[n]]]
analysis_params(s, f) ==
    FoldLeftDomain(LAMBDA acc, k :
        [ok |-> acc.ok /\ ~declared(acc.s, f.params[k].name),
         s |-> registerVariable(acc.s, f.params[k].name,
                 [id |-> f.params[k].id, t |-> Signature(f).params[k], ro |-> FALSE])],
        [ok |-> TRUE, s |-> pushScope(s)], f.params)
analysis_body(s, f, in, body) ==
    [s  |-> s,
     ok |-> /\ in.ok
            /\ body.ok
            /\ body.ty.always \/ leq(f.type, Unit)
            /\ leq(body.ty.ret, f.type),
     x  |-> [k |-> "func", name |-> f.name, ret |-> f.type,
             params |-> [k \in DOMAIN f.params |-> f.params[k].id], items |-> body.xs]]
analysis_func(s, f) ==
    LET here == registerFunction(s, f)
        in == analysis_params(here, f)
    IN  IF f.name \in DOMAIN s.funcs THEN [s |-> s, ok |-> FALSE, x |-> Rejected]
        ELSE analysis_body(here, f, in, analysis_items(in.s, f.items))

\* The scopes of the builtin functions and of the globals.
Start == [vars |-> <<<<>>, <<>>>>, funcs |-> BUILTIN_FUNCS]
main_ok(s) ==
    /\ "main" \in DOMAIN s.funcs
    /\ s.funcs["main"].params = <<>> /\ type_eq(s.funcs["main"].ret, Int32)
=============================================================================
