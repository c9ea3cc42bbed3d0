----------------------------- MODULE CactMeaning -----------------------------
(***************************************************************************)
(* What a program of the source language means, straight from its tree:    *)
(* the reference for the analysis and the generator, and for nothing else. *)
(* Names are looked up in the scopes that are open when the code runs, a   *)
(* statement ends with a signal, and every rule that the analysis ought to *)
(* enforce is tested where it would be broken: the signal is "wrong" then. *)
(*   s = [env, heap, n, in, out, sig, ret, fuel]                           *)
(* A value is [c, t], or [at, t, ro] for an array; the heap maps pairs of  *)
(* an object and an index to scalars.                                      *)
(***************************************************************************)
EXTENDS Semantic, IRMachine

Wrong(s) == [s EXCEPT !.sig = "wrong"]
Runs(s) == s.sig = "next"
With(s, v) == [s |-> s, v |-> v]
NoValue == [c |-> 0, t |-> "void"]
WrongValue(s) == With(Wrong(s), NoValue)

IsScalar(v) == "c" \in DOMAIN v
IsInt(v) == IsScalar(v) /\ v.t = "int32"
IsTruth(v) == IsScalar(v) /\ v.t = "int1"
IsNumber(v) == IsScalar(v) /\ v.t \in {"int32", "float32", "float64"}

\* The innermost open scope that has the name.
Bound(s, name) == {d \in DOMAIN s.env : name \in DOMAIN s.env[d]}
Find(s, name) == s.env[CHOOSE d \in Bound(s, name) : \A e \in Bound(s, name) : e <= d][name]
Bind(s, name, b) ==
    [s EXCEPT !.env[Len(s.env)] = [n \in DOMAIN @ \cup {name} |-> IF n = name THEN b ELSE @[n]]]

\* The scalars of an initialiser: a row for each list, in order without lists.
RECURSIVE Layout(_, _)
Layout(t, v) ==
    LET flat == \A k \in DOMAIN v.vals : v.vals[k].k = "const"
        Row(k) == IF k <= Len(v.vals) THEN Layout(t.elem, v.vals[k])
                  ELSE [j \in 1 .. size_of(t.elem) |-> 0]
    IN  IF v.k = "const" THEN <<v.o.c>>
        ELSE IF flat
        THEN [j \in 1 .. size_of(t) |-> IF j <= Len(v.vals) THEN v.vals[j].o.c ELSE 0]
        ELSE FlattenSeq([k \in 1 .. t.size |-> Row(k)])

\* A new object for a definition.
NewObject(s, name, t, ro, cells) ==
    Bind([s EXCEPT !.n = @ + 1,
                   !.heap = [x \in DOMAIN @ \cup {<<s.n, k>> : k \in DOMAIN cells} |->
                                IF x[1] = s.n THEN cells[x[2]] ELSE @[x]]],
         name, [at |-> <<s.n, 1>>, t |-> t, ro |-> ro])
Declare(s, d) ==
    FoldLeft(LAMBDA acc, def :
        LET t == ArrayOf(d.type, def.dims)
        IN  IF def.name \in DOMAIN acc.env[Len(acc.env)] THEN Wrong(acc)
            ELSE NewObject(acc, def.name, t, d.const,
                           IF def.init = <<>> THEN [j \in 1 .. size_of(t) |-> 0]
                           ELSE Layout(t, def.init[1])),
        s, d.defs)

\* A place as a value: a scalar is read, an array is its address.
ReadPlace(s, b) ==
    IF b.t.k \in {"array", "ref"} THEN With(s, b)
    ELSE IF b.at \notin DOMAIN s.heap THEN WrongValue(s)
    ELSE With(s, [c |-> s.heap[b.at], t |-> b.t.k])
ElementOf(b, i) ==
    [b EXCEPT !.at[2] = @ + i * size_of(b.t.elem), !.t = b.t.elem]

Arith(op, l, r) == [c |-> eval_binary(op, "int32", l.c, r.c), t |-> l.t]
Compare(op, l, r) == [c |-> eval_comparison(op, "int32", "int32", l.c, r.c), t |-> "int1"]

RECURSIVE Eval(_, _, _)
RECURSIVE Exec(_, _, _)
RECURSIVE Place(_, _, _)

\* The place that an expression on the left of = or under [] names.
IndexPlace(l, i) ==
    IF ~Runs(i.s) THEN i
    ELSE IF "at" \notin DOMAIN l \/ ~IsInt(i.v) THEN WrongValue(i.s)
    ELSE IF l.t.k \notin {"array", "ref"} THEN WrongValue(i.s)
    ELSE With(i.s, ElementOf(l, i.v.c))
Place(fs, s, e) ==
    CASE e.k = "lval" -> IF Bound(s, e.name) = {} THEN WrongValue(s) ELSE With(s, Find(s, e.name))
      [] e.k = "binary" ->
            LET l == Place(fs, s, e.l)
            IN  IF Runs(l.s) THEN IndexPlace(l.v, Eval(fs, l.s, e.r)) ELSE l

\* An argument for a parameter of type t: by value, or the address of rows of
\* the same shape, which the callee may write.
Passes(v, t) ==
    IF t.k = "ref" THEN "at" \in DOMAIN v /\ v.t.k \in {"array", "ref"} /\ v.t.elem = t.elem /\ ~v.ro
    ELSE IsScalar(v) /\ v.t = t.k

\* The callee sees the globals and its parameters.
BindArgs(s, f, vs) ==
    FoldLeftDomain(LAMBDA acc, k :
        IF IsScalar(vs[k])
        THEN NewObject(acc, f.params[k].name, Signature(f).params[k], FALSE, <<vs[k].c>>)
        ELSE Bind(acc, f.params[k].name, vs[k]),
        [s EXCEPT !.env = <<s.env[1], <<>>>>, !.fuel = @ - 1], f.params)
\* Without a value a function may end anywhere, with one only in a return.
Returned(s, f, r) ==
    IF r.sig \in {"wrong", "stuck"} THEN With([r EXCEPT !.env = s.env], NoValue)
    ELSE IF \/ r.sig = "return" /\ IsScalar(r.ret) /\ r.ret.t = (IF f.type = Unit THEN "void" ELSE f.type.k)
            \/ r.sig = "next" /\ f.type = Unit
    THEN With([r EXCEPT !.env = s.env, !.sig = "next"], r.ret)
    ELSE WrongValue([r EXCEPT !.env = s.env])
RunBody(fs, s, f, vs) ==
    IF s.fuel = 0 THEN With([s EXCEPT !.sig = "stuck"], NoValue)
    ELSE Returned(s, f, FoldLeft(LAMBDA acc, st : Exec(fs, acc, st),
                                 [BindArgs(s, f, vs) EXCEPT !.ret = NoValue], f.items))
Invoke(fs, a, fn) ==
    LET fits(f) == Len(a.vs) = Len(f.params) /\ \A k \in DOMAIN a.vs : Passes(a.vs[k], Signature(f).params[k])
    IN  CASE ~Runs(a.s) -> With(a.s, NoValue)
          [] fn = "get_int" -> With([a.s EXCEPT !.in = Tail(@)], [c |-> Head(a.s.in), t |-> "int32"])
          [] fn = "print_int" ->
                IF Len(a.vs) = 1 /\ IsInt(a.vs[1])
                THEN With([a.s EXCEPT !.out = Append(@, a.vs[1].c)], NoValue) ELSE WrongValue(a.s)
          [] fn \notin DOMAIN fs -> WrongValue(a.s)
          [] OTHER -> IF fits(fs[fn]) THEN RunBody(fs, a.s, fs[fn], a.vs) ELSE WrongValue(a.s)
EvalArgs(fs, s, es) ==
    FoldLeft(LAMBDA acc, e :
        IF ~Runs(acc.s) THEN acc
        ELSE LET r == Eval(fs, acc.s, e) IN [s |-> r.s, vs |-> Append(acc.vs, r.v)],
        [s |-> s, vs |-> <<>>], es)

\* The right side of && and || only when the left does not decide.
Logical(fs, e, l) ==
    IF ~Runs(l.s) THEN l
    ELSE IF ~IsTruth(l.v) THEN WrongValue(l.s)
    ELSE IF l.v.c = (IF e.op = "AND" THEN 0 ELSE 1) THEN l
    ELSE LET r == Eval(fs, l.s, e.r) IN IF Runs(r.s) /\ ~IsTruth(r.v) THEN WrongValue(r.s) ELSE r
Operate(op, l, r) ==
    IF ~Runs(r.s) THEN r
    ELSE IF ~IsNumber(l) \/ ~IsNumber(r.v) \/ l.t # r.v.t THEN WrongValue(r.s)
    ELSE With(r.s, IF op \in Comparing THEN Compare(op, l, r.v) ELSE Arith(op, l, r.v))
Negated(op, r) ==
    IF ~Runs(r.s) THEN r
    ELSE IF op = "NOT" THEN IF IsTruth(r.v) THEN With(r.s, [r.v EXCEPT !.c = 1 - @]) ELSE WrongValue(r.s)
    ELSE IF ~IsNumber(r.v) THEN WrongValue(r.s)
    ELSE With(r.s, IF op = "MINUS" THEN [r.v EXCEPT !.c = eval_unary("NEG", "int32", @)] ELSE r.v)
Eval(fs, s, e) ==
    CASE e.k = "const" -> With(s, e.o)
      [] e.k = "lval" \/ (e.k = "binary" /\ e.op = "INDEX") ->
            LET b == Place(fs, s, e) IN IF Runs(b.s) THEN ReadPlace(b.s, b.v) ELSE b
      [] e.k = "unary" -> Negated(e.op, Eval(fs, s, e.e))
      [] e.k = "binary" /\ e.op \in {"AND", "OR"} -> Logical(fs, e, Eval(fs, s, e.l))
      [] e.k = "binary" ->
            LET l == Eval(fs, s, e.l) IN IF Runs(l.s) THEN Operate(e.op, l.v, Eval(fs, l.s, e.r)) ELSE l
      [] e.k = "call" -> Invoke(fs, EvalArgs(fs, s, e.args), e.fn)

\* Only a scalar that is no constant can be assigned, with its own type.
Store(p, v) ==
    IF ~Runs(v.s) THEN v.s
    ELSE IF p.ro \/ p.t.k \in {"array", "ref"} \/ ~IsScalar(v.v) THEN Wrong(v.s)
    ELSE IF v.v.t # p.t.k \/ p.at \notin DOMAIN v.s.heap THEN Wrong(v.s)
    ELSE [v.s EXCEPT !.heap[p.at] = v.v.c]
Truthful(r) == IF Runs(r.s) /\ ~IsTruth(r.v) THEN WrongValue(r.s) ELSE r
InScope(s, t) == [t EXCEPT !.env = s.env]
LoopEnd(r) == IF r.sig \in {"break", "continue"} THEN [r EXCEPT !.sig = "next"] ELSE r
Exec(fs, s, st) ==
    CASE ~Runs(s) -> s
      [] st.k = "decl" -> Declare(s, st)
      [] st.k = "block" ->
            InScope(s, FoldLeft(LAMBDA acc, x : Exec(fs, acc, x),
                                [s EXCEPT !.env = Append(@, <<>>)], st.items))
      [] st.k = "if" ->
            LET c == Truthful(Eval(fs, s, st.c))
            IN  IF ~Runs(c.s) THEN c.s
                ELSE IF c.v.c = 1 THEN Exec(fs, c.s, st.t)
                ELSE IF st.els = <<>> THEN c.s ELSE Exec(fs, c.s, st.els[1])
      [] st.k = "while" ->
            LET c == Truthful(Eval(fs, s, st.c))
                r == Exec(fs, c.s, st.t)
            IN  IF ~Runs(c.s) \/ c.v.c = 0 THEN c.s
                ELSE IF c.s.fuel = 0 THEN [c.s EXCEPT !.sig = "stuck"]
                ELSE IF r.sig \in {"next", "continue"}
                THEN Exec(fs, [LoopEnd(r) EXCEPT !.fuel = @ - 1], st)
                ELSE LoopEnd(r)
      [] st.k = "assign" ->
            LET p == Place(fs, s, st.l) IN IF Runs(p.s) THEN Store(p.v, Eval(fs, p.s, st.e)) ELSE p.s
      [] st.k = "exp" -> Eval(fs, s, st.e).s
      [] st.k = "return" ->
            LET v == IF st.vals = <<>> THEN With(s, NoValue) ELSE Eval(fs, s, st.vals[1])
            IN  IF Runs(v.s) THEN [v.s EXCEPT !.sig = "return", !.ret = v.v] ELSE v.s
      [] OTHER -> [s EXCEPT !.sig = st.k]

\* A run of the whole program: the globals, then main.
Meaning(unit, input, fuel) ==
    LET decls == SelectSeq(unit, LAMBDA i : i.k = "decl")
        funcs == SelectSeq(unit, LAMBDA i : i.k = "func")
        fs == [n \in {funcs[k].name : k \in DOMAIN funcs} |->
                  funcs[CHOOSE k \in DOMAIN funcs : funcs[k].name = n]]
        start == [env |-> <<<<>>>>, heap |-> <<>>, n |-> 1, in |-> input, out |-> <<>>,
                  sig |-> "next", ret |-> NoValue, fuel |-> fuel]
    IN  Invoke(fs, [s |-> FoldLeft(Declare, start, decls), vs |-> <<>>], "main")
=============================================================================
