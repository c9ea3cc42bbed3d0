------------------------------- MODULE IRExec -------------------------------
(***************************************************************************)
(* VirtualMachine::execute (backend/ir/vm/exec.cpp) on a program of the    *)
(* form of UseDef: what a run of the program shows.  An address is a       *)
(* triple: the allocation, the frame it belongs to (0 for the globals) and *)
(* the index of the scalar in it.                                          *)
(***************************************************************************)
EXTENDS UseDef, IRMachine

InFrame(q, f, x) ==
    IF x[1] = "temp" THEN x[2] = f /\ x[3] < q.temps[f]
    ELSE alloc_of(x) \in ToSet(q.params[f]) \cup q.locals[f] \cup q.globals

\* alloc: the memory of an allocation, and what it holds at first.
Address(q, s, a) == <<a, IF a \in q.globals THEN 0 ELSE s.fp, 0>>
PutCells(mem, at, cells) ==
    [x \in DOMAIN mem \cup {<<at[1], at[2], at[3] + k - 1>> : k \in DOMAIN cells} |->
        IF x[1] = at[1] /\ x[2] = at[2] /\ x[3] - at[3] + 1 \in DOMAIN cells
        THEN cells[x[3] - at[3] + 1] ELSE mem[x]]
InitCells(q, s, S) ==
    [s EXCEPT !.mem = FoldSet(LAMBDA a, mem : PutCells(mem, Address(q, s, a), q.init[a]),
                              @, S \cap DOMAIN q.init)]

\* Every version of a variable is in the one cell of its allocation.
Slot(x) == IF x[1] = "ssa" THEN NamedValue(alloc_of(x)) ELSE x
\* view_of.  s = [env, mem, fp, in, out, ok]; a value that the frame does not
\* hold stops the run.
ValueOf(q, s, o) ==
    CASE IsConst(o) -> o.c
      [] Slot(o.v) \in DOMAIN s.env -> s.env[Slot(o.v)]
      [] o.v[1] = "named" /\ alloc_of(o.v) \in q.refs -> Address(q, s, alloc_of(o.v))
      [] o.v[1] = "named" /\ alloc_of(o.v) \in DOMAIN q.comptime -> q.comptime[alloc_of(o.v)].c
      [] OTHER -> 0
Readable(q, f, o) == IsConst(o) \/ InFrame(q, f, o.v)
Put(s, x, v) == IF x = NoVar THEN s ELSE [s EXCEPT !.env = Record(@, Slot(x), v)]
Cell(s, at) == IF at \in DOMAIN s.mem THEN s.mem[at] ELSE 0

\* The third operand of BORROW_ELEM is the size of the element, in scalars.
exec_plain(q, s, i) ==
    LET v == [k \in DOMAIN i.args |-> ValueOf(q, s, i.args[k])]
    IN  CASE i.op = "MOV"   -> Put(s, i.res, v[1])
          [] i.op = "NEG"   -> Put(s, i.res, eval_unary("NEG", "int32", v[1]))
          [] i.op = "NOT"   -> Put(s, i.res, eval_unary("NOT", "int1", v[1]))
          [] i.op = "LOAD"  -> Put(s, i.res, Cell(s, v[1]))
          [] i.op = "STORE" ->
                [s EXCEPT !.mem = PutCells(@, v[1], IF IsConst(i.args[2]) /\ i.args[2].t = "array"
                                                    THEN v[2] ELSE <<v[2]>>)]
          [] i.op \in {"BORROW_ELEM", "BORROW_ELEM_MUT"} ->
                Put(s, i.res, [v[1] EXCEPT ![3] = @ + v[2] * v[3]])
          [] i.op \in Comparisons ->
                Put(s, i.res, eval_comparison(i.op, "int32", "int32", v[1], v[2]))
          [] i.op \in {"AND", "OR"} -> Put(s, i.res, eval_binary(i.op, "int1", v[1], v[2]))
          [] i.op = "GETINT"   -> [Put(s, i.res, Head(s.in)) EXCEPT !.in = Tail(@)]
          [] i.op = "PRINTINT" -> [s EXCEPT !.out = Append(@, v[1])]
          [] OTHER -> Put(s, i.res, eval_binary(i.op, "int32", v[1], v[2]))

\* The phis at the head of the block read together, before any of them is written.
enter_block(q, f, b, prev, s) ==
    LET phis == LeadingPhis(q.body[b])
        From(i) == {k \in DOMAIN i.src : i.src[k] = prev}
        Arg(i) == i.args[CHOOSE k \in From(i) : \A j \in From(i) : k <= j]
        ok == \A k \in phis : /\ From(q.body[b][k]) # {}
                              /\ Readable(q, f, Arg(q.body[b][k]))
    IN  IF ~ok THEN [s EXCEPT !.ok = FALSE]
        ELSE FoldSet(LAMBDA k, acc : Put(acc, q.body[b][k].res, ValueOf(q, s, Arg(q.body[b][k]))),
                     s, phis)

RECURSIVE run_func(_, _, _, _, _)
RECURSIVE run_block(_, _, _, _, _, _)
run_func(q, f, args, s, fuel) ==
    LET x == [k \in DOMAIN args |-> NamedValue(q.params[f][k])]
        env == [y \in ToSet(x) |-> args[CHOOSE k \in DOMAIN x : x[k] = y]]
        frame == [s EXCEPT !.env = env, !.fp = @ + 1]
        r == run_block(q, f, entrance(q, f), 0, InitCells(q, frame, q.locals[f]), fuel)
    IN  [r EXCEPT !.s.env = s.env, !.s.fp = s.fp]
run_block(q, f, b, prev, s, fuel) ==
    LET Returned(i, r) == Put(r.s, i.res, r.ret)
        Exec(acc, i) ==
            IF ~acc.ok \/ (\E k \in DOMAIN i.args : ~Readable(q, f, i.args[k]))
               \/ (i.res # NoVar /\ ~InFrame(q, f, i.res)) \/ i.op = "PHI"
            THEN [acc EXCEPT !.ok = FALSE]
            ELSE IF i.op # "CALL" THEN exec_plain(q, acc, i)
            ELSE Returned(i, run_func(q, i.fn, [k \in DOMAIN i.args |-> ValueOf(q, acc, i.args[k])],
                                      acc, fuel - 1))
        Leave(out, e) ==
            IF fuel = 0 \/ ~out.ok \/ (e.arg # <<>> /\ ~Readable(q, f, e.arg[1]))
            THEN [s |-> [out EXCEPT !.ok = FALSE], ret |-> 0]
            ELSE IF e.to = <<>> THEN [s |-> out, ret |-> ValueOf(q, out, e.arg[1])]
            ELSE run_block(q, f,
                   IF Len(e.to) = 1 \/ ValueOf(q, out, e.arg[1]) # 0 THEN e.to[1] ELSE e.to[2],
                   b, out, fuel - 1)
        n == Cardinality(LeadingPhis(q.body[b]))
    IN  Leave(FoldLeft(Exec, enter_block(q, f, b, prev, s), SubSeq(q.body[b], n + 1, Len(q.body[b]))),
              q.exit[b])

\* What can be seen of a run that enters no more than fuel blocks: whether it
\* ended well, the result, the output, and the memory it leaves.
Final(q, input, fuel) ==
    LET start == [env |-> <<>>, mem |-> <<>>, fp |-> 0, in |-> input, out |-> <<>>, ok |-> TRUE]
    IN  run_func(q, "main", <<>>, InitCells(q, start, q.globals), fuel)
Behaviour(q, input, fuel) ==
    LET r == Final(q, input, fuel)
    IN  [ok |-> r.s.ok, ret |-> r.ret, out |-> r.s.out]
=============================================================================
