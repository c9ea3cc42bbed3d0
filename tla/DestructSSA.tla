---------------------------- MODULE DestructSSA ----------------------------
(***************************************************************************)
(* DestructSSA (backend/ir/transform/ssa/destruct.hpp): the way out of SSA *)
(* form.  Edges on which a copy has no place are split, every phi becomes  *)
(* copies at the end of the predecessors, and the variables that have      *)
(* several definitions by then become allocations.  SSAValue2TempValue,    *)
(* DeadBlockElimination and DeadTempElimination come from OptimPasses.     *)
(***************************************************************************)
EXTENDS OptimPasses

newTemp(p, f) == [p EXCEPT !.temps[f] = @ + 1]
LastTemp(p, f) == TempValue(f, p.temps[f] - 1)

(***************************************************************************)
(* SplitCriticalEdge                                                       *)
(***************************************************************************)
critical_edges(p, f) ==
    {e \in Blocks(p, f) \X Blocks(p, f) :
        /\ e[1] \in pred(p, f, e[2])
        /\ Cardinality(pred(p, f, e[2])) > 1
        /\ HasPhiFirst(p, e[2])
        /\ Cardinality(targets(p.exit[e[1]])) > 1}

\* Both targets of the exit move to the new block if both are the edge's, and
\* the phis at the head of the target name it as their source.
Redirected(seq, from, to) == [k \in DOMAIN seq |-> IF seq[k] = from THEN to ELSE seq[k]]
split_edge(p, f, from, to) ==
    LET mid == p.next
        q == addBlock([p EXCEPT !.next = @ + 1], f, mid, <<>>, Jump(to))
    IN  [q EXCEPT !.exit[from].to = Redirected(@, to, mid),
                  !.body[to] = [k \in DOMAIN @ |->
                      IF k \in LeadingPhis(@) THEN [@[k] EXCEPT !.src = Redirected(@, from, mid)]
                      ELSE @[k]]]
split_critical(p, f) ==
    [p  |-> FoldSet(LAMBDA e, q : split_edge(q, f, e[1], e[2]), p, critical_edges(p, f)),
     ch |-> critical_edges(p, f) # {}]

(***************************************************************************)
(* ReplacePhi                                                              *)
(***************************************************************************)
\* PhiInst::value, of the first entry for the block.
phi_value(i, b) ==
    LET From == {k \in DOMAIN i.src : i.src[k] = b}
    IN  i.args[CHOOSE k \in From : \A j \in From : k <= j]

\* copy_set: what the phis behind block b want of it, as pairs of values.
CopySet(p, b) ==
    UNION {{<<phi_value(p.body[c][k], b), V(p.body[c][k].res)>> : k \in LeadingPhis(p.body[c])} :
              c \in targets(p.exit[b])}

AppendMov(s, b, dest, o) == [s EXCEPT !.p = append_inst(@, b, Inst("MOV", dest, <<o>>))]

\* The two loops of pass 3.  The set is read in the order of its values, which
\* is whatever order CHOOSE picks.  s = [p, work, set, map].
Free(s, src) == SetToSeq({c \in s.set : c[2] = src})
copy_one(s, b, c) ==
    LET t == AppendMov(s, b, c[2].v, s.map[c[1]])
        free == Free(s, c[1])
    IN  [t EXCEPT !.work = Front(@) \o free, !.set = @ \ ToSet(free),
                  !.map = Record(@, c[1], c[2])]
save_one(s, f, b, c) ==
    LET q == [s EXCEPT !.p = newTemp(@, f)]
        temp == LastTemp(q.p, f)
    IN  [AppendMov(q, b, temp, c[2]) EXCEPT !.set = @ \ {c}, !.work = <<c>>,
                                            !.map = Record(@, c[2], V(temp))]
RECURSIVE insert_copies(_, _, _)
insert_copies(s, f, b) ==
    IF s.work # <<>> THEN insert_copies(copy_one(s, b, Last(s.work)), f, b)
    ELSE IF s.set # {} THEN insert_copies(save_one(s, f, b, CHOOSE c \in s.set : TRUE), f, b)
    ELSE s.p
schedule_copy(p, f, b) ==
    LET all == CopySet(p, b)
        free == {c \in all : \A d \in all : d[1] # c[2]}
        ends == {c[1] : c \in all} \cup {c[2] : c \in all}
    IN  insert_copies([p |-> p, work |-> SetToSeq(free), set |-> all \ free,
                       map |-> [o \in ends |-> o]], f, b)

remove_phi(p, b) ==
    FoldSet(LAMBDA k, q : erase(q, b, 1), p, LeadingPhis(p.body[b]))

\* insert_copy visits the blocks that the entrance dominates, all of them here.
replace_phi(p, f) ==
    LET Copied == FoldLeft(LAMBDA q, b : schedule_copy(q, f, b), p, p.blocks[f])
    IN  FoldLeft(remove_phi, Copied, p.blocks[f])

\* Mutant: a variable with several definitions keeps its name.
legalize_none(p) == p
legalize(p) ==
    LET illegals == {x \in {d[1] : d \in p.defs} :
                        x[1] # "named" /\ Cardinality(defs_of(p, x)) > 1}
        Alloc(x) == <<"__phi", Append(x[4], x[3])>>
        One(x, q) ==
            LET new == NamedValue(Alloc(x))
                r == replace_all_defs_with(replace_all_uses_with(q, x, V(new)), x, new)
            IN  [r EXCEPT !.locals[x[2]] = @ \cup {Alloc(x)}]
    IN  FoldSet(One, p, illegals)

replace_phis(p) ==
    legalize(FoldLeft(replace_phi, p, p.funcs))
=============================================================================
