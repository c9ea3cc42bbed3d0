------------------------------- MODULE UseDef -------------------------------
(***************************************************************************)
(* A program of the IR in memory (Program, Func, Block) and the use-def    *)
(* graph that observes it (analysis/usedef).  An instruction keeps the     *)
(* address it was given in its list, id; a use is recorded by the address  *)
(* of the operand, a pair of the site and the position in it, where the    *)
(* exit of block b is the site -b.  Every change of the code notifies the  *)
(* observers; a change that does not leaves them stale.                    *)
(*                                                                         *)
(* A program p is a record:                                                *)
(*   funcs            the names of the functions, in order                 *)
(*   blocks[f]        the blocks of f, in order; the first is the entrance *)
(*   body[b], exit[b] the instructions and the exit of block b             *)
(*   params[f], locals[f], globals       the allocations (Alloc)           *)
(*   comptime         the allocations known at compile time, their value   *)
(*   refs             the allocations reached by reference, in memory      *)
(*   init             what an allocation of memory holds at first          *)
(*   temps[f]         the number of temporaries of f                       *)
(*   uses, defs       UseInfo::use_sites and the def_sites, as pairs       *)
(*   multi            whether MultiDefInfo keeps def_sites, or DefInfo     *)
(*   next             the next free address                                *)
(***************************************************************************)
EXTENDS Integers, Sequences, SequencesExt

\* LeftValue: a temporary of a function, a named allocation, or a version of one.
\* The last field tells the clones of an allocation apart: the copies it comes from.
NoVar == <<"none", "", 0, <<>>>>
TempValue(f, n) == <<"temp", f, n, <<>>>>
NamedValue(a)   == <<"named", a[1], 0, a[2]>>
SSAValue(a, n)  == <<"ssa", a[1], n, a[2]>>
alloc_of(x)     == <<x[2], x[4]>>

\* Value: a variable or a constant with its type.
V(x) == [v |-> x]
IsVar(o) == "v" \in DOMAIN o
IsConst(o) == ~IsVar(o)
Num(n) == [c |-> n, t |-> "int32"]
Truth(b) == [c |-> IF b THEN 1 ELSE 0, t |-> "int1"]
Void == [c |-> 0, t |-> "void"]

Inst(op, res, args) == [id |-> 0, op |-> op, res |-> res, args |-> args, src |-> <<>>, fn |-> ""]
Phi(res, src, args) == [Inst("PHI", res, args) EXCEPT !.src = src]
Call(f, res, args)  == [Inst("CALL", res, args) EXCEPT !.fn = f]
Jump(b)             == [to |-> <<b>>, arg |-> <<>>]
Branch(o, t, f)     == [to |-> <<t, f>>, arg |-> <<o>>]
Return(o)           == [to |-> <<>>, arg |-> <<o>>]

entrance(p, f) == p.blocks[f][1]
Blocks(p, f) == ToSet(p.blocks[f])
AllBlocks(p) == UNION {Blocks(p, f) : f \in ToSet(p.funcs)}
targets(e) == ToSet(e.to)
pred(p, f, b) == {c \in Blocks(p, f) : b \in targets(p.exit[c])}
HasPhiFirst(p, b) == p.body[b] # <<>> /\ p.body[b][1].op = "PHI"

\* The phis that a loop which stops at the first other instruction visits.
LeadingPhis(insts) ==
    {k \in DOMAIN insts : \A j \in 1 .. k : insts[j].op = "PHI"}

reachable(p, f) ==
    LET Grow[n \in Nat] ==
            IF n = 0 THEN {entrance(p, f)}
            ELSE LET S == Grow[n - 1] IN S \cup UNION {targets(p.exit[b]) : b \in S}
    IN  Grow[Len(p.blocks[f])]

\* utils::used and utils::defined_var, as the records the observers keep.
Sites(site, args) ==
    {<<site, k, args[k].v>> : k \in {j \in DOMAIN args : IsVar(args[j])}}
UsesIn(p, b) ==
    Sites(-b, p.exit[b].arg) \cup UNION {Sites(i.id, i.args) : i \in ToSet(p.body[b])}

\* A map with the entry for x set to o.
Record(map, x, o) == [y \in DOMAIN map \cup {x} |-> IF y = x THEN o ELSE map[y]]

(***************************************************************************)
(* The observers: UseInfo, and DefInfo (one site for a variable, the last  *)
(* one added) or MultiDefInfo (all of them).                               *)
(***************************************************************************)
defs_of(p, x) == {d \in p.defs : d[1] = x}
Defines(i) == IF i.res = NoVar THEN {} ELSE {<<i.res, i.id>>}
after_add(p, i) ==
    [p EXCEPT !.uses = @ \cup Sites(i.id, i.args),
              !.defs = (IF p.multi THEN @ ELSE @ \ defs_of(p, i.res)) \cup Defines(i)]
\* Mutant: MultiDefInfo forgets all the sites of the variable.
before_erase_all(p, i) ==
    [p EXCEPT !.uses = @ \ Sites(i.id, i.args), !.defs = @ \ defs_of(p, i.res)]
before_erase(p, i) ==
    [p EXCEPT !.uses = @ \ Sites(i.id, i.args),
              !.defs = @ \ (IF p.multi THEN Defines(i) ELSE defs_of(p, i.res))]

\* What is left of the definitions in insts when they are seen one after another.
DefsIn(p, insts) ==
    {<<insts[k].res, insts[k].id>> : k \in {j \in DOMAIN insts :
        /\ insts[j].res # NoVar
        /\ p.multi \/ \A m \in DOMAIN insts : m > j => insts[m].res # insts[j].res}}
defined(insts) == {i.res : i \in ToSet(insts)} \ {NoVar}

\* A block: its instructions in their order, then its exit.
after_add_block(p, b) ==
    [p EXCEPT !.uses = @ \cup UsesIn(p, b),
              !.defs = (IF p.multi THEN @ ELSE {d \in @ : d[1] \notin defined(p.body[b])})
                       \cup DefsIn(p, p.body[b])]
before_erase_block(p, b) ==
    [p EXCEPT !.uses = @ \ UsesIn(p, b),
              !.defs = IF p.multi THEN @ \ DefsIn(p, p.body[b])
                       ELSE {d \in @ : d[1] \notin defined(p.body[b])}]

uses_of(p, x) == {u \in p.uses : u[3] = x}

\* Mutant: the exits keep the old operand.
replace_inst_uses_with(p, old, new) ==
    LET sites == {<<u[1], u[2]>> : u \in {w \in uses_of(p, old) : w[1] > 0}}
        Put(site, args) == [k \in DOMAIN args |-> IF <<site, k>> \in sites THEN new ELSE args[k]]
        Rewrite(i) == [i EXCEPT !.args = Put(i.id, @)]
    IN  [p EXCEPT
          !.body = [b \in DOMAIN @ |-> [k \in DOMAIN @[b] |-> Rewrite(@[b][k])]],
          !.uses = {u \in @ : u[3] # old \/ u[1] < 0}
                   \cup (IF IsVar(new) THEN {<<t[1], t[2], new.v>> : t \in sites} ELSE {})]

\* Rewrites the operands at the recorded addresses; true when there were any.
replace_all_uses_with(p, old, new) ==
    LET sites == {<<u[1], u[2]>> : u \in uses_of(p, old)}
        Put(site, args) == [k \in DOMAIN args |-> IF <<site, k>> \in sites THEN new ELSE args[k]]
        Rewrite(i) == [i EXCEPT !.args = Put(i.id, @)]
        Rewritten(b) == [p.exit[b] EXCEPT !.arg = Put(-b, @)]
    IN  IF sites = {} THEN p
        ELSE [p EXCEPT
               !.body = [b \in DOMAIN @ |-> [k \in DOMAIN @[b] |-> Rewrite(@[b][k])]],
               !.exit = [b \in DOMAIN @ |-> Rewritten(b)],
               !.uses = (@ \ uses_of(p, old))
                        \cup (IF IsVar(new) THEN {<<s[1], s[2], new.v>> : s \in sites} ELSE {})]

\* Renames the results at the recorded sites, which are recorded for the new
\* variable, and only then forgets the old one.  DefInfo has one site for each.
replace_all_defs_with(p, old, new) ==
    LET sites == {d[2] : d \in defs_of(p, old)}
        Rewrite(i) == IF i.id \in sites THEN [i EXCEPT !.res = new] ELSE i
        left == IF p.multi THEN p.defs ELSE p.defs \ defs_of(p, new)
    IN  IF sites = {} THEN p
        ELSE [p EXCEPT
               !.body = [b \in DOMAIN @ |-> [k \in DOMAIN @[b] |-> Rewrite(@[b][k])]],
               !.defs = {d \in left \cup {<<new, k>> : k \in sites} : d[1] # old}]

\* Program::addCallback: a new observer sees every instruction and exit, in the
\* order of the functions, of their blocks and of the instructions in them.
Listed(p) == UNION {ToSet(p.body[b]) : b \in AllBlocks(p)}
SeenBefore(p, i, j) ==
    \E m, n \in DOMAIN p.funcs :
      \E b \in DOMAIN p.blocks[p.funcs[m]], c \in DOMAIN p.blocks[p.funcs[n]] :
        LET s == p.body[p.blocks[p.funcs[m]][b]]
            t == p.body[p.blocks[p.funcs[n]][c]]
        IN  \E k \in DOMAIN s, l \in DOMAIN t :
              /\ s[k] = i /\ t[l] = j
              /\ m < n \/ (m = n /\ (b < c \/ (b = c /\ k < l)))
ReferenceUses(p) == UNION {UsesIn(p, b) : b \in AllBlocks(p)}
ReferenceDefs(p) ==
    {<<i.res, i.id>> : i \in {j \in Listed(p) :
        /\ j.res # NoVar
        /\ p.multi \/ \A k \in Listed(p) : k # j /\ k.res = j.res => ~SeenBefore(p, j, k)}}
Observed(p) == [p EXCEPT !.uses = ReferenceUses(p), !.defs = ReferenceDefs(p)]

\* verify(): the records are those of observers that are built anew.
verify(p) ==
    /\ p.uses = ReferenceUses(p)
    /\ p.defs = ReferenceDefs(p)

(***************************************************************************)
(* Block, Func and Program: the changes, each with its notifications.      *)
(***************************************************************************)
\* Mutant: the observers do not hear that the old instruction goes.
replace_unannounced(p, b, k, new) ==
    LET i == [new EXCEPT !.id = p.body[b][k].id]
    IN  after_add([p EXCEPT !.body[b][k] = i], i)
replace(p, b, k, new) ==
    LET i == [new EXCEPT !.id = p.body[b][k].id]
    IN  after_add([before_erase(p, p.body[b][k]) EXCEPT !.body[b][k] = i], i)

\* insert before position k; append and prepend put it last and first.
insert_at(p, b, k, new) ==
    LET i == [new EXCEPT !.id = p.next]
    IN  after_add([p EXCEPT !.body[b] = InsertAt(@, k, i), !.next = @ + 1], i)
append_inst(p, b, i) == insert_at(p, b, Len(p.body[b]) + 1, i)
prepend_inst(p, b, i) == insert_at(p, b, 1, i)

erase(p, b, k) ==
    [before_erase(p, p.body[b][k]) EXCEPT !.body[b] = RemoveAt(@, k)]

\* Mutant: the observers do not hear that the old exit goes.
setExit_unannounced(p, b, e) == after_add_block([p EXCEPT !.exit[b] = e], b)
setExit(p, b, e) ==
    after_add_block([before_erase_block(p, b) EXCEPT !.exit[b] = e], b)

Restrict2(g, S) == [x \in S |-> g[x]]
Without(s, e) == RemoveAt(s, CHOOSE k \in DOMAIN s : s[k] = e)

removeBlock(p, f, b) ==
    LET q == before_erase_block(p, b)
        rest == DOMAIN q.body \ {b}
    IN  [q EXCEPT !.blocks[f] = Without(@, b),
                  !.body = Restrict2(@, rest), !.exit = Restrict2(@, rest)]

\* addBlock of a block that was filled while it belonged to no program.
addBlock(p, f, b, insts, e) ==
    LET n == Len(insts)
        placed == [k \in 1 .. n |-> [insts[k] EXCEPT !.id = p.next + k - 1]]
    IN  after_add_block(
          [p EXCEPT !.blocks[f] = Append(@, b),
                    !.body = [c \in DOMAIN @ \cup {b} |-> IF c = b THEN placed ELSE @[c]],
                    !.exit = [c \in DOMAIN @ \cup {b} |-> IF c = b THEN e ELSE @[c]],
                    !.next = @ + n], b)

removeFunc(p, f) ==
    LET gone == Blocks(p, f)
        rest == DOMAIN p.body \ gone
    IN  [p EXCEPT !.funcs = Without(@, f),
                  !.body = Restrict2(@, rest), !.exit = Restrict2(@, rest),
                  !.uses = @ \ UNION {UsesIn(p, b) : b \in gone},
                  !.defs = IF p.multi THEN @ \ UNION {DefsIn(p, p.body[b]) : b \in gone}
                           ELSE {d \in @ : d[1] \notin UNION {defined(p.body[b]) : b \in gone}}]

\* Func::split before instruction k of b: the rest of the block moves to a new
\* block with the old exit, and becomes the source of the phis that named b.
\* The phis of the rest itself are not in the list of blocks yet.
split(p, f, b, k, e, new) ==
    LET Source(c) == IF c = b THEN new ELSE c
        Moved(i) == [i EXCEPT !.src = [j \in DOMAIN @ |-> Source(@[j])]]
        q == [p EXCEPT !.body = [c \in DOMAIN @ \cup {new} |->
                                   IF c = new THEN SubSeq(@[b], k, Len(@[b]))
                                   ELSE IF c = b THEN SubSeq(@[b], 1, k - 1) ELSE @[c]],
                       !.exit = [c \in DOMAIN @ \cup {new} |-> IF c = new THEN @[b] ELSE @[c]]]
        r == setExit(after_add_block(q, new), b, e)
    IN  [r EXCEPT !.body = [c \in DOMAIN @ |->
                              IF c \in Blocks(p, f) THEN [j \in DOMAIN @[c] |-> Moved(@[c][j])]
                              ELSE @[c]],
                  !.blocks[f] = Append(@, new)]
=============================================================================
