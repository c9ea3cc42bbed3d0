----------------------------- MODULE Observers -----------------------------
(***************************************************************************)
(* The use-def graph of a pass and the program it observes, under every    *)
(* sequence of the calls by which passes change a program: the operations  *)
(* of Block and Func, which notify the graph, and the replacements of the  *)
(* graph, which change both.  A pass builds its graph anew, one that knows *)
(* a single definition of each variable (UseDefGraph) for code in SSA form *)
(* and one that knows them all (NonSSAUseDefGraph) for any code.           *)
(***************************************************************************)
EXTENDS UseDef

CONSTANTS Funcs,      \* the names of functions
          Labels,     \* the names of blocks: the exit of block b is the site -b
          Variables,  \* the values on the left of an assignment
          Programs,   \* the programs at first
          New,        \* the instructions, exits and values that a pass puts in,
          NewBodies,  \* and the bodies of the blocks that it adds
          NewExits,
          NewValues,
          MaxCalls    \* a bound on the calls

VARIABLES p,      \* the program and what its observers recorded
          calls   \* the calls so far
vars == <<p, calls>>

(***************************************************************************)
(* What a program is made of.                                              *)
(***************************************************************************)
Value == [v : Variables] \cup [c : Int, t : STRING]
Instruction == [id : Nat, op : STRING, res : Variables \cup {NoVar}, args : Seq(Value),
                src : Seq(Labels), fn : STRING]
Exit == [to : Seq(Labels), arg : Seq(Value)]
Fields == {"funcs", "blocks", "body", "exit", "params", "locals", "globals", "comptime",
           "refs", "init", "temps", "uses", "defs", "multi", "next"}

\* Functions own their blocks, and every block has a body and an exit.
IsProgram(q) ==
    /\ DOMAIN q = Fields
    /\ q.multi \in BOOLEAN
    /\ q.next \in Nat \ {0}
    /\ q.funcs \in Seq(Funcs) /\ IsInjective(q.funcs)
    /\ q.blocks \in [Funcs -> Seq(Labels)]
    /\ \A f \in Funcs : IsInjective(q.blocks[f])
    /\ \A f, g \in ToSet(q.funcs) : f # g => Blocks(q, f) \cap Blocks(q, g) = {}
    /\ q.body \in [AllBlocks(q) -> Seq(Instruction)]
    /\ q.exit \in [AllBlocks(q) -> Exit]

\* An address belongs to one instruction, and it was given out.
OwnAddresses(q) ==
    /\ \A b, c \in AllBlocks(q) : \A j \in DOMAIN q.body[b], k \in DOMAIN q.body[c] :
         q.body[b][j].id = q.body[c][k].id => b = c /\ j = k
    /\ \A i \in Listed(q) : 0 < i.id /\ i.id < q.next

\* SSA form, as far as definitions go.
AssignedOnce(q) ==
    \A i, j \in Listed(q) : i.res = j.res /\ i.res # NoVar => i = j

ASSUME LabelsAssumption == Labels \subseteq Nat \ {0}
ASSUME VariablesAssumption == NoVar \notin Variables
ASSUME ProgramsAssumption == \A q \in Programs : IsProgram(q) /\ OwnAddresses(q)
ASSUME InputsAssumption ==
    /\ New \subseteq Instruction
    /\ NewBodies \subseteq Seq(New)
    /\ NewExits \subseteq Exit
    /\ NewValues \subseteq Value

(***************************************************************************)
(* The calls.  Under a graph with a single definition of each variable, a  *)
(* pass defines only what no other instruction defines.                    *)
(***************************************************************************)
\* A graph of either kind for the program q.
Graph(q, m) == Observed([q EXCEPT !.multi = m])
Observe(m) ==
    /\ m \/ AssignedOnce(p)
    /\ p' = Graph(p, m)

\* A new instruction may define x, were the instructions in old not there.
MayDefine(x, old) ==
    p.multi \/ x = NoVar \/ \A i \in Listed(p) \ old : i.res # x

Replace(b, k, i) ==
    /\ MayDefine(i.res, {p.body[b][k]})
    /\ p' = replace(p, b, k, i)
Insert(b, k, i) ==
    /\ MayDefine(i.res, {})
    /\ p' = insert_at(p, b, k, i)
Erase(b, k) == p' = erase(p, b, k)
SetExit(b, e) == p' = setExit(p, b, e)

AddBlock(f, b, insts, e) ==
    /\ \A k \in DOMAIN insts : MayDefine(insts[k].res, {})
    /\ p.multi \/ \A j, k \in DOMAIN insts :
                    insts[j].res = insts[k].res /\ insts[j].res # NoVar => j = k
    /\ p' = addBlock(p, f, b, insts, e)
RemoveBlock(f, b) == p' = removeBlock(p, f, b)
Split(f, b, k, e, new) == p' = split(p, f, b, k, e, new)
RemoveFunc(f) == p' = removeFunc(p, f)

ReplaceUses(x, o) == p' = replace_all_uses_with(p, x, o)
ReplaceDefs(x, y) ==
    /\ x # y
    /\ MayDefine(y, {})
    /\ p' = replace_all_defs_with(p, x, y)

Init ==
    /\ \E q \in Programs, m \in BOOLEAN :
         /\ m \/ AssignedOnce(q)
         /\ p = Graph(q, m)
    /\ calls = 0

AnyCall ==
    \/ \E m \in BOOLEAN : Observe(m)
    \/ \E b \in AllBlocks(p) :
         \/ \E k \in DOMAIN p.body[b], i \in New : Replace(b, k, i)
         \/ \E k \in 1 .. Len(p.body[b]) + 1, i \in New : Insert(b, k, i)
         \/ \E k \in DOMAIN p.body[b] : Erase(b, k)
         \/ \E e \in NewExits : SetExit(b, e)
    \/ \E f \in ToSet(p.funcs) :
         \/ \E b \in Labels \ AllBlocks(p), insts \in NewBodies, e \in NewExits :
              AddBlock(f, b, insts, e)
         \/ \E b \in Blocks(p, f) :
              \/ RemoveBlock(f, b)
              \/ \E k \in 1 .. Len(p.body[b]) + 1, e \in NewExits, new \in Labels \ AllBlocks(p) :
                   Split(f, b, k, e, new)
         \/ RemoveFunc(f)
    \/ \E x \in Variables, o \in NewValues : ReplaceUses(x, o)
    \/ \E x, y \in Variables : ReplaceDefs(x, y)

Next == calls < MaxCalls /\ AnyCall /\ calls' = calls + 1

Spec == Init /\ [][Next]_vars

(***************************************************************************)
(* Properties.                                                             *)
(***************************************************************************)
\* The program stays one (ir.h: Func owns its blocks, Block its instructions): no
\* block is in two places, no two instructions share the address by which the
\* graph knows them, and a graph of single definitions is only kept for SSA form.
WellFormed ==
    /\ IsProgram(p)
    /\ OwnAddresses(p)
    /\ p.multi \/ AssignedOnce(p)

\* What the graph recorded is what a graph built anew would record
\* (UseInfo::verify, DefInfo::verify), after any sequence of calls.
GraphExact == verify(p)

\* A pass that replaces all uses of a variable (UseInfo::replace_all_uses_with)
\* leaves no operand that reads it, and one that replaces its definitions leaves
\* no instruction that assigns it, although both look only at recorded sites.
Reads(q, x) ==
    \/ \E i \in Listed(q) : \E k \in DOMAIN i.args : i.args[k] = V(x)
    \/ \E b \in AllBlocks(q) : \E k \in DOMAIN q.exit[b].arg : q.exit[b].arg[k] = V(x)
Assigns(q, x) == \E i \in Listed(q) : i.res = x
ReplacedEverywhere ==
    [][\A x \in Variables :
         /\ \A o \in NewValues : ReplaceUses(x, o) /\ o # V(x) => ~Reads(p', x)
         /\ \A y \in Variables : ReplaceDefs(x, y) => ~Assigns(p', x)]_vars
=============================================================================
