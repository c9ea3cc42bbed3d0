-------------------------- MODULE BriggsAllocator --------------------------
(***************************************************************************)
(* The graph-colouring register allocator, BriggsAllocator of              *)
(* lowering/regalloc/colorize.hpp, working on one InterfereGraph of        *)
(* lowering/regalloc/graph.hpp: simplify, coalesce, freeze, spill and      *)
(* select over an interference graph with precoloured nodes.               *)
(*                                                                         *)
(* A node is a LeftValue, given by its place in the order of the std::map  *)
(* and std::set that hold such values: every loop over one is ascending.   *)
(*                                                                         *)
(* The lists of nodes (std::list with push_back in relocate) are given by  *)
(* the list each node is in and by one sequence with the nodes in the      *)
(* order in which they were last relocated: the front of a list is the     *)
(* first of its elements in that sequence, the back the last.              *)
(*                                                                         *)
(* Of the lists of moves only moves.ready is ever read, so it is the one   *)
(* whose elements and order are kept; of the others it matters which one   *)
(* move_locations names.  An element of moves.ready is the entry of its    *)
(* move, to which move_locations points, or a stray, to which nothing      *)
(* points any more: replace() in merge() leaves one behind when it gives   *)
(* an entry to a move that has one already.                                *)
(*                                                                         *)
(* The spill heuristic (InterfereGraph::priority) compares use counts that *)
(* this module does not carry: any node of the list may be the one chosen. *)
(***************************************************************************)
EXTENDS Integers, Sequences, FiniteSets, SequencesExt

CONSTANTS
  N,             \* how many LeftValues the graph has
  K,             \* max_color, the number of registers
  Pin,           \* the colour of a precoloured node, NoColor for the others
  CallerSaved,   \* the colours whose priority is 1
  SizeMod        \* degree is a size_t: arithmetic is modulo SizeMod

Node == 1 .. N
NoColor == -1
Color == 0 .. K - 1

ASSUME NAssumption == N \in Nat
ASSUME KAssumption == K \in Nat \ {0}
ASSUME SizeModAssumption == SizeMod \in Nat \ {0}
(* map_registers makes one proxy for every register, so no colour is pinned twice. *)
ASSUME PinAssumption ==
  /\ Pin \in [Node -> Color \cup {NoColor}]
  /\ \A m, n \in Node : Pin[m] = Pin[n] /\ Pin[m] # NoColor => m = n

Precolored == {n \in Node : Pin[n] # NoColor}

VARIABLES
  graph0,     \* the edges and moves of the graph as it was built
  interfere,  \* InterfereNode::interfere of every node
  move,       \* InterfereNode::move of every node
  degree,     \* InterfereNode::degree of every node
  alias,      \* what InterfereGraph::alias returns for every node
  loc,        \* node_locations: the list that holds every node
  order,      \* the nodes in the order of their last relocation
  mloc,       \* move_locations: the list that holds every move, "none" if it has no entry
  ready,      \* moves.ready, each element with what it is: an entry or a stray
  colors,     \* result.colors
  spilled,    \* result.spilled
  phase       \* where colorize() is

vars == <<graph0, interfere, move, degree, alias, loc, order, mloc, ready,
          colors, spilled, phase>>

NodeList == {"precolored", "initial", "simplify", "freeze", "to_spill",
             "spilled", "coalesced", "colored", "select_stack"}
MoveList == {"coalesced", "constrained", "frozen", "ready", "scheduled"}
Phase == {"initialize", "colorize", "assign", "done", "throw"}

At(list) == {n \in Node : loc[n] = list}
Ready == {mov \in Node \X Node : mloc[mov] = "ready"}

(* The values in their order, all of them and those of a set. *)
Values == [i \in Node |-> i]
Ascending(S) == SelectSeq(Values, LAMBDA n : n \in S)
Position(seq, x) == CHOOSE i \in 1 .. Len(seq) : seq[i] = x

(* The first and the last element of a list. *)
IsFront(n, list) ==
  loc[n] = list /\ \A m \in At(list) : Position(order, n) <= Position(order, m)
IsBack(n, list) ==
  loc[n] = list /\ \A m \in At(list) : Position(order, n) >= Position(order, m)

(* The elements of moves.ready: what move_locations points to, and what it   *)
(* does not.                                                                 *)
Entry(mov) == <<mov, "entry">>
Stray(mov) == <<mov, "stray">>

Strayed == \E i \in DOMAIN ready : ready[i][2] = "stray"

(* list->erase(it) for the entry of mov, under the locations ml: the list    *)
(* matters if it is moves.ready.                                             *)
Unlink(seq, ml, mov) ==
  IF ml[mov] = "ready" THEN RemoveAt(seq, Position(seq, Entry(mov))) ELSE seq

(* move_locations[mov] is set anew: an entry that mov has already stays.     *)
Orphan(seq, mov) ==
  [i \in DOMAIN seq |-> IF seq[i] = Entry(mov) THEN Stray(mov) ELSE seq[i]]

(* relocate, for the elements of moved one after the other. *)
ToBack(seq, moved) == SelectSeq(seq, LAMBDA x : x \notin Range(moved)) \o moved

(* The elements of a sequence at their first occurrence. *)
Distinct(seq) ==
  FoldLeft(LAMBDA acc, x : IF x \in Range(acc) THEN acc ELSE Append(acc, x), <<>>, seq)

-----------------------------------------------------------------------------
(* The operations of InterfereGraph, on given edges, degrees and aliases.   *)

Pair == {p \in Node \X Node : p[1] < p[2]}

Neighbours(pairs) == [n \in Node |-> {m \in Node : <<m, n>> \in pairs \/ <<n, m>> \in pairs}]

(* interferes(a, b): two values of one class never interfere. *)
Interferes(a, b) == alias[a] # alias[b] /\ alias[b] \in interfere[alias[a]]

(* merge_preview(dest, src).interfere *)
MergedInterfere(dest, src) ==
  {v \in Node \ {dest} : interfere[v] \cap {src, dest} # {}}

Significant(n) == degree[n] >= K

George(dest, src) ==
  \A n \in interfere[src] : ~Significant(n) \/ Interferes(dest, n)

Briggs(dest, src) ==
  Cardinality({n \in MergedInterfere(dest, src) : Significant(n)}) < K

(* mergable(dest, src), for two values that are their own alias. *)
Mergable(dest, src) ==
  /\ dest # src
  /\ Pin[src] = NoColor
  /\ ~Interferes(dest, src)
  /\ George(dest, src) \/ Briggs(dest, src)

(* A slip in Connect: the edge is entered at one end only. *)
ConnectOneWay(dest, nbrs) ==
  [interfere EXCEPT ![dest] = @ \cup ({alias[n] : n \in nbrs} \ {dest})]

(* The edges after interfere(dest, n) for every n in nbrs. *)
Connect(dest, nbrs) ==
  LET new == {alias[n] : n \in nbrs} \ {dest}
  IN  [v \in Node |-> IF v = dest THEN interfere[v] \cup new
                      ELSE IF v \in new THEN interfere[v] \cup {dest}
                      ELSE interfere[v]]

(* InterfereNode::degree after the same calls: one more for every new edge. *)
ConnectDegree(dest, nbrs) ==
  LET edges == Connect(dest, nbrs)
  IN  [v \in Node |->
         (degree[v] + Cardinality(edges[v]) - Cardinality(interfere[v])) % SizeMod]

-----------------------------------------------------------------------------
(* Queries on the worklists.                                                *)

OutOfGraph == {"select_stack", "coalesced"}

(* adjacent(value), under the edges e and the locations l. *)
Adjacent(e, l, n) == {m \in e[n] : l[m] \notin OutOfGraph}

(* effective_moves(dest), under the move sets mv and the move locations ml. *)
EffectiveMoves(mv, ml, n) ==
  {mov \in {n} \X mv[n] : ml[mov] \in {"scheduled", "ready"}}

MoveRelated(mv, ml, n) == EffectiveMoves(mv, ml, n) # {}

(* Calls of enable_moves(dest): calls maps every dest to the node for which  *)
(* it is called first.  Those nodes take their turns in ascending order, and *)
(* each calls it for itself, then for its neighbours in ascending order; the *)
(* moves of one dest come in ascending order too.                            *)
Before(calls, p, q) ==
  \/ calls[p[1]] < calls[q[1]]
  \/ /\ calls[p[1]] = calls[q[1]] /\ p[1] # q[1]
     /\ p[1] = calls[p[1]] \/ (q[1] # calls[q[1]] /\ p[1] < q[1])
  \/ p[1] = q[1] /\ p[2] < q[2]

InTurn(calls, movs) ==
  LET turns == {<<Cardinality({p \in movs : Before(calls, p, q)}) + 1, q>> : q \in movs}
  IN  [i \in 1 .. Cardinality(movs) |-> CHOOSE q \in movs : <<i, q>> \in turns]

(* The calls make the scheduled moves ready, under the move sets mv and the  *)
(* move locations ml.  EnableLoc gives the locations after them, Enable the  *)
(* elements of moves.ready.                                                  *)
Enabled(mv, ml, calls) ==
  {mov \in Node \X Node :
     mov[1] \in DOMAIN calls /\ mov[2] \in mv[mov[1]] /\ ml[mov] = "scheduled"}

EnableLoc(mv, ml, calls) ==
  [mov \in Node \X Node |-> IF mov \in Enabled(mv, ml, calls) THEN "ready" ELSE ml[mov]]

Entered(movs) == [i \in DOMAIN movs |-> Entry(movs[i])]

Enable(seq, mv, ml, calls) == seq \o Entered(InTurn(calls, Enabled(mv, ml, calls)))

-----------------------------------------------------------------------------
(* decrement_degree for every node of ns, under the edges e, moves mv, move *)
(* locations ml, degrees d and node locations l.  A call changes the degree  *)
(* and the list of its own node only, and makes moves ready, which no other  *)
(* call tests: each part of the effect is given for all the calls at once.   *)

Decremented(d, l, ns) ==
  [n \in Node |-> IF n \in ns /\ l[n] # "precolored" THEN (d[n] - 1) % SizeMod ELSE d[n]]

Crossing(d, l, ns) == {n \in ns : l[n] # "precolored" /\ d[n] = K}

(* The calls of enable_moves. *)
DecrementEnables(e, d, l, ns) ==
  LET callers == [n \in Node |-> {c \in Crossing(d, l, ns) : n \in {c} \cup Adjacent(e, l, c)}]
  IN  [n \in {m \in Node : callers[m] # {}} |->
         CHOOSE c \in callers[n] : \A b \in callers[n] : c <= b]

DecrementLoc(mv, ml, d, l, ns) ==
  [n \in Node |-> IF n \in Crossing(d, l, ns)
                  THEN IF MoveRelated(mv, ml, n) THEN "freeze" ELSE "simplify"
                  ELSE l[n]]

-----------------------------------------------------------------------------
(* The allocator constructed on a graph with the given edges and moves. *)
Constructed(edges, moves) ==
  (* from_precolored connects all the registers. *)
  /\ \A p \in Pair : p[1] \in Precolored /\ p[2] \in Precolored => p \in edges
  /\ graph0 = [interfere |-> Neighbours(edges), move |-> Neighbours(moves)]
  /\ interfere = graph0.interfere
  /\ move = graph0.move
  /\ degree = [n \in Node |-> Cardinality(interfere[n])]
  /\ alias = [n \in Node |-> n]
  /\ loc = [n \in Node |-> IF n \in Precolored THEN "precolored" ELSE "initial"]
  /\ order = Ascending(Node)
  /\ mloc = [mov \in Node \X Node |-> IF mov[2] \in move[mov[1]] THEN "ready" ELSE "none"]
  /\ ready = Entered(InTurn([n \in Node |-> n],
                            {mov \in Node \X Node : mov \in moves \/ <<mov[2], mov[1]>> \in moves}))
  /\ colors = Pin
  /\ spilled = {}
  /\ phase = "initialize"

Init == \E edges, moves \in SUBSET Pair : Constructed(edges, moves)

Initialize ==
  /\ phase = "initialize"
  /\ loc' = [n \in Node |->
               IF loc[n] # "initial" THEN loc[n]
               ELSE IF Significant(n) THEN "to_spill"
               ELSE IF MoveRelated(move, mloc, n) THEN "freeze"
               ELSE "simplify"]
  /\ phase' = "colorize"
  /\ UNCHANGED <<graph0, interfere, move, degree, alias, order, mloc, ready,
                 colors, spilled>>

Simplify(n) ==
  /\ phase = "colorize"
  /\ IsFront(n, "simplify")
  /\ LET l  == [loc EXCEPT ![n] = "select_stack"]
         ns == Adjacent(interfere, l, n)
         on == DecrementEnables(interfere, degree, l, ns)
     IN  /\ degree' = Decremented(degree, l, ns)
         /\ mloc' = EnableLoc(move, mloc, on)
         /\ ready' = Enable(ready, move, mloc, on)
         /\ loc' = DecrementLoc(move, mloc, degree, l, ns)
         /\ order' = ToBack(order, <<n>> \o Ascending(Crossing(degree, l, ns)))
  /\ UNCHANGED <<graph0, interfere, move, alias, colors, spilled, phase>>

(* unfreeze(n) can act, under the given moves, degrees and locations. *)
Unfreezes(mv, ml, d, l, n) ==
  l[n] # "precolored" /\ ~MoveRelated(mv, ml, n) /\ d[n] < K

(* coalesce() is called, and mov is the front of moves.ready. *)
Due(mov) ==
  /\ phase = "colorize"
  /\ ready # <<>> /\ mov = Head(ready)[1]
  /\ At("simplify") = {}

Coalesceable(mov) == Due(mov) /\ mloc[mov] # "none"

(* The two ends of a move; a precoloured one comes first if there is one. *)
Ends(mov) ==
  LET x == alias[mov[1]]
      y == alias[mov[2]]
  IN  IF loc[y] = "precolored" THEN <<y, x>> ELSE <<x, y>>

(* relocate(mov, list), then unfreeze for the nodes of ns in turn. *)
RetireMove(mov, list, ns) ==
  LET ml    == [mloc EXCEPT ![mov] = list]
      freed == {n \in Range(ns) : Unfreezes(move, ml, degree, loc, n)}
  IN  /\ mloc' = ml
      /\ ready' = LET left == Unlink(ready, mloc, mov)
                  IN  IF list = "ready" THEN Append(left, Entry(mov)) ELSE left
      /\ loc' = [n \in Node |-> IF n \in freed THEN "simplify" ELSE loc[n]]
      /\ order' = ToBack(order, SelectSeq(ns, LAMBDA n : n \in freed))
      /\ UNCHANGED <<graph0, interfere, move, degree, alias, colors, spilled, phase>>

(* coalesce(): every branch begins with relocate(mov), whose locations.at    *)
(* throws when the front is a stray of a move that has no entry any more.    *)
CoalesceUntracked(mov) ==
  /\ Due(mov)
  /\ mloc[mov] = "none"
  /\ phase' = "throw"
  /\ UNCHANGED <<graph0, interfere, move, degree, alias, loc, order, mloc, ready,
                 colors, spilled>>

(* coalesce(): the ends of the move are one value already. *)
CoalesceSame(mov) ==
  /\ Coalesceable(mov)
  /\ Ends(mov)[1] = Ends(mov)[2]
  /\ RetireMove(mov, "coalesced", <<Ends(mov)[1]>>)

(* coalesce(): the ends interfere, or are two registers. *)
CoalesceConstrained(mov) ==
  LET x == Ends(mov)[1]
      y == Ends(mov)[2]
  IN  /\ Coalesceable(mov)
      /\ x # y
      /\ loc[y] = "precolored" \/ Interferes(x, y)
      /\ RetireMove(mov, "constrained", <<x, y>>)

(* A slip in CoalesceSchedule: the move stays ready. *)
CoalesceKeepsReady(mov) ==
  LET x == Ends(mov)[1]
      y == Ends(mov)[2]
  IN  /\ Coalesceable(mov)
      /\ x # y
      /\ loc[y] # "precolored" /\ ~Interferes(x, y)
      /\ ~Mergable(x, y)
      /\ RetireMove(mov, "ready", <<>>)

(* coalesce(): neither test of mergable passes, the move waits. *)
CoalesceSchedule(mov) ==
  LET x == Ends(mov)[1]
      y == Ends(mov)[2]
  IN  /\ Coalesceable(mov)
      /\ x # y
      /\ loc[y] # "precolored" /\ ~Interferes(x, y)
      /\ ~Mergable(x, y)
      /\ RetireMove(mov, "scheduled", <<>>)

-----------------------------------------------------------------------------
(* The first loop of merge: hand the moves of src over to dest, in the      *)
(* ascending order of a std::set, whose iteration also meets an element     *)
(* that the loop itself inserts further on.  ok turns FALSE when            *)
(* move_locations.at finds no entry.                                        *)

(* replace(old, new): the entry of old becomes one of new in the same list, *)
(* at its end.  When new has an entry that one is not erased.               *)
Replace(st, old, new) ==
  LET left == Unlink(Orphan(st.ready, new), st.mloc, old)
  IN  [st EXCEPT !.mloc[new] = st.mloc[old],
                 !.mloc[old] = "none",
                 !.ready = IF st.mloc[old] = "ready" THEN Append(left, Entry(new)) ELSE left,
                 !.ok = @ /\ st.mloc[old] # "none"]

(* replace(old, nullopt) *)
Drop(st, old) ==
  [st EXCEPT !.mloc[old] = "none",
             !.ready = Unlink(st.ready, st.mloc, old),
             !.ok = @ /\ st.mloc[old] # "none"]

(* A slip in HandOver: the move in the other direction keeps its old entry. *)
HandOverOneWay(st, dest, src, m) ==
  IF m \notin st.move[src] \/ m \in st.move[dest] THEN st
  ELSE LET mv == [st EXCEPT !.move[alias[m]] = (@ \ {src}) \cup ({dest} \ {m})]
       IN  IF m = dest THEN Drop(Drop(mv, <<src, m>>), <<m, src>>)
           ELSE Replace(mv, <<src, m>>, <<dest, m>>)

HandOver(st, dest, src, m) ==
  IF m \notin st.move[src] \/ m \in st.move[dest] THEN st
  ELSE LET mv == [st EXCEPT !.move[alias[m]] = (@ \ {src}) \cup ({dest} \ {m})]
       IN  IF m = dest THEN Drop(Drop(mv, <<src, m>>), <<m, src>>)
           ELSE Replace(Replace(mv, <<src, m>>, <<dest, m>>), <<m, src>>, <<m, dest>>)

HandOverMoves(dest, src, ml, rd) ==
  LET st == FoldLeft(LAMBDA acc, m : HandOver(acc, dest, src, m),
                     [move |-> move, mloc |-> ml, ready |-> rd, ok |-> TRUE],
                     Values)
  IN  [st EXCEPT !.move[dest] = (@ \cup st.move[src]) \ {dest, src}]

(* coalesce(): merge(x, y), then unfreeze(x). *)
CoalesceMerge(mov) ==
  LET dest  == Ends(mov)[1]
      src   == Ends(mov)[2]
      l1    == [loc EXCEPT ![src] = "coalesced"]
      ml1   == [mloc EXCEPT ![mov] = "coalesced"]
      call  == [n \in {src} |-> src]
      st    == HandOverMoves(dest, src, EnableLoc(move, ml1, call),
                             Enable(Unlink(ready, mloc, mov), move, ml1, call))
      e     == Connect(dest, interfere[src])
      d1    == ConnectDegree(dest, interfere[src])
      ns    == {n \in interfere[src] : l1[n] \notin OutOfGraph}
      d2    == Decremented(d1, l1, ns)
      on    == DecrementEnables(e, d1, l1, ns)
      ml2   == EnableLoc(st.move, st.mloc, on)
      l2    == DecrementLoc(st.move, st.mloc, d1, l1, ns)
      spill == d2[dest] >= K /\ l2[dest] = "freeze"
      l3    == IF spill THEN [l2 EXCEPT ![dest] = "to_spill"] ELSE l2
      free  == Unfreezes(st.move, ml2, d2, l3, dest)
  IN  /\ Coalesceable(mov)
      /\ dest # src
      /\ loc[src] # "precolored" /\ ~Interferes(dest, src)
      /\ Mergable(dest, src)
      /\ interfere' = e
      /\ degree' = d2
      /\ move' = st.move
      /\ mloc' = ml2
      /\ ready' = Enable(st.ready, st.move, st.mloc, on)
      /\ loc' = IF free THEN [l3 EXCEPT ![dest] = "simplify"] ELSE l3
      /\ order' = ToBack(order, <<src>> \o Ascending(Crossing(d1, l1, ns))
                                \o (IF spill \/ free THEN <<dest>> ELSE <<>>))
      /\ alias' = [n \in Node |-> IF alias[n] = src THEN dest ELSE alias[n]]
      /\ phase' = IF st.ok THEN phase ELSE "throw"
      /\ UNCHANGED <<graph0, colors, spilled>>

Coalesce(mov) ==
  \/ CoalesceUntracked(mov)
  \/ CoalesceSame(mov)
  \/ CoalesceConstrained(mov)
  \/ CoalesceMerge(mov)
  \/ CoalesceSchedule(mov)

-----------------------------------------------------------------------------
(* Move n to the simplify list, then freeze_moves(n).  It is called when     *)
(* moves.ready is empty, and makes no move ready.                            *)
GiveUpMoves(n) ==
  LET moves == EffectiveMoves(move, mloc, n)
      ml    == [mov \in Node \X Node |-> IF mov \in moves THEN "frozen" ELSE mloc[mov]]
      l     == [loc EXCEPT ![n] = "simplify"]
      srcs  == Ascending({mov[2] : mov \in moves})
      freed == {m \in Node : /\ \E mov \in moves : m = alias[mov[2]]
                             /\ ~MoveRelated(move, ml, m) /\ ~Significant(m)
                             /\ l[m] = "freeze"}
  IN  /\ mloc' = ml
      /\ loc' = [m \in Node |-> IF m \in freed THEN "simplify" ELSE l[m]]
      /\ order' = ToBack(order, <<n>> \o Distinct(SelectSeq(
                   [i \in DOMAIN srcs |-> alias[srcs[i]]], LAMBDA m : m \in freed)))
      /\ UNCHANGED <<graph0, interfere, move, degree, alias, ready, colors, spilled, phase>>

Freeze(n) ==
  /\ phase = "colorize"
  /\ At("simplify") = {} /\ ready = <<>>
  /\ IsFront(n, "freeze")
  /\ GiveUpMoves(n)

Spill(n) ==
  /\ phase = "colorize"
  /\ At("simplify") = {} /\ ready = <<>> /\ At("freeze") = {}
  /\ loc[n] = "to_spill"
  /\ GiveUpMoves(n)

(* The loop of colorize() ends. *)
Select ==
  /\ phase = "colorize"
  /\ At("simplify") = {} /\ ready = <<>> /\ At("freeze") = {} /\ At("to_spill") = {}
  /\ phase' = "assign"
  /\ UNCHANGED <<graph0, interfere, move, degree, alias, loc, order, mloc, ready,
                 colors, spilled>>

-----------------------------------------------------------------------------
OkColors(n) == {c \in Color : \A m \in interfere[n] : colors[alias[m]] # c}

Smallest(S) == {a \in S : \A b \in S : a <= b}
Largest(S) == {a \in S : \A b \in S : a >= b}

(* A slip in BestColors: the partner's colour is taken without asking whether *)
(* it is one of the colours left.                                             *)
BestColorsUnchecked(n) ==
  LET ok    == OkColors(n)
      hints == {m \in move[n] : colors[alias[m]] # NoColor}
  IN  IF hints # {} THEN {c \in Color : \E m \in Largest(hints) : c = colors[alias[m]]}
      ELSE IF ok \cap CallerSaved # {} THEN Smallest(ok \cap CallerSaved)
      ELSE Smallest(ok)

(* A colour of a move partner if one can be had (the last in order), else  *)
(* the first colour of the highest priority.                               *)
BestColors(n) ==
  LET ok    == OkColors(n)
      hints == {m \in move[n] : colors[alias[m]] \in ok}
  IN  IF hints # {} THEN {c \in ok : \E m \in Largest(hints) : c = colors[alias[m]]}
      ELSE IF ok \cap CallerSaved # {} THEN Smallest(ok \cap CallerSaved)
      ELSE Smallest(ok)

(* One turn of the first loop of assign_colors. *)
AssignColor(n) ==
  /\ phase = "assign"
  /\ IsBack(n, "select_stack")
  /\ \/ /\ OkColors(n) = {}
        /\ loc' = [loc EXCEPT ![n] = "spilled"]
        /\ UNCHANGED colors
     \/ \E best \in BestColors(n) :
          /\ colors' = [colors EXCEPT ![n] = best]
          /\ loc' = [loc EXCEPT ![n] = "colored"]
  /\ order' = ToBack(order, <<n>>)
  /\ UNCHANGED <<graph0, interfere, move, degree, alias, mloc, ready, spilled, phase>>

(* A slip in Finish: what was coalesced into a spilled value is not spilled. *)
FinishForgetsCoalesced ==
  /\ phase = "assign"
  /\ At("select_stack") = {}
  /\ colors' = [n \in Node |-> IF loc[n] = "coalesced" THEN colors[alias[n]] ELSE colors[n]]
  /\ spilled' = At("spilled")
  /\ phase' = "done"
  /\ UNCHANGED <<graph0, interfere, move, degree, alias, loc, order, mloc, ready>>

(* A slip in Finish: a coalesced value does not take the colour of its alias. *)
FinishSkipsCoalesced ==
  /\ phase = "assign"
  /\ At("select_stack") = {}
  /\ spilled' = {n \in At("coalesced") : colors[alias[n]] = NoColor} \cup At("spilled")
  /\ phase' = "done"
  /\ UNCHANGED <<graph0, interfere, move, degree, alias, loc, order, mloc, ready, colors>>

(* The second loop of assign_colors and the end of colorize(). *)
Finish ==
  /\ phase = "assign"
  /\ At("select_stack") = {}
  /\ colors' = [n \in Node |-> IF loc[n] = "coalesced" THEN colors[alias[n]] ELSE colors[n]]
  /\ spilled' = {n \in At("coalesced") : colors[alias[n]] = NoColor} \cup At("spilled")
  /\ phase' = "done"
  /\ UNCHANGED <<graph0, interfere, move, degree, alias, loc, order, mloc, ready>>

(* colorize() has returned, or an exception has left it. *)
Returned == phase \in {"done", "throw"} /\ UNCHANGED vars

Next ==
  \/ Initialize
  \/ \E n \in Node : Simplify(n) \/ Freeze(n) \/ Spill(n) \/ AssignColor(n)
  \/ ready # <<>> /\ Coalesce(Head(ready)[1])
  \/ Select
  \/ Finish
  \/ Returned

Spec == Init /\ [][Next]_vars

-----------------------------------------------------------------------------
(* What is left to do.                                                      *)
Active == {mov \in Node \X Node : mloc[mov] \in {"scheduled", "ready"}}
InGraph == {n \in Node : loc[n] \notin OutOfGraph}
Pending == At("freeze") \cup At("to_spill")

Below(S, T) == S \subseteq T /\ S # T

PhaseOrder == [initialize |-> 0, colorize |-> 1, assign |-> 2, done |-> 3, throw |-> 3]

Advances ==
  \/ PhaseOrder[phase] < PhaseOrder[phase']
  \/ /\ phase = "colorize" /\ phase' = "colorize"
     /\ \/ Below(At("coalesced"), At("coalesced")')
        \/ UNCHANGED At("coalesced") /\ Below(Active', Active)
        \/ UNCHANGED <<At("coalesced"), Active>> /\ Below(InGraph', InGraph)
        \/ UNCHANGED <<At("coalesced"), Active, InGraph>> /\ Below(Ready', Ready)
        \/ UNCHANGED <<At("coalesced"), Active, InGraph, Ready>> /\ Below(Pending', Pending)
  \/ phase = "assign" /\ phase' = "assign" /\ Below(At("select_stack")', At("select_stack"))

(* The tables of the allocator hold what their C++ types say. *)
TypeOK ==
  /\ interfere \in [Node -> SUBSET Node]
  /\ move \in [Node -> SUBSET Node]
  /\ degree \in [Node -> Nat]
  /\ alias \in [Node -> Node]
  /\ loc \in [Node -> NodeList]
  /\ mloc \in [Node \X Node -> MoveList \cup {"none"}]
  /\ ready \in Seq((Node \X Node) \X {"entry", "stray"})
  /\ colors \in [Node -> Color \cup {NoColor}]
  /\ spilled \subseteq Node
  /\ phase \in Phase

(* Two values that interfere in the graph the allocator was given never get *)
(* one register, whatever was coalesced into what on the way.               *)
ProperColoring ==
  phase = "done" =>
    \A a \in Node : \A b \in graph0.interfere[a] :
      colors[a] # NoColor => colors[a] # colors[b]

(* When colorize() returns every value has a register or is reported as     *)
(* spilled, none is both, and a register proxy has the register it is for.  *)
Answered ==
  phase = "done" =>
    /\ \A n \in Node : (n \in spilled) <=> (colors[n] = NoColor)
    /\ \A n \in Precolored : colors[n] = Pin[n]

(* merge() loses no interference: the classes of two values that interfered *)
(* in the given graph stay two classes, and their representatives interfere. *)
EdgesKept ==
  \A a \in Node : \A b \in graph0.interfere[a] :
    alias[a] # alias[b] /\ alias[b] \in interfere[alias[a]]

(* A lookup of move_locations.at fails, and the exception ends the compiler, *)
(* only when the front of moves.ready is a stray, in the relocate() at the    *)
(* start of coalesce().  Those of merge() and effective_moves() never fail:   *)
(* every move of a representative has its entry, whatever was merged and      *)
(* whatever entries earlier merges left behind.                               *)
MovesTracked ==
  /\ phase = "throw" => ready # <<>> /\ Head(ready)[2] = "stray"
  /\ \A n \in Node : alias[n] = n => \A m \in move[n] : mloc[<<n, m>>] # "none"

(* A value whose only copy is to or from a register that interferes with all *)
(* its neighbours gets that register: coalesce() takes the move before        *)
(* anything is frozen or spilled, and the George half of mergable() accepts   *)
(* it.  The restore of one callee-saved register relies on it to stay out of  *)
(* those restored before it, which no live range protects any more.           *)
SafeMovesJoined ==
  phase = "done" =>
    \A t \in Node \ Precolored, r \in Precolored :
      (/\ graph0.move[t] = {r}
       /\ r \notin graph0.interfere[t]
       /\ graph0.interfere[t] \subseteq graph0.interfere[r]) => colors[t] = Pin[r]

(* Strays are all that can keep colorize() from its end.  While moves.ready  *)
(* has none, every turn brings the end nearer, in this order: a value is      *)
(* coalesced for good; a move is done with; a node leaves the graph; a move   *)
(* waits for the degree of an end to drop; a node is given up.  A later       *)
(* quantity may grow when an earlier one shrinks: nodes come back from the    *)
(* stack, moves become ready again, the lists of the graph are refilled.      *)
(* The sets are finite, so no run of the loop is infinite without a stray.    *)
(* Once there is a stray, no turn takes the last one out of moves.ready,      *)
(* which has to be empty before anything is frozen, spilled or coloured: the  *)
(* loop throws or runs for ever.                                              *)
TurnsAdvance ==
  [][IF Strayed THEN Strayed' /\ phase' \in {"colorize", "throw"} ELSE Advances]_vars
=============================================================================
