--------------------------- MODULE MCConstructSSA ---------------------------
(* Instances of ConstructSSA for TLC: every control-flow graph, a function   *)
(* that writes its variable in at most MaxDefs blocks and reads it in one    *)
(* place, at the end of a block or before the block writes it.               *)
EXTENDS ConstructSSA

CONSTANTS MaxDefs, x, zero

MCVar == {x}

Write == <<[def |-> {x}, uses |-> {}]>>
Read == <<[def |-> {}, uses |-> {x}]>>

(* Neither pass looks at the order of the blocks: it is enough to number     *)
(* them so that each has a predecessor before it.  The two values are        *)
(* interchangeable: it is enough to start with one.                          *)
MCInit ==
  \E graph \in [Block -> Targets], r \in Block, early \in BOOLEAN,
     defs \in {D \in SUBSET Block : Cardinality(D) <= MaxDefs} :
    /\ \A b \in Block \ {Entry} : \E p \in 1 .. b - 1 : b \in graph[p]
    /\ early => r \in defs
    /\ Construct(graph,
         [b \in Block |-> (IF b = r /\ early THEN Read ELSE <<>>) \o
                          (IF b \in defs THEN Write ELSE <<>>)],
         [b \in Block |-> IF b = r /\ ~early THEN {x} ELSE {}])
    /\ env = [v \in Var |-> zero]

MCSpec == MCInit /\ [][Next]_vars
=============================================================================
