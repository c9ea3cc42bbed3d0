--------------------------- MODULE MCInterference ---------------------------
(* Instances of Interference for TLC.  For the analysis: every control-flow  *)
(* graph, a phi, at most one other instruction in a block and one exit that  *)
(* reads.  For the registers: functions without phis, on a half diamond and  *)
(* on a loop, whose values cross calls.                                      *)
EXTENDS Interference

CONSTANTS x, y, a

AtMostOne == {{}, {x}}

Ordinary == [def : AtMostOne, uses : AtMostOne, from : {{}}]

Phi(preds) == [def : AtMostOne, uses : {{}}, from : SUBSET (preds \X {x}) \ {{}}]

Bodies(insts) == {<<>>} \cup {<<i>> : i \in insts \ [def : {{}}, uses : {{}}, from : {{}}]}

WithPhi ==
  \E succ \in [Block -> Targets], plain \in [Block -> Bodies(Ordinary)],
     p \in Block, r \in Block, use \in AtMostOne :
    (* a jump reads nothing *)
    /\ Cardinality(succ[r]) = 1 => use = {}
    /\ \E phi \in Phi({b \in Block : p \in succ[b]}) :
         Prepare([plain EXCEPT ![p] = <<phi>>], [b \in Block |-> IF b = r THEN use ELSE {}],
                 succ, {})

-----------------------------------------------------------------------------
Inst1(defs, reads) == [def |-> defs, uses |-> reads, from |-> {}]

Take == Inst1({x}, {a})       \* of the parameter, or of the result of a call
Copy == Inst1({y}, {x})
Mix  == Inst1({x}, {x, y})
Call == Inst1({a}, {a})
Run  == Inst1({}, {})         \* a call without arguments and result
Step == Inst1({x}, {x})

CallsIn(insts) ==
  {p \in Block \X (1 .. 2) : p[2] \in DOMAIN insts[p[1]] /\ insts[p[1]][p[2]] \in {Call, Run}}

Graphs == {<<{2}, {2, 3}, {}>>, <<{2, 3}, {3}, {}>>}

AcrossCalls ==
  \E succ \in Graphs, first \in {<<Take>>, <<Take, Copy>>},
     middle \in {<<Call>>, <<Run, Step>>}, last \in {<<>>, <<Mix>>}, use \in {{x}, {a}} :
    LET insts == <<first, middle, last>>
    IN  Prepare(insts,
                [b \in Block |-> IF succ[b] = {} THEN use
                                 ELSE IF Cardinality(succ[b]) = 2 THEN {x} ELSE {}],
                succ, CallsIn(insts))

MCInit == WithPhi \/ AcrossCalls

MCSpec == MCInit /\ [][AllocNext]_allVars
=============================================================================
