--------------------------- MODULE ParallelAssign ---------------------------
(* What the phi instructions of a block promise on one incoming edge: all   *)
(* of them read before any of them writes.  The value of a variable is      *)
(* named after the variable that held it when control left the predecessor. *)
CONSTANTS Var, Const

VARIABLES copies,   \* the pairs <<source, destination>> of the edge
          value,    \* the value of every variable
          over      \* whether the edge has been crossed

vars == <<copies, value, over>>

Source(d) == (CHOOSE c \in copies : c[2] = d)[1]

Init ==
  /\ copies \in SUBSET ((Var \cup Const) \X Var)
  /\ \A c, d \in copies : c[2] = d[2] => c = d
  /\ value = [v \in Var |-> v]
  /\ over = FALSE

(* The edge is crossed: every destination takes its source's value at once. *)
Cross ==
  /\ ~over
  /\ over' = TRUE
  /\ value' = [v \in Var |-> IF \E c \in copies : c[2] = v THEN Source(v) ELSE v]
  /\ UNCHANGED copies

Next == Cross

Spec == Init /\ [][Next]_vars
=============================================================================
