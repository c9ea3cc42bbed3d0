------------------------------ MODULE MCBriggs ------------------------------
(* Instances of BriggsAllocator for TLC, in two families of graphs over two *)
(* registers and a few values.                                              *)
(*                                                                          *)
(* The sparse ones have every set of edges, with every set of at most       *)
(* MaxMoves moves and with a move between any two values that are no        *)
(* registers, of which some have no purpose any more when others were       *)
(* coalesced.                                                               *)
(*                                                                          *)
(* The crowded ones have one value more, at most MaxEdges edges besides the *)
(* one of the registers, and a move between any two nodes but the two       *)
(* registers, and the first of them and one of its neighbours in the order. *)
(* They are where merge() leaves strays behind and where relocate() throws. *)
EXTENDS BriggsAllocator

CONSTANTS
  MaxMoves,   \* how many copies the program of a sparse graph has
  MaxEdges    \* how many edges a crowded graph has

(* Every register has its proxy: one between the values, one after them. *)
MCPin == [n \in Node |-> IF n = 2 THEN 0 ELSE IF n = N THEN 1 ELSE NoColor]

Among(S) == Pair \cap (S \X S)
Registers == Among(Precolored)

SparseInit ==
  \E edges \in SUBSET Among(Node \ {1}) :
    \E moves \in {m \in SUBSET Among(Node \ {1}) : Cardinality(m) <= MaxMoves}
                   \cup {Among(Node \ ({1} \cup Precolored))} :
      Constructed(edges, moves)

CrowdedInit ==
  \E edges \in UNION {kSubset(k, Pair \ Registers) : k \in 0 .. MaxEdges} :
    \E unmoved \in {<<1, 2>>, <<2, 3>>} :
      Constructed(edges \cup Registers, Pair \ (Registers \cup {unmoved}))

MCSpec == (SparseInit \/ CrowdedInit) /\ [][Next]_vars
=============================================================================
