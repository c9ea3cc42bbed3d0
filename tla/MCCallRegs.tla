----------------------------- MODULE MCCallRegs -----------------------------
(* CallRegs with the parameter registers of rv64/abi.hpp. *)
EXTENDS CallRegs

CONSTANTS
  MaxSpills,   \* how many parameters the allocator spills
  Overflow     \* whether it may do so in a function with stack parameters

ABIParams == <<10, 11, 12, 13, 14, 15, 16, 17>>

MCInit ==
  \E ts \in BoundedSeq(Types, MaxArgs) :
    \E spilled \in {S \in SUBSET InRegister(ts) : Cardinality(S) <= MaxSpills} :
      /\ spilled # {} /\ ~Overflow => InRegister(ts) = DOMAIN ts
      /\ CallTo(ts, spilled)

MCSpec == MCInit /\ [][Next]_vars
=============================================================================
