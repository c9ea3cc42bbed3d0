----------------------------- MODULE MCBackEnd -----------------------------
(* Small programs in SSA form for BackEnd, as the optimiser leaves them:     *)
(* copies are propagated, so that the phis of one block read each other.     *)
EXTENDS BackEnd, SmallPrograms

MCInputs == {<<0, 3>>, <<1, 2>>, <<2, 5>>}

\* The registers zero, ra and a0 (2); then t1 (3), then s0 (4).
Abi(size, caller, callee) ==
    [size |-> size, caller_saved |-> caller, callee_saved |-> callee, reserved |-> {0},
     parameters |-> <<2>>, return_value |-> 2, return_addr |-> 1]
MCAbis == {Abi(3, {2}, {1}), Abi(4, {2, 3}, {1}), Abi(5, {2, 3}, {1, 4})}

\* Two variables of a loop change places, or one follows the other.
Swap(u, w) ==
    Main(<<Blk(<<Read(T(0)), Read(T(1))>>, Jump(2)),
           Blk(<<Phi(T(2), <<1, 2>>, <<TV(0), u>>), Phi(T(3), <<1, 2>>, <<TV(1), w>>),
                 Phi(T(4), <<1, 2>>, <<Num(0), TV(5)>>),
                 Op("ADD", T(5), TV(4), Num(1)), Op("LT", T(6), TV(5), Num(2))>>,
               Branch(TV(6), 2, 3)),
           Blk(<<Op("SUB", T(7), TV(2), TV(3))>>, Return(TV(7)))>>)
Swaps == {Swap(u, w) : u \in {TV(3)}, w \in {TV(2), TV(5)}}

\* The value of a phi is used after the loop that changes it: the copy of the
\* next value must not be made on the way out.
LostCopy ==
    Main(<<Blk(<<Read(T(0))>>, Jump(2)),
           Blk(<<Phi(T(1), <<1, 2>>, <<TV(0), TV(2)>>), Op("ADD", T(2), TV(1), Num(1)),
                 Op("LT", T(3), TV(2), Num(3))>>, Branch(TV(3), 2, 3)),
           Blk(<<>>, Return(TV(1)))>>)

\* if (a < 2) x = 1; with the branch as one of the predecessors of the join.
Half(o) ==
    Main(<<Blk(<<Read(T(0)), Op("LT", T(1), TV(0), Num(2))>>, Branch(TV(1), 2, 3)),
           Blk(<<Op("ADD", X(1), TV(0), o)>>, Jump(3)),
           Blk(<<Phi(X(2), <<1, 2>>, <<TV(0), V(X(1))>>)>>, Return(V(X(2))))>>)

\* A value that is needed after two calls.
Across ==
    Main(<<Blk(<<Read(T(0)), Read(T(1)), Write(TV(1)), Op("SUB", T(2), TV(0), TV(1))>>,
               Return(TV(2)))>>)

\* Values that stay live across the call in a loop, and a block nobody reaches.
LoopCall ==
    Main(<<Blk(<<Read(T(0)), Read(T(1))>>, Jump(2)),
           Blk(<<Phi(T(2), <<1, 3>>, <<Num(0), TV(4)>>), Op("LT", T(3), TV(2), TV(0))>>,
               Branch(TV(3), 3, 4)),
           Blk(<<Write(TV(2)), Op("ADD", T(4), TV(2), Num(1))>>, Jump(2)),
           Blk(<<Phi(X(1), <<2, 5>>, <<TV(1), Num(9)>>)>>, Return(V(X(1)))),
           Blk(<<>>, Jump(4))>>)

\* A global variable and a global constant, both in memory from RegToMem on.
H == NamedValue(A("h"))
Globals ==
    [Main(<<Blk(<<Read(H), Op("ADD", T(0), V(H), V(NamedValue(A("k"))))>>, Return(TV(0)))>>) EXCEPT
        !.globals = @ \cup {A("h")}, !.init = (A("h") :> <<0>>) @@ (A("k") :> <<2>>)]

MCPrograms == Swaps \cup {LostCopy, Half(Num(1)), Across, LoopCall, Globals}
=============================================================================
