------------------------------ MODULE CallRegs ------------------------------
(* How the arguments of one call travel from the caller to the callee:       *)
(* assign_call_regs of lowering/abi.hpp picks the registers, colorize_call   *)
(* of lowering/regalloc/precolorize.hpp moves the arguments into them,       *)
(* translate_call of rv64/isel.hpp stores the others on the stack, and       *)
(* colorize_param and compute_frame say where the callee finds each one.  A  *)
(* parameter that came in a register may be one of those that the register   *)
(* allocator of the callee spilled: its Alloc is a reference from then on.   *)
(*                                                                           *)
(* Argument i has the value i.  A type is "int" for the primitive types that *)
(* is_fp rejects, "float" for those it accepts, and "ref" for a Reference.   *)
EXTENDS Integers, Sequences, FiniteSets, SequencesExt

CONSTANTS
  Types,           \* the types a parameter can have
  MaxArgs,         \* how many parameters a function can have
  GeneralParams,   \* reg.generals.parameters
  FloatParams      \* reg.floats.parameters

(* A class has no register twice, and none is x0 or f0. *)
ASSUME ParamsAssumption ==
  \A regs \in {GeneralParams, FloatParams} :
    /\ regs \in Seq(1 .. 31)
    /\ \A i, j \in DOMAIN regs : regs[i] = regs[j] => i = j

VARIABLES
  types,   \* the signature
  spills,  \* the register parameters that the callee's allocator spilled
  next,    \* the argument whose MOV is due
  args,    \* CallInst::args: 0 for an argument as written, else its register
  file,    \* the contents of the registers, by class and number
  stack,   \* the outgoing argument area, slot by slot
  params,  \* the values of the callee's parameters
  pc       \* who runs

vars == <<types, spills, next, args, file, stack, params, pc>>

NoReg == 0      \* std::nullopt
Garbage == 0    \* what nobody has written

(* reg_of: the register class of a type. *)
Class(type) == IF type = "float" THEN "float" ELSE "general"

Parameters(class) == IF class = "float" THEN FloatParams ELSE GeneralParams

(* The calls of assign that one type leads to: a Reference is not primitive  *)
(* and takes a general register, then falls through to the second test.      *)
Assigns(type) == IF type = "ref" THEN <<"general", "general">> ELSE <<Class(type)>>

(* assign_call_regs *)
AssignCallRegs(ts) ==
  LET classes == FlattenSeq([i \in DOMAIN ts |-> Assigns(ts[i])])
      Earlier(k) == Cardinality({j \in 1 .. k - 1 : classes[j] = classes[k]})
  IN  [k \in DOMAIN classes |->
         IF Earlier(k) < Len(Parameters(classes[k]))
         THEN Parameters(classes[k])[Earlier(k) + 1] ELSE NoReg]

(* The call of a function with the given signature and spilled parameters. *)
CallTo(ts, spilled) ==
  /\ types = ts
  /\ spills = spilled
  /\ next = 1
  /\ args = [i \in DOMAIN ts |-> NoReg]
  /\ file = [c \in {"general", "float"} |-> [r \in 0 .. 31 |-> Garbage]]
  /\ stack = <<>>
  /\ params = [i \in DOMAIN ts |-> Garbage]
  /\ pc = "caller"

InRegister(ts) == {i \in DOMAIN ts : AssignCallRegs(ts)[i] # NoReg}

Init ==
  \E ts \in BoundedSeq(Types, MaxArgs) :
    \E spilled \in SUBSET InRegister(ts) : CallTo(ts, spilled)

(* colorize_call: the MOV of an argument into its register proxy. *)
MoveArg ==
  LET reg == AssignCallRegs(types)[next]
  IN  /\ pc = "caller"
      /\ next \in DOMAIN types
      /\ next' = next + 1
      /\ args' = [args EXCEPT ![next] = reg]
      /\ file' = IF reg = NoReg THEN file
                 ELSE [file EXCEPT ![Class(types[next])][reg] = next]
      /\ UNCHANGED <<types, spills, stack, params, pc>>

(* An argument that was moved is the proxy of a register by now, and has the *)
(* proxy's type and the register's contents.                                 *)
ArgType(i) ==
  IF args[i] = NoReg THEN types[i]
  ELSE IF Class(types[i]) = "float" THEN "float" ELSE "int"

ArgValue(i) == IF args[i] = NoReg THEN i ELSE file[Class(types[i])][args[i]]

(* The slot of argument i when those of S are on the stack, in order. *)
Slot(S, i) == Cardinality({j \in S : j <= i})

(* translate_call: the arguments without a register, in order, and the call. *)
(* The outgoing argument area has a slot for every argument.                 *)
Call ==
  LET regs == AssignCallRegs([i \in DOMAIN types |-> ArgType(i)])
      left == {i \in DOMAIN types : regs[i] = NoReg}
  IN  /\ pc = "caller"
      /\ next \notin DOMAIN types
      /\ stack' = [k \in DOMAIN types |->
                     IF \E i \in left : Slot(left, i) = k
                     THEN ArgValue(CHOOSE i \in left : Slot(left, i) = k) ELSE Garbage]
      /\ pc' = "callee"
      /\ UNCHANGED <<types, spills, next, args, file, params>>

(* A slip in Receive: a parameter has the slot of its number. *)
ReceiveByNumber ==
  LET regs == AssignCallRegs(types)
  IN  /\ pc = "callee"
      /\ params' = [i \in DOMAIN types |-> IF regs[i] # NoReg THEN file[Class(types[i])][regs[i]]
                                           ELSE stack[i]]
      /\ pc' = "body"
      /\ UNCHANGED <<types, spills, next, args, file, stack>>

(* The frame of the callee: compute_frame gives every parameter that is a    *)
(* reference the next slot of the caller's area.  colorize_param moves the   *)
(* others out of their registers, and stores those that were spilled.        *)
Receive ==
  LET regs == AssignCallRegs(types)
      reference == {i \in DOMAIN types : regs[i] = NoReg} \cup spills
      slot(i) == Slot(reference, i)
      incoming(i) == file[Class(types[i])][regs[i]]
      stored == [k \in DOMAIN stack |->
                   IF \E i \in spills : slot(i) = k
                   THEN incoming(CHOOSE i \in spills : slot(i) = k) ELSE stack[k]]
  IN  /\ pc = "callee"
      /\ stack' = stored
      /\ params' = [i \in DOMAIN types |-> IF i \in reference THEN stored[slot(i)] ELSE incoming(i)]
      /\ pc' = "body"
      /\ UNCHANGED <<types, spills, next, args, file>>

Body == pc = "body" /\ UNCHANGED vars

Next == MoveArg \/ Call \/ Receive \/ Body

Spec == Init /\ [][Next]_vars

-----------------------------------------------------------------------------
(* Every parameter of the callee has the value of its argument when the body *)
(* starts: no two arguments share a register, and both sides agree on which  *)
(* arguments are on the stack and in which slot.                             *)
ArgumentsArrive == pc = "body" => \A i \in DOMAIN types : params[i] = i
=============================================================================
