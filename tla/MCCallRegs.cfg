SPECIFICATION MCSpec
CONSTANTS
  Types = {"int", "float"}
  MaxArgs = 10
  MaxSpills = 1
  Overflow = FALSE
  GeneralParams <- ABIParams
  FloatParams <- ABIParams
INVARIANT ArgumentsArrive
