SPECIFICATION MCSpec
CONSTANTS
  NB = 4
  x = x
  zero = 0
  Var <- MCVar
  Value = {0, 1}
  MaxDefs = 2
INVARIANTS UsesAgree SingleAssignment StacksBalanced PhisJoin
