SPECIFICATION MCSpec
CONSTANTS
  NB = 3
  x = x
  y = y
  a = a
  Var = {x, y, a, s, r, t}
  Proxy = {a, s, r, t}
  Floating = {}
  Memory = {}
  CallerSaved = {a}
  ReturnAddr = r
  Reserved = {t}
  Data = {0, 1}
INVARIANTS LivenessExact NoLeak ReadsAgree
