SPECIFICATION FairSpec
CONSTANTS
  Var = {v1, v2, v3, v4}
  Const = {k}
  Temp = {t1, t2, t3, t4}
INVARIANTS SourcesSaved ReadyIsSafe
PROPERTIES AssignsInParallel Termination
