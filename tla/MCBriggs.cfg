SPECIFICATION MCSpec
CONSTANTS
  N = 6
  K = 2
  Pin <- MCPin
  CallerSaved = {1}
  SizeMod = 16
  MaxMoves = 2
  MaxEdges = 4
INVARIANTS ProperColoring Answered EdgesKept MovesTracked SafeMovesJoined
PROPERTY TurnsAdvance
