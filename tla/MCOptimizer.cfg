SPECIFICATION Spec
CONSTANTS
    BYTE = 1
    Threshold = 8
    Fuel = 40
    MaxRounds = 12
    MaxTurns = 12
    Corner = "none"
    Programs <- MCPrograms
    Inputs <- MCInputs
INVARIANTS UseDefExact SameBehaviour SsaForm Converges
