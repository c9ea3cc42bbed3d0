SPECIFICATION Spec
CONSTANTS
    BYTE = 1
    Fuel = 90
    SrcFuel = 30
    Corner = "none"
    Units <- MCUnits
    Inputs <- MCInputs
INVARIANTS AcceptedRunsWell GeneratorTotal MeansTheSource
