SPECIFICATION Spec
CONSTANTS
    BYTE = 1
    Fuel = 90
    SrcFuel = 30
    Corner = "while_leaves"
    Units <- MCUnits
    Inputs <- MCInputs
INVARIANT GeneratorTotal
