SPECIFICATION Spec
CONSTANTS
    BYTE = 1
    Fuel = 20
    MaxSpills = 1
    Programs <- MCPrograms
    Inputs <- MCInputs
    Abis <- MCAbis
INVARIANTS LoweredBehaviour SpillsSuffice AssignedOnce SitesExact
