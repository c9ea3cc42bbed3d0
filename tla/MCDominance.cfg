SPECIFICATION Spec
CONSTANT NB = 4
INVARIANTS DominatorsExact NeverLosesDominator IdomImmediate FrontierExact
PROPERTY SweepsAdvance
