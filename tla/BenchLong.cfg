CONSTANTS
    MaxInt = 524287
    Loops <- Long
    Spike = 0
SPECIFICATION Spec
PROPERTY
    EstimateIsPossible
