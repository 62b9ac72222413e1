CONSTANTS
    MaxDeviations = 3
    MaxItems = 2
    MaxOpen = 1
    MaxQueue = 1
SPECIFICATION Spec
INVARIANTS
    ServedAsAsked
    ReadsAsAsked
    ClientsByNumber
    ReadAsPosted
    ArrivesAsPassed
    
PROPERTY ModemSweptOnRestart
