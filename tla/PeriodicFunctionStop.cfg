\* A stop during a call of f_ is overwritten.
SPECIFICATION FairSpec
CONSTANTS
    Runner = {r1}
    Stopper = {s1}
    Spurious = FALSE
PROPERTIES StopReturns
