\* Five threads in rounds of three: a slow thread meets three later rounds.
SPECIFICATION FairSpec
CONSTANTS
    Thread = {t1, t2, t3, t4, t5}
    Threshold = 3
    Rounds = 4
    Spurious = TRUE
PROPERTIES ImplementsRendezvous WaitEnds
