\* Test_TwoEvents: two events, each signalled under the mutex of the other.
SPECIFICATION FairSpec
CONSTANTS
    First = {t1, t2}
    Second = {u1, u2}
    Spurious = FALSE
\* The test ends.
CHECK_DEADLOCK FALSE
PROPERTIES AllPass
