\* Four threads that ask a semaphore for one credit at a time, a periodic function with
\* three stoppers, and Test_Event with four threads.
SPECIFICATION MCSpec
CONSTANTS
    Thread = {t1, t2, t3, t4}
    Demand = {1}
    Grant = {1, 2, 3}
    Level = {0, 1}
    InitCredit = 1
    MaxCredit = 4
    Runner = {r1}
    Stopper = {s1, s2, s3}
    Tester = {u1, u2, u3, u4}
    Spurious = TRUE
\* The test ends.
CHECK_DEADLOCK FALSE
INVARIANTS SleepersKnown StateTells
PROPERTIES CreditIsTaken QuietAfterStop StopOfSleeperReturns AllPass
