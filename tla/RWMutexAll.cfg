\* Every mode, timed or not, and spurious wake-ups.
SPECIFICATION FairSpec
CONSTANTS
    Thread = {t1, t2, t3, t4}
    Timed = {"read", "undecided", "write"}
    Spurious = TRUE
INVARIANTS FlagsExact FreeLockWakes
PROPERTIES ImplementsLock NoReaderForgotten EveryWaiterServed
