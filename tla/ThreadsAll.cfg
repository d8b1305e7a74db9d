\* Two threads in all phases of their lives, two that wait for them.
SPECIFICATION FairSpec
CONSTANTS
    Thread = {t1, t2}
    Joiner = {j1, j2}
    Spurious = TRUE
INVARIANTS RegistryExact
PROPERTIES JoinsExact JoinsReturn
