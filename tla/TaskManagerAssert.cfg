\* Two managing threads: the assertions at the head of start().
SPECIFICATION Spec
CONSTANTS
    Worker = {w1, w2}
    Manager = {m1, m2}
    Task = {t1}
    NoTask = NoTask
    InitLimit = 2
    MaxLimit = 2
    Calls = {"start", "stop", "remove_workers"}
    Spurious = {}
PROPERTIES StartFindsNoWorkers
