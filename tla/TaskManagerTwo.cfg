\* Two managing threads, spurious wake-ups on both condition variables.
SPECIFICATION Spec
CONSTANTS
    Worker = {w1, w2, w3}
    Manager = {m1, m2}
    Task = {t1, t2}
    NoTask = NoTask
    InitLimit = 1
    MaxLimit = 2
    Calls = {"start", "stop", "join", "add_workers", "remove_workers", "push_back", "push_front", "clear"}
    Spurious = {"workers_cv", "manager_cv"}
SYMMETRY Symmetry
INVARIANTS PoolExact TasksKept
PROPERTIES JoinDrains
