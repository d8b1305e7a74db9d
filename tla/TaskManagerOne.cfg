\* One managing thread, every member function, pushes from anywhere; one worker
\* thread more than the limit, and a spurious wake-up wherever a thread sleeps.
SPECIFICATION FairSpec
CONSTANTS
    Worker = {w1, w2, w3, w4}
    Manager = {m1}
    Task = {t1, t2}
    NoTask = NoTask
    InitLimit = 2
    MaxLimit = 3
    Calls = {"start", "stop", "join", "add_workers", "remove_workers", "push_back", "push_front", "clear"}
    Spurious = {"workers_cv", "manager_cv"}
INVARIANTS Settled
PROPERTIES KeepsPromise CallsReturn TaskServed
