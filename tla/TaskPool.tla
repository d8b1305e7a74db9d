------------------------------ MODULE TaskPool ------------------------------
(***************************************************************************)
(* What a task manager promises to the one thread that manages it, without *)
(* threads, locks and notifications: tasks are queued, then run, at most   *)
(* limit of them at a time; a pool that has been closed runs nothing, and  *)
(* joining it ran everything that was queued.  On a platform that lets the *)
(* thread go before the pool is ready, a pool closed before that may run   *)
(* more than limit, or leave what was queued.  TaskManager implements it.  *)
(***************************************************************************)
EXTENDS Integers, FiniteSets

CONSTANTS
    Task,
    MayHurry  \* whether the platform may do so

VARIABLES
    status,   \* each task is "out", "queued" or "running"
    phase,    \* "idle", "open" or "closing"
    limit,    \* how many tasks may run at a time
    owed,     \* the queued tasks the pool has still to run before it is idle
    unready   \* the managing thread went on before the pool was ready, and it still is not

vars == <<status, phase, limit, owed, unready>>

In(s) == {t \in Task : status[t] = s}
Discarded == [t \in Task |-> IF status[t] = "queued" THEN "out" ELSE status[t]]

Init ==
    /\ status = [t \in Task |-> "out"]
    /\ phase = "idle"
    /\ limit \in Nat \ {0}
    /\ owed = {}
    /\ unready = FALSE

Submit(t) ==
    /\ status[t] = "out"
    /\ status' = [status EXCEPT ![t] = "queued"]
    /\ UNCHANGED <<phase, limit, owed, unready>>

Begin(t) ==
    /\ phase # "idle"
    /\ status[t] = "queued"
    /\ \/ Cardinality(In("running")) < limit
       \/ phase = "closing" /\ unready
    /\ status' = [status EXCEPT ![t] = "running"]
    /\ owed' = owed \ {t}
    /\ UNCHANGED <<phase, limit, unready>>

End(t) ==
    /\ status[t] = "running"
    /\ status' = [status EXCEPT ![t] = "out"]
    /\ UNCHANGED <<phase, limit, owed, unready>>

Discard ==
    /\ status' = Discarded
    /\ owed' = {}
    /\ UNCHANGED <<phase, limit, unready>>

SetLimit ==
    /\ phase # "closing"
    /\ limit' \in Nat
    /\ UNCHANGED <<status, phase, owed, unready>>

Open ==
    /\ phase = "idle"
    /\ phase' = "open"
    /\ UNCHANGED <<status, limit, owed, unready>>

\* Closing either drops the queue or promises to run it.
Close(dropped) ==
    /\ phase = "open"
    /\ phase' = "closing"
    /\ status' = IF dropped THEN Discarded ELSE status
    /\ owed' = IF dropped THEN {} ELSE In("queued")
    /\ UNCHANGED <<limit, unready>>

Closed ==
    /\ phase = "closing"
    /\ In("running") = {} /\ owed = {}
    /\ phase' = "idle"
    /\ UNCHANGED <<status, limit, owed, unready>>

\* A pool that may run nothing, or is not ready yet to run anything, is closed at once,
\* whatever is queued.
CloseUnstaffed(dropped) ==
    /\ phase = "open"
    /\ limit = 0 \/ unready
    /\ In("running") = {}
    /\ phase' = "idle"
    /\ status' = IF dropped THEN Discarded ELSE status
    /\ UNCHANGED <<limit, owed, unready>>

Hurry ==
    /\ MayHurry
    /\ phase = "open" /\ ~unready
    /\ unready' = TRUE
    /\ UNCHANGED <<status, phase, limit, owed>>

GetReady ==
    /\ unready
    /\ unready' = FALSE
    /\ UNCHANGED <<status, phase, limit, owed>>

Next ==
    \/ \E t \in Task : Submit(t) \/ Begin(t) \/ End(t)
    \/ Discard
    \/ SetLimit
    \/ Open
    \/ \E dropped \in BOOLEAN : Close(dropped) \/ CloseUnstaffed(dropped)
    \/ Closed
    \/ Hurry
    \/ GetReady

Spec == Init /\ [][Next]_vars
=============================================================================
