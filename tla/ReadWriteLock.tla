--------------------------- MODULE ReadWriteLock ---------------------------
(***************************************************************************)
(* What a reader/writer lock with an upgradable mode promises: a writer is *)
(* alone, and of the threads that share the lock at most one is undecided, *)
(* that is, may still become the writer.                                   *)
(***************************************************************************)
CONSTANT Thread

VARIABLES readers, undecided, writers   \* the holders, by mode

vars == <<readers, undecided, writers>>

Init == readers = {} /\ undecided = {} /\ writers = {}

EnterRead(t) ==
    /\ writers = {}
    /\ t \notin readers \cup undecided
    /\ readers' = readers \cup {t}
    /\ UNCHANGED <<undecided, writers>>

EnterUndecided(t) ==
    /\ writers = {} /\ undecided = {}
    /\ t \notin readers
    /\ undecided' = {t}
    /\ UNCHANGED <<readers, writers>>

EnterWrite(t) ==
    /\ writers = {} /\ undecided = {} /\ readers = {}
    /\ writers' = {t}
    /\ UNCHANGED <<readers, undecided>>

DecideRead(t) ==
    /\ t \in undecided
    /\ undecided' = {}
    /\ readers' = readers \cup {t}
    /\ UNCHANGED writers

DecideWrite(t) ==
    /\ t \in undecided /\ readers = {}
    /\ undecided' = {}
    /\ writers' = {t}
    /\ UNCHANGED readers

WriteToUndecided(t) ==
    /\ t \in writers
    /\ writers' = {}
    /\ undecided' = {t}
    /\ UNCHANGED readers

WriteToRead(t) ==
    /\ t \in writers
    /\ writers' = {}
    /\ readers' = {t}
    /\ UNCHANGED undecided

Leave(t) ==
    /\ t \in readers \cup undecided \cup writers
    /\ readers' = readers \ {t}
    /\ undecided' = undecided \ {t}
    /\ writers' = writers \ {t}

Next == \E t \in Thread :
    \/ EnterRead(t) \/ EnterUndecided(t) \/ EnterWrite(t)
    \/ DecideRead(t) \/ DecideWrite(t)
    \/ WriteToUndecided(t) \/ WriteToRead(t)
    \/ Leave(t)

Spec == Init /\ [][Next]_vars
=============================================================================
