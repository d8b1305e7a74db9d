------------------------------ MODULE RWMutex ------------------------------
(***************************************************************************)
(* zi::rwmutex (src/zi/concurrency/detail/rwmutex_impl.hpp): readers, one  *)
(* writer, and one "undecided" reader that may turn into the writer.       *)
(*                                                                         *)
(* Every member function holds mutex_ except inside the wait on a          *)
(* condition variable, so one action is a call up to its return or wait,   *)
(* or a woken thread from there on.  A condition variable is the set of    *)
(* threads blocked in it.  The try_ functions either do what the blocking  *)
(* ones do when they need not wait, or nothing.                            *)
(***************************************************************************)
EXTENDS Integers, FiniteSets

CONSTANTS
    Thread,
    Timed,      \* the modes that are also acquired by the timed_ functions
    Spurious    \* do condition variables wake threads unnotified

ASSUME ThreadAssumption == IsFiniteSet(Thread)
ASSUME SpuriousAssumption == Spurious \in BOOLEAN

VARIABLES
    reader_count,    \* reader_count_: readers and the undecided thread
    has_writer,      \* has_writer_
    writer_waiting,  \* writer_waiting_
    upgratable,      \* upgratable_
    reader_cv,       \* threads blocked in reader_cv_
    writer_cv,       \* threads blocked in writer_cv_
    upgrade_cv,      \* threads blocked in upgrade_cv_
    mode,            \* what each thread holds or waits for
    timed,           \* threads inside a timed_ function
    expired          \* threads whose timed_wait has timed out

flags == <<reader_count, has_writer, writer_waiting, upgratable>>
cvs   == <<reader_cv, writer_cv, upgrade_cv>>
vars  == <<flags, cvs, mode, timed, expired>>

Acquired == {"read", "undecided", "write"}

Mode == {"out", "read", "undecided", "write",       \* holds nothing, holds it
         "wait_read", "wait_undecided", "wait_write",
         "upgrade"}                                 \* in decide_write

Waits(m) == CASE m = "read"      -> "wait_read"
              [] m = "undecided" -> "wait_undecided"
              [] m = "write"     -> "wait_write"

Init ==
    /\ reader_count = 0
    /\ has_writer = FALSE /\ writer_waiting = FALSE /\ upgratable = FALSE
    /\ reader_cv = {} /\ writer_cv = {} /\ upgrade_cv = {}
    /\ mode = [t \in Thread |-> "out"]
    /\ timed = {} /\ expired = {}

-----------------------------------------------------------------------------
(* Notification: notify_one is lost when nobody waits.                     *)

NotifyOneWriter ==
    \/ writer_cv = {} /\ writer_cv' = {}
    \/ \E t \in writer_cv : writer_cv' = writer_cv \ {t}

NotifyAllReaders == reader_cv' = {}

\* How every release ends.  Mutant: the readers are not told.
NotifyBoth_Writers == NotifyOneWriter /\ UNCHANGED reader_cv
NotifyBoth == NotifyOneWriter /\ NotifyAllReaders

-----------------------------------------------------------------------------
(* Acquiring.                                                              *)

\* The conditions that acquire_read, acquire_undecided and acquire_write wait
\* for.  Mutant: a writer looks at has_writer_ only.
MayRead      == ~has_writer /\ ~writer_waiting
MayUndecided == MayRead /\ ~upgratable
MayWrite_PastReaders == ~has_writer
MayWrite     == reader_count = 0 /\ ~has_writer

May(m) == CASE m = "read"      -> MayRead
            [] m = "undecided" -> MayUndecided
            [] m = "write"     -> MayWrite

Enter(t, m) ==
    /\ May(m)
    /\ mode' = [mode EXCEPT ![t] = m]
    /\ reader_count' = IF m = "write" THEN reader_count ELSE reader_count + 1
    /\ upgratable' = (upgratable \/ m = "undecided")
    /\ has_writer' = (has_writer \/ m = "write")
    /\ timed' = timed \ {t}
    /\ UNCHANGED <<writer_waiting, reader_cv, writer_cv, upgrade_cv>>

\* A writer announces itself before it waits.
Wait(t, m) ==
    /\ ~May(m)
    /\ mode' = [mode EXCEPT ![t] = Waits(m)]
    /\ IF m = "write"
         THEN writer_waiting' = TRUE /\ writer_cv' = writer_cv \cup {t}
                                     /\ UNCHANGED reader_cv
         ELSE reader_cv' = reader_cv \cup {t} /\ UNCHANGED <<writer_waiting, writer_cv>>
    /\ UNCHANGED <<reader_count, has_writer, upgratable, upgrade_cv>>

\* acquire_read, acquire_undecided, acquire_write
Acquire(t, m) ==
    /\ mode[t] = "out"
    /\ Enter(t, m) \/ (Wait(t, m) /\ UNCHANGED timed)
    /\ UNCHANGED expired

\* timed_acquire_read, timed_acquire_undecided, timed_acquire_write.  One that
\* need not wait is Acquire.
TimedAcquire(t, m) ==
    /\ m \in Timed
    /\ mode[t] = "out"
    /\ Wait(t, m)
    /\ timed' = timed \cup {t}
    /\ UNCHANGED expired

\* A thread that was woken tests its condition again.
Retry(t, m) ==
    /\ mode[t] = Waits(m)
    /\ t \notin reader_cv \cup writer_cv \cup expired
    /\ Enter(t, m) \/ (Wait(t, m) /\ UNCHANGED timed)
    /\ UNCHANGED expired

\* pthread_cond_timedwait gives up; the thread has still to reacquire mutex_.
Expire(t) ==
    /\ t \in timed
    /\ t \in reader_cv \cup writer_cv
    /\ reader_cv' = reader_cv \ {t}
    /\ writer_cv' = writer_cv \ {t}
    /\ expired' = expired \cup {t}
    /\ UNCHANGED <<flags, upgrade_cv, mode, timed>>

\* After a timeout timed_acquire_read returns false without another look.
GiveUpRead(t) ==
    /\ mode[t] = "wait_read" /\ t \in expired
    /\ mode' = [mode EXCEPT ![t] = "out"]
    /\ timed' = timed \ {t}
    /\ expired' = expired \ {t}
    /\ UNCHANGED <<flags, cvs>>

GiveUpUndecided(t) ==
    /\ mode[t] = "wait_undecided" /\ t \in expired
    /\ expired' = expired \ {t}
    /\ \/ Enter(t, "undecided")
       \/ /\ ~May("undecided")
          /\ mode' = [mode EXCEPT ![t] = "out"]
          /\ timed' = timed \ {t}
          /\ UNCHANGED <<flags, cvs>>

\* A writer that gives up withdraws its announcement and lets another writer
\* renew it; the readers it kept out are not told.
GiveUpWrite(t) ==
    /\ mode[t] = "wait_write" /\ t \in expired
    /\ expired' = expired \ {t}
    /\ \/ Enter(t, "write")
       \/ /\ ~May("write")
          /\ mode' = [mode EXCEPT ![t] = "out"]
          /\ timed' = timed \ {t}
          /\ writer_waiting' = FALSE
          /\ NotifyOneWriter
          /\ UNCHANGED <<reader_count, has_writer, upgratable, reader_cv,
                         upgrade_cv>>

-----------------------------------------------------------------------------
(* Releasing.                                                              *)

NotifyUpgrader ==
    \/ upgrade_cv = {} /\ upgrade_cv' = {}
    \/ \E t \in upgrade_cv : upgrade_cv' = upgrade_cv \ {t}

\* The last reader hands the lock to the thread in decide_write.  Mutants: it
\* leaves has_writer_ to that thread; it does not wake it.
HandOver_Unmarked ==
    upgratable' = FALSE /\ NotifyUpgrader /\ UNCHANGED <<has_writer, writer_waiting>>
HandOver_Silent ==
    upgratable' = FALSE /\ has_writer' = TRUE /\ UNCHANGED <<upgrade_cv, writer_waiting>>
HandOver ==
    /\ upgratable' = FALSE
    /\ has_writer' = TRUE
    /\ NotifyUpgrader
    /\ UNCHANGED writer_waiting

\* release_read
ReleaseRead(t) ==
    /\ mode[t] = "read"
    /\ mode' = [mode EXCEPT ![t] = "out"]
    /\ reader_count' = reader_count - 1
    /\ IF reader_count' = 0
         THEN /\ NotifyBoth
              /\ IF upgratable
                   THEN HandOver
                   ELSE /\ writer_waiting' = FALSE
                        /\ UNCHANGED <<has_writer, upgratable, upgrade_cv>>
         ELSE UNCHANGED <<has_writer, writer_waiting, upgratable, cvs>>
    /\ UNCHANGED <<timed, expired>>

\* release_undecided
ReleaseUndecided(t) ==
    /\ mode[t] = "undecided"
    /\ mode' = [mode EXCEPT ![t] = "out"]
    /\ reader_count' = reader_count - 1
    /\ upgratable' = FALSE
    /\ IF reader_count' = 0
         THEN writer_waiting' = FALSE /\ NotifyBoth
         ELSE UNCHANGED <<writer_waiting, reader_cv, writer_cv>>
    /\ UNCHANGED <<has_writer, upgrade_cv, timed, expired>>

\* release_write
ReleaseWrite(t) ==
    /\ mode[t] = "write"
    /\ mode' = [mode EXCEPT ![t] = "out"]
    /\ has_writer' = FALSE
    /\ writer_waiting' = FALSE
    /\ NotifyBoth
    /\ UNCHANGED <<reader_count, upgratable, upgrade_cv, timed, expired>>

\* decide_read
DecideRead(t) ==
    /\ mode[t] = "undecided"
    /\ mode' = [mode EXCEPT ![t] = "read"]
    /\ upgratable' = FALSE
    /\ writer_waiting' = FALSE
    /\ NotifyBoth
    /\ UNCHANGED <<reader_count, has_writer, upgrade_cv, timed, expired>>

\* write_to_undecided, write_to_read
Downgrade(t, m) ==
    /\ mode[t] = "write"
    /\ mode' = [mode EXCEPT ![t] = m]
    /\ reader_count' = reader_count + 1
    /\ upgratable' = (upgratable \/ m = "undecided")
    /\ has_writer' = FALSE
    /\ writer_waiting' = FALSE
    /\ NotifyBoth
    /\ UNCHANGED <<upgrade_cv, timed, expired>>

\* decide_write and what its thread does whenever it owns mutex_: wait while
\* there are readers, else become the writer.  Its own count is gone first.
Upgrade(t, count) ==
    /\ reader_count' = count
    /\ IF count # 0
         THEN /\ mode' = [mode EXCEPT ![t] = "upgrade"]
              /\ upgrade_cv' = upgrade_cv \cup {t}
              /\ UNCHANGED <<has_writer, upgratable>>
         ELSE /\ mode' = [mode EXCEPT ![t] = "write"]
              /\ upgratable' = FALSE
              /\ has_writer' = TRUE
              /\ UNCHANGED upgrade_cv
    /\ UNCHANGED <<writer_waiting, reader_cv, writer_cv, timed, expired>>

DecideWrite(t) == mode[t] = "undecided" /\ Upgrade(t, reader_count - 1)

RetryUpgrade(t) ==
    /\ mode[t] = "upgrade" /\ t \notin upgrade_cv
    /\ Upgrade(t, reader_count)

\* POSIX allows a wait to return without a notification.
Wake(t) ==
    /\ Spurious
    /\ t \in reader_cv \cup writer_cv \cup upgrade_cv
    /\ reader_cv' = reader_cv \ {t}
    /\ writer_cv' = writer_cv \ {t}
    /\ upgrade_cv' = upgrade_cv \ {t}
    /\ UNCHANGED <<flags, mode, timed, expired>>

-----------------------------------------------------------------------------

\* What users of the lock do of their own accord, beside giving it back.
Request(t) ==
    \/ \E m \in Acquired : Acquire(t, m) \/ TimedAcquire(t, m)
    \/ DecideRead(t)
    \/ DecideWrite(t)
    \/ \E m \in {"read", "undecided"} : Downgrade(t, m)

Release(t) == ReleaseRead(t) \/ ReleaseUndecided(t) \/ ReleaseWrite(t)

\* What a woken thread does next.
Resume(t) ==
    \/ \E m \in Acquired : Retry(t, m)
    \/ GiveUpRead(t) \/ GiveUpUndecided(t) \/ GiveUpWrite(t)
    \/ RetryUpgrade(t)

Next == \E t \in Thread : Request(t) \/ Release(t) \/ Resume(t) \/ Expire(t) \/ Wake(t)

Spec == Init /\ [][Next]_vars

\* Threads that are not blocked run and holders give the lock back; nobody has
\* to ask for it, and a timeout may come late.
FairSpec == Spec /\ \A t \in Thread : WF_vars(Resume(t)) /\ WF_vars(Release(t))

-----------------------------------------------------------------------------
(* Properties.                                                             *)

TypeOK ==
    /\ reader_count \in Nat
    /\ has_writer \in BOOLEAN
    /\ writer_waiting \in BOOLEAN
    /\ upgratable \in BOOLEAN
    /\ mode \in [Thread -> Mode]
    /\ reader_cv \subseteq {t \in Thread : mode[t] \in {"wait_read", "wait_undecided"}}
    /\ writer_cv \subseteq {t \in Thread : mode[t] = "wait_write"}
    /\ upgrade_cv \subseteq {t \in Thread : mode[t] = "upgrade"}
    /\ timed \subseteq {t \in Thread : mode[t] \in {"wait_read", "wait_undecided", "wait_write"}}
    /\ expired \subseteq timed \ (reader_cv \cup writer_cv)

In(m) == {t \in Thread : mode[t] = m}
Sharing == In("read") \cup In("undecided")

\* The flags say who holds the lock.  has_writer_ is also set while the last
\* reader has handed the lock to a thread that is still asleep in decide_write;
\* reader_count_ leaves that thread out from the moment it decides.
FlagsExact ==
    /\ reader_count = Cardinality(Sharing)
    /\ upgratable => In("undecided") # {} \/ In("upgrade") # {}
    /\ In("undecided") # {} => upgratable
    /\ In("upgrade") # {} => (upgratable <=> ~has_writer)
    /\ has_writer <=> In("write") # {} \/ (In("upgrade") # {} /\ ~upgratable)

\* The users of the lock see a reader/writer lock, whatever timeouts, spurious
\* wake-ups and upgrades happen: a writer is alone and at most one is undecided.
Lock == INSTANCE ReadWriteLock WITH
    readers   <- In("read"),
    undecided <- In("undecided") \cup In("upgrade"),
    writers   <- In("write")
ImplementsLock == Lock!Spec

\* When the lock is free nobody sleeps who could take it: all readers are awake,
\* and if a writer sleeps, another writer is awake and will wake it on its release.
FreeLockWakes ==
    reader_count = 0 /\ ~has_writer =>
        /\ ~writer_waiting
        /\ reader_cv = {}
        /\ writer_cv # {} => \E t \in In("wait_write") : t \notin writer_cv

\* A sleeping reader is kept out by a writer in the lock or waiting for it, and
\* only a writer that gives up in timed_acquire_write can end that and leave the
\* reader asleep: its timeout clears writer_waiting_ and wakes no reader.
ReadersHaveAReason ==
    In("wait_read") \cap reader_cv # {} => has_writer \/ writer_waiting
NoReaderForgotten ==
    [][ReadersHaveAReason /\ ~ReadersHaveAReason' =>
          \E t \in Thread : GiveUpWrite(t)]_vars

\* A thread that waits for the lock gets it or gives up, unless for ever new
\* requests overtake it.
EveryWaiterServed ==
    \A t \in Thread :
        \/ (mode[t] \in {"wait_read", "wait_undecided", "wait_write", "upgrade"})
               ~> (mode[t] \in Acquired \cup {"out"})
        \/ []<><<\E u \in Thread : Request(u)>>_vars
=============================================================================
