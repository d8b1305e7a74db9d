--------------------------- MODULE RWMutex_proofs ---------------------------
(***************************************************************************)
(* What holds of RWMutex for any number of threads, with or without        *)
(* timeouts and spurious wake-ups: its flags are exact and it implements   *)
(* ReadWriteLock, so a writer is alone.                                    *)
(***************************************************************************)
EXTENDS RWMutex, FiniteSetTheorems, TLAPS

\* Only one thread at a time is the writer or may become it without acquiring, and
\* nobody shares the lock once has_writer_ is set; a thread in decide_write that has
\* not been granted the lock yet has a reader before it.  Without this FlagsExact
\* is not inductive: it is what makes the last reader's hand-over reach the right
\* thread, and what keeps a writer out until then.
Exclusive ==
    /\ \A t, u \in Thread :
          mode[t] \in {"undecided", "upgrade", "write"}
          /\ mode[u] \in {"undecided", "upgrade", "write"} => t = u
    /\ has_writer => \A t \in Thread : mode[t] \notin {"read", "undecided"}
    /\ ~has_writer /\ (\E t \in Thread : mode[t] = "upgrade") =>
          \E t \in Thread : mode[t] = "read"

RInv == TypeOK /\ FlagsExact /\ Exclusive

-----------------------------------------------------------------------------
(* Counting the threads that share the lock.                               *)

\* What a mode contributes to reader_count_.
Share(m) == IF m \in {"read", "undecided"} THEN 1 ELSE 0

\* A thread that changes its mode changes the number of sharers by its own share.
LEMMA SharingMove ==
    ASSUME mode \in [Thread -> Mode], NEW t \in Thread, NEW m \in Mode,
           mode' = [mode EXCEPT ![t] = m]
    PROVE  /\ Cardinality(Sharing) \in Nat
           /\ Cardinality(Sharing') = Cardinality(Sharing) - Share(mode[t]) + Share(m)
<1>1. IsFiniteSet(Sharing)
  BY ThreadAssumption, FS_Subset DEF Sharing, In
<1>2. /\ Cardinality(Sharing) \in Nat
      /\ t \in Sharing => Cardinality(Sharing \ {t}) = Cardinality(Sharing) - 1
      /\ t \notin Sharing => Cardinality(Sharing \cup {t}) = Cardinality(Sharing) + 1
  BY <1>1, FS_CardinalityType, FS_RemoveElement, FS_AddElement
<1>3. /\ m \in {"read", "undecided"} => Sharing' = Sharing \cup {t} /\ Share(m) = 1
      /\ m \notin {"read", "undecided"} => Sharing' = Sharing \ {t} /\ Share(m) = 0
      /\ t \in Sharing => Share(mode[t]) = 1
      /\ t \notin Sharing => Share(mode[t]) = 0
  BY DEF Sharing, In, Share
<1> HIDE DEF Sharing
<1>4. \/ Sharing' = Sharing /\ Share(mode[t]) = Share(m) /\ Share(m) \in {0, 1}
      \/ /\ Cardinality(Sharing') = Cardinality(Sharing) + 1
         /\ Share(mode[t]) = 0 /\ Share(m) = 1
      \/ /\ Cardinality(Sharing') = Cardinality(Sharing) - 1
         /\ Share(mode[t]) = 1 /\ Share(m) = 0
  <2>1. CASE t \in Sharing /\ m \in {"read", "undecided"}
    <3>1. Sharing' = Sharing
      BY <1>3, <2>1
    <3>2. QED BY <1>3, <2>1, <3>1
  <2>2. CASE t \notin Sharing /\ m \notin {"read", "undecided"}
    <3>1. Sharing' = Sharing
      BY <1>3, <2>2
    <3>2. QED BY <1>3, <2>2, <3>1
  <2>3. CASE t \notin Sharing /\ m \in {"read", "undecided"}
    BY <1>2, <1>3, <2>3
  <2>4. CASE t \in Sharing /\ m \notin {"read", "undecided"}
    BY <1>2, <1>3, <2>4
  <2>5. QED BY <2>1, <2>2, <2>3, <2>4
<1>5. CASE Sharing' = Sharing /\ Share(mode[t]) = Share(m) /\ Share(m) \in {0, 1}
  <2>1. Cardinality(Sharing') = Cardinality(Sharing)
    BY <1>5
  <2>2. QED BY <1>2, <1>5, <2>1
<1>6. QED BY <1>2, <1>4, <1>5

\* reader_count_ is zero exactly when nobody shares the lock.
LEMMA CountZero ==
    ASSUME FlagsExact
    PROVE  /\ reader_count = 0 <=> \A t \in Thread : mode[t] \notin {"read", "undecided"}
           /\ reader_count = Cardinality(Sharing)
<1>1. IsFiniteSet(Sharing)
  BY ThreadAssumption, FS_Subset DEF Sharing, In
<1>2. reader_count = 0 <=> Sharing = {}
  BY <1>1, FS_EmptySet DEF FlagsExact
<1>3. QED BY <1>2 DEF FlagsExact, Sharing, In

-----------------------------------------------------------------------------
(* FlagsExact and Exclusive, restated thread by thread.                    *)

Flags ==
    /\ upgratable => \E t \in Thread : mode[t] \in {"undecided", "upgrade"}
    /\ \A t \in Thread : mode[t] = "undecided" => upgratable
    /\ \A t \in Thread : mode[t] = "upgrade" => (upgratable <=> ~has_writer)
    /\ has_writer <=> \E t \in Thread :
                        mode[t] = "write" \/ (mode[t] = "upgrade" /\ ~upgratable)

LEMMA FlagsByThread == FlagsExact <=> reader_count = Cardinality(Sharing) /\ Flags
BY DEF FlagsExact, Flags, In

\* What a step has to show, given that it moves one thread from a mode to a mode.
LEMMA Moves ==
    ASSUME RInv, NEW t \in Thread, NEW m \in Mode, mode' = [mode EXCEPT ![t] = m],
           TypeOK', Flags', Exclusive',
           reader_count' = reader_count - Share(mode[t]) + Share(m)
    PROVE  RInv'
<1>1. reader_count' = Cardinality(Sharing')
  <2>1. mode \in [Thread -> Mode] /\ reader_count = Cardinality(Sharing)
    BY DEF RInv, TypeOK, FlagsExact
  <2>2. QED BY <2>1, SharingMove
<1>2. FlagsExact'
  BY <1>1 DEF FlagsExact, Flags, In
<1>3. QED BY <1>2 DEF RInv

-----------------------------------------------------------------------------
(* The steps.                                                              *)

LEMMA RInit == Init => RInv
<1> SUFFICES ASSUME Init PROVE RInv
  OBVIOUS
<1>1. TypeOK /\ Exclusive
  BY DEF Init, TypeOK, Exclusive, Mode
<1>2. Sharing = {}
  BY DEF Init, Sharing, In
<1>3. QED BY <1>1, <1>2, FS_EmptySet DEF Init, RInv, FlagsExact, In

\* Facts about a state that every step starts from.
LEMMA RFacts ==
    ASSUME RInv
    PROVE  /\ mode \in [Thread -> Mode] /\ reader_count \in Nat
           /\ Flags /\ Exclusive /\ TypeOK
           /\ reader_count = 0 <=> \A t \in Thread : mode[t] \notin {"read", "undecided"}
BY CountZero, FlagsByThread DEF RInv, TypeOK

LEMMA REnter ==
    ASSUME RInv, NEW t \in Thread, NEW m \in Acquired,
           mode[t] \in {"out", "wait_read", "wait_undecided", "wait_write"},
           t \notin reader_cv \cup writer_cv,
           Enter(t, m), expired' = expired \ {t}
    PROVE  RInv'
<1>0. /\ mode \in [Thread -> Mode] /\ reader_count \in Nat
      /\ Flags /\ Exclusive /\ TypeOK
      /\ reader_count = 0 <=> \A u \in Thread : mode[u] \notin {"read", "undecided"}
  BY RFacts
<1>1. /\ m \in Mode /\ mode' = [mode EXCEPT ![t] = m]
      /\ \A u \in Thread : mode'[u] = IF u = t THEN m ELSE mode[u]
  BY <1>0 DEF Enter, Acquired, Mode
<1>2. TypeOK'
  BY <1>0, <1>1 DEF Enter, TypeOK, Acquired
<1>a. /\ Share(mode[t]) = 0
      /\ Share("read") = 1 /\ Share("undecided") = 1 /\ Share("write") = 0
  BY DEF Share
<1>3. CASE m = "read"
  <2>1. ~has_writer /\ ~writer_waiting /\ UNCHANGED <<has_writer, upgratable>>
    BY <1>0, <1>3 DEF Enter, May, MayRead, TypeOK
  <2>2. Flags' /\ Exclusive'
    BY <1>0, <1>1, <1>3, <2>1 DEF Flags, Exclusive
  <2>3. reader_count' = reader_count - Share(mode[t]) + Share(m)
    BY <1>0, <1>3, <1>a DEF Enter
  <2>4. QED BY <1>1, <1>2, <2>2, <2>3, Moves
<1>4. CASE m = "undecided"
  <2>1. ~has_writer /\ ~upgratable /\ upgratable' = TRUE /\ UNCHANGED has_writer
    BY <1>0, <1>4 DEF Enter, May, MayRead, MayUndecided, TypeOK
  <2>2. Flags' /\ Exclusive'
    BY <1>0, <1>1, <1>4, <2>1 DEF Flags, Exclusive
  <2>3. reader_count' = reader_count - Share(mode[t]) + Share(m)
    BY <1>0, <1>4, <1>a DEF Enter
  <2>4. QED BY <1>1, <1>2, <2>2, <2>3, Moves
<1>5. CASE m = "write"
  <2>1. ~has_writer /\ has_writer' = TRUE /\ reader_count = 0 /\ upgratable' = upgratable
    BY <1>0, <1>5 DEF Enter, May, MayWrite, TypeOK
  <2>2. \A u \in Thread : mode[u] \notin {"read", "undecided", "write", "upgrade"}
    BY <1>0, <2>1 DEF Flags, Exclusive
  <2>3. ~upgratable
    BY <1>0, <2>2 DEF Flags
  <2>4. Flags' /\ Exclusive'
    BY <1>0, <1>1, <1>5, <2>1, <2>2, <2>3 DEF Flags, Exclusive
  <2>5. reader_count' = reader_count - Share(mode[t]) + Share(m)
    BY <1>0, <1>5, <1>a DEF Enter
  <2>6. QED BY <1>1, <1>2, <2>4, <2>5, Moves
<1>6. QED BY <1>3, <1>4, <1>5 DEF Acquired

Outside == {"out", "wait_read", "wait_undecided", "wait_write"}

\* Waiting for the lock, and giving up, changes nothing but who waits.
LEMMA RStill ==
    ASSUME RInv, NEW t \in Thread, NEW m \in Outside, mode[t] \in Outside,
           mode' = [mode EXCEPT ![t] = m], TypeOK',
           UNCHANGED <<reader_count, has_writer, upgratable>>
    PROVE  RInv'
<1>0. mode \in [Thread -> Mode] /\ reader_count \in Nat /\ Flags /\ Exclusive
  BY RFacts
<1>1. m \in Mode /\ Share(mode[t]) = 0 /\ Share(m) = 0
  BY DEF Outside, Mode, Share
<1>2. \A u \in Thread : mode'[u] = IF u = t THEN m ELSE mode[u]
  BY <1>0
<1>3. Flags'
  BY <1>0, <1>2 DEF Flags, Outside
<1>4. Exclusive'
  BY <1>0, <1>2 DEF Exclusive, Outside
<1>5. reader_count' = reader_count - Share(mode[t]) + Share(m)
  BY <1>0, <1>1
<1>6. QED BY <1>1, <1>3, <1>4, <1>5, Moves

\* A step that moves no thread.
LEMMA RQuiet ==
    ASSUME RInv, TypeOK', UNCHANGED <<reader_count, has_writer, upgratable, mode>>
    PROVE  RInv'
BY DEF RInv, FlagsExact, Exclusive, Sharing, In

LEMMA RWait ==
    ASSUME RInv, NEW t \in Thread, NEW m \in Acquired,
           mode[t] \in {"out", Waits(m)}, t \notin expired,
           Wait(t, m), timed' \in {timed, timed \cup {t}}, expired' = expired
    PROVE  RInv'
<1>0. mode \in [Thread -> Mode] /\ TypeOK
  BY RFacts
<1>1. Waits(m) \in {"wait_read", "wait_undecided", "wait_write"} /\ mode[t] \in Outside
  BY DEF Waits, Acquired, Outside
<1>2. mode' = [mode EXCEPT ![t] = Waits(m)]
  BY DEF Wait
<1>3. CASE m = "write"
  <2>1. TypeOK'
    BY <1>0, <1>2, <1>3 DEF Wait, Waits, TypeOK, Mode
  <2>2. QED BY <1>1, <1>2, <2>1, RStill DEF Wait, Outside
<1>4. CASE m = "read"
  <2>1. TypeOK'
    BY <1>0, <1>2, <1>4 DEF Wait, Waits, TypeOK, Mode
  <2>2. QED BY <1>1, <1>2, <2>1, RStill DEF Wait, Outside
<1>5. CASE m = "undecided"
  <2>1. TypeOK'
    BY <1>0, <1>2, <1>5 DEF Wait, Waits, TypeOK, Mode
  <2>2. QED BY <1>1, <1>2, <2>1, RStill DEF Wait, Outside
<1>6. QED BY <1>3, <1>4, <1>5 DEF Acquired

LEMMA RAcquire ==
    ASSUME RInv, NEW t \in Thread, NEW m \in Acquired,
           Acquire(t, m) \/ TimedAcquire(t, m) \/ Retry(t, m)
    PROVE  RInv'
<1>0. TypeOK
  BY RFacts
<1>1. /\ mode[t] \in {"out", Waits(m)} /\ mode[t] \in Outside
      /\ t \notin reader_cv \cup writer_cv /\ t \notin expired
  BY <1>0 DEF Acquire, TimedAcquire, Retry, TypeOK, Waits, Acquired, Outside
<1>2. CASE Enter(t, m) /\ UNCHANGED expired
  <2>1. expired' = expired \ {t}
    BY <1>1, <1>2
  <2>2. QED BY <1>1, <1>2, <2>1, REnter DEF Outside
<1>3. CASE Wait(t, m) /\ timed' \in {timed, timed \cup {t}} /\ UNCHANGED expired
  BY <1>1, <1>3, RWait
<1>4. QED BY <1>2, <1>3 DEF Acquire, TimedAcquire, Retry

LEMMA RExpireWake ==
    ASSUME RInv, NEW t \in Thread, Expire(t) \/ Wake(t)
    PROVE  RInv'
<1>0. TypeOK
  BY RFacts
<1>1. TypeOK'
  BY <1>0 DEF Expire, Wake, flags, TypeOK
<1>2. UNCHANGED <<reader_count, has_writer, upgratable, mode>>
  BY DEF Expire, Wake, flags
<1>3. QED BY <1>1, <1>2, RQuiet

LEMMA RGiveUp ==
    ASSUME RInv, NEW t \in Thread,
           GiveUpRead(t) \/ GiveUpUndecided(t) \/ GiveUpWrite(t)
    PROVE  RInv'
<1>0. TypeOK /\ mode \in [Thread -> Mode]
  BY RFacts
<1>1. mode[t] \in Outside /\ t \in expired /\ t \notin reader_cv \cup writer_cv
  BY <1>0 DEF GiveUpRead, GiveUpUndecided, GiveUpWrite, Outside, TypeOK
<1>2. CASE \E m \in Acquired : Enter(t, m) /\ expired' = expired \ {t}
  BY <1>1, <1>2, REnter DEF Outside
<1>3. CASE /\ mode' = [mode EXCEPT ![t] = "out"]
           /\ timed' = timed \ {t} /\ expired' = expired \ {t}
           /\ UNCHANGED <<flags, cvs>>
  <2>1. TypeOK'
    BY <1>0, <1>1, <1>3 DEF TypeOK, flags, cvs, Mode
  <2>2. QED BY <1>1, <1>3, <2>1, RStill DEF Outside, flags
<1>4. CASE /\ mode' = [mode EXCEPT ![t] = "out"]
           /\ timed' = timed \ {t} /\ expired' = expired \ {t}
           /\ writer_waiting' = FALSE /\ NotifyOneWriter
           /\ UNCHANGED <<reader_count, has_writer, upgratable, reader_cv, upgrade_cv>>
  <2>1. writer_cv' \subseteq writer_cv
    BY <1>4 DEF NotifyOneWriter
  <2>2. TypeOK'
    BY <1>0, <1>1, <1>4, <2>1 DEF TypeOK, Mode
  <2>3. QED BY <1>1, <1>4, <2>2, RStill DEF Outside
<1>5. QED
  BY <1>2, <1>3, <1>4 DEF GiveUpRead, GiveUpUndecided, GiveUpWrite, Acquired

\* Notification only takes threads out of the condition variables.
LEMMA Notified ==
    /\ NotifyBoth => writer_cv' \subseteq writer_cv /\ reader_cv' \subseteq reader_cv
    /\ NotifyUpgrader => upgrade_cv' \subseteq upgrade_cv
BY DEF NotifyBoth, NotifyOneWriter, NotifyAllReaders, NotifyUpgrader

\* Typing of a step by a thread that is not asleep.
LEMMA RTyped ==
    ASSUME TypeOK, NEW t \in Thread, NEW m \in Mode,
           mode[t] \in {"read", "undecided", "write"},
           mode' = [mode EXCEPT ![t] = m],
           reader_count' \in Nat, has_writer' \in BOOLEAN,
           writer_waiting' \in BOOLEAN, upgratable' \in BOOLEAN,
           reader_cv' \subseteq reader_cv, writer_cv' \subseteq writer_cv,
           upgrade_cv' \subseteq upgrade_cv, UNCHANGED <<timed, expired>>
    PROVE  TypeOK'
BY DEF TypeOK

LEMMA RReleaseRead ==
    ASSUME RInv, NEW t \in Thread, ReleaseRead(t)
    PROVE  RInv'
<1>0. /\ mode \in [Thread -> Mode] /\ reader_count \in Nat
      /\ Flags /\ Exclusive /\ TypeOK
      /\ reader_count = 0 <=> \A u \in Thread : mode[u] \notin {"read", "undecided"}
  BY RFacts
<1>1. /\ mode[t] = "read" /\ "out" \in Mode
      /\ mode' = [mode EXCEPT ![t] = "out"]
      /\ \A u \in Thread : mode'[u] = IF u = t THEN "out" ELSE mode[u]
      /\ reader_count' = reader_count - 1 /\ UNCHANGED <<timed, expired>>
  BY <1>0 DEF ReleaseRead, Mode
<1>2. ~has_writer /\ reader_count # 0 /\ reader_count' \in Nat
  <2>1. ~has_writer /\ reader_count # 0
    BY <1>0, <1>1 DEF Exclusive
  <2>2. QED BY <2>1, <1>0, <1>1
<1>3. reader_count' = reader_count - Share(mode[t]) + Share("out")
  <2>1. Share(mode[t]) = 1 /\ Share("out") = 0
    BY <1>1 DEF Share
  <2>2. QED BY <1>0, <1>1, <2>1
<1>4. (reader_count' = 0) <=> \A u \in Thread : mode'[u] \notin {"read", "undecided"}
  <2>1. /\ Cardinality(Sharing') = Cardinality(Sharing) - Share(mode[t]) + Share("out")
        /\ Cardinality(Sharing) = reader_count
    BY <1>0, <1>1, SharingMove DEF RInv, FlagsExact
  <2>2. reader_count' = Cardinality(Sharing')
    BY <1>3, <2>1
  <2>3. IsFiniteSet(Sharing')
    BY ThreadAssumption, FS_Subset DEF Sharing, In
  <2>4. reader_count' = 0 <=> Sharing' = {}
    BY <2>2, <2>3, FS_EmptySet
  <2>5. QED BY <2>4 DEF Sharing, In
<1>5. CASE reader_count' # 0
  <2>1. UNCHANGED <<has_writer, writer_waiting, upgratable, cvs>>
    BY <1>5 DEF ReleaseRead
  <2>2. TypeOK'
    BY <1>0, <1>1, <1>2, <2>1, RTyped DEF TypeOK, cvs
  <2>3. Flags'
    BY <1>0, <1>1, <2>1 DEF Flags
  <2>4. ~has_writer' /\ \E u \in Thread : mode'[u] \in {"read", "undecided"}
    BY <1>2, <1>4, <1>5, <2>1
  <2>5. Exclusive'
    BY <1>0, <1>1, <2>1, <2>4 DEF Exclusive
  <2>6. QED BY <1>1, <1>3, <2>2, <2>3, <2>5, Moves
<1>6. CASE reader_count' = 0 /\ upgratable
  <2>1. /\ upgratable' = FALSE /\ has_writer' = TRUE /\ UNCHANGED writer_waiting
        /\ NotifyBoth /\ NotifyUpgrader
    BY <1>6 DEF ReleaseRead, HandOver
  <2>2. TypeOK'
    BY <1>0, <1>1, <1>2, <2>1, Notified, RTyped DEF TypeOK
  <2>3. \E u \in Thread : mode[u] = "upgrade" /\ mode'[u] = "upgrade"
    BY <1>0, <1>1, <1>4, <1>6 DEF Flags
  <2>4. Flags'
    BY <1>0, <1>1, <1>4, <1>6, <2>1, <2>3 DEF Flags
  <2>5. Exclusive'
    BY <1>0, <1>1, <1>4, <1>6, <2>1 DEF Exclusive
  <2>6. QED BY <1>1, <1>3, <2>2, <2>4, <2>5, Moves
<1>7. CASE reader_count' = 0 /\ ~upgratable
  <2>1. /\ UNCHANGED <<upgratable, has_writer, upgrade_cv>> /\ writer_waiting' = FALSE
        /\ NotifyBoth
    BY <1>7 DEF ReleaseRead
  <2>2. TypeOK'
    BY <1>0, <1>1, <1>2, <2>1, Notified, RTyped DEF TypeOK
  <2>3. Flags'
    BY <1>0, <1>1, <2>1 DEF Flags
  <2>4. \A u \in Thread : mode[u] # "upgrade"
    BY <1>0, <1>2, <1>7 DEF Flags
  <2>5. Exclusive'
    BY <1>0, <1>1, <1>4, <1>7, <2>1, <2>4 DEF Exclusive
  <2>6. QED BY <1>1, <1>3, <2>2, <2>3, <2>5, Moves
<1>8. QED BY <1>5, <1>6, <1>7

\* reader_count_ after the step, and whether it leaves anybody sharing the lock.
LEMMA RCountAfter ==
    ASSUME RInv, NEW t \in Thread, NEW m \in Mode, mode' = [mode EXCEPT ![t] = m],
           reader_count' = reader_count - Share(mode[t]) + Share(m)
    PROVE  /\ reader_count' \in Nat
           /\ reader_count' = 0 <=> \A u \in Thread : mode'[u] \notin {"read", "undecided"}
<1>1. /\ Cardinality(Sharing') = Cardinality(Sharing) - Share(mode[t]) + Share(m)
      /\ Cardinality(Sharing) = reader_count
  BY SharingMove, RFacts DEF RInv, FlagsExact
<1>2. reader_count' = Cardinality(Sharing')
  BY <1>1
<1>3. IsFiniteSet(Sharing')
  BY ThreadAssumption, FS_Subset DEF Sharing, In
<1>4. reader_count' \in Nat /\ (reader_count' = 0 <=> Sharing' = {})
  BY <1>2, <1>3, FS_EmptySet, FS_CardinalityType
<1>5. QED BY <1>4 DEF Sharing, In

LEMMA RReleaseUndecided ==
    ASSUME RInv, NEW t \in Thread, ReleaseUndecided(t)
    PROVE  RInv'
<1>0. mode \in [Thread -> Mode] /\ reader_count \in Nat /\ Flags /\ Exclusive /\ TypeOK
  BY RFacts
<1>1. /\ mode[t] = "undecided" /\ "out" \in Mode
      /\ mode' = [mode EXCEPT ![t] = "out"]
      /\ \A u \in Thread : mode'[u] = IF u = t THEN "out" ELSE mode[u]
      /\ upgratable' = FALSE
      /\ UNCHANGED <<has_writer, upgrade_cv, timed, expired>>
  BY <1>0 DEF ReleaseUndecided, Mode
<1>2. reader_count' = reader_count - Share(mode[t]) + Share("out")
  <2>1. Share(mode[t]) = 1 /\ Share("out") = 0
    BY <1>1 DEF Share
  <2>2. QED BY <1>0, <2>1 DEF ReleaseUndecided
<1>3. reader_count' \in Nat
  BY <1>1, <1>2, RCountAfter
<1>4. /\ writer_waiting' \in BOOLEAN
      /\ writer_cv' \subseteq writer_cv /\ reader_cv' \subseteq reader_cv
  BY <1>0, Notified DEF ReleaseUndecided, TypeOK
<1>5. TypeOK'
  BY <1>0, <1>1, <1>3, <1>4, RTyped DEF TypeOK
<1>6. Flags' /\ Exclusive'
  BY <1>0, <1>1 DEF Flags, Exclusive
<1>7. QED BY <1>1, <1>2, <1>5, <1>6, Moves

LEMMA RReleaseWrite ==
    ASSUME RInv, NEW t \in Thread, ReleaseWrite(t)
    PROVE  RInv'
<1>0. mode \in [Thread -> Mode] /\ reader_count \in Nat /\ Flags /\ Exclusive /\ TypeOK
  BY RFacts
<1>1. /\ mode[t] = "write" /\ "out" \in Mode
      /\ mode' = [mode EXCEPT ![t] = "out"]
      /\ \A u \in Thread : mode'[u] = IF u = t THEN "out" ELSE mode[u]
      /\ has_writer' = FALSE /\ writer_waiting' = FALSE /\ NotifyBoth
      /\ UNCHANGED <<reader_count, upgratable, upgrade_cv, timed, expired>>
  BY <1>0 DEF ReleaseWrite, Mode
<1>2. reader_count' = reader_count - Share(mode[t]) + Share("out")
  <2>1. Share(mode[t]) = 0 /\ Share("out") = 0
    BY <1>1 DEF Share
  <2>2. QED BY <1>0, <1>1, <2>1
<1>3. TypeOK'
  BY <1>0, <1>1, Notified, RTyped DEF TypeOK
<1>4. Flags' /\ Exclusive'
  BY <1>0, <1>1 DEF Flags, Exclusive
<1>5. QED BY <1>1, <1>2, <1>3, <1>4, Moves

LEMMA RDecideRead ==
    ASSUME RInv, NEW t \in Thread, DecideRead(t)
    PROVE  RInv'
<1>0. mode \in [Thread -> Mode] /\ reader_count \in Nat /\ Flags /\ Exclusive /\ TypeOK
  BY RFacts
<1>1. /\ mode[t] = "undecided" /\ "read" \in Mode
      /\ mode' = [mode EXCEPT ![t] = "read"]
      /\ \A u \in Thread : mode'[u] = IF u = t THEN "read" ELSE mode[u]
      /\ upgratable' = FALSE /\ writer_waiting' = FALSE /\ NotifyBoth
      /\ UNCHANGED <<reader_count, has_writer, upgrade_cv, timed, expired>>
  BY <1>0 DEF DecideRead, Mode
<1>2. reader_count' = reader_count - Share(mode[t]) + Share("read")
  <2>1. Share(mode[t]) = 1 /\ Share("read") = 1
    BY <1>1 DEF Share
  <2>2. QED BY <1>0, <1>1, <2>1
<1>3. TypeOK'
  BY <1>0, <1>1, Notified, RTyped DEF TypeOK
<1>4. Flags' /\ Exclusive'
  BY <1>0, <1>1 DEF Flags, Exclusive
<1>5. QED BY <1>1, <1>2, <1>3, <1>4, Moves

LEMMA RDowngrade ==
    ASSUME RInv, NEW t \in Thread, NEW m \in {"read", "undecided"}, Downgrade(t, m)
    PROVE  RInv'
<1>0. mode \in [Thread -> Mode] /\ reader_count \in Nat /\ Flags /\ Exclusive /\ TypeOK
  BY RFacts
<1>1. /\ mode[t] = "write" /\ m \in Mode
      /\ mode' = [mode EXCEPT ![t] = m]
      /\ \A u \in Thread : mode'[u] = IF u = t THEN m ELSE mode[u]
      /\ has_writer' = FALSE /\ writer_waiting' = FALSE /\ NotifyBoth
      /\ UNCHANGED <<upgrade_cv, timed, expired>>
  BY <1>0 DEF Downgrade, Mode
<1>2. reader_count' = reader_count - Share(mode[t]) + Share(m)
  <2>1. Share(mode[t]) = 0 /\ Share(m) = 1
    BY <1>1 DEF Share
  <2>2. QED BY <1>0, <2>1 DEF Downgrade
<1>3. reader_count' \in Nat
  BY <1>1, <1>2, RCountAfter
<1>4. ~upgratable
  BY <1>0, <1>1 DEF Flags, Exclusive
<1>5. upgratable' = (m = "undecided")
  BY <1>4 DEF Downgrade
<1>6. TypeOK'
  BY <1>0, <1>1, <1>3, <1>5, Notified, RTyped
<1>7. \A u \in Thread : u = t \/ mode[u] \in Outside
  BY <1>0, <1>1 DEF Flags, Exclusive, Outside, Mode
<1>8. Flags' /\ Exclusive'
  BY <1>0, <1>1, <1>5, <1>7 DEF Flags, Exclusive, Outside
<1>9. QED BY <1>1, <1>2, <1>6, <1>8, Moves

LEMMA RUpgrade ==
    ASSUME RInv, NEW t \in Thread, DecideWrite(t) \/ RetryUpgrade(t)
    PROVE  RInv'
<1>0. mode \in [Thread -> Mode] /\ reader_count \in Nat /\ Flags /\ Exclusive /\ TypeOK
  BY RFacts
<1>1. /\ mode[t] \in {"undecided", "upgrade"} /\ t \notin timed
      /\ UNCHANGED <<writer_waiting, reader_cv, writer_cv, timed, expired>>
  BY <1>0 DEF DecideWrite, RetryUpgrade, Upgrade, TypeOK
<1>2. ASSUME NEW m \in {"upgrade", "write"}
      PROVE  reader_count' = reader_count - Share(mode[t]) + Share(m)
  <2>1. CASE DecideWrite(t)
    <3>1. Share(mode[t]) = 1 /\ Share(m) = 0
      BY <2>1 DEF Share, DecideWrite
    <3>2. QED BY <1>0, <2>1, <3>1 DEF DecideWrite, Upgrade
  <2>2. CASE RetryUpgrade(t)
    <3>1. Share(mode[t]) = 0 /\ Share(m) = 0
      BY <2>2 DEF Share, RetryUpgrade
    <3>2. QED BY <1>0, <2>2, <3>1 DEF RetryUpgrade, Upgrade
  <2>3. QED BY <2>1, <2>2
<1>3. CASE reader_count' # 0
  <2>1. /\ mode' = [mode EXCEPT ![t] = "upgrade"] /\ "upgrade" \in Mode
        /\ \A u \in Thread : mode'[u] = IF u = t THEN "upgrade" ELSE mode[u]
        /\ upgrade_cv' = upgrade_cv \cup {t}
        /\ UNCHANGED <<has_writer, upgratable>>
    BY <1>0, <1>3 DEF DecideWrite, RetryUpgrade, Upgrade, Mode
  <2>2. reader_count' = reader_count - Share(mode[t]) + Share("upgrade")
    BY <1>2
  <2>3. /\ reader_count' \in Nat
        /\ \E u \in Thread : mode'[u] \in {"read", "undecided"}
    BY <2>1, <2>2, <1>3, RCountAfter
  <2>4. TypeOK'
    BY <1>0, <1>1, <2>1, <2>3 DEF TypeOK
  <2>5. PICK u \in Thread : mode'[u] = "read" /\ mode[u] = "read"
    BY <1>0, <1>1, <2>1, <2>3 DEF Exclusive
  <2>6. ~has_writer /\ upgratable
    BY <1>0, <1>1, <2>5 DEF Flags, Exclusive
  <2>7. Flags' /\ Exclusive'
    BY <1>0, <1>1, <2>1, <2>5, <2>6 DEF Flags, Exclusive
  <2>8. QED BY <2>1, <2>2, <2>4, <2>7, Moves
<1>4. CASE reader_count' = 0
  <2>1. /\ mode' = [mode EXCEPT ![t] = "write"] /\ "write" \in Mode
        /\ \A u \in Thread : mode'[u] = IF u = t THEN "write" ELSE mode[u]
        /\ upgratable' = FALSE /\ has_writer' = TRUE /\ UNCHANGED upgrade_cv
        /\ t \notin upgrade_cv
    BY <1>0, <1>4 DEF DecideWrite, RetryUpgrade, Upgrade, Mode, TypeOK
  <2>2. reader_count' = reader_count - Share(mode[t]) + Share("write")
    BY <1>2
  <2>3. \A u \in Thread : mode'[u] \notin {"read", "undecided"}
    BY <2>1, <2>2, <1>4, RCountAfter
  <2>4. TypeOK'
    BY <1>0, <1>1, <1>4, <2>1 DEF TypeOK
  <2>5. Flags' /\ Exclusive'
    BY <1>0, <1>1, <2>1, <2>3 DEF Flags, Exclusive
  <2>6. QED BY <2>1, <2>2, <2>4, <2>5, Moves
<1>5. QED BY <1>3, <1>4

LEMMA RNext == RInv /\ [Next]_vars => RInv'
<1> SUFFICES ASSUME RInv, [Next]_vars PROVE RInv'
  OBVIOUS
<1>1. CASE UNCHANGED vars
  <2>1. TypeOK'
    BY <1>1, RFacts DEF TypeOK, vars, flags, cvs
  <2>2. QED BY <1>1, <2>1, RQuiet DEF vars, flags
<1>2. ASSUME NEW t \in Thread,
             Request(t) \/ Release(t) \/ Resume(t) \/ Expire(t) \/ Wake(t)
      PROVE  RInv'
  <2>1. CASE Request(t)
    BY <2>1, RAcquire, RDecideRead, RUpgrade, RDowngrade DEF Request
  <2>2. CASE Release(t)
    BY <2>2, RReleaseRead, RReleaseUndecided, RReleaseWrite DEF Release
  <2>3. CASE Resume(t)
    BY <2>3, RAcquire, RGiveUp, RUpgrade DEF Resume
  <2>4. CASE Expire(t) \/ Wake(t)
    BY <2>4, RExpireWake
  <2>5. QED BY <1>2, <2>1, <2>2, <2>3, <2>4
<1>3. QED BY <1>1, <1>2 DEF Next

LEMMA RAlways == Spec => []RInv
BY RInit, RNext, PTL DEF Spec

\* The flags and the condition variables have their types, and only threads that
\* wait are in a condition variable.
THEOREM TypeCorrect == Spec => []TypeOK
<1>1. RInv => TypeOK
  BY DEF RInv
<1>2. QED BY <1>1, RAlways, PTL

\* reader_count_, upgratable_ and has_writer_ always say who holds the lock.
THEOREM FlagsCorrect == Spec => []FlagsExact
<1>1. RInv => FlagsExact
  BY DEF RInv
<1>2. QED BY <1>1, RAlways, PTL

-----------------------------------------------------------------------------
(* RWMutex implements ReadWriteLock.                                       *)

\* A step that moves threads among the modes that hold nothing, or from undecided
\* to waiting in decide_write, is not seen by the users.
LEMMA Unseen ==
    ASSUME mode \in [Thread -> Mode], NEW t \in Thread, NEW m \in Mode,
           mode' = [mode EXCEPT ![t] = m],
           \/ mode[t] \in Outside /\ m \in Outside
           \/ mode[t] \in {"undecided", "upgrade"} /\ m = "upgrade"
    PROVE  UNCHANGED Lock!vars
<1>1. \A u \in Thread : mode'[u] = IF u = t THEN m ELSE mode[u]
  OBVIOUS
<1>2. QED BY <1>1 DEF Lock!vars, In, Outside

LEMMA LEnter ==
    ASSUME RInv, NEW t \in Thread, NEW m \in Acquired, mode[t] \in Outside, Enter(t, m)
    PROVE  Lock!Next
<1>0. /\ mode \in [Thread -> Mode] /\ Flags /\ Exclusive
      /\ reader_count = 0 <=> \A u \in Thread : mode[u] \notin {"read", "undecided"}
  BY RFacts
<1>1. \A u \in Thread : mode'[u] = IF u = t THEN m ELSE mode[u]
  BY <1>0 DEF Enter
<1>2. CASE m = "read"
  <2>1. ~has_writer
    BY <1>2 DEF Enter, May, MayRead
  <2>2. Lock!EnterRead(t)
    BY <1>0, <1>1, <1>2, <2>1 DEF Lock!EnterRead, In, Flags, Outside
  <2>3. QED BY <2>2 DEF Lock!Next
<1>3. CASE m = "undecided"
  <2>1. ~has_writer /\ ~upgratable
    BY <1>3 DEF Enter, May, MayRead, MayUndecided
  <2>2. \A u \in Thread : mode[u] \notin {"undecided", "upgrade", "write"}
    BY <1>0, <2>1 DEF Flags
  <2>3. Lock!EnterUndecided(t)
    BY <1>0, <1>1, <1>3, <2>2 DEF Lock!EnterUndecided, In, Outside
  <2>4. QED BY <2>3 DEF Lock!Next
<1>4. CASE m = "write"
  <2>1. ~has_writer /\ reader_count = 0
    BY <1>4 DEF Enter, May, MayWrite
  <2>2. \A u \in Thread : mode[u] \notin {"read", "undecided", "upgrade", "write"}
    BY <1>0, <2>1 DEF Flags, Exclusive
  <2>3. Lock!EnterWrite(t)
    BY <1>0, <1>1, <1>4, <2>2 DEF Lock!EnterWrite, In, Outside
  <2>4. QED BY <2>3 DEF Lock!Next
<1>5. QED BY <1>2, <1>3, <1>4 DEF Acquired

LEMMA LAcquire ==
    ASSUME RInv, NEW t \in Thread, NEW m \in Acquired,
           Acquire(t, m) \/ TimedAcquire(t, m) \/ Retry(t, m)
    PROVE  [Lock!Next]_(Lock!vars)
<1>0. mode \in [Thread -> Mode]
  BY RFacts
<1>1. mode[t] \in Outside
  BY DEF Acquire, TimedAcquire, Retry, Waits, Acquired, Outside
<1>2. CASE Enter(t, m)
  BY <1>1, <1>2, LEnter
<1>3. CASE Wait(t, m)
  <2>1. Waits(m) \in Outside /\ Waits(m) \in Mode
    BY DEF Waits, Acquired, Outside, Mode
  <2>2. mode' = [mode EXCEPT ![t] = Waits(m)]
    BY <1>3 DEF Wait
  <2>3. QED BY <1>0, <1>1, <2>1, <2>2, Unseen
<1>4. QED BY <1>2, <1>3 DEF Acquire, TimedAcquire, Retry

LEMMA LGiveUp ==
    ASSUME RInv, NEW t \in Thread,
           GiveUpRead(t) \/ GiveUpUndecided(t) \/ GiveUpWrite(t)
    PROVE  [Lock!Next]_(Lock!vars)
<1>0. mode \in [Thread -> Mode]
  BY RFacts
<1>1. mode[t] \in Outside /\ "out" \in Outside /\ "out" \in Mode
  BY DEF GiveUpRead, GiveUpUndecided, GiveUpWrite, Outside, Mode
<1>2. CASE \E m \in Acquired : Enter(t, m)
  BY <1>1, <1>2, LEnter
<1>3. CASE mode' = [mode EXCEPT ![t] = "out"]
  BY <1>0, <1>1, <1>3, Unseen
<1>4. QED BY <1>2, <1>3 DEF GiveUpRead, GiveUpUndecided, GiveUpWrite, Acquired

LEMMA LRelease ==
    ASSUME RInv, NEW t \in Thread, Release(t)
    PROVE  Lock!Next
<1>0. mode \in [Thread -> Mode]
  BY RFacts
<1>1. mode[t] \in Acquired /\ mode' = [mode EXCEPT ![t] = "out"]
  BY DEF Release, ReleaseRead, ReleaseUndecided, ReleaseWrite, Acquired
<1>2. \A u \in Thread : mode'[u] = IF u = t THEN "out" ELSE mode[u]
  BY <1>0, <1>1
<1>3. Lock!Leave(t)
  BY <1>1, <1>2 DEF Lock!Leave, In, Acquired
<1>4. QED BY <1>3 DEF Lock!Next

LEMMA LDowngrade ==
    ASSUME RInv, NEW t \in Thread, NEW m \in {"read", "undecided"}, Downgrade(t, m)
    PROVE  Lock!Next
<1>0. mode \in [Thread -> Mode] /\ Flags /\ Exclusive
  BY RFacts
<1>1. mode[t] = "write" /\ \A u \in Thread : mode'[u] = IF u = t THEN m ELSE mode[u]
  BY <1>0 DEF Downgrade
<1>2. \A u \in Thread : u # t => mode[u] \notin {"read", "undecided", "upgrade", "write"}
  BY <1>0, <1>1 DEF Flags, Exclusive
<1>3. CASE m = "read"
  <2>1. Lock!WriteToRead(t)
    BY <1>1, <1>2, <1>3 DEF Lock!WriteToRead, In
  <2>2. QED BY <2>1 DEF Lock!Next
<1>4. CASE m = "undecided"
  <2>1. Lock!WriteToUndecided(t)
    BY <1>1, <1>2, <1>4 DEF Lock!WriteToUndecided, In
  <2>2. QED BY <2>1 DEF Lock!Next
<1>5. QED BY <1>3, <1>4

LEMMA LDecideRead ==
    ASSUME RInv, NEW t \in Thread, DecideRead(t)
    PROVE  Lock!Next
<1>0. mode \in [Thread -> Mode] /\ Exclusive
  BY RFacts
<1>1. mode[t] = "undecided" /\ \A u \in Thread : mode'[u] = IF u = t THEN "read" ELSE mode[u]
  BY <1>0 DEF DecideRead
<1>2. \A u \in Thread : u # t => mode[u] \notin {"undecided", "upgrade", "write"}
  BY <1>0, <1>1 DEF Exclusive
<1>3. Lock!DecideRead(t)
  BY <1>1, <1>2 DEF Lock!DecideRead, In
<1>4. QED BY <1>3 DEF Lock!Next

LEMMA LUpgrade ==
    ASSUME RInv, NEW t \in Thread, DecideWrite(t) \/ RetryUpgrade(t)
    PROVE  [Lock!Next]_(Lock!vars)
<1>0. /\ mode \in [Thread -> Mode] /\ Exclusive /\ reader_count \in Nat
      /\ mode[t] \in {"undecided", "upgrade"}
  BY RFacts DEF DecideWrite, RetryUpgrade
<1>1. CASE reader_count' # 0
  <2>1. mode' = [mode EXCEPT ![t] = "upgrade"] /\ "upgrade" \in Mode
    BY <1>1 DEF DecideWrite, RetryUpgrade, Upgrade, Mode
  <2>2. QED BY <1>0, <2>1, Unseen
<1>2. CASE reader_count' = 0
  <2>1. /\ mode' = [mode EXCEPT ![t] = "write"] /\ "write" \in Mode
        /\ \A u \in Thread : mode'[u] = IF u = t THEN "write" ELSE mode[u]
    BY <1>0, <1>2 DEF DecideWrite, RetryUpgrade, Upgrade, Mode
  <2>2. reader_count' = reader_count - Share(mode[t]) + Share("write")
    <3>1. CASE DecideWrite(t)
      <4>1. Share(mode[t]) = 1 /\ Share("write") = 0
        BY <3>1 DEF Share, DecideWrite
      <4>2. QED BY <1>0, <3>1, <4>1 DEF DecideWrite, Upgrade
    <3>2. CASE RetryUpgrade(t)
      <4>1. Share(mode[t]) = 0 /\ Share("write") = 0
        BY <3>2 DEF Share, RetryUpgrade
      <4>2. QED BY <1>0, <3>2, <4>1 DEF RetryUpgrade, Upgrade
    <3>3. QED BY <3>1, <3>2
  <2>3. \A u \in Thread : mode[u] # "read"
    BY <1>0, <1>2, <2>1, <2>2, RCountAfter
  <2>4. \A u \in Thread : u # t => mode[u] \notin {"undecided", "upgrade", "write"}
    BY <1>0 DEF Exclusive
  <2>5. Lock!DecideWrite(t)
    BY <1>0, <2>1, <2>3, <2>4 DEF Lock!DecideWrite, In
  <2>6. QED BY <2>5 DEF Lock!Next
<1>3. QED BY <1>1, <1>2

LEMMA LStep == RInv /\ [Next]_vars => [Lock!Next]_(Lock!vars)
<1> SUFFICES ASSUME RInv, [Next]_vars PROVE [Lock!Next]_(Lock!vars)
  OBVIOUS
<1>1. CASE UNCHANGED mode
  BY <1>1 DEF Lock!vars, In
<1>2. ASSUME NEW t \in Thread, Request(t) \/ Release(t) \/ Resume(t)
      PROVE  [Lock!Next]_(Lock!vars)
  <2>1. CASE Request(t)
    BY <2>1, LAcquire, LDecideRead, LUpgrade, LDowngrade DEF Request
  <2>2. CASE Release(t)
    BY <2>2, LRelease
  <2>3. CASE Resume(t)
    BY <2>3, LAcquire, LGiveUp, LUpgrade DEF Resume
  <2>4. QED BY <1>2, <2>1, <2>2, <2>3
<1>3. QED BY <1>1, <1>2 DEF Next, Expire, Wake, vars

\* The users of an rwmutex see a reader/writer lock: whatever timeouts, spurious
\* wake-ups and upgrades happen, a writer is alone, and decide_write turns the
\* undecided thread into the writer without letting another one in.
THEOREM LockImplemented == Spec => ImplementsLock
<1>1. Init => Lock!Init
  BY DEF Init, Lock!Init, In
<1>2. RInv /\ [Next]_vars => [Lock!Next]_(Lock!vars)
  BY LStep
<1>3. QED BY <1>1, <1>2, RAlways, PTL DEF Spec, Lock!Spec, ImplementsLock

-----------------------------------------------------------------------------
(* Nobody is forgotten.                                                    *)

\* In a free lock nobody is undecided or in decide_write, so nothing keeps anyone out.
LEMMA FreeFacts ==
    ASSUME RInv, FreeLockWakes, reader_count = 0, ~has_writer
    PROVE  ~upgratable /\ ~writer_waiting /\ \A m \in Acquired : May(m)
<1>1. /\ Flags /\ Exclusive
      /\ \A t \in Thread : mode[t] \notin {"read", "undecided"}
  BY RFacts
<1>2. ~upgratable
  BY <1>1 DEF Flags, Exclusive
<1>3. QED BY <1>2 DEF FreeLockWakes, May, MayRead, MayUndecided, MayWrite, Acquired

\* Releases that may leave the lock free tell all readers and one writer.
LEMMA TellsBoth ==
    ASSUME RInv, NEW t \in Thread, mode[t] \in Acquired, NEW m \in Mode,
           mode' = [mode EXCEPT ![t] = m], writer_waiting' = FALSE, NotifyBoth
    PROVE  FreeLockWakes'
<1>1. mode \in [Thread -> Mode] /\ TypeOK
  BY RFacts
<1>2. reader_cv' = {}
  BY DEF NotifyBoth, NotifyAllReaders
<1>3. CASE writer_cv = {}
  BY <1>2, <1>3 DEF NotifyBoth, NotifyOneWriter, FreeLockWakes
<1>4. CASE \E u \in writer_cv : writer_cv' = writer_cv \ {u}
  <2>1. PICK u \in writer_cv : writer_cv' = writer_cv \ {u}
    BY <1>4
  <2>2. u \in Thread /\ mode[u] = "wait_write" /\ u # t
    BY <1>1, <2>1 DEF TypeOK, Acquired
  <2>3. mode'[u] = "wait_write" /\ u \notin writer_cv'
    BY <1>1, <2>1, <2>2
  <2>4. QED BY <1>2, <2>2, <2>3 DEF FreeLockWakes, In
<1>5. QED BY <1>3, <1>4 DEF NotifyBoth, NotifyOneWriter

\* A lock that a step leaves taken needs nothing.
LEMMA StaysTaken ==
    ASSUME reader_count' # 0 \/ has_writer'
    PROVE  FreeLockWakes'
BY DEF FreeLockWakes

\* In a free lock all who test their condition enter.
LEMMA WakesAcquire ==
    ASSUME RInv, FreeLockWakes, NEW t \in Thread, NEW m \in Acquired,
           Enter(t, m) \/ Wait(t, m)
    PROVE  FreeLockWakes'
<1>1. reader_count \in Nat /\ has_writer \in BOOLEAN
  BY RFacts DEF TypeOK
<1>2. CASE Enter(t, m)
  <2>1. CASE m = "write"
    <3>1. has_writer'
      BY <1>2, <2>1 DEF Enter
    <3>2. QED BY <3>1, StaysTaken
  <2>2. CASE m # "write"
    <3>1. reader_count' = reader_count + 1
      BY <1>2, <2>2 DEF Enter
    <3>2. reader_count' # 0
      BY <1>1, <3>1
    <3>3. QED BY <3>2, StaysTaken
  <2>3. QED BY <2>1, <2>2
<1>3. CASE Wait(t, m)
  <2>1. reader_count # 0 \/ has_writer
    BY <1>3, FreeFacts DEF Wait
  <2>2. QED BY <1>3, <2>1, StaysTaken DEF Wait
<1>4. QED BY <1>2, <1>3

LEMMA WakesRequest ==
    ASSUME RInv, FreeLockWakes, NEW t \in Thread, Request(t)
    PROVE  FreeLockWakes'
<1>1. reader_count \in Nat /\ Flags
  BY RFacts
<1>2. ASSUME NEW m \in Acquired, Acquire(t, m) \/ TimedAcquire(t, m)
      PROVE  FreeLockWakes'
  BY <1>2, WakesAcquire DEF Acquire, TimedAcquire
<1>3. CASE DecideRead(t)
  BY <1>3, TellsBoth DEF DecideRead, Acquired, Mode
<1>4. CASE DecideWrite(t)
  BY <1>4, StaysTaken DEF DecideWrite, Upgrade
<1>5. ASSUME NEW m \in {"read", "undecided"}, Downgrade(t, m)
      PROVE  FreeLockWakes'
  BY <1>5, TellsBoth DEF Downgrade, Acquired, Mode
<1>6. QED BY <1>2, <1>3, <1>4, <1>5 DEF Request

LEMMA WakesRelease ==
    ASSUME RInv, FreeLockWakes, NEW t \in Thread, Release(t)
    PROVE  FreeLockWakes'
<1>1. CASE ReleaseRead(t)
  <2>1. CASE reader_count' = 0 /\ ~upgratable
    BY <1>1, <2>1, TellsBoth DEF ReleaseRead, Acquired, Mode
  <2>2. CASE reader_count' = 0 /\ upgratable
    BY <1>1, <2>2, StaysTaken DEF ReleaseRead, HandOver
  <2>3. QED BY <2>1, <2>2, StaysTaken
<1>2. CASE ReleaseUndecided(t)
  <2>1. CASE reader_count' = 0
    BY <1>2, <2>1, TellsBoth DEF ReleaseUndecided, Acquired, Mode
  <2>2. QED BY <2>1, StaysTaken
<1>3. CASE ReleaseWrite(t)
  BY <1>3, TellsBoth DEF ReleaseWrite, Acquired, Mode
<1>4. QED BY <1>1, <1>2, <1>3 DEF Release

LEMMA WakesResume ==
    ASSUME RInv, FreeLockWakes, NEW t \in Thread, Resume(t)
    PROVE  FreeLockWakes'
<1>0. mode \in [Thread -> Mode]
  BY RFacts
<1>1. ASSUME NEW m \in Acquired, Retry(t, m)
      PROVE  FreeLockWakes'
  BY <1>1, WakesAcquire DEF Retry
<1>2. CASE \E m \in Acquired : Enter(t, m)
  BY <1>2, WakesAcquire
<1>3. ASSUME mode[t] \in {"wait_read", "wait_undecided"},
             mode' = [mode EXCEPT ![t] = "out"], UNCHANGED <<flags, cvs>>
      PROVE  FreeLockWakes'
  <2>1. \A u \in Thread : mode[u] = "wait_write" => mode'[u] = "wait_write"
    BY <1>0, <1>3
  <2>2. QED BY <1>3, <2>1 DEF flags, cvs, FreeLockWakes, In
<1>4. CASE GiveUpWrite(t) /\ ~May("write")
  <2>1. reader_count # 0 \/ has_writer
    BY <1>4 DEF May, MayWrite
  <2>2. UNCHANGED <<reader_count, has_writer>>
    BY <1>4 DEF GiveUpWrite, Enter
  <2>3. QED BY <2>1, <2>2, StaysTaken
<1>5. CASE RetryUpgrade(t)
  BY <1>5, StaysTaken DEF RetryUpgrade, Upgrade
<1>6. QED
  BY <1>1, <1>2, <1>3, <1>4, <1>5
  DEF Resume, GiveUpRead, GiveUpUndecided, GiveUpWrite, Acquired, Enter

LEMMA WakesNext == RInv /\ FreeLockWakes /\ [Next]_vars => FreeLockWakes'
<1> SUFFICES ASSUME RInv, FreeLockWakes, [Next]_vars PROVE FreeLockWakes'
  OBVIOUS
<1>1. ASSUME NEW t \in Thread, Expire(t) \/ Wake(t)
      PROVE  FreeLockWakes'
  <2>1. /\ reader_cv' = reader_cv \ {t} /\ writer_cv' = writer_cv \ {t}
        /\ UNCHANGED <<flags, mode>>
    BY <1>1 DEF Expire, Wake
  <2>2. t \in writer_cv => t \in In("wait_write")
    BY RFacts DEF TypeOK, In
  <2>3. QED BY <2>1, <2>2 DEF flags, FreeLockWakes, In
<1>2. CASE UNCHANGED vars
  BY <1>2 DEF vars, flags, cvs, FreeLockWakes, In
<1>3. QED BY <1>1, <1>2, WakesRequest, WakesRelease, WakesResume DEF Next

\* When the lock is free no reader sleeps, nobody is announced as a waiting writer, and
\* of the sleeping writers one has been woken: the notifications of the releases, of
\* decide_read and of a writer that gives up suffice, timeouts included.
THEOREM FreeLockCorrect == Spec => []FreeLockWakes
<1>1. Init => FreeLockWakes
  BY DEF Init, FreeLockWakes
<1>2. QED BY <1>1, WakesNext, RAlways, PTL DEF Spec

\* What a step that is no writer's time-out does to sleeping readers: it wakes them all
\* or leaves them a reason; it puts one to sleep only with a reason.
LEMMA ReasonKept ==
    ASSUME RInv, Next, ReadersHaveAReason, ~ReadersHaveAReason'
    PROVE  \E t \in Thread : GiveUpWrite(t)
<1>0. mode \in [Thread -> Mode]
  BY RFacts
<1>1. PICK t \in Thread : Request(t) \/ Release(t) \/ Resume(t) \/ Expire(t) \/ Wake(t)
  BY DEF Next
<1>2. /\ reader_cv' \cap In("wait_read")' # {}
      /\ ~has_writer' /\ ~writer_waiting'
  BY DEF ReadersHaveAReason
<1>3. ~NotifyBoth
  BY <1>2 DEF NotifyBoth, NotifyAllReaders
<1>4. ASSUME reader_cv' \subseteq reader_cv, has_writer' = has_writer,
             writer_waiting' = writer_waiting,
             \A u \in Thread : mode'[u] = "wait_read" => mode[u] = "wait_read"
      PROVE  FALSE
  BY <1>2, <1>4 DEF ReadersHaveAReason, In
<1>5. ASSUME NEW m \in Acquired, Enter(t, m)
      PROVE  FALSE
  <2>1. has_writer' = (has_writer \/ m = "write") /\ has_writer \in BOOLEAN
    BY <1>5, RFacts DEF Enter, TypeOK
  <2>2. m # "write" /\ has_writer' = has_writer
    BY <1>2, <2>1
  <2>3. QED BY <1>0, <1>4, <1>5, <2>2 DEF Enter, Acquired
<1>6. ASSUME NEW m \in Acquired, Wait(t, m)
      PROVE  FALSE
  <2>1. CASE m = "write"
    BY <1>2, <1>6, <2>1 DEF Wait
  <2>2. CASE m = "read"
    BY <1>2, <1>6, <2>2 DEF Wait, May, MayRead
  <2>3. CASE m = "undecided"
    <3>1. mode'[t] = "wait_undecided" /\ reader_cv' = reader_cv \cup {t}
      BY <1>0, <1>6, <2>3 DEF Wait, Waits
    <3>2. QED BY <1>0, <1>2, <1>6, <2>3, <3>1 DEF Wait, Waits, ReadersHaveAReason, In
  <2>4. QED BY <2>1, <2>2, <2>3 DEF Acquired
<1>7. CASE Request(t)
  <2>1. ~DecideRead(t) /\ \A m \in {"read", "undecided"} : ~Downgrade(t, m)
    BY <1>3 DEF DecideRead, Downgrade
  <2>2. ASSUME DecideWrite(t)
        PROVE  FALSE
    BY <1>0, <1>2, <1>4, <2>2 DEF DecideWrite, Upgrade
  <2>3. QED BY <1>5, <1>6, <1>7, <2>1, <2>2 DEF Request, Acquire, TimedAcquire
<1>8. CASE Release(t)
  <2>1. CASE ReleaseRead(t)
    BY <1>0, <1>3, <1>4, <2>1 DEF ReleaseRead, cvs
  <2>2. CASE ReleaseUndecided(t)
    BY <1>0, <1>3, <1>4, <2>2 DEF ReleaseUndecided
  <2>3. CASE ReleaseWrite(t)
    BY <1>3, <2>3 DEF ReleaseWrite
  <2>4. QED BY <1>8, <2>1, <2>2, <2>3 DEF Release
<1>9. CASE Resume(t)
  <2>1. CASE GiveUpRead(t)
    BY <1>0, <1>4, <2>1 DEF GiveUpRead, flags, cvs
  <2>2. CASE GiveUpUndecided(t)
    <3>1. "undecided" \in Acquired
      BY DEF Acquired
    <3>2. QED BY <1>0, <1>4, <1>5, <2>2, <3>1 DEF GiveUpUndecided, flags, cvs
  <2>3. CASE RetryUpgrade(t)
    BY <1>0, <1>2, <1>4, <2>3 DEF RetryUpgrade, Upgrade
  <2>4. QED BY <1>5, <1>6, <1>9, <2>1, <2>2, <2>3 DEF Resume, Retry
<1>10. CASE Expire(t) \/ Wake(t)
  BY <1>4, <1>10 DEF Expire, Wake, flags
<1>11. QED BY <1>1, <1>7, <1>8, <1>9, <1>10

\* A reader asleep in reader_cv_ keeps a reason to sleep, a writer in the lock or
\* announced, unless a writer gives up in timed_acquire_write.
THEOREM ReadersCorrect == Spec => NoReaderForgotten
<1>1. RInv /\ [Next]_vars =>
         [ReadersHaveAReason /\ ~ReadersHaveAReason' => \E t \in Thread : GiveUpWrite(t)]_vars
  BY ReasonKept
<1>2. QED BY <1>1, RAlways, PTL DEF Spec, NoReaderForgotten
=============================================================================
