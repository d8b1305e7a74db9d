------------------------ MODULE Segmentation_proofs ------------------------
(***************************************************************************)
(* Theorems about the out-of-core watershed, for any files, affinities,    *)
(* chunks and edges: what the queue hands out, which segments the search   *)
(* makes, and what the later stages join.                                  *)
(***************************************************************************)
EXTENDS Segmentation, FiniteSetTheorems, SequenceTheorems, WellFoundedInduction, TLAPS

(* The inductive invariant *)

\* Where in the file the buffer in use begins.
Start(s) == filePos[s] - Len(pending[s]) - Len(buffer[s])

\* The buffers of a source against its file.
Places(s) ==
    /\ bufferPos[s] \in 0..Len(buffer[s])
    /\ filePos[s] <= Size(s)
    /\ Start(s) + bufferPos[s] = Size(s) - remaining[s]

Contents(s) ==
    /\ \A i \in 1..Len(buffer[s]) : buffer[s][i] = file[s][Start(s) + i]
    /\ \A i \in 1..Len(pending[s]) : pending[s][i] = file[s][Start(s) + Len(buffer[s]) + i]

AtHand(s) == s \in InHeap => heap[s] = file[s][Size(s) - remaining[s]]

Fetch(s) ==
    fetching[s] # 0 => /\ pending[s] = <<>>
                       /\ fetching[s] = Lesser(CacheLen, RemainingInFile(s))

\* The thread: what it waits for, and in which sources it may be.
Thread(s) ==
    /\ waiting[s] = IF reading = s THEN 1 ELSE 0
    /\ asleep[s] => reading = s /\ fetching[s] # 0
    /\ reading = s => life[s] = "live" /\ s \notin InHeap /\ remaining[s] > 0
    /\ s \in InHeap => life[s] = "live"
    /\ life[s] = "new" => fetching[s] = 0 /\ remaining[s] > 0

\* The manager: no source has two fetches, and the counts of fetching_ are right.
Distinct(q) == \A i, j \in DOMAIN q : q[i] = q[j] => i = j
Fetched(s) ==
    /\ s \in Queued => s \notin running
    /\ life[s] \in {"new", "spent"} => s \notin Queued \cup running
    /\ life[s] = "live" => (fetching[s] # 0 <=> s \in Queued \cup running)

Source_OK(s) == Places(s) /\ Contents(s) /\ AtHand(s) /\ Fetch(s) /\ Thread(s) /\ Fetched(s)

IInv == TypeOK /\ Distinct(tasks) /\ \A s \in Source : Source_OK(s)

-----------------------------------------------------------------------------
(* Sequences *)

Elements(q) == {q[i] : i \in DOMAIN q}

\* What the deque holds after a push and after a pop.
LEMMA QueuedAfterPush ==
    ASSUME NEW S, NEW q \in Seq(S), NEW e \in S
    PROVE  /\ Append(q, e) \in Seq(S)
           /\ Elements(Append(q, e)) = Elements(q) \cup {e}
           /\ Distinct(q) /\ e \notin Elements(q) => Distinct(Append(q, e))
<1> DEFINE r == Append(q, e)
<1>1. /\ r \in Seq(S)
      /\ Len(q) \in Nat /\ DOMAIN q = 1..Len(q)
      /\ DOMAIN r = 1..Len(q) + 1
      /\ \A i \in 1..Len(q) : r[i] = q[i]
      /\ r[Len(q) + 1] = e
  BY AppendProperties, LenProperties
<1> HIDE DEF r
<1>2. {r[i] : i \in DOMAIN r} = {q[i] : i \in DOMAIN q} \cup {e}
  BY <1>1
<1>3. ASSUME Distinct(q), e \notin {q[i] : i \in DOMAIN q}
      PROVE  Distinct(r)
  <2> SUFFICES ASSUME NEW i \in DOMAIN r, NEW j \in DOMAIN r, r[i] = r[j]
               PROVE  i = j
    BY DEF Distinct
  <2>1. CASE i \in 1..Len(q) /\ j \in 1..Len(q)
    BY <1>1, <1>3, <2>1 DEF Distinct
  <2>2. CASE i = Len(q) + 1 /\ j = Len(q) + 1
    BY <2>2
  <2>3. CASE i \in 1..Len(q) /\ j = Len(q) + 1
    BY <1>1, <1>3, <2>3
  <2>4. CASE i = Len(q) + 1 /\ j \in 1..Len(q)
    BY <1>1, <1>3, <2>4
  <2> QED  BY <1>1, <2>1, <2>2, <2>3, <2>4
<1> QED  BY <1>1, <1>2, <1>3 DEF r, Elements

LEMMA QueuedAfterPop ==
    ASSUME NEW S, NEW q \in Seq(S), q # <<>>
    PROVE  /\ Tail(q) \in Seq(S) /\ Head(q) \in S
           /\ Elements(q) = Elements(Tail(q)) \cup {Head(q)}
           /\ Distinct(q) => Distinct(Tail(q)) /\ Head(q) \notin Elements(Tail(q))
<1> DEFINE r == Tail(q)
<1>1. /\ r \in Seq(S) /\ Head(q) \in S /\ Head(q) = q[1]
      /\ Len(q) \in Nat /\ Len(q) > 0 /\ DOMAIN q = 1..Len(q)
      /\ DOMAIN r = 1..Len(q) - 1
      /\ \A i \in 1..Len(q) - 1 : r[i] = q[i + 1]
  BY HeadTailProperties, LenProperties, EmptySeq
<1> HIDE DEF r
<1>2. {q[i] : i \in DOMAIN q} = {r[i] : i \in DOMAIN r} \cup {Head(q)}
  <2>1. ASSUME NEW i \in DOMAIN q
        PROVE  q[i] \in {r[j] : j \in DOMAIN r} \cup {Head(q)}
    <3>1. CASE i = 1
      BY <1>1, <3>1
    <3>2. CASE i # 1
      <4>1. i - 1 \in DOMAIN r /\ r[i - 1] = q[i]
        BY <1>1, <3>2
      <4> QED  BY <4>1
    <3> QED  BY <3>1, <3>2
  <2>2. ASSUME NEW j \in DOMAIN r
        PROVE  r[j] \in {q[i] : i \in DOMAIN q}
    BY <1>1
  <2>3. Head(q) \in {q[i] : i \in DOMAIN q}
    BY <1>1
  <2> QED  BY <2>1, <2>2, <2>3
<1>3. ASSUME Distinct(q)
      PROVE  Distinct(r) /\ Head(q) \notin {r[i] : i \in DOMAIN r}
  <2>1. ASSUME NEW i \in DOMAIN r, NEW j \in DOMAIN r, r[i] = r[j]
        PROVE  i = j
    <3>1. i + 1 \in DOMAIN q /\ j + 1 \in DOMAIN q /\ q[i + 1] = q[j + 1] /\ i \in Int /\ j \in Int
      BY <1>1, <2>1
    <3>2. i + 1 = j + 1
      BY <1>3, <3>1 DEF Distinct
    <3> QED  BY <3>1, <3>2
  <2>2. ASSUME NEW i \in DOMAIN r, r[i] = Head(q)
        PROVE  FALSE
    <3>1. i + 1 \in DOMAIN q /\ 1 \in DOMAIN q /\ q[i + 1] = q[1] /\ i + 1 # 1
      BY <1>1, <2>2
    <3> QED  BY <1>3, <3>1 DEF Distinct
  <2> QED  BY <2>1, <2>2 DEF Distinct
<1> QED  BY <1>1, <1>2, <1>3 DEF r, Elements

\* The piece of q that begins after its first a items.
LEMMA PieceOfSeq ==
    ASSUME NEW S, NEW q \in Seq(S), NEW a \in Nat, NEW n \in Nat \ {0}, a + n <= Len(q)
    PROVE  /\ SubSeq(q, a + 1, a + n) \in Seq(S) /\ Len(SubSeq(q, a + 1, a + n)) = n
           /\ \A i \in 1..n : SubSeq(q, a + 1, a + n)[i] = q[a + i]
<1> DEFINE b == a + 1
           c == a + n
<1>1. b \in Int /\ c \in Int /\ b <= c /\ c - b + 1 = n /\ \A i \in 1..n : b + i - 1 = a + i
  OBVIOUS
<1>2. \A i \in b..c : q[i] \in S
  BY LenProperties, ElementOfSeq
<1> HIDE DEF b, c
<1>3. /\ SubSeq(q, b, c) \in Seq(S)
      /\ Len(SubSeq(q, b, c)) = IF b <= c THEN c - b + 1 ELSE 0
      /\ \A i \in 1..c - b + 1 : SubSeq(q, b, c)[i] = q[b + i - 1]
  BY <1>1, <1>2, SubSeqProperties
<1>4. /\ SubSeq(q, b, c) \in Seq(S) /\ Len(SubSeq(q, b, c)) = n
      /\ \A i \in 1..n : SubSeq(q, b, c)[i] = q[a + i]
  BY <1>1, <1>3
<1> QED  BY <1>4 DEF b, c

\* A file is a sequence of keys with at least one item.
LEMMA FileTyped ==
    ASSUME TypeOK, NEW s \in Source
    PROVE  /\ file[s] \in Seq(Key) /\ Size(s) \in Nat /\ Size(s) > 0
           /\ DOMAIN file[s] = 1..Size(s) /\ \A i \in 1..Size(s) : file[s][i] \in Key
<1>1. PICK n \in Sizes : file[s] \in [1..n -> Key]
  BY DEF TypeOK, Files
<1>2. n \in Nat /\ n > 0
  BY <1>1, SizeAssumption DEF Sizes
<1>3. file[s] \in Seq(Key)
  BY <1>1, <1>2, SeqDef
<1>4. Len(file[s]) = n
  BY <1>1, <1>2, <1>3, LenProperties
<1> QED  BY <1>1, <1>2, <1>3, <1>4 DEF Size

-----------------------------------------------------------------------------
(* Pull: the critical section that add_source, pop and the return from cv_.wait share *)

\* What the three callers guarantee.
Caller(s) ==
    /\ file' = file /\ running' = running
    /\ life' \in [Source -> {"new", "live", "spent", "cleared"}]
    /\ life'[s] = "live" /\ life[s] \in {"new", "live"}
    /\ \A t \in Source \ {s} : life'[t] = life[t]
    /\ remaining[s] > 0
    /\ reading \in {NoSource, s} /\ ~asleep[s]

\* A fetch is queued when none is outstanding, and is the only one of its source.
LEMMA TryFetchStep ==
    ASSUME IInv, NEW s \in Source, Caller(s), TryFetch(s)
    PROVE  /\ tasks' \in Seq(Source) /\ Distinct(tasks')
           /\ fetching' \in [Source -> Nat]
           /\ \A t \in Source \ {s} : fetching'[t] = fetching[t] /\ (t \in Queued' <=> t \in Queued)
           /\ s \in Queued' => s \notin running
           /\ fetching'[s] # 0 <=> s \in Queued' \cup running
           /\ fetching'[s] = IF UsedUp(s) /\ RemainingInFile(s) > 0 /\ fetching[s] = 0
                             THEN Lesser(CacheLen, RemainingInFile(s)) ELSE fetching[s]
<1>1. /\ tasks \in Seq(Source) /\ fetching \in [Source -> Nat]
      /\ filePos[s] \in Nat /\ Distinct(tasks) /\ Size(s) \in Nat
  BY FileTyped DEF IInv, TypeOK
<1>2. /\ s \in Queued => s \notin running
      /\ fetching[s] # 0 <=> s \in Queued \cup running
  BY DEF IInv, Source_OK, Fetched, Thread, Caller
<1>3. CASE UsedUp(s) /\ RemainingInFile(s) > 0 /\ fetching[s] = 0
  <2>1. /\ fetching' = [fetching EXCEPT ![s] = Lesser(CacheLen, RemainingInFile(s))]
        /\ tasks' = Append(tasks, s)
    BY <1>3 DEF TryFetch, Idle
  <2>2. Lesser(CacheLen, RemainingInFile(s)) \in Nat \ {0}
    BY <1>1, <1>3, SizeAssumption DEF Lesser, RemainingInFile
  <2>3. s \notin Queued
    BY <1>2, <1>3
  <2>4. tasks' \in Seq(Source) /\ Queued' = Queued \cup {s} /\ Distinct(tasks')
    <3>1. Queued = Elements(tasks) /\ Queued' = Elements(tasks')
      BY DEF Queued, Elements
    <3> QED  BY <1>1, <2>1, <2>3, <3>1, QueuedAfterPush
  <2> QED  BY <1>1, <1>2, <1>3, <2>1, <2>2, <2>4
<1>4. CASE ~(UsedUp(s) /\ RemainingInFile(s) > 0 /\ fetching[s] = 0)
  <2>1. fetching' = fetching /\ tasks' = tasks
    BY <1>4 DEF TryFetch, Idle
  <2>2. Queued' = Queued
    BY <2>1 DEF Queued
  <2> QED  BY <1>1, <1>2, <1>4, <2>1, <2>2
<1> QED  BY <1>3, <1>4

\* The other sources are not touched.
LEMMA OthersKept ==
    ASSUME IInv, NEW s \in Source, Caller(s), TryFetch(s), NEW t \in Source, t # s,
           /\ remaining'[t] = remaining[t] /\ filePos'[t] = filePos[t]
           /\ buffer'[t] = buffer[t] /\ bufferPos'[t] = bufferPos[t] /\ pending'[t] = pending[t]
           /\ waiting'[t] = waiting[t] /\ asleep'[t] = asleep[t],
           t \in InHeap' <=> t \in InHeap, t \in InHeap => heap'[t] = heap[t],
           reading' \in {NoSource, s}
    PROVE  Source_OK(t)'
<1>1. /\ fetching'[t] = fetching[t] /\ (t \in Queued' <=> t \in Queued)
      /\ file' = file /\ running' = running /\ life'[t] = life[t]
  BY TryFetchStep DEF Caller
<1>2. reading # t /\ reading' # t
  BY NoSourceAssumption DEF Caller
<1>3. Source_OK(t)
  BY DEF IInv
<1>4. Places(t)' /\ Contents(t)' /\ AtHand(t)' /\ Fetch(t)'
  BY <1>1, <1>3 DEF Source_OK, Places, Contents, AtHand, Fetch, Start, Size, RemainingInFile, Lesser
<1>5. Thread(t)' /\ Fetched(t)'
  BY <1>1, <1>2, <1>3 DEF Source_OK, Thread, Fetched
<1> QED  BY <1>4, <1>5 DEF Source_OK

\* One item is taken, from the buffer in use or from the one swapped in.
LEMMA TakeStep ==
    ASSUME IInv, NEW s \in Source, Caller(s), Take(s),
           heap' = With(s, Place(s)[1][Place(s)[2] + 1]),
           reading' = NoSource,
           waiting' = [waiting EXCEPT ![s] = IF reading = s THEN @ - 1 ELSE @]
    PROVE  IInv'
<1> DEFINE item == Place(s)[1][Place(s)[2] + 1]
<1>1. /\ filePos[s] \in Nat /\ bufferPos[s] \in Nat /\ remaining[s] \in Nat /\ remaining[s] > 0
      /\ buffer[s] \in Seq(Key) /\ pending[s] \in Seq(Key)
      /\ Len(buffer[s]) \in Nat /\ Len(pending[s]) \in Nat
      /\ DOMAIN buffer[s] = 1..Len(buffer[s]) /\ DOMAIN pending[s] = 1..Len(pending[s])
  BY LenProperties DEF IInv, TypeOK, Caller
<1>2. Size(s) \in Nat /\ file' = file
  BY FileTyped DEF IInv, Caller
<1>3. Places(s) /\ Contents(s) /\ Fetch(s) /\ Thread(s)
  BY DEF IInv, Source_OK
<1>4. TryFetch(s) /\ CanRead(s)
  BY DEF Take
<1>5. /\ filePos' = filePos /\ asleep' = asleep
      /\ buffer' = [buffer EXCEPT ![s] = Place(s)[1]]
      /\ bufferPos' = [bufferPos EXCEPT ![s] = Place(s)[2] + 1]
      /\ remaining' = [remaining EXCEPT ![s] = @ - 1]
      /\ pending' = IF UsedUp(s) THEN [pending EXCEPT ![s] = <<>>] ELSE pending
  BY DEF Take
<1>6. /\ filePos'[s] = filePos[s] /\ remaining'[s] = remaining[s] - 1
      /\ buffer'[s] = Place(s)[1] /\ bufferPos'[s] = Place(s)[2] + 1
      /\ pending'[s] = IF UsedUp(s) THEN <<>> ELSE pending[s]
      /\ asleep'[s] = asleep[s] /\ waiting'[s] = IF reading = s THEN waiting[s] - 1 ELSE waiting[s]
  BY <1>5 DEF IInv, TypeOK
<1>7. /\ Places(s)' /\ Contents(s)'
      /\ item \in Key /\ item = file[s][Size(s) - remaining'[s]]
  <2>1. CASE UsedUp(s)
    <3>1. Place(s)[1] = pending[s] /\ Place(s)[2] = 0 /\ pending[s] # <<>>
      BY <1>4, <2>1 DEF Place, CanRead
    <3>2. Len(pending[s]) > 0 /\ Len(<<>>) = 0
      BY <1>1, <3>1, EmptySeq
    <3>3. /\ buffer'[s] = pending[s] /\ bufferPos'[s] = 1 /\ pending'[s] = <<>>
          /\ Start(s)' = Start(s) + Len(buffer[s])
          /\ item = pending[s][1]
      BY <1>1, <1>6, <2>1, <3>1, <3>2 DEF Start
    <3>4. bufferPos[s] = Len(buffer[s]) /\ Start(s) + bufferPos[s] = Size(s) - remaining[s]
      BY <1>3, <2>1 DEF Places, UsedUp
    <3>5. Start(s) \in Int
      BY <1>1 DEF Start
    <3>6. Places(s)'
      BY <1>1, <1>2, <1>3, <1>6, <3>2, <3>3, <3>4, <3>5 DEF Places, Size
    <3>7. Contents(s)'
      BY <1>1, <1>2, <1>3, <1>6, <3>2, <3>3, <3>5 DEF Contents
    <3>8. item \in Key /\ item = file[s][Size(s) - remaining'[s]]
      <4>1. item = file[s][Start(s) + Len(buffer[s]) + 1]
        BY <1>1, <1>3, <3>2, <3>3 DEF Contents
      <4>2. Start(s) + Len(buffer[s]) + 1 = Size(s) - remaining'[s]
        BY <1>1, <1>2, <1>6, <3>4, <3>5
      <4>3. pending[s][1] \in Key
        BY <1>1, <3>2, ElementOfSeq
      <4> QED  BY <3>3, <4>1, <4>2, <4>3
    <3> QED  BY <3>6, <3>7, <3>8
  <2>2. CASE ~UsedUp(s)
    <3>1. Place(s)[1] = buffer[s] /\ Place(s)[2] = bufferPos[s]
      BY <2>2 DEF Place
    <3>2. bufferPos[s] + 1 \in 1..Len(buffer[s])
      BY <1>1, <1>3, <2>2 DEF Places, UsedUp
    <3>3. /\ buffer'[s] = buffer[s] /\ bufferPos'[s] = bufferPos[s] + 1 /\ pending'[s] = pending[s]
          /\ Start(s)' = Start(s) /\ Start(s) \in Int
          /\ item = buffer[s][bufferPos[s] + 1]
      BY <1>1, <1>6, <2>2, <3>1 DEF Start
    <3>4. Start(s) + bufferPos[s] = Size(s) - remaining[s] /\ filePos[s] <= Size(s)
      BY <1>3 DEF Places
    <3>5. Start(s) + (bufferPos[s] + 1) = Size(s) - (remaining[s] - 1)
      <4>1. Start(s) \in Int
        BY <3>3
      <4>2. bufferPos[s] \in Int /\ remaining[s] \in Int /\ Size(s) \in Int
        BY <1>1, <1>2
      <4>3. Start(s) + bufferPos[s] = Size(s) - remaining[s]
        BY <3>4
      <4> HIDE DEF Start, Size
      <4> QED  BY <4>1, <4>2, <4>3
    <3>6. Places(s)'
      <4>1. Size(s)' = Size(s)
        BY <1>2 DEF Size
      <4>2. bufferPos'[s] \in 0..Len(buffer'[s])
        BY <1>1, <3>2, <3>3
      <4>3. Start(s)' + bufferPos'[s] = Size(s)' - remaining'[s]
        BY <1>6, <3>3, <3>5, <4>1
      <4> QED  BY <1>6, <3>4, <4>1, <4>2, <4>3 DEF Places
    <3>7. Contents(s)'
      BY <1>1, <1>2, <1>3, <1>6, <3>3 DEF Contents
    <3>8. item \in Key /\ item = file[s][Size(s) - remaining'[s]]
      <4>1. item = file[s][Start(s) + (bufferPos[s] + 1)]
        BY <1>1, <1>3, <3>2, <3>3 DEF Contents
      <4>2. Start(s) + (bufferPos[s] + 1) = Size(s) - remaining'[s]
        BY <1>6, <3>5
      <4>3. buffer[s][bufferPos[s] + 1] \in Key
        BY <1>1, <3>2, ElementOfSeq
      <4> QED  BY <3>3, <4>1, <4>2, <4>3
    <3> QED  BY <3>6, <3>7, <3>8
  <2> QED  BY <2>1, <2>2
<1> HIDE DEF item
<1>8. /\ InHeap' = InHeap \cup {s} /\ heap'[s] = item
      /\ \A t \in InHeap \ {s} : heap'[t] = heap[t]
  BY DEF With, InHeap, item
<1>9. Source_OK(s)'
  <2>1. AtHand(s)'
    BY <1>2, <1>7, <1>8 DEF AtHand, Size
  <2>2. Fetch(s)'
    <3>1. fetching'[s] # 0 => fetching'[s] = Lesser(CacheLen, RemainingInFile(s)) /\ pending'[s] = <<>>
      <4>1. CASE UsedUp(s) /\ RemainingInFile(s) > 0 /\ fetching[s] = 0
        BY <1>4, <1>6, <4>1, TryFetchStep
      <4>2. CASE ~(UsedUp(s) /\ RemainingInFile(s) > 0 /\ fetching[s] = 0)
        BY <1>3, <1>4, <1>6, <4>2, TryFetchStep DEF Fetch
      <4> QED  BY <4>1, <4>2
    <3>2. RemainingInFile(s)' = RemainingInFile(s)
      BY <1>2, <1>6 DEF RemainingInFile, Size
    <3> QED  BY <3>1, <3>2 DEF Fetch, Lesser
  <2>3. Thread(s)'
    <3>1. reading' # s /\ life'[s] = "live"
      BY NoSourceAssumption DEF Caller
    <3>2. ~asleep'[s]
      BY <1>6 DEF Caller
    <3>3. waiting'[s] = 0
      BY <1>3, <1>6 DEF Thread
    <3> QED  BY <3>1, <3>2, <3>3 DEF Thread
  <2>4. Fetched(s)'
    <3>1. /\ s \in Queued' => s \notin running
          /\ fetching'[s] # 0 <=> s \in Queued' \cup running
      BY <1>4, TryFetchStep
    <3>2. life'[s] = "live" /\ running' = running
      BY DEF Caller
    <3> QED  BY <3>1, <3>2 DEF Fetched
  <2> QED  BY <1>7, <2>1, <2>2, <2>3, <2>4 DEF Source_OK
<1>10. ASSUME NEW t \in Source, t # s
       PROVE  Source_OK(t)'
  <2>1. /\ remaining'[t] = remaining[t] /\ filePos'[t] = filePos[t]
        /\ buffer'[t] = buffer[t] /\ bufferPos'[t] = bufferPos[t] /\ pending'[t] = pending[t]
        /\ waiting'[t] = waiting[t] /\ asleep'[t] = asleep[t]
    BY <1>5, <1>10 DEF IInv, TypeOK
  <2>2. (t \in InHeap' <=> t \in InHeap) /\ (t \in InHeap => heap'[t] = heap[t])
    BY <1>8, <1>10
  <2> QED  BY <1>4, <1>10, <2>1, <2>2, OthersKept
<1>11. TypeOK'
  <2>1. Place(s)[1] \in Seq(Key) /\ Place(s)[2] \in Nat
    BY <1>1 DEF Place
  <2>2. <<>> \in Seq(Key)
    BY EmptySeq
  <2>3. /\ buffer' \in [Source -> Seq(Key)] /\ bufferPos' \in [Source -> Nat]
        /\ pending' \in [Source -> Seq(Key)]
        /\ filePos' \in [Source -> Nat] /\ asleep' \in [Source -> BOOLEAN]
    <3>1. /\ buffer \in [Source -> Seq(Key)] /\ pending \in [Source -> Seq(Key)]
          /\ bufferPos \in [Source -> Nat]
          /\ filePos \in [Source -> Nat] /\ asleep \in [Source -> BOOLEAN]
      BY DEF IInv, TypeOK
    <3>2. buffer' \in [Source -> Seq(Key)] /\ bufferPos' \in [Source -> Nat]
      BY <1>5, <2>1, <3>1
    <3>3. pending' \in [Source -> Seq(Key)]
      BY <1>5, <2>2, <3>1
    <3> QED  BY <1>5, <3>1, <3>2, <3>3
  <2>4. remaining' \in [Source -> Nat]
    BY <1>1, <1>5 DEF IInv, TypeOK
  <2>5. waiting' \in [Source -> Nat]
    <3>1. reading = s => waiting[s] - 1 \in Nat
      BY <1>3 DEF Thread
    <3> QED  BY <3>1 DEF IInv, TypeOK
  <2>6. tasks' \in Seq(Source) /\ fetching' \in [Source -> Nat]
    BY <1>4, TryFetchStep
  <2>7. InHeap' \subseteq Source /\ \A t \in InHeap' : heap'[t] \in Key
    BY <1>7, <1>8 DEF IInv, TypeOK
  <2>8. /\ file' \in [Source -> Files] /\ running' \subseteq Source
        /\ life' \in [Source -> {"new", "live", "spent", "cleared"}]
    BY DEF Caller, IInv, TypeOK
  <2> QED  BY <2>3, <2>4, <2>5, <2>6, <2>7, <2>8 DEF TypeOK
<1>12. Distinct(tasks)'
  BY <1>4, TryFetchStep
<1> QED  BY <1>9, <1>10, <1>11, <1>12 DEF IInv

\* The thread goes to sleep with a fetch on its way: items are left, none is in a buffer,
\* so some are left in the file.
LEMMA BlockStep ==
    ASSUME IInv, NEW s \in Source, Caller(s), Block(s),
           heap' = Without(s),
           reading' = s,
           waiting' = [waiting EXCEPT ![s] = IF reading = s THEN @ ELSE @ + 1]
    PROVE  IInv'
<1>1. /\ filePos[s] \in Nat /\ bufferPos[s] \in Nat /\ remaining[s] \in Nat /\ remaining[s] > 0
      /\ pending[s] = <<>> /\ Len(buffer[s]) \in Nat /\ bufferPos[s] = Len(buffer[s])
      /\ UsedUp(s)
  BY LenProperties DEF IInv, TypeOK, Caller, Block, CanRead, UsedUp
<1>2. Size(s) \in Nat /\ file' = file
  BY FileTyped DEF IInv, Caller
<1>3. Places(s) /\ Contents(s) /\ Fetch(s) /\ Thread(s)
  BY DEF IInv, Source_OK
<1>4. TryFetch(s)
  BY DEF Block
<1>5. /\ remaining' = remaining /\ filePos' = filePos /\ buffer' = buffer
      /\ bufferPos' = bufferPos /\ pending' = pending
      /\ asleep' = [asleep EXCEPT ![s] = TRUE]
  BY DEF Block
<1>6. RemainingInFile(s) > 0 /\ RemainingInFile(s) \in Nat
  <2>1. Len(pending[s]) = 0
    BY <1>1, EmptySeq
  <2>2. filePos[s] = Size(s) - remaining[s]
    BY <1>1, <1>2, <1>3, <2>1 DEF Places, Start
  <2> QED  BY <1>1, <1>2, <2>2 DEF RemainingInFile
<1>7. fetching'[s] # 0 /\ fetching'[s] = Lesser(CacheLen, RemainingInFile(s))
  <2>1. Lesser(CacheLen, RemainingInFile(s)) # 0
    BY <1>6, SizeAssumption DEF Lesser
  <2>2. CASE fetching[s] = 0
    BY <1>1, <1>4, <1>6, <2>1, <2>2, TryFetchStep
  <2>3. CASE fetching[s] # 0
    BY <1>3, <1>4, <2>3, TryFetchStep DEF Fetch
  <2> QED  BY <2>2, <2>3
<1>8. /\ InHeap' = InHeap \ {s}
      /\ \A t \in InHeap \ {s} : heap'[t] = heap[t]
  BY DEF Without, InHeap
<1>9. Source_OK(s)'
  <2>1. Places(s)' /\ Contents(s)'
    BY <1>2, <1>3, <1>5 DEF Places, Contents, Start, Size
  <2>2. AtHand(s)'
    BY <1>8 DEF AtHand
  <2>3. Fetch(s)'
    BY <1>1, <1>2, <1>5, <1>7 DEF Fetch, RemainingInFile, Size, Lesser
  <2>4. Thread(s)'
    <3>1. waiting'[s] = 1
      BY <1>3 DEF Thread, IInv, TypeOK
    <3>2. life'[s] = "live" /\ remaining'[s] > 0
      BY <1>1, <1>5 DEF Caller
    <3> QED  BY <1>7, <1>8, <3>1, <3>2 DEF Thread
  <2>5. Fetched(s)'
    <3>1. /\ s \in Queued' => s \notin running
          /\ fetching'[s] # 0 <=> s \in Queued' \cup running
      BY <1>4, TryFetchStep
    <3>2. life'[s] = "live" /\ running' = running
      BY DEF Caller
    <3> QED  BY <3>1, <3>2 DEF Fetched
  <2> QED  BY <2>1, <2>2, <2>3, <2>4, <2>5 DEF Source_OK
<1>10. ASSUME NEW t \in Source, t # s
       PROVE  Source_OK(t)'
  <2>1. /\ remaining'[t] = remaining[t] /\ filePos'[t] = filePos[t]
        /\ buffer'[t] = buffer[t] /\ bufferPos'[t] = bufferPos[t] /\ pending'[t] = pending[t]
        /\ waiting'[t] = waiting[t] /\ asleep'[t] = asleep[t]
    BY <1>5, <1>10 DEF IInv, TypeOK
  <2>2. (t \in InHeap' <=> t \in InHeap) /\ (t \in InHeap => heap'[t] = heap[t])
    BY <1>8, <1>10
  <2> QED  BY <1>4, <1>10, <2>1, <2>2, OthersKept
<1>11. TypeOK'
  <2>1. asleep' \in [Source -> BOOLEAN] /\ waiting' \in [Source -> Nat] /\ reading' \in Source
    BY <1>5 DEF IInv, TypeOK
  <2>2. tasks' \in Seq(Source) /\ fetching' \in [Source -> Nat]
    BY <1>4, TryFetchStep
  <2>3. InHeap' \subseteq Source /\ \A t \in InHeap' : heap'[t] \in Key
    BY <1>8 DEF IInv, TypeOK
  <2> QED  BY <1>5, <2>1, <2>2, <2>3 DEF Caller, IInv, TypeOK
<1>12. Distinct(tasks)'
  BY <1>4, TryFetchStep
<1> QED  BY <1>9, <1>10, <1>11, <1>12 DEF IInv

LEMMA PullStep ==
    ASSUME IInv, NEW s \in Source, Caller(s), Pull(s)
    PROVE  IInv'
BY TakeStep, BlockStep DEF Pull

-----------------------------------------------------------------------------
(* Every step preserves the invariant *)

LEMMA InitOK == Init => IInv
<1> SUFFICES ASSUME Init PROVE IInv
  OBVIOUS
<1>1. TypeOK
  <2>1. file \in [Source -> Files]
    BY DEF Init
  <2>2. \A s \in Source : Size(s) \in Nat
    <3> SUFFICES ASSUME NEW s \in Source PROVE Size(s) \in Nat
      OBVIOUS
    <3>1. PICK n \in Sizes : file[s] \in [1..n -> Key]
      BY <2>1 DEF Files
    <3>2. file[s] \in Seq(Key)
      BY <3>1, SizeAssumption, SeqDef DEF Sizes
    <3> QED  BY <3>2, LenProperties DEF Size
  <2>3. remaining \in [Source -> Nat]
    BY <2>2 DEF Init
  <2>4. tasks \in Seq(Source) /\ <<>> \in Seq(Key)
    BY EmptySeq DEF Init
  <2>5. InHeap = {}
    BY DEF Init, InHeap
  <2> QED  BY <2>1, <2>3, <2>4, <2>5 DEF Init, TypeOK
<1>2. Distinct(tasks) /\ Queued = {} /\ InHeap = {}
  BY DEF Init, Distinct, Queued, InHeap
<1>3. ASSUME NEW s \in Source
      PROVE  Source_OK(s)
  <2>1. /\ filePos[s] = 0 /\ bufferPos[s] = 0 /\ Len(buffer[s]) = 0 /\ Len(pending[s]) = 0
        /\ remaining[s] = Size(s) /\ fetching[s] = 0 /\ waiting[s] = 0 /\ ~asleep[s]
        /\ life[s] = "new" /\ reading # s /\ running = {}
    BY EmptySeq, NoSourceAssumption DEF Init
  <2>2. Size(s) \in Nat /\ Size(s) > 0
    BY <1>1, FileTyped
  <2>3. Start(s) = 0
    BY <2>1 DEF Start
  <2>4. Places(s) /\ Contents(s) /\ AtHand(s) /\ Fetch(s)
    BY <1>2, <2>1, <2>2, <2>3 DEF Places, Contents, AtHand, Fetch
  <2>5. Thread(s) /\ Fetched(s)
    BY <1>2, <2>1, <2>2 DEF Thread, Fetched
  <2> QED  BY <2>4, <2>5 DEF Source_OK
<1> QED  BY <1>1, <1>2, <1>3 DEF IInv

LEMMA AddSourceOK ==
    ASSUME IInv, NEW s \in Source, AddSource(s)
    PROVE  IInv'
<1>1. Thread(s)
  BY DEF IInv, Source_OK
<1>2. Caller(s)
  BY <1>1, NoSourceAssumption DEF AddSource, Caller, Thread, IInv, TypeOK
<1> QED  BY <1>2, PullStep DEF AddSource

LEMMA PopOK ==
    ASSUME IInv, NEW s \in Source, Pop(s)
    PROVE  IInv'
<1>1. Thread(s) /\ remaining[s] \in Nat
  BY DEF IInv, Source_OK, TypeOK
<1>2. Caller(s)
  BY <1>1, NoSourceAssumption DEF Pop, OnTop, Empty, Caller, Thread, IInv, TypeOK
<1> QED  BY <1>2, PullStep DEF Pop

LEMMA ResumeOK ==
    ASSUME IInv, NEW s \in Source, Resume(s)
    PROVE  IInv'
<1>1. Thread(s)
  BY DEF IInv, Source_OK
<1>2. Caller(s)
  BY <1>1 DEF Resume, Caller, Thread, IInv, TypeOK
<1> QED  BY <1>2, PullStep DEF Resume

\* The steps that leave the buffers of every source alone.
LEMMA BuffersKept ==
    ASSUME IInv, NEW s \in Source,
           file' = file, UNCHANGED sourceVars, s \in InHeap' => s \in InHeap /\ heap'[s] = heap[s]
    PROVE  Places(s)' /\ Contents(s)' /\ AtHand(s)' /\ Fetch(s)'
BY DEF IInv, Source_OK, sourceVars, Places, Contents, AtHand, Fetch, Start, Size,
       RemainingInFile, Lesser

\* A source that has nothing left has no fetch outstanding when pop deletes it.
LEMMA PopLastOK ==
    ASSUME IInv, NEW s \in Source, PopLast(s)
    PROVE  IInv'
<1>1. /\ file' = file /\ UNCHANGED sourceVars /\ reading' = reading /\ reading = NoSource
      /\ tasks' = tasks /\ running' = running /\ Queued' = Queued
      /\ life' = [life EXCEPT ![s] = "spent"] /\ remaining[s] = 0 /\ s \in InHeap
  BY DEF PopLast, Empty, OnTop, Queued
<1>2. InHeap' = InHeap \ {s} /\ \A t \in InHeap \ {s} : heap'[t] = heap[t]
  BY DEF PopLast, Without, InHeap
<1>3. fetching[s] = 0
  <2>1. /\ filePos[s] \in Nat /\ Len(buffer[s]) \in Nat /\ Len(pending[s]) \in Nat
        /\ bufferPos[s] \in Nat /\ Size(s) \in Nat
    BY LenProperties, FileTyped DEF IInv, TypeOK
  <2>2. Places(s) /\ Fetch(s)
    BY DEF IInv, Source_OK
  <2>3. RemainingInFile(s) = 0
    BY <1>1, <2>1, <2>2 DEF Places, Start, RemainingInFile
  <2> QED  BY <2>2, <2>3, SizeAssumption DEF Fetch, Lesser
<1>4. ASSUME NEW t \in Source
      PROVE  Source_OK(t)'
  <2>1. Places(t)' /\ Contents(t)' /\ AtHand(t)' /\ Fetch(t)'
    BY <1>1, <1>2, BuffersKept
  <2>2. Thread(t) /\ Fetched(t) /\ Thread(s) /\ Fetched(s)
    BY DEF IInv, Source_OK
  <2>3. CASE t = s
    BY <1>1, <1>2, <1>3, <2>1, <2>2, <2>3, NoSourceAssumption
    DEF Source_OK, Thread, Fetched, sourceVars, IInv, TypeOK
  <2>4. CASE t # s
    BY <1>1, <1>2, <2>1, <2>2, <2>4 DEF Source_OK, Thread, Fetched, sourceVars, IInv, TypeOK
  <2> QED  BY <2>3, <2>4
<1>5. TypeOK' /\ Distinct(tasks)'
  BY <1>1, <1>2 DEF IInv, TypeOK, sourceVars, Distinct
<1> QED  BY <1>4, <1>5 DEF IInv

LEMMA ClearOK ==
    ASSUME IInv, Clear
    PROVE  IInv'
<1>1. /\ file' = file /\ UNCHANGED sourceVars /\ reading' = reading /\ reading = NoSource
      /\ tasks' = tasks /\ running' = running /\ Queued' = Queued
      /\ life' = [t \in Source |-> IF t \in InHeap THEN "cleared" ELSE life[t]]
  BY DEF Clear, Queued
<1>2. InHeap' = {}
  BY DEF Clear, InHeap
<1>3. ASSUME NEW t \in Source
      PROVE  Source_OK(t)'
  <2>1. Places(t)' /\ Contents(t)' /\ AtHand(t)' /\ Fetch(t)'
    BY <1>1, <1>2, BuffersKept
  <2>2. Thread(t) /\ Fetched(t)
    BY DEF IInv, Source_OK
  <2>3. reading # t
    BY <1>1, NoSourceAssumption
  <2>4. life'[t] = IF t \in InHeap THEN "cleared" ELSE life[t]
    BY <1>1
  <2> QED  BY <1>1, <1>2, <2>1, <2>2, <2>3, <2>4 DEF Source_OK, Thread, Fetched, sourceVars
<1>4. TypeOK' /\ Distinct(tasks)'
  <2>1. life' \in [Source -> {"new", "live", "spent", "cleared"}]
    BY <1>1 DEF IInv, TypeOK
  <2> QED  BY <1>1, <1>2, <2>1 DEF IInv, TypeOK, sourceVars, Distinct
<1> QED  BY <1>3, <1>4 DEF IInv

LEMMA BeginOK ==
    ASSUME IInv, Begin
    PROVE  IInv'
<1>1. /\ file' = file /\ UNCHANGED sourceVars /\ reading' = reading /\ heap' = heap
      /\ InHeap' = InHeap /\ life' = life /\ tasks # <<>>
      /\ tasks' = Tail(tasks) /\ running' = running \cup {Head(tasks)}
  BY DEF Begin, InHeap
<1>2. Queued = Elements(tasks) /\ Queued' = Elements(tasks')
  BY DEF Queued, Elements
<1>3. /\ tasks' \in Seq(Source) /\ Distinct(tasks') /\ Head(tasks) \in Source
      /\ Queued = Queued' \cup {Head(tasks)} /\ Head(tasks) \notin Queued'
  BY <1>1, <1>2, QueuedAfterPop DEF IInv, TypeOK
<1>4. ASSUME NEW t \in Source
      PROVE  Source_OK(t)'
  <2>1. Places(t)' /\ Contents(t)' /\ AtHand(t)' /\ Fetch(t)'
    BY <1>1, BuffersKept
  <2>2. Thread(t) /\ Fetched(t)
    BY DEF IInv, Source_OK
  <2>3. Thread(t)'
    BY <1>1, <2>2 DEF Thread, sourceVars
  <2>4. fetching' = fetching
    BY <1>1 DEF sourceVars
  <2>5. Fetched(t)'
    BY <1>1, <1>3, <2>2, <2>4 DEF Fetched
  <2> QED  BY <2>1, <2>3, <2>5 DEF Source_OK
<1>5. TypeOK'
  BY <1>1, <1>3 DEF IInv, TypeOK, sourceVars
<1> QED  BY <1>3, <1>4, <1>5 DEF IInv

LEMMA StrayCbOK ==
    ASSUME IInv, NEW s \in Source, StrayCb(s)
    PROVE  IInv'
<1>1. /\ file' = file /\ UNCHANGED sourceVars /\ reading' = reading /\ heap' = heap
      /\ InHeap' = InHeap /\ life' = life /\ tasks' = tasks /\ Queued' = Queued
      /\ running' = running \ {s} /\ life[s] # "live"
  BY DEF StrayCb, InHeap, Queued
<1>2. ASSUME NEW t \in Source
      PROVE  Source_OK(t)'
  <2>1. Places(t)' /\ Contents(t)' /\ AtHand(t)' /\ Fetch(t)'
    BY <1>1, BuffersKept
  <2>2. Thread(t) /\ Fetched(t)
    BY DEF IInv, Source_OK
  <2>3. Thread(t)' /\ Fetched(t)'
    BY <1>1, <2>2 DEF Thread, Fetched, sourceVars
  <2> QED  BY <2>1, <2>3 DEF Source_OK
<1>3. TypeOK' /\ Distinct(tasks)'
  BY <1>1 DEF IInv, TypeOK, sourceVars, Distinct
<1> QED  BY <1>2, <1>3 DEF IInv

LEMMA WakeOK ==
    ASSUME IInv, NEW s \in Source, Wake(s)
    PROVE  IInv'
<1>1. /\ file' = file /\ reading' = reading /\ heap' = heap /\ InHeap' = InHeap
      /\ life' = life /\ tasks' = tasks /\ Queued' = Queued /\ running' = running
      /\ remaining' = remaining /\ filePos' = filePos /\ buffer' = buffer
      /\ bufferPos' = bufferPos /\ pending' = pending /\ fetching' = fetching
      /\ waiting' = waiting /\ asleep' = [asleep EXCEPT ![s] = FALSE]
  BY DEF Wake, InHeap, Queued
<1>2. ASSUME NEW t \in Source
      PROVE  Source_OK(t)'
  <2>1. Source_OK(t)
    BY DEF IInv
  <2>2. Places(t)' /\ Contents(t)' /\ AtHand(t)' /\ Fetch(t)' /\ Fetched(t)'
    BY <1>1, <2>1
    DEF Source_OK, Places, Contents, AtHand, Fetch, Fetched, Start, Size, RemainingInFile, Lesser
  <2>3. asleep'[t] => asleep[t]
    BY <1>1 DEF IInv, TypeOK
  <2>4. Thread(t)'
    BY <1>1, <2>1, <2>3 DEF Source_OK, Thread
  <2> QED  BY <2>2, <2>4 DEF Source_OK
<1>3. TypeOK' /\ Distinct(tasks)'
  BY <1>1 DEF IInv, TypeOK, Distinct
<1> QED  BY <1>2, <1>3 DEF IInv

\* The callback reads the next piece of the file into the empty buffer.
LEMMA FetchCbOK ==
    ASSUME IInv, NEW s \in Source, FetchCb(s)
    PROVE  IInv'
<1>a. PICK n \in Nat : n = fetching[s]
  BY DEF IInv, TypeOK
<1>b. PICK piece : piece = SubSeq(file[s], filePos[s] + 1, filePos[s] + n)
  OBVIOUS
<1>1. /\ file' = file /\ reading' = reading /\ heap' = heap /\ InHeap' = InHeap
      /\ life' = life /\ tasks' = tasks /\ Queued' = Queued /\ running' = running \ {s}
      /\ remaining' = remaining /\ buffer' = buffer /\ bufferPos' = bufferPos
      /\ waiting' = waiting /\ fetching' = [fetching EXCEPT ![s] = 0]
      /\ pending' = [pending EXCEPT ![s] = piece]
      /\ filePos' = [filePos EXCEPT ![s] = @ + n]
      /\ asleep' = [asleep EXCEPT ![s] = @ /\ ~Notifies(s)]
      /\ s \in running /\ life[s] = "live" /\ n # 0
  BY <1>a, <1>b DEF FetchCb, InHeap, Queued
<1>2. /\ filePos[s] \in Nat /\ bufferPos[s] \in Nat /\ remaining[s] \in Nat
      /\ Len(buffer[s]) \in Nat /\ asleep[s] \in BOOLEAN
  BY LenProperties DEF IInv, TypeOK
<1>3. file[s] \in Seq(Key) /\ Size(s) \in Nat /\ Size(s) = Len(file[s])
  BY FileTyped DEF IInv, Size
<1>4. /\ pending[s] = <<>> /\ Len(pending[s]) = 0
      /\ filePos[s] + n <= Size(s)
  <2>1. pending[s] = <<>> /\ n = Lesser(CacheLen, RemainingInFile(s))
    BY <1>1, <1>a DEF IInv, Source_OK, Fetch
  <2>2. n <= Size(s) - filePos[s]
    BY <1>2, <1>3, <2>1, SizeAssumption DEF Lesser, RemainingInFile
  <2> QED  BY <1>2, <1>3, <2>1, <2>2, EmptySeq
<1>5. /\ piece \in Seq(Key) /\ Len(piece) = n
      /\ \A i \in 1..n : piece[i] = file[s][filePos[s] + i]
  <2>1. n \in Nat \ {0} /\ filePos[s] + n <= Len(file[s])
    BY <1>1, <1>3, <1>4
  <2>2. file[s] \in Seq(Key) /\ filePos[s] \in Nat
    BY <1>2, <1>3
  <2>3. \A q \in Seq(Key), a \in Nat, k \in Nat \ {0} : a + k <= Len(q) =>
           /\ SubSeq(q, a + 1, a + k) \in Seq(Key) /\ Len(SubSeq(q, a + 1, a + k)) = k
           /\ \A i \in 1..k : SubSeq(q, a + 1, a + k)[i] = q[a + i]
    BY PieceOfSeq
  <2> QED  BY <1>b, <2>1, <2>2, <2>3, Zenon
<1>6. /\ filePos'[s] = filePos[s] + n /\ pending'[s] = piece /\ fetching'[s] = 0
      /\ asleep'[s] = (asleep[s] /\ ~Notifies(s)) /\ buffer'[s] = buffer[s]
  BY <1>1 DEF IInv, TypeOK
<1>7. Source_OK(s)'
  <2>1. Places(s) /\ Contents(s) /\ AtHand(s) /\ Thread(s) /\ Fetched(s)
    BY DEF IInv, Source_OK
  <2>2. PICK b \in Nat, x \in Nat : b = Len(buffer[s]) /\ x = filePos[s]
    BY <1>2
  <2>3. Start(s)' = Start(s) /\ Start(s) + Len(buffer[s]) = filePos[s] /\ Start(s) \in Int
    <3>1. Len(pending'[s]) = n /\ Len(buffer'[s]) = b /\ filePos'[s] = x + n
      BY <1>5, <1>6, <2>2
    <3>2. Start(s)' = filePos'[s] - Len(pending'[s]) - Len(buffer'[s])
      BY DEF Start
    <3>3. Start(s)' = (x + n) - n - b
      BY <3>1, <3>2
    <3>4. Start(s) = x - 0 - b
      BY <1>4, <2>2 DEF Start
    <3> QED  BY <2>2, <3>3, <3>4
  <2>4. Size(s)' = Size(s)
    BY <1>1 DEF Size
  <2>5. Places(s)'
    BY <1>1, <1>2, <1>3, <1>4, <1>6, <2>1, <2>3, <2>4 DEF Places
  <2>6. Contents(s)'
    BY <1>1, <1>2, <1>5, <1>6, <2>1, <2>3 DEF Contents
  <2>7. AtHand(s)' /\ Fetch(s)'
    BY <1>1, <1>6, <2>1, <2>4 DEF AtHand, Fetch
  <2>8. ~asleep'[s]
    <3>1. asleep[s] => Notifies(s)
      BY <2>1 DEF Thread, Notifies
    <3> QED  BY <1>6, <3>1
  <2>9. Thread(s)'
    BY <1>1, <1>6, <2>1, <2>8 DEF Thread
  <2>10. Fetched(s)'
    BY <1>1, <1>6, <2>1 DEF Fetched
  <2> QED  BY <2>5, <2>6, <2>7, <2>9, <2>10 DEF Source_OK
<1>8. ASSUME NEW t \in Source, t # s
      PROVE  Source_OK(t)'
  <2>1. Source_OK(t)
    BY DEF IInv
  <2>2. /\ filePos'[t] = filePos[t] /\ pending'[t] = pending[t] /\ fetching'[t] = fetching[t]
        /\ asleep'[t] = asleep[t]
    BY <1>1, <1>8 DEF IInv, TypeOK
  <2>3. Places(t)' /\ Contents(t)' /\ AtHand(t)' /\ Fetch(t)'
    BY <1>1, <2>1, <2>2
    DEF Source_OK, Places, Contents, AtHand, Fetch, Start, Size, RemainingInFile, Lesser
  <2>4. Thread(t)' /\ Fetched(t)'
    BY <1>1, <1>8, <2>1, <2>2 DEF Source_OK, Thread, Fetched
  <2> QED  BY <2>3, <2>4 DEF Source_OK
<1>9. TypeOK'
  <2>1. pending' \in [Source -> Seq(Key)] /\ filePos' \in [Source -> Nat]
    <3>1. pending \in [Source -> Seq(Key)] /\ filePos \in [Source -> Nat] /\ filePos[s] + n \in Nat
      BY <1>2, <1>a DEF IInv, TypeOK
    <3> QED  BY <1>1, <1>5, <3>1
  <2>2. fetching' \in [Source -> Nat] /\ asleep' \in [Source -> BOOLEAN]
    BY <1>1, <1>2 DEF IInv, TypeOK
  <2> QED  BY <1>1, <2>1, <2>2 DEF IInv, TypeOK
<1>10. Distinct(tasks)'
  BY <1>1 DEF IInv, Distinct
<1> QED  BY <1>7, <1>8, <1>9, <1>10 DEF IInv

\* The invariant is inductive.
LEMMA IInvInductive == Spec => []IInv
<1>1. Init => IInv
  BY InitOK
<1>2. IInv /\ [Next]_vars => IInv'
  <2> SUFFICES ASSUME IInv, [Next]_vars PROVE IInv'
    OBVIOUS
  <2>1. CASE UNCHANGED vars
    <3>1. /\ file' = file /\ life' = life /\ UNCHANGED sourceVars /\ heap' = heap
          /\ reading' = reading /\ tasks' = tasks /\ running' = running
          /\ InHeap' = InHeap /\ Queued' = Queued
      BY <2>1 DEF vars, InHeap, Queued
    <3>2. ASSUME NEW t \in Source PROVE Source_OK(t)'
      <4>1. Places(t)' /\ Contents(t)' /\ AtHand(t)' /\ Fetch(t)'
        BY <3>1, BuffersKept
      <4>2. Thread(t)' /\ Fetched(t)'
        BY <3>1 DEF IInv, Source_OK, Thread, Fetched, sourceVars
      <4> QED  BY <4>1, <4>2 DEF Source_OK
    <3>3. TypeOK' /\ Distinct(tasks)'
      BY <3>1 DEF IInv, TypeOK, Distinct, sourceVars
    <3> QED  BY <3>2, <3>3 DEF IInv
  <2>2. CASE Clear
    BY <2>2, ClearOK
  <2>3. CASE Begin
    BY <2>3, BeginOK
  <2>4. ASSUME NEW s \in Source,
               AddSource(s) \/ Pop(s) \/ PopLast(s) \/ Resume(s) \/ FetchCb(s) \/ StrayCb(s) \/ Wake(s)
        PROVE  IInv'
    BY <2>4, AddSourceOK, PopOK, PopLastOK, ResumeOK, FetchCbOK, StrayCbOK, WakeOK
  <2> QED  BY <2>1, <2>2, <2>3, <2>4 DEF Next
<1> QED  BY <1>1, <1>2, PTL DEF Spec

-----------------------------------------------------------------------------

\* Of every source, each piece of the file is fetched once and its items are taken once and
\* in order; no source is deleted by pop with a fetch outstanding.
THEOREM SourcesCorrect == Spec => []SourcesExact
<1>1. IInv => SourcesExact
  <2> SUFFICES ASSUME IInv PROVE SourcesExact
    OBVIOUS
  <2>1. ASSUME NEW s \in Source
        PROVE  /\ Outstanding(s)
               /\ fetching[s] # 0 => /\ pending[s] = <<>>
                                     /\ fetching[s] = Lesser(CacheLen, RemainingInFile(s))
    BY DEF IInv, Source_OK, Fetch, Fetched, Outstanding, Distinct
  <2>2. FetchesExact
    BY <2>1 DEF FetchesExact, IInv
  <2>3. InFileOrder
    <3> SUFFICES ASSUME NEW s \in Source
                 PROVE  /\ bufferPos[s] \in 0..Len(buffer[s])
                        /\ Start(s) + bufferPos[s] = Size(s) - remaining[s]
                        /\ \A i \in DOMAIN buffer[s] : buffer[s][i] = file[s][Start(s) + i]
                        /\ \A i \in DOMAIN pending[s] :
                              pending[s][i] = file[s][Start(s) + Len(buffer[s]) + i]
                        /\ s \in InHeap => heap[s] = file[s][Size(s) - remaining[s]]
      BY DEF InFileOrder, Start
    <3>1. DOMAIN buffer[s] = 1..Len(buffer[s]) /\ DOMAIN pending[s] = 1..Len(pending[s])
      BY LenProperties DEF IInv, TypeOK
    <3> QED  BY <3>1 DEF IInv, Source_OK, Places, Contents, AtHand
  <2> QED  BY <2>2, <2>3 DEF SourcesExact
<1> QED  BY <1>1, IInvInductive, PTL

\* The thread that sleeps in cv_.wait has a fetch on its way whose callback will see it in
\* num_waiting_.
THEOREM SleeperCorrect == Spec => []SleeperAwaited
<1>1. IInv => SleeperAwaited
  BY DEF IInv, Source_OK, Thread, SleeperAwaited
<1> QED  BY <1>1, IInvInductive, PTL

-----------------------------------------------------------------------------
(* The items not yet popped.                                               *)

Held == UNION {Left(s) : s \in {r \in Source : life[r] = "live"}}

\* The first item of s not yet popped.
Item(s) == <<s, FirstLeft(s), file[s][FirstLeft(s)]>>

\* What the mapping needs beyond IInv: a source that takes part has an item in the heap,
\* unless the thread is fetching one for it.
TakesPart(s) ==
    /\ remaining[s] <= Size(s)
    /\ s \in InHeap => remaining[s] < Size(s)
    /\ life[s] = "live" => s \in InHeap \/ reading = s
    /\ life[s] = "new" => remaining[s] = Size(s)

MInv == IInv /\ \A s \in Source : TakesPart(s)

LEMMA FirstLeftTyped ==
    ASSUME MInv, NEW s \in Source
    PROVE  /\ remaining[s] \in Nat /\ Size(s) \in Nat /\ Size(s) <= MaxSize
           /\ FirstLeft(s) \in Nat /\ FirstLeft(s) >= 1
           /\ s \in InHeap => FirstLeft(s) = Size(s) - remaining[s] /\ FirstLeft(s) <= Size(s)
           /\ s \notin InHeap => FirstLeft(s) = Size(s) - remaining[s] + 1
<1>1. TypeOK /\ TakesPart(s)
  BY DEF MInv, IInv
<1>2. Size(s) \in Nat /\ remaining[s] \in Nat
  BY <1>1, FileTyped DEF TypeOK
<1>3. Size(s) <= MaxSize
  <2>1. PICK n \in Sizes : file[s] \in [1..n -> Key]
    BY <1>1 DEF TypeOK, Files
  <2>2. n \in Nat /\ n <= MaxSize
    BY <2>1, SizeAssumption DEF Sizes
  <2>3. DOMAIN file[s] = 1..n /\ DOMAIN file[s] = 1..Size(s)
    BY <1>1, <2>1, FileTyped
  <2>4. Size(s) = n
    BY <1>2, <2>2, <2>3
  <2>5. QED BY <2>2, <2>4
<1>4. QED BY <1>1, <1>2, <1>3 DEF TakesPart, FirstLeft

LEMMA HeldIs ==
    \A e : e \in Held <=> \E s \in Source : /\ life[s] = "live"
                                            /\ \E i \in FirstLeft(s)..Size(s) : e = <<s, i, file[s][i]>>
BY DEF Held, Left

\* A step that changes neither which sources take part nor the first items left.
LEMMA HeldSame ==
    ASSUME file' = file,
           \A t \in Source : life'[t] = "live" <=> life[t] = "live",
           \A t \in Source : life[t] = "live" => FirstLeft(t)' = FirstLeft(t)
    PROVE  Held' = Held
<1>1. \A t \in Source : life[t] = "live" => Left(t)' = Left(t)
  BY DEF Left, Size
<1>2. {r \in Source : life[r] = "live"}' = {r \in Source : life[r] = "live"}
  OBVIOUS
<1>3. QED BY <1>1, <1>2 DEF Held

\* A step that takes the first item of s.
LEMMA HeldDrops ==
    ASSUME MInv, NEW s \in Source, life[s] = "live", s \in InHeap, file' = file,
           \A t \in Source \ {s} :
              /\ life'[t] = "live" <=> life[t] = "live"
              /\ life[t] = "live" => FirstLeft(t)' = FirstLeft(t),
           \/ life'[s] = "live" /\ FirstLeft(s)' = FirstLeft(s) + 1
           \/ life'[s] # "live" /\ FirstLeft(s) = Size(s)
    PROVE  Item(s) \in Held /\ Held' = Held \ {Item(s)}
<1>1. /\ FirstLeft(s) \in Nat /\ Size(s) \in Nat /\ FirstLeft(s) <= Size(s)
      /\ \A t \in Source : Size(t)' = Size(t)
  BY FirstLeftTyped DEF Size
<1>2. Item(s) \in Held
  <2>1. FirstLeft(s) \in FirstLeft(s)..Size(s)
    BY <1>1
  <2>2. QED BY <2>1, HeldIs DEF Item
<1>3. ASSUME NEW e \in Held' PROVE e \in Held \ {Item(s)}
  <2>1. PICK t \in Source : life'[t] = "live" /\ e \in Left(t)'
    BY <1>3 DEF Held
  <2>2. PICK i \in FirstLeft(t)'..Size(t) : e = <<t, i, file[t][i]>>
    BY <2>1, <1>1 DEF Left
  <2>3. CASE t # s
    BY <2>1, <2>2, <2>3, HeldIs DEF Item
  <2>4. CASE t = s
    <3>1. i \in FirstLeft(s)..Size(s) /\ i # FirstLeft(s)
      BY <1>1, <2>1, <2>2, <2>4
    <3>2. QED BY <2>2, <2>4, <3>1, HeldIs DEF Item
  <2>5. QED BY <2>3, <2>4
<1>4. ASSUME NEW e \in Held \ {Item(s)} PROVE e \in Held'
  <2>1. PICK t \in Source : life[t] = "live" /\ \E i \in FirstLeft(t)..Size(t) : e = <<t, i, file[t][i]>>
    BY <1>4, HeldIs
  <2>2. PICK i \in FirstLeft(t)..Size(t) : e = <<t, i, file[t][i]>>
    BY <2>1
  <2>3. life'[t] = "live" /\ i \in FirstLeft(t)'..Size(t)
    <3>1. CASE t # s BY <2>1, <2>2, <3>1
    <3>2. CASE t = s
      <4>1. i # FirstLeft(s) BY <1>4, <2>2, <3>2 DEF Item
      <4>2. QED BY <1>1, <2>2, <3>2, <4>1
    <3>3. QED BY <3>1, <3>2
  <2>4. e \in Left(t)'
    BY <1>1, <2>2, <2>3 DEF Left
  <2>5. QED BY <2>3, <2>4 DEF Held
<1>5. QED BY <1>2, <1>3, <1>4

-----------------------------------------------------------------------------
(* The calls of the queue *)

\* What Pull does to the source and to the others.
LEMMA PullMove ==
    ASSUME MInv, NEW s \in Source, Caller(s), Pull(s)
    PROVE  /\ FirstLeft(s)' = Size(s) - remaining[s] + 1
           /\ TakesPart(s)'
           /\ \A t \in Source \ {s} :
                 FirstLeft(t)' = FirstLeft(t) /\ (reading # t => (TakesPart(t) => TakesPart(t)'))
<1>1. /\ file' = file /\ remaining \in [Source -> Nat] /\ remaining[s] > 0
      /\ remaining[s] \in Nat /\ Size(s) \in Nat /\ remaining[s] <= Size(s)
      /\ \A t \in Source : Size(t)' = Size(t)
      /\ reading \in {NoSource, s}
  BY FirstLeftTyped DEF Caller, Size, MInv, IInv, TypeOK, TakesPart
<1>2. CASE Take(s) /\ heap' = With(s, Place(s)[1][Place(s)[2] + 1]) /\ reading' = NoSource
  <2>1. InHeap' = InHeap \cup {s}
    BY <1>2 DEF With, InHeap
  <2>2. remaining' = [remaining EXCEPT ![s] = @ - 1]
    BY <1>2 DEF Take
  <2>3. QED BY <1>1, <1>2, <2>1, <2>2 DEF FirstLeft, TakesPart, Caller
<1>3. CASE Block(s) /\ heap' = Without(s) /\ reading' = s
  <2>1. InHeap' = InHeap \ {s}
    BY <1>3 DEF Without, InHeap
  <2>2. remaining' = remaining
    BY <1>3 DEF Block
  <2>3. QED BY <1>1, <1>3, <2>1, <2>2 DEF FirstLeft, TakesPart, Caller
<1>4. QED BY <1>2, <1>3 DEF Pull

\* After a call, all sources are as they should be.
LEMMA PullParts ==
    ASSUME MInv, NEW s \in Source, Caller(s), Pull(s)
    PROVE  \A t \in Source : TakesPart(t)'
<1>1. reading \in {NoSource, s}
  BY DEF Caller
<1>2. ASSUME NEW t \in Source \ {s} PROVE TakesPart(t)'
  <2>1. reading # t
    BY <1>1, <1>2, NoSourceAssumption
  <2>2. QED BY <2>1, PullMove DEF MInv
<1>3. QED BY <1>2, PullMove

\* A step that leaves the files, the counts and the heap alone.
LEMMA PartsKept ==
    ASSUME MInv, file' = file, remaining' = remaining, life' = life, heap' = heap, reading' = reading
    PROVE  (\A t \in Source : TakesPart(t)') /\ Held' = Held
<1>1. \A t \in Source : TakesPart(t)'
  BY DEF MInv, TakesPart, Size, InHeap
<1>2. \A t \in Source : FirstLeft(t)' = FirstLeft(t)
  BY DEF FirstLeft, Size, InHeap
<1>3. QED BY <1>1, <1>2, HeldSame

\* add_source brings in the items of the new source.
LEMMA AddSourceInserts ==
    ASSUME MInv, NEW s \in Source, AddSource(s), MInv'
    PROVE  /\ Held # Held' /\ Held \subseteq Held' /\ Held' \subseteq Element
           /\ WholeFile(Held' \ Held)
<1>1. Thread(s) /\ TypeOK
  BY DEF MInv, IInv, Source_OK
<1>2. Caller(s) /\ Pull(s)
  BY <1>1, NoSourceAssumption DEF AddSource, Caller, Thread, TypeOK
<1>3. /\ life[s] = "new" /\ life'[s] = "live" /\ file' = file /\ remaining[s] > 0
      /\ \A t \in Source \ {s} : life'[t] = life[t] /\ FirstLeft(t)' = FirstLeft(t)
      /\ \A t \in Source : Size(t)' = Size(t)
      /\ FirstLeft(s)' = Size(s) - remaining[s] + 1
  BY <1>1, <1>2, PullMove DEF AddSource, Caller, Size
<1>4. Held \subseteq Held'
  <2> SUFFICES ASSUME NEW e \in Held PROVE e \in Held'
    OBVIOUS
  <2>1. PICK t \in Source : life[t] = "live" /\ e \in Left(t)
    BY DEF Held
  <2>2. t # s
    BY <1>3, <2>1
  <2>3. life'[t] = "live" /\ Left(t)' = Left(t)
    BY <1>3, <2>1, <2>2 DEF Left
  <2>4. QED BY <2>1, <2>3 DEF Held
<1>5. WholeFile(Held' \ Held) /\ Held # Held'
  <2>1. file[s] \in Files /\ DOMAIN file[s] = 1..Size(s)
    BY <1>1, FileTyped DEF TypeOK
  <2>2. FirstLeft(s)' = 1
    <3>1. remaining[s] = Size(s) /\ Size(s) \in Nat
      BY <1>3, FirstLeftTyped DEF MInv, TakesPart
    <3>2. QED BY <1>3, <3>1
  <2>3. Left(s)' = {<<s, i, file[s][i]>> : i \in DOMAIN file[s]}
    BY <1>3, <2>1, <2>2 DEF Left
  <2>4. Held' = Held \cup Left(s)'
    <3>1. \A t \in Source \ {s} : Left(t)' = Left(t)
      BY <1>3 DEF Left
    <3>2. \A t \in Source : life'[t] = "live" <=> life[t] = "live" \/ t = s
      BY <1>3
    <3>3. \A e : e \in Held' <=> e \in Held \cup Left(s)'
      BY <1>3, <3>1, <3>2 DEF Held
    <3>4. QED BY <3>3
  <2>5. Left(s)' \cap Held = {}
    <3>1. \A e \in Left(s)' : e[1] = s
      BY <2>3
    <3>2. \A e \in Held : e[1] # s
      BY <1>3 DEF Held, Left
    <3>3. QED BY <3>1, <3>2
  <2>6. Held' \ Held = Left(s)'
    BY <2>4, <2>5
  <2>7. <<s, 1, file[s][1]>> \in Left(s)'
    BY <1>1, <2>1, <2>3, FileTyped
  <2>8. QED BY <2>1, <2>3, <2>6, <2>7 DEF WholeFile
<1>6. Held' \subseteq Element
  <2> SUFFICES ASSUME NEW e \in Held' PROVE e \in Element
    OBVIOUS
  <2>1. PICK t \in Source : life'[t] = "live" /\ e \in Left(t)'
    BY DEF Held
  <2>2. PICK i \in FirstLeft(t)'..Size(t) : e = <<t, i, file[t][i]>>
    BY <1>3, <2>1 DEF Left
  <2>3. FirstLeft(t)' \in Nat /\ FirstLeft(t)' >= 1
    <3>1. CASE t # s BY <1>3, <3>1, FirstLeftTyped
    <3>2. CASE t = s
      <4>1. remaining[s] \in Nat /\ Size(s) \in Nat /\ remaining[s] <= Size(s)
        BY FirstLeftTyped DEF MInv, TakesPart
      <4>2. QED BY <1>3, <3>2, <4>1
    <3>3. QED BY <3>1, <3>2
  <2>4. Size(t) \in Nat /\ Size(t) <= MaxSize
    BY FirstLeftTyped
  <2>5. i \in Sizes /\ i \in 1..Size(t)
    BY <2>2, <2>3, <2>4, SizeAssumption DEF Sizes
  <2>6. file[t][i] \in Key
    BY <1>1, <2>5, FileTyped
  <2>7. QED BY <2>2, <2>5, <2>6 DEF Element
<1>7. QED BY <1>4, <1>5, <1>6

\* While the thread is in no source, the item on top of the heap is a greatest of all.
LEMMA TopIsFirst ==
    ASSUME MInv, reading = NoSource, NEW s \in Source, OnTop(s)
    PROVE  \A f \in Held : ~Greater(f, Item(s))
<1> SUFFICES ASSUME NEW f \in Held PROVE ~Greater(f, Item(s))
  OBVIOUS
<1>1. PICK t \in Source : life[t] = "live" /\ \E i \in FirstLeft(t)..Size(t) : f = <<t, i, file[t][i]>>
  BY HeldIs
<1>2. PICK i \in FirstLeft(t)..Size(t) : f = <<t, i, file[t][i]>>
  BY <1>1
<1>3. t \in InHeap /\ s \in InHeap /\ heap[t] <= heap[s]
  BY <1>1, NoSourceAssumption DEF MInv, TakesPart, OnTop
<1>4. TypeOK /\ heap[t] = file[t][FirstLeft(t)] /\ heap[s] = file[s][FirstLeft(s)]
  BY <1>3, FirstLeftTyped DEF MInv, IInv, Source_OK, AtHand
<1>5. FirstLeft(t) \in Nat /\ FirstLeft(t) >= 1 /\ Size(t) \in Nat /\ i \in 1..Size(t) /\ FirstLeft(t) \in 1..i
  BY <1>2, FirstLeftTyped
<1>6. file[t][i] <= file[t][FirstLeft(t)]
  <2>1. Sorted(file[t]) /\ DOMAIN file[t] = 1..Size(t)
    BY <1>4, FileTyped DEF TypeOK, Files
  <2>2. file[t][FirstLeft(t)] >= file[t][i]
    BY <1>5, <2>1 DEF Sorted
  <2>3. file[t][FirstLeft(t)] \in Int /\ file[t][i] \in Int
    BY <1>3, <1>4, <1>5, FileTyped, SourceAssumption DEF TypeOK
  <2>4. QED BY <2>2, <2>3
<1>7. file[t][i] \in Int /\ heap[t] \in Int /\ heap[s] \in Int
  BY <1>3, <1>4, <1>5, FileTyped, SourceAssumption DEF TypeOK
<1>8. file[t][i] <= heap[s]
  BY <1>3, <1>4, <1>6, <1>7
<1>9. f[3] = file[t][i] /\ Item(s)[3] = heap[s]
  BY <1>2, <1>4 DEF Item
<1>10. QED BY <1>7, <1>8, <1>9 DEF Greater

\* pop takes the item on top, whether its source has another at hand, has to wait for it,
\* or is done.
LEMMA PopTakes ==
    ASSUME MInv, NEW s \in Source, Pop(s) \/ PopLast(s)
    PROVE  Merge!TakeFirst /\ \A t \in Source : TakesPart(t)'
<1>1. /\ reading = NoSource /\ OnTop(s) /\ s \in InHeap /\ life[s] = "live"
      /\ TypeOK /\ Thread(s) /\ file' = file
  BY DEF Pop, PopLast, OnTop, MInv, IInv, Source_OK, Thread
<1>2. FirstLeft(s) = Size(s) - remaining[s] /\ remaining[s] \in Nat /\ Size(s) \in Nat
  BY <1>1, FirstLeftTyped
<1>3. ASSUME Pop(s)
      PROVE  Held' = Held \ {Item(s)} /\ Item(s) \in Held /\ \A t \in Source : TakesPart(t)'
  <2>1. Caller(s) /\ Pull(s) /\ life' = life
    BY <1>1, <1>2, <1>3, NoSourceAssumption DEF Pop, Empty, Caller, Thread, TypeOK
  <2>2. FirstLeft(s)' = FirstLeft(s) + 1 /\ \A t \in Source \ {s} : FirstLeft(t)' = FirstLeft(t)
    BY <1>2, <2>1, PullMove
  <2>3. Held' = Held \ {Item(s)} /\ Item(s) \in Held
    BY <1>1, <2>1, <2>2, HeldDrops
  <2>4. QED BY <2>1, <2>3, PullParts
<1>4. ASSUME PopLast(s)
      PROVE  Held' = Held \ {Item(s)} /\ Item(s) \in Held /\ \A t \in Source : TakesPart(t)'
  <2>1. /\ remaining' = remaining /\ remaining[s] = 0 /\ reading' = reading
        /\ life' = [life EXCEPT ![s] = "spent"] /\ life \in [Source -> {"new", "live", "spent", "cleared"}]
        /\ \A t \in Source : Size(t)' = Size(t)
    BY <1>1, <1>4 DEF PopLast, Empty, sourceVars, Size, TypeOK
  <2>2. InHeap' = InHeap \ {s}
    BY <1>4 DEF PopLast, Without, InHeap
  <2>3. \A t \in Source \ {s} : FirstLeft(t)' = FirstLeft(t) /\ life'[t] = life[t]
    BY <2>1, <2>2 DEF FirstLeft
  <2>4. Held' = Held \ {Item(s)} /\ Item(s) \in Held
    BY <1>1, <1>2, <2>1, <2>3, HeldDrops
  <2>5. \A t \in Source : TakesPart(t)'
    BY <2>1, <2>2 DEF MInv, TakesPart
  <2>6. QED BY <2>4, <2>5
<1>5. \A f \in Held : ~Greater(f, Item(s))
  BY <1>1, TopIsFirst
<1>6. QED BY <1>3, <1>4, <1>5 DEF Merge!TakeFirst, Held

\* The way back from cv_.wait takes nothing: the item waited for is still held.
LEMMA ResumeKeeps ==
    ASSUME MInv, NEW s \in Source, Resume(s)
    PROVE  Held' = Held /\ \A t \in Source : TakesPart(t)'
<1>1. Thread(s) /\ TypeOK
  BY DEF MInv, IInv, Source_OK
<1>2. Caller(s) /\ Pull(s) /\ life' = life /\ file' = file /\ s \notin InHeap
  BY <1>1 DEF Resume, Caller, Thread, TypeOK
<1>3. FirstLeft(s)' = FirstLeft(s) /\ \A t \in Source \ {s} : FirstLeft(t)' = FirstLeft(t)
  BY <1>2, PullMove, FirstLeftTyped
<1>4. Held' = Held
  BY <1>2, <1>3, HeldSame
<1>5. QED BY <1>2, <1>4, PullParts

\* clear leaves nothing, since the thread is in no source.
LEMMA ClearEmpties ==
    ASSUME MInv, Clear
    PROVE  Held' = {} /\ \A t \in Source : TakesPart(t)'
<1>1. /\ reading = NoSource /\ reading' = reading /\ file' = file /\ remaining' = remaining
      /\ life' = [t \in Source |-> IF t \in InHeap THEN "cleared" ELSE life[t]]
      /\ InHeap' = {}
  BY DEF Clear, sourceVars, InHeap
<1>2. \A t \in Source : life'[t] # "live"
  BY <1>1, NoSourceAssumption DEF MInv, TakesPart
<1>3. Held' = {}
  BY <1>2 DEF Held
<1>4. QED BY <1>1, <1>2, <1>3 DEF TakesPart, Size, MInv

-----------------------------------------------------------------------------
(* All steps *)

LEMMA StepMaps ==
    ASSUME MInv, IInv', [Next]_vars
    PROVE  (\A t \in Source : TakesPart(t)') /\ [Merge!Next]_Held
<1> USE DEF Merge!Next
<1>1. ASSUME NEW s \in Source, AddSource(s)
      PROVE  (\A t \in Source : TakesPart(t)') /\ Merge!Insert
  <2>1. Thread(s) /\ TypeOK
    BY DEF MInv, IInv, Source_OK
  <2>2. Caller(s) /\ Pull(s)
    BY <1>1, <2>1, NoSourceAssumption DEF AddSource, Caller, Thread, TypeOK
  <2>3. \A t \in Source : TakesPart(t)'
    BY <2>2, PullParts
  <2>4. /\ Held # Held' /\ Held \subseteq Held' /\ Held' \subseteq Element
        /\ WholeFile(Held' \ Held)
    BY <1>1, <2>3, AddSourceInserts DEF MInv
  <2>5. QED BY <2>3, <2>4 DEF Merge!Insert, Held
<1>2. ASSUME NEW s \in Source, Pop(s) \/ PopLast(s)
      PROVE  (\A t \in Source : TakesPart(t)') /\ Merge!TakeFirst
  BY <1>2, PopTakes
<1>3. ASSUME NEW s \in Source, Resume(s)
      PROVE  (\A t \in Source : TakesPart(t)') /\ Held' = Held
  BY <1>3, ResumeKeeps
<1>4. ASSUME Clear PROVE (\A t \in Source : TakesPart(t)') /\ Merge!Clear
  BY <1>4, ClearEmpties DEF Merge!Clear, Held
<1>5. ASSUME NEW s \in Source, FetchCb(s) \/ StrayCb(s) \/ Wake(s)
      PROVE  (\A t \in Source : TakesPart(t)') /\ Held' = Held
  <2>1. file' = file /\ remaining' = remaining /\ life' = life /\ heap' = heap /\ reading' = reading
    BY <1>5 DEF FetchCb, StrayCb, Wake, sourceVars
  <2>2. QED BY <2>1, PartsKept
<1>6. ASSUME Begin \/ UNCHANGED vars
      PROVE  (\A t \in Source : TakesPart(t)') /\ Held' = Held
  <2>1. file' = file /\ remaining' = remaining /\ life' = life /\ heap' = heap /\ reading' = reading
    BY <1>6 DEF Begin, vars, sourceVars
  <2>2. QED BY <2>1, PartsKept
<1>7. QED BY <1>1, <1>2, <1>3, <1>4, <1>5, <1>6 DEF Next

LEMMA InitMaps == Init => Held = {} /\ \A s \in Source : TakesPart(s)
<1> SUFFICES ASSUME Init PROVE Held = {} /\ \A s \in Source : TakesPart(s)
  OBVIOUS
<1>1. Held = {}
  BY DEF Init, Held
<1>2. TypeOK
  BY InitOK DEF IInv
<1>3. InHeap = {} /\ \A s \in Source : Size(s) \in Nat
  BY <1>2, FileTyped DEF Init, InHeap
<1>4. QED BY <1>1, <1>3 DEF Init, TakesPart

\* The queue is a priority queue: of all items of all sources added, on disk, in a buffer, on
\* their way or in the heap, pop takes a greatest, and nothing else but clear takes any.
THEOREM MergeCorrect == Spec => MergesInOrder
<1>1. Init => MInv /\ Merge!Init
  BY InitOK, InitMaps DEF MInv, Merge!Init, Held
<1>2. MInv /\ IInv' /\ [Next]_vars => MInv' /\ [Merge!Next]_Held
  BY StepMaps DEF MInv
<1>3. QED BY <1>1, <1>2, IInvInductive, PTL DEF Spec, MergesInOrder, Merge!Spec, Held


-----------------------------------------------------------------------------
(* SteepestAscent: the pointers.                                           *)

LEMMA ChunkVoxels ==
    /\ SA!Voxel = 1..Len(Around) /\ Len(Around) \in Nat /\ Inner \in Nat /\ High \in Int /\ Low \in Int
    /\ \A v \in SA!Voxel : Around[v] \in Seq(SA!Voxel)
    /\ \A v \in 1..Inner : v \in SA!Voxel
<1>1. Around \in Seq(Seq(1..Len(Around))) /\ Inner <= Len(Around) /\ Inner \in Nat /\ High \in Int /\ Low \in Int
  BY VoxelsAssumption
<1>2. Len(Around) \in Nat /\ DOMAIN Around = 1..Len(Around)
  BY <1>1
<1>3. \A v \in 1..Len(Around) : Around[v] \in Seq(1..Len(Around))
  BY <1>1
<1>4. QED BY <1>1, <1>2, <1>3 DEF SA!Voxel

LEMMA BesideIs ==
    ASSUME cmat \in Affinities, NEW v \in SA!Voxel, NEW w \in SA!Beside(v)
    PROVE  /\ w \in SA!Voxel /\ v \in SA!Beside(w)
           /\ SA!Affinity(v, w) \in Int /\ SA!Affinity(w, v) = SA!Affinity(v, w)
           /\ v > Inner => SA!Beside(v) = {w}
<1>1. PICK k \in DOMAIN Around[v] : Around[v][k] = w
  BY DEF SA!Beside, SA!Elements
<1>2. w \in SA!Voxel
  BY <1>1, ChunkVoxels
<1>3. /\ \E j \in DOMAIN Around[w] : Around[w][j] = v
      /\ \A f \in Affinities : f[{v, w}] \in Int
  BY <1>1, <1>2, VoxelsAssumption DEF SA!Voxel
<1>4. {w, v} = {v, w}
  OBVIOUS
<1>5. SA!Affinity(v, w) \in Int /\ SA!Affinity(w, v) = SA!Affinity(v, w)
  BY <1>3, <1>4 DEF SA!Affinity
<1>6. ASSUME v > Inner PROVE SA!Beside(v) = {w}
  <2>1. Len(Around[v]) <= 1 /\ Around[v] \in Seq(SA!Voxel)
    BY <1>6, VoxelsAssumption, ChunkVoxels DEF SA!Voxel
  <2>2. DOMAIN Around[v] = 1..Len(Around[v]) /\ Len(Around[v]) \in Nat
    BY <2>1
  <2>3. DOMAIN Around[v] = {1} /\ k = 1
    BY <1>1, <2>1, <2>2
  <2>4. QED BY <1>1, <2>3 DEF SA!Beside, SA!Elements
<1>7. QED BY <1>2, <1>3, <1>5, <1>6 DEF SA!Beside, SA!Elements

LEMMA PointsAre ==
    ASSUME NEW v \in SA!Voxel
    PROVE  SA!Points(v) \subseteq SA!Beside(v) /\ SA!Points(v) \subseteq SA!Voxel
<1>1. SA!Points(v) \subseteq SA!Beside(v)
  BY DEF SA!Points
<1>2. SA!Beside(v) \subseteq SA!Voxel
  BY ChunkVoxels DEF SA!Beside, SA!Elements
<1>3. QED BY <1>1, <1>2

\* Affinities do not get lower along the pointers: a way that does not lead back at once
\* never does.
LEMMA OneWay ==
    ASSUME cmat \in Affinities, NEW y \in SA!Voxel, NEW w \in SA!Points(y), y \notin SA!Points(w)
    PROVE  \E T \in SUBSET SA!Voxel : w \in T /\ y \notin T /\ SA!KeepsIn(T, SA!Voxel)
<1> DEFINE a == SA!Affinity(y, w)
<1>1. w \in SA!Beside(y) /\ w \in SA!Voxel
  BY PointsAre
<1>2. y \in SA!Beside(w) /\ a \in Int /\ SA!Affinity(w, y) = a
  BY <1>1, BesideIs
<1>3. High \in Int /\ Low \in Int /\ Inner \in Nat /\ y \in Nat /\ w \in Nat
  BY <1>1, ChunkVoxels
<1>4. CASE SA!Points(w) = {}
  <2>1. w # y
    BY <1>4
  <2>2. SA!KeepsIn({w}, SA!Voxel)
    BY <1>4 DEF SA!KeepsIn
  <2>3. QED BY <1>1, <2>1, <2>2
<1>5. CASE SA!Points(w) # {}
  <2> HIDE DEF a
  <2>1. w <= Inner => \E x \in SA!Beside(w) : SA!Affinity(w, x) >= Low
    BY <1>3, <1>5 DEF SA!Points
  <2>2. w <= Inner
    <3>1. ASSUME w > Inner PROVE FALSE
      <4>1. SA!Beside(w) = {y}
        BY <1>1, <1>2, <3>1, BesideIs
      <4>2. QED BY <1>1, <1>5, <4>1, PointsAre
    <3>2. QED BY <1>3, <3>1
  <2>3. a < High
    BY <1>2, <1>3, <2>1, <2>2 DEF SA!Points
  <2>4. \A x \in SA!Beside(y) : SA!Affinity(y, x) <= a
    <3>1. CASE y <= Inner
      BY <1>2, <1>3, <2>3, <3>1 DEF SA!Points, SA!IsHighest, a
    <3>2. CASE y > Inner
      <4>1. SA!Beside(y) = {w}
        BY <1>1, <3>2, BesideIs
      <4>2. QED BY <1>2, <4>1 DEF a
    <3>3. QED BY <1>3, <3>1, <3>2
  <2>5. PICK z \in SA!Beside(w) : SA!Affinity(w, z) > a
    <3>1. ~SA!IsHighest(w, y)
      BY <1>2, <1>3, <2>1, <2>2 DEF SA!Points
    <3>2. PICK z \in SA!Beside(w) : ~(SA!Affinity(w, z) <= a)
      BY <1>2, <3>1 DEF SA!IsHighest
    <3>3. SA!Affinity(w, z) \in Int
      BY <1>1, <3>2, BesideIs
    <3>4. QED BY <1>2, <3>2, <3>3
  <2> DEFINE T == {v \in SA!Voxel : SA!Points(v) = {} \/ \E x \in SA!Beside(v) : SA!Affinity(v, x) > a}
  <2>6. w \in T
    BY <1>1, <2>5
  <2>7. y \notin T
    <3>1. \A x \in SA!Beside(y) : SA!Affinity(y, x) \in Int
      BY BesideIs
    <3>2. QED BY <1>2, <2>4, <3>1
  <2>8. ASSUME NEW v \in T, NEW x \in SA!Points(v) PROVE x \in T
    <3>1. x \in SA!Beside(v) /\ x \in SA!Voxel
      BY PointsAre
    <3>2. PICK u \in SA!Beside(v) : SA!Affinity(v, u) > a
      BY <2>8
    <3>3. /\ SA!Affinity(v, u) \in Int /\ SA!Affinity(v, x) \in Int
          /\ v \in SA!Beside(x) /\ SA!Affinity(x, v) = SA!Affinity(v, x)
      BY <3>1, <3>2, BesideIs
    <3>4. SA!Affinity(v, x) > a
      <4>1. CASE v <= Inner
        <5>1. SA!IsHighest(v, x) \/ SA!Affinity(v, x) >= High
          BY <1>3, <4>1 DEF SA!Points
        <5>2. SA!Affinity(v, u) <= SA!Affinity(v, x) \/ SA!Affinity(v, x) >= High
          BY <3>2, <5>1 DEF SA!IsHighest
        <5>3. QED BY <1>2, <1>3, <2>3, <3>2, <3>3, <5>2
      <4>2. CASE v > Inner
        BY <3>1, <3>2, <4>2, BesideIs
      <4>3. v \in Nat
        BY ChunkVoxels
      <4>4. QED BY <1>3, <4>1, <4>2, <4>3
    <3>5. QED BY <3>1, <3>3, <3>4
  <2>9. SA!KeepsIn(T, SA!Voxel)
    BY <2>8 DEF SA!KeepsIn
  <2>10. QED BY <2>6, <2>7, <2>9
<1>6. QED BY <1>4, <1>5

-----------------------------------------------------------------------------
(* SteepestAscent: the search.                                             *)

Visited == SA!Elements(bfs)

\* The plateau that the search is on, which begins at place k of bfs.
Stage(k) == {bfs[j] : j \in k..Len(bfs)}

\* All that was visited leads to the plateau and all of this to all of it; the pointers
\* looked at lead to what was visited; and what came before the plateau is out of its reach.
OnStage(k) ==
    /\ k \in DOMAIN bfs /\ k <= bfs_index /\ (ahead # <<>> => k < bfs_index)
    /\ \A S \in SA!Kept(Visited) : Stage(k) \subseteq S
    /\ \A j \in k..bfs_index - 1 : SA!Points(bfs[j]) \subseteq
          Visited \cup (IF j = bfs_index - 1 THEN SA!Elements(ahead) ELSE {})
    /\ \E S \in SUBSET SA!Voxel : SA!KeepsIn(S, SA!Voxel) /\ S \cap Visited = Stage(k)

AscentOK ==
    /\ cmat \in Affinities
    /\ seg \in [SA!Voxel -> Nat] /\ next_id \in Nat \ {0} /\ idx \in 1..Inner + 1
    /\ bfs \in Seq(SA!Voxel) /\ bfs_index \in 1..Len(bfs) + 1 /\ ahead \in Seq(SA!Voxel)

Searching ==
    /\ \A v \in SA!Voxel : seg[v] < next_id
    /\ bfs = <<>> => ahead = <<>>
    /\ bfs # <<>> => /\ idx <= Inner /\ idx \in Visited
                     /\ \A v \in Visited : seg[v] = 0
                     /\ \E k \in DOMAIN bfs : OnStage(k)

AInv == AscentOK /\ Searching /\ SegmentsAreBasins

\* What SegmentsAreBasins says of each segment.
Basin(s) == \E summit \in SA!Kept(s) :
    SA!KeepsIn(summit, SA!Voxel) /\ \A S \in SA!Kept(s) : summit \subseteq S
VoxelsOf(id) == {v \in SA!Voxel : seg[v] = id}

LEMMA PointsSame ==
    ASSUME cmat' = cmat
    PROVE  /\ \A v : SA!Points(v)' = SA!Points(v)
           /\ \A S, T : SA!KeepsIn(S, T)' <=> SA!KeepsIn(S, T)
           /\ \A s : SA!Kept(s)' = SA!Kept(s)
<1>1. \A v, w : SA!Affinity(v, w)' = SA!Affinity(v, w)
  BY DEF SA!Affinity
<1>2. \A v : SA!Points(v)' = SA!Points(v)
  BY <1>1 DEF SA!Points, SA!IsHighest, SA!Beside, SA!Elements
<1>3. \A S, T : SA!KeepsIn(S, T)' <=> SA!KeepsIn(S, T)
  BY <1>2 DEF SA!KeepsIn
<1>4. QED BY <1>2, <1>3 DEF SA!Kept

LEMMA VisitedVoxels ==
    ASSUME AscentOK
    PROVE  /\ Visited \subseteq SA!Voxel /\ Len(bfs) \in Nat /\ DOMAIN bfs = 1..Len(bfs)
           /\ \A k \in DOMAIN bfs : Stage(k) \subseteq Visited /\ bfs[k] \in Stage(k)
BY DEF AscentOK, Visited, Stage, SA!Elements

\* What a part of the larger set keeps, it keeps of the smaller.
LEMMA KeptLess ==
    ASSUME NEW B, NEW C, B \subseteq C, NEW S, SA!KeepsIn(S, C), S \cap B # {}
    PROVE  S \cap B \in SA!Kept(B)
BY DEF SA!Kept, SA!KeepsIn

\* The search reaches w from y on its plateau.
LEMMA ReachesOn ==
    ASSUME AscentOK, Searching, bfs # <<>>, NEW k \in DOMAIN bfs, OnStage(k),
           NEW y \in Stage(k), NEW w \in SA!Points(y), w \notin Visited, NEW S \in SA!Kept(Visited \cup {w})
    PROVE  /\ w \in S
           /\ S \cap Visited = {} => y \notin SA!Points(w)
           /\ S \cap Visited # {} => Stage(k) \subseteq S
<1>1. S # {} /\ S \subseteq Visited \cup {w} /\ SA!KeepsIn(S, Visited \cup {w})
  BY DEF SA!Kept
<1>2. y \in Visited
  BY VisitedVoxels
<1>3. CASE S \cap Visited = {}
  <2>1. S = {w}
    BY <1>1, <1>3
  <2>2. y \notin SA!Points(w)
    BY <1>1, <1>2, <2>1 DEF SA!KeepsIn
  <2>3. QED BY <1>3, <2>1, <2>2
<1>4. CASE S \cap Visited # {}
  <2>1. S \cap Visited \in SA!Kept(Visited)
    BY <1>1, <1>4, KeptLess
  <2>2. Stage(k) \subseteq S
    BY <2>1 DEF OnStage
  <2>3. w \in S
    BY <1>1, <2>2 DEF SA!KeepsIn
  <2>4. QED BY <1>4, <2>2, <2>3
<1>5. QED BY <1>3, <1>4

-----------------------------------------------------------------------------
(* SteepestAscent: the steps.                                              *)

LEMMA AscentInit == ASSUME SA!Init PROVE AInv
<1>1. /\ cmat \in Affinities /\ seg = [v \in SA!Voxel |-> 0] /\ next_id = 1 /\ idx = 1
      /\ bfs = <<>> /\ bfs_index = 1 /\ ahead = <<>>
  BY DEF SA!Init
<1>2. Inner \in Nat
  BY ChunkVoxels
<1>3. AscentOK
  BY <1>1, <1>2 DEF AscentOK
<1>4. Searching
  BY <1>1 DEF Searching
<1>5. SegmentsAreBasins
  BY <1>1 DEF SegmentsAreBasins, SA!SegmentsAreBasins
<1>6. QED BY <1>3, <1>4, <1>5 DEF AInv

\* A step that gives no segments.
LEMMA BasinsStay ==
    ASSUME SegmentsAreBasins, cmat' = cmat, seg' = seg, next_id' = next_id,
           idx' = idx \/ (idx' = idx + 1 /\ seg[idx] \in 1..next_id - 1), idx \in Nat
    PROVE  SegmentsAreBasins'
<1>1. /\ \A v \in 1..idx - 1 : seg[v] \in 1..next_id - 1
      /\ \A id \in 1..next_id - 1 :
            LET s == {v \in SA!Voxel : seg[v] = id}
            IN  \E summit \in SA!Kept(s) :
                   SA!KeepsIn(summit, SA!Voxel) /\ \A S \in SA!Kept(s) : summit \subseteq S
  BY DEF SegmentsAreBasins, SA!SegmentsAreBasins
<1>2. \A v \in 1..idx' - 1 : seg[v] \in 1..next_id - 1
  BY <1>1
<1>3. \A id \in 1..next_id - 1 :
         LET s == {v \in SA!Voxel : seg[v] = id}
         IN  \E summit \in SA!Kept(s)' :
                SA!KeepsIn(summit, SA!Voxel)' /\ \A S \in SA!Kept(s)' : summit \subseteq S
  BY <1>1, PointsSame
<1>4. QED BY <1>2, <1>3 DEF SegmentsAreBasins, SA!SegmentsAreBasins

LEMMA BeginKeeps == ASSUME AInv, SA!Begin PROVE AInv'
<1>1. /\ bfs = <<>> /\ idx <= Inner /\ ahead = <<>>
      /\ \/ seg[idx] # 0 /\ idx' = idx + 1 /\ bfs' = bfs
         \/ seg[idx] = 0 /\ bfs' = <<idx>> /\ idx' = idx
      /\ cmat' = cmat /\ seg' = seg /\ next_id' = next_id /\ bfs_index' = bfs_index /\ ahead' = ahead
  BY DEF SA!Begin, AInv, Searching
<1>2. AscentOK /\ idx \in SA!Voxel /\ Inner \in Nat /\ bfs_index = 1
  BY <1>1, ChunkVoxels DEF AInv, AscentOK
<1>3. CASE seg[idx] # 0 /\ idx' = idx + 1 /\ bfs' = bfs
  <2>1. seg[idx] \in 1..next_id - 1
    BY <1>2, <1>3 DEF AInv, AscentOK, Searching
  <2>2. SegmentsAreBasins'
    BY <1>1, <1>2, <1>3, <2>1, BasinsStay DEF AInv, AscentOK
  <2>3. AscentOK'
    BY <1>1, <1>2, <1>3 DEF AscentOK
  <2>4. Searching'
    BY <1>1, <1>3 DEF AInv, Searching
  <2>5. QED BY <2>2, <2>3, <2>4 DEF AInv
<1>4. CASE seg[idx] = 0 /\ bfs' = <<idx>> /\ idx' = idx
  <2>1. SegmentsAreBasins'
    BY <1>1, <1>2, <1>4, BasinsStay DEF AInv, AscentOK
  <2>2. AscentOK'
    BY <1>1, <1>2, <1>4 DEF AscentOK
  <2>3. Visited' = {idx} /\ Stage(1)' = {idx} /\ DOMAIN bfs' = {1}
    BY <1>4 DEF Visited, Stage, SA!Elements
  <2>4. OnStage(1)'
    <3>1. \A S \in SA!Kept(Visited)' : Stage(1)' \subseteq S
      BY <2>3 DEF SA!Kept
    <3>2. SA!KeepsIn(SA!Voxel, SA!Voxel)'
      BY DEF SA!KeepsIn
    <3>3. SA!Voxel \cap Visited' = Stage(1)'
      BY <1>2, <2>3
    <3>4. 1..bfs_index' - 1 = {} /\ 1 \in DOMAIN bfs' /\ 1 <= bfs_index' /\ ahead' = <<>>
      BY <1>1, <1>2, <2>3
    <3>5. \A j \in 1..bfs_index' - 1 : SA!Points(bfs[j])' \subseteq
             Visited' \cup (IF j = bfs_index' - 1 THEN SA!Elements(ahead') ELSE {})
      BY <3>4
    <3>6. \E S \in SUBSET SA!Voxel : SA!KeepsIn(S, SA!Voxel)' /\ S \cap Visited' = Stage(1)'
      BY <3>2, <3>3
    <3>7. SA!Voxel' = SA!Voxel
      BY DEF SA!Voxel
    <3>8. QED BY <3>1, <3>4, <3>5, <3>6, <3>7 DEF OnStage
  <2>5. Searching'
    BY <1>1, <1>4, <2>3, <2>4 DEF AInv, Searching
  <2>6. QED BY <2>1, <2>2, <2>5 DEF AInv
<1>5. QED BY <1>1, <1>3, <1>4

\* What the search is at when it looks at a direction.
LEMMA HereIs ==
    ASSUME AInv, ahead # <<>>
    PROVE  \E k \in DOMAIN bfs :
              /\ OnStage(k) /\ SA!Here \in Stage(k) /\ SA!Here \in SA!Voxel /\ bfs # <<>>
              /\ bfs_index - 1 \in k..Len(bfs)
              /\ Head(ahead) \in SA!Voxel /\ Tail(ahead) \in Seq(SA!Voxel)
              /\ SA!Elements(ahead) = {Head(ahead)} \cup SA!Elements(Tail(ahead))
<1>1. AscentOK /\ bfs # <<>>
  BY DEF AInv, Searching
<1>2. PICK k \in DOMAIN bfs : OnStage(k)
  BY <1>1 DEF AInv, Searching
<1>3. bfs_index \in 1..Len(bfs) + 1 /\ k < bfs_index /\ k \in 1..Len(bfs) /\ Len(bfs) \in Nat
  BY <1>1, <1>2, VisitedVoxels DEF OnStage, AscentOK
<1>4. bfs_index - 1 \in k..Len(bfs)
  BY <1>3
<1>5. SA!Here \in Stage(k)
  BY <1>4 DEF Stage, SA!Here
<1>6. SA!Here \in SA!Voxel
  BY <1>1, <1>2, <1>5, VisitedVoxels
<1>7. /\ Head(ahead) \in SA!Voxel /\ Tail(ahead) \in Seq(SA!Voxel)
      /\ SA!Elements(ahead) = {Head(ahead)} \cup SA!Elements(Tail(ahead))
  <2>1. ahead \in Seq(SA!Voxel)
    BY <1>1 DEF AscentOK
  <2>2. /\ Head(ahead) = ahead[1] /\ Len(ahead) \in Nat /\ Len(ahead) >= 1 /\ DOMAIN ahead = 1..Len(ahead)
        /\ Tail(ahead) \in Seq(SA!Voxel) /\ Len(Tail(ahead)) = Len(ahead) - 1
        /\ \A i \in 1..Len(ahead) - 1 : Tail(ahead)[i] = ahead[i + 1]
    BY <2>1
  <2>3. DOMAIN Tail(ahead) = 1..Len(ahead) - 1
    BY <2>2
  <2>4. ASSUME NEW i \in DOMAIN ahead PROVE ahead[i] \in {Head(ahead)} \cup SA!Elements(Tail(ahead))
    <3>1. CASE i = 1
      BY <2>2, <3>1
    <3>2. CASE i # 1
      <4>1. i - 1 \in DOMAIN Tail(ahead) /\ Tail(ahead)[i - 1] = ahead[i]
        BY <2>2, <2>3, <3>2
      <4>2. QED BY <4>1 DEF SA!Elements
    <3>3. QED BY <3>1, <3>2
  <2>5. ASSUME NEW i \in DOMAIN Tail(ahead) PROVE Tail(ahead)[i] \in SA!Elements(ahead)
    <3>1. i + 1 \in DOMAIN ahead /\ Tail(ahead)[i] = ahead[i + 1]
      BY <2>2, <2>3
    <3>2. QED BY <3>1 DEF SA!Elements
  <2>6. Head(ahead) \in SA!Elements(ahead) /\ ahead[1] \in SA!Voxel
    BY <2>1, <2>2 DEF SA!Elements
  <2>7. QED BY <2>2, <2>4, <2>5, <2>6 DEF SA!Elements
<1>8. QED BY <1>1, <1>2, <1>4, <1>5, <1>6, <1>7

\* A step of the search that visits nothing new.
LEMMA StageStays ==
    ASSUME AscentOK, Searching, bfs # <<>>, bfs' = bfs, cmat' = cmat, seg' = seg, next_id' = next_id,
           idx' = idx, NEW k \in DOMAIN bfs, OnStage(k),
           k <= bfs_index', ahead' # <<>> => k < bfs_index',
           \A j \in k..bfs_index' - 1 : SA!Points(bfs[j]) \subseteq
              Visited \cup (IF j = bfs_index' - 1 THEN SA!Elements(ahead') ELSE {})
    PROVE  Searching'
<1>1. Visited' = Visited /\ Stage(k)' = Stage(k) /\ SA!Voxel' = SA!Voxel
  BY DEF Visited, Stage, SA!Elements, SA!Voxel
<1>2. \A S \in SA!Kept(Visited)' : Stage(k)' \subseteq S
  <2>1. SA!Kept(Visited)' = SA!Kept(Visited)
    BY <1>1, PointsSame DEF SA!Kept
  <2>2. QED BY <1>1, <2>1 DEF OnStage
<1>3. \E S \in SUBSET SA!Voxel : SA!KeepsIn(S, SA!Voxel)' /\ S \cap Visited' = Stage(k)'
  BY <1>1, PointsSame DEF OnStage
<1>4. \A j \in k..bfs_index' - 1 : SA!Points(bfs[j])' \subseteq
         Visited' \cup (IF j = bfs_index' - 1 THEN SA!Elements(ahead') ELSE {})
  <2>1. ASSUME NEW j PROVE SA!Points(bfs[j])' = SA!Points(bfs[j])
    BY PointsSame
  <2>2. QED BY <1>1, <2>1
<1>5. k \in DOMAIN bfs'
  OBVIOUS
<1>6. OnStage(k)'
  BY <1>1, <1>2, <1>3, <1>4, <1>5 DEF OnStage
<1>7. QED BY <1>1, <1>5, <1>6 DEF Searching

LEMMA TakeFrontKeeps == ASSUME AInv, SA!TakeFront PROVE AInv'
<1>1. /\ ahead = <<>> /\ bfs_index <= Len(bfs) /\ bfs_index' = bfs_index + 1
      /\ ahead' = Around[bfs[bfs_index]]
      /\ cmat' = cmat /\ seg' = seg /\ next_id' = next_id /\ idx' = idx /\ bfs' = bfs
  BY DEF SA!TakeFront
<1>2. AscentOK /\ Len(bfs) \in Nat /\ bfs_index \in 1..Len(bfs) /\ bfs # <<>> /\ DOMAIN bfs = 1..Len(bfs)
  BY <1>1, VisitedVoxels DEF AInv, AscentOK
<1>3. PICK k \in DOMAIN bfs : OnStage(k)
  BY <1>2 DEF AInv, Searching
<1>4. bfs[bfs_index] \in SA!Voxel /\ k \in Nat /\ k <= bfs_index
  BY <1>2, <1>3 DEF AscentOK, OnStage
<1>5. AscentOK'
  <2>1. ahead' \in Seq(SA!Voxel)
    BY <1>1, <1>4, ChunkVoxels
  <2>2. SA!Voxel' = SA!Voxel
    BY DEF SA!Voxel
  <2>3. QED BY <1>1, <1>2, <2>1, <2>2 DEF AscentOK
<1>6. ASSUME NEW j \in k..bfs_index' - 1
      PROVE  SA!Points(bfs[j]) \subseteq
                Visited \cup (IF j = bfs_index' - 1 THEN SA!Elements(ahead') ELSE {})
  <2>1. CASE j = bfs_index
    <3>1. SA!Points(bfs[j]) \subseteq SA!Elements(ahead')
      BY <1>1, <1>4, <2>1, PointsAre DEF SA!Beside
    <3>2. QED BY <1>1, <1>2, <2>1, <3>1
  <2>2. CASE j # bfs_index
    <3>1. j \in k..bfs_index - 1
      BY <1>1, <1>2, <1>4, <2>2
    <3>2. SA!Elements(ahead) = {}
      BY <1>1 DEF SA!Elements
    <3>3. SA!Points(bfs[j]) \subseteq Visited
      BY <1>3, <3>1, <3>2 DEF OnStage
    <3>4. QED BY <3>3
  <2>3. QED BY <2>1, <2>2
<1>7. k <= bfs_index' /\ k < bfs_index'
  BY <1>1, <1>2, <1>4
<1>8. Searching'
  BY <1>1, <1>2, <1>3, <1>6, <1>7, StageStays DEF AInv
<1>9. SegmentsAreBasins'
  BY <1>1, <1>2, BasinsStay DEF AInv, AscentOK
<1>10. QED BY <1>5, <1>8, <1>9 DEF AInv

LEMMA SkipKeeps == ASSUME AInv, SA!Skip PROVE AInv'
<1>1. /\ ahead # <<>> /\ ahead' = Tail(ahead) /\ bfs_index' = bfs_index
      /\ Head(ahead) \notin SA!Points(SA!Here) \/ Head(ahead) \in Visited
      /\ cmat' = cmat /\ seg' = seg /\ next_id' = next_id /\ idx' = idx /\ bfs' = bfs
  BY DEF SA!Skip, SA!IsVisited, Visited
<1>2. PICK k \in DOMAIN bfs :
          /\ OnStage(k) /\ SA!Here \in Stage(k) /\ SA!Here \in SA!Voxel /\ bfs # <<>>
          /\ bfs_index - 1 \in k..Len(bfs)
          /\ Head(ahead) \in SA!Voxel /\ Tail(ahead) \in Seq(SA!Voxel)
          /\ SA!Elements(ahead) = {Head(ahead)} \cup SA!Elements(Tail(ahead))
  BY <1>1, HereIs
<1>3. AscentOK /\ SA!Voxel' = SA!Voxel
  BY DEF AInv, SA!Voxel
<1>4. AscentOK'
  BY <1>1, <1>2, <1>3 DEF AscentOK
<1>5. bfs_index \in Nat /\ k < bfs_index /\ k <= bfs_index
  BY <1>1, <1>2, <1>3 DEF AscentOK, OnStage
<1>6. ASSUME NEW j \in k..bfs_index' - 1
      PROVE  SA!Points(bfs[j]) \subseteq
                Visited \cup (IF j = bfs_index' - 1 THEN SA!Elements(ahead') ELSE {})
  <2>1. SA!Points(bfs[j]) \subseteq Visited \cup (IF j = bfs_index - 1 THEN SA!Elements(ahead) ELSE {})
    BY <1>1, <1>2 DEF OnStage
  <2>2. CASE j = bfs_index - 1
    <3>1. bfs[j] = SA!Here
      BY <2>2 DEF SA!Here
    <3>2. SA!Points(bfs[j]) \subseteq Visited \cup SA!Elements(Tail(ahead))
      BY <1>1, <1>2, <2>1, <2>2, <3>1
    <3>3. QED BY <1>1, <2>2, <3>2
  <2>3. CASE j # bfs_index - 1
    BY <1>1, <2>1, <2>3
  <2>4. QED BY <2>2, <2>3
<1>7. Searching'
  BY <1>1, <1>2, <1>3, <1>5, <1>6, StageStays DEF AInv
<1>8. SegmentsAreBasins'
  BY <1>1, <1>3, BasinsStay DEF AInv, AscentOK
<1>9. QED BY <1>4, <1>7, <1>8 DEF AInv

LEMMA ReachKeeps == ASSUME AInv, SA!Reach PROVE AInv'
<1> DEFINE w == Head(ahead)
           y == SA!Here
<1>1. /\ ahead # <<>> /\ w \in SA!Points(y) /\ seg[w] = 0 /\ w \notin Visited
      /\ bfs' = Append(bfs, w)
      /\ \/ y \notin SA!Points(w) /\ bfs_index' = Len(bfs) + 1 /\ ahead' = <<>>
         \/ y \in SA!Points(w) /\ bfs_index' = bfs_index /\ ahead' = Tail(ahead)
      /\ cmat' = cmat /\ seg' = seg /\ next_id' = next_id /\ idx' = idx
  BY DEF SA!Reach, SA!IsVisited, SA!Leaves, Visited
<1>2. PICK k \in DOMAIN bfs :
          /\ OnStage(k) /\ y \in Stage(k) /\ y \in SA!Voxel /\ bfs # <<>>
          /\ bfs_index - 1 \in k..Len(bfs)
          /\ w \in SA!Voxel /\ Tail(ahead) \in Seq(SA!Voxel)
          /\ SA!Elements(ahead) = {w} \cup SA!Elements(Tail(ahead))
  BY <1>1, HereIs
<1> HIDE DEF w
<1>3. AscentOK /\ Searching /\ SA!Voxel' = SA!Voxel /\ Visited \subseteq SA!Voxel
  BY VisitedVoxels DEF AInv, SA!Voxel
<1>4. /\ Len(bfs) \in Nat /\ DOMAIN bfs = 1..Len(bfs) /\ k \in 1..Len(bfs)
      /\ bfs_index \in Nat /\ k < bfs_index /\ bfs_index <= Len(bfs) + 1
  BY <1>1, <1>2, <1>3, VisitedVoxels DEF OnStage, AscentOK
<1>5. /\ Len(bfs') = Len(bfs) + 1 /\ DOMAIN bfs' = 1..Len(bfs) + 1 /\ bfs' \in Seq(SA!Voxel)
      /\ bfs'[Len(bfs) + 1] = w /\ \A j \in 1..Len(bfs) : bfs'[j] = bfs[j]
  BY <1>1, <1>2, <1>3, <1>4 DEF AscentOK
<1>6. Visited' = Visited \cup {w}
  <2>1. \A j \in 1..Len(bfs) + 1 : j = Len(bfs) + 1 \/ j \in 1..Len(bfs)
    BY <1>4
  <2>2. Len(bfs) + 1 \in 1..Len(bfs) + 1 /\ \A j \in 1..Len(bfs) : j \in 1..Len(bfs) + 1
    BY <1>4
  <2>3. QED BY <1>4, <1>5, <2>1, <2>2 DEF Visited, SA!Elements
<1>7. AscentOK'
  <2>1. ahead' \in Seq(SA!Voxel)
    <3>1. <<>> \in Seq(SA!Voxel)
      OBVIOUS
    <3>2. QED BY <1>1, <1>2, <3>1
  <2>2. bfs_index' \in 1..Len(bfs') + 1
    BY <1>1, <1>3, <1>4, <1>5 DEF AscentOK
  <2>3. QED BY <1>1, <1>3, <1>5, <2>1, <2>2 DEF AscentOK
<1>8. SegmentsAreBasins'
  BY <1>1, <1>3, BasinsStay DEF AInv, AscentOK
<1>9. \A S \in SA!Kept(Visited)' : S \in SA!Kept(Visited \cup {w})
  BY <1>1, <1>6, PointsSame DEF SA!Kept
<1>10. \A S \in SA!Kept(Visited)' :
          w \in S /\ (S \cap Visited = {} => y \notin SA!Points(w)) /\ (S \cap Visited # {} => Stage(k) \subseteq S)
  BY <1>1, <1>2, <1>3, <1>9, ReachesOn
<1>11. \E n \in DOMAIN bfs' : OnStage(n)'
  <2>1. CASE y \notin SA!Points(w) /\ bfs_index' = Len(bfs) + 1 /\ ahead' = <<>>
    <3>1. PICK n \in Nat : n = Len(bfs) + 1
      BY <1>4
    <3>2. Stage(n)' = {w}
      BY <1>4, <1>5, <3>1 DEF Stage
    <3>3. PICK T \in SUBSET SA!Voxel : w \in T /\ y \notin T /\ SA!KeepsIn(T, SA!Voxel)
      BY <1>1, <1>2, <1>3, <2>1, OneWay DEF AscentOK
    <3>4. T \cap Visited = {}
      <4>1. ASSUME T \cap Visited # {} PROVE FALSE
        <5>1. T \cap Visited \in SA!Kept(Visited)
          BY <1>3, <3>3, <4>1, KeptLess
        <5>2. y \in T
          BY <1>2, <5>1 DEF OnStage
        <5>3. QED BY <3>3, <5>2
      <4>2. QED BY <4>1
    <3>5. T \cap Visited' = Stage(n)' /\ SA!KeepsIn(T, SA!Voxel)'
      BY <1>3, <1>6, <3>2, <3>3, <3>4, PointsSame, <1>1
    <3>6. \A j \in n..bfs_index' - 1 : FALSE
      BY <1>4, <2>1, <3>1
    <3>7. n \in DOMAIN bfs' /\ n <= bfs_index'
      BY <1>4, <1>5, <2>1, <3>1
    <3>8. \A S \in SA!Kept(Visited)' : Stage(n)' \subseteq S
      BY <1>10, <3>2
    <3>9. OnStage(n)'
      BY <1>3, <2>1, <3>3, <3>5, <3>6, <3>7, <3>8 DEF OnStage
    <3>10. QED BY <3>7, <3>9
  <2>2. CASE y \in SA!Points(w) /\ bfs_index' = bfs_index /\ ahead' = Tail(ahead)
    <3>1. Stage(k)' = Stage(k) \cup {w}
      <4>1. \A j \in k..Len(bfs) + 1 : j = Len(bfs) + 1 \/ j \in k..Len(bfs)
        BY <1>4
      <4>2. Len(bfs) + 1 \in k..Len(bfs) + 1 /\ \A j \in k..Len(bfs) : j \in k..Len(bfs) + 1
        BY <1>4
      <4>3. \A j \in k..Len(bfs) : bfs'[j] = bfs[j]
        BY <1>4, <1>5
      <4>4. QED BY <1>5, <4>1, <4>2, <4>3 DEF Stage
    <3>2. PICK T \in SUBSET SA!Voxel : SA!KeepsIn(T, SA!Voxel) /\ T \cap Visited = Stage(k)
      BY <1>2 DEF OnStage
    <3>3. w \in T
      BY <1>1, <1>2, <3>2 DEF SA!KeepsIn
    <3>4. T \cap Visited' = Stage(k)' /\ SA!KeepsIn(T, SA!Voxel)'
      BY <1>1, <1>3, <1>6, <3>1, <3>2, <3>3, PointsSame
    <3>5. ASSUME NEW j \in k..bfs_index' - 1
          PROVE  SA!Points(bfs[j])' \subseteq
                    Visited' \cup (IF j = bfs_index' - 1 THEN SA!Elements(ahead') ELSE {})
      <4>1. bfs'[j] = bfs[j]
        BY <1>4, <1>5, <2>2
      <4>2. PICK v : v = bfs[j]
        OBVIOUS
      <4>3. SA!Points(bfs[j])' = SA!Points(v)
        <5>1. SA!Points(v)' = SA!Points(v)
          BY <1>1, PointsSame
        <5>2. QED BY <4>1, <4>2, <5>1
      <4>4. SA!Points(v) \subseteq Visited \cup (IF j = bfs_index - 1 THEN SA!Elements(ahead) ELSE {})
        BY <1>2, <2>2, <4>2 DEF OnStage
      <4>5. QED BY <1>2, <1>6, <2>2, <4>3, <4>4
    <3>6. k \in DOMAIN bfs' /\ k <= bfs_index' /\ k < bfs_index'
      BY <1>4, <1>5, <2>2
    <3>7. \A S \in SA!Kept(Visited)' : Stage(k)' \subseteq S
      BY <1>10, <2>2, <3>1
    <3>8. OnStage(k)'
      BY <1>3, <3>2, <3>4, <3>5, <3>6, <3>7 DEF OnStage
    <3>9. QED BY <3>6, <3>8
  <2>3. QED BY <1>1, <2>1, <2>2
<1>12. Searching'
  <2>1. bfs' # <<>>
    BY <1>4, <1>5
  <2>2. idx' \in Visited' /\ idx' <= Inner /\ \A v \in Visited' : seg'[v] = 0
    BY <1>1, <1>2, <1>3, <1>6 DEF Searching
  <2>3. \A v \in SA!Voxel' : seg'[v] < next_id'
    BY <1>1, <1>3 DEF Searching
  <2>4. QED BY <1>11, <2>1, <2>2, <2>3 DEF Searching
<1>13. QED BY <1>7, <1>8, <1>12 DEF AInv

\* The search gives what it has visited to a segment, a new one or one that it has met.
LEMMA AssignKeeps ==
    ASSUME AInv, bfs # <<>>, NEW id \in 1..next_id, SA!Assign(id), cmat' = cmat,
           next_id' = IF id = next_id THEN next_id + 1 ELSE next_id,
           id = next_id => Basin(Visited),
           id # next_id => \A S \in SA!Kept(Visited) :
               \E v \in S, w \in SA!Voxel : w \in SA!Points(v) /\ seg[w] = id
    PROVE  AInv'
<1>1. /\ seg' = [v \in SA!Voxel |-> IF v \in Visited THEN id ELSE seg[v]]
      /\ bfs' = <<>> /\ bfs_index' = 1 /\ ahead' = <<>> /\ idx' = idx + 1
  BY DEF SA!Assign, SA!IsVisited, Visited
<1>2. /\ AscentOK /\ SA!Voxel' = SA!Voxel /\ Visited \subseteq SA!Voxel /\ Inner \in Nat
      /\ idx \in Nat \ {0} /\ next_id \in Nat \ {0} /\ idx <= Inner /\ idx \in Visited
      /\ \A v \in Visited : seg[v] = 0
      /\ \A v \in SA!Voxel : seg[v] \in Nat /\ seg[v] < next_id
  BY VisitedVoxels, ChunkVoxels DEF AInv, AscentOK, Searching, SA!Voxel
<1>3. next_id' \in Nat \ {0} /\ id < next_id' /\ next_id <= next_id' /\ id \in Nat \ {0}
  BY <1>2
<1>4. AscentOK'
  <2>1. seg' \in [SA!Voxel -> Nat]
    BY <1>1, <1>2, <1>3
  <2>2. QED BY <1>1, <1>2, <1>3, <2>1 DEF AscentOK
<1>5. Searching'
  BY <1>1, <1>2, <1>3 DEF Searching
<1>6. /\ \A v \in 1..idx - 1 : seg[v] \in 1..next_id - 1
      /\ \A i \in 1..next_id - 1 : Basin(VoxelsOf(i))
  BY DEF AInv, SegmentsAreBasins, SA!SegmentsAreBasins, Basin, VoxelsOf
<1>7. \A v \in 1..idx' - 1 : seg'[v] \in 1..next_id' - 1
  <2>1. ASSUME NEW v \in 1..idx' - 1 PROVE seg'[v] \in 1..next_id' - 1
    <3>1. v \in 1..Inner /\ v \in SA!Voxel
      BY <1>1, <1>2, ChunkVoxels
    <3>2. CASE v \in Visited
      BY <1>1, <1>2, <1>3, <3>1, <3>2
    <3>3. CASE v \notin Visited
      <4>1. v \in 1..idx - 1
        BY <1>1, <1>2, <3>3
      <4>2. QED BY <1>1, <1>2, <1>3, <1>6, <3>1, <3>3, <4>1
    <3>4. QED BY <3>2, <3>3
  <2>2. QED BY <2>1
<1>8. ASSUME NEW i \in 1..next_id' - 1, NEW s, s = {v \in SA!Voxel : seg'[v] = i}
      PROVE  Basin(s)
  <2>1. CASE i # id
    <3>1. i \in 1..next_id - 1
      BY <1>2, <1>3, <2>1
    <3>2. s = VoxelsOf(i)
      <4>1. \A v \in SA!Voxel : seg'[v] = i <=> seg[v] = i
        BY <1>1, <1>2, <2>1, <3>1
      <4>2. QED BY <1>8, <4>1 DEF VoxelsOf
    <3>3. QED BY <1>6, <3>1, <3>2
  <2>2. CASE i = id /\ id = next_id
    <3>1. s = Visited
      <4>1. \A v \in SA!Voxel : seg'[v] = i <=> v \in Visited
        BY <1>1, <1>2, <2>2
      <4>2. QED BY <1>2, <1>8, <4>1
    <3>2. QED BY <2>2, <3>1
  <2>3. CASE i = id /\ id # next_id
    <3>1. s = VoxelsOf(id) \cup Visited
      <4>1. \A v \in SA!Voxel : seg'[v] = i <=> seg[v] = id \/ v \in Visited
        BY <1>1, <1>2, <2>3
      <4>2. QED BY <1>2, <1>8, <4>1 DEF VoxelsOf
    <3>2. PICK summit \in SA!Kept(VoxelsOf(id)) :
             SA!KeepsIn(summit, SA!Voxel) /\ \A S \in SA!Kept(VoxelsOf(id)) : summit \subseteq S
      BY <1>2, <1>6, <2>3 DEF Basin
    <3>3. summit \in SA!Kept(VoxelsOf(id) \cup Visited)
      BY <1>2, <3>2 DEF SA!Kept, SA!KeepsIn, VoxelsOf
    <3>4. ASSUME NEW S \in SA!Kept(VoxelsOf(id) \cup Visited) PROVE summit \subseteq S
      <4>1. S # {} /\ S \subseteq VoxelsOf(id) \cup Visited /\ SA!KeepsIn(S, VoxelsOf(id) \cup Visited)
        BY <3>4 DEF SA!Kept
      <4>2. S \cap VoxelsOf(id) # {}
        <5>1. ASSUME S \cap VoxelsOf(id) = {} PROVE FALSE
          <6>1. S \cap Visited # {} /\ S \cap Visited = S
            BY <4>1, <5>1
          <6>2. S \cap Visited \in SA!Kept(Visited)
            BY <4>1, <6>1, KeptLess
          <6>3. PICK v \in S, u \in SA!Voxel : u \in SA!Points(v) /\ seg[u] = id
            BY <2>3, <6>1, <6>2
          <6>4. u \in S
            BY <4>1, <6>3 DEF SA!KeepsIn, VoxelsOf
          <6>5. QED BY <5>1, <6>3, <6>4 DEF VoxelsOf
        <5>2. QED BY <5>1
      <4>3. S \cap VoxelsOf(id) \in SA!Kept(VoxelsOf(id))
        BY <4>1, <4>2, KeptLess
      <4>4. QED BY <3>2, <4>3
    <3>5. Basin(VoxelsOf(id) \cup Visited)
      BY <3>2, <3>3, <3>4 DEF Basin
    <3>6. QED BY <2>3, <3>1, <3>5
  <2>4. QED BY <2>1, <2>2, <2>3
<1>9. SegmentsAreBasins'
  <2>1. ASSUME NEW s PROVE Basin(s)' <=> Basin(s)
    BY <1>2, PointsSame DEF Basin
  <2>2. ASSUME NEW i \in 1..next_id' - 1, NEW s, s = {v \in SA!Voxel' : seg'[v] = i}
        PROVE  \E summit \in SA!Kept(s)' :
                  SA!KeepsIn(summit, SA!Voxel)' /\ \A S \in SA!Kept(s)' : summit \subseteq S
    <3>1. Basin(s)
      BY <1>2, <1>8, <2>2
    <3>2. Basin(s)'
      BY <2>1, <3>1
    <3>3. QED BY <3>2 DEF Basin
  <2>3. QED BY <1>2, <1>7, <2>2 DEF SegmentsAreBasins, SA!SegmentsAreBasins
<1>10. QED BY <1>4, <1>5, <1>9 DEF AInv

LEMMA MeetKeeps == ASSUME AInv, SA!Meet PROVE AInv'
<1> DEFINE w == Head(ahead)
<1>1. ahead # <<>> /\ w \in SA!Points(SA!Here) /\ seg[w] # 0 /\ SA!Assign(seg[w]) /\ cmat' = cmat /\ next_id' = next_id
  BY DEF SA!Meet
<1>2. PICK k \in DOMAIN bfs : OnStage(k) /\ SA!Here \in Stage(k) /\ bfs # <<>> /\ w \in SA!Voxel
  BY <1>1, HereIs
<1>3. seg[w] \in Nat /\ seg[w] < next_id /\ next_id \in Nat
  BY <1>2 DEF AInv, AscentOK, Searching
<1>4. seg[w] \in 1..next_id /\ seg[w] # next_id
  BY <1>1, <1>3
<1>5. \A S \in SA!Kept(Visited) : SA!Here \in S
  BY <1>2 DEF OnStage
<1>6. QED BY <1>1, <1>2, <1>4, <1>5, AssignKeeps

LEMMA NewSegmentKeeps == ASSUME AInv, SA!NewSegment PROVE AInv'
<1>1. /\ bfs # <<>> /\ ahead = <<>> /\ bfs_index > Len(bfs)
      /\ SA!Assign(next_id) /\ next_id' = next_id + 1 /\ cmat' = cmat
  BY DEF SA!NewSegment
<1>2. PICK k \in DOMAIN bfs : OnStage(k)
  BY <1>1 DEF AInv, Searching
<1>3. AscentOK /\ bfs_index = Len(bfs) + 1 /\ Len(bfs) \in Nat /\ next_id \in 1..next_id
  BY <1>1, VisitedVoxels DEF AInv, AscentOK
<1>4. Stage(k) \subseteq Visited /\ Stage(k) # {} /\ Visited \subseteq SA!Voxel
  BY <1>2, <1>3, VisitedVoxels
<1>5. PICK T \in SUBSET SA!Voxel : SA!KeepsIn(T, SA!Voxel) /\ T \cap Visited = Stage(k)
  BY <1>2 DEF OnStage
<1>6. ASSUME NEW v \in Stage(k) PROVE SA!Points(v) \subseteq Stage(k)
  <2>1. PICK j \in k..Len(bfs) : v = bfs[j]
    BY DEF Stage
  <2>2. SA!Elements(ahead) = {}
    BY <1>1 DEF SA!Elements
  <2>3. SA!Points(v) \subseteq Visited
    BY <1>2, <1>3, <2>1, <2>2 DEF OnStage
  <2>4. v \in T /\ v \in SA!Voxel
    BY <1>4, <1>5
  <2>5. SA!Points(v) \subseteq T
    BY <1>5, <2>4, PointsAre DEF SA!KeepsIn
  <2>6. QED BY <1>5, <2>3, <2>5
<1>7. SA!KeepsIn(Stage(k), SA!Voxel) /\ Stage(k) \in SA!Kept(Visited)
  BY <1>4, <1>6 DEF SA!KeepsIn, SA!Kept
<1>8. \A S \in SA!Kept(Visited) : Stage(k) \subseteq S
  BY <1>2 DEF OnStage
<1>9. Basin(Visited)
  BY <1>7, <1>8 DEF Basin
<1>10. QED BY <1>1, <1>3, <1>9, AssignKeeps

\* The search keeps what its segments rest on: what it has visited leads to the plateau it is
\* on, from which nothing leads back.
THEOREM AscentCorrect == SA!Spec => []AInv
<1>1. ASSUME AInv, [SA!Next]_SA!vars PROVE AInv'
  <2>1. CASE SA!Next
    BY <1>1, <2>1, BeginKeeps, TakeFrontKeeps, SkipKeeps, ReachKeeps, MeetKeeps, NewSegmentKeeps DEF SA!Next
  <2>2. CASE UNCHANGED SA!vars
    <3>1. /\ cmat' = cmat /\ seg' = seg /\ next_id' = next_id /\ idx' = idx
          /\ bfs' = bfs /\ bfs_index' = bfs_index /\ ahead' = ahead
      BY <2>2 DEF SA!vars
    <3>2. AscentOK' /\ SegmentsAreBasins'
      BY <1>1, <3>1, BasinsStay DEF AInv, AscentOK, SA!Voxel
    <3>3. Searching'
      <4>1. CASE bfs = <<>>
        BY <1>1, <3>1, <4>1 DEF AInv, Searching, SA!Voxel
      <4>2. CASE bfs # <<>>
        <5>1. PICK k \in DOMAIN bfs : OnStage(k)
          BY <1>1, <4>2 DEF AInv, Searching
        <5>2. QED BY <1>1, <3>1, <4>2, <5>1, StageStays DEF AInv, OnStage
      <4>3. QED BY <4>1, <4>2
    <3>4. QED BY <3>2, <3>3 DEF AInv
  <2>3. QED BY <1>1, <2>1, <2>2
<1>2. QED BY AscentInit, <1>1, PTL DEF SA!Spec

\* Every segment that chunk_quickie_impl makes is the basin of one summit, whatever the
\* affinities and the thresholds.
THEOREM BasinsCorrect == SA!Spec => []SegmentsAreBasins
<1>1. AInv => SegmentsAreBasins
  BY DEF AInv
<1>2. QED BY AscentCorrect, <1>1, PTL

-----------------------------------------------------------------------------
(* Regions joined by edges.                                                *)

LEMMA PartWithin ==
    ASSUME NEW ids, NEW F, NEW i \in ids
    PROVE  i \in Part(ids, F, i) /\ Part(ids, F, i) \subseteq ids
BY DEF Part

LEMMA PartLeast ==
    ASSUME NEW ids, NEW F, NEW S \in SUBSET ids, Closed(S, F), NEW i \in S
    PROVE  Part(ids, F, i) \subseteq S
BY DEF Part

LEMMA PartClosed ==
    ASSUME NEW ids, NEW F, NEW i \in ids, \A e \in F : e[1] \in ids /\ e[2] \in ids
    PROVE  Closed(Part(ids, F, i), F)
BY DEF Part, Closed

LEMMA PartSame ==
    ASSUME NEW ids, NEW F, NEW i \in ids, \A e \in F : e[1] \in ids /\ e[2] \in ids,
           NEW j \in Part(ids, F, i)
    PROVE  Part(ids, F, j) = Part(ids, F, i)
<1>1. Part(ids, F, i) \subseteq ids /\ j \in ids
  BY PartWithin
<1>2. Part(ids, F, j) \subseteq Part(ids, F, i)
  BY <1>1, PartClosed, PartLeast
<1>3. i \in Part(ids, F, j)
  <2>1. SUFFICES ASSUME i \notin Part(ids, F, j) PROVE FALSE
    OBVIOUS
  <2> DEFINE S == ids \ Part(ids, F, j)
  <2>2. Closed(Part(ids, F, j), F)
    BY <1>1, PartClosed
  <2>3. Closed(S, F)
    BY <2>2 DEF Closed
  <2>4. Part(ids, F, i) \subseteq S
    BY <2>1, <2>3, PartLeast
  <2>5. QED BY <1>1, <2>4, PartWithin
<1>4. Part(ids, F, i) \subseteq Part(ids, F, j)
  BY <1>1, <1>3, PartClosed, PartLeast, PartWithin
<1>5. QED BY <1>2, <1>4

\* An edge within a part changes nothing.
LEMMA PartInside ==
    ASSUME NEW ids, NEW F, \A e \in F : e[1] \in ids /\ e[2] \in ids,
           NEW x, x[1] \in ids, x[2] \in Part(ids, F, x[1]), NEW i \in ids
    PROVE  Part(ids, F \cup {x}, i) = Part(ids, F, i)
<1>1. x[2] \in ids
  BY PartWithin
<1>2. x[1] \in Part(ids, F, i) <=> x[2] \in Part(ids, F, i)
  <2>1. Part(ids, F, x[2]) = Part(ids, F, x[1])
    BY PartSame
  <2>2. x[1] \in Part(ids, F, i) => Part(ids, F, x[1]) = Part(ids, F, i)
    BY PartSame
  <2>3. x[2] \in Part(ids, F, i) => Part(ids, F, x[2]) = Part(ids, F, i)
    BY PartSame
  <2>4. x[1] \in Part(ids, F, x[1]) /\ x[2] \in Part(ids, F, x[2])
    BY <1>1, PartWithin
  <2>5. QED BY <2>1, <2>2, <2>3, <2>4
<1>3. Closed(Part(ids, F, i), F \cup {x})
  BY <1>2, PartClosed DEF Closed
<1>4. Part(ids, F \cup {x}, i) \subseteq Part(ids, F, i)
  BY <1>3, PartLeast, PartWithin
<1>5. Part(ids, F, i) \subseteq Part(ids, F \cup {x}, i)
  BY DEF Part, Closed
<1>6. QED BY <1>4, <1>5

\* An edge between two parts makes one of them.
LEMMA PartJoined ==
    ASSUME NEW ids, NEW F, \A e \in F : e[1] \in ids /\ e[2] \in ids,
           NEW x, x[1] \in ids, x[2] \in ids, NEW i \in ids
    PROVE  Part(ids, F \cup {x}, i) =
              IF i \in Part(ids, F, x[1]) \cup Part(ids, F, x[2])
              THEN Part(ids, F, x[1]) \cup Part(ids, F, x[2]) ELSE Part(ids, F, i)
<1> DEFINE A == Part(ids, F, x[1])
           B == Part(ids, F, x[2])
           P == Part(ids, F, i)
           N == Part(ids, F \cup {x}, i)
<1>1. A \subseteq ids /\ B \subseteq ids /\ P \subseteq ids /\ x[1] \in A /\ x[2] \in B /\ i \in P
  BY PartWithin
<1>2. Closed(A, F) /\ Closed(B, F) /\ Closed(P, F)
  BY PartClosed
<1>3. Closed(N, F \cup {x}) /\ N \subseteq ids /\ i \in N
  BY PartClosed, PartWithin
<1>4. Closed(N, F) /\ (x[1] \in N <=> x[2] \in N)
  BY <1>3 DEF Closed
<1>5. CASE i \in A \cup B
  <2>1. Closed(A \cup B, F \cup {x})
    BY <1>1, <1>2 DEF Closed
  <2>2. N \subseteq A \cup B
    BY <1>1, <1>5, <2>1, PartLeast
  <2>3. P = A \/ P = B
    BY <1>5, PartSame
  <2>4. P \subseteq N
    BY <1>3, <1>4, PartLeast
  <2>5. x[1] \in N /\ x[2] \in N
    BY <1>1, <1>4, <2>3, <2>4
  <2>6. A \subseteq N /\ B \subseteq N
    BY <1>3, <1>4, <2>5, PartLeast
  <2>7. QED BY <1>5, <2>2, <2>6
<1>6. CASE i \notin A \cup B
  <2>1. x[1] \notin P /\ x[2] \notin P
    BY <1>1, <1>6, PartSame
  <2>2. Closed(P, F \cup {x})
    BY <1>2, <2>1 DEF Closed
  <2>3. N \subseteq P
    BY <1>1, <2>2, PartLeast
  <2>4. P \subseteq N
    BY <1>3, <1>4, PartLeast
  <2>5. QED BY <1>6, <2>3, <2>4
<1>7. QED BY <1>5, <1>6

\* join does to the sets what an edge does to the parts.
Tells(ids, rep, F) == \A i \in ids : {j \in ids : rep[j] = rep[i]} = Part(ids, F, i)

LEMMA JoinTells ==
    ASSUME NEW ids, NEW F, \A e \in F : e[1] \in ids /\ e[2] \in ids,
           NEW x, x[1] \in ids, x[2] \in ids,
           NEW rep, ids \subseteq DOMAIN rep, Tells(ids, rep, F),
           NEW vr \in {rep[x[1]], rep[x[2]]}
    PROVE  Tells(ids, Joined(rep, rep[x[1]], rep[x[2]], vr), F \cup {x})
<1> DEFINE A == Part(ids, F, x[1])
           B == Part(ids, F, x[2])
           new == Joined(rep, rep[x[1]], rep[x[2]], vr)
<1>0. \A i \in ids : Part(ids, F \cup {x}, i) = IF i \in A \cup B THEN A \cup B ELSE Part(ids, F, i)
  BY PartJoined
<1>1. A = {j \in ids : rep[j] = rep[x[1]]} /\ B = {j \in ids : rep[j] = rep[x[2]]}
  BY DEF Tells
<1>2. \A i \in ids : new[i] = IF i \in A \cup B THEN vr ELSE rep[i]
  BY <1>1 DEF Joined
<1>3. SUFFICES ASSUME NEW i \in ids
               PROVE  {j \in ids : new[j] = new[i]} = Part(ids, F \cup {x}, i)
  BY DEF Tells
<1>4. Part(ids, F \cup {x}, i) = IF i \in A \cup B THEN A \cup B ELSE Part(ids, F, i)
  BY <1>0
<1>5. Part(ids, F, i) = {j \in ids : rep[j] = rep[i]}
  BY DEF Tells
<1> HIDE DEF A, B, new
<1>6. CASE i \in A \cup B
  <2>1. \A j \in ids : j \in A \cup B <=> new[j] = vr
    BY <1>1, <1>2
  <2>2. A \cup B \subseteq ids
    BY <1>1
  <2>3. QED BY <1>2, <1>4, <1>6, <2>1, <2>2
<1>7. CASE i \notin A \cup B
  <2>1. \A j \in ids : new[j] = new[i] <=> rep[j] = rep[i]
    BY <1>1, <1>2, <1>7
  <2>2. QED BY <1>4, <1>5, <1>7, <2>1
<1>8. QED BY <1>6, <1>7

LEMMA SameTells ==
    ASSUME NEW ids, NEW F, \A e \in F : e[1] \in ids /\ e[2] \in ids,
           NEW x, x[1] \in ids, x[2] \in ids,
           NEW rep, Tells(ids, rep, F), rep[x[1]] = rep[x[2]]
    PROVE  Tells(ids, rep, F \cup {x}) /\ \A i \in ids : Part(ids, F \cup {x}, i) = Part(ids, F, i)
<1>1. x[2] \in Part(ids, F, x[1])
  BY DEF Tells
<1>2. \A i \in ids : Part(ids, F \cup {x}, i) = Part(ids, F, i)
  BY <1>1, PartInside
<1>3. QED BY <1>2 DEF Tells

\* The parts get one fewer when an edge joins two of them.
LEMMA FewerParts ==
    ASSUME NEW ids, IsFiniteSet(ids), NEW F, \A e \in F : e[1] \in ids /\ e[2] \in ids,
           NEW x, x[1] \in ids, x[2] \in ids, x[2] \notin Part(ids, F, x[1])
    PROVE  /\ Cardinality(Parts(ids, F)) \in Nat
           /\ Cardinality(Parts(ids, F \cup {x})) = Cardinality(Parts(ids, F)) - 1
<1> DEFINE A == Part(ids, F, x[1])
           B == Part(ids, F, x[2])
           P == Parts(ids, F)
<1>1. A \subseteq ids /\ B \subseteq ids /\ x[1] \in A /\ x[2] \in B
  BY PartWithin
<1>2. IsFiniteSet(P) /\ Cardinality(P) \in Nat
  <2>1. [i \in ids |-> Part(ids, F, i)] \in Surjection(ids, P)
    BY DEF Surjection, Parts
  <2>2. QED BY <2>1, FS_Surjection, FS_CardinalityType
<1>3. A \in P /\ B \in P /\ A # B
  BY <1>1 DEF Parts
<1>4. \A C \in P : C \cap (A \cup B) # {} => C = A \/ C = B
  <2>1. SUFFICES ASSUME NEW i \in ids, NEW j, j \in Part(ids, F, i), j \in A \cup B
                 PROVE  Part(ids, F, i) = A \/ Part(ids, F, i) = B
    BY DEF Parts
  <2>2. Part(ids, F, j) = Part(ids, F, i)
    BY <2>1, PartSame
  <2>3. Part(ids, F, j) = A \/ Part(ids, F, j) = B
    BY <2>1, PartSame
  <2>4. QED BY <2>2, <2>3
<1>5. A \cup B \notin P \ {A, B}
  BY <1>1, <1>4
<1>6. \A i \in ids : Part(ids, F \cup {x}, i) = IF i \in A \cup B THEN A \cup B ELSE Part(ids, F, i)
  BY PartJoined
<1>7. Parts(ids, F \cup {x}) = (P \ {A, B}) \cup {A \cup B}
  <2>1. ASSUME NEW i \in ids PROVE Part(ids, F \cup {x}, i) \in (P \ {A, B}) \cup {A \cup B}
    <3>1. CASE i \in A \cup B
      BY <1>6, <3>1
    <3>2. CASE i \notin A \cup B
      <4>1. i \in Part(ids, F, i) /\ Part(ids, F, i) \in P
        BY PartWithin DEF Parts
      <4>2. QED BY <1>6, <3>2, <4>1
    <3>3. QED BY <3>1, <3>2
  <2>2. A \cup B \in Parts(ids, F \cup {x})
    BY <1>1, <1>6 DEF Parts
  <2>3. ASSUME NEW C \in P \ {A, B} PROVE C \in Parts(ids, F \cup {x})
    <3>1. PICK i \in ids : C = Part(ids, F, i)
      BY DEF Parts
    <3>2. i \in C
      BY <3>1, PartWithin
    <3>3. i \notin A \cup B
      BY <1>4, <2>3, <3>2
    <3>4. QED BY <1>6, <3>1, <3>3 DEF Parts
  <2>4. QED BY <2>1, <2>2, <2>3 DEF Parts
<1> HIDE DEF A, B, P
<1>8. IsFiniteSet(P \ {A}) /\ Cardinality(P \ {A}) = Cardinality(P) - 1
  BY <1>2, <1>3, FS_RemoveElement
<1>9. IsFiniteSet((P \ {A}) \ {B}) /\ Cardinality((P \ {A}) \ {B}) = Cardinality(P) - 1 - 1
  BY <1>3, <1>8, FS_RemoveElement
<1>10. (P \ {A}) \ {B} = P \ {A, B}
  OBVIOUS
<1>11. Cardinality((P \ {A, B}) \cup {A \cup B}) = Cardinality(P) - 1 - 1 + 1
  BY <1>5, <1>9, <1>10, FS_AddElement
<1>12. Cardinality(P) - 1 - 1 + 1 = Cardinality(P) - 1
  BY <1>2
<1>13. QED BY <1>2, <1>7, <1>11, <1>12 DEF P

-----------------------------------------------------------------------------
(* Sums of sizes.                                                          *)

LEMMA VoxelsAre ==
    ASSUME NEW ids, NEW size
    PROVE  \A p : p \in Voxels(ids, size) <=>
              p = <<p[1], p[2]>> /\ p[1] \in ids /\ p[2] \in 1..size[p[1]]
<1>1. ASSUME NEW p, p \in Voxels(ids, size)
      PROVE  p = <<p[1], p[2]>> /\ p[1] \in ids /\ p[2] \in 1..size[p[1]]
  <2>1. PICK i \in ids : p \in {i} \X (1..size[i])
    BY <1>1 DEF Voxels
  <2>2. QED BY <2>1
<1>2. ASSUME NEW p, p = <<p[1], p[2]>>, p[1] \in ids, p[2] \in 1..size[p[1]]
      PROVE  p \in Voxels(ids, size)
  <2>1. p \in {p[1]} \X (1..size[p[1]])
    BY <1>2
  <2>2. QED BY <1>2, <2>1 DEF Voxels
<1>3. QED BY <1>1, <1>2

LEMMA TotalIsNat ==
    ASSUME NEW ids, IsFiniteSet(ids), NEW size, \A i \in ids : size[i] \in Nat
    PROVE  IsFiniteSet(Voxels(ids, size)) /\ Total(ids, size) \in Nat
<1> DEFINE S == {{i} \X (1..size[i]) : i \in ids}
<1>1. [i \in ids |-> {i} \X (1..size[i])] \in Surjection(ids, S)
  BY DEF Surjection
<1>2. IsFiniteSet(S)
  BY <1>1, FS_Surjection
<1>3. ASSUME NEW i \in ids PROVE IsFiniteSet({i} \X (1..size[i]))
  <2>1. size[i] \in Int /\ 1 \in Int
    OBVIOUS
  <2>2. IsFiniteSet({i}) /\ IsFiniteSet(1..size[i])
    BY <2>1, FS_Singleton, FS_Interval
  <2>3. QED BY <2>2, FS_Product
<1>4. IsFiniteSet(UNION S)
  BY <1>2, <1>3, FS_UNION
<1>5. QED BY <1>4, FS_CardinalityType DEF Voxels, Total

LEMMA TotalOfNone == ASSUME NEW size PROVE Total({}, size) = 0
BY FS_EmptySet DEF Total, Voxels

LEMMA TotalOfOne ==
    ASSUME NEW i, NEW size, size[i] \in Nat
    PROVE  Total({i}, size) = size[i]
<1>1. Voxels({i}, size) = {i} \X (1..size[i])
  BY DEF Voxels
<1>2. /\ IsFiniteSet({i}) /\ Cardinality({i}) = 1
      /\ IsFiniteSet(1..size[i]) /\ Cardinality(1..size[i]) = size[i]
  <2>1. size[i] \in Int /\ 1 \in Int
    OBVIOUS
  <2>2. IsFiniteSet(1..size[i]) /\ Cardinality(1..size[i]) = IF 1 > size[i] THEN 0 ELSE size[i] - 1 + 1
    BY <2>1, FS_Interval
  <2>3. (IF 1 > size[i] THEN 0 ELSE size[i] - 1 + 1) = size[i]
    OBVIOUS
  <2>4. QED BY <2>2, <2>3, FS_Singleton
<1>3. Cardinality({i} \X (1..size[i])) = Cardinality({i}) * Cardinality(1..size[i])
  BY <1>2, FS_Product
<1>4. Cardinality({i}) * Cardinality(1..size[i]) = 1 * size[i]
  BY <1>2
<1>5. 1 * size[i] = size[i]
  OBVIOUS
<1>6. QED BY <1>1, <1>3, <1>4, <1>5 DEF Total

LEMMA TotalOfTwo ==
    ASSUME NEW S, IsFiniteSet(S), NEW T, IsFiniteSet(T), S \cap T = {},
           NEW size, \A i \in S \cup T : size[i] \in Nat
    PROVE  Total(S \cup T, size) = Total(S, size) + Total(T, size)
<1>1. Voxels(S \cup T, size) = Voxels(S, size) \cup Voxels(T, size)
  BY DEF Voxels
<1>2. Voxels(S, size) \cap Voxels(T, size) = {}
  BY VoxelsAre
<1>3. IsFiniteSet(Voxels(S, size)) /\ IsFiniteSet(Voxels(T, size))
  BY TotalIsNat
<1>4. /\ Cardinality(Voxels(S, size) \cup Voxels(T, size)) =
            Cardinality(Voxels(S, size)) + Cardinality(Voxels(T, size)) - Cardinality({})
      /\ Cardinality(Voxels(S, size)) \in Nat /\ Cardinality(Voxels(T, size)) \in Nat
  BY <1>2, <1>3, FS_Union, FS_CardinalityType
<1>5. Cardinality({}) = 0
  BY FS_EmptySet
<1>6. \A a, b \in Nat : a + b - 0 = a + b
  OBVIOUS
<1>7. QED BY <1>1, <1>4, <1>5, <1>6 DEF Total

LEMMA TotalNotLess ==
    ASSUME NEW S, IsFiniteSet(S), NEW size, \A i \in S : size[i] \in Nat, NEW i \in S
    PROVE  Total(S, size) >= size[i]
<1>1. IsFiniteSet(S \ {i}) /\ IsFiniteSet({i})
  BY FS_Subset, FS_Singleton
<1>2. Total((S \ {i}) \cup {i}, size) = Total(S \ {i}, size) + Total({i}, size)
  BY <1>1, TotalOfTwo
<1>3. Total(S \ {i}, size) \in Nat /\ Total({i}, size) = size[i]
  BY <1>1, TotalIsNat, TotalOfOne
<1>4. (S \ {i}) \cup {i} = S
  OBVIOUS
<1>5. Total(S, size) = Total(S \ {i}, size) + size[i] /\ size[i] \in Nat
  BY <1>2, <1>3, <1>4
<1>6. QED BY <1>3, <1>5

\* The count of a root is the total of its set.
Sums(ids, size, rep, cnt) ==
    /\ rep \in [ids -> ids] /\ cnt \in [ids -> Nat]
    /\ \A r \in ids : cnt[r] = Total({j \in ids : rep[j] = r}, size)

\* The totals of some sets have the total of all regions in them.
LEMMA TotalOfTotals ==
    ASSUME NEW ids, IsFiniteSet(ids), NEW size, \A i \in ids : size[i] \in Nat,
           NEW rep, NEW sum, Sums(ids, size, rep, sum), NEW D \in SUBSET ids
    PROVE  Total(D, sum) = Total({i \in ids : rep[i] \in D}, size)
<1> DEFINE C(j) == {i \in ids : rep[i] = j}
           U == {i \in ids : rep[i] \in D}
           V == Voxels(U, size)
           W == Voxels(D, sum)
           Fits(j, g) == g \in Bijection(1..sum[j], Voxels(C(j), size))
           G == [j \in D |-> CHOOSE g : Fits(j, g)]
           f == [p \in W |-> G[p[1]][p[2]]]
<1>0. \A j \in D : sum[j] = Total({i \in ids : rep[i] = j}, size)
  BY DEF Sums
<1>1. \A j \in D : IsFiniteSet(C(j)) /\ C(j) \subseteq U
  BY FS_Subset
<1>2. IsFiniteSet(U) /\ IsFiniteSet(V)
  <2>1. IsFiniteSet(U)
    BY FS_Subset
  <2>2. QED BY <2>1, TotalIsNat
<1>3. ASSUME NEW j \in D PROVE G[j] \in Bijection(1..sum[j], Voxels(C(j), size))
  <2>1. IsFiniteSet(Voxels(C(j), size))
    BY <1>1, TotalIsNat
  <2>2. ExistsBijection(1..Cardinality(Voxels(C(j), size)), Voxels(C(j), size))
    BY <2>1, FS_CardinalityType
  <2>3. Cardinality(Voxels(C(j), size)) = sum[j]
    BY <1>0 DEF Total
  <2>4. \E g : Fits(j, g)
    BY <2>2, <2>3 DEF ExistsBijection
  <2>5. G[j] = CHOOSE g : Fits(j, g)
    OBVIOUS
  <2> HIDE DEF G
  <2>6. Fits(j, G[j])
    BY <2>4, <2>5
  <2>7. QED BY <2>6
<1> HIDE DEF G
<1>4. ASSUME NEW j \in D
      PROVE  /\ \A k \in 1..sum[j] : G[j][k] \in Voxels(C(j), size)
             /\ \A k, l \in 1..sum[j] : G[j][k] = G[j][l] => k = l
             /\ \A q \in Voxels(C(j), size) : \E k \in 1..sum[j] : G[j][k] = q
  BY <1>3 DEF Bijection, Injection, Surjection, IsInjective
<1>5. \A p \in W : p = <<p[1], p[2]>> /\ p[1] \in D /\ p[2] \in 1..sum[p[1]]
  BY VoxelsAre
<1>6. \A p \in W : f[p] \in V /\ rep[f[p][1]] = p[1]
  <2>1. SUFFICES ASSUME NEW p \in W PROVE f[p] \in V /\ rep[f[p][1]] = p[1]
    OBVIOUS
  <2>2. f[p] = G[p[1]][p[2]]
    OBVIOUS
  <2>3. f[p] \in Voxels(C(p[1]), size)
    BY <1>4, <1>5, <2>2
  <2> HIDE DEF f, W
  <2>4. f[p] = <<f[p][1], f[p][2]>> /\ f[p][1] \in C(p[1]) /\ f[p][2] \in 1..size[f[p][1]]
    BY <2>3, VoxelsAre
  <2>5. f[p][1] \in U /\ rep[f[p][1]] = p[1]
    BY <1>5, <2>4
  <2>6. QED BY <2>4, <2>5, VoxelsAre
<1>7. \A p, q \in W : f[p] = f[q] => p = q
  <2>1. SUFFICES ASSUME NEW p \in W, NEW q \in W, f[p] = f[q] PROVE p = q
    OBVIOUS
  <2>2. p[1] = q[1]
    <3>1. rep[f[p][1]] = p[1] /\ rep[f[q][1]] = q[1]
      BY <1>6
    <3> HIDE DEF f
    <3>2. QED BY <2>1, <3>1
  <2>3. f[p] = G[p[1]][p[2]] /\ f[q] = G[q[1]][q[2]]
    OBVIOUS
  <2>4. p[2] = q[2]
    BY <1>4, <1>5, <2>1, <2>2, <2>3
  <2>5. QED BY <1>5, <2>2, <2>4
<1>8. \A q \in V : \E p \in W : f[p] = q
  <2>1. SUFFICES ASSUME NEW q \in V PROVE \E p \in W : f[p] = q
    OBVIOUS
  <2> DEFINE j == rep[q[1]]
  <2>2. q = <<q[1], q[2]>> /\ q[1] \in U /\ q[2] \in 1..size[q[1]]
    BY VoxelsAre
  <2>3. j \in D /\ q[1] \in C(j)
    BY <2>2
  <2>4. q \in Voxels(C(j), size)
    BY <2>2, <2>3, VoxelsAre
  <2>5. PICK k \in 1..sum[j] : G[j][k] = q
    BY <1>4, <2>3, <2>4
  <2>6. <<j, k>> \in W
    BY <2>3, <2>5, VoxelsAre
  <2>7. f[<<j, k>>] = q
    BY <2>5, <2>6
  <2>8. QED BY <2>6, <2>7
<1>9. f \in Bijection(W, V)
  <2>1. f \in [W -> V]
    BY <1>6
  <2>2. QED BY <1>7, <1>8, <2>1 DEF Bijection, Injection, Surjection, IsInjective
<1>10. Cardinality(V) = Cardinality(W)
  <2>1. IsFiniteSet(W)
    BY <1>2, <1>9, FS_Injection DEF Bijection
  <2>2. QED BY <1>9, <2>1, FS_Bijection DEF ExistsBijection
<1>11. QED BY <1>10 DEF Total

\* join adds up the totals of two sets.
LEMMA MergeCounts ==
    ASSUME NEW ids, IsFiniteSet(ids), NEW size, \A i \in ids : size[i] \in Nat,
           NEW rep, NEW cnt, Sums(ids, size, rep, cnt),
           NEW v1 \in ids, NEW v2 \in ids, v1 # v2, NEW vr, vr = v1 \/ vr = v2
    PROVE  Sums(ids, size, Joined(rep, v1, v2, vr),
                [cnt EXCEPT ![v1] = 0, ![v2] = 0, ![vr] = cnt[v1] + cnt[v2]])
<1> DEFINE new == Joined(rep, v1, v2, vr)
           c == [cnt EXCEPT ![v1] = 0, ![v2] = 0, ![vr] = cnt[v1] + cnt[v2]]
<1>0. /\ rep \in [ids -> ids] /\ cnt \in [ids -> Nat]
      /\ \A r \in ids : cnt[r] = Total({j \in ids : rep[j] = r}, size)
  BY DEF Sums
<1>1. new \in [ids -> ids] /\ \A j \in ids : new[j] = IF rep[j] \in {v1, v2} THEN vr ELSE rep[j]
  BY <1>0 DEF Joined
<1>2. /\ c \in [ids -> Nat]
      /\ \A r \in ids : c[r] = IF r = vr THEN cnt[v1] + cnt[v2]
                               ELSE IF r \in {v1, v2} THEN 0 ELSE cnt[r]
  BY <1>0
<1> HIDE DEF new, c
<1>3. SUFFICES ASSUME NEW r \in ids PROVE c[r] = Total({j \in ids : new[j] = r}, size)
  BY <1>1, <1>2 DEF Sums, new, c
<1>4. CASE r = vr
  <2> DEFINE S == {j \in ids : rep[j] = v1}
             T == {j \in ids : rep[j] = v2}
  <2>1. {j \in ids : new[j] = r} = S \cup T
    BY <1>1, <1>4
  <2>2. IsFiniteSet(S) /\ IsFiniteSet(T) /\ S \cap T = {} /\ S \cup T \subseteq ids
    BY FS_Subset
  <2>3. Total(S \cup T, size) = Total(S, size) + Total(T, size)
    BY <2>2, TotalOfTwo
  <2>4. QED BY <1>0, <1>2, <1>4, <2>1, <2>3
<1>5. CASE r # vr /\ r \in {v1, v2}
  <2>1. {j \in ids : new[j] = r} = {}
    BY <1>1, <1>5
  <2>2. QED BY <1>2, <1>5, <2>1, TotalOfNone
<1>6. CASE r \notin {v1, v2}
  <2>1. {j \in ids : new[j] = r} = {j \in ids : rep[j] = r}
    BY <1>1, <1>6
  <2>2. QED BY <1>0, <1>2, <1>6, <2>1
<1>7. QED BY <1>4, <1>5, <1>6

-----------------------------------------------------------------------------
(* ChunkMerge.                                                             *)

\* Its operators on regions are those above.
LEMMA RegionsOfChunk ==
    /\ \A ids : CM!Apart(ids) = Apart(ids)
    /\ \A rep, v1, v2, vr : CM!Joined(rep, v1, v2, vr) = Joined(rep, v1, v2, vr)
    /\ \A E : CM!Foremost(E) = Foremost(E)
    /\ \A ids, size : CM!Total(ids, size) = Total(ids, size)
    /\ \A ids, E, i : CM!Part(ids, E, i) = Part(ids, E, i)
    /\ \A ids, E : CM!Parts(ids, E) = Parts(ids, E)
    /\ \A E, value : CM!AtLeast(E, value) = AtLeast(E, value)
    /\ \A S : CM!Cardinality(S) = Cardinality(S)
    /\ \A E, F, ids : CM!Spans(E, F, ids) <=> Spans(E, F, ids)
<1>1. \A ids : CM!Apart(ids) = Apart(ids)
  BY DEF CM!Apart, Apart
<1>2. \A rep, v1, v2, vr : CM!Joined(rep, v1, v2, vr) = Joined(rep, v1, v2, vr)
  BY DEF CM!Joined, Joined
<1>3. \A E : CM!Foremost(E) = Foremost(E)
  BY DEF CM!Foremost, Foremost
<1>0. \A S : CM!Cardinality(S) = Cardinality(S)
  BY DEF CM!Cardinality, Cardinality
<1>4. \A ids, size : CM!Total(ids, size) = Total(ids, size)
  <2>1. \A ids, size : CM!Voxels(ids, size) = Voxels(ids, size)
    BY DEF CM!Voxels, Voxels
  <2>2. QED BY <1>0, <2>1 DEF CM!Total, Total
<1>5. \A ids, E, i : CM!Part(ids, E, i) = Part(ids, E, i)
  BY DEF CM!Part, CM!Closed, Part, Closed
<1>6. \A ids, E : CM!Parts(ids, E) = Parts(ids, E)
  BY <1>5 DEF CM!Parts, Parts
<1>7. \A E, value : CM!AtLeast(E, value) = AtLeast(E, value)
  BY DEF CM!AtLeast, AtLeast
<1>8. \A E, F, ids : CM!Spans(E, F, ids) <=> Spans(E, F, ids)
  BY <1>0, <1>6, <1>7 DEF CM!Spans, Spans
<1>9. QED BY <1>0, <1>1, <1>2, <1>3, <1>4, <1>5, <1>6, <1>7, <1>8

-----------------------------------------------------------------------------
(* The descent.                                                           *)

LEMMA InputIs ==
    ASSUME chunk \in Segments
    PROVE  /\ IsFiniteSet(CM!Segment) /\ CM!Segment \subseteq Nat \ {0}
           /\ \A i \in CM!Segment : chunk.counts[i] \in Nat /\ chunk.counts[i] # 0
           /\ chunk.border \subseteq CM!Segment
           /\ IsFiniteSet(chunk.dendr)
           /\ \A e \in chunk.dendr : /\ e = <<e[1], e[2], e[3]>> /\ e[1] \in CM!Segment
                                  /\ e[2] \in CM!Segment /\ e[3] \in Int
<1>1. chunk.counts \in Seq(Nat \ {0})
  BY SegmentsAssumption
<1>2. PICK n \in Nat : CM!Segment = 1..n
  BY <1>1 DEF CM!Segment
<1>3. IsFiniteSet(1..n)
  <2>1. 1 \in Int /\ n \in Int
    OBVIOUS
  <2>2. QED BY <2>1, FS_Interval
<1>4. CM!Segment \subseteq Nat \ {0}
  BY <1>2
<1>5. \A i \in CM!Segment : chunk.counts[i] \in Nat /\ chunk.counts[i] # 0
  BY <1>1 DEF CM!Segment
<1>6. chunk.dendr \subseteq CM!Segment \X CM!Segment \X Int
  BY SegmentsAssumption DEF CM!Segment
<1>7. \A e \in chunk.dendr : /\ e = <<e[1], e[2], e[3]>> /\ e[1] \in CM!Segment
                             /\ e[2] \in CM!Segment /\ e[3] \in Int
  BY <1>6
<1>8. QED BY <1>2, <1>3, <1>4, <1>5, <1>7, SegmentsAssumption DEF CM!Segment

Taken == chunk.dendr \ edges

InOrder ==
    /\ chunk \in Segments /\ part \in {"down", "final"} /\ edges \subseteq chunk.dendr
    /\ \A e \in Taken, f \in edges : f[3] <= e[3]

Counted ==
    Sums(CM!Segment, chunk.counts, regions, counts) /\ forest = {}

BorderAlone ==
    /\ (\A e \in Taken : e[3] >= High) => Tells(CM!Segment, regions, Taken)
    /\ \A i \in chunk.border :
          /\ regions[i] \in border
          /\ {j \in CM!Segment : regions[j] = regions[i]} = Part(CM!Segment, AtLeast(Taken, High), i)

DownInv == InOrder /\ (part = "down" => Counted /\ BorderAlone)

LEMMA PartOfNone ==
    ASSUME NEW ids, NEW i \in ids PROVE Part(ids, {}, i) = {i}
<1>1. Closed({i}, {})
  BY DEF Closed
<1>2. QED BY <1>1, PartLeast, PartWithin

LEMMA DownInit == CM!Init => DownInv
<1>1. SUFFICES ASSUME CM!Init PROVE DownInv
  OBVIOUS
<1>2. /\ chunk \in Segments /\ part = "down" /\ edges = chunk.dendr /\ counts = chunk.counts
      /\ border = chunk.border /\ regions = Apart(CM!Segment) /\ forest = {}
  BY <1>1, RegionsOfChunk DEF CM!Init
<1>3. Taken = {}
  BY <1>2 DEF Taken
<1>4. InOrder
  BY <1>2, <1>3 DEF InOrder
<1>5. regions = [i \in CM!Segment |-> i]
  BY <1>2 DEF Apart
<1>6. \A i \in CM!Segment : {j \in CM!Segment : regions[j] = regions[i]} = {i}
  BY <1>5
<1>7. Counted
  <2>1. regions \in [CM!Segment -> CM!Segment]
    BY <1>5
  <2>2. chunk.counts \in Seq(Nat \ {0})
    BY <1>2, SegmentsAssumption
  <2>3. counts \in [CM!Segment -> Nat]
    BY <1>2, <2>2 DEF CM!Segment
  <2>4. ASSUME NEW r \in CM!Segment
        PROVE  counts[r] = Total({j \in CM!Segment : regions[j] = r}, chunk.counts)
    <3>1. {j \in CM!Segment : regions[j] = r} = {r}
      BY <1>5
    <3>2. chunk.counts[r] \in Nat
      BY <1>2, InputIs
    <3>3. Total({r}, chunk.counts) = chunk.counts[r]
      BY <3>2, TotalOfOne
    <3>4. QED BY <1>2, <3>1, <3>3
  <2>5. QED BY <1>2, <2>1, <2>3, <2>4 DEF Counted, Sums
<1>8. BorderAlone
  <2>1. Tells(CM!Segment, regions, {})
    BY <1>6, PartOfNone DEF Tells
  <2>2. AtLeast({}, High) = {}
    BY DEF AtLeast
  <2>3. \A i \in chunk.border : i \in CM!Segment /\ regions[i] = i
    BY <1>2, <1>5, InputIs
  <2>4. \A i \in chunk.border : {j \in CM!Segment : regions[j] = regions[i]} = Part(CM!Segment, {}, i)
    BY <1>6, <2>3, PartOfNone
  <2>5. QED BY <1>2, <1>3, <2>1, <2>2, <2>3, <2>4 DEF BorderAlone
<1>9. QED BY <1>4, <1>7, <1>8 DEF DownInv

\* One more edge is taken, a foremost one.
LEMMA TakeNext ==
    ASSUME InOrder, NEW x \in Foremost(edges), edges' = edges \ {x}, UNCHANGED <<chunk, part>>
    PROVE  /\ InOrder' /\ Taken' = Taken \cup {x} /\ CM!Segment' = CM!Segment
           /\ x \in chunk.dendr /\ x[1] \in CM!Segment /\ x[2] \in CM!Segment /\ x[3] \in Int
           /\ \A e \in Taken : /\ e[1] \in CM!Segment /\ e[2] \in CM!Segment /\ e[3] \in Int
                               /\ x[3] <= e[3]
<1>1. x \in edges /\ (\A f \in edges : f[3] <= x[3]) /\ x \in chunk.dendr
  BY DEF Foremost, InOrder
<1>2. chunk \in Segments
  BY DEF InOrder
<1>3. \A e \in chunk.dendr : e[1] \in CM!Segment /\ e[2] \in CM!Segment /\ e[3] \in Int
  BY <1>2, InputIs
<1>4. Taken' = Taken \cup {x} /\ CM!Segment' = CM!Segment
  BY <1>1 DEF Taken, CM!Segment
<1>5. \A e \in Taken : e \in chunk.dendr
  BY DEF Taken
<1>6. \A e \in Taken : x[3] <= e[3]
  BY <1>1 DEF InOrder
<1>7. InOrder'
  <2>1. \A e \in Taken \cup {x}, f \in edges \ {x} : f[3] <= e[3]
    BY <1>1 DEF InOrder
  <2>2. QED BY <1>4, <2>1 DEF InOrder
<1>8. QED BY <1>1, <1>3, <1>4, <1>5, <1>6, <1>7

LEMMA MergeKeeps ==
    ASSUME DownInv, part = "down", NEW v1 \in CM!Segment, NEW v2 \in CM!Segment, v1 # v2,
           CM!Merge(v1, v2), UNCHANGED <<chunk, forest>>
    PROVE  Counted'
<1>1. PICK vr \in {v1, v2} :
         /\ regions' = Joined(regions, v1, v2, vr)
         /\ counts' = [counts EXCEPT ![v1] = 0, ![v2] = 0, ![vr] = counts[v1] + counts[v2]]
  BY RegionsOfChunk DEF CM!Merge
<1>2. Counted /\ chunk \in Segments
  BY DEF DownInv, InOrder
<1>3. IsFiniteSet(CM!Segment) /\ \A i \in CM!Segment : chunk.counts[i] \in Nat
  BY <1>2, InputIs
<1>4. Sums(CM!Segment, chunk.counts, regions, counts)
  BY <1>2 DEF Counted
<1>5. Sums(CM!Segment, chunk.counts, regions', counts')
  BY <1>1, <1>3, <1>4, MergeCounts
<1>6. CM!Segment' = CM!Segment
  BY DEF CM!Segment
<1>7. QED BY <1>2, <1>5, <1>6 DEF Counted

\* An edge of a high affinity joins what the edges before it, all of them high, left apart.
LEMMA HighKeeps ==
    ASSUME DownInv, part = "down", NEW x \in Foremost(edges), x[3] >= High,
           edges' = edges \ {x}, UNCHANGED <<chunk, part>>,
           IF regions[x[1]] = regions[x[2]] THEN UNCHANGED <<regions, border>>
           ELSE CM!Merge(regions[x[1]], regions[x[2]])
    PROVE  BorderAlone'
<1>0. InOrder /\ BorderAlone /\ Counted /\ High \in Int
  BY SegmentsAssumption DEF DownInv
<1>1. /\ Taken' = Taken \cup {x} /\ CM!Segment' = CM!Segment
      /\ x[1] \in CM!Segment /\ x[2] \in CM!Segment /\ x[3] \in Int
      /\ \A e \in Taken : e[1] \in CM!Segment /\ e[2] \in CM!Segment /\ e[3] \in Int /\ x[3] <= e[3]
  BY <1>0, TakeNext
<1>2. \A e \in Taken : e[3] >= High
  BY <1>0, <1>1
<1>3. Tells(CM!Segment, regions, Taken)
  BY <1>0, <1>2 DEF BorderAlone
<1>4. AtLeast(Taken', High) = Taken'
  BY <1>1, <1>2 DEF AtLeast
<1>5. DOMAIN regions = CM!Segment /\ chunk.border \subseteq CM!Segment
  BY <1>0, InputIs DEF Counted, Sums, InOrder
<1>6. Tells(CM!Segment, regions', Taken')
  <2>1. CASE regions[x[1]] = regions[x[2]]
    BY <1>1, <1>3, <2>1, SameTells
  <2>2. CASE regions[x[1]] # regions[x[2]]
    <3>1. PICK vr \in {regions[x[1]], regions[x[2]]} :
             regions' = Joined(regions, regions[x[1]], regions[x[2]], vr)
      BY <2>2, RegionsOfChunk DEF CM!Merge
    <3>2. Tells(CM!Segment, Joined(regions, regions[x[1]], regions[x[2]], vr), Taken \cup {x})
      BY <1>1, <1>3, <1>5, JoinTells
    <3>3. QED BY <1>1, <3>1, <3>2
  <2>3. QED BY <2>1, <2>2
<1>7. \A i \in chunk.border : regions'[i] \in border'
  <2>1. \A i \in chunk.border : regions[i] \in border
    BY <1>0 DEF BorderAlone
  <2>2. CASE regions[x[1]] = regions[x[2]]
    BY <2>1, <2>2
  <2>3. CASE regions[x[1]] # regions[x[2]]
    <3> DEFINE v1 == regions[x[1]]
               v2 == regions[x[2]]
    <3>1. PICK vr \in {v1, v2} :
             /\ regions' = Joined(regions, v1, v2, vr)
             /\ border' = (border \ {v1, v2}) \cup
                             (IF {v1, v2} \cap border # {} THEN {vr} ELSE {})
      BY <2>3, RegionsOfChunk DEF CM!Merge
    <3> HIDE DEF v1, v2
    <3>2. \A i \in CM!Segment : regions'[i] = IF regions[i] \in {v1, v2} THEN vr ELSE regions[i]
      BY <1>5, <3>1 DEF Joined
    <3>3. QED BY <1>5, <2>1, <3>1, <3>2
  <2>4. QED BY <2>2, <2>3
<1>8. \A i \in chunk.border :
         {j \in CM!Segment : regions'[j] = regions'[i]} = Part(CM!Segment, AtLeast(Taken', High), i)
  BY <1>4, <1>5, <1>6 DEF Tells
<1>9. QED BY <1>1, <1>6, <1>7, <1>8 DEF BorderAlone

\* An edge of a lower one touches no set with the bit.
LEMMA LowKeeps ==
    ASSUME DownInv, part = "down", NEW x \in Foremost(edges), x[3] < High,
           edges' = edges \ {x}, UNCHANGED <<chunk, part>>,
           NEW v1 \in CM!Segment, NEW v2 \in CM!Segment,
           \/ UNCHANGED <<regions, border>>
           \/ CM!Spread(v1, v2)
           \/ {v1, v2} \cap border = {} /\ CM!Merge(v1, v2)
    PROVE  BorderAlone'
<1>0. InOrder /\ BorderAlone /\ Counted /\ High \in Int
  BY SegmentsAssumption DEF DownInv
<1>1. Taken' = Taken \cup {x} /\ CM!Segment' = CM!Segment /\ x[3] \in Int
  BY <1>0, TakeNext
<1>2. ~(x[3] >= High)
  BY <1>0, <1>1
<1>3. AtLeast(Taken', High) = AtLeast(Taken, High)
  BY <1>1, <1>2 DEF AtLeast
<1>4. DOMAIN regions = CM!Segment /\ chunk.border \subseteq CM!Segment
  BY <1>0, InputIs DEF Counted, Sums, InOrder
<1>5. \A i \in chunk.border : /\ regions[i] \in border
                              /\ {j \in CM!Segment : regions[j] = regions[i]} =
                                    Part(CM!Segment, AtLeast(Taken, High), i)
  BY <1>0 DEF BorderAlone
<1>6. ASSUME NEW i \in chunk.border
      PROVE  /\ regions'[i] \in border'
             /\ {j \in CM!Segment : regions'[j] = regions'[i]} =
                   {j \in CM!Segment : regions[j] = regions[i]}
  <2>1. CASE UNCHANGED <<regions, border>> \/ CM!Spread(v1, v2)
    BY <1>5, <2>1 DEF CM!Spread
  <2>2. CASE {v1, v2} \cap border = {} /\ CM!Merge(v1, v2)
    <3>1. PICK vr \in {v1, v2} :
             /\ regions' = Joined(regions, v1, v2, vr)
             /\ border' = (border \ {v1, v2}) \cup
                             (IF {v1, v2} \cap border # {} THEN {vr} ELSE {})
      BY <2>2, RegionsOfChunk DEF CM!Merge
    <3>2. \A j \in CM!Segment : regions'[j] = IF regions[j] \in {v1, v2} THEN vr ELSE regions[j]
      BY <1>4, <3>1 DEF Joined
    <3>3. regions[i] \in border /\ i \in CM!Segment
      BY <1>4, <1>5
    <3>4. regions[i] \notin {v1, v2} /\ regions'[i] = regions[i]
      BY <2>2, <3>2, <3>3
    <3>5. \A j \in CM!Segment : regions'[j] = regions[i] <=> regions[j] = regions[i]
      BY <3>2, <3>4
    <3>6. QED BY <3>1, <3>3, <3>4, <3>5
  <2>3. QED BY <2>1, <2>2
<1>7. QED BY <1>1, <1>2, <1>3, <1>5, <1>6 DEF BorderAlone

LEMMA DownKeeps == DownInv /\ CM!Down => DownInv'
<1>1. SUFFICES ASSUME DownInv, CM!Down PROVE DownInv'
  OBVIOUS
<1>2. PICK x \in Foremost(edges) : ~CM!Ends(x) /\ CM!Descend(x) /\ edges' = edges \ {x}
  BY <1>1, RegionsOfChunk DEF CM!Down
<1>3. part = "down" /\ UNCHANGED <<chunk, remaps, forest, part>>
  BY <1>1 DEF CM!Down
<1>4. InOrder /\ Counted /\ BorderAlone /\ High \in Int
  BY <1>1, <1>3, SegmentsAssumption DEF DownInv
<1>5. /\ InOrder' /\ Taken' = Taken \cup {x} /\ CM!Segment' = CM!Segment
      /\ x[1] \in CM!Segment /\ x[2] \in CM!Segment /\ x[3] \in Int
  BY <1>2, <1>3, <1>4, TakeNext
<1> DEFINE v1 == regions[x[1]]
           v2 == regions[x[2]]
<1>6. v1 \in CM!Segment /\ v2 \in CM!Segment
  BY <1>4, <1>5 DEF Counted, Sums
<1>7. \/ v1 # v2 /\ x[3] >= High /\ CM!Merge(v1, v2)
      \/ v1 # v2 /\ x[3] < High /\ {v1, v2} \cap border = {} /\ CM!Merge(v1, v2)
      \/ x[3] < High /\ CM!Spread(v1, v2)
      \/ v1 = v2 /\ UNCHANGED <<regions, counts, border>>
      \/ x[3] < High /\ UNCHANGED <<regions, counts, border>>
  <2> HIDE DEF v1, v2
  <2>1. \/ v1 # v2 /\ x[3] >= High /\ CM!Merge(v1, v2)
        \/ /\ v1 # v2 /\ x[3] < High
           /\ IF {v1, v2} \cap border = {} THEN CM!Merge(v1, v2) ELSE CM!Spread(v1, v2)
        \/ (v1 = v2 \/ x[3] < High) /\ UNCHANGED <<regions, counts, border>>
    BY <1>2 DEF CM!Descend, v1, v2
  <2>2. QED BY <2>1
<1> HIDE DEF v1, v2
<1>8. Counted'
  <2>1. CASE v1 # v2 /\ CM!Merge(v1, v2)
    BY <1>1, <1>3, <1>6, <2>1, MergeKeeps
  <2>2. CASE UNCHANGED <<regions, counts>>
    BY <1>3, <1>4, <1>5, <2>2 DEF Counted
  <2>3. QED BY <1>7, <2>1, <2>2 DEF CM!Spread
<1>9. BorderAlone'
  <2>1. CASE x[3] >= High
    <3>1. IF v1 = v2 THEN UNCHANGED <<regions, border>> ELSE CM!Merge(v1, v2)
      <4>1. ~(x[3] < High)
        BY <1>4, <1>5, <2>1
      <4>2. QED BY <1>7, <4>1
    <3>2. QED BY <1>1, <1>2, <1>3, <2>1, <3>1, HighKeeps DEF v1, v2
  <2>2. CASE x[3] < High
    <3>1. \/ UNCHANGED <<regions, border>>
          \/ CM!Spread(v1, v2)
          \/ {v1, v2} \cap border = {} /\ CM!Merge(v1, v2)
      <4>1. ~(x[3] >= High)
        BY <1>4, <1>5, <2>2
      <4>2. QED BY <1>7, <4>1
    <3>2. QED BY <1>1, <1>2, <1>3, <1>6, <2>2, <3>1, LowKeeps
  <2>3. QED BY <1>4, <1>5, <2>1, <2>2
<1>10. QED BY <1>3, <1>5, <1>8, <1>9 DEF DownInv

-----------------------------------------------------------------------------
(* The new numbers.                                                        *)

New == [i \in CM!Segment |->
           IF CM!Stays(i) THEN Cardinality({j \in CM!Segment : j <= i /\ CM!Stays(j)}) ELSE 0]

\* The segments that stay get numbers of their own.
LEMMA NewApart ==
    ASSUME chunk \in Segments
    PROVE  /\ New \in [CM!Segment -> Nat]
           /\ \A i \in CM!Segment : New[i] # 0 <=> CM!Stays(i)
           /\ \A i, j \in CM!Segment : New[i] # 0 /\ New[i] = New[j] => i = j
<1> DEFINE Upto(i) == {j \in CM!Segment : j <= i /\ CM!Stays(j)}
<1>1. IsFiniteSet(CM!Segment) /\ CM!Segment \subseteq Nat
  BY InputIs
<1>2. \A i \in CM!Segment : IsFiniteSet(Upto(i)) /\ Cardinality(Upto(i)) \in Nat
  BY <1>1, FS_Subset, FS_CardinalityType
<1>3. \A i \in CM!Segment : New[i] = IF CM!Stays(i) THEN Cardinality(Upto(i)) ELSE 0
  BY DEF New
<1>4. ASSUME NEW i \in CM!Segment, CM!Stays(i) PROVE Cardinality(Upto(i)) # 0
  <2>1. i \in Upto(i)
    BY <1>1, <1>4
  <2>2. QED BY <1>2, <2>1, FS_EmptySet
<1>5. ASSUME NEW i \in CM!Segment, NEW j \in CM!Segment, CM!Stays(i), CM!Stays(j), i < j
      PROVE  Cardinality(Upto(i)) # Cardinality(Upto(j))
  <2>0. i \in Nat /\ j \in Nat
    BY <1>1
  <2>1. ASSUME NEW k \in Upto(i) PROVE k \in Upto(j)
    <3>1. k \in CM!Segment /\ k \in Nat /\ k <= i /\ CM!Stays(k)
      BY <1>1
    <3>2. k <= j
      BY <1>5, <2>0, <3>1
    <3>3. QED BY <3>1, <3>2
  <2>2. j \in Upto(j) /\ j \notin Upto(i)
    BY <1>1, <1>5
  <2> HIDE DEF Upto
  <2>3. QED BY <1>2, <2>1, <2>2, FS_Subset
<1>6. ASSUME NEW i \in CM!Segment, NEW j \in CM!Segment, CM!Stays(i), CM!Stays(j), i # j
      PROVE  Cardinality(Upto(i)) # Cardinality(Upto(j))
  <2>1. i < j \/ j < i
    BY <1>1, <1>6
  <2>2. QED BY <1>5, <1>6, <2>1
<1> HIDE DEF Upto
<1>7. New \in [CM!Segment -> Nat]
  <2>1. \A i \in CM!Segment : New[i] \in Nat
    <3>1. SUFFICES ASSUME NEW i \in CM!Segment PROVE New[i] \in Nat
      OBVIOUS
    <3>2. Cardinality(Upto(i)) \in Nat
      BY <1>2
    <3>3. QED BY <1>3, <3>2
  <2>2. QED BY <2>1 DEF New
<1>8. \A i \in CM!Segment : New[i] # 0 <=> CM!Stays(i)
  BY <1>3, <1>4
<1>9. \A i, j \in CM!Segment : New[i] # 0 /\ New[i] = New[j] => i = j
  BY <1>3, <1>6, <1>8
<1>10. QED BY <1>7, <1>8, <1>9

Numbered ==
    /\ remaps \in [CM!Segment -> Nat]
    /\ DOMAIN regions = CM!Labels \cup {0} /\ regions[0] = 0
    /\ \A n \in CM!Labels : regions[n] \in CM!Labels

\* What Renumber does, in terms of New.
LEMMA RenumberIs ==
    ASSUME CM!Renumber
    PROVE  /\ part = "down" /\ part' = "final" /\ edges' = chunk.dendr /\ CM!Segment' = CM!Segment
           /\ UNCHANGED <<chunk, border, forest>>
           /\ \A e \in edges : e[3] < High
           /\ remaps' = [i \in CM!Segment |-> New[regions[i]]]
           /\ counts' = [i \in {0} \cup {New[j] : j \in CM!Segment} |->
                 IF i = 0 THEN Total({j \in CM!Segment : CM!IsDust(j)}, counts)
                 ELSE counts[CHOOSE j \in CM!Segment : New[j] = i]]
           /\ regions' = Apart({0} \cup {New[j] : j \in CM!Segment})
<1> DEFINE new == [i \in CM!Segment |->
                     IF CM!Stays(i)
                     THEN CM!Cardinality({j \in CM!Segment : j <= i /\ CM!Stays(j)}) ELSE 0]
<1>1. new = New
  BY RegionsOfChunk DEF New
<1>2. /\ part = "down" /\ (\A e \in edges : CM!Ends(e)) /\ edges' = chunk.dendr /\ part' = "final"
      /\ remaps' = [i \in CM!Segment |-> new[regions[i]]]
      /\ counts' = [i \in {0} \cup {new[j] : j \in CM!Segment} |->
            IF i = 0 THEN CM!Total({j \in CM!Segment : CM!IsDust(j)}, counts)
            ELSE counts[CHOOSE j \in CM!Segment : new[j] = i]]
      /\ regions' = CM!Apart({0} \cup {new[j] : j \in CM!Segment})
      /\ UNCHANGED <<chunk, border, forest>>
  BY DEF CM!Renumber
<1> HIDE DEF new
<1>3. CM!Segment' = CM!Segment /\ \A e \in edges : e[3] < High
  BY <1>2 DEF CM!Segment, CM!Ends
<1>4. /\ CM!Total({j \in CM!Segment : CM!IsDust(j)}, counts)
            = Total({j \in CM!Segment : CM!IsDust(j)}, counts)
      /\ CM!Apart({0} \cup {New[j] : j \in CM!Segment}) = Apart({0} \cup {New[j] : j \in CM!Segment})
  BY RegionsOfChunk
<1>5. QED BY <1>1, <1>2, <1>3, <1>4

\* A root is the root of somebody just if it keeps voxels.
LEMMA RootsHold ==
    ASSUME DownInv, part = "down"
    PROVE  /\ \A i \in CM!Segment : counts[regions[i]] # 0
           /\ \A r \in CM!Segment : counts[r] # 0 => \E i \in CM!Segment : regions[i] = r
<1>1. chunk \in Segments /\ Sums(CM!Segment, chunk.counts, regions, counts)
  BY DEF DownInv, InOrder, Counted
<1>2. /\ IsFiniteSet(CM!Segment)
      /\ \A i \in CM!Segment : chunk.counts[i] \in Nat /\ chunk.counts[i] # 0
  BY <1>1, InputIs
<1>3. \A r \in CM!Segment : counts[r] = Total({j \in CM!Segment : regions[j] = r}, chunk.counts)
  BY <1>1 DEF Sums
<1>4. ASSUME NEW i \in CM!Segment PROVE counts[regions[i]] # 0
  <2> DEFINE S == {j \in CM!Segment : regions[j] = regions[i]}
  <2>1. IsFiniteSet(S) /\ i \in S /\ S \subseteq CM!Segment
    BY <1>2, FS_Subset
  <2>2. Total(S, chunk.counts) >= chunk.counts[i]
    BY <1>2, <2>1, TotalNotLess
  <2>3. regions[i] \in CM!Segment /\ counts[regions[i]] \in Nat
    BY <1>1 DEF Sums
  <2>4. counts[regions[i]] >= chunk.counts[i]
    BY <1>3, <2>2, <2>3
  <2>5. QED BY <1>2, <2>3, <2>4
<1>5. ASSUME NEW r \in CM!Segment, counts[r] # 0 PROVE \E i \in CM!Segment : regions[i] = r
  <2>1. SUFFICES ASSUME {j \in CM!Segment : regions[j] = r} = {} PROVE FALSE
    OBVIOUS
  <2>2. counts[r] = 0
    BY <1>3, <2>1, TotalOfNone
  <2>3. QED BY <1>5, <2>2
<1>6. QED BY <1>4, <1>5

LEMMA LabelsAre ==
    ASSUME DownInv, CM!Renumber
    PROVE  /\ CM!Labels' = {New[j] : j \in CM!Segment} \ {0}
           /\ \A i \in CM!Segment : remaps'[i] = New[regions[i]] /\ regions[i] \in CM!Segment
           /\ remaps' \in [CM!Segment -> Nat]
<1>1. /\ part = "down" /\ CM!Segment' = CM!Segment
      /\ remaps' = [i \in CM!Segment |-> New[regions[i]]]
  BY RenumberIs
<1>2. chunk \in Segments /\ Sums(CM!Segment, chunk.counts, regions, counts)
  BY <1>1 DEF DownInv, InOrder, Counted
<1>3. \A i \in CM!Segment : remaps'[i] = New[regions[i]] /\ regions[i] \in CM!Segment
  BY <1>1, <1>2 DEF Sums
<1>4. New \in [CM!Segment -> Nat] /\ \A i \in CM!Segment : New[i] # 0 <=> CM!Stays(i)
  BY <1>2, NewApart
<1>5. ASSUME NEW j \in CM!Segment, New[j] # 0 PROVE \E i \in CM!Segment : regions[i] = j
  BY <1>1, <1>4, <1>5, RootsHold DEF CM!Stays
<1>6. CM!Labels' = {remaps'[i] : i \in CM!Segment} \ {0}
  BY <1>1 DEF CM!Labels
<1>7. {remaps'[i] : i \in CM!Segment} \ {0} = {New[j] : j \in CM!Segment} \ {0}
  <2>1. ASSUME NEW i \in CM!Segment PROVE remaps'[i] \in {New[j] : j \in CM!Segment}
    BY <1>3
  <2>2. ASSUME NEW j \in CM!Segment, New[j] # 0 PROVE New[j] \in {remaps'[i] : i \in CM!Segment}
    BY <1>3, <1>5, <2>2
  <2>3. QED BY <2>1, <2>2
<1>8. remaps' \in [CM!Segment -> Nat]
  BY <1>1, <1>3, <1>4
<1>9. QED BY <1>3, <1>6, <1>7, <1>8

LEMMA RenumberOpen == DownInv /\ CM!Renumber => CM!BorderLeftOpen'
<1>1. SUFFICES ASSUME DownInv, CM!Renumber PROVE CM!BorderLeftOpen'
  OBVIOUS
<1>2. /\ part = "down" /\ part' = "final" /\ CM!Segment' = CM!Segment /\ chunk' = chunk
      /\ \A e \in edges : e[3] < High
      /\ counts' = [i \in {0} \cup {New[j] : j \in CM!Segment} |->
            IF i = 0 THEN Total({j \in CM!Segment : CM!IsDust(j)}, counts)
            ELSE counts[CHOOSE j \in CM!Segment : New[j] = i]]
  BY <1>1, RenumberIs
<1>3. /\ CM!Labels' = {New[j] : j \in CM!Segment} \ {0}
      /\ \A i \in CM!Segment : remaps'[i] = New[regions[i]] /\ regions[i] \in CM!Segment
  BY <1>1, LabelsAre
<1>4. /\ chunk \in Segments /\ Sums(CM!Segment, chunk.counts, regions, counts) /\ BorderAlone
      /\ edges \subseteq chunk.dendr
  BY <1>1, <1>2 DEF DownInv, InOrder, Counted
<1>5. /\ IsFiniteSet(CM!Segment) /\ chunk.border \subseteq CM!Segment
      /\ \A i \in CM!Segment : chunk.counts[i] \in Nat
      /\ \A e \in chunk.dendr : e[3] \in Int
  BY <1>4, InputIs
<1>6. /\ \A i \in CM!Segment : New[i] # 0 <=> CM!Stays(i)
      /\ \A i, j \in CM!Segment : New[i] # 0 /\ New[i] = New[j] => i = j
  BY <1>4, NewApart
<1>7. \A i \in CM!Segment : counts[regions[i]] # 0
  BY <1>1, <1>2, RootsHold
<1>8. AtLeast(Taken, High) = AtLeast(chunk.dendr, High)
  <2>1. \A e \in edges : ~(e[3] >= High)
    BY <1>2, <1>4, <1>5, SegmentsAssumption
  <2>2. QED BY <1>4, <2>1 DEF AtLeast, Taken
<1>9. ASSUME NEW i \in chunk.border
      PROVE  /\ remaps'[i] # 0
             /\ {j \in CM!Segment : remaps'[j] = remaps'[i]} =
                    Part(CM!Segment, AtLeast(chunk.dendr, High), i)
  <2>1. i \in CM!Segment /\ regions[i] \in border
    BY <1>4, <1>5 DEF BorderAlone
  <2>2. CM!Stays(regions[i])
    BY <1>7, <2>1 DEF CM!Stays, CM!IsDust
  <2>3. New[regions[i]] # 0
    BY <1>3, <1>6, <2>1, <2>2
  <2>4. \A j \in CM!Segment : remaps'[j] = remaps'[i] <=> regions[j] = regions[i]
    BY <1>3, <1>6, <2>1, <2>3
  <2>5. {j \in CM!Segment : remaps'[j] = remaps'[i]} = {j \in CM!Segment : regions[j] = regions[i]}
    BY <2>4
  <2>6. QED BY <1>3, <1>4, <1>8, <2>1, <2>3, <2>5 DEF BorderAlone
<1>10. counts'[0] = Total({i \in CM!Segment : remaps'[i] = 0}, chunk.counts)
  <2> DEFINE D == {j \in CM!Segment : CM!IsDust(j)}
  <2>1. counts'[0] = Total(D, counts)
    BY <1>2
  <2>2. D \in SUBSET CM!Segment
    OBVIOUS
  <2>3. {i \in CM!Segment : remaps'[i] = 0} = {i \in CM!Segment : regions[i] \in D}
    <3>1. \A i \in CM!Segment : remaps'[i] = 0 <=> ~CM!Stays(regions[i])
      BY <1>3, <1>6
    <3>2. \A i \in CM!Segment : remaps'[i] = 0 <=> regions[i] \in D
      BY <1>3, <1>7, <3>1 DEF CM!Stays
    <3>3. QED BY <3>2
  <2> HIDE DEF D
  <2>4. Total(D, counts) = Total({i \in CM!Segment : regions[i] \in D}, chunk.counts)
    BY <1>4, <1>5, <2>2, TotalOfTotals
  <2>5. QED BY <2>1, <2>3, <2>4
<1>11. ASSUME NEW n \in CM!Labels'
       PROVE  counts'[n] = Total({i \in CM!Segment : remaps'[i] = n}, chunk.counts)
  <2>1. PICK r \in CM!Segment : New[r] = n
    BY <1>3
  <2>2. n # 0
    BY <1>3
  <2>3. (CHOOSE j \in CM!Segment : New[j] = n) = r
    BY <1>6, <2>1, <2>2
  <2>4. counts'[n] = counts[r]
    BY <1>2, <2>1, <2>2, <2>3
  <2>5. \A i \in CM!Segment : remaps'[i] = n <=> regions[i] = r
    BY <1>3, <1>6, <2>1, <2>2
  <2>6. {i \in CM!Segment : remaps'[i] = n} = {i \in CM!Segment : regions[i] = r}
    BY <2>5
  <2>7. QED BY <1>4, <2>4, <2>6 DEF Sums
<1>12. QED BY <1>2, <1>9, <1>10, <1>11, RegionsOfChunk DEF CM!BorderLeftOpen

-----------------------------------------------------------------------------
(* The final dendrogram.                                                   *)

SameParts(ids, F, N) == \A i \in ids : Part(ids, F, i) = Part(ids, N, i)

\* At every value, two sets of edges make the same parts.
Alike(ids, F, N) == \A value \in Int : \A i \in ids :
    Part(ids, AtLeast(F, value), i) = Part(ids, AtLeast(N, value), i)

Renamed == {<<remaps[e[1]], remaps[e[2]], e[3]>> :
               e \in {f \in Taken : remaps[f[1]] # 0 /\ remaps[f[2]] # 0}}

Spanned ==
    /\ IsFiniteSet(CM!Labels) /\ IsFiniteSet(forest) /\ forest \subseteq Renamed
    /\ Tells(CM!Labels, regions, Renamed)
    /\ Alike(CM!Labels, forest, Renamed)
    /\ Cardinality(forest) + Cardinality(Parts(CM!Labels, forest)) = Cardinality(CM!Labels)

FinalInv == part = "final" => CM!BorderLeftOpen /\ Numbered /\ Spanned

LEMMA ImageFinite ==
    ASSUME NEW S, IsFiniteSet(S), NEW f PROVE IsFiniteSet({f[i] : i \in S} \ {0})
<1>1. [i \in S |-> f[i]] \in Surjection(S, {f[i] : i \in S})
  BY DEF Surjection
<1>2. IsFiniteSet({f[i] : i \in S})
  BY <1>1, FS_Surjection
<1>3. QED BY <1>2, FS_Subset

LEMMA PartsOfNone ==
    ASSUME NEW ids, IsFiniteSet(ids) PROVE Cardinality(Parts(ids, {})) = Cardinality(ids)
<1>1. \A i \in ids : Part(ids, {}, i) = {i}
  BY PartOfNone
<1>2. Parts(ids, {}) = {{i} : i \in ids}
  BY <1>1 DEF Parts
<1>3. [i \in ids |-> {i}] \in Bijection(ids, {{i} : i \in ids})
  BY DEF Bijection, Injection, Surjection, IsInjective
<1>4. Cardinality(ids) = Cardinality({{i} : i \in ids})
  <2>1. IsFiniteSet({{i} : i \in ids})
    BY <1>3, FS_Surjection DEF Bijection
  <2>2. QED BY <1>3, <2>1, FS_Bijection DEF ExistsBijection
<1>5. QED BY <1>2, <1>4

LEMMA RenumberKeeps == DownInv /\ CM!Renumber => DownInv' /\ FinalInv'
<1>1. SUFFICES ASSUME DownInv, CM!Renumber PROVE DownInv' /\ FinalInv'
  OBVIOUS
<1>2. /\ part = "down" /\ part' = "final" /\ CM!Segment' = CM!Segment
      /\ edges' = chunk.dendr /\ UNCHANGED <<chunk, border, forest>>
      /\ regions' = Apart({0} \cup {New[j] : j \in CM!Segment})
  BY <1>1, RenumberIs
<1>3. CM!Labels' = {New[j] : j \in CM!Segment} \ {0} /\ remaps' \in [CM!Segment -> Nat]
  BY <1>1, LabelsAre
<1>4. chunk \in Segments /\ forest = {}
  BY <1>1, <1>2 DEF DownInv, InOrder, Counted
<1>5. Taken' = {} /\ Renamed' = {} /\ forest' = {}
  BY <1>2, <1>4 DEF Taken, Renamed
<1>6. InOrder'
  BY <1>2, <1>4, <1>5 DEF InOrder
<1>7. regions' = [i \in CM!Labels' \cup {0} |-> i]
  BY <1>2, <1>3 DEF Apart
<1>8. Numbered'
  BY <1>2, <1>3, <1>7 DEF Numbered
<1>9. Spanned'
  <2>1. IsFiniteSet(CM!Labels')
    BY <1>3, <1>4, InputIs, ImageFinite
  <2>2. Tells(CM!Labels', regions', {})
    BY <1>7, PartOfNone DEF Tells
  <2>3. \A value : AtLeast({}, value) = {}
    BY DEF AtLeast
  <2>4. Cardinality({}) = 0 /\ IsFiniteSet({})
    BY FS_EmptySet
  <2>5. Cardinality(Parts(CM!Labels', {})) = Cardinality(CM!Labels')
    BY <2>1, PartsOfNone
  <2>6. 0 + Cardinality(CM!Labels') = Cardinality(CM!Labels')
    BY <2>1, FS_CardinalityType
  <2>7. QED BY <1>5, <2>1, <2>2, <2>3, <2>4, <2>5, <2>6 DEF Spanned, Alike
<1>10. QED BY <1>1, <1>2, <1>6, <1>8, <1>9, RenumberOpen DEF DownInv, FinalInv

\* An edge no value exceeds leaves two sets of edges the same parts at every value, if all
\* of them with it make the same parts.
LEMMA LeastAdded ==
    ASSUME NEW ids, NEW F, NEW N, F \subseteq N, NEW x, x[3] \in Int,
           \A e \in N : e[3] \in Int /\ x[3] <= e[3],
           Alike(ids, F, N),
           NEW G, G = F \/ G = F \cup {x},
           SameParts(ids, G, N \cup {x})
    PROVE  Alike(ids, G, N \cup {x})
<1>1. SUFFICES ASSUME NEW value \in Int, NEW i \in ids
               PROVE  Part(ids, AtLeast(G, value), i) = Part(ids, AtLeast(N \cup {x}, value), i)
  BY DEF Alike
<1>2. CASE value <= x[3]
  <2>1. \A e \in N \cup {x} : e[3] >= value
    <3>1. SUFFICES ASSUME NEW e \in N PROVE e[3] >= value
      BY <1>2
    <3>2. e[3] \in Int /\ x[3] <= e[3]
      OBVIOUS
    <3>3. QED BY <1>2, <3>2
  <2>2. AtLeast(N \cup {x}, value) = N \cup {x} /\ AtLeast(G, value) = G
    BY <2>1 DEF AtLeast
  <2>3. QED BY <2>2 DEF SameParts
<1>3. CASE ~(value <= x[3])
  <2>1. ~(x[3] >= value)
    BY <1>3
  <2>2. AtLeast(N \cup {x}, value) = AtLeast(N, value) /\ AtLeast(G, value) = AtLeast(F, value)
    BY <2>1 DEF AtLeast
  <2>3. QED BY <2>2 DEF Alike
<1>4. QED BY <1>2, <1>3

LEMMA SameJoin ==
    ASSUME NEW ids, NEW F, \A e \in F : e[1] \in ids /\ e[2] \in ids,
           NEW N, \A e \in N : e[1] \in ids /\ e[2] \in ids,
           NEW x, x[1] \in ids, x[2] \in ids
    PROVE  SameParts(ids, F, N) => SameParts(ids, F \cup {x}, N \cup {x})
<1> DEFINE After(E, i) == IF i \in Part(ids, E, x[1]) \cup Part(ids, E, x[2])
                          THEN Part(ids, E, x[1]) \cup Part(ids, E, x[2]) ELSE Part(ids, E, i)
<1>1. \A i \in ids : Part(ids, F \cup {x}, i) = After(F, i)
  BY PartJoined
<1>2. \A i \in ids : Part(ids, N \cup {x}, i) = After(N, i)
  BY PartJoined
<1>3. SUFFICES ASSUME \A i \in ids : Part(ids, F, i) = Part(ids, N, i)
               PROVE  \A i \in ids : Part(ids, F \cup {x}, i) = Part(ids, N \cup {x}, i)
  BY DEF SameParts
<1>4. \A i \in ids : After(F, i) = After(N, i)
  BY <1>3
<1>5. QED BY <1>1, <1>2, <1>4

LEMMA FinalSpans ==
    ASSUME NEW ids, IsFiniteSet(ids), NEW rep, ids \subseteq DOMAIN rep,
           NEW F, IsFiniteSet(F), NEW N, F \subseteq N, Tells(ids, rep, N),
           \A e \in N : e[1] \in ids /\ e[2] \in ids /\ e[3] \in Int,
           Alike(ids, F, N),
           Cardinality(F) + Cardinality(Parts(ids, F)) = Cardinality(ids),
           NEW x, x[1] \in ids, x[2] \in ids, x[3] \in Int, \A e \in N : x[3] <= e[3],
           NEW new, NEW G,
           \/ rep[x[1]] = rep[x[2]] /\ new = rep /\ G = F
           \/ /\ rep[x[1]] # rep[x[2]] /\ G = F \cup {x}
              /\ \E vr \in {rep[x[1]], rep[x[2]]} : new = Joined(rep, rep[x[1]], rep[x[2]], vr)
    PROVE  /\ IsFiniteSet(G) /\ G \subseteq N \cup {x} /\ Tells(ids, new, N \cup {x})
           /\ Alike(ids, G, N \cup {x})
           /\ Cardinality(G) + Cardinality(Parts(ids, G)) = Cardinality(ids)
<1>0. /\ \A e \in N : e[1] \in ids /\ e[2] \in ids
      /\ \A e \in F : e[1] \in ids /\ e[2] \in ids
      /\ \A e \in N : e[3] \in Int /\ x[3] <= e[3]
  OBVIOUS
<1>1. \A i \in ids : Part(ids, F, i) = Part(ids, N, i)
  <2>1. \A e \in N : e[3] >= x[3]
    OBVIOUS
  <2>2. AtLeast(F, x[3]) = F /\ AtLeast(N, x[3]) = N
    BY <2>1 DEF AtLeast
  <2>3. \A i \in ids : Part(ids, AtLeast(F, x[3]), i) = Part(ids, AtLeast(N, x[3]), i)
    BY DEF Alike
  <2>4. QED BY <2>2, <2>3
<1>2. CASE rep[x[1]] = rep[x[2]] /\ new = rep /\ G = F
  <2>1. Tells(ids, rep, N \cup {x}) /\ \A i \in ids : Part(ids, N \cup {x}, i) = Part(ids, N, i)
    BY <1>0, <1>2, SameTells
  <2>2. SameParts(ids, G, N \cup {x})
    BY <1>1, <1>2, <2>1 DEF SameParts
  <2>3. Alike(ids, G, N \cup {x})
    BY <1>0, <1>2, <2>2, LeastAdded
  <2>4. QED BY <1>2, <2>1, <2>3
<1>3. CASE /\ rep[x[1]] # rep[x[2]] /\ G = F \cup {x}
           /\ \E vr \in {rep[x[1]], rep[x[2]]} : new = Joined(rep, rep[x[1]], rep[x[2]], vr)
  <2>1. Tells(ids, new, N \cup {x})
    <3>1. PICK vr \in {rep[x[1]], rep[x[2]]} : new = Joined(rep, rep[x[1]], rep[x[2]], vr)
      BY <1>3
    <3>2. Tells(ids, Joined(rep, rep[x[1]], rep[x[2]], vr), N \cup {x})
      BY <1>0, JoinTells
    <3>3. QED BY <3>1, <3>2
  <2>2. x[2] \notin Part(ids, N, x[1])
    BY <1>3 DEF Tells
  <2>3. x[2] \notin Part(ids, F, x[1])
    BY <1>1, <2>2
  <2>4. SameParts(ids, G, N \cup {x})
    <3>1. SameParts(ids, F, N)
      BY <1>1 DEF SameParts
    <3>2. SameParts(ids, F \cup {x}, N \cup {x})
      BY <1>0, <3>1, SameJoin
    <3>3. QED BY <1>3, <3>2
  <2>5. Alike(ids, G, N \cup {x})
    BY <1>0, <1>3, <2>4, LeastAdded
  <2>6. x \notin F
    <3>1. SUFFICES ASSUME x \in F PROVE FALSE
      OBVIOUS
    <3>2. Closed(Part(ids, F, x[1]), F) /\ x[1] \in Part(ids, F, x[1])
      BY <1>0, PartClosed, PartWithin
    <3>3. QED BY <2>3, <3>1, <3>2 DEF Closed
  <2>7. IsFiniteSet(G) /\ Cardinality(G) = Cardinality(F) + 1 /\ Cardinality(F) \in Nat
    BY <1>3, <2>6, FS_AddElement, FS_CardinalityType
  <2>8. /\ Cardinality(Parts(ids, F)) \in Nat
        /\ Cardinality(Parts(ids, G)) = Cardinality(Parts(ids, F)) - 1
    BY <1>0, <1>3, <2>3, FewerParts
  <2>9. \A a, b \in Nat : a + 1 + (b - 1) = a + b
    OBVIOUS
  <2>10. Cardinality(G) + Cardinality(Parts(ids, G)) = Cardinality(ids)
    BY <2>7, <2>8, <2>9
  <2>11. QED BY <1>3, <2>1, <2>5, <2>7, <2>10
<1>4. QED BY <1>2, <1>3

LEMMA FinalKeeps == DownInv /\ FinalInv /\ CM!Final => DownInv' /\ FinalInv'
<1>1. SUFFICES ASSUME DownInv, FinalInv, CM!Final PROVE DownInv' /\ FinalInv'
  OBVIOUS
<1>2. part = "final" /\ UNCHANGED <<chunk, counts, border, remaps, part>>
  BY <1>1 DEF CM!Final
<1> DEFINE b1(x) == remaps[x[1]]
           b2(x) == remaps[x[2]]
<1>3. PICK x \in Foremost(edges) :
         /\ edges' = edges \ {x}
         /\ IF CM!Differ(b1(x), b2(x))
            THEN /\ \E vr \in {regions[b1(x)], regions[b2(x)]} :
                       regions' = Joined(regions, regions[b1(x)], regions[b2(x)], vr)
                 /\ forest' = forest \cup {<<b1(x), b2(x), x[3]>>}
            ELSE UNCHANGED <<regions, forest>>
  BY <1>1, RegionsOfChunk DEF CM!Final
<1>4. InOrder /\ Numbered /\ Spanned /\ CM!BorderLeftOpen
  BY <1>1, <1>2 DEF DownInv, FinalInv
<1>5. /\ InOrder' /\ Taken' = Taken \cup {x} /\ CM!Segment' = CM!Segment
      /\ x[1] \in CM!Segment /\ x[2] \in CM!Segment /\ x[3] \in Int
      /\ \A e \in Taken : e[1] \in CM!Segment /\ e[2] \in CM!Segment /\ e[3] \in Int /\ x[3] <= e[3]
  BY <1>2, <1>3, <1>4, TakeNext
<1>6. CM!Labels' = CM!Labels
  BY <1>2, <1>5 DEF CM!Labels
<1>7. CM!BorderLeftOpen'
  BY <1>2, <1>4, <1>5, <1>6 DEF CM!BorderLeftOpen
<1> DEFINE a1 == remaps[x[1]]
           a2 == remaps[x[2]]
           y == <<a1, a2, x[3]>>
<1>8. Renamed' = IF a1 # 0 /\ a2 # 0 THEN Renamed \cup {y} ELSE Renamed
  BY <1>2, <1>5 DEF Renamed
<1>9. \A e \in Renamed : e[1] \in CM!Labels /\ e[2] \in CM!Labels /\ e[3] \in Int /\ x[3] <= e[3]
  BY <1>5 DEF Renamed, CM!Labels
<1>10. y[1] = a1 /\ y[2] = a2 /\ y[3] = x[3]
  OBVIOUS
<1>11. /\ IF CM!Differ(a1, a2)
          THEN /\ \E vr \in {regions[a1], regions[a2]} :
                     regions' = Joined(regions, regions[a1], regions[a2], vr)
               /\ forest' = forest \cup {y}
          ELSE UNCHANGED <<regions, forest>>
       /\ (a1 # 0 => a1 \in CM!Labels) /\ (a2 # 0 => a2 \in CM!Labels)
  BY <1>3, <1>5 DEF CM!Labels
<1> HIDE DEF a1, a2, y
<1>12. CASE a1 = 0 \/ a2 = 0
  <2>1. ~CM!Differ(a1, a2)
    BY <1>4, <1>12 DEF CM!Differ, Numbered
  <2>2. UNCHANGED <<regions, forest>> /\ Renamed' = Renamed
    BY <1>8, <1>11, <1>12, <2>1
  <2>3. Numbered' /\ Spanned'
    BY <1>2, <1>4, <1>5, <1>6, <2>2 DEF Numbered, Spanned
  <2>4. QED BY <1>2, <1>4, <1>5, <1>7, <2>3 DEF DownInv, FinalInv
<1>13. CASE a1 # 0 /\ a2 # 0
  <2>1. a1 \in CM!Labels /\ a2 \in CM!Labels /\ Renamed' = Renamed \cup {y}
    BY <1>8, <1>11, <1>13
  <2>2. regions[a1] \in CM!Labels /\ regions[a2] \in CM!Labels /\ 0 \notin CM!Labels
    BY <1>4, <2>1 DEF Numbered, CM!Labels
  <2>3. \/ regions[a1] = regions[a2] /\ regions' = regions /\ forest' = forest
        \/ /\ regions[a1] # regions[a2] /\ forest' = forest \cup {y}
           /\ \E vr \in {regions[a1], regions[a2]} :
                 regions' = Joined(regions, regions[a1], regions[a2], vr)
    BY <1>11, <2>2 DEF CM!Differ
  <2>4. /\ DOMAIN regions = CM!Labels \cup {0} /\ regions[0] = 0
        /\ \A n \in CM!Labels : regions[n] \in CM!Labels
    BY <1>4 DEF Numbered
  <2>5. /\ DOMAIN regions' = CM!Labels \cup {0} /\ regions'[0] = 0
        /\ \A n \in CM!Labels : regions'[n] \in CM!Labels
    <3>1. CASE regions' = regions
      BY <2>4, <3>1
    <3>2. CASE \E vr \in {regions[a1], regions[a2]} : regions' = Joined(regions, regions[a1], regions[a2], vr)
      BY <2>2, <2>4, <3>2 DEF Joined
    <3>3. QED BY <2>3, <3>1, <3>2
  <2>6. Numbered'
    BY <1>2, <1>4, <1>5, <1>6, <2>5 DEF Numbered
  <2>7. /\ IsFiniteSet(CM!Labels) /\ IsFiniteSet(forest) /\ forest \subseteq Renamed
        /\ Tells(CM!Labels, regions, Renamed)
        /\ Alike(CM!Labels, forest, Renamed)
        /\ Cardinality(forest) + Cardinality(Parts(CM!Labels, forest)) = Cardinality(CM!Labels)
    BY <1>4 DEF Spanned
  <2>8. y[1] \in CM!Labels /\ y[2] \in CM!Labels /\ y[3] \in Int /\ (\A e \in Renamed : y[3] <= e[3])
    BY <1>5, <1>9, <1>10, <2>1
  <2>9. \/ regions[y[1]] = regions[y[2]] /\ regions' = regions /\ forest' = forest
        \/ /\ regions[y[1]] # regions[y[2]] /\ forest' = forest \cup {y}
           /\ \E vr \in {regions[y[1]], regions[y[2]]} :
                 regions' = Joined(regions, regions[y[1]], regions[y[2]], vr)
    BY <1>10, <2>3
  <2>10. \A e \in Renamed : e[1] \in CM!Labels /\ e[2] \in CM!Labels /\ e[3] \in Int
    BY <1>9
  <2>11. /\ IsFiniteSet(forest') /\ forest' \subseteq Renamed \cup {y}
         /\ Tells(CM!Labels, regions', Renamed \cup {y})
         /\ Alike(CM!Labels, forest', Renamed \cup {y})
         /\ Cardinality(forest') + Cardinality(Parts(CM!Labels, forest')) = Cardinality(CM!Labels)
    BY <2>4, <2>7, <2>8, <2>9, <2>10, FinalSpans
  <2>12. Spanned'
    BY <1>6, <2>1, <2>7, <2>11 DEF Spanned
  <2>13. QED BY <1>2, <1>5, <1>7, <2>6, <2>12 DEF DownInv, FinalInv
<1>14. QED BY <1>12, <1>13

ChunkInv == DownInv /\ FinalInv

LEMMA ChunkStep == ChunkInv /\ [CM!Next]_(CM!vars) => ChunkInv'
<1>1. SUFFICES ASSUME ChunkInv, [CM!Next]_(CM!vars) PROVE ChunkInv'
  OBVIOUS
<1>2. CASE CM!Down
  <2>1. part' = "down"
    BY <1>2 DEF CM!Down
  <2>2. QED BY <1>1, <1>2, <2>1, DownKeeps DEF ChunkInv, FinalInv
<1>3. CASE CM!Renumber
  BY <1>1, <1>3, RenumberKeeps DEF ChunkInv
<1>4. CASE CM!Final
  BY <1>1, <1>4, FinalKeeps DEF ChunkInv
<1>5. CASE UNCHANGED CM!vars
  <2>1. /\ UNCHANGED <<chunk, counts, border, regions, edges, remaps, forest, part>>
        /\ CM!Segment' = CM!Segment /\ Taken' = Taken /\ CM!Labels' = CM!Labels /\ Renamed' = Renamed
    BY <1>5 DEF CM!vars, CM!Segment, Taken, CM!Labels, Renamed
  <2>2. CM!BorderLeftOpen => CM!BorderLeftOpen'
    BY <2>1 DEF CM!BorderLeftOpen
  <2>3. (Numbered => Numbered') /\ (Spanned => Spanned')
    BY <2>1 DEF Numbered, Spanned
  <2>4. DownInv'
    BY <1>1, <2>1 DEF ChunkInv, DownInv, InOrder, Counted, BorderAlone
  <2>5. QED BY <1>1, <2>1, <2>2, <2>3, <2>4 DEF ChunkInv, FinalInv
<1>6. QED BY <1>1, <1>2, <1>3, <1>4, <1>5 DEF CM!Next

\* While a chunk goes down its dendrogram the sets are those that the edges taken so far
\* join, wherever the bit does not keep them apart, their counts are the sums of what they
\* hold, and after the renumbering the forest joins what the edges taken again join.
THEOREM ChunkCorrect == CM!Spec => []ChunkInv
<1>1. CM!Init => ChunkInv
  <2>1. CM!Init => part = "down"
    BY DEF CM!Init
  <2>2. QED BY <2>1, DownInit DEF ChunkInv, FinalInv
<1>2. QED BY <1>1, ChunkStep, PTL DEF CM!Spec

\* chunk_quickie_impl leaves open what touches another chunk: a segment on the border has
\* been joined with what high affinities join it to and with nothing else; and the count of
\* a new number is the sum of the counts of its segments.
THEOREM BorderCorrect == CM!Spec => []BorderLeftOpen
<1>1. ChunkInv => BorderLeftOpen
  BY DEF ChunkInv, FinalInv, BorderLeftOpen, CM!BorderLeftOpen
<1>2. QED BY <1>1, ChunkCorrect, PTL

\* The dendrogram that chunk_quickie_impl stores has no cycle and joins, at every value,
\* what all the edges of the chunk join.
THEOREM ForestCorrect == CM!Spec => []ForestSpans
<1>1. ASSUME ChunkInv PROVE ForestSpans
  <2>1. SUFFICES ASSUME part = "final", edges = {} PROVE
          Spans(forest,
            {<<remaps[e[1]], remaps[e[2]], e[3]>> :
                e \in {f \in chunk.dendr : remaps[f[1]] # 0 /\ remaps[f[2]] # 0}},
            CM!Labels)
    BY RegionsOfChunk DEF ForestSpans, CM!ForestSpans
  <2>2. Spanned /\ InOrder
    BY <1>1, <2>1 DEF ChunkInv, DownInv, FinalInv
  <2>3. Taken = chunk.dendr
    BY <2>1 DEF Taken
  <2>4. SUFFICES Spans(forest, Renamed, CM!Labels)
    BY <2>3 DEF Renamed
  <2>5. \A e \in Renamed : e[3] \in Int
    <3>1. \A e \in chunk.dendr : e[3] \in Int
      BY <2>2, InputIs DEF InOrder
    <3>2. QED BY <2>3, <3>1 DEF Renamed
  <2>6. ASSUME NEW e \in Renamed
        PROVE  Parts(CM!Labels, AtLeast(forest, e[3])) = Parts(CM!Labels, AtLeast(Renamed, e[3]))
    <3>1. \A i \in CM!Labels :
             Part(CM!Labels, AtLeast(forest, e[3]), i) = Part(CM!Labels, AtLeast(Renamed, e[3]), i)
      BY <2>2, <2>5 DEF Spanned, Alike
    <3>2. QED BY <3>1 DEF Parts
  <2>7. \A value \in {e[3] : e \in Renamed} :
           Parts(CM!Labels, AtLeast(forest, value)) = Parts(CM!Labels, AtLeast(Renamed, value))
    BY <2>6
  <2>8. QED BY <2>2, <2>7 DEF Spans, Spanned
<1>2. QED BY <1>1, ChunkCorrect, PTL

-----------------------------------------------------------------------------
(* Watershed.                                                              *)

\* Its operators on regions are those above.
LEMMA RegionsOfBorders ==
    /\ \A ids : WS!Apart(ids) = Apart(ids)
    /\ \A rep, v1, v2, vr : WS!Joined(rep, v1, v2, vr) = Joined(rep, v1, v2, vr)
    /\ \A E : WS!Foremost(E) = Foremost(E)
    /\ \A ids, size : WS!Total(ids, size) = Total(ids, size)
    /\ \A ids, E, i : WS!Part(ids, E, i) = Part(ids, E, i)
    /\ \A ids, E : WS!Parts(ids, E) = Parts(ids, E)
    /\ \A E, value : WS!AtLeast(E, value) = AtLeast(E, value)
    /\ \A S : WS!Cardinality(S) = Cardinality(S)
    /\ \A E, F, ids : WS!Spans(E, F, ids) <=> Spans(E, F, ids)
<1>1. \A ids : WS!Apart(ids) = Apart(ids)
  BY DEF WS!Apart, Apart
<1>2. \A rep, v1, v2, vr : WS!Joined(rep, v1, v2, vr) = Joined(rep, v1, v2, vr)
  BY DEF WS!Joined, Joined
<1>3. \A E : WS!Foremost(E) = Foremost(E)
  BY DEF WS!Foremost, Foremost
<1>0. \A S : WS!Cardinality(S) = Cardinality(S)
  BY DEF WS!Cardinality, Cardinality
<1>4. \A ids, size : WS!Total(ids, size) = Total(ids, size)
  <2>1. \A ids, size : WS!Voxels(ids, size) = Voxels(ids, size)
    BY DEF WS!Voxels, Voxels
  <2>2. QED BY <1>0, <2>1 DEF WS!Total, Total
<1>5. \A ids, E, i : WS!Part(ids, E, i) = Part(ids, E, i)
  BY DEF WS!Part, WS!Closed, Part, Closed
<1>6. \A ids, E : WS!Parts(ids, E) = Parts(ids, E)
  BY <1>5 DEF WS!Parts, Parts
<1>7. \A E, value : WS!AtLeast(E, value) = AtLeast(E, value)
  BY DEF WS!AtLeast, AtLeast
<1>8. \A E, F, ids : WS!Spans(E, F, ids) <=> Spans(E, F, ids)
  BY <1>0, <1>6, <1>7 DEF WS!Spans, Spans
<1>9. QED BY <1>0, <1>1, <1>2, <1>3, <1>4, <1>5, <1>6, <1>7, <1>8

LEMMA LeastNumber ==
    ASSUME NEW M \in SUBSET Nat, M # {}
    PROVE  \E k \in M : \A j \in M : k <= j
<1>1. PICK b \in M : TRUE
  OBVIOUS
<1> DEFINE S == 0..b
           T == {0..k : k \in M \cap S}
<1>2. IsWellFoundedOn(StrictSubsetOrdering(S), SUBSET S)
  <2>1. IsFiniteSet(S)
    BY FS_Interval
  <2>2. FiniteSubsetsOf(S) = SUBSET S
    BY <2>1, FS_FiniteSubsetsOfFinite
  <2>3. QED BY <2>2, FS_StrictSubsetOrderingWellFounded
<1>3. T \in SUBSET SUBSET S /\ T # {}
  BY <1>1
<1>4. \E X \in T : \A Y \in T : <<Y, X>> \notin StrictSubsetOrdering(S)
  BY <1>2, <1>3, WFMin
<1>5. PICK k \in M \cap S : \A Y \in T : <<Y, 0..k>> \notin StrictSubsetOrdering(S)
  BY <1>4
<1>6. ASSUME NEW j \in M, j < k PROVE FALSE
  <2>1. 0..j \in T /\ 0..j \subseteq 0..k /\ 0..j # 0..k
    BY <1>6
  <2>2. <<0..j, 0..k>> \in StrictSubsetOrdering(S)
    BY <1>3, <1>5, <2>1 DEF StrictSubsetOrdering
  <2>3. QED BY <1>5, <2>1, <2>2
<1>7. QED BY <1>6

-----------------------------------------------------------------------------
(* Domains.                                                                *)

\* The number of domains in a chunk.
Count(c) == Cardinality(DOMAIN in.counts[c]) - 1

LEMMA CountIs ==
    ASSUME in \in Domains, NEW c \in WS!Chunk
    PROVE  /\ Count(c) \in Nat /\ DOMAIN in.counts[c] = 0..Count(c)
           /\ \A i \in 0..Count(c) : in.counts[c][i] \in Nat
<1>1. PICK n \in Nat : in.counts[c] \in [0..n -> Nat]
  <2>1. /\ IsFiniteSet(DOMAIN in.counts[c]) /\ 0 \in DOMAIN in.counts[c]
        /\ in.counts[c] \in [0..Cardinality(DOMAIN in.counts[c]) - 1 -> Nat]
    BY DomainsAssumption DEF WS!Chunk
  <2>2. DOMAIN in.counts[c] # {}
    BY <2>1
  <2>3. Cardinality(DOMAIN in.counts[c]) \in Nat /\ Cardinality(DOMAIN in.counts[c]) # 0
    BY <2>1, <2>2, FS_CardinalityType, FS_EmptySet
  <2>4. Cardinality(DOMAIN in.counts[c]) - 1 \in Nat
    BY <2>3
  <2>5. QED BY <2>1, <2>4
<1>2. Cardinality(0..n) = n + 1
  <2>1. 0 \in Int /\ n \in Int
    OBVIOUS
  <2>2. Cardinality(0..n) = IF 0 > n THEN 0 ELSE n - 0 + 1
    BY <2>1, FS_Interval
  <2>3. QED BY <2>2
<1>3. DOMAIN in.counts[c] = 0..n
  BY <1>1
<1>4. Count(c) = n
  BY <1>2, <1>3 DEF Count
<1>5. QED BY <1>1, <1>3, <1>4

LEMMA OffsetIs ==
    ASSUME in \in Domains
    PROVE  /\ WS!Offset(1) = 0
           /\ \A c \in 1..Chunks + 1 : WS!Offset(c) \in Nat
           /\ \A c \in WS!Chunk : WS!Offset(c + 1) = WS!Offset(c) + Count(c)
           /\ \A c, d \in 1..Chunks + 1 : c <= d => WS!Offset(c) <= WS!Offset(d)
<1> DEFINE size == [d \in WS!Chunk |-> Cardinality(DOMAIN in.counts[d]) - 1]
<1>1. \A d \in WS!Chunk : size[d] = Count(d) /\ size[d] \in Nat
  BY CountIs DEF Count
<1>2. \A c : WS!Offset(c) = Total(1..c - 1, size)
  BY RegionsOfBorders DEF WS!Offset
<1> HIDE DEF size
<1>3. Chunks \in Nat
  BY DomainsAssumption
<1>4. ASSUME NEW a \in Int, NEW b \in Int PROVE IsFiniteSet(a..b)
  BY FS_Interval
<1>5. \A c \in 1..Chunks + 1 : WS!Offset(c) \in Nat
  <2>1. SUFFICES ASSUME NEW c \in 1..Chunks + 1 PROVE Total(1..c - 1, size) \in Nat
    BY <1>2
  <2>2. c \in Int /\ c - 1 \in Int /\ 1 \in Int
    BY <1>3
  <2>3. \A d \in 1..c - 1 : size[d] \in Nat
    BY <1>1, <1>3 DEF WS!Chunk
  <2>4. QED BY <1>4, <2>2, <2>3, TotalIsNat
<1>6. ASSUME NEW c \in 1..Chunks + 1, NEW d \in 1..Chunks + 1, c <= d
      PROVE  WS!Offset(d) = WS!Offset(c) + Total(c..d - 1, size) /\ Total(c..d - 1, size) \in Nat
  <2>1. c \in Int /\ d \in Int /\ c - 1 \in Int /\ d - 1 \in Int /\ 1 \in Int
    BY <1>3
  <2>2. IsFiniteSet(1..c - 1) /\ IsFiniteSet(c..d - 1)
    BY <1>4, <2>1
  <2>3. (1..c - 1) \cup (c..d - 1) = 1..d - 1 /\ (1..c - 1) \cap (c..d - 1) = {}
    BY <1>3, <1>6
  <2>4. \A i \in (1..c - 1) \cup (c..d - 1) : size[i] \in Nat
    BY <1>1, <1>3, <2>3 DEF WS!Chunk
  <2>5. Total((1..c - 1) \cup (c..d - 1), size) = Total(1..c - 1, size) + Total(c..d - 1, size)
    <3> DEFINE A == 1..c - 1
               B == c..d - 1
    <3>1. IsFiniteSet(A) /\ IsFiniteSet(B) /\ A \cap B = {} /\ \A i \in A \cup B : size[i] \in Nat
      BY <2>2, <2>3, <2>4
    <3> HIDE DEF A, B
    <3>2. Total(A \cup B, size) = Total(A, size) + Total(B, size)
      BY <3>1, TotalOfTwo
    <3>3. QED BY <3>2 DEF A, B
  <2>6. Total(c..d - 1, size) \in Nat
    BY <2>2, <2>4, TotalIsNat
  <2>7. QED BY <1>2, <2>3, <2>5, <2>6
<1>7. ASSUME NEW c \in WS!Chunk PROVE WS!Offset(c + 1) = WS!Offset(c) + Count(c)
  <2>1. c \in 1..Chunks + 1 /\ c + 1 \in 1..Chunks + 1 /\ c <= c + 1 /\ c..(c + 1) - 1 = {c}
    BY <1>3 DEF WS!Chunk
  <2>2. Total({c}, size) = size[c]
    BY <1>1, TotalOfOne
  <2>3. QED BY <1>1, <1>6, <2>1, <2>2
<1>8. WS!Offset(1) = 0
  <2>1. 1..1 - 1 = {}
    OBVIOUS
  <2>2. QED BY <1>2, <2>1, TotalOfNone
<1>9. \A c, d \in 1..Chunks + 1 : c <= d => WS!Offset(c) <= WS!Offset(d)
  BY <1>5, <1>6
<1>10. QED BY <1>5, <1>7, <1>8, <1>9

\* Each domain but 0 is one of one chunk.
LEMMA DomainIs ==
    ASSUME in \in Domains
    PROVE  /\ IsFiniteSet(WS!Domain) /\ WS!Domain \subseteq Nat /\ 0 \in WS!Domain
           /\ \A c \in WS!Chunk : WS!Offset(c) \in Nat
           /\ \A c \in WS!Chunk : \A n \in 1..Count(c) : n + WS!Offset(c) \in WS!Domain \ {0}
           /\ \A c, d \in WS!Chunk : \A i \in Int :
                 i - WS!Offset(c) \in 1..Count(c) /\ i - WS!Offset(d) \in 1..Count(d) => c = d
           /\ \A i \in WS!Domain \ {0} : \E c \in WS!Chunk : i - WS!Offset(c) \in 1..Count(c)
<1>1. /\ WS!Offset(1) = 0 /\ Chunks \in Nat
      /\ \A c \in 1..Chunks + 1 : WS!Offset(c) \in Nat
      /\ \A c \in WS!Chunk : WS!Offset(c + 1) = WS!Offset(c) + Count(c)
      /\ \A c, d \in 1..Chunks + 1 : c <= d => WS!Offset(c) <= WS!Offset(d)
  BY OffsetIs, DomainsAssumption
<1>2. \A c \in WS!Chunk : Count(c) \in Nat /\ c \in 1..Chunks + 1 /\ c + 1 \in 1..Chunks + 1
  <2>1. \A c \in WS!Chunk : Count(c) \in Nat
    BY CountIs
  <2>2. QED BY <1>1, <2>1 DEF WS!Chunk
<1>3. WS!Offset(Chunks + 1) \in Nat /\ Chunks + 1 \in 1..Chunks + 1
  BY <1>1
<1>4. IsFiniteSet(WS!Domain) /\ WS!Domain \subseteq Nat /\ 0 \in WS!Domain
  <2>1. 0 \in Int /\ WS!Offset(Chunks + 1) \in Int
    BY <1>3
  <2>2. IsFiniteSet(0..WS!Offset(Chunks + 1))
    BY <2>1, FS_Interval
  <2>3. QED BY <1>3, <2>2 DEF WS!Domain
<1>5. ASSUME NEW c \in WS!Chunk, NEW n \in 1..Count(c) PROVE n + WS!Offset(c) \in WS!Domain \ {0}
  <2>1. WS!Offset(c + 1) <= WS!Offset(Chunks + 1) /\ c \in 1..Chunks
    BY <1>1, <1>2, <1>3 DEF WS!Chunk
  <2>2. WS!Offset(c) \in Nat /\ WS!Offset(c + 1) = WS!Offset(c) + Count(c) /\ n \in Nat /\ n >= 1 /\ n <= Count(c)
    BY <1>1, <1>2
  <2>3. QED BY <1>2, <1>3, <2>1, <2>2 DEF WS!Domain
<1>6. ASSUME NEW c \in WS!Chunk, NEW d \in WS!Chunk, NEW i \in Int, c < d,
             i - WS!Offset(c) \in 1..Count(c), i - WS!Offset(d) \in 1..Count(d)
      PROVE  FALSE
  <2>1. c + 1 <= d
    BY <1>1, <1>6 DEF WS!Chunk
  <2>2. WS!Offset(c + 1) <= WS!Offset(d)
    BY <1>1, <1>2, <2>1
  <2>3. WS!Offset(c) \in Nat /\ WS!Offset(d) \in Nat /\ Count(c) \in Nat /\ Count(d) \in Nat
    BY <1>1, <1>2
  <2>4. i - WS!Offset(c) <= Count(c) /\ i - WS!Offset(d) >= 1
    BY <1>6, <2>3
  <2>5. QED BY <1>1, <2>2, <2>3, <2>4
<1>7. \A c, d \in WS!Chunk : c < d \/ d < c \/ c = d
  BY <1>1 DEF WS!Chunk
<1>8. ASSUME NEW i \in WS!Domain \ {0} PROVE \E c \in WS!Chunk : i - WS!Offset(c) \in 1..Count(c)
  <2> DEFINE M == {c \in 1..Chunks + 1 : i <= WS!Offset(c)}
  <2>1. M \in SUBSET Nat /\ Chunks + 1 \in M
    BY <1>1, <1>3 DEF WS!Domain
  <2>2. PICK m \in M : \A j \in M : m <= j
    BY <2>1, LeastNumber
  <2>3. i \in Nat /\ i >= 1
    BY <1>4, <1>8
  <2>4. m # 1
    BY <1>1, <2>2, <2>3
  <2>5. m - 1 \in WS!Chunk /\ m - 1 \notin M /\ (m - 1) + 1 = m
    BY <1>1, <2>2, <2>4 DEF WS!Chunk
  <2>6. WS!Offset(m) = WS!Offset(m - 1) + Count(m - 1)
    BY <1>1, <2>5
  <2>7. m - 1 \in 1..Chunks + 1 /\ ~(i <= WS!Offset(m - 1)) /\ i <= WS!Offset(m)
    BY <1>2, <2>2, <2>5
  <2>8. WS!Offset(m - 1) \in Nat /\ Count(m - 1) \in Nat
    BY <1>1, <1>2, <2>5
  <2>9. i - WS!Offset(m - 1) \in 1..Count(m - 1)
    BY <2>3, <2>6, <2>7, <2>8
  <2>10. QED BY <2>5, <2>9
<1>9. QED BY <1>1, <1>2, <1>4, <1>5, <1>6, <1>7, <1>8

LEMMA FirstSizeIs ==
    ASSUME in \in Domains
    PROVE  /\ WS!FirstSize \in [WS!Domain -> Nat]
           /\ WS!FirstSize[0] = Total(WS!Chunk, [c \in WS!Chunk |-> in.counts[c][0]])
           /\ \A c \in WS!Chunk : \A n \in 1..Count(c) : WS!FirstSize[n + WS!Offset(c)] = in.counts[c][n]
           /\ \A i \in WS!Domain \ {0} : WS!FirstSize[i] # 0
<1>1. /\ 0 \in WS!Domain /\ WS!Domain \subseteq Nat
      /\ \A c \in WS!Chunk : WS!Offset(c) \in Nat
      /\ \A c \in WS!Chunk : \A n \in 1..Count(c) : n + WS!Offset(c) \in WS!Domain \ {0}
      /\ \A c, d \in WS!Chunk : \A i \in Int :
            i - WS!Offset(c) \in 1..Count(c) /\ i - WS!Offset(d) \in 1..Count(d) => c = d
      /\ \A i \in WS!Domain \ {0} : \E c \in WS!Chunk : i - WS!Offset(c) \in 1..Count(c)
  BY DomainIs
<1>2. \A c \in WS!Chunk : /\ Count(c) \in Nat /\ DOMAIN in.counts[c] \ {0} = 1..Count(c)
                          /\ \A i \in 0..Count(c) : in.counts[c][i] \in Nat
  BY CountIs
<1> DEFINE of(i) == CHOOSE d \in WS!Chunk : i - WS!Offset(d) \in DOMAIN in.counts[d] \ {0}
<1>3. ASSUME NEW c \in WS!Chunk, NEW n \in 1..Count(c)
      PROVE  of(n + WS!Offset(c)) = c /\ (n + WS!Offset(c)) - WS!Offset(c) = n
  <2>1. (n + WS!Offset(c)) - WS!Offset(c) = n /\ n + WS!Offset(c) \in Int
    BY <1>1, <1>2
  <2>2. \A d \in WS!Chunk : (n + WS!Offset(c)) - WS!Offset(d) \in DOMAIN in.counts[d] \ {0} => d = c
    BY <1>1, <1>2, <2>1
  <2>3. (n + WS!Offset(c)) - WS!Offset(c) \in DOMAIN in.counts[c] \ {0}
    BY <1>2, <2>1
  <2> HIDE DEF of
  <2>4. of(n + WS!Offset(c)) = c
    BY <2>2, <2>3 DEF of
  <2>5. QED BY <2>1, <2>4
<1>4. \A i \in WS!Domain : WS!FirstSize[i] =
         IF i = 0 THEN Total(WS!Chunk, [c \in WS!Chunk |-> in.counts[c][0]])
         ELSE in.counts[of(i)][i - WS!Offset(of(i))]
  BY RegionsOfBorders DEF WS!FirstSize
<1>5. DOMAIN WS!FirstSize = WS!Domain /\ WS!FirstSize = [i \in WS!Domain |-> WS!FirstSize[i]]
  BY DEF WS!FirstSize
<1> HIDE DEF of
<1>6. \A c \in WS!Chunk : \A n \in 1..Count(c) : WS!FirstSize[n + WS!Offset(c)] = in.counts[c][n]
  BY <1>1, <1>3, <1>4
<1>7. Total(WS!Chunk, [c \in WS!Chunk |-> in.counts[c][0]]) \in Nat
  <2>1. \A c \in WS!Chunk : [d \in WS!Chunk |-> in.counts[d][0]][c] \in Nat
    BY <1>2
  <2>2. IsFiniteSet(WS!Chunk)
    <3>1. 1 \in Int /\ Chunks \in Int
      BY DomainsAssumption
    <3>2. QED BY <3>1, FS_Interval DEF WS!Chunk
  <2>3. QED BY <2>1, <2>2, TotalIsNat
<1>8. ASSUME NEW i \in WS!Domain, i # 0 PROVE WS!FirstSize[i] \in Nat /\ WS!FirstSize[i] # 0
  <2>1. PICK c \in WS!Chunk : i - WS!Offset(c) \in 1..Count(c)
    BY <1>1, <1>8
  <2>2. (i - WS!Offset(c)) + WS!Offset(c) = i
    BY <1>1
  <2>3. WS!FirstSize[i] = in.counts[c][i - WS!Offset(c)]
    BY <1>6, <2>1, <2>2
  <2>4. in.counts[c][i - WS!Offset(c)] # 0
    BY <1>2, <2>1, DomainsAssumption DEF WS!Chunk
  <2>5. QED BY <1>2, <2>1, <2>3, <2>4
<1>9. \A i \in WS!Domain : WS!FirstSize[i] \in Nat
  BY <1>4, <1>7, <1>8
<1>10. WS!FirstSize[0] = Total(WS!Chunk, [c \in WS!Chunk |-> in.counts[c][0]])
  BY <1>1, <1>4
<1>11. QED BY <1>1, <1>5, <1>6, <1>8, <1>9, <1>10

-----------------------------------------------------------------------------
(* Edges.                                                                  *)

\* The edges of a chunk as they are after the first rounds.
First(c) == {WS!Named(c, e) : e \in in.dendr[c]} \cup WS!Largest(WS!BorderEdges(WS!Ahead(in, c)))

LEMMA LargestIs ==
    ASSUME NEW E, IsFiniteSet(E), \A e \in E : e[3] \in Int, NEW e \in E
    PROVE  \E g \in WS!Largest(E) : g[1] = e[1] /\ g[2] = e[2] /\ g[3] >= e[3]
<1> DEFINE Same == {f \in E : f[1] = e[1] /\ f[2] = e[2] /\ f[3] >= e[3]}
           M == {f[3] - e[3] : f \in Same}
<1>1. IsFiniteSet(Same)
  BY FS_Subset
<1>2. e \in Same
  OBVIOUS
<1> DEFINE Above(f) == {g \in Same : g[3] > f[3]}
           K == {Cardinality(Above(f)) : f \in Same}
<1>3. \A f \in Same : IsFiniteSet(Above(f)) /\ Cardinality(Above(f)) \in Nat
  BY <1>1, FS_Subset, FS_CardinalityType
<1>4. K \in SUBSET Nat /\ K # {}
  BY <1>2, <1>3
<1>5. PICK k \in K : \A j \in K : k <= j
  BY <1>4, LeastNumber
<1>6. PICK f \in Same : Cardinality(Above(f)) = k
  BY <1>5
<1>7. ASSUME NEW g \in Same, g[3] > f[3] PROVE FALSE
  <2>1. Above(g) \in SUBSET Above(f) /\ Above(g) # Above(f)
    BY <1>7
  <2>2. /\ IsFiniteSet(Above(f)) /\ Cardinality(Above(f)) \in Nat
        /\ IsFiniteSet(Above(g)) /\ Cardinality(Above(g)) \in Nat
    BY <1>3
  <2>3. Cardinality(Above(g)) \in K
    OBVIOUS
  <2> HIDE DEF Above, K
  <2>4. Cardinality(Above(g)) <= Cardinality(Above(f)) /\ Cardinality(Above(g)) # Cardinality(Above(f))
    BY <2>1, <2>2, FS_Subset
  <2>5. k <= Cardinality(Above(g))
    BY <1>5, <2>3
  <2>6. QED BY <1>6, <2>2, <2>4, <2>5
<1>8. f \in WS!Largest(E)
  <2>1. SUFFICES ASSUME NEW g \in E, g[1] = f[1], g[2] = f[2] PROVE g[3] <= f[3]
    BY DEF WS!Largest
  <2>2. CASE g \in Same
    BY <1>7, <2>2
  <2>3. CASE g \notin Same
    BY <2>1, <2>3
  <2>4. QED BY <2>2, <2>3
<1>9. QED BY <1>6, <1>8

LEMMA FacesAre ==
    ASSUME in \in Domains, NEW f \in WS!Met(in.faces)
    PROVE  /\ f.c \in WS!Chunk /\ f.o \in WS!Chunk /\ f.conn \in Int
           /\ f.a0 \in 1..Count(f.c) /\ f.b1 \in 1..Count(f.o)
           /\ WS!Ends(f)[1] \in WS!Domain \ {0} /\ WS!Ends(f)[2] \in WS!Domain \ {0}
           /\ WS!Ends(f) = <<WS!Ends(f)[1], WS!Ends(f)[2]>>
<1>1. /\ f.c \in WS!Chunk /\ f.o \in WS!Chunk /\ f.conn \in Int /\ f.a0 # 0 /\ f.b1 # 0
      /\ f.a0 \in DOMAIN in.counts[f.c] /\ f.b1 \in DOMAIN in.counts[f.o]
  BY DomainsAssumption DEF WS!Met, WS!Chunk
<1>2. f.a0 \in 1..Count(f.c) /\ f.b1 \in 1..Count(f.o)
  BY <1>1, CountIs
<1>3. QED BY <1>1, <1>2, DomainIs DEF WS!Ends

LEMMA EdgesAre ==
    ASSUME in \in Domains
    PROVE  /\ \A e \in WS!FirstEdges : /\ e = <<e[1], e[2], e[3]>> /\ e[3] \in Int
                                       /\ e[1] \in WS!Domain \ {0} /\ e[2] \in WS!Domain \ {0}
           /\ \A c \in WS!Chunk : First(c) \subseteq WS!FirstEdges
           /\ \A e \in WS!FirstEdges : \E c \in WS!Chunk : \E g \in First(c) :
                 g[1] = e[1] /\ g[2] = e[2] /\ g[3] >= e[3]
<1>1. ASSUME NEW c \in WS!Chunk, NEW e \in in.dendr[c]
      PROVE  /\ e[1] \in 1..Count(c) /\ e[2] \in 1..Count(c) /\ e[3] \in Int
             /\ WS!Named(c, e) = <<WS!Named(c, e)[1], WS!Named(c, e)[2], WS!Named(c, e)[3]>>
             /\ WS!Named(c, e)[1] \in WS!Domain \ {0} /\ WS!Named(c, e)[2] \in WS!Domain \ {0}
             /\ WS!Named(c, e)[3] = e[3]
  <2>1. e \in (DOMAIN in.counts[c] \ {0}) \X (DOMAIN in.counts[c] \ {0}) \X Int
    BY DomainsAssumption DEF WS!Chunk
  <2>2. DOMAIN in.counts[c] \ {0} = 1..Count(c)
    BY CountIs
  <2>3. e[1] \in 1..Count(c) /\ e[2] \in 1..Count(c) /\ e[3] \in Int
    BY <2>1, <2>2
  <2>4. QED BY <2>3, DomainIs DEF WS!Named
<1>2. \A S : S \subseteq in.faces => \A e \in WS!BorderEdges(S) :
         \E f \in WS!Met(in.faces) : e = <<WS!Ends(f)[1], WS!Ends(f)[2], f.conn>>
  BY DEF WS!BorderEdges, WS!Met
<1>3. \A S : S \subseteq in.faces => WS!BorderEdges(S) \subseteq WS!BorderEdges(in.faces)
  BY DEF WS!BorderEdges, WS!Met
<1>4. \A c \in WS!Chunk : WS!Ahead(in, c) \subseteq in.faces
  BY DEF WS!Ahead
<1>5. ASSUME NEW e \in WS!FirstEdges
      PROVE  /\ e = <<e[1], e[2], e[3]>> /\ e[3] \in Int
             /\ e[1] \in WS!Domain \ {0} /\ e[2] \in WS!Domain \ {0}
  <2>1. CASE e \in WS!BorderEdges(in.faces)
    <3>1. PICK f \in WS!Met(in.faces) : e = <<WS!Ends(f)[1], WS!Ends(f)[2], f.conn>>
      BY <1>2, <2>1
    <3>2. QED BY <3>1, FacesAre
  <2>2. CASE \E c \in WS!Chunk : \E g \in in.dendr[c] : e = WS!Named(c, g)
    BY <1>1, <2>2
  <2>3. QED BY <2>1, <2>2 DEF WS!FirstEdges
<1>6. ASSUME NEW c \in WS!Chunk PROVE First(c) \subseteq WS!FirstEdges
  BY <1>3, <1>4 DEF First, WS!FirstEdges, WS!Largest
<1>7. ASSUME NEW e \in WS!FirstEdges
      PROVE  \E c \in WS!Chunk : \E g \in First(c) : g[1] = e[1] /\ g[2] = e[2] /\ g[3] >= e[3]
  <2>1. CASE e \in WS!BorderEdges(in.faces)
    <3>1. PICK f \in WS!Met(in.faces) : e = <<WS!Ends(f)[1], WS!Ends(f)[2], f.conn>> /\ WS!NeedsEdge(f)
      BY <2>1 DEF WS!BorderEdges
    <3>2. f \in WS!Met(WS!Ahead(in, f.c)) /\ f.c \in WS!Chunk
      BY FacesAre DEF WS!Met, WS!Ahead
    <3> DEFINE E == WS!BorderEdges(WS!Ahead(in, f.c))
    <3>3. e \in E
      BY <3>1, <3>2 DEF WS!BorderEdges
    <3>4. IsFiniteSet(E)
      <4>1. IsFiniteSet({g \in WS!Met(WS!Ahead(in, f.c)) : WS!NeedsEdge(g)})
        <5>1. IsFiniteSet(in.faces)
          BY DomainsAssumption
        <5>2. {g \in WS!Met(WS!Ahead(in, f.c)) : WS!NeedsEdge(g)} \subseteq in.faces
          BY DEF WS!Met, WS!Ahead
        <5>3. QED BY <5>1, <5>2, FS_Subset
      <4> DEFINE G == {g \in WS!Met(WS!Ahead(in, f.c)) : WS!NeedsEdge(g)}
      <4>2. [g \in G |-> <<WS!Ends(g)[1], WS!Ends(g)[2], g.conn>>] \in Surjection(G, E)
        BY DEF Surjection, WS!BorderEdges
      <4> HIDE DEF G, E
      <4>3. QED BY <4>1, <4>2, FS_Surjection DEF G
    <3>5. \A g \in E : g[3] \in Int
      BY <1>3, <1>4, <1>5, <3>2 DEF WS!FirstEdges
    <3> HIDE DEF E
    <3>6. \E g \in WS!Largest(E) : g[1] = e[1] /\ g[2] = e[2] /\ g[3] >= e[3]
      BY <3>3, <3>4, <3>5, LargestIs
    <3>7. QED BY <3>2, <3>6 DEF First, E
  <2>2. CASE \E c \in WS!Chunk : \E g \in in.dendr[c] : e = WS!Named(c, g)
    <3>1. PICK c \in WS!Chunk : e \in First(c)
      BY <2>2 DEF First
    <3>2. e[3] >= e[3]
      BY <1>5
    <3>3. QED BY <3>1, <3>2
  <2>3. QED BY <2>1, <2>2 DEF WS!FirstEdges
<1>8. QED BY <1>5, <1>6, <1>7

\* What depends on in alone does not change.
LEMMA SameInput ==
    ASSUME in' = in
    PROVE  /\ WS!Domain' = WS!Domain /\ WS!FirstSize' = WS!FirstSize /\ WS!FirstEdges' = WS!FirstEdges
           /\ \A c : WS!Offset(c)' = WS!Offset(c) /\ Count(c)' = Count(c) /\ First(c)' = First(c)
           /\ WS!Plausible(in) => WS!Plausible(in)'
<1>1. \A c : WS!Offset(c)' = WS!Offset(c) /\ Count(c)' = Count(c)
  BY DEF WS!Offset, Count
<1>2. WS!Domain' = WS!Domain
  BY <1>1 DEF WS!Domain
<1>3. WS!FirstSize' = WS!FirstSize
  <2> DEFINE size(x, offset(_)) ==
                [i \in 0..offset(Chunks + 1) |->
                   IF i = 0 THEN WS!Total(WS!Chunk, [c \in WS!Chunk |-> x.counts[c][0]])
                   ELSE LET c == CHOOSE d \in WS!Chunk : i - offset(d) \in DOMAIN x.counts[d] \ {0}
                        IN  x.counts[c][i - offset(c)]]
             off(x, c) == WS!Total(1..c - 1, [d \in WS!Chunk |-> WS!Cardinality(DOMAIN x.counts[d]) - 1])
             whole(x) == size(x, LAMBDA c : off(x, c))
  <2>1. WS!FirstSize = whole(in) /\ WS!FirstSize' = whole(in')
    BY DEF WS!FirstSize, WS!Domain, WS!Offset
  <2> HIDE DEF whole
  <2>2. QED BY <2>1
<1>4. \A f : WS!Ends(f)' = WS!Ends(f)
  BY <1>1 DEF WS!Ends
<1>5. \A S : WS!BorderEdges(S)' = WS!BorderEdges(S)
  BY <1>4 DEF WS!BorderEdges, WS!Met, WS!NeedsEdge, WS!IsSame
<1>6. \A c, e : WS!Named(c, e)' = WS!Named(c, e)
  BY <1>1 DEF WS!Named
<1>7. WS!FirstEdges' = WS!FirstEdges
  BY <1>5, <1>6 DEF WS!FirstEdges
<1>8. \A c : First(c)' = First(c)
  BY <1>5, <1>6 DEF First, WS!Ahead, WS!Largest
<1>9. WS!Plausible(in) => WS!Plausible(in)'
  OBVIOUS
<1>10. QED BY <1>1, <1>2, <1>3, <1>7, <1>8, <1>9

-----------------------------------------------------------------------------
(* The invariant.                                                          *)

Shape ==
    /\ in \in Domains /\ WS!Plausible(in) /\ todo \subseteq WS!Chunk
    /\ phase \in {"sizes", "borders", "serial", "missing", "dust", "update", "dend", "done"}

\* Nothing is told of the dendrogram yet.
Blank ==
    /\ pairs = <<>> /\ children = [i \in WS!Domain |-> <<>>] /\ list = <<>>
    /\ number = [i \in WS!Domain |-> 0] /\ topologically_next = 0

Sizing ==
    /\ dendr = in.dendr /\ sets = Apart(WS!Domain) /\ merge_at = [i \in WS!Domain |-> High]
    /\ DOMAIN more_dendr = WS!Chunk /\ merge_pairs = [c \in WS!Chunk |-> {}]
    /\ DOMAIN sizes = WS!Domain
    /\ sizes[0] = Total(WS!Chunk \ todo, [c \in WS!Chunk |-> in.counts[c][0]])
    /\ \A c \in WS!Chunk \ todo : \A n \in 1..Count(c) : sizes[n + WS!Offset(c)] = in.counts[c][n]

Stored(chunks) ==
    /\ dendr = in.dendr /\ DOMAIN more_dendr = WS!Chunk
    /\ \A c \in chunks : more_dendr[c] = WS!Largest(WS!BorderEdges(WS!Ahead(in, c)))

Paired ==
    /\ DOMAIN merge_pairs = WS!Chunk
    /\ \A c \in WS!Chunk : \A p \in merge_pairs[c] : p[1] \in WS!Domain \ {0} /\ p[2] \in WS!Domain \ {0}

\* A mark says that no edge that leads out of the set is higher.
Marked ==
    /\ merge_at \in [WS!Domain -> Int] /\ \A i \in WS!Domain : merge_at[i] <= High
    /\ \A e \in WS!FirstEdges : sets[e[1]] # sets[e[2]] =>
          \A k \in {sets[e[1]], sets[e[2]]} : merge_at[k] < High => e[3] <= merge_at[k]

Summing ==
    /\ Sums(WS!Domain, WS!FirstSize, sets, sizes)
    /\ \A i \in WS!Domain : sets[i] = 0 <=> i = 0

InValue ==
    /\ queue \subseteq WS!AllEdges
    /\ \A e \in WS!AllEdges \ queue, f \in queue : f[3] <= e[3]

\* An edge passed whose value is the mark of a set at one of its ends has both ends in it.
Missed ==
    \A e \in WS!AllEdges \ queue : sets[e[1]] # sets[e[2]] /\ e[3] >= Low /\ e[3] < High =>
        e[3] \notin {merge_at[sets[e[1]]], merge_at[sets[e[2]]]}

\* An edge passed that is not below the threshold leads from dust to nowhere.
Dusted ==
    \A e \in WS!AllEdges \ queue : sets[e[1]] # sets[e[2]] /\ e[3] >= DustMerge =>
        sizes[sets[e[1]]] >= DustSize /\ sizes[sets[e[2]]] >= DustSize

JoinInv ==
    /\ Shape
    /\ phase \in {"sizes", "borders", "serial", "missing", "dust", "update"} => Blank
    /\ phase = "sizes" => Sizing
    /\ phase = "borders" => /\ Stored(WS!Chunk \ todo) /\ Paired /\ Marked
                            /\ sets = Apart(WS!Domain) /\ sizes = WS!FirstSize
    /\ phase \in {"serial", "missing", "dust"} => Stored(WS!Chunk) /\ Summing
    /\ phase = "serial" => Paired /\ Marked
    /\ phase = "missing" => Marked /\ InValue /\ Missed
    /\ phase = "dust" => InValue /\ Dusted /\ WS!MissingMade

-----------------------------------------------------------------------------
(* The first rounds.                                                       *)

LEMMA InitJoins == WS!Init => JoinInv
<1>1. SUFFICES ASSUME WS!Init PROVE JoinInv
  OBVIOUS
<1>2. /\ in \in Domains /\ WS!Plausible(in) /\ phase = "sizes" /\ todo = WS!Chunk
      /\ sizes = [i \in WS!Domain |-> 0] /\ sets = Apart(WS!Domain)
      /\ merge_at = [i \in WS!Domain |-> High] /\ dendr = in.dendr
      /\ more_dendr = [c \in WS!Chunk |-> {}] /\ merge_pairs = [c \in WS!Chunk |-> {}]
      /\ Blank
  BY <1>1, RegionsOfBorders DEF WS!Init, Blank
<1>3. WS!Chunk \ todo = {}
  BY <1>2
<1>4. sizes[0] = 0
  BY <1>2, DomainIs
<1>5. Sizing
  BY <1>2, <1>3, <1>4, TotalOfNone DEF Sizing
<1>6. QED BY <1>2, <1>5 DEF JoinInv, Shape

LEMMA SizesStep ==
    ASSUME JoinInv, NEW c \in WS!Chunk, WS!GetChunkSizes(c)
    PROVE  JoinInv'
<1>1. /\ phase = "sizes" /\ c \in todo /\ Shape /\ Blank /\ Sizing /\ in \in Domains
      /\ sizes' = [i \in WS!Domain |->
                   IF i = 0 THEN sizes[0] + in.counts[c][0]
                   ELSE IF i - WS!Offset(c) \in DOMAIN in.counts[c] \ {0}
                        THEN in.counts[c][i - WS!Offset(c)]
                   ELSE sizes[i]]
      /\ todo' = IF todo = {c} THEN WS!Chunk ELSE todo \ {c}
      /\ phase' = IF todo = {c} THEN "borders" ELSE phase
      /\ UNCHANGED <<in, sets, merge_at, reorder, dendr, more_dendr, merge_pairs, queue, pairs, WS!orderVars>>
  BY DEF WS!GetChunkSizes, JoinInv, Shape
<1>2. /\ WS!Domain' = WS!Domain /\ WS!FirstSize' = WS!FirstSize /\ WS!FirstEdges' = WS!FirstEdges
      /\ \A d : WS!Offset(d)' = WS!Offset(d) /\ Count(d)' = Count(d)
      /\ WS!Plausible(in)'
  BY <1>1, SameInput DEF Shape
<1>3. /\ 0 \in WS!Domain /\ WS!Domain \subseteq Nat
      /\ \A d \in WS!Chunk : WS!Offset(d) \in Nat
      /\ \A d \in WS!Chunk : \A n \in 1..Count(d) : n + WS!Offset(d) \in WS!Domain \ {0}
      /\ \A a, b \in WS!Chunk : \A i \in Int :
            i - WS!Offset(a) \in 1..Count(a) /\ i - WS!Offset(b) \in 1..Count(b) => a = b
      /\ \A i \in WS!Domain \ {0} : \E d \in WS!Chunk : i - WS!Offset(d) \in 1..Count(d)
  BY <1>1, DomainIs
<1>4. \A d \in WS!Chunk : /\ Count(d) \in Nat /\ DOMAIN in.counts[d] \ {0} = 1..Count(d)
                          /\ \A i \in 0..Count(d) : in.counts[d][i] \in Nat
  BY <1>1, CountIs
<1> DEFINE zero == [d \in WS!Chunk |-> in.counts[d][0]]
           done == WS!Chunk \ todo
           new == done \cup {c}
<1>5. sizes'[0] = Total(new, zero)
  <2>1. \A d \in WS!Chunk : zero[d] \in Nat
    BY <1>4
  <2>2. IsFiniteSet(done)
    <3>1. 1 \in Int /\ Chunks \in Int
      BY DomainsAssumption
    <3>2. IsFiniteSet(WS!Chunk)
      BY <3>1, FS_Interval DEF WS!Chunk
    <3>3. QED BY <3>2, FS_Subset
  <2>3. IsFiniteSet({c}) /\ done \cap {c} = {}
    BY <1>1, FS_Singleton
  <2>4. zero[c] = in.counts[c][0]
    OBVIOUS
  <2>5. sizes[0] = Total(done, zero) /\ sizes'[0] = sizes[0] + in.counts[c][0]
    BY <1>1, <1>3 DEF Sizing
  <2>6. \A d \in done \cup {c} : zero[d] \in Nat
    BY <2>1
  <2> HIDE DEF zero, done
  <2>7. Total(done \cup {c}, zero) = Total(done, zero) + Total({c}, zero)
    BY <2>2, <2>3, <2>6, TotalOfTwo
  <2>8. Total({c}, zero) = zero[c]
    BY <2>1, TotalOfOne
  <2>9. QED BY <2>4, <2>5, <2>7, <2>8
<1>6. ASSUME NEW d \in new, NEW n \in 1..Count(d) PROVE sizes'[n + WS!Offset(d)] = in.counts[d][n]
  <2>1. /\ d \in WS!Chunk /\ n + WS!Offset(d) \in WS!Domain \ {0}
        /\ (n + WS!Offset(d)) - WS!Offset(d) = n /\ n + WS!Offset(d) \in Int
    BY <1>3, <1>4
  <2>2. CASE d = c
    BY <1>1, <1>4, <2>1, <2>2
  <2>3. CASE d # c
    <3>1. d \in WS!Chunk \ todo /\ sizes[n + WS!Offset(d)] = in.counts[d][n]
      BY <1>1, <2>3 DEF Sizing
    <3>2. (n + WS!Offset(d)) - WS!Offset(c) \notin 1..Count(c)
      BY <1>3, <2>1, <2>3
    <3>3. QED BY <1>1, <1>4, <2>1, <3>1, <3>2
  <2>4. QED BY <2>2, <2>3
<1>7. DOMAIN sizes' = WS!Domain
  BY <1>1
<1> HIDE DEF zero, new, done
<1>8. CASE todo # {c}
  <2>1. WS!Chunk \ todo' = new /\ phase' = "sizes" /\ todo' \subseteq WS!Chunk
    BY <1>1, <1>8 DEF new, done, Shape
  <2>2. Sizing'
    <3>1. \A d \in WS!Chunk \ todo' : \A n \in 1..Count(d)' : sizes'[n + WS!Offset(d)'] = in'.counts[d][n]
      BY <1>1, <1>2, <1>6, <2>1
    <3>2. sizes'[0] = Total(WS!Chunk \ todo', [d \in WS!Chunk |-> in'.counts[d][0]])
      BY <1>1, <1>5, <2>1 DEF zero
    <3>3. QED BY <1>1, <1>2, <1>7, <3>1, <3>2 DEF Sizing
  <2>3. QED BY <1>1, <1>2, <2>1, <2>2 DEF JoinInv, Shape, Blank, WS!orderVars
<1>9. CASE todo = {c}
  <2>1. new = WS!Chunk /\ phase' = "borders" /\ todo' = WS!Chunk
    BY <1>1, <1>9 DEF new, done, Shape
  <2>2. /\ WS!FirstSize \in [WS!Domain -> Nat] /\ WS!FirstSize[0] = Total(WS!Chunk, zero)
        /\ \A d \in WS!Chunk : \A n \in 1..Count(d) : WS!FirstSize[n + WS!Offset(d)] = in.counts[d][n]
    BY <1>1, FirstSizeIs DEF zero
  <2>3. ASSUME NEW i \in WS!Domain PROVE sizes'[i] = WS!FirstSize[i]
    <3>1. CASE i = 0
      BY <1>5, <2>1, <2>2, <3>1
    <3>2. CASE i # 0
      <4>1. PICK d \in WS!Chunk : i - WS!Offset(d) \in 1..Count(d)
        BY <1>3, <3>2
      <4>2. (i - WS!Offset(d)) + WS!Offset(d) = i
        BY <1>3
      <4>3. QED BY <1>6, <2>1, <2>2, <4>1, <4>2
    <3>3. QED BY <3>1, <3>2
  <2>4. sizes' = WS!FirstSize
    BY <1>1, <2>2, <2>3
  <2>5. Stored({})' /\ Paired'
    BY <1>1, <1>2 DEF Stored, Paired, Sizing
  <2>6. Marked'
    <3>1. merge_at' = [i \in WS!Domain |-> High] /\ High \in Int /\ sets' = Apart(WS!Domain)
      BY <1>1, DomainsAssumption DEF Sizing
    <3>2. \A e \in WS!FirstEdges : e[1] \in WS!Domain /\ e[2] \in WS!Domain
      BY <1>1, EdgesAre
    <3>3. QED BY <1>2, <3>1, <3>2 DEF Marked, Apart
  <2>7. WS!Chunk \ todo' = {}
    BY <2>1
  <2>8. QED BY <1>1, <1>2, <2>1, <2>4, <2>5, <2>6, <2>7 DEF JoinInv, Shape, Blank, WS!orderVars, Sizing
<1>10. QED BY <1>8, <1>9

LEMMA SamePlace ==
    ASSUME in \in Domains, NEW c \in WS!Chunk, NEW d \in WS!Chunk, NEW m \in 1..Count(c), NEW n \in 1..Count(d),
           m + WS!Offset(c) = n + WS!Offset(d)
    PROVE  c = d /\ m = n
<1>1. WS!Offset(c) \in Nat /\ WS!Offset(d) \in Nat /\ Count(c) \in Nat /\ Count(d) \in Nat
  BY DomainIs, CountIs
<1> DEFINE i == m + WS!Offset(c)
<1>2. i \in Int /\ i - WS!Offset(c) = m /\ i - WS!Offset(d) = n
  BY <1>1
<1>3. c = d
  <2>1. i - WS!Offset(c) \in 1..Count(c) /\ i - WS!Offset(d) \in 1..Count(d)
    BY <1>2
  <2> HIDE DEF i
  <2>2. QED BY <1>2, <2>1, DomainIs
<1>4. QED BY <1>1, <1>3

\* No edge of a domain is higher than the one that marks it.
LEMMA MarkIsHighest ==
    ASSUME in \in Domains, WS!Plausible(in), NEW c \in WS!Chunk, NEW f \in WS!Met(WS!Faces(in, c)), WS!Marks(f),
           NEW e \in WS!FirstEdges, WS!Ends(f)[1] \in {e[1], e[2]}
    PROVE  e[3] <= f.conn
<1>1. /\ f \in WS!Faces(in, c) /\ f.c = c /\ f.a0 \in 1..Count(c) /\ f.conn \in Int
      /\ WS!Ends(f)[1] = f.a0 + WS!Offset(c)
  <2>1. CASE f \in WS!Ahead(in, c)
    <3>1. f \in WS!Met(in.faces) /\ f.c = c
      BY <2>1 DEF WS!Met, WS!Ahead
    <3>2. QED BY <3>1, FacesAre DEF WS!Met, WS!Ends
  <2>2. CASE f \in WS!Behind(in, c)
    <3>1. PICK g \in in.faces : g.o = c /\
             f = [c |-> g.o, o |-> g.c, a0 |-> g.b1, a1 |-> g.b0, b0 |-> g.a1, b1 |-> g.a0, conn |-> g.conn]
      BY <2>2 DEF WS!Behind
    <3>2. f.c = c /\ f.a0 = g.b1 /\ f.b1 = g.a0 /\ f.conn = g.conn
      BY <3>1
    <3>3. g \in WS!Met(in.faces)
      BY <3>1, <3>2 DEF WS!Met
    <3>4. QED BY <3>1, <3>2, <3>3, FacesAre DEF WS!Met, WS!Ends
  <2>3. QED BY <2>1, <2>2 DEF WS!Met, WS!Faces
<1>2. f.a1 # 0 /\ f.conn < High
  <2>1. High \in Int
    BY DomainsAssumption
  <2>2. QED BY <1>1, <2>1 DEF WS!Marks, WS!IsSame
<1>3. /\ \A g \in WS!Faces(in, c) \ {f} : g.a0 = f.a0 => g.conn <= f.conn
      /\ \A g \in in.dendr[c] : f.a0 \in {g[1], g[2]} => g[3] <= f.conn
  BY <1>1, <1>2 DEF WS!Plausible
<1>4. CASE e \in WS!BorderEdges(in.faces)
  <2>1. PICK g \in WS!Met(in.faces) : e = <<WS!Ends(g)[1], WS!Ends(g)[2], g.conn>>
    BY <1>4 DEF WS!BorderEdges
  <2>2. /\ g.c \in WS!Chunk /\ g.o \in WS!Chunk /\ g.conn \in Int
        /\ g.a0 \in 1..Count(g.c) /\ g.b1 \in 1..Count(g.o) /\ g \in in.faces
    BY FacesAre DEF WS!Met
  <2>3. e[1] = g.a0 + WS!Offset(g.c) /\ e[2] = g.b1 + WS!Offset(g.o) /\ e[3] = g.conn
    BY <2>1 DEF WS!Ends
  <2>4. CASE WS!Ends(f)[1] = e[1]
    <3>1. g.c = c /\ g.a0 = f.a0
      BY <1>1, <2>2, <2>3, <2>4, SamePlace
    <3>2. g \in WS!Faces(in, c)
      BY <2>2, <3>1 DEF WS!Faces, WS!Ahead
    <3>3. QED BY <1>1, <1>3, <2>3, <3>1, <3>2
  <2>5. CASE WS!Ends(f)[1] = e[2]
    <3>1. g.o = c /\ g.b1 = f.a0
      BY <1>1, <2>2, <2>3, <2>5, SamePlace
    <3> DEFINE r == [c |-> g.o, o |-> g.c, a0 |-> g.b1, a1 |-> g.b0, b0 |-> g.a1, b1 |-> g.a0, conn |-> g.conn]
    <3>2. r \in WS!Faces(in, c)
      BY <2>2, <3>1 DEF WS!Faces, WS!Behind
    <3>3. r.a0 = f.a0 /\ r.conn = e[3]
      BY <2>3, <3>1
    <3> HIDE DEF r
    <3>4. QED BY <1>1, <1>3, <3>2, <3>3
  <2>6. QED BY <2>4, <2>5
<1>5. CASE \E d \in WS!Chunk : \E g \in in.dendr[d] : e = WS!Named(d, g)
  <2>1. PICK d \in WS!Chunk : \E g \in in.dendr[d] : e = WS!Named(d, g)
    BY <1>5
  <2>2. PICK g \in in.dendr[d] : e = WS!Named(d, g)
    BY <2>1
  <2>3. g \in (DOMAIN in.counts[d] \ {0}) \X (DOMAIN in.counts[d] \ {0}) \X Int
    BY DomainsAssumption DEF WS!Chunk
  <2>4. DOMAIN in.counts[d] \ {0} = 1..Count(d)
    BY CountIs
  <2>5. g[1] \in 1..Count(d) /\ g[2] \in 1..Count(d)
    BY <2>3, <2>4
  <2>6. e[1] = g[1] + WS!Offset(d) /\ e[2] = g[2] + WS!Offset(d) /\ e[3] = g[3]
    BY <2>2 DEF WS!Named
  <2>7. d = c /\ f.a0 \in {g[1], g[2]}
    BY <1>1, <2>5, <2>6, SamePlace
  <2>8. QED BY <1>3, <2>6, <2>7
<1>6. QED BY <1>4, <1>5 DEF WS!FirstEdges

LEMMA BordersStep ==
    ASSUME JoinInv, NEW c \in WS!Chunk, WS!ProcessChunkBorders(c)
    PROVE  JoinInv'
<1> DEFINE marks == {f \in WS!Met(WS!Faces(in, c)) : WS!Marks(f)}
           of(i) == CHOOSE f \in marks : WS!Ends(f)[1] = i
<1>1. /\ phase = "borders" /\ c \in todo /\ in \in Domains /\ Shape /\ Blank
      /\ Stored(WS!Chunk \ todo) /\ Paired /\ Marked /\ sets = Apart(WS!Domain) /\ sizes = WS!FirstSize
      /\ merge_at' = [i \in WS!Domain |->
             IF \E f \in marks : WS!Ends(f)[1] = i THEN of(i).conn ELSE merge_at[i]]
      /\ more_dendr' = [more_dendr EXCEPT ![c] = WS!Largest(WS!BorderEdges(WS!Ahead(in, c)))]
      /\ merge_pairs' = [merge_pairs EXCEPT
             ![c] = {WS!Ends(f) : f \in {g \in WS!Met(WS!Ahead(in, c)) : WS!IsSame(g)}}]
      /\ todo' = todo \ {c}
      /\ phase' = IF todo = {c} THEN "serial" ELSE phase
      /\ UNCHANGED <<in, sizes, sets, reorder, dendr, queue, pairs, WS!orderVars>>
  BY DEF WS!ProcessChunkBorders, JoinInv, Shape
<1>2. /\ WS!Domain' = WS!Domain /\ WS!FirstSize' = WS!FirstSize /\ WS!FirstEdges' = WS!FirstEdges
      /\ WS!Plausible(in) /\ WS!Plausible(in)'
  BY <1>1, SameInput DEF Shape
<1>3. \A e \in WS!FirstEdges : e[1] \in WS!Domain \ {0} /\ e[2] \in WS!Domain \ {0} /\ e[3] \in Int
  BY <1>1, EdgesAre
<1>4. Stored(WS!Chunk \ todo)'
  <2>1. WS!Chunk \ todo' = (WS!Chunk \ todo) \cup {c}
    BY <1>1
  <2>2. \A d \in (WS!Chunk \ todo) \cup {c} : more_dendr'[d] = WS!Largest(WS!BorderEdges(WS!Ahead(in, d)))
    BY <1>1 DEF Stored
  <2>3. \A d : WS!Largest(WS!BorderEdges(WS!Ahead(in, d)))' = WS!Largest(WS!BorderEdges(WS!Ahead(in, d)))
    BY <1>1 DEF WS!Largest, WS!BorderEdges, WS!Ahead, WS!Met, WS!NeedsEdge, WS!IsSame, WS!Ends, WS!Offset
  <2>4. QED BY <1>1, <2>1, <2>2, <2>3 DEF Stored
<1>5. Paired'
  <2>1. \A f \in WS!Met(WS!Ahead(in, c)) : WS!Ends(f)[1] \in WS!Domain \ {0} /\ WS!Ends(f)[2] \in WS!Domain \ {0}
    BY <1>1, FacesAre DEF WS!Met, WS!Ahead
  <2>2. QED BY <1>1, <1>2, <2>1 DEF Paired
<1>6. ASSUME NEW i \in WS!Domain
      PROVE  \/ merge_at'[i] = merge_at[i]
             \/ /\ merge_at'[i] \in Int /\ merge_at'[i] <= High
                /\ \A e \in WS!FirstEdges : i \in {e[1], e[2]} => e[3] <= merge_at'[i]
  <2>1. CASE \E f \in marks : WS!Ends(f)[1] = i
    <3>1. of(i) \in marks /\ WS!Ends(of(i))[1] = i
      BY <2>1
    <3>2. merge_at'[i] = of(i).conn
      BY <1>1, <2>1
    <3> HIDE DEF of
    <3> DEFINE f == of(i)
    <3>3. f \in WS!Met(WS!Faces(in, c)) /\ WS!Marks(f) /\ WS!Ends(f)[1] = i /\ merge_at'[i] = f.conn
      BY <3>1, <3>2
    <3> HIDE DEF f, marks
    <3>4. \A e \in WS!FirstEdges : i \in {e[1], e[2]} => e[3] <= f.conn
      BY <1>1, <1>2, <3>3, MarkIsHighest
    <3>5. f.conn \in Int
      <4>1. \A g \in in.faces : g.conn \in Int
        BY <1>1, DomainsAssumption
      <4>2. QED BY <3>3, <4>1 DEF WS!Met, WS!Faces, WS!Ahead, WS!Behind
    <3>6. f.conn <= High
      <4>1. High \in Int
        BY DomainsAssumption
      <4>2. QED BY <3>3, <3>5, <4>1 DEF WS!Marks, WS!IsSame
    <3>7. QED BY <3>3, <3>4, <3>5, <3>6
  <2>2. CASE ~ \E f \in marks : WS!Ends(f)[1] = i
    BY <1>1, <2>2
  <2>3. QED BY <2>1, <2>2
<1> DEFINE Right(m) == \A e \in WS!FirstEdges : e[1] # e[2] => \A k \in {e[1], e[2]} : m[k] < High => e[3] <= m[k]
<1>7. \A i \in WS!Domain : sets[i] = i
  BY <1>1 DEF Apart
<1>8. /\ merge_at \in [WS!Domain -> Int] /\ \A i \in WS!Domain : merge_at[i] <= High
      /\ Right(merge_at)
  BY <1>1, <1>3, <1>7 DEF Marked
<1>9. merge_at' \in [WS!Domain -> Int] /\ \A i \in WS!Domain : merge_at'[i] <= High
  <2>1. \A i \in WS!Domain : merge_at'[i] \in Int /\ merge_at'[i] <= High
    BY <1>6, <1>8
  <2>2. DOMAIN merge_at' = WS!Domain /\ merge_at' = [i \in WS!Domain |-> merge_at'[i]]
    BY <1>1
  <2>3. QED BY <2>1, <2>2
<1>10. Right(merge_at')
  <2>1. SUFFICES ASSUME NEW e \in WS!FirstEdges, e[1] # e[2], NEW k \in {e[1], e[2]}, merge_at'[k] < High
                 PROVE  e[3] <= merge_at'[k]
    OBVIOUS
  <2>2. k \in WS!Domain
    BY <1>3
  <2>3. QED BY <1>6, <1>8, <2>1, <2>2
<1>11. Marked'
  <2>1. \A e \in WS!FirstEdges : sets'[e[1]] = e[1] /\ sets'[e[2]] = e[2]
    BY <1>1, <1>3, <1>7
  <2>2. \A e \in WS!FirstEdges : sets'[e[1]] # sets'[e[2]] =>
           \A k \in {sets'[e[1]], sets'[e[2]]} : merge_at'[k] < High => e[3] <= merge_at'[k]
    BY <1>10, <2>1
  <2> HIDE DEF Right
  <2>3. QED BY <1>2, <1>9, <2>2 DEF Marked
<1> HIDE DEF marks, of, Right
<1>12. CASE todo # {c}
  BY <1>1, <1>2, <1>4, <1>5, <1>11, <1>12 DEF JoinInv, Shape, Blank, WS!orderVars
<1>13. CASE todo = {c}
  <2>1. phase' = "serial" /\ todo' = {} /\ WS!Chunk \ todo' = WS!Chunk
    BY <1>1, <1>13
  <2>2. Summing
    <3>1. WS!FirstSize \in [WS!Domain -> Nat] /\ 0 \in WS!Domain
      BY <1>1, FirstSizeIs, DomainIs
    <3>2. ASSUME NEW r \in WS!Domain PROVE sizes[r] = Total({j \in WS!Domain : sets[j] = r}, WS!FirstSize)
      <4>1. {j \in WS!Domain : sets[j] = r} = {r}
        BY <1>7
      <4>2. WS!FirstSize[r] \in Nat
        BY <3>1
      <4>3. QED BY <1>1, <4>1, <4>2, TotalOfOne
    <3>3. sets \in [WS!Domain -> WS!Domain]
      BY <1>1 DEF Apart
    <3>4. QED BY <1>1, <1>7, <3>1, <3>2, <3>3 DEF Summing, Sums
  <2>3. Summing'
    BY <1>1, <1>2, <2>2 DEF Summing
  <2>4. Stored(WS!Chunk)'
    BY <1>4, <2>1 DEF Stored
  <2>5. QED BY <1>1, <1>2, <1>5, <1>11, <2>1, <2>3, <2>4 DEF JoinInv, Shape, Blank, WS!orderVars
<1>14. QED BY <1>12, <1>13

-----------------------------------------------------------------------------
(* Joining domains.                                                        *)

LEMMA EdgesStored ==
    ASSUME in \in Domains, Stored(WS!Chunk)
    PROVE  /\ WS!AllEdges = UNION {First(c) : c \in WS!Chunk}
           /\ \A e \in WS!AllEdges : /\ e \in WS!FirstEdges /\ e = <<e[1], e[2], e[3]>> /\ e[3] \in Int
                                     /\ e[1] \in WS!Domain \ {0} /\ e[2] \in WS!Domain \ {0}
           /\ \A e \in WS!FirstEdges : /\ e[1] \in WS!Domain \ {0} /\ e[2] \in WS!Domain \ {0} /\ e[3] \in Int
                                       /\ \E g \in WS!AllEdges : g[1] = e[1] /\ g[2] = e[2] /\ g[3] >= e[3]
<1>1. \A c \in WS!Chunk : {WS!Named(c, e) : e \in dendr[c]} \cup more_dendr[c] = First(c)
  BY DEF Stored, First
<1>2. WS!AllEdges = UNION {First(c) : c \in WS!Chunk}
  BY <1>1 DEF WS!AllEdges
<1>3. QED BY <1>2, EdgesAre

LEMMA SameEdges ==
    ASSUME UNCHANGED <<in, dendr, more_dendr>>
    PROVE  WS!AllEdges' = WS!AllEdges /\ (Stored(WS!Chunk) => Stored(WS!Chunk)')
<1>1. \A c, e : WS!Named(c, e)' = WS!Named(c, e)
  BY DEF WS!Named, WS!Offset
<1>2. WS!AllEdges' = WS!AllEdges
  BY <1>1 DEF WS!AllEdges
<1>3. \A c : WS!Largest(WS!BorderEdges(WS!Ahead(in, c)))' = WS!Largest(WS!BorderEdges(WS!Ahead(in, c)))
  BY DEF WS!Largest, WS!BorderEdges, WS!Ahead, WS!Met, WS!NeedsEdge, WS!IsSame, WS!Ends, WS!Offset
<1>4. QED BY <1>2, <1>3 DEF Stored

LEMMA MergeSums ==
    ASSUME in \in Domains, in' = in, Summing, NEW v1 \in WS!Domain \ {0}, NEW v2 \in WS!Domain \ {0}, v1 # v2,
           NEW vr \in {v1, v2}, WS!Merge(v1, v2, vr)
    PROVE  Summing'
<1>1. /\ WS!Domain' = WS!Domain /\ WS!FirstSize' = WS!FirstSize /\ IsFiniteSet(WS!Domain)
      /\ \A i \in WS!Domain : WS!FirstSize[i] \in Nat
  BY SameInput, DomainIs, FirstSizeIs
<1>2. /\ sets' = Joined(sets, v1, v2, vr)
      /\ sizes' = [sizes EXCEPT ![v1] = 0, ![v2] = 0, ![vr] = sizes[v1] + sizes[v2]]
  BY RegionsOfBorders DEF WS!Merge, WS!Summed
<1>3. Sums(WS!Domain, WS!FirstSize, sets, sizes)
  BY DEF Summing
<1>4. Sums(WS!Domain, WS!FirstSize, sets', sizes')
  BY <1>1, <1>2, <1>3, MergeCounts
<1>5. \A i \in WS!Domain : sets'[i] = 0 <=> i = 0
  BY <1>2, <1>3 DEF Summing, Joined, Sums
<1>6. QED BY <1>1, <1>4, <1>5 DEF Summing

\* A set joined of two may be marked high, or with what no edge that leads out of them exceeds.
LEMMA MergeMarks ==
    ASSUME in \in Domains, in' = in, Summing, Marked,
           NEW v1 \in WS!Domain, NEW v2 \in WS!Domain, v1 # v2, NEW vr \in {v1, v2},
           sets' = Joined(sets, v1, v2, vr), NEW m, merge_at' = [merge_at EXCEPT ![vr] = m],
           \/ m = High
           \/ /\ m \in Int /\ m <= High
              /\ \A e \in WS!FirstEdges : sets[e[1]] # sets[e[2]] =>
                    (sets[e[1]] \in {v1, v2} \/ sets[e[2]] \in {v1, v2} => e[3] <= m)
    PROVE  Marked'
<1>1. /\ WS!Domain' = WS!Domain /\ WS!FirstEdges' = WS!FirstEdges /\ High \in Int
      /\ \A e \in WS!FirstEdges : e[1] \in WS!Domain /\ e[2] \in WS!Domain /\ e[3] \in Int
  BY SameInput, EdgesAre, DomainsAssumption
<1>2. /\ merge_at \in [WS!Domain -> Int] /\ \A i \in WS!Domain : merge_at[i] <= High
      /\ \A e \in WS!FirstEdges : sets[e[1]] # sets[e[2]] =>
            \A k \in {sets[e[1]], sets[e[2]]} : merge_at[k] < High => e[3] <= merge_at[k]
  BY DEF Marked
<1>3. merge_at' \in [WS!Domain -> Int] /\ \A i \in WS!Domain : merge_at'[i] <= High
  BY <1>1, <1>2
<1>4. \A i \in WS!Domain : /\ sets[i] \in WS!Domain
                           /\ sets'[i] = IF sets[i] \in {v1, v2} THEN vr ELSE sets[i]
  BY DEF Joined, Summing, Sums
<1>5. SUFFICES ASSUME NEW e \in WS!FirstEdges, sets'[e[1]] # sets'[e[2]],
                      NEW k \in {sets'[e[1]], sets'[e[2]]}, merge_at'[k] < High
               PROVE  e[3] <= merge_at'[k]
  BY <1>1, <1>3 DEF Marked
<1>6. sets[e[1]] # sets[e[2]] /\ k \in WS!Domain
  BY <1>1, <1>4, <1>5
<1>7. CASE k = vr
  <2>1. sets[e[1]] \in {v1, v2} \/ sets[e[2]] \in {v1, v2}
    BY <1>1, <1>4, <1>5, <1>7
  <2>2. merge_at'[k] = m
    BY <1>2, <1>6, <1>7
  <2>3. m # High
    BY <1>1, <1>3, <1>5, <1>6, <2>2
  <2>4. QED BY <1>6, <2>1, <2>2, <2>3
<1>8. CASE k # vr
  <2>1. k \in {sets[e[1]], sets[e[2]]} /\ merge_at'[k] = merge_at[k]
    BY <1>1, <1>2, <1>4, <1>5, <1>6, <1>8
  <2>2. QED BY <1>2, <1>5, <1>6, <2>1
<1>9. QED BY <1>7, <1>8

LEMMA PairStep == JoinInv /\ WS!MergePair => JoinInv'
<1>1. SUFFICES ASSUME JoinInv, WS!MergePair PROVE JoinInv'
  OBVIOUS
<1>2. /\ phase = "serial" /\ in \in Domains /\ Shape /\ Blank /\ Stored(WS!Chunk) /\ Summing /\ Paired /\ Marked
      /\ UNCHANGED <<in, phase, todo, reorder, dendr, more_dendr, queue, pairs, WS!orderVars>>
  BY <1>1 DEF WS!MergePair, JoinInv, Shape
<1>3. PICK c \in WS!Chunk : \E p \in merge_pairs[c] :
          /\ merge_pairs' = [merge_pairs EXCEPT ![c] = @ \ {p}]
          /\ IF sets[p[1]] # sets[p[2]]
             THEN \E vr \in {sets[p[1]], sets[p[2]]} :
                     /\ WS!Merge(sets[p[1]], sets[p[2]], vr)
                     /\ merge_at' = [merge_at EXCEPT ![vr] = High]
             ELSE UNCHANGED <<sets, sizes, merge_at>>
  BY <1>1 DEF WS!MergePair
<1>4. PICK p \in merge_pairs[c] :
          /\ merge_pairs' = [merge_pairs EXCEPT ![c] = @ \ {p}]
          /\ IF sets[p[1]] # sets[p[2]]
             THEN \E vr \in {sets[p[1]], sets[p[2]]} :
                     /\ WS!Merge(sets[p[1]], sets[p[2]], vr)
                     /\ merge_at' = [merge_at EXCEPT ![vr] = High]
             ELSE UNCHANGED <<sets, sizes, merge_at>>
  BY <1>3
<1>5. /\ WS!Domain' = WS!Domain /\ WS!FirstSize' = WS!FirstSize /\ WS!FirstEdges' = WS!FirstEdges
      /\ WS!Plausible(in)' /\ Stored(WS!Chunk)'
  BY <1>2, SameInput, SameEdges DEF Shape
<1>6. Paired'
  BY <1>2, <1>4, <1>5 DEF Paired
<1>7. Summing' /\ Marked'
  <2>1. CASE sets[p[1]] = sets[p[2]]
    BY <1>2, <1>4, <1>5, <2>1 DEF Summing, Marked
  <2>2. CASE sets[p[1]] # sets[p[2]]
    <3>1. p[1] \in WS!Domain \ {0} /\ p[2] \in WS!Domain \ {0}
      BY <1>2, <1>4 DEF Paired
    <3> DEFINE v1 == sets[p[1]]
               v2 == sets[p[2]]
    <3>2. v1 \in WS!Domain \ {0} /\ v2 \in WS!Domain \ {0} /\ v1 # v2
      BY <1>2, <2>2, <3>1 DEF Summing, Sums
    <3>3. PICK vr \in {v1, v2} : WS!Merge(v1, v2, vr) /\ merge_at' = [merge_at EXCEPT ![vr] = High]
      BY <1>4, <2>2
    <3> HIDE DEF v1, v2
    <3>4. Summing'
      BY <1>2, <3>2, <3>3, MergeSums
    <3>5. sets' = Joined(sets, v1, v2, vr)
      BY <3>3, RegionsOfBorders DEF WS!Merge
    <3>6. Marked'
      BY <1>2, <3>2, <3>3, <3>5, MergeMarks
    <3>7. QED BY <3>4, <3>6
  <2>3. QED BY <2>1, <2>2
<1>8. QED BY <1>2, <1>5, <1>6, <1>7 DEF JoinInv, Shape, Blank, WS!orderVars

LEMMA SerialStep == JoinInv /\ WS!SerialJoin => JoinInv'
<1>1. SUFFICES ASSUME JoinInv, WS!SerialJoin PROVE JoinInv'
  OBVIOUS
<1>2. /\ phase = "serial" /\ in \in Domains /\ Shape /\ Blank /\ Stored(WS!Chunk) /\ Summing /\ Marked
      /\ phase' = "missing" /\ queue' = WS!AllEdges
      /\ UNCHANGED <<in, todo, sizes, sets, merge_at, reorder, dendr, more_dendr, merge_pairs, pairs,
                     WS!orderVars>>
  BY <1>1 DEF WS!SerialJoin, JoinInv, Shape
<1>3. /\ WS!Domain' = WS!Domain /\ WS!FirstSize' = WS!FirstSize /\ WS!FirstEdges' = WS!FirstEdges
      /\ WS!Plausible(in)' /\ Stored(WS!Chunk)' /\ WS!AllEdges' = WS!AllEdges
  BY <1>2, SameInput, SameEdges DEF Shape
<1>4. InValue' /\ Missed'
  BY <1>2, <1>3 DEF InValue, Missed
<1>5. Summing' /\ Marked'
  BY <1>2, <1>3 DEF Summing, Marked
<1>6. QED BY <1>2, <1>3, <1>4, <1>5 DEF JoinInv, Shape, Blank, WS!orderVars

\* The marks of the two sets of an edge that makes a missing merger.
LEMMA MarksMeet ==
    ASSUME in \in Domains, Summing, Marked, NEW e \in WS!FirstEdges, sets[e[1]] # sets[e[2]],
           WS!IsMissing(sets[e[1]], sets[e[2]], e[3])
    PROVE  LET m1 == merge_at[sets[e[1]]]
               m2 == merge_at[sets[e[2]]]
           IN  \/ WS!MarkAfter(sets[e[1]], sets[e[2]], e[3]) = High
               \/ /\ WS!MarkAfter(sets[e[1]], sets[e[2]], e[3]) = e[3] /\ e[3] < High
                  /\ m1 = e[3] /\ m2 = e[3]
<1> DEFINE m1 == merge_at[sets[e[1]]]
           m2 == merge_at[sets[e[2]]]
<1>1. e[1] \in WS!Domain /\ e[2] \in WS!Domain /\ e[3] \in Int /\ High \in Int
  BY EdgesAre, DomainsAssumption
<1>2. sets[e[1]] \in WS!Domain /\ sets[e[2]] \in WS!Domain
  BY <1>1 DEF Summing, Sums
<1>3. m1 \in Int /\ m2 \in Int /\ m1 <= High /\ m2 <= High
  BY <1>2 DEF Marked
<1>4. (m1 < High => e[3] <= m1) /\ (m2 < High => e[3] <= m2)
  BY DEF Marked
<1>5. (m1 = e[3] \/ m2 = e[3]) /\ WS!MarkAfter(sets[e[1]], sets[e[2]], e[3]) =
          IF (IF m1 < m2 THEN m2 ELSE m1) = e[3] THEN e[3] ELSE High
  BY DEF WS!IsMissing, WS!MarkAfter, WS!Larger
<1> HIDE DEF m1, m2
<1>6. QED BY <1>1, <1>3, <1>4, <1>5 DEF m1, m2

LEMMA TakeFrom ==
    ASSUME InValue, NEW x \in Foremost(queue), queue' = queue \ {x}, WS!AllEdges' = WS!AllEdges
    PROVE  /\ InValue' /\ x \in WS!AllEdges /\ x \in queue
           /\ WS!AllEdges' \ queue' = (WS!AllEdges \ queue) \cup {x}
<1>1. x \in queue /\ (\A f \in queue : f[3] <= x[3]) /\ queue \subseteq WS!AllEdges
  BY DEF Foremost, InValue
<1>2. WS!AllEdges' \ queue' = (WS!AllEdges \ queue) \cup {x}
  BY <1>1
<1>3. \A e \in WS!AllEdges' \ queue', f \in queue' : f[3] <= e[3]
  BY <1>1, <1>2 DEF InValue
<1>4. QED BY <1>1, <1>2, <1>3 DEF InValue

\* When all edges from Low on are passed no missing merger is left, nor is one among those
\* that more_dendr stands for.
NoneMissing == \A e \in WS!FirstEdges :
    sets[e[1]] # sets[e[2]] /\ e[3] >= Low /\ e[3] < High =>
        e[3] \notin {merge_at[sets[e[1]]], merge_at[sets[e[2]]]}

LEMMA NoneIsMissing ==
    ASSUME in \in Domains, Stored(WS!Chunk), Summing, Marked, Missed,
           \A e \in WS!AllEdges : e[3] >= Low => e \notin queue
    PROVE  NoneMissing
<1>1. SUFFICES ASSUME NEW e \in WS!FirstEdges, sets[e[1]] # sets[e[2]], e[3] >= Low, e[3] < High,
                      NEW k \in {sets[e[1]], sets[e[2]]}, e[3] = merge_at[k]
               PROVE  FALSE
  BY DEF NoneMissing
<1>2. PICK g \in WS!AllEdges : g[1] = e[1] /\ g[2] = e[2] /\ g[3] >= e[3]
  BY EdgesStored
<1>3. g \in WS!FirstEdges /\ g[3] \in Int /\ e[3] \in Int /\ Low \in Int /\ High \in Int
  BY EdgesStored, DomainsAssumption
<1>4. g[3] <= e[3]
  BY <1>1, <1>2, <1>3 DEF Marked
<1>5. g[3] = e[3]
  BY <1>2, <1>3, <1>4
<1>6. g \in WS!AllEdges \ queue
  BY <1>1, <1>5
<1>7. QED BY <1>1, <1>2, <1>5, <1>6 DEF Missed

LEMMA MissingEnds ==
    ASSUME JoinInv, phase = "missing", phase' = "dust", queue' = WS!AllEdges,
           \A e \in WS!AllEdges : e[3] >= Low => e \notin queue,
           UNCHANGED <<in, todo, sizes, sets, merge_at, reorder, dendr, more_dendr, merge_pairs, pairs,
                     WS!orderVars>>
    PROVE  JoinInv'
<1>1. /\ in \in Domains /\ Shape /\ Blank /\ Stored(WS!Chunk) /\ Summing /\ Marked /\ Missed
  BY DEF JoinInv, Shape
<1>2. /\ WS!Domain' = WS!Domain /\ WS!FirstSize' = WS!FirstSize /\ WS!FirstEdges' = WS!FirstEdges
      /\ WS!Plausible(in)' /\ Stored(WS!Chunk)' /\ WS!AllEdges' = WS!AllEdges
  BY <1>1, SameInput, SameEdges DEF Shape
<1>3. NoneMissing
  BY <1>1, NoneIsMissing
<1>4. WS!MissingMade'
  BY <1>2, <1>3 DEF WS!MissingMade, NoneMissing
<1>5. InValue' /\ Dusted'
  BY <1>2 DEF InValue, Dusted
<1>6. Summing'
  BY <1>1, <1>2 DEF Summing
<1>7. QED BY <1>1, <1>2, <1>4, <1>5, <1>6 DEF JoinInv, Shape, Blank, WS!orderVars

LEMMA MissingStep == JoinInv /\ WS!MergeMissing => JoinInv'
<1>1. SUFFICES ASSUME JoinInv, WS!MergeMissing PROVE JoinInv'
  OBVIOUS
<1>2. /\ phase = "missing" /\ in \in Domains /\ Shape /\ Blank /\ Stored(WS!Chunk) /\ Summing /\ Marked
      /\ InValue /\ Missed
      /\ UNCHANGED <<in, todo, reorder, dendr, more_dendr, merge_pairs, pairs, WS!orderVars>>
  BY <1>1 DEF WS!MergeMissing, JoinInv, Shape
<1>3. /\ WS!Domain' = WS!Domain /\ WS!FirstSize' = WS!FirstSize /\ WS!FirstEdges' = WS!FirstEdges
      /\ WS!Plausible(in)' /\ Stored(WS!Chunk)' /\ WS!AllEdges' = WS!AllEdges
  BY <1>2, SameInput, SameEdges DEF Shape
<1>4. \A e \in WS!AllEdges : /\ e \in WS!FirstEdges /\ e[3] \in Int
                             /\ e[1] \in WS!Domain \ {0} /\ e[2] \in WS!Domain \ {0}
  BY <1>2, EdgesStored
<1>5. High \in Int /\ Low \in Int
  BY DomainsAssumption
<1>6. CASE queue = {}
  <2>1. queue' = WS!AllEdges /\ phase' = "dust" /\ UNCHANGED <<sets, sizes, merge_at>>
    BY <1>1, <1>6 DEF WS!MergeMissing
  <2>2. QED BY <1>1, <1>2, <1>6, <2>1, MissingEnds
<1>7. CASE queue # {}
  <2>1. PICK x \in Foremost(queue) : WS!Missing(x)
    BY <1>1, <1>7, RegionsOfBorders DEF WS!MergeMissing
  <2>2. x \in queue /\ x \in WS!AllEdges /\ \A f \in queue : f[3] <= x[3]
    BY <1>2 DEF Foremost, InValue
  <2> DEFINE v1 == sets[x[1]]
             v2 == sets[x[2]]
  <2>3. v1 \in WS!Domain \ {0} /\ v2 \in WS!Domain \ {0} /\ x[3] \in Int /\ x \in WS!FirstEdges
        /\ x[1] \in WS!Domain \ {0} /\ x[2] \in WS!Domain \ {0}
    BY <1>2, <1>4, <2>2 DEF Summing, Sums
  <2>4. CASE /\ v1 = v2 \/ (x[3] >= Low /\ ~WS!IsMissing(v1, v2, x[3]))
             /\ queue' = queue \ {x}
             /\ UNCHANGED <<phase, sets, sizes, merge_at>>
    <3>1. InValue' /\ WS!AllEdges' \ queue' = (WS!AllEdges \ queue) \cup {x}
      BY <1>2, <1>3, <2>4, TakeFrom
    <3>2. v1 # v2 => x[3] \notin {merge_at[v1], merge_at[v2]}
      BY <2>4 DEF WS!IsMissing
    <3>3. \A e \in (WS!AllEdges \ queue) \cup {x} : sets[e[1]] # sets[e[2]] /\ e[3] >= Low /\ e[3] < High =>
             e[3] \notin {merge_at[sets[e[1]]], merge_at[sets[e[2]]]}
      BY <1>2, <3>2 DEF Missed
    <3>4. Missed'
      BY <2>4, <3>1, <3>3 DEF Missed
    <3>5. Summing' /\ Marked'
      BY <1>2, <1>3, <2>4 DEF Summing, Marked
    <3>6. QED BY <1>2, <1>3, <2>4, <3>1, <3>4, <3>5 DEF JoinInv, Shape, Blank, WS!orderVars
  <2>5. CASE /\ v1 # v2 /\ x[3] >= Low /\ WS!IsMissing(v1, v2, x[3])
             /\ queue' = queue \ {x}
             /\ \E vr \in {v1, v2} :
                   /\ WS!Merge(v1, v2, vr)
                   /\ merge_at' = [merge_at EXCEPT ![vr] = WS!MarkAfter(v1, v2, x[3])]
             /\ UNCHANGED phase
    <3> DEFINE m == WS!MarkAfter(v1, v2, x[3])
    <3>1. InValue' /\ WS!AllEdges' \ queue' = (WS!AllEdges \ queue) \cup {x}
      BY <1>2, <1>3, <2>5, TakeFrom
    <3>2. PICK vr \in {v1, v2} : WS!Merge(v1, v2, vr) /\ merge_at' = [merge_at EXCEPT ![vr] = m]
      BY <2>5
    <3>3. m = High \/ (m = x[3] /\ x[3] < High /\ merge_at[v1] = x[3] /\ merge_at[v2] = x[3])
      BY <1>2, <2>3, <2>5, MarksMeet
    <3>4. sets' = Joined(sets, v1, v2, vr) /\ v1 # v2
      BY <2>5, <3>2, RegionsOfBorders DEF WS!Merge
    <3>5. \A e \in WS!FirstEdges : sets[e[1]] # sets[e[2]] =>
             \A k \in {sets[e[1]], sets[e[2]]} : merge_at[k] < High => e[3] <= merge_at[k]
      BY <1>2 DEF Marked
    <3>6. /\ merge_at \in [WS!Domain -> Int]
          /\ \A i \in WS!Domain : /\ sets[i] \in WS!Domain
                                  /\ sets'[i] = IF sets[i] \in {v1, v2} THEN vr ELSE sets[i]
      BY <1>2, <3>4 DEF Marked, Joined, Summing, Sums
    <3> HIDE DEF v1, v2, m
    <3>7. Summing'
      BY <1>2, <2>3, <3>2, <3>4, MergeSums
    <3>8. m = High \/ (/\ m \in Int /\ m <= High
                       /\ \A e \in WS!FirstEdges : sets[e[1]] # sets[e[2]] =>
                             (sets[e[1]] \in {v1, v2} \/ sets[e[2]] \in {v1, v2} => e[3] <= m))
      BY <1>5, <2>3, <3>3, <3>5
    <3>9. Marked'
      BY <1>2, <2>3, <3>2, <3>4, <3>8, MergeMarks
    <3>10. Missed'
      <4>1. SUFFICES ASSUME NEW e \in (WS!AllEdges \ queue) \cup {x}, sets'[e[1]] # sets'[e[2]],
                            e[3] >= Low, e[3] < High, NEW k \in {sets'[e[1]], sets'[e[2]]},
                            e[3] = merge_at'[k]
                     PROVE  FALSE
        BY <3>1 DEF Missed
      <4>2. e[1] \in WS!Domain /\ e[2] \in WS!Domain /\ e[3] \in Int
        BY <1>4, <2>2
      <4>3. e # x
        <5>1. sets[x[1]] \in {v1, v2} /\ sets[x[2]] \in {v1, v2}
          BY DEF v1, v2
        <5>2. QED BY <2>3, <3>6, <4>1, <5>1
      <4>4. sets[e[1]] # sets[e[2]] /\ e \in WS!AllEdges \ queue
        BY <3>6, <4>1, <4>2, <4>3
      <4>5. e[3] \notin {merge_at[sets[e[1]]], merge_at[sets[e[2]]]}
        BY <1>2, <4>1, <4>4 DEF Missed
      <4>6. CASE k = vr
        <5>1. sets[e[1]] \in {v1, v2} \/ sets[e[2]] \in {v1, v2}
          BY <3>6, <4>1, <4>2, <4>6
        <5>2. merge_at'[k] = m
          BY <2>3, <3>2, <3>6, <4>6
        <5>3. m # High
          BY <1>5, <4>1, <4>2, <5>2
        <5>4. e[3] = merge_at[v1] /\ e[3] = merge_at[v2]
          BY <3>3, <4>1, <5>2, <5>3
        <5>5. QED BY <4>5, <5>1, <5>4
      <4>7. CASE k # vr
        <5>1. k \in {sets[e[1]], sets[e[2]]} /\ merge_at'[k] = merge_at[k]
          BY <3>2, <3>6, <4>1, <4>2, <4>7
        <5>2. QED BY <4>1, <4>5, <5>1
      <4>8. QED BY <4>6, <4>7
    <3>11. QED BY <1>2, <1>3, <2>5, <3>1, <3>7, <3>9, <3>10 DEF JoinInv, Shape, Blank, WS!orderVars
  <2>6. CASE /\ v1 # v2 /\ x[3] < Low
             /\ queue' = WS!AllEdges /\ phase' = "dust"
             /\ UNCHANGED <<sets, sizes, merge_at>>
    <3>1. \A e \in WS!AllEdges : e[3] >= Low => e \notin queue
      BY <1>4, <1>5, <2>2, <2>3, <2>6
    <3>2. QED BY <1>1, <1>2, <2>6, <3>1, MissingEnds
  <2>7. QED BY <2>1, <2>4, <2>5, <2>6 DEF WS!Missing
<1>8. QED BY <1>6, <1>7

LEMMA DustStep == JoinInv /\ WS!MergeDust => JoinInv'
<1>1. SUFFICES ASSUME JoinInv, WS!MergeDust PROVE JoinInv'
  OBVIOUS
<1>2. /\ phase = "dust" /\ in \in Domains /\ Shape /\ Blank /\ Stored(WS!Chunk) /\ Summing
      /\ InValue /\ Dusted
      /\ UNCHANGED <<in, phase, todo, merge_at, reorder, dendr, more_dendr, merge_pairs, pairs, WS!orderVars>>
  BY <1>1 DEF WS!MergeDust, JoinInv, Shape
<1>3. PICK x \in Foremost(queue) :
          /\ x[3] >= DustMerge
          /\ queue' = queue \ {x}
          /\ IF sets[x[1]] # sets[x[2]] /\ WS!HasDust(sets[x[1]], sets[x[2]])
             THEN \E vr \in {sets[x[1]], sets[x[2]]} : WS!Merge(sets[x[1]], sets[x[2]], vr)
             ELSE UNCHANGED <<sets, sizes>>
  BY <1>1, RegionsOfBorders DEF WS!MergeDust
<1>4. /\ WS!Domain' = WS!Domain /\ WS!FirstSize' = WS!FirstSize /\ WS!FirstEdges' = WS!FirstEdges
      /\ WS!Plausible(in)' /\ Stored(WS!Chunk)' /\ WS!AllEdges' = WS!AllEdges
  BY <1>2, SameInput, SameEdges DEF Shape
<1>5. \A e \in WS!AllEdges : e[3] \in Int /\ e[1] \in WS!Domain \ {0} /\ e[2] \in WS!Domain \ {0}
  BY <1>2, EdgesStored
<1>6. /\ InValue' /\ x \in WS!AllEdges /\ x \in queue
      /\ WS!AllEdges' \ queue' = (WS!AllEdges \ queue) \cup {x}
  BY <1>2, <1>3, <1>4, TakeFrom
<1> DEFINE v1 == sets[x[1]]
           v2 == sets[x[2]]
<1>7. /\ v1 \in WS!Domain \ {0} /\ v2 \in WS!Domain \ {0} /\ x[1] \in WS!Domain /\ x[2] \in WS!Domain
      /\ \A i \in WS!Domain : sets[i] \in WS!Domain /\ sizes[i] \in Nat
      /\ DOMAIN sets = WS!Domain /\ DOMAIN sizes = WS!Domain
  BY <1>2, <1>5, <1>6 DEF Summing, Sums
<1>8. WS!MissingMade'
  <2>1. queue' # WS!AllEdges'
    BY <1>3, <1>4, <1>6
  <2>2. phase' = "dust"
    BY <1>2
  <2>3. QED BY <2>1, <2>2 DEF WS!MissingMade
<1>9. DustSize \in Int /\ DustMerge \in Int
  BY DomainsAssumption
<1>10. CASE UNCHANGED <<sets, sizes>> /\ ~(v1 # v2 /\ WS!HasDust(v1, v2))
  <2>1. v1 # v2 => sizes[v1] >= DustSize /\ sizes[v2] >= DustSize
    BY <1>7, <1>9, <1>10 DEF WS!HasDust
  <2>2. Dusted'
    BY <1>2, <1>6, <1>10, <2>1 DEF Dusted
  <2>3. Summing'
    BY <1>2, <1>4, <1>10 DEF Summing
  <2>4. QED BY <1>2, <1>4, <1>6, <1>8, <2>2, <2>3 DEF JoinInv, Shape, Blank, WS!orderVars
<1>11. CASE v1 # v2 /\ \E vr \in {v1, v2} : WS!Merge(v1, v2, vr)
  <2>1. PICK vr \in {v1, v2} : WS!Merge(v1, v2, vr)
    BY <1>11
  <2>2. sets[x[1]] \in {v1, v2} /\ sets[x[2]] \in {v1, v2}
    OBVIOUS
  <2> HIDE DEF v1, v2
  <2>3. Summing'
    BY <1>2, <1>7, <1>11, <2>1, MergeSums
  <2>4. /\ \A i \in WS!Domain : sets'[i] = IF sets[i] \in {v1, v2} THEN vr ELSE sets[i]
        /\ \A i \in WS!Domain : sizes'[i] = IF i = vr THEN sizes[v1] + sizes[v2]
                                         ELSE IF i \in {v1, v2} THEN 0 ELSE sizes[i]
    BY <1>7, <1>11, <2>1, RegionsOfBorders DEF WS!Merge, Joined, WS!Summed
  <2>5. ASSUME NEW i \in WS!Domain, sizes[sets[i]] >= DustSize
        PROVE  sizes'[sets'[i]] >= DustSize
    <3>1. CASE sets[i] \in {v1, v2}
      <4>1. sizes'[sets'[i]] = sizes[v1] + sizes[v2]
        BY <1>7, <2>4, <3>1
      <4>2. sizes[v1] \in Nat /\ sizes[v2] \in Nat
        BY <1>7
      <4>3. QED BY <1>9, <2>5, <3>1, <4>1, <4>2
    <3>2. CASE sets[i] \notin {v1, v2}
      BY <1>7, <2>4, <2>5, <3>2
    <3>3. QED BY <3>1, <3>2
  <2>6. Dusted'
    <3>1. SUFFICES ASSUME NEW e \in (WS!AllEdges \ queue) \cup {x}, sets'[e[1]] # sets'[e[2]], e[3] >= DustMerge
                   PROVE  sizes'[sets'[e[1]]] >= DustSize /\ sizes'[sets'[e[2]]] >= DustSize
      BY <1>6 DEF Dusted
    <3>2. e # x
      BY <1>7, <2>2, <2>4, <3>1
    <3>3. e \in WS!AllEdges \ queue /\ e[1] \in WS!Domain /\ e[2] \in WS!Domain
      BY <1>5, <3>1, <3>2
    <3>4. sets[e[1]] # sets[e[2]]
      BY <2>4, <3>1, <3>3
    <3>5. sizes[sets[e[1]]] >= DustSize /\ sizes[sets[e[2]]] >= DustSize
      BY <1>2, <3>1, <3>3, <3>4 DEF Dusted
    <3>6. QED BY <2>5, <3>3, <3>5
  <2>7. QED BY <1>2, <1>4, <1>6, <1>8, <2>3, <2>6 DEF JoinInv, Shape, Blank, WS!orderVars
<1>12. QED BY <1>3, <1>10, <1>11

-----------------------------------------------------------------------------
(* The new numbers.                                                        *)

NewNumber == [i \in WS!Domain |->
                 IF WS!Stays(i) THEN Cardinality({j \in WS!Domain : j <= i /\ WS!Stays(j)}) ELSE 0]

\* The domains that stay get numbers of their own, no larger than they had.
LEMMA NumbersApart ==
    ASSUME in \in Domains
    PROVE  /\ \A i \in WS!Domain : NewNumber[i] \in WS!Domain
           /\ \A i \in WS!Domain : NewNumber[i] # 0 <=> WS!Stays(i)
           /\ \A i, j \in WS!Domain : NewNumber[i] # 0 /\ NewNumber[i] = NewNumber[j] => i = j
<1> DEFINE Upto(i) == {j \in WS!Domain : j <= i /\ WS!Stays(j)}
<1>1. /\ IsFiniteSet(WS!Domain) /\ WS!Domain \subseteq Nat /\ 0 \in WS!Domain
      /\ \A i \in WS!Domain : \A j \in 0..i : j \in WS!Domain
  <2>1. WS!Offset(Chunks + 1) \in Nat
    <3>1. Chunks + 1 \in 1..Chunks + 1
      BY DomainsAssumption
    <3>2. QED BY <3>1, OffsetIs
  <2>2. QED BY <2>1, DomainIs DEF WS!Domain
<1>2. \A i \in WS!Domain : IsFiniteSet(Upto(i)) /\ Cardinality(Upto(i)) \in Nat
  BY <1>1, FS_Subset, FS_CardinalityType
<1>3. \A i \in WS!Domain : NewNumber[i] = IF WS!Stays(i) THEN Cardinality(Upto(i)) ELSE 0
  BY DEF NewNumber
<1>4. ASSUME NEW i \in WS!Domain, WS!Stays(i) PROVE Cardinality(Upto(i)) # 0
  <2>1. i \in Upto(i)
    BY <1>1, <1>4
  <2>2. QED BY <1>2, <2>1, FS_EmptySet
<1>5. ASSUME NEW i \in WS!Domain PROVE Cardinality(Upto(i)) <= i
  <2>1. Upto(i) \subseteq 1..i /\ i \in Nat
    <3>1. i \in Nat
      BY <1>1
    <3>2. ASSUME NEW j \in Upto(i) PROVE j \in 1..i
      <4>1. j \in Nat /\ j <= i /\ j # 0
        BY <1>1 DEF WS!Stays
      <4>2. QED BY <3>1, <4>1
    <3>3. QED BY <3>1, <3>2
  <2>2. IsFiniteSet(1..i) /\ Cardinality(1..i) = i
    <3>1. 1 \in Int /\ i \in Int
      BY <2>1
    <3>2. IsFiniteSet(1..i) /\ Cardinality(1..i) = IF 1 > i THEN 0 ELSE i - 1 + 1
      BY <3>1, FS_Interval
    <3>3. QED BY <2>1, <3>2
  <2> HIDE DEF Upto
  <2>3. QED BY <2>1, <2>2, FS_Subset
<1>6. ASSUME NEW i \in WS!Domain, NEW j \in WS!Domain, WS!Stays(i), WS!Stays(j), i < j
      PROVE  Cardinality(Upto(i)) # Cardinality(Upto(j))
  <2>0. i \in Nat /\ j \in Nat
    BY <1>1
  <2>1. ASSUME NEW k \in Upto(i) PROVE k \in Upto(j)
    <3>1. k \in WS!Domain /\ k \in Nat /\ k <= i /\ WS!Stays(k)
      BY <1>1
    <3>2. k <= j
      BY <1>6, <2>0, <3>1
    <3>3. QED BY <3>1, <3>2
  <2>2. j \in Upto(j) /\ j \notin Upto(i)
    BY <1>1, <1>6
  <2> HIDE DEF Upto
  <2>3. QED BY <1>2, <2>1, <2>2, FS_Subset
<1>7. ASSUME NEW i \in WS!Domain, NEW j \in WS!Domain, WS!Stays(i), WS!Stays(j), i # j
      PROVE  Cardinality(Upto(i)) # Cardinality(Upto(j))
  <2>1. i < j \/ j < i
    BY <1>1, <1>7
  <2>2. QED BY <1>6, <1>7, <2>1
<1> HIDE DEF Upto
<1>8. ASSUME NEW i \in WS!Domain PROVE NewNumber[i] \in WS!Domain
  <2>1. Cardinality(Upto(i)) \in 0..i
    <3>1. i \in Nat
      BY <1>1
    <3>2. QED BY <1>2, <1>5, <3>1
  <2>2. Cardinality(Upto(i)) \in WS!Domain
    BY <1>1, <2>1
  <2>3. QED BY <1>1, <1>3, <2>2
<1>9. \A i \in WS!Domain : NewNumber[i] # 0 <=> WS!Stays(i)
  BY <1>3, <1>4 DEF WS!Stays
<1>10. \A i, j \in WS!Domain : NewNumber[i] # 0 /\ NewNumber[i] = NewNumber[j] => i = j
  BY <1>3, <1>7, <1>9
<1>11. QED BY <1>8, <1>9, <1>10

LateShape ==
    /\ IsFiniteSet(DOMAIN sizes) /\ DOMAIN sizes \subseteq WS!Domain
    /\ DOMAIN reorder = WS!Domain /\ \A i \in WS!Domain : reorder[i] \in DOMAIN sizes

SizesKept == \A n \in DOMAIN sizes : sizes[n] = Total({i \in WS!Domain : reorder[i] = n}, WS!FirstSize)

Kept(c) == {e \in {WS!Renamed(g) : g \in First(c)} : e[1] # 0 /\ e[2] # 0 /\ e[1] # e[2]}

Updating ==
    /\ sets = Apart(DOMAIN sizes)
    /\ DOMAIN dendr = WS!Chunk /\ DOMAIN more_dendr = WS!Chunk
    /\ \A c \in todo : dendr[c] = in.dendr[c] /\ more_dendr[c] = WS!Largest(WS!BorderEdges(WS!Ahead(in, c)))
    /\ \A c \in WS!Chunk \ todo : dendr[c] = Kept(c)

\* What Renumber does, in terms of NewNumber.
LEMMA NewNumbersGiven ==
    ASSUME WS!Renumber
    PROVE  /\ phase = "dust" /\ phase' = "update" /\ todo' = WS!Chunk
           /\ \A e \in queue : e[3] < DustMerge
           /\ reorder' = [i \in WS!Domain |-> NewNumber[sets[i]]]
           /\ sizes' = [n \in {NewNumber[i] : i \in WS!Domain} |->
                 IF n = 0 THEN Total({i \in WS!Domain : NewNumber[i] = 0}, sizes)
                 ELSE sizes[CHOOSE i \in WS!Domain : NewNumber[i] = n]]
           /\ sets' = Apart({NewNumber[i] : i \in WS!Domain})
           /\ UNCHANGED <<in, merge_at, dendr, more_dendr, merge_pairs, pairs, WS!orderVars>>
<1> DEFINE new == [i \in WS!Domain |->
                     IF WS!Stays(i)
                     THEN WS!Cardinality({j \in WS!Domain : j <= i /\ WS!Stays(j)}) ELSE 0]
<1>1. new = NewNumber
  BY RegionsOfBorders DEF NewNumber
<1>2. /\ phase = "dust" /\ phase' = "update" /\ todo' = WS!Chunk
      /\ \A e \in queue : e[3] < DustMerge
      /\ reorder' = [i \in WS!Domain |-> new[sets[i]]]
      /\ sizes' = [n \in {new[i] : i \in WS!Domain} |->
            IF n = 0 THEN WS!Total({i \in WS!Domain : new[i] = 0}, sizes)
            ELSE sizes[CHOOSE i \in WS!Domain : new[i] = n]]
      /\ sets' = WS!Apart({new[i] : i \in WS!Domain})
      /\ UNCHANGED <<in, merge_at, dendr, more_dendr, merge_pairs, pairs, WS!orderVars>>
  BY DEF WS!Renumber
<1> HIDE DEF new
<1>3. /\ WS!Total({i \in WS!Domain : NewNumber[i] = 0}, sizes)
            = Total({i \in WS!Domain : NewNumber[i] = 0}, sizes)
      /\ WS!Apart({NewNumber[i] : i \in WS!Domain}) = Apart({NewNumber[i] : i \in WS!Domain})
  BY RegionsOfBorders
<1>4. QED BY <1>1, <1>2, <1>3

\* An edge is stored with its value or a higher one, and is passed with it.
LEMMA NoDustLeft == JoinInv => WS!DustMade
<1>1. SUFFICES ASSUME JoinInv, phase = "dust", \A e \in queue : e[3] < DustMerge,
                      NEW e \in WS!FirstEdges, sets[e[1]] # sets[e[2]], e[3] >= DustMerge
               PROVE  sizes[sets[e[1]]] >= DustSize /\ sizes[sets[e[2]]] >= DustSize
  BY DEF WS!DustMade
<1>2. in \in Domains /\ Stored(WS!Chunk) /\ Shape /\ Dusted
  BY <1>1 DEF JoinInv, Shape
<1>3. e[3] \in Int /\ \E g \in WS!AllEdges : g[1] = e[1] /\ g[2] = e[2] /\ g[3] >= e[3]
  BY <1>2, EdgesStored
<1>4. PICK g \in WS!AllEdges : g[1] = e[1] /\ g[2] = e[2] /\ g[3] >= e[3]
  BY <1>3
<1>5. g[3] \in Int /\ DustMerge \in Int
  BY <1>2, EdgesStored, DomainsAssumption
<1>6. g \notin queue /\ g[3] >= DustMerge
  BY <1>1, <1>3, <1>4, <1>5
<1>7. QED BY <1>1, <1>2, <1>4, <1>6 DEF Dusted

LEMMA RenumberStep ==
    JoinInv /\ WS!Renumber => JoinInv' /\ LateShape' /\ SizesKept' /\ Updating' /\ WS!DustNamed'
<1>1. SUFFICES ASSUME JoinInv, WS!Renumber
               PROVE  JoinInv' /\ LateShape' /\ SizesKept' /\ Updating' /\ WS!DustNamed'
  OBVIOUS
<1> DEFINE label == {NewNumber[i] : i \in WS!Domain}
<1>2. /\ phase = "dust" /\ phase' = "update" /\ todo' = WS!Chunk
      /\ \A e \in queue : e[3] < DustMerge
      /\ reorder' = [i \in WS!Domain |-> NewNumber[sets[i]]]
      /\ sizes' = [n \in label |->
            IF n = 0 THEN Total({i \in WS!Domain : NewNumber[i] = 0}, sizes)
            ELSE sizes[CHOOSE i \in WS!Domain : NewNumber[i] = n]]
      /\ sets' = Apart(label)
      /\ UNCHANGED <<in, merge_at, dendr, more_dendr, merge_pairs, pairs, WS!orderVars>>
  BY <1>1, NewNumbersGiven
<1>3. /\ in \in Domains /\ Shape /\ Blank /\ Stored(WS!Chunk) /\ Summing /\ Dusted
  BY <1>1, <1>2 DEF JoinInv, Shape
<1>4. /\ WS!Domain' = WS!Domain /\ WS!FirstSize' = WS!FirstSize /\ WS!FirstEdges' = WS!FirstEdges
      /\ WS!Plausible(in)'
  BY <1>2, <1>3, SameInput DEF Shape
<1>5. JoinInv'
  BY <1>2, <1>3, <1>4 DEF JoinInv, Shape, Blank, WS!orderVars
<1>6. /\ IsFiniteSet(WS!Domain) /\ WS!Domain \subseteq Nat /\ 0 \in WS!Domain
      /\ \A i \in WS!Domain : WS!FirstSize[i] \in Nat
      /\ \A i \in WS!Domain \ {0} : WS!FirstSize[i] # 0
  BY <1>3, DomainIs, FirstSizeIs
<1>7. /\ Sums(WS!Domain, WS!FirstSize, sets, sizes)
      /\ \A i \in WS!Domain : sets[i] \in WS!Domain /\ sizes[i] \in Nat
      /\ \A i \in WS!Domain : sets[i] = 0 <=> i = 0
      /\ \A r \in WS!Domain : sizes[r] = Total({j \in WS!Domain : sets[j] = r}, WS!FirstSize)
  BY <1>3 DEF Summing, Sums
<1>8. /\ \A i \in WS!Domain : NewNumber[i] \in WS!Domain
      /\ \A i \in WS!Domain : NewNumber[i] # 0 <=> WS!Stays(i)
      /\ \A i, j \in WS!Domain : NewNumber[i] # 0 /\ NewNumber[i] = NewNumber[j] => i = j
  BY <1>3, NumbersApart
<1>9. \A i \in WS!Domain : reorder'[i] = NewNumber[sets[i]]
  BY <1>2
<1>10. LateShape'
  <2>1. label \subseteq WS!Domain
    BY <1>8
  <2>2. IsFiniteSet(label)
    BY <1>6, <2>1, FS_Subset
  <2>3. QED BY <1>2, <1>4, <1>7, <1>9, <2>1, <2>2 DEF LateShape
<1>11. SizesKept'
  <2>1. ASSUME NEW n \in label, n = 0
        PROVE  sizes'[n] = Total({i \in WS!Domain : reorder'[i] = n}, WS!FirstSize)
    <3> DEFINE D == {i \in WS!Domain : NewNumber[i] = 0}
    <3>1. sizes'[n] = Total(D, sizes)
      BY <1>2, <2>1
    <3>2. D \in SUBSET WS!Domain
      OBVIOUS
    <3>3. {i \in WS!Domain : reorder'[i] = n} = {i \in WS!Domain : sets[i] \in D}
      BY <1>7, <1>9, <2>1
    <3> HIDE DEF D
    <3>4. IsFiniteSet(WS!Domain) /\ \A i \in WS!Domain : WS!FirstSize[i] \in Nat
      BY <1>6
    <3>5. Sums(WS!Domain, WS!FirstSize, sets, sizes)
      BY <1>7
    <3>6. Total(D, sizes) = Total({i \in WS!Domain : sets[i] \in D}, WS!FirstSize)
      BY <3>2, <3>4, <3>5, TotalOfTotals
    <3>7. QED BY <3>1, <3>3, <3>6
  <2>2. ASSUME NEW n \in label, n # 0
        PROVE  sizes'[n] = Total({i \in WS!Domain : reorder'[i] = n}, WS!FirstSize)
    <3>1. PICK r \in WS!Domain : NewNumber[r] = n
      OBVIOUS
    <3>2. (CHOOSE j \in WS!Domain : NewNumber[j] = n) = r
      BY <1>8, <2>2, <3>1
    <3>3. sizes'[n] = sizes[r]
      BY <1>2, <2>2, <3>2
    <3>4. {i \in WS!Domain : reorder'[i] = n} = {i \in WS!Domain : sets[i] = r}
      BY <1>7, <1>8, <1>9, <2>2, <3>1
    <3>5. QED BY <1>7, <3>3, <3>4
  <2>3. QED BY <1>2, <1>4, <2>1, <2>2 DEF SizesKept
<1>12. Updating'
  <2>1. DOMAIN dendr = WS!Chunk
    BY <1>3, DomainsAssumption DEF Stored, WS!Chunk
  <2>2. \A c : WS!Largest(WS!BorderEdges(WS!Ahead(in, c)))' = WS!Largest(WS!BorderEdges(WS!Ahead(in, c)))
    BY <1>2 DEF WS!Largest, WS!BorderEdges, WS!Ahead, WS!Met, WS!NeedsEdge, WS!IsSame, WS!Ends, WS!Offset
  <2>3. \A c \in WS!Chunk : /\ dendr'[c] = in'.dendr[c]
                            /\ more_dendr'[c] = WS!Largest(WS!BorderEdges(WS!Ahead(in, c)))
    BY <1>2, <1>3 DEF Stored
  <2>4. DOMAIN more_dendr = WS!Chunk /\ WS!Chunk \ todo' = {}
    BY <1>2, <1>3 DEF Stored
  <2>5. QED BY <1>2, <2>1, <2>2, <2>3, <2>4 DEF Updating
<1>13. ASSUME NEW e \in WS!FirstEdges, e[3] >= DustMerge, sets[e[1]] # sets[e[2]]
       PROVE  reorder'[e[1]] # 0 /\ reorder'[e[2]] # 0
  <2>1. e[1] \in WS!Domain \ {0} /\ e[2] \in WS!Domain \ {0}
    BY <1>3, EdgesStored
  <2>5. sizes[sets[e[1]]] >= DustSize /\ sizes[sets[e[2]]] >= DustSize
    BY <1>1, <1>2, <1>13, NoDustLeft DEF WS!DustMade
  <2>6. ASSUME NEW i \in WS!Domain \ {0}, sizes[sets[i]] >= DustSize PROVE reorder'[i] # 0
    <3> DEFINE S == {j \in WS!Domain : sets[j] = sets[i]}
    <3>1. IsFiniteSet(S) /\ i \in S /\ \A j \in S : WS!FirstSize[j] \in Nat
      BY <1>6, FS_Subset
    <3>2. sizes[sets[i]] = Total(S, WS!FirstSize)
      BY <1>7
    <3> HIDE DEF S
    <3>3. Total(S, WS!FirstSize) >= WS!FirstSize[i]
      BY <3>1, TotalNotLess
    <3>4. sizes[sets[i]] # 0
      BY <1>6, <1>7, <3>2, <3>3
    <3>5. WS!Stays(sets[i])
      BY <1>7, <2>6, <3>4 DEF WS!Stays
    <3>6. QED BY <1>7, <1>8, <1>9, <3>5
  <2>7. QED BY <2>1, <2>5, <2>6
<1>14. WS!DustNamed'
  <2>1. SUFFICES ASSUME NEW e \in WS!FirstEdges, e[3] >= DustMerge, 0 \in {reorder'[e[1]], reorder'[e[2]]}
                 PROVE  reorder'[e[1]] = reorder'[e[2]]
    BY <1>2, <1>4 DEF WS!DustNamed
  <2>2. sets[e[1]] = sets[e[2]]
    BY <1>13, <2>1
  <2>3. e[1] \in WS!Domain /\ e[2] \in WS!Domain
    BY <1>3, EdgesStored
  <2>4. QED BY <1>9, <2>2, <2>3
<1>15. QED BY <1>5, <1>10, <1>11, <1>12, <1>14

-----------------------------------------------------------------------------
(* The dendrogram.                                                         *)

AllKept == UNION {Kept(c) : c \in WS!Chunk}
Gone == AllKept \ queue
Pairs == {pairs[k] : k \in DOMAIN pairs}

Spanning ==
    /\ WS!Label \subseteq DOMAIN sets
    /\ queue \subseteq AllKept /\ \A e \in Gone, f \in queue : f[3] <= e[3]
    /\ pairs \in Seq(AllKept) /\ \A k, l \in DOMAIN pairs : k # l => pairs[k] # pairs[l]
    /\ IsFiniteSet(Pairs) /\ Pairs \subseteq Gone
    /\ Tells(WS!Label, sets, Gone) /\ Alike(WS!Label, Pairs, Gone)
    /\ Cardinality(Pairs) + Cardinality(Parts(WS!Label, Pairs)) = Cardinality(WS!Label)

Adjacent(a, b) == \E k \in DOMAIN pairs :
    \/ pairs[k][1] = a /\ pairs[k][2] = b
    \/ pairs[k][1] = b /\ pairs[k][2] = a

Listed ==
    /\ children \in [WS!Domain -> Seq(WS!Label)]
    /\ \A a \in WS!Label : number[a] = 0 => Elements(children[a]) = {b \in WS!Label : Adjacent(a, b)}

\* Nothing has a number yet.
Fresh ==
    list = <<>> /\ number = [i \in WS!Domain |-> 0] /\ topologically_next = 0

LEMMA KeptAre ==
    ASSUME in \in Domains, LateShape
    PROVE  /\ IsFiniteSet(WS!Label) /\ WS!Label \subseteq WS!Domain \ {0}
           /\ \A e \in AllKept : /\ e = <<e[1], e[2], e[3]>> /\ e[3] \in Int /\ e[1] # e[2]
                                 /\ e[1] \in WS!Label /\ e[2] \in WS!Label
<1>1. IsFiniteSet(WS!Label) /\ WS!Label \subseteq WS!Domain \ {0}
  BY FS_Subset DEF LateShape, WS!Label
<1>2. ASSUME NEW c \in WS!Chunk, NEW g \in First(c), WS!Renamed(g)[1] # 0, WS!Renamed(g)[2] # 0
      PROVE  /\ WS!Renamed(g) = <<WS!Renamed(g)[1], WS!Renamed(g)[2], WS!Renamed(g)[3]>>
             /\ WS!Renamed(g)[3] \in Int /\ WS!Renamed(g)[1] \in WS!Label /\ WS!Renamed(g)[2] \in WS!Label
  <2>1. g[1] \in WS!Domain /\ g[2] \in WS!Domain /\ g[3] \in Int
    BY EdgesAre
  <2>2. QED BY <1>2, <2>1 DEF WS!Renamed, LateShape, WS!Label
<1>3. QED BY <1>1, <1>2 DEF AllKept, Kept

LEMMA UpdateStep ==
    ASSUME in \in Domains, phase = "update", LateShape, Updating, Blank, todo \subseteq WS!Chunk,
           NEW c \in WS!Chunk, WS!UpdateChunkData(c)
    PROVE  /\ phase' = "update" => LateShape' /\ Updating' /\ Blank'
           /\ phase' # "update" => phase' = "dend" /\ LateShape' /\ Spanning' /\ Listed' /\ Fresh'
<1> DEFINE all == {WS!Renamed(e) : e \in {WS!Named(c, f) : f \in dendr[c]} \cup more_dendr[c]}
           own == {e \in all : e[1] # 0 /\ e[2] # 0 /\ e[1] # e[2]}
           kept == [dendr EXCEPT ![c] = own]
<1>1. /\ c \in todo /\ dendr' = kept
      /\ more_dendr' = [more_dendr EXCEPT ![c] = {}]
      /\ todo' = todo \ {c}
      /\ phase' = IF todo = {c} THEN "dend" ELSE phase
      /\ queue' = IF todo = {c} THEN UNION {kept[d] : d \in WS!Chunk} ELSE queue
      /\ UNCHANGED <<in, sizes, sets, merge_at, reorder, merge_pairs, pairs, WS!orderVars>>
  BY DEF WS!UpdateChunkData
<1>2. own = Kept(c)
  BY <1>1 DEF Updating, First, Kept
<1>3. \A d : Kept(d)' = Kept(d)
  <2>1. \A d : First(d)' = First(d)
    BY <1>1, SameInput
  <2>2. \A e : WS!Renamed(e)' = WS!Renamed(e)
    BY <1>1 DEF WS!Renamed
  <2>3. QED BY <2>1, <2>2 DEF Kept
<1>4. WS!Domain' = WS!Domain /\ WS!Label' = WS!Label
  BY <1>1, SameInput DEF WS!Label
<1>5. LateShape'
  BY <1>1, <1>4 DEF LateShape
<1> HIDE DEF all, own
<1>6. /\ \A d \in WS!Chunk \ todo' : kept[d] = Kept(d)
      /\ DOMAIN kept = WS!Chunk /\ DOMAIN more_dendr' = WS!Chunk
  BY <1>1, <1>2 DEF Updating
<1>7. CASE todo # {c}
  <2>1. \A d : WS!Largest(WS!BorderEdges(WS!Ahead(in, d)))' = WS!Largest(WS!BorderEdges(WS!Ahead(in, d)))
    BY <1>1 DEF WS!Largest, WS!BorderEdges, WS!Ahead, WS!Met, WS!NeedsEdge, WS!IsSame, WS!Ends, WS!Offset
  <2>2. \A d \in todo' : kept[d] = in.dendr[d] /\ more_dendr'[d] = WS!Largest(WS!BorderEdges(WS!Ahead(in, d)))
    BY <1>1 DEF Updating
  <2>3. Updating'
    BY <1>1, <1>3, <1>6, <2>1, <2>2 DEF Updating
  <2>4. Blank'
    BY <1>1, <1>4 DEF Blank, WS!orderVars
  <2>5. phase' = "update"
    BY <1>1, <1>7
  <2>6. QED BY <1>5, <2>3, <2>4, <2>5
<1>8. CASE todo = {c}
  <2>1. WS!Chunk \ todo' = WS!Chunk
    BY <1>1, <1>8
  <2>2. queue' = AllKept
    <3>1. queue' = UNION {kept[d] : d \in WS!Chunk}
      BY <1>1, <1>8
    <3> HIDE DEF kept
    <3>2. QED BY <1>6, <2>1, <3>1 DEF AllKept
  <2>3. AllKept' = AllKept
    BY <1>1, <1>3 DEF AllKept
  <2>4. Gone' = {} /\ Pairs' = {} /\ pairs' = <<>>
    BY <1>1, <2>2, <2>3 DEF Gone, Pairs, Blank
  <2>5. IsFiniteSet(WS!Label)
    BY KeptAre
  <2>6. sets' = [i \in DOMAIN sizes |-> i]
    BY <1>1 DEF Updating, Apart
  <2>7. Tells(WS!Label, sets', {})
    BY <2>6, PartOfNone DEF Tells, WS!Label
  <2>8. \A value : AtLeast({}, value) = {}
    BY DEF AtLeast
  <2>9. Alike(WS!Label, {}, {})
    BY DEF Alike
  <2>10. Cardinality({}) = 0 /\ IsFiniteSet({})
    BY FS_EmptySet
  <2>11. 0 + Cardinality(Parts(WS!Label, {})) = Cardinality(WS!Label)
    BY <2>5, PartsOfNone, FS_CardinalityType
  <2>12. Spanning'
    <3>1. /\ WS!Label' \subseteq DOMAIN sets'
          /\ queue' \subseteq AllKept' /\ \A e \in Gone', f \in queue' : f[3] <= e[3]
      BY <1>4, <2>2, <2>3, <2>4, <2>6 DEF WS!Label
    <3>2. pairs' \in Seq(AllKept') /\ \A k, l \in DOMAIN pairs' : k # l => pairs'[k] # pairs'[l]
      BY <2>4
    <3>3. QED BY <1>4, <2>4, <2>7, <2>9, <2>10, <2>11, <3>1, <3>2 DEF Spanning
  <2>13. Listed' /\ Fresh'
    <3>1. children' = [i \in WS!Domain |-> <<>>] /\ Fresh'
      BY <1>1, <1>4 DEF Blank, Fresh, WS!orderVars
    <3>2. \A a, b : ~Adjacent(a, b)'
      BY <2>4 DEF Adjacent
    <3>3. \A a \in WS!Label : Elements(children'[a]) = {}
      BY <3>1, KeptAre DEF Elements
    <3>4. children' \in [WS!Domain -> Seq(WS!Label)]
      BY <3>1
    <3>5. QED BY <1>4, <3>1, <3>2, <3>3, <3>4 DEF Listed
  <2>14. QED BY <1>1, <1>5, <1>8, <2>12, <2>13
<1>9. QED BY <1>7, <1>8

LEMMA ElementsOfAppend ==
    ASSUME NEW S, NEW s \in Seq(S), NEW x
    PROVE  Elements(Append(s, x)) = Elements(s) \cup {x}
<1>1. /\ DOMAIN Append(s, x) = 1..Len(s) + 1 /\ DOMAIN s = 1..Len(s) /\ Len(s) \in Nat
      /\ \A k \in 1..Len(s) + 1 : Append(s, x)[k] = IF k <= Len(s) THEN s[k] ELSE x
  OBVIOUS
<1>2. ASSUME NEW y \in Elements(Append(s, x)) PROVE y \in Elements(s) \cup {x}
  BY <1>1 DEF Elements
<1>3. ASSUME NEW y \in Elements(s) PROVE y \in Elements(Append(s, x))
  <2>1. PICK k \in 1..Len(s) : y = s[k]
    BY <1>1 DEF Elements
  <2>2. k \in 1..Len(s) + 1 /\ Append(s, x)[k] = y
    BY <1>1, <2>1
  <2>3. QED BY <1>1, <2>2 DEF Elements
<1>4. x \in Elements(Append(s, x))
  <2>1. Len(s) + 1 \in 1..Len(s) + 1 /\ Append(s, x)[Len(s) + 1] = x
    BY <1>1
  <2>2. QED BY <1>1, <2>1 DEF Elements
<1>5. QED BY <1>2, <1>3, <1>4

\* What the edges taken so far, N, tell of the pairs F that are left of them.
SpansYet(ids, rep, F, N) ==
    /\ IsFiniteSet(F) /\ F \subseteq N
    /\ Tells(ids, rep, N) /\ Alike(ids, F, N)
    /\ Cardinality(F) + Cardinality(Parts(ids, F)) = Cardinality(ids)
NoLower(ids, x, N) ==
    /\ x[1] \in ids /\ x[2] \in ids /\ x[3] \in Int
    /\ \A e \in N : e[1] \in ids /\ e[2] \in ids /\ e[3] \in Int /\ x[3] <= e[3]
Takes(rep, F, x, new, G) ==
    \/ rep[x[1]] = rep[x[2]] /\ new = rep /\ G = F
    \/ /\ rep[x[1]] # rep[x[2]] /\ G = F \cup {x}
       /\ \E vr \in {rep[x[1]], rep[x[2]]} : new = Joined(rep, rep[x[1]], rep[x[2]], vr)

LEMMA SpansOn ==
    ASSUME NEW ids, IsFiniteSet(ids), NEW rep, ids \subseteq DOMAIN rep,
           NEW F, NEW N, SpansYet(ids, rep, F, N),
           NEW x, NoLower(ids, x, N), NEW new, NEW G, Takes(rep, F, x, new, G)
    PROVE  SpansYet(ids, new, G, N \cup {x})
<1>1. /\ IsFiniteSet(F) /\ F \subseteq N
      /\ Tells(ids, rep, N) /\ Alike(ids, F, N)
      /\ Cardinality(F) + Cardinality(Parts(ids, F)) = Cardinality(ids)
  BY DEF SpansYet
<1>2. \A e \in N : e[1] \in ids /\ e[2] \in ids /\ e[3] \in Int
  BY DEF NoLower
<1>3. x[1] \in ids /\ x[2] \in ids /\ x[3] \in Int /\ \A e \in N : x[3] <= e[3]
  BY DEF NoLower
<1>4. \/ rep[x[1]] = rep[x[2]] /\ new = rep /\ G = F
      \/ /\ rep[x[1]] # rep[x[2]] /\ G = F \cup {x}
         /\ \E vr \in {rep[x[1]], rep[x[2]]} : new = Joined(rep, rep[x[1]], rep[x[2]], vr)
  BY DEF Takes
<1>5. /\ IsFiniteSet(G) /\ G \subseteq N \cup {x} /\ Tells(ids, new, N \cup {x})
      /\ Alike(ids, G, N \cup {x})
      /\ Cardinality(G) + Cardinality(Parts(ids, G)) = Cardinality(ids)
  BY <1>1, <1>2, <1>3, <1>4, FinalSpans
<1>6. QED BY <1>5 DEF SpansYet

LEMMA DendrogramStep ==
    ASSUME in \in Domains, phase = "dend", LateShape, Spanning, Listed, queue # {} => Fresh, WS!Dendrogram
    PROVE  LateShape' /\ Spanning' /\ Listed' /\ Fresh'
<1>1. /\ UNCHANGED <<in, phase, todo, sizes, merge_at, reorder, dendr, more_dendr, merge_pairs,
                     list, number, topologically_next>>
  BY DEF WS!Dendrogram
<1>2. PICK x \in Foremost(queue) :
          /\ queue' = queue \ {x}
          /\ IF WS!IsNews(x)
             THEN /\ pairs' = Append(pairs, x)
                  /\ children' = [children EXCEPT ![x[1]] = Append(@, x[2]),
                                                 ![x[2]] = Append(@, x[1])]
                  /\ \E vr \in {sets[x[1]], sets[x[2]]} :
                        sets' = Joined(sets, sets[x[1]], sets[x[2]], vr)
             ELSE UNCHANGED <<pairs, children, sets>>
  BY RegionsOfBorders DEF WS!Dendrogram
<1>3. /\ x \in queue /\ (\A f \in queue : f[3] <= x[3]) /\ x \in AllKept
      /\ queue \subseteq AllKept /\ \A e \in Gone, f \in queue : f[3] <= e[3]
  BY DEF Foremost, Spanning
<1>4. /\ IsFiniteSet(WS!Label) /\ WS!Label \subseteq WS!Domain \ {0}
      /\ \A e \in AllKept : e[3] \in Int /\ e[1] # e[2] /\ e[1] \in WS!Label /\ e[2] \in WS!Label
  BY KeptAre
<1>5. WS!Domain' = WS!Domain /\ WS!Label' = WS!Label /\ AllKept' = AllKept
  <2>1. \A d : First(d)' = First(d)
    BY <1>1, SameInput
  <2>2. \A e : WS!Renamed(e)' = WS!Renamed(e)
    BY <1>1 DEF WS!Renamed
  <2>3. \A d : Kept(d)' = Kept(d)
    BY <2>1, <2>2 DEF Kept
  <2>4. QED BY <1>1, <2>3, SameInput DEF WS!Label, AllKept
<1>6. LateShape'
  BY <1>1, <1>5 DEF LateShape
<1>7. Gone' = Gone \cup {x} /\ x \notin Gone
  BY <1>2, <1>3, <1>5 DEF Gone
<1>8. Fresh /\ Fresh'
  BY <1>1, <1>3, <1>5 DEF Fresh
<1>9. /\ pairs \in Seq(AllKept) /\ \A k, l \in DOMAIN pairs : k # l => pairs[k] # pairs[l]
      /\ Pairs \subseteq Gone /\ WS!Label \subseteq DOMAIN sets
  BY DEF Spanning
<1>10. queue' \subseteq AllKept' /\ \A e \in Gone', f \in queue' : f[3] <= e[3]
  BY <1>2, <1>3, <1>5, <1>7
<1>11. \/ ~WS!IsNews(x) /\ Pairs' = Pairs /\ pairs' = pairs
       \/ WS!IsNews(x) /\ Pairs' = Pairs \cup {x} /\ pairs' = Append(pairs, x)
  <2>1. CASE WS!IsNews(x)
    <3>1. Elements(Append(pairs, x)) = Elements(pairs) \cup {x}
      BY <1>9, ElementsOfAppend
    <3>2. pairs' = Append(pairs, x)
      BY <1>2, <2>1
    <3>3. Pairs' = Elements(pairs') /\ Pairs = Elements(pairs)
      BY DEF Pairs, Elements
    <3>4. QED BY <2>1, <3>1, <3>2, <3>3
  <2>2. CASE ~WS!IsNews(x)
    BY <1>2, <2>2 DEF Pairs
  <2>3. QED BY <2>1, <2>2
<1>12. /\ IsFiniteSet(Pairs') /\ Pairs' \subseteq Gone \cup {x}
       /\ Tells(WS!Label, sets', Gone \cup {x}) /\ Alike(WS!Label, Pairs', Gone \cup {x})
       /\ Cardinality(Pairs') + Cardinality(Parts(WS!Label, Pairs')) = Cardinality(WS!Label)
  <2>1. IsFiniteSet(WS!Label) /\ WS!Label \subseteq DOMAIN sets
    BY <1>4, <1>9
  <2>2. SpansYet(WS!Label, sets, Pairs, Gone)
    BY DEF Spanning, SpansYet
  <2>3. NoLower(WS!Label, x, Gone)
    BY <1>3, <1>4 DEF Gone, NoLower
  <2>4. Takes(sets, Pairs, x, sets', Pairs')
    BY <1>2, <1>11 DEF WS!IsNews, Takes
  <2>5. SpansYet(WS!Label, sets', Pairs', Gone \cup {x})
    BY <2>1, <2>2, <2>3, <2>4, SpansOn
  <2>6. QED BY <2>5 DEF SpansYet
<1>13. pairs' \in Seq(AllKept) /\ \A k, l \in DOMAIN pairs' : k # l => pairs'[k] # pairs'[l]
  <2>1. CASE pairs' = pairs
    BY <1>9, <2>1
  <2>2. CASE pairs' = Append(pairs, x)
    <3>1. /\ DOMAIN pairs' = 1..Len(pairs) + 1 /\ DOMAIN pairs = 1..Len(pairs) /\ Len(pairs) \in Nat
          /\ \A k \in 1..Len(pairs) + 1 : pairs'[k] = IF k <= Len(pairs) THEN pairs[k] ELSE x
      BY <1>9, <2>2
    <3>2. \A k \in 1..Len(pairs) : pairs[k] # x
      BY <1>7, <1>9, <3>1 DEF Pairs
    <3>3. \A k, l \in DOMAIN pairs' : k # l => pairs'[k] # pairs'[l]
      <4>1. SUFFICES ASSUME NEW k \in 1..Len(pairs) + 1, NEW l \in 1..Len(pairs) + 1, k # l
                     PROVE  pairs'[k] # pairs'[l]
        BY <3>1
      <4>2. CASE k <= Len(pairs) /\ l <= Len(pairs)
        BY <1>9, <3>1, <4>1, <4>2
      <4>3. CASE k <= Len(pairs) /\ ~(l <= Len(pairs))
        BY <3>1, <3>2, <4>1, <4>3
      <4>4. CASE ~(k <= Len(pairs)) /\ l <= Len(pairs)
        BY <3>1, <3>2, <4>1, <4>4
      <4>5. QED BY <3>1, <4>1, <4>2, <4>3, <4>4
    <3>4. QED BY <1>3, <1>9, <2>2, <3>3
  <2>3. QED BY <1>11, <2>1, <2>2
<1>14. WS!Label \subseteq DOMAIN sets'
  BY <1>2, <1>9 DEF Joined
<1>15. Spanning'
  BY <1>5, <1>7, <1>10, <1>12, <1>13, <1>14 DEF Spanning
<1>16. Listed'
  <2>1. /\ children \in [WS!Domain -> Seq(WS!Label)]
        /\ \A a \in WS!Label : Elements(children[a]) = {b \in WS!Label : Adjacent(a, b)}
    BY <1>4, <1>8 DEF Listed, Fresh
  <2>2. CASE ~WS!IsNews(x)
    <3>1. \A a, b : Adjacent(a, b)' <=> Adjacent(a, b)
      BY <1>2, <2>2 DEF Adjacent
    <3>2. QED BY <1>1, <1>2, <1>5, <2>1, <2>2, <3>1 DEF Listed
  <2>3. CASE WS!IsNews(x)
    <3>1. \A a, b : Adjacent(a, b)' <=> \/ Adjacent(a, b)
                                        \/ x[1] = a /\ x[2] = b
                                        \/ x[1] = b /\ x[2] = a
      <4>1. /\ DOMAIN pairs' = 1..Len(pairs) + 1 /\ DOMAIN pairs = 1..Len(pairs) /\ Len(pairs) \in Nat
            /\ \A k \in 1..Len(pairs) + 1 : pairs'[k] = IF k <= Len(pairs) THEN pairs[k] ELSE x
        BY <1>2, <1>9, <2>3
      <4>2. /\ Len(pairs) + 1 \in DOMAIN pairs' /\ pairs'[Len(pairs) + 1] = x
            /\ \A k \in DOMAIN pairs : k \in DOMAIN pairs' /\ pairs'[k] = pairs[k]
            /\ \A k \in DOMAIN pairs' : k = Len(pairs) + 1 \/ k \in DOMAIN pairs
        BY <4>1
      <4>3. \A k \in DOMAIN pairs' : pairs'[k] = x \/ (k \in DOMAIN pairs /\ pairs'[k] = pairs[k])
        BY <4>2
      <4>4. \E k \in DOMAIN pairs' : pairs'[k] = x
        BY <4>2
      <4>5. \A k \in DOMAIN pairs : k \in DOMAIN pairs' /\ pairs'[k] = pairs[k]
        BY <4>2
      <4>6. QED BY <4>3, <4>4, <4>5 DEF Adjacent
    <3>2. x[1] \in WS!Label /\ x[2] \in WS!Label /\ x[1] # x[2]
      BY <1>3, <1>4
    <3>3. children' = [children EXCEPT ![x[1]] = Append(@, x[2]), ![x[2]] = Append(@, x[1])]
      BY <1>2, <2>3
    <3>4. \A a \in WS!Domain : children'[a] = IF a = x[1] THEN Append(children[a], x[2])
                                          ELSE IF a = x[2] THEN Append(children[a], x[1])
                                          ELSE children[a]
      BY <1>4, <2>1, <3>2, <3>3
    <3>5. children' \in [WS!Domain -> Seq(WS!Label)]
      <4>1. ASSUME NEW a \in WS!Domain PROVE children'[a] \in Seq(WS!Label)
        <5>1. children[a] \in Seq(WS!Label)
          BY <2>1
        <5>2. \A y \in WS!Label : Append(children[a], y) \in Seq(WS!Label)
          BY <5>1
        <5>3. QED BY <3>2, <3>4, <5>1, <5>2
      <4>2. DOMAIN children' = WS!Domain /\ children' = [a \in WS!Domain |-> children'[a]]
        BY <2>1, <3>3
      <4>3. QED BY <4>1, <4>2
    <3>6. ASSUME NEW a \in WS!Label PROVE Elements(children'[a]) = {b \in WS!Label : Adjacent(a, b)'}
      <4>1. children[a] \in Seq(WS!Label) /\ a \in WS!Domain
        BY <1>4, <2>1
      <4>2. \A y : Elements(Append(children[a], y)) = Elements(children[a]) \cup {y}
        BY <4>1, ElementsOfAppend
      <4>3. CASE a = x[1]
        BY <2>1, <3>1, <3>2, <3>4, <4>1, <4>2, <4>3
      <4>4. CASE a = x[2]
        BY <2>1, <3>1, <3>2, <3>4, <4>1, <4>2, <4>4
      <4>5. CASE a # x[1] /\ a # x[2]
        BY <2>1, <3>1, <3>2, <3>4, <4>1, <4>5
      <4>6. QED BY <4>3, <4>4, <4>5
    <3>7. QED BY <1>5, <3>5, <3>6 DEF Listed
  <2>4. QED BY <2>2, <2>3
<1>17. QED BY <1>6, <1>8, <1>15, <1>16

-----------------------------------------------------------------------------
(* The topological numbers.                                                *)

InTurn ==
    /\ number \in [WS!Domain -> Nat] /\ topologically_next \in Nat
    /\ \A a \in WS!Label : number[a] <= topologically_next
    /\ \A a, b \in WS!Label : number[a] # 0 /\ number[a] = number[b] => a = b

\* What lies beside a number given has one or waits in the list, and only that waits.
Reached ==
    /\ list \in Seq(WS!Label)
    /\ \A a, b \in WS!Label : number[a] # 0 /\ Adjacent(a, b) => number[b] # 0 \/ b \in Elements(list)
    /\ \A b \in Elements(list) : \E a \in WS!Label : number[a] # 0 /\ Adjacent(a, b)

\* The first of a tree to get a number: those beside it got theirs later.
Root(r) ==
    /\ r \in WS!Label /\ number[r] # 0
    /\ \A a \in WS!Label : Adjacent(r, a) /\ number[a] # 0 => number[r] < number[a]

Trees == \A r, s \in WS!Label : Root(r) /\ Root(s) /\ r # s => s \notin Part(WS!Label, Pairs, r)

LEMMA PairsBeside ==
    ASSUME in \in Domains, LateShape, Spanning
    PROVE  /\ \A e \in Pairs : /\ e[1] \in WS!Label /\ e[2] \in WS!Label /\ e[1] # e[2] /\ e[3] \in Int
                               /\ e = <<e[1], e[2], e[3]>> /\ Adjacent(e[1], e[2])
           /\ \A a, b : Adjacent(a, b) => /\ Adjacent(b, a) /\ a \in WS!Label /\ b \in WS!Label /\ a # b
                                          /\ \E e \in Pairs : \/ e[1] = a /\ e[2] = b
                                                              \/ e[1] = b /\ e[2] = a
<1>1. Pairs \subseteq AllKept
  BY DEF Spanning, Gone
<1>2. \A e \in Pairs : /\ e[1] \in WS!Label /\ e[2] \in WS!Label /\ e[1] # e[2] /\ e[3] \in Int
                       /\ e = <<e[1], e[2], e[3]>>
  BY <1>1, KeptAre
<1>3. \A e \in Pairs : Adjacent(e[1], e[2])
  BY DEF Pairs, Adjacent
<1>4. ASSUME NEW a, NEW b, Adjacent(a, b)
      PROVE  /\ Adjacent(b, a)
             /\ \E e \in Pairs : \/ e[1] = a /\ e[2] = b
                                 \/ e[1] = b /\ e[2] = a
  BY <1>4 DEF Adjacent, Pairs
<1>5. QED BY <1>2, <1>3, <1>4

LEMMA SameKept ==
    ASSUME in' = in, reorder' = reorder, sizes' = sizes
    PROVE  AllKept' = AllKept /\ WS!Domain' = WS!Domain /\ WS!Label' = WS!Label
<1>1. \A d : First(d)' = First(d)
  BY SameInput
<1>2. \A e : WS!Renamed(e)' = WS!Renamed(e)
  BY DEF WS!Renamed
<1>3. \A d : Kept(d)' = Kept(d)
  BY <1>1, <1>2 DEF Kept
<1>4. QED BY <1>3, SameInput DEF WS!Label, AllKept

LEMMA SameForest ==
    ASSUME UNCHANGED <<in, reorder, sizes, sets, queue, pairs>>
    PROVE  /\ LateShape => LateShape'
           /\ Spanning => Spanning'
           /\ Pairs' = Pairs /\ \A a, b : Adjacent(a, b)' <=> Adjacent(a, b)
<1>1. AllKept' = AllKept /\ WS!Domain' = WS!Domain /\ WS!Label' = WS!Label
  BY SameKept
<1>2. LateShape => LateShape'
  BY <1>1 DEF LateShape
<1>3. Pairs' = Pairs /\ Gone' = Gone
  BY <1>1 DEF Pairs, Gone
<1>4. Spanning => Spanning'
  BY <1>1, <1>3 DEF Spanning
<1>5. QED BY <1>2, <1>3, <1>4 DEF Adjacent

LEMMA NextNumber ==
    ASSUME in \in Domains, LateShape, Spanning, InTurn, NEW n \in WS!Label, number[n] = 0, WS!Numbered(n),
           UNCHANGED <<in, reorder, sizes, sets, queue, pairs>>
    PROVE  /\ InTurn'
           /\ \A a \in WS!Label : number'[a] = IF a = n THEN topologically_next + 1 ELSE number[a]
           /\ \A r : Root(r)' => r = n \/ Root(r)
<1>1. /\ number' = [number EXCEPT ![n] = topologically_next + 1]
      /\ topologically_next' = topologically_next + 1
  BY DEF WS!Numbered
<1>2. WS!Domain' = WS!Domain /\ WS!Label' = WS!Label /\ WS!Label \subseteq WS!Domain \ {0}
  BY SameKept, KeptAre
<1>3. number' \in [WS!Domain -> Nat] /\ topologically_next' \in Nat
  <2>1. topologically_next + 1 \in Nat /\ number \in [WS!Domain -> Nat]
    BY DEF InTurn
  <2>2. QED BY <1>1, <2>1
<1>4. \A a \in WS!Label : number'[a] = IF a = n THEN topologically_next + 1 ELSE number[a]
  BY <1>1, <1>2 DEF InTurn
<1>5. \A a \in WS!Label : number[a] \in Nat /\ number[a] <= topologically_next /\ topologically_next \in Nat
  BY <1>2 DEF InTurn
<1>6. \A a \in WS!Label : number'[a] <= topologically_next'
  BY <1>1, <1>4, <1>5
<1>7. ASSUME NEW a \in WS!Label, NEW b \in WS!Label, number'[a] # 0, number'[a] = number'[b] PROVE a = b
  <2>1. CASE a = n
    BY <1>4, <1>5, <1>7, <2>1
  <2>2. CASE b = n
    BY <1>4, <1>5, <1>7, <2>2
  <2>3. CASE a # n /\ b # n
    BY <1>4, <1>7, <2>3 DEF InTurn
  <2>4. QED BY <2>1, <2>2, <2>3
<1>8. ASSUME NEW r, Root(r)', r # n PROVE Root(r)
  <2>1. \A a \in WS!Label : Adjacent(r, a)' <=> Adjacent(r, a)
    BY SameForest
  <2>2. r \in WS!Label /\ number'[r] # 0
    BY <1>2, <1>8 DEF Root
  <2>3. \A a \in WS!Label : Adjacent(r, a) /\ number'[a] # 0 => number'[r] < number'[a]
    BY <1>2, <1>8, <2>1 DEF Root
  <2>4. number[r] = number'[r]
    BY <1>4, <1>8, <2>2
  <2>5. \A a \in WS!Label : Adjacent(r, a) /\ number[a] # 0 => number[r] < number[a]
    <3>1. SUFFICES ASSUME NEW a \in WS!Label, Adjacent(r, a), number[a] # 0 PROVE number[r] < number[a]
      OBVIOUS
    <3>2. number'[a] = number[a]
      BY <1>4, <3>1
    <3>3. QED BY <2>3, <2>4, <3>1, <3>2
  <2>6. QED BY <2>2, <2>4, <2>5 DEF Root
<1>9. InTurn'
  BY <1>2, <1>3, <1>6, <1>7 DEF InTurn
<1>10. QED BY <1>4, <1>8, <1>9

\* The list is empty: the numbers given are whole trees.
LEMMA TreesWhole ==
    ASSUME in \in Domains, LateShape, Spanning, InTurn, Reached, list = <<>>,
           NEW i \in WS!Label, number[i] = 0, NEW r \in WS!Label, number[r] # 0
    PROVE  i \notin Part(WS!Label, Pairs, r) /\ r \notin Part(WS!Label, Pairs, i)
<1> DEFINE N == {a \in WS!Label : number[a] # 0}
           M == {a \in WS!Label : number[a] = 0}
<1>1. Elements(list) = {}
  BY DEF Elements
<1>2. \A a, b \in WS!Label : Adjacent(a, b) => (number[a] # 0 <=> number[b] # 0)
  BY <1>1, PairsBeside DEF Reached
<1>3. \A e \in Pairs : (e[1] \in N <=> e[2] \in N) /\ (e[1] \in M <=> e[2] \in M)
  BY <1>2, PairsBeside
<1>4. Closed(N, Pairs) /\ Closed(M, Pairs)
  BY <1>3 DEF Closed
<1>5. N \in SUBSET WS!Label /\ M \in SUBSET WS!Label /\ r \in N /\ i \in M /\ i \notin N /\ r \notin M
  OBVIOUS
<1> HIDE DEF N, M
<1>6. Part(WS!Label, Pairs, r) \subseteq N /\ Part(WS!Label, Pairs, i) \subseteq M
  BY <1>4, <1>5, PartLeast
<1>7. QED BY <1>5, <1>6

LEMMA TreeStep ==
    ASSUME in \in Domains, phase = "dend", LateShape, Spanning, Listed, InTurn, Reached, Trees, WS!NextTree
    PROVE  phase' = "dend" /\ LateShape' /\ Spanning' /\ Listed' /\ InTurn' /\ Reached' /\ Trees'
<1>1. /\ list = <<>>
      /\ UNCHANGED <<in, phase, reorder, sizes, sets, queue, pairs, children>>
  BY DEF WS!NextTree
<1>2. PICK i \in WS!Label : number[i] = 0 /\ WS!Numbered(i) /\ list' = children[i]
  BY DEF WS!NextTree
<1>3. LateShape' /\ Spanning' /\ Pairs' = Pairs /\ WS!Domain' = WS!Domain /\ WS!Label' = WS!Label
  BY <1>1, SameForest, SameKept
<1>4. \A a, b : Adjacent(a, b)' <=> Adjacent(a, b)
  BY <1>1, SameForest
<1>5. /\ InTurn'
      /\ \A a \in WS!Label : number'[a] = IF a = i THEN topologically_next + 1 ELSE number[a]
      /\ \A r : Root(r)' => r = i \/ Root(r)
  BY <1>1, <1>2, NextNumber
<1>6. topologically_next + 1 # 0
  BY DEF InTurn
<1>7. list' \in Seq(WS!Label) /\ Elements(list') = {b \in WS!Label : Adjacent(i, b)} /\ Elements(list) = {}
  <2>1. WS!Label \subseteq WS!Domain
    BY KeptAre
  <2>2. QED BY <1>1, <1>2, <2>1 DEF Listed, Elements
<1>8. Elements(list)' = Elements(list')
  BY DEF Elements
<1>9. Listed'
  <2>1. \A a \in WS!Label : number'[a] = 0 => Elements(children[a]) = {b \in WS!Label : Adjacent(a, b)}
    BY <1>5, <1>6 DEF Listed
  <2>2. children' \in [WS!Domain' -> Seq(WS!Label')]
    BY <1>1, <1>3 DEF Listed
  <2>3. QED BY <1>1, <1>3, <1>4, <2>1, <2>2 DEF Listed
<1>10. Reached'
  <2>1. \A a, b \in WS!Label : number'[a] # 0 /\ Adjacent(a, b) => number'[b] # 0 \/ b \in Elements(list')
    <3>1. SUFFICES ASSUME NEW a \in WS!Label, NEW b \in WS!Label, number'[a] # 0, Adjacent(a, b)
                   PROVE  number'[b] # 0 \/ b \in Elements(list')
      OBVIOUS
    <3>2. CASE a = i
      BY <1>7, <3>1, <3>2
    <3>3. CASE a # i
      BY <1>5, <1>6, <1>7, <3>1, <3>3 DEF Reached
    <3>4. QED BY <3>2, <3>3
  <2>2. \A b \in Elements(list') : \E a \in WS!Label : number'[a] # 0 /\ Adjacent(a, b)
    BY <1>5, <1>6, <1>7
  <2>3. QED BY <1>3, <1>4, <1>7, <1>8, <2>1, <2>2 DEF Reached
<1>11. Trees'
  <2>1. SUFFICES ASSUME NEW r \in WS!Label, NEW s \in WS!Label, Root(r)', Root(s)', r # s
                 PROVE  s \notin Part(WS!Label, Pairs, r)
    BY <1>3 DEF Trees
  <2>2. (r = i \/ Root(r)) /\ (s = i \/ Root(s))
    BY <1>5, <2>1
  <2>3. CASE r = i
    BY <1>1, <1>2, <2>1, <2>2, <2>3, TreesWhole DEF Root
  <2>4. CASE s = i
    BY <1>1, <1>2, <2>1, <2>2, <2>4, TreesWhole DEF Root
  <2>5. CASE Root(r) /\ Root(s)
    BY <2>1, <2>5 DEF Trees
  <2>6. QED BY <2>2, <2>3, <2>4, <2>5
<1>12. QED BY <1>1, <1>3, <1>5, <1>9, <1>10, <1>11

LEMMA ElementsOfTail ==
    ASSUME NEW S, NEW s \in Seq(S), s # <<>>
    PROVE  /\ Head(s) \in S /\ Tail(s) \in Seq(S)
           /\ Elements(s) = {Head(s)} \cup Elements(Tail(s))
<1>1. /\ Len(s) \in Nat /\ Len(s) >= 1 /\ DOMAIN s = 1..Len(s) /\ Head(s) = s[1]
      /\ DOMAIN Tail(s) = 1..Len(s) - 1 /\ \A k \in 1..Len(s) - 1 : Tail(s)[k] = s[k + 1]
      /\ Tail(s) \in Seq(S)
  OBVIOUS
<1>2. Head(s) \in S /\ Head(s) \in Elements(s)
  BY <1>1 DEF Elements
<1>3. ASSUME NEW y \in Elements(Tail(s)) PROVE y \in Elements(s)
  <2>1. PICK k \in 1..Len(s) - 1 : y = s[k + 1]
    BY <1>1 DEF Elements
  <2>2. k + 1 \in DOMAIN s
    BY <1>1
  <2>3. QED BY <2>1, <2>2 DEF Elements
<1>4. ASSUME NEW y \in Elements(s), y # Head(s) PROVE y \in Elements(Tail(s))
  <2>1. PICK k \in 1..Len(s) : y = s[k]
    BY <1>1 DEF Elements
  <2>2. k # 1 /\ k - 1 \in 1..Len(s) - 1 /\ (k - 1) + 1 = k
    BY <1>1, <1>4, <2>1
  <2>3. k - 1 \in DOMAIN Tail(s) /\ Tail(s)[k - 1] = y
    BY <1>1, <2>1, <2>2
  <2>4. QED BY <2>3 DEF Elements
<1>5. QED BY <1>1, <1>2, <1>3, <1>4

LEMMA ElementsOfBoth ==
    ASSUME NEW S, NEW s \in Seq(S), NEW t \in Seq(S)
    PROVE  s \o t \in Seq(S) /\ Elements(s \o t) = Elements(s) \cup Elements(t)
<1>1. /\ Len(s) \in Nat /\ Len(t) \in Nat /\ DOMAIN s = 1..Len(s) /\ DOMAIN t = 1..Len(t)
      /\ DOMAIN (s \o t) = 1..Len(s) + Len(t) /\ s \o t \in Seq(S)
      /\ \A k \in 1..Len(s) + Len(t) : (s \o t)[k] = IF k <= Len(s) THEN s[k] ELSE t[k - Len(s)]
  OBVIOUS
<1>2. ASSUME NEW y \in Elements(s \o t) PROVE y \in Elements(s) \cup Elements(t)
  <2>1. PICK k \in 1..Len(s) + Len(t) : y = (s \o t)[k]
    BY <1>1 DEF Elements
  <2>2. CASE k <= Len(s)
    <3>1. k \in DOMAIN s /\ y = s[k]
      BY <1>1, <2>1, <2>2
    <3>2. QED BY <3>1 DEF Elements
  <2>3. CASE ~(k <= Len(s))
    <3>1. k - Len(s) \in DOMAIN t /\ y = t[k - Len(s)]
      BY <1>1, <2>1, <2>3
    <3>2. QED BY <3>1 DEF Elements
  <2>4. QED BY <2>2, <2>3
<1>3. ASSUME NEW y \in Elements(s) PROVE y \in Elements(s \o t)
  <2>1. PICK k \in 1..Len(s) : y = s[k]
    BY <1>1 DEF Elements
  <2>2. k \in DOMAIN (s \o t) /\ (s \o t)[k] = y
    BY <1>1, <2>1
  <2>3. QED BY <2>2 DEF Elements
<1>4. ASSUME NEW y \in Elements(t) PROVE y \in Elements(s \o t)
  <2>1. PICK k \in 1..Len(t) : y = t[k]
    BY <1>1 DEF Elements
  <2>2. k + Len(s) \in 1..Len(s) + Len(t) /\ ~(k + Len(s) <= Len(s)) /\ k + Len(s) - Len(s) = k
    BY <1>1
  <2>3. k + Len(s) \in DOMAIN (s \o t) /\ (s \o t)[k + Len(s)] = y
    BY <1>1, <2>1, <2>2
  <2>4. QED BY <2>3 DEF Elements
<1>5. QED BY <1>1, <1>2, <1>3, <1>4

LEMMA ChildStep ==
    ASSUME in \in Domains, phase = "dend", LateShape, Spanning, Listed, InTurn, Reached, Trees, WS!NextChild
    PROVE  phase' = "dend" /\ LateShape' /\ Spanning' /\ Listed' /\ InTurn' /\ Reached' /\ Trees'
<1>0. PICK n : n = Head(list)
  OBVIOUS
<1>1. /\ list # <<>> /\ list \in Seq(WS!Label)
      /\ UNCHANGED <<in, phase, reorder, sizes, sets, queue, pairs>>
  BY DEF WS!NextChild, Reached
<1>2. /\ n \in WS!Label /\ Tail(list) \in Seq(WS!Label)
      /\ Elements(list) = {n} \cup Elements(Tail(list))
  BY <1>0, <1>1, ElementsOfTail
<1>3. LateShape' /\ Spanning' /\ Pairs' = Pairs /\ WS!Domain' = WS!Domain /\ WS!Label' = WS!Label
  BY <1>1, SameForest, SameKept
<1>4. \A a, b : Adjacent(a, b)' <=> Adjacent(a, b)
  BY <1>1, SameForest
<1>5. Elements(list)' = Elements(list')
  BY DEF Elements
<1>6. CASE number[n] # 0
  <2>1. list' = Tail(list) /\ UNCHANGED <<number, topologically_next, children>>
    BY <1>0, <1>6 DEF WS!NextChild
  <2>2. Listed'
    BY <1>3, <1>4, <2>1 DEF Listed, Elements
  <2>3. InTurn'
    BY <1>3, <2>1 DEF InTurn
  <2>4. \A a, b \in WS!Label : number[a] # 0 /\ Adjacent(a, b) => number[b] # 0 \/ b \in Elements(list')
    BY <1>2, <1>6, <2>1 DEF Reached
  <2>5. \A b \in Elements(list') : \E a \in WS!Label : number[a] # 0 /\ Adjacent(a, b)
    BY <1>2, <2>1 DEF Reached
  <2>6. Reached'
    BY <1>2, <1>3, <1>4, <1>5, <2>1, <2>4, <2>5 DEF Reached
  <2>7. \A r : Root(r)' <=> Root(r)
    BY <1>3, <1>4, <2>1 DEF Root
  <2>8. Trees'
    BY <1>3, <2>7 DEF Trees
  <2>9. QED BY <1>1, <1>3, <2>2, <2>3, <2>6, <2>8
<1>7. CASE number[n] = 0
  <2>1. /\ WS!Numbered(n) /\ list' = Tail(list) \o children[n]
        /\ children' = [children EXCEPT ![n] = <<>>]
    BY <1>0, <1>7 DEF WS!NextChild
  <2>2. /\ InTurn'
        /\ \A a \in WS!Label : number'[a] = IF a = n THEN topologically_next + 1 ELSE number[a]
        /\ \A r : Root(r)' => r = n \/ Root(r)
    BY <1>1, <1>2, <1>7, <2>1, NextNumber
  <2>3. topologically_next + 1 # 0 /\ WS!Label \subseteq WS!Domain
    BY KeptAre DEF InTurn
  <2>4. children[n] \in Seq(WS!Label) /\ Elements(children[n]) = {b \in WS!Label : Adjacent(n, b)}
    BY <1>2, <1>7, <2>3 DEF Listed
  <2>5. list' \in Seq(WS!Label) /\ Elements(list') = Elements(Tail(list)) \cup Elements(children[n])
    <3>1. PICK s \in Seq(WS!Label), t \in Seq(WS!Label) : s = Tail(list) /\ t = children[n]
      BY <1>2, <2>4
    <3>2. s \o t \in Seq(WS!Label) /\ Elements(s \o t) = Elements(s) \cup Elements(t)
      BY ElementsOfBoth
    <3>3. list' = s \o t
      BY <2>1, <3>1
    <3>4. QED BY <3>1, <3>2, <3>3
  <2>6. Listed'
    <3>1. children' \in [WS!Domain -> Seq(WS!Label)]
      <4>1. <<>> \in Seq(WS!Label) /\ children \in [WS!Domain -> Seq(WS!Label)]
        BY DEF Listed
      <4>2. QED BY <2>1, <4>1
    <3>2. \A a \in WS!Label : a # n => children'[a] = children[a]
      BY <2>1, <2>3 DEF Listed
    <3>3. \A a \in WS!Label : number'[a] = 0 => a # n /\ number[a] = 0
      BY <2>2, <2>3
    <3>4. \A a \in WS!Label : number'[a] = 0 => Elements(children'[a]) = {b \in WS!Label : Adjacent(a, b)}
      BY <3>2, <3>3 DEF Listed, Elements
    <3>5. \A a : Elements(children[a])' = Elements(children'[a])
      BY DEF Elements
    <3>6. QED BY <1>3, <1>4, <3>1, <3>4, <3>5 DEF Listed
  <2>7. Reached'
    <3>1. \A a, b \in WS!Label : number'[a] # 0 /\ Adjacent(a, b) => number'[b] # 0 \/ b \in Elements(list')
      <4>1. SUFFICES ASSUME NEW a \in WS!Label, NEW b \in WS!Label, number'[a] # 0, Adjacent(a, b)
                     PROVE  number'[b] # 0 \/ b \in Elements(list')
        OBVIOUS
      <4>2. CASE a = n
        BY <2>4, <2>5, <4>1, <4>2
      <4>3. CASE a # n
        <5>1. number[b] # 0 \/ b \in Elements(list)
          BY <2>2, <4>1, <4>3 DEF Reached
        <5>2. QED BY <1>2, <2>2, <2>3, <2>5, <5>1
      <4>4. QED BY <4>2, <4>3
    <3>2. \A b \in Elements(list') : \E a \in WS!Label : number'[a] # 0 /\ Adjacent(a, b)
      <4>1. SUFFICES ASSUME NEW b \in Elements(list')
                     PROVE  \E a \in WS!Label : number'[a] # 0 /\ Adjacent(a, b)
        OBVIOUS
      <4>2. CASE b \in Elements(children[n])
        BY <1>2, <2>2, <2>3, <2>4, <4>2
      <4>3. CASE b \in Elements(Tail(list))
        <5>1. PICK a \in WS!Label : number[a] # 0 /\ Adjacent(a, b)
          BY <1>2, <4>3 DEF Reached
        <5>2. number'[a] # 0
          BY <2>2, <2>3, <5>1
        <5>3. QED BY <5>1, <5>2
      <4>4. QED BY <2>5, <4>2, <4>3
    <3>3. QED BY <1>3, <1>4, <1>5, <2>5, <3>1, <3>2 DEF Reached
  <2>8. ~Root(n)'
    <3>1. n \in Elements(list)
      BY <1>2
    <3>2. PICK a \in WS!Label : number[a] # 0 /\ Adjacent(a, n)
      BY <3>1 DEF Reached
    <3>3. Adjacent(n, a) /\ a # n
      BY <3>2, PairsBeside
    <3>4. number[a] \in Nat /\ number[a] <= topologically_next /\ topologically_next \in Nat
      BY <2>3 DEF InTurn
    <3>5. number'[a] # 0 /\ ~(number'[n] < number'[a])
      BY <1>2, <2>2, <3>2, <3>3, <3>4
    <3>6. Adjacent(n, a)' /\ a \in WS!Label'
      BY <1>3, <1>4, <3>3
    <3>7. QED BY <3>5, <3>6 DEF Root
  <2>9. Trees'
    <3>1. \A r : Root(r)' => Root(r)
      BY <2>2, <2>8
    <3>2. QED BY <1>3, <3>1 DEF Trees
  <2>10. QED BY <1>1, <1>3, <2>2, <2>6, <2>7, <2>9
<1>8. QED BY <1>6, <1>7

-----------------------------------------------------------------------------
(* What is written.                                                        *)

\* The end of a pair that got its number last: the child.
Child(e) == WS!Oriented(e)[1]

LEMMA ChildIs ==
    ASSUME in \in Domains, LateShape, Spanning, InTurn, NEW e \in Pairs
    PROVE  /\ Child(e) \in WS!Label
           /\ \/ WS!Oriented(e) = e
              \/ WS!Oriented(e) = <<e[2], e[1], e[3]>>
           /\ WS!Oriented(e)[3] = e[3] /\ WS!Oriented(e)[1] \in WS!Label /\ WS!Oriented(e)[2] \in WS!Label
           /\ \A S : (WS!Oriented(e)[1] \in S <=> WS!Oriented(e)[2] \in S) <=> (e[1] \in S <=> e[2] \in S)
           /\ \A a, b \in WS!Label : /\ number[b] < number[a]
                                     /\ (e[1] = a /\ e[2] = b) \/ (e[1] = b /\ e[2] = a)
                                     => Child(e) = a
<1>1. e = <<e[1], e[2], e[3]>> /\ e[1] \in WS!Label /\ e[2] \in WS!Label
  BY PairsBeside
<1>2. \A a \in WS!Label : number[a] \in Nat
  BY KeptAre DEF InTurn
<1>3. CASE number[e[1]] > number[e[2]]
  <2>1. WS!Oriented(e) = e
    BY <1>3 DEF WS!Oriented
  <2>2. QED BY <1>1, <1>2, <1>3, <2>1 DEF Child
<1>4. CASE ~(number[e[1]] > number[e[2]])
  <2>1. WS!Oriented(e) = <<e[2], e[1], e[3]>>
    BY <1>4 DEF WS!Oriented
  <2>2. WS!Oriented(e)[1] = e[2] /\ WS!Oriented(e)[2] = e[1] /\ WS!Oriented(e)[3] = e[3]
    BY <2>1
  <2>3. QED BY <1>1, <1>2, <1>4, <2>1, <2>2 DEF Child
<1>5. QED BY <1>3, <1>4

\* There are as many numbers but the roots as pairs, and each of them is the child of one.
LEMMA OneParent ==
    ASSUME in \in Domains, LateShape, Spanning, InTurn, Trees, \A i \in WS!Label : number[i] # 0
    PROVE  \A d, e \in Pairs : Child(d) = Child(e) => d = e
<1> DEFINE roots == {r \in WS!Label : Root(r)}
           kids == {Child(e) : e \in Pairs}
           top == [r \in roots |-> Part(WS!Label, Pairs, r)]
           child == [e \in Pairs |-> Child(e)]
<1>1. IsFiniteSet(WS!Label) /\ IsFiniteSet(Pairs) /\ IsFiniteSet(roots)
  BY KeptAre, FS_Subset DEF Spanning
<1>2. kids \subseteq WS!Label
  BY ChildIs
<1>3. ASSUME NEW a \in WS!Label, ~Root(a) PROVE a \in kids
  <2>1. PICK b \in WS!Label : Adjacent(a, b) /\ ~(number[a] < number[b])
    BY <1>3 DEF Root
  <2>2. a # b /\ \E e \in Pairs : \/ e[1] = a /\ e[2] = b
                                  \/ e[1] = b /\ e[2] = a
    BY <2>1, PairsBeside
  <2>3. PICK e \in Pairs : (e[1] = a /\ e[2] = b) \/ (e[1] = b /\ e[2] = a)
    BY <2>2
  <2>4. number[a] \in Nat /\ number[b] \in Nat /\ number[a] # number[b]
    BY <2>2, KeptAre DEF InTurn
  <2>5. number[b] < number[a]
    BY <2>1, <2>4
  <2>6. Child(e) = a
    BY <2>3, <2>5, ChildIs
  <2>7. QED BY <2>6
<1>4. WS!Label \subseteq roots \cup kids
  BY <1>3
<1>5. IsFiniteSet(kids) /\ Cardinality(kids) <= Cardinality(Pairs)
      /\ (Cardinality(kids) = Cardinality(Pairs) => child \in Injection(Pairs, kids))
  <2>1. child \in Surjection(Pairs, kids)
    BY DEF Surjection
  <2>2. QED BY <1>1, <2>1, FS_Surjection
<1>6. Cardinality(roots) <= Cardinality(Parts(WS!Label, Pairs)) /\ IsFiniteSet(Parts(WS!Label, Pairs))
  <2>1. ASSUME NEW r \in roots, NEW s \in roots, top[r] = top[s] PROVE r = s
    <3>1. s \in Part(WS!Label, Pairs, s)
      BY PartWithin
    <3>2. s \in Part(WS!Label, Pairs, r)
      BY <2>1, <3>1
    <3>3. QED BY <3>2 DEF Trees
  <2>2. top \in Injection(roots, Parts(WS!Label, Pairs))
    <3>1. top \in [roots -> Parts(WS!Label, Pairs)]
      BY DEF Parts
    <3>2. QED BY <2>1, <3>1 DEF Injection, IsInjective
  <2>3. IsFiniteSet(Parts(WS!Label, Pairs))
    <3>1. [i \in WS!Label |-> Part(WS!Label, Pairs, i)] \in Surjection(WS!Label, Parts(WS!Label, Pairs))
      BY DEF Surjection, Parts
    <3>2. QED BY <1>1, <3>1, FS_Surjection
  <2> HIDE DEF top, roots
  <2>4. QED BY <2>2, <2>3, FS_Injection
<1> HIDE DEF roots, kids
<1>7. Cardinality(WS!Label) <= Cardinality(roots) + Cardinality(kids)
  <2>1. IsFiniteSet(roots \cup kids)
        /\ Cardinality(roots \cup kids) =
              Cardinality(roots) + Cardinality(kids) - Cardinality(roots \cap kids)
    BY <1>1, <1>5, FS_Union
  <2>2. Cardinality(WS!Label) <= Cardinality(roots \cup kids)
    BY <1>4, <2>1, FS_Subset
  <2>3. Cardinality(roots \cap kids) \in Nat /\ Cardinality(roots) \in Nat /\ Cardinality(kids) \in Nat
    BY <1>1, <1>5, FS_Intersection, FS_CardinalityType
  <2>4. Cardinality(WS!Label) \in Nat
    BY <1>1, FS_CardinalityType
  <2>5. QED BY <2>1, <2>2, <2>3, <2>4
<1>8. Cardinality(Pairs) + Cardinality(Parts(WS!Label, Pairs)) = Cardinality(WS!Label)
  BY DEF Spanning
<1>9. /\ Cardinality(roots) \in Nat /\ Cardinality(kids) \in Nat /\ Cardinality(Pairs) \in Nat
      /\ Cardinality(Parts(WS!Label, Pairs)) \in Nat /\ Cardinality(WS!Label) \in Nat
  BY <1>1, <1>5, <1>6, FS_CardinalityType
<1>10. Cardinality(kids) = Cardinality(Pairs)
  BY <1>5, <1>6, <1>7, <1>8, <1>9
<1>11. child \in Injection(Pairs, kids)
  BY <1>5, <1>10
<1>12. QED BY <1>11 DEF Injection, IsInjective

\* Edges that are closed by the same sets make the same parts.
LEMMA SameClosed ==
    ASSUME NEW ids, NEW F, NEW G, \A S \in SUBSET ids : Closed(S, F) <=> Closed(S, G)
    PROVE  Parts(ids, F) = Parts(ids, G) /\ \A i \in ids : Part(ids, F, i) = Part(ids, G, i)
<1>1. \A i \in ids : Part(ids, F, i) = Part(ids, G, i)
  BY DEF Part
<1>2. QED BY <1>1 DEF Parts

\* What is left of the edges between numbers joins what all of them do: of two edges between
\* the same domains the lower joins nothing more, and an edge within a number nothing.
LEMMA KeptJoin ==
    ASSUME in \in Domains, LateShape, NEW value \in Int, NEW S \in SUBSET WS!Label
    PROVE  Closed(S, AtLeast(AllKept, value)) <=>
              Closed(S, AtLeast({e \in {WS!Renamed(g) : g \in WS!FirstEdges} : e[1] # 0 /\ e[2] # 0}, value))
<1> DEFINE named == {e \in {WS!Renamed(g) : g \in WS!FirstEdges} : e[1] # 0 /\ e[2] # 0}
<1>1. AllKept \subseteq named
  <2>1. \A c \in WS!Chunk : First(c) \subseteq WS!FirstEdges
    BY EdgesAre
  <2>2. QED BY <2>1 DEF AllKept, Kept
<1>2. ASSUME Closed(S, AtLeast(AllKept, value)), NEW e \in AtLeast(named, value)
      PROVE  e[1] \in S <=> e[2] \in S
  <2>1. PICK g \in WS!FirstEdges : e = WS!Renamed(g) /\ e[1] # 0 /\ e[2] # 0
    BY DEF AtLeast
  <2>2. PICK c \in WS!Chunk : \E h \in First(c) : h[1] = g[1] /\ h[2] = g[2] /\ h[3] >= g[3]
    BY EdgesAre
  <2>3. PICK h \in First(c) : h[1] = g[1] /\ h[2] = g[2] /\ h[3] >= g[3]
    BY <2>2
  <2>4. h[3] \in Int /\ g[3] \in Int
    BY EdgesAre
  <2>5. WS!Renamed(h)[1] = e[1] /\ WS!Renamed(h)[2] = e[2] /\ WS!Renamed(h)[3] = h[3] /\ e[3] = g[3]
    BY <2>1, <2>3 DEF WS!Renamed
  <2>6. e[3] >= value
    BY DEF AtLeast
  <2>7. CASE e[1] = e[2]
    BY <2>7
  <2>8. CASE e[1] # e[2]
    <3>1. WS!Renamed(h) \in Kept(c)
      BY <2>1, <2>5, <2>8 DEF Kept
    <3>2. h[3] >= value
      BY <2>3, <2>4, <2>5, <2>6
    <3>3. WS!Renamed(h) \in AtLeast(AllKept, value)
      BY <2>5, <3>1, <3>2 DEF AllKept, AtLeast
    <3>4. QED BY <1>2, <2>5, <3>3 DEF Closed
  <2>9. QED BY <2>7, <2>8
<1>3. ASSUME Closed(S, AtLeast(named, value)) PROVE Closed(S, AtLeast(AllKept, value))
  BY <1>1, <1>3 DEF Closed, AtLeast
<1>4. ASSUME Closed(S, AtLeast(AllKept, value)) PROVE Closed(S, AtLeast(named, value))
  BY <1>2, <1>4 DEF Closed
<1>5. QED BY <1>3, <1>4

LEMMA WriteStep ==
    ASSUME in \in Domains, phase = "dend", LateShape, Spanning, InTurn, Trees, WS!Write
    PROVE  phase' = "done" /\ WS!DendrogramSpans'
<1> DEFINE named == {e \in {WS!Renamed(g) : g \in WS!FirstEdges} : e[1] # 0 /\ e[2] # 0}
           turned == {WS!Oriented(e) : e \in Pairs}
<1>1. /\ queue = {} /\ \A i \in WS!Label : number[i] # 0
      /\ pairs' = [k \in DOMAIN pairs |-> WS!Oriented(pairs[k])]
      /\ phase' = "done"
      /\ UNCHANGED <<in, sizes, reorder>>
  BY DEF WS!Write
<1>2. {pairs'[k] : k \in DOMAIN pairs'} = turned
  BY <1>1 DEF Pairs
<1>3. \A d, e \in Pairs : Child(d) = Child(e) => d = e
  BY <1>1, OneParent
<1>4. \A k, l \in DOMAIN pairs' : k # l => pairs'[k][1] # pairs'[l][1]
  <2>1. SUFFICES ASSUME NEW k \in DOMAIN pairs, NEW l \in DOMAIN pairs, k # l
                 PROVE  Child(pairs[k]) # Child(pairs[l])
    BY <1>1 DEF Child
  <2>2. pairs[k] # pairs[l]
    BY <2>1 DEF Spanning
  <2>3. QED BY <1>3, <2>2 DEF Pairs
<1>5. \A S, value : Closed(S, AtLeast(turned, value)) <=> Closed(S, AtLeast(Pairs, value))
  <2>1. SUFFICES ASSUME NEW S, NEW value
                 PROVE  Closed(S, AtLeast(turned, value)) <=> Closed(S, AtLeast(Pairs, value))
    OBVIOUS
  <2>2. \A e \in Pairs : /\ WS!Oriented(e)[3] = e[3]
                         /\ (WS!Oriented(e)[1] \in S <=> WS!Oriented(e)[2] \in S) <=> (e[1] \in S <=> e[2] \in S)
    BY ChildIs
  <2>3. QED BY <2>2 DEF Closed, AtLeast
<1>6. \A S : Closed(S, turned) <=> Closed(S, Pairs)
  <2>1. \A S : \A e \in Pairs :
           (WS!Oriented(e)[1] \in S <=> WS!Oriented(e)[2] \in S) <=> (e[1] \in S <=> e[2] \in S)
    BY ChildIs
  <2>2. QED BY <2>1 DEF Closed
<1>7. Cardinality(turned) = Cardinality(Pairs)
  <2>1. \A d, e \in Pairs : WS!Oriented(d) = WS!Oriented(e) => d = e
    BY <1>3 DEF Child
  <2>2. [e \in Pairs |-> WS!Oriented(e)] \in Bijection(Pairs, turned)
    BY <2>1 DEF Bijection, Injection, Surjection, IsInjective
  <2>3. IsFiniteSet(Pairs)
    BY DEF Spanning
  <2> HIDE DEF turned
  <2>4. QED BY <2>2, <2>3, FS_Bijection DEF ExistsBijection
<1>8. Cardinality(turned) + Cardinality(Parts(WS!Label, turned)) = Cardinality(WS!Label)
  <2>1. Parts(WS!Label, turned) = Parts(WS!Label, Pairs)
    BY <1>6, SameClosed
  <2>2. QED BY <1>7, <2>1 DEF Spanning
<1>9. \A value \in Int : Parts(WS!Label, AtLeast(turned, value)) = Parts(WS!Label, AtLeast(named, value))
  <2>1. SUFFICES ASSUME NEW value \in Int
                 PROVE  Parts(WS!Label, AtLeast(turned, value)) = Parts(WS!Label, AtLeast(named, value))
    OBVIOUS
  <2> HIDE DEF turned
  <2>2. Parts(WS!Label, AtLeast(turned, value)) = Parts(WS!Label, AtLeast(Pairs, value))
    BY <1>5, SameClosed
  <2>3. Gone = AllKept
    BY <1>1 DEF Gone
  <2>4. \A i \in WS!Label : Part(WS!Label, AtLeast(Pairs, value), i) = Part(WS!Label, AtLeast(AllKept, value), i)
    BY <2>3 DEF Spanning, Alike
  <2>5. Parts(WS!Label, AtLeast(Pairs, value)) = Parts(WS!Label, AtLeast(AllKept, value))
    BY <2>4 DEF Parts
  <2>6. \A S \in SUBSET WS!Label :
           Closed(S, AtLeast(AllKept, value)) <=> Closed(S, AtLeast(named, value))
    BY KeptJoin
  <2> HIDE DEF named
  <2>7. Parts(WS!Label, AtLeast(AllKept, value)) = Parts(WS!Label, AtLeast(named, value))
    BY <2>6, SameClosed
  <2>8. QED BY <2>2, <2>5, <2>7
<1>10. \A e \in named : e[3] \in Int
  BY EdgesAre DEF WS!Renamed
<1>11. Spans(turned, named, WS!Label)
  <2> HIDE DEF turned, named
  <2>1. QED BY <1>8, <1>9, <1>10 DEF Spans
<1>12. WS!Label' = WS!Label /\ WS!FirstEdges' = WS!FirstEdges /\ \A e : WS!Renamed(e)' = WS!Renamed(e)
  BY <1>1, SameKept, SameInput DEF WS!Renamed
<1>13. WS!DendrogramSpans'
  BY <1>2, <1>4, <1>11, <1>12, RegionsOfBorders DEF WS!DendrogramSpans
<1>14. QED BY <1>1, <1>13

-----------------------------------------------------------------------------
(* All steps.                                                              *)

WInv ==
    /\ JoinInv
    /\ phase = "update" => LateShape /\ SizesKept /\ Updating /\ WS!DustNamed
    /\ phase = "dend" => /\ LateShape /\ SizesKept /\ Spanning /\ Listed
                         /\ InTurn /\ Reached /\ Trees /\ (queue # {} => Fresh)
    /\ phase = "done" => SizesKept /\ WS!DendrogramSpans

LEMMA FreshInTurn ==
    ASSUME LateShape', Fresh'
    PROVE  InTurn' /\ Reached' /\ Trees'
<1>1. /\ list' = <<>> /\ number' = [i \in WS!Domain' |-> 0] /\ topologically_next' = 0
      /\ WS!Label' \subseteq WS!Domain'
  BY DEF Fresh, LateShape, WS!Label
<1>2. \A a \in WS!Label' : number'[a] = 0
  BY <1>1
<1>3. InTurn'
  BY <1>1, <1>2 DEF InTurn
<1>4. Elements(list)' = {}
  BY <1>1 DEF Elements
<1>5. Reached'
  BY <1>1, <1>2, <1>4 DEF Reached
<1>6. \A r \in WS!Label' : ~Root(r)'
  BY <1>2 DEF Root
<1>7. QED BY <1>3, <1>5, <1>6 DEF Trees

LEMMA SizesStay ==
    ASSUME in' = in, reorder' = reorder, sizes' = sizes, SizesKept PROVE SizesKept'
BY SameInput DEF SizesKept

LEMMA LateJoins ==
    ASSUME JoinInv, in' = in, todo' \subseteq WS!Chunk, phase' \in {"update", "dend", "done"},
           phase' = "update" => Blank'
    PROVE  JoinInv'
<1>1. Shape'
  BY DEF JoinInv, Shape
<1>2. QED BY <1>1 DEF JoinInv

LEMMA UpdateKeeps == WInv /\ (\E c \in WS!Chunk : WS!UpdateChunkData(c)) => WInv'
<1>1. SUFFICES ASSUME WInv, NEW c \in WS!Chunk, WS!UpdateChunkData(c) PROVE WInv'
  OBVIOUS
<1>2. phase = "update" /\ UNCHANGED <<in, reorder, sizes>> /\ todo' \subseteq todo
  BY <1>1 DEF WS!UpdateChunkData
<1>3. /\ in \in Domains /\ todo \subseteq WS!Chunk /\ JoinInv /\ Blank
      /\ LateShape /\ SizesKept /\ Updating /\ WS!DustNamed
  BY <1>1, <1>2 DEF WInv, JoinInv, Shape
<1>4. /\ phase' = "update" => LateShape' /\ Updating' /\ Blank'
      /\ phase' # "update" => phase' = "dend" /\ LateShape' /\ Spanning' /\ Listed' /\ Fresh'
  BY <1>1, <1>2, <1>3, UpdateStep
<1>5. JoinInv'
  <2>1. todo' \subseteq WS!Chunk
    BY <1>2, <1>3
  <2>2. phase' \in {"update", "dend", "done"}
    BY <1>4
  <2>3. QED BY <1>2, <1>3, <1>4, <2>1, <2>2, LateJoins
<1>6. SizesKept'
  BY <1>2, <1>3, SizesStay
<1>7. phase' = "update" => WS!DustNamed'
  BY <1>2, <1>3, SameInput DEF WS!DustNamed
<1>8. phase' = "dend" => InTurn' /\ Reached' /\ Trees'
  BY <1>4, FreshInTurn
<1>9. QED BY <1>4, <1>5, <1>6, <1>7, <1>8 DEF WInv

LEMMA DendKeeps == WInv /\ (WS!Dendrogram \/ WS!NextTree \/ WS!NextChild \/ WS!Write) => WInv'
<1>1. SUFFICES ASSUME WInv, WS!Dendrogram \/ WS!NextTree \/ WS!NextChild \/ WS!Write PROVE WInv'
  OBVIOUS
<1>2. /\ phase = "dend" /\ UNCHANGED <<in, reorder, sizes, todo>>
      /\ phase' \in {"dend", "done"}
  BY <1>1 DEF WS!Dendrogram, WS!NextTree, WS!NextChild, WS!Write
<1>3. /\ in \in Domains /\ todo \subseteq WS!Chunk /\ JoinInv
      /\ LateShape /\ SizesKept /\ Spanning /\ Listed
      /\ InTurn /\ Reached /\ Trees /\ (queue # {} => Fresh)
  BY <1>1, <1>2 DEF WInv, JoinInv, Shape
<1>4. JoinInv' /\ SizesKept'
  <2>1. phase' \in {"update", "dend", "done"} /\ phase' # "update" /\ todo' \subseteq WS!Chunk
    BY <1>2, <1>3
  <2>2. JoinInv'
    BY <1>2, <1>3, <2>1, LateJoins
  <2>3. QED BY <1>2, <1>3, <2>2, SizesStay
<1>5. CASE WS!Dendrogram
  <2>1. LateShape' /\ Spanning' /\ Listed' /\ Fresh'
    BY <1>2, <1>3, <1>5, DendrogramStep
  <2>2. InTurn' /\ Reached' /\ Trees'
    BY <2>1, FreshInTurn
  <2>3. phase' = "dend"
    BY <1>2, <1>5 DEF WS!Dendrogram
  <2>4. QED BY <1>4, <2>1, <2>2, <2>3 DEF WInv
<1>6. CASE WS!NextTree
  <2>1. phase' = "dend" /\ LateShape' /\ Spanning' /\ Listed' /\ InTurn' /\ Reached' /\ Trees'
    BY <1>2, <1>3, <1>6, TreeStep
  <2>2. queue' = {}
    BY <1>6 DEF WS!NextTree
  <2>3. QED BY <1>4, <2>1, <2>2 DEF WInv
<1>7. CASE WS!NextChild
  <2>1. phase' = "dend" /\ LateShape' /\ Spanning' /\ Listed' /\ InTurn' /\ Reached' /\ Trees'
    BY <1>2, <1>3, <1>7, ChildStep
  <2>2. queue' = {}
    BY <1>7 DEF WS!NextChild
  <2>3. QED BY <1>4, <2>1, <2>2 DEF WInv
<1>8. CASE WS!Write
  <2>1. phase' = "done" /\ WS!DendrogramSpans'
    BY <1>2, <1>3, <1>8, WriteStep
  <2>2. QED BY <1>4, <2>1 DEF WInv
<1>9. QED BY <1>1, <1>5, <1>6, <1>7, <1>8

LEMMA EarlyKeeps ==
    WInv /\ (\/ \E c \in WS!Chunk : WS!GetChunkSizes(c) \/ WS!ProcessChunkBorders(c)
             \/ WS!MergePair \/ WS!SerialJoin \/ WS!MergeMissing \/ WS!MergeDust \/ WS!Renumber) => WInv'
<1>1. SUFFICES ASSUME WInv, \/ \E c \in WS!Chunk : WS!GetChunkSizes(c) \/ WS!ProcessChunkBorders(c)
                            \/ WS!MergePair \/ WS!SerialJoin \/ WS!MergeMissing \/ WS!MergeDust \/ WS!Renumber
               PROVE  WInv'
  OBVIOUS
<1>2. JoinInv
  BY <1>1 DEF WInv
<1>3. CASE WS!Renumber
  <2>1. phase' = "update"
    BY <1>3 DEF WS!Renumber
  <2>2. QED BY <1>2, <1>3, <2>1, RenumberStep DEF WInv
<1>4. CASE WS!MergePair \/ WS!SerialJoin \/ WS!MergeMissing \/ WS!MergeDust
  <2>1. phase' \notin {"update", "dend", "done"}
    BY <1>4 DEF WS!MergePair, WS!SerialJoin, WS!MergeMissing, WS!Missing, WS!MergeDust
  <2>2. JoinInv'
    BY <1>2, <1>4, PairStep, SerialStep, MissingStep, DustStep
  <2>3. QED BY <2>1, <2>2 DEF WInv
<1>5. CASE \E c \in WS!Chunk : WS!GetChunkSizes(c) \/ WS!ProcessChunkBorders(c)
  <2>1. PICK c \in WS!Chunk : WS!GetChunkSizes(c) \/ WS!ProcessChunkBorders(c)
    BY <1>5
  <2>2. phase' \notin {"update", "dend", "done"}
    BY <2>1 DEF WS!GetChunkSizes, WS!ProcessChunkBorders
  <2>3. JoinInv'
    BY <1>2, <2>1, SizesStep, BordersStep
  <2>4. QED BY <2>2, <2>3 DEF WInv
<1>6. QED BY <1>1, <1>3, <1>4, <1>5

LEMMA StutterKeeps == WInv /\ UNCHANGED WS!vars => WInv'
<1>1. SUFFICES ASSUME WInv, UNCHANGED WS!vars PROVE WInv'
  OBVIOUS
<1>2. UNCHANGED <<in, phase, todo, sizes, sets, merge_at, reorder, dendr, more_dendr, merge_pairs,
                  queue, pairs, children, list, number, topologically_next>>
  BY <1>1 DEF WS!vars
<1>3. /\ WS!Domain' = WS!Domain /\ WS!FirstSize' = WS!FirstSize /\ WS!FirstEdges' = WS!FirstEdges
      /\ WS!Label' = WS!Label /\ AllKept' = AllKept
      /\ \A c : WS!Offset(c)' = WS!Offset(c) /\ Count(c)' = Count(c) /\ First(c)' = First(c)
      /\ (WS!Plausible(in) => WS!Plausible(in)')
  BY <1>2, SameInput, SameKept
<1>4. \A e : WS!Renamed(e)' = WS!Renamed(e)
  BY <1>2 DEF WS!Renamed
<1>5. \A c, e : WS!Named(c, e)' = WS!Named(c, e)
  BY <1>3 DEF WS!Named
<1>6. WS!AllEdges' = WS!AllEdges
  BY <1>2, <1>5 DEF WS!AllEdges
<1>7. \A c : WS!Largest(WS!BorderEdges(WS!Ahead(in, c)))' = WS!Largest(WS!BorderEdges(WS!Ahead(in, c)))
  BY <1>2 DEF WS!Largest, WS!BorderEdges, WS!Ahead, WS!Met, WS!NeedsEdge, WS!IsSame, WS!Ends, WS!Offset
<1>8. \A c : Kept(c)' = Kept(c)
  BY <1>3, <1>4 DEF Kept
<1>9. /\ Shape => Shape'
      /\ Blank => Blank'
      /\ Sizing => Sizing'
      /\ Paired => Paired'
  BY <1>2, <1>3 DEF Shape, Blank, Sizing, Paired
<1>10. /\ Stored(WS!Chunk \ todo) => Stored(WS!Chunk \ todo)'
       /\ Stored(WS!Chunk) => Stored(WS!Chunk)'
  BY <1>2, <1>7 DEF Stored
<1>11. /\ Marked => Marked'
       /\ Summing => Summing'
       /\ InValue => InValue'
       /\ Missed => Missed'
       /\ Dusted => Dusted'
       /\ WS!MissingMade => WS!MissingMade'
       /\ WS!DustNamed => WS!DustNamed'
  BY <1>2, <1>3, <1>6 DEF Marked, Summing, InValue, Missed, Dusted, WS!MissingMade, WS!DustNamed
<1>12. JoinInv'
  BY <1>1, <1>2, <1>3, <1>9, <1>10, <1>11 DEF WInv, JoinInv
<1>13. /\ LateShape => LateShape'
       /\ Spanning => Spanning'
       /\ Pairs' = Pairs /\ \A a, b : Adjacent(a, b)' <=> Adjacent(a, b)
  BY <1>2, SameForest
<1>14. SizesKept => SizesKept'
  BY <1>2, SizesStay
<1>15. Updating => Updating'
  BY <1>2, <1>7, <1>8 DEF Updating
<1>16. Fresh => Fresh'
  BY <1>2, <1>3 DEF Fresh
<1>17. /\ \A s : Elements(s)' = Elements(s)
       /\ Elements(list)' = Elements(list)
       /\ \A a : Elements(children[a])' = Elements(children[a])
  BY <1>2 DEF Elements
<1>18. /\ Listed => Listed'
       /\ InTurn => InTurn'
       /\ Reached => Reached'
  BY <1>2, <1>3, <1>13, <1>17 DEF Listed, InTurn, Reached
<1>19. \A r : Root(r)' <=> Root(r)
  BY <1>2, <1>3, <1>13 DEF Root
<1>20. Trees => Trees'
  BY <1>3, <1>13, <1>19 DEF Trees
<1>21. WS!DendrogramSpans => WS!DendrogramSpans'
  BY <1>2, <1>3, <1>4 DEF WS!DendrogramSpans
<1>22. QED BY <1>1, <1>2, <1>12, <1>11, <1>13, <1>14, <1>15, <1>16, <1>18, <1>20, <1>21 DEF WInv

\* Between chunks: a mark says that no edge leading out of the set is higher, what a queue
\* has handed out is joined as far as the pass joins it, the pairs kept join what the edges
\* taken do, and the numbers given so far close up all trees but the one under way.
THEOREM BordersCorrect == WS!Spec => []WInv
<1>1. WS!Init => WInv
  <2>1. WS!Init => phase = "sizes"
    BY DEF WS!Init
  <2>2. QED BY <2>1, InitJoins DEF WInv
<1>2. WInv /\ [WS!Next]_(WS!vars) => WInv'
  <2>1. WInv /\ WS!Next => WInv'
    BY UpdateKeeps, DendKeeps, EarlyKeeps DEF WS!Next
  <2>2. QED BY <2>1, StutterKeeps
<1>3. QED BY <1>1, <1>2, PTL DEF WS!Spec

\* The size of a domain that others are joined to is the sum of theirs, and that of a new
\* number the sum of what it was given for; and no merger is missed, at a border where a
\* domain's highest edge leads out of the chunk, or of dust with anything, dust or not.
THEOREM MergersCorrect == WS!Spec => []MergersMade
<1>1. WInv => WS!SizesFollow
  <2>1. SUFFICES ASSUME WInv PROVE WS!SizesFollow
    OBVIOUS
  <2>2. ASSUME phase \in {"serial", "missing", "dust"}, NEW i \in WS!Domain
        PROVE  sizes[i] = Total({j \in WS!Domain : sets[j] = i}, WS!FirstSize)
    BY <2>1, <2>2 DEF WInv, JoinInv, Summing, Sums
  <2>3. phase \in {"update", "dend", "done"} => SizesKept
    BY <2>1 DEF WInv
  <2>4. QED BY <2>2, <2>3, RegionsOfBorders DEF WS!SizesFollow, SizesKept
<1>2. WInv => WS!MergersMade
  <2>1. WInv => WS!MissingMade
    BY DEF WInv, JoinInv, WS!MissingMade
  <2>2. WInv => WS!DustMade
    BY NoDustLeft DEF WInv
  <2>3. WInv => WS!DustNamed
    BY DEF WInv, WS!DustNamed
  <2>4. QED BY <2>1, <2>2, <2>3 DEF WS!MergersMade
<1>3. WInv => MergersMade
  BY <1>1, <1>2 DEF MergersMade
<1>4. QED BY <1>3, BordersCorrect, PTL

\* The dendrogram that is written joins, at every value, what all edges of all chunks join,
\* without a cycle, and every number has one parent, whatever order the equal edges left
\* the queue in: the topological numbers begin again at one root for each tree.
THEOREM DendrogramCorrect == WS!Spec => []DendrogramSpans
<1>1. WInv => DendrogramSpans
  BY DEF WInv, DendrogramSpans, WS!DendrogramSpans
<1>2. QED BY <1>1, BordersCorrect, PTL

=============================================================================
