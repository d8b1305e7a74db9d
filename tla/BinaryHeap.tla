---------------------------- MODULE BinaryHeap -----------------------------
(***************************************************************************)
(* zi::binary_heap (src/zi/heap/detail/binary_heap_impl.hpp).  Elements    *)
(* lie in slots of store_; heap_ orders the slots as a binary heap and     *)
(* map_ is its inverse; keymap_ finds an element's slot by its key.  One   *)
(* action is a member function, with the growing or shrinking of the       *)
(* arrays at its end.                                                      *)
(***************************************************************************)
EXTENDS Integers, FiniteSets

CONSTANTS
    Element,        \* records of what the extractors return, a key and a value
    InitReserved,   \* 16 in the code
    ShrinkAbove     \* 4096 in the code

ASSUME SizesAssumption == InitReserved \in Nat \ {0} /\ ShrinkAbove \in Nat \ {0}
ASSUME ElementAssumption == \A e \in Element : DOMAIN e = {"key", "value"} /\ e.value \in Int

VARIABLES
    size, reserved,
    heap,     \* the slot at each position
    map,      \* the position of each slot
    store,    \* the element in each slot, Nothing if none is constructed there
    keymap    \* the slot of each key that has one

vars == <<size, reserved, heap, map, store, keymap>>

Key == {e.key : e \in Element}
Nothing == [key |-> "nothing"]

\* Positions and slots are both numbered from 0.
Below(n) == 0..(n - 1)
Less(e, f) == e.value < f.value

Init ==
    /\ size = 0 /\ reserved = InitReserved
    /\ heap = [i \in Below(InitReserved) |-> i]
    /\ map = [i \in Below(InitReserved) |-> i]
    /\ store = [i \in Below(InitReserved) |-> Nothing]
    /\ keymap = <<>>

-----------------------------------------------------------------------------
(* swap_elements, heap_up and heap_down on the pair of index arrays        *)

Swapped(a, x, y) ==
    LET h == [a.heap EXCEPT ![x] = a.heap[y], ![y] = a.heap[x]]
    IN  [heap |-> h, map |-> [a.map EXCEPT ![h[x]] = x, ![h[y]] = y]]

Parent(i) == (i - 1) \div 2

\* Where a loop ends that does one step after another, and none from its end.
Looped(step) ==
    LET end[x \in DOMAIN step] == IF step[x] = x THEN x ELSE end[step[x]] IN end

\* The index arrays, and a position in them.
Arrays(n) == [heap : [Below(n) -> Below(n)], map : [Below(n) -> Below(n)]]
Places(n) == [arrays : Arrays(n), at : Below(n)]

Before(a, i, j, st) == Less(st[a.heap[i]], st[a.heap[j]])
SwappedTo(x, i) == [arrays |-> Swapped(x.arrays, x.at, i), at |-> i]

\* One round of heap_up.
Rising(n, st) ==
    [x \in Places(n) |-> IF x.at > 0 /\ Before(x.arrays, x.at, Parent(x.at), st)
                         THEN SwappedTo(x, Parent(x.at)) ELSE x]
Up(a, i, st) == Looped(Rising(reserved, st))[[arrays |-> a, at |-> i]]

\* The smaller child of position i among n, the left one if they are equal.
\* Mutant: always the left one.
Child_Left(a, i, n, st) == 2 * i + 1
Child(a, i, n, st) ==
    IF 2 * i + 2 < n /\ Before(a, 2 * i + 2, 2 * i + 1, st) THEN 2 * i + 2 ELSE 2 * i + 1

\* One round of heap_down.  Equal elements are swapped.
Sinking(n, m, st) ==
    [x \in Places(n) |->
        LET c == Child(x.arrays, x.at, m, st)
        IN  IF 2 * x.at + 1 < m /\ ~Before(x.arrays, x.at, c, st) THEN SwappedTo(x, c) ELSE x]
Down(a, i, n, st) == Looped(Sinking(reserved, n, st))[[arrays |-> a, at |-> i]]

-----------------------------------------------------------------------------
(* try_grow and try_shrink, given the state the operation leaves           *)

Grown(s) ==
    LET old == Below(s.reserved)
        new == Below(2 * s.reserved)
    IN  IF s.size < s.reserved THEN s
        ELSE [s EXCEPT !.reserved = 2 * @,
                       !.heap = [i \in new |-> IF i \in old THEN @[i] ELSE i],
                       !.map = [i \in new |-> IF i \in old THEN @[i] ELSE i],
                       !.store = [i \in new |-> IF i \in old THEN @[i] ELSE Nothing]]

\* One round of the loops over the positions that stay, those below half.  A slot that
\* will be cut off is exchanged for the next one, from si on, that will not be needed;
\* there is one.
Renumbering(n, half) ==
    [x \in [arrays : Arrays(n), i : 0..half, si : Below(half)] |->
        IF x.i = half THEN x
        ELSE IF x.arrays.heap[x.i] < half THEN [x EXCEPT !.i = @ + 1]
        ELSE IF x.arrays.map[x.si] < half /\ x.si + 1 < half THEN [x EXCEPT !.si = @ + 1]
        ELSE [x EXCEPT !.i = @ + 1,
                       !.arrays = [heap |-> [@.heap EXCEPT ![x.i] = x.si],
                                   map |-> [@.map EXCEPT ![x.si] = x.i]]]]
Renumbered(a, n, half) == Looped(Renumbering(n, half))[[arrays |-> a, i |-> 0, si |-> 0]].arrays

\* An element and its key stay with their position.
\* Mutant: the key keeps its old slot.
Rekeyed_Not(s, h) == s.keymap
Rekeyed(s, h) == [k \in DOMAIN s.keymap |-> h[s.map[s.keymap[k]]]]
Restored(s, m, half) ==
    [slot \in Below(half) |-> IF m[slot] < s.size THEN s.store[s.heap[m[slot]]] ELSE Nothing]

Cut(f, n) == [i \in Below(n) |-> f[i]]

Shrunk(s) ==
    LET half == s.reserved \div 2
        a == Renumbered([heap |-> s.heap, map |-> s.map], s.reserved, half)
    IN  IF 4 * s.size >= s.reserved \/ s.reserved <= ShrinkAbove THEN s
        ELSE [size |-> s.size, reserved |-> half,
              heap |-> Cut(a.heap, half), map |-> Cut(a.map, half),
              store |-> Restored(s, a.map, half), keymap |-> Rekeyed(s, a.heap)]

Become(s) ==
    /\ size' = s.size /\ reserved' = s.reserved
    /\ heap' = s.heap /\ map' = s.map
    /\ store' = s.store /\ keymap' = s.keymap

-----------------------------------------------------------------------------
(* The member functions                                                    *)

\* An element whose key is there is not inserted.
Insert(e) ==
    LET slot == heap[size]
        st == [store EXCEPT ![slot] = e]
        a == Up([heap |-> heap, map |-> map], size, st).arrays
    IN  /\ e.key \notin DOMAIN keymap
        /\ Become(Grown([size |-> size + 1, reserved |-> reserved,
                         heap |-> a.heap, map |-> a.map, store |-> st,
                         keymap |-> [k \in DOMAIN keymap \cup {e.key} |->
                                        IF k = e.key THEN slot ELSE keymap[k]]]))

\* The last element takes the erased one's position p; it may have to go up as well as
\* down.
Settled(a, p, n, st) ==
    LET u == Up(a, p, st) IN Down(u.arrays, u.at, n, st).arrays

Erased(slot) ==
    LET n == size - 1
        st == [store EXCEPT ![slot] = Nothing]
        old == [heap |-> heap, map |-> map]
        p == map[slot]
        a == IF p < n THEN Settled(Swapped(old, p, n), p, n, st) ELSE old
    IN  Shrunk([size |-> n, reserved |-> reserved, heap |-> a.heap, map |-> a.map, store |-> st,
                keymap |-> [k \in DOMAIN keymap \ {store[slot].key} |-> keymap[k]]])

\* erase and erase_key
Erase(k) ==
    /\ k \in DOMAIN keymap
    /\ Become(Erased(keymap[k]))

Pop ==
    /\ size > 0
    /\ Become(Erased(keymap[store[heap[0]].key]))

Clear ==
    /\ size' = 0
    /\ keymap' = <<>>
    /\ IF reserved > InitReserved
       THEN /\ reserved' = InitReserved
            /\ heap' = [i \in Below(InitReserved) |-> i]
            /\ map' = [i \in Below(InitReserved) |-> i]
            /\ store' = [i \in Below(InitReserved) |-> Nothing]
       ELSE /\ store' = [i \in DOMAIN store |-> Nothing]
            /\ UNCHANGED <<reserved, heap, map>>

Next ==
    \/ \E e \in Element : Insert(e)
    \/ \E k \in Key : Erase(k)
    \/ Pop
    \/ Clear

Spec == Init /\ [][Next]_vars

-----------------------------------------------------------------------------
(* Properties.                                                             *)

Occupied == {heap[i] : i \in Below(size)}

\* The three maps agree: heap_ and map_ are inverse to each other, the elements lie in the
\* slots of the first size_ positions, and keymap_ finds each by its key, through every
\* growth, renumbering and cut.
MapsAgree ==
    /\ size \in Nat /\ size < reserved
    /\ heap \in [Below(reserved) -> Below(reserved)]
    /\ map \in [Below(reserved) -> Below(reserved)]
    /\ \A i \in Below(reserved) : map[heap[i]] = i /\ heap[map[i]] = i
    /\ store \in [Below(reserved) -> Element \cup {Nothing}]
    /\ {i \in Below(reserved) : store[i] # Nothing} = Occupied
    /\ DOMAIN keymap = {store[i].key : i \in Occupied}
    /\ \A i \in Occupied : keymap[store[i].key] = i

\* No element is less than its parent, so that the one in front is a least.
HeapOrder == \A i \in Below(size) \ {0} : ~Less(store[heap[i]], store[heap[Parent(i)]])

\* The heap is sound after every call.
HeapSound == MapsAgree /\ HeapOrder

-----------------------------------------------------------------------------

\* What one call of insert adds.
Single(B) == \E e \in Element : B = {e}

Queue == INSTANCE PriorityQueue WITH
    held <- {store[i] : i \in Occupied}, Before <- Less, Batch <- Single, Erases <- TRUE

\* The heap is a priority queue: one element in or out at a time, and pop takes a first.
ImplementsQueue == Queue!Spec /\ [][Pop => Queue!TakeFirst]_vars
=============================================================================
