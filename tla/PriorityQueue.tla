--------------------------- MODULE PriorityQueue ----------------------------
(***************************************************************************)
(* What a priority queue promises: a set of elements, of which only a      *)
(* first one is ever taken.  OutOfCoreQueue and BinaryHeap implement it.   *)
(***************************************************************************)
CONSTANTS
    Element,
    Before(_, _),   \* the order of the elements
    Batch(_),       \* what sets of elements may be added at once
    Erases          \* does the queue offer to remove any element

VARIABLE held

Init == held = {}

\* One element, or whatever comes with it.
Insert ==
    /\ held # held'
    /\ held \subseteq held' /\ held' \subseteq Element
    /\ Batch(held' \ held)

TakeFirst == \E e \in held :
    /\ \A f \in held : ~Before(f, e)
    /\ held' = held \ {e}

Erase ==
    /\ Erases
    /\ \E e \in held : held' = held \ {e}

Clear == held' = {}

Next == Insert \/ TakeFirst \/ Erase \/ Clear

Spec == Init /\ [][Next]_held
=============================================================================
