------------------------------ MODULE PriorityBag ------------------------------
(***************************************************************************)
(* What a priority queue promises: items go in, and come out one by one, a *)
(* least one first; none is lost and none is made up.                      *)
(***************************************************************************)
EXTENDS Bags

CONSTANTS
    Items,
    Less(_, _),  \* a strict order on items; ties leave the choice open
    Undefined

VARIABLES bag, popped  \* what is in the queue; what the last pop returned

Push(x) == bag' = bag (+) SetToBag({x}) /\ UNCHANGED popped

Pop ==
    \/ /\ bag = EmptyBag
       /\ popped' = Undefined
       /\ UNCHANGED bag
    \/ \E x \in BagToSet(bag) :
         /\ \A y \in BagToSet(bag) : ~ Less(y, x)
         /\ popped' = x
         /\ bag' = bag (-) SetToBag({x})

Clear == bag' = EmptyBag /\ UNCHANGED popped

Init == bag = EmptyBag /\ popped = Undefined

Next == Pop \/ Clear \/ \E x \in Items : Push(x)

Spec == Init /\ [][Next]_<<bag, popped>>
================================================================================
