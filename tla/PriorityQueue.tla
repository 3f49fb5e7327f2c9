----------------------------- MODULE PriorityQueue -----------------------------
(***************************************************************************)
(* PriorityQueue.ts: the binary heap.  Sequences start at 1, so the parent *)
(* of i is i \div 2 and its children are 2i and 2i + 1.                    *)
(***************************************************************************)
EXTENDS Integers, Sequences, SequencesExt

CONSTANTS
    Items,     \* records with a score, a scheduledAt and a createdAt
    Nothing,   \* JavaScript's undefined
    MaxHeap    \* bound: the size of the heap

ASSUME ItemsAssumption ==
    \A x \in Items : x.score \in Int /\ x.scheduledAt \in Int /\ x.createdAt \in Int

VARIABLES heap, popped  \* the array; what the last pop returned

queueVars == <<heap, popped>>

HeapTypeOK ==
    /\ heap \in Seq(Items)
    /\ popped \in Items \cup {Nothing}

HeapInit == heap = <<>> /\ popped = Nothing

--------------------------------------------------------------------------------
(* compareFn(a, b) < 0.                                                    *)
before(a, b) ==
    \/ a.score < b.score
    \/ a.score = b.score /\ \/ a.scheduledAt < b.scheduledAt
                            \/ a.scheduledAt = b.scheduledAt /\ a.createdAt < b.createdAt

swap(h, i, k) == [h EXCEPT ![i] = h[k], ![k] = h[i]]

(* An array, and a position in it or behind it.                            *)
Places == Seq(Items) \X (Nat \ {0})

bubbleUp(h, i) ==
    LET up[p \in Places] ==
          LET a      == p[1]
              k      == p[2]
              parent == k \div 2
          IN  IF k \in 2..Len(a) /\ before(a[k], a[parent])
              THEN up[<<swap(a, k, parent), parent>>]
              ELSE a
    IN  up[<<h, i>>]

(* A mutant of smallest: the right child is compared with the parent only. *)
smallestLeft(h, i) ==
    IF 2*i <= Len(h) /\ before(h[2*i], h[i]) THEN 2*i
    ELSE IF 2*i + 1 <= Len(h) /\ before(h[2*i + 1], h[i]) THEN 2*i + 1
    ELSE i

smallest(h, i) ==
    LET left == IF 2*i <= Len(h) /\ before(h[2*i], h[i]) THEN 2*i ELSE i
    IN  IF 2*i + 1 <= Len(h) /\ before(h[2*i + 1], h[left]) THEN 2*i + 1 ELSE left

sinkDown(h, i) ==
    LET down[p \in Places] ==
          LET a == p[1]
              k == p[2]
              s == smallest(a, k)
          IN  IF s = k THEN a ELSE down[<<swap(a, k, s), s>>]
    IN  down[<<h, i>>]

--------------------------------------------------------------------------------
Push(x) ==
    /\ Len(heap) < MaxHeap
    /\ heap' = bubbleUp(Append(heap, x), Len(heap) + 1)
    /\ UNCHANGED popped

PopEmpty ==
    /\ heap = <<>>
    /\ popped' = Nothing
    /\ UNCHANGED heap

(* The last item takes the place of the first, unless it is the first.     *)
Pop ==
    /\ heap # <<>>
    /\ popped' = Head(heap)
    /\ heap' = IF Len(heap) = 1 THEN <<>>
               ELSE sinkDown([Front(heap) EXCEPT ![1] = Last(heap)], 1)

Clear == heap' = <<>> /\ UNCHANGED popped

HeapNext == PopEmpty \/ Pop \/ Clear \/ \E x \in Items : Push(x)

HeapSpec == HeapInit /\ [][HeapNext]_queueVars

--------------------------------------------------------------------------------
Contents == INSTANCE PriorityBag WITH
                bag       <- ToBag(heap),
                Less      <- before,
                Undefined <- Nothing

(* Whatever the sequence of pushes and pops, with ties and duplicates, the *)
(* heap is a priority queue: pop returns a least item and loses none.      *)
ImplementsPriorityBag == Contents!Spec
================================================================================
