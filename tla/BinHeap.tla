------------------------------ MODULE BinHeap ------------------------------
(***************************************************************************)
(* The heap of src/src/util/binheap.c: an array, here a sequence counted     *)
(* from 1, of uint32_t values compared with <.                               *)
(***************************************************************************)
EXTENDS Integers, Sequences

Swap(arr, i, j) == [arr EXCEPT ![i] = arr[j], ![j] = arr[i]]
ArrayMin(arr, i, j) == IF arr[j] < arr[i] THEN j ELSE i

\* push_down: the element at index moves towards the root.
RECURSIVE PushDown(_, _)
PushDown(arr, index) ==
    LET next == index \div 2
    IN  IF index = 1 THEN arr
        ELSE IF arr[index] < arr[next] THEN PushDown(Swap(arr, index, next), next)
        ELSE arr

\* binheap_insert, which leaves a full heap alone and says so.
BinheapInsert(heap, capacity, v) ==
    IF Len(heap) = capacity THEN heap
    ELSE PushDown(Append(heap, v), Len(heap) + 1)

BinheapPeek(heap) == heap[1]

\* binheap_pop: the last element becomes the root and sinks.
RECURSIVE Sink(_, _)
Sink(arr, index) ==
    LET left == 2 * index
        small == ArrayMin(arr, index, left)
        min == IF left + 1 <= Len(arr) THEN ArrayMin(arr, small, left + 1) ELSE small
    IN  IF left > Len(arr) THEN arr
        ELSE IF min # index THEN Sink(Swap(arr, index, min), min)
        ELSE arr
BinheapPop(heap) ==
    LET last == Len(heap)
    IN  Sink(SubSeq(Swap(heap, 1, last), 1, last - 1), 1)

\* What the callers rely on: no element is smaller than its parent.
IsHeap(arr) == \A i \in 2..Len(arr) : arr[i \div 2] <= arr[i]
=============================================================================
