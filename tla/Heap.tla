-------------------------------- MODULE Heap --------------------------------
(***************************************************************************)
(* The heap of open polygons of the path finder (MeshNavigate/Heap.cpp):   *)
(* a sequence, heap[i + 1] being m_polygons[i] of the code, ordered by     *)
(* cost.  ShiftUp takes index \div 2 as the parent of index, ShiftDown     *)
(* takes 2 * index + 1 and 2 * index + 2 as its children: the two orders   *)
(* are not the same, so nothing here promises that the first is the least. *)
(***************************************************************************)
EXTENDS Integers, Sequences

Swapped(heap, i, j) == [heap EXCEPT ![i + 1] = heap[j + 1], ![j + 1] = heap[i + 1]]

\* A shift is followed as a heap and the index of the polygon that moves; up
\* it is at the first place at the latest after index exchanges, down it has no
\* children left after as many as there are polygons.
At(heap, index) == [heap |-> heap, index |-> index]
Exchange(s, index) == At(Swapped(s.heap, s.index, index), index)

Rise(s, cost) ==
    LET parent == s.index \div 2
    IN  IF s.index > 0 /\ cost[s.heap[s.index + 1]] <= cost[s.heap[parent + 1]]
        THEN Exchange(s, parent)
        ELSE s

ShiftUp(heap, cost, index) ==
    LET risen[n \in 0..index] == IF n = 0 THEN At(heap, index) ELSE Rise(risen[n - 1], cost)
    IN  risen[index].heap

Sink(s, cost) ==
    LET Cost(i)  == cost[s.heap[i + 1]]
        children == {i \in {2 * s.index + 1, 2 * s.index + 2} : i < Len(s.heap)}
        least    == CHOOSE i \in children :
                      \A j \in children : Cost(i) < Cost(j) \/ (Cost(i) = Cost(j) /\ i <= j)
    IN  IF children = {} \/ Cost(s.index) <= Cost(least) THEN s ELSE Exchange(s, least)

ShiftDown(heap, cost, index) ==
    LET sunk[n \in 0..Len(heap)] == IF n = 0 THEN At(heap, index) ELSE Sink(sunk[n - 1], cost)
    IN  sunk[Len(heap)].heap

Push(heap, cost, polygon) == ShiftUp(Append(heap, polygon), cost, Len(heap))

Modify(heap, cost, polygon) ==
    LET found == {i \in DOMAIN heap : heap[i] = polygon}
    IN  IF found = {} THEN heap
        ELSE ShiftUp(heap, cost, (CHOOSE i \in found : \A j \in found : i <= j) - 1)

\* Mutant of Popped: the last polygon is put first and stays last.
PoppedKeepsLast(heap, cost) == ShiftDown(<<heap[Len(heap)]>> \o Tail(heap), cost, 0)

\* What is left when the first polygon is taken.
Popped(heap, cost) ==
    IF Len(heap) = 1 THEN <<>>
    ELSE ShiftDown(<<heap[Len(heap)]>> \o SubSeq(heap, 2, Len(heap) - 1), cost, 0)
=============================================================================
