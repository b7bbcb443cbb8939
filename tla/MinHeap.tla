------------------------------ MODULE MinHeap ------------------------------
(***************************************************************************)
(* luaclib/minheap.c, the binary heap of open nodes of the path finders.   *)
(* h.elts is the array, from 1 on; h.index[e] is elt->index, 0 outside the *)
(* heap.  less compares key[e].  minheap_delete has no caller.             *)
(***************************************************************************)
EXTENDS Naturals, Sequences

minheap_create(elements) == [elts |-> <<>>, index |-> [e \in elements |-> 0]]

Swap(h, i, j) ==
  LET a == h.elts[i]
      b == h.elts[j]
  IN [elts |-> [h.elts EXCEPT ![i] = b, ![j] = a],
      index |-> [h.index EXCEPT ![b] = i, ![a] = j]]

\* Fault: less with its sides exchanged.
RECURSIVE UpLargest(_, _, _)
UpLargest(h, key, i) ==
  IF i > 1 /\ key[h.elts[i]] > key[h.elts[i \div 2]]
  THEN UpLargest(Swap(h, i, i \div 2), key, i \div 2)
  ELSE h

RECURSIVE up(_, _, _)
up(h, key, i) ==
  IF i > 1 /\ key[h.elts[i]] < key[h.elts[i \div 2]]
  THEN up(Swap(h, i, i \div 2), key, i \div 2)
  ELSE h

\* the smaller one of the entries i and j, i when j is none
Smaller(h, key, i, j) ==
  IF j <= Len(h.elts) /\ key[h.elts[j]] < key[h.elts[i]] THEN j ELSE i

RECURSIVE down(_, _, _)
down(h, key, i) ==
  LET min == Smaller(h, key, Smaller(h, key, i, 2 * i), 2 * i + 1)
  IN IF min = i THEN h ELSE down(Swap(h, i, min), key, min)

minheap_change(h, key, e) ==
  LET moved == down(h, key, h.index[e])
  IN IF moved.index[e] = h.index[e] THEN up(moved, key, moved.index[e]) ELSE moved

minheap_push(h, key, e) ==
  IF h.index[e] # 0
  THEN minheap_change(h, key, e)
  ELSE up([elts |-> Append(h.elts, e), index |-> [h.index EXCEPT ![e] = Len(h.elts) + 1]],
          key, Len(h.elts) + 1)

\* the heap after its first entry is gone
minheap_pop(h, key) ==
  LET last == Swap(h, 1, Len(h.elts))
      cut == [elts |-> SubSeq(last.elts, 1, Len(h.elts) - 1),
              index |-> [last.index EXCEPT ![h.elts[1]] = 0]]
  IN IF cut.elts = <<>> THEN cut ELSE down(cut, key, 1)
=============================================================================
