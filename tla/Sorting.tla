------------------------------ MODULE Sorting ------------------------------
(***************************************************************************)
(* partition_range and counting_sorter on the elements of a partition, in  *)
(* place: by key, a function of the elements.                              *)
(***************************************************************************)
EXTENDS Partition, SequencesExt

(* partition_range, with the elements of key 0 to come first: the pairs of *)
(* elements that are on the wrong sides are swapped, from outside to inside*)
Misplaced(p, first, mid, last, key) ==
  LET wrong == {i \in first .. last - 1 : key[p.elements[i]] = 0 <=> i >= mid}
      low == Ascending({i \in wrong : i < mid})
      high == Reverse(Ascending({i \in wrong : i >= mid}))
  IN [k \in 1 .. Len(low) |-> <<low[k], high[k]>>]
PartitionRange(p, first, last, key) ==
  LET mid == first + Cardinality({i \in first .. last - 1 : key[p.elements[i]] = 0})
  IN FoldLeft(LAMBDA q, s : SwapElements(q, s[1], s[2]), p,
              Misplaced(p, first, mid, last, key))

(* counting_sorter: where the buckets start, and an element that is shifted*)
(* to the first free position of its bucket, with the one from there, and  *)
(* so on until one belongs to the bucket where the cycle began.            *)
BucketStart(p, first, last, key) ==
  [k \in 0 .. n * n |-> first + Cardinality({i \in first .. last - 1 : key[p.elements[i]] < k})]

ShiftCycle(q, i, bucket, key) ==
  LET shift[s \in [p : Partitions, start : [0 .. n * n -> Nat], elem : Indices]] ==
        LET k == key[s.elem]
        IN IF k = bucket
           THEN [s EXCEPT !.p = PutElementOnIndex(s.p, s.elem, i)]
           ELSE shift[[p |-> PutElementOnIndex(s.p, s.elem, s.start[k]),
                       start |-> [s.start EXCEPT ![k] = @ + 1],
                       elem |-> s.p.elements[s.start[k]]]]
  IN shift[[p |-> q.p, start |-> q.start, elem |-> q.p.elements[i]]]

CountingSort(p, first, last, key) ==
  LET start == BucketStart(p, first, last, key)
      Bucket(i) == CHOOSE k \in DOMAIN start :
                     start[k] <= i /\ (k + 1 \in DOMAIN start => i < start[k + 1])
      Place(q, i) ==
        IF key[q.p.elements[i]] = Bucket(i) THEN q ELSE ShiftCycle(q, i, Bucket(i), key)
  IN FoldLeft(Place, [p |-> p, start |-> start],
              [k \in 1 .. last - first |-> first + k - 1]).p
=============================================================================
