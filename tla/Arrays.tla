------------------------------- MODULE Arrays -------------------------------
(***************************************************************************)
(* The NSMutableArray idioms the program uses, on sequences: appending is  *)
(* Append, indexing is application, and the two helpers below are the      *)
(* filtering loop ("for (x in a) if (test) [b addObject:x]") and           *)
(* removeObject: / removeObjectAtIndex: of one element.                    *)
(***************************************************************************)
EXTENDS Naturals, Sequences

\* The elements of an array, without their order.
Elements(s) == {s[i] : i \in DOMAIN s}

(***************************************************************************)
(* The elements of s that belong to K, in the order of s.  It is SelectSeq *)
(* with the test given as a set, written as a recursive function so that   *)
(* ArraysProofs can reason about it.                                       *)
(***************************************************************************)
Kept(s, K) ==
    LET kept[i \in 0..Len(s)] ==
            IF i = 0 THEN << >>
            ELSE IF s[i] \in K THEN Append(kept[i - 1], s[i])
                               ELSE kept[i - 1]
    IN  kept[Len(s)]

\* s without its i-th element.
Without(s, i) ==
    [j \in 1..(Len(s) - 1) |-> IF j < i THEN s[j] ELSE s[j + 1]]

=============================================================================
