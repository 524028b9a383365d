----------------------------- MODULE Selections -----------------------------
(***************************************************************************)
(* Two things the code does with slices all over: keep the elements that   *)
(* pass a test, in their order, and sort by a key. The test comes as the   *)
(* set of the elements that pass, the key as a number for each index, so   *)
(* that both are functions of values and can be reasoned about once.       *)
(***************************************************************************)
EXTENDS Integers, Sequences, FiniteSets

\* The elements of s that are in S, in order.
Among(s, S) ==
    LET kept[k \in 0..Len(s)] ==
            IF k = 0 THEN <<>>
            ELSE IF s[k] \in S THEN Append(kept[k - 1], s[k])
            ELSE kept[k - 1]
    IN  kept[Len(s)]

\* The place of index k in the order of the keys, equal keys in their order.
Place(keys, k) ==
    Cardinality({j \in DOMAIN keys : keys[j] < keys[k] \/ (keys[j] = keys[k] /\ j <= k)})

\* s in the order of the keys, smallest first.
SortedBy(s, keys) == [n \in DOMAIN s |-> s[CHOOSE k \in DOMAIN s : Place(keys, k) = n]]

=============================================================================
