------------------------------- MODULE Filters -------------------------------
(***************************************************************************)
(* Selection from a sequence by a set, defined so that it can be reasoned  *)
(* about: SelectSeq with its test as a set.                                *)
(***************************************************************************)
EXTENDS Naturals, Sequences

\* Kept(s, K)[i]: what is left of the first i elements.
Kept(s, K) ==
    LET kept[i \in 0..Len(s)] ==
            IF i = 0 THEN <<>>
            ELSE IF s[i] \in K THEN Append(kept[i - 1], s[i]) ELSE kept[i - 1]
    IN  kept

\* The elements of s that are in K, in order.
Only(s, K) == Kept(s, K)[Len(s)]

=============================================================================
