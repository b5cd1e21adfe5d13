---------------------------- MODULE Subsequences ----------------------------
(* The members of a sequence that belong to a set, in their order. *)
EXTENDS Naturals, Sequences

\* Those among the first i members, for every i.
AmongFirst(s, T) ==
    LET at[i \in 0..Len(s)] ==
            IF i = 0 THEN << >> ELSE IF s[i] \in T THEN Append(at[i - 1], s[i]) ELSE at[i - 1]
    IN  at

Among(s, T) == AmongFirst(s, T)[Len(s)]
=============================================================================
