------------------------------ MODULE Vectors ------------------------------
(***************************************************************************)
(* std::vector as a sequence: the part of it that a condition keeps.       *)
(***************************************************************************)
EXTENDS Naturals, Sequences

\* The elements of s that are in T, in their order: the loop that copies them
\* to a vector `kept`, which then replaces s.
Keep(s, T) ==
    LET keep[n \in 0 .. Len(s)] ==
            IF n = 0 THEN <<>>
            ELSE IF s[n] \in T THEN Append(keep[n - 1], s[n]) ELSE keep[n - 1]
    IN  keep[Len(s)]
=============================================================================
