---------------------------- MODULE MCMatchCache ----------------------------
(* Small instances of MatchCache for TLC.                                   *)
EXTENDS MatchCacheInvariant, TLC

CONSTANTS n1, n2, w1, w2

OnlyMatches == [w \in Writers |-> {"match"}]
AnyRequest == [w \in Writers |-> {"match", "rename", "drop"}]

\* One catalogue editor at a time; the others record matches.
FirstEdits == [w \in Writers |-> IF w = w1 THEN {"rename"}
                                          ELSE {"match"}]

Symmetry == Permutations(Readers) \cup Permutations(Names)
              \cup Permutations(Tournaments)

=============================================================================
