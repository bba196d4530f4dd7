----------------------------- MODULE MCRetrieval -----------------------------
(* Small instances of Retrieval for TLC. *)
EXTENDS RetrievalRefinement, TLC

CONSTANTS legacy, new, rival, a, b, s1, s2, w1, w2

MCCanonical == [p \in Profiles |-> IF p = legacy THEN new ELSE p]
OneText == {<<>>, <<a, b>>}
ShortTexts == {<<>>, <<a>>}
Shown == [eligible |-> TRUE, shown |-> TRUE, expires |-> "never"]
Ending == [eligible |-> TRUE, shown |-> TRUE, expires |-> "future"]
Private == [eligible |-> TRUE, shown |-> FALSE, expires |-> "never"]
Draft == [eligible |-> FALSE, shown |-> TRUE, expires |-> "never"]
FenceFlags == {Ending, Draft}
ShownFlags == {Shown}
SearchFlags == {Shown, Private}

Symmetry == Permutations({w1, w2}) \cup Permutations({s1, s2})
=============================================================================
