--------------------------- MODULE MCShareManager ---------------------------
(***************************************************************************)
(* Instances of ShareManager for TLC.                                      *)
(***************************************************************************)
EXTENDS ShareManager, TLC

CONSTANTS p2, p3, addr1, addr2

MCSlots == {p2, p3}
MCCallers == {addr1, addr2}

\* Slots are interchangeable, and so are callers.
MCSymmetry == Permutations(MCSlots) \cup Permutations(MCCallers)

\* With saves that fail an activation may come back from an old file, so the two
\* history counters are no longer bounded by the counts they watch.
MCHistoryBound == \A i \in Ids : guesses[i] <= MaxPinFailures /\ issued[i] <= MaxCookies
=============================================================================
