--------------------------- MODULE MCRouterPorts ---------------------------
(* RouterPorts on a small instance. *)
EXTENDS RouterPorts, TLC

\* Browsers are interchangeable.
MCSymmetry == Permutations(Sessions)
=============================================================================
