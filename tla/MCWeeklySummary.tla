-------------------------- MODULE MCWeeklySummary --------------------------
(* Small instances of WeeklySummary for TLC. *)
EXTENDS WeeklySummary, TLC

MCSymmetry ==
    Permutations(Tasks) \cup Permutations(Regenerators) \cup Permutations(Publishers)
=============================================================================
