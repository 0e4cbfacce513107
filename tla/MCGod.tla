-------------------------------- MODULE MCGod -------------------------------
(* Small instances of God for TLC. *)
EXTENDS God, TLC

Symmetry == Permutations(Threads) \cup Permutations(Objects)

=============================================================================
