------------------------------ MODULE MCBackup ------------------------------
EXTENDS Backup, TLC

(* Sessions are interchangeable; used by the runs without liveness. *)
Symmetry == Permutations(Sessions)
=============================================================================
