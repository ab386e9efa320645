--------------------------- MODULE MCApprovalGate ---------------------------
(* Small instances of ApprovalGate for TLC. *)
EXTENDS ApprovalGate, TLC

\* Proposals are interchangeable: no definition chooses or orders them.
Symmetry == Permutations(Pids)
=============================================================================
