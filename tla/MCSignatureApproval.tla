------------------------ MODULE MCSignatureApproval ------------------------
(* Small instances of SignatureApproval for TLC. *)
EXTENDS SignatureApproval
=============================================================================
