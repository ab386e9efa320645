------------------------------- MODULE Posture ------------------------------
(***************************************************************************)
(* Deployments of the broker: with which settings it starts, and what the  *)
(* posture self-check says of one that runs.                               *)
(*                                                                         *)
(* A deployment is what the command line and the environment set:          *)
(*   privilege       "user", "root" or "unknown"                           *)
(*   loopback        the host is a loopback host                           *)
(*   token           the bearer token variable is set                      *)
(*   unauthenticated --allow-unauthenticated                               *)
(*   backend         "fake", "gog-agent-safe" or another gog binary "gog"  *)
(*   auth            "hmac" or "signature"                                 *)
(*   secret, keys    the approval secret is set; a public key file is given*)
(*   keyring         the kinds of its entries: "active", "inactive", "bad" *)
(*   hmac            which of the two evidence variables are set           *)
(*   rotation        --ledger-rotate-bytes is not 0                        *)
(*   roots           --agent-root is given                                 *)
(*   exposed         the paths under an agent root                         *)
(*   gogHome         --gog-home is given                                   *)
(*   attested        the direct-bypass attestation with its evidence       *)
(***************************************************************************)
Paths == {"policy_path", "state_path", "ledger_path"}

EvidenceVariables == {"key", "key_id"}

Deployment ==
  [privilege: {"user", "root", "unknown"}, loopback: BOOLEAN, token: BOOLEAN,
   unauthenticated: BOOLEAN, backend: {"fake", "gog-agent-safe", "gog"},
   auth: {"hmac", "signature"}, secret: BOOLEAN, keys: BOOLEAN,
   keyring: SUBSET {"active", "inactive", "bad"}, hmac: SUBSET EvidenceVariables,
   rotation: BOOLEAN, roots: BOOLEAN, exposed: SUBSET (Paths \cup {"gog_home"}),
   gogHome: BOOLEAN, attested: BOOLEAN]

\* broker_main serves: every early return and raising constructor is passed.
Starts(d) ==
  /\ d.auth = "hmac" => d.secret
  /\ d.auth = "signature" => d.keys
  /\ d.hmac \in {{}, EvidenceVariables}
  /\ ~d.loopback => d.token /\ ~d.unauthenticated
  /\ d.token \/ d.unauthenticated

\* _evidence_integrity_mode_from_env
IntegrityMode(d) ==
  CASE d.hmac = EvidenceVariables -> "hmac_chain"
    [] d.hmac = {} -> "append_only"
    [] OTHER -> "misconfigured_hmac_chain"

\* _compute_signature_readiness: keys are there, all of them parse as Ed25519
\* and one is active.
SignatureReady(d) == "active" \in d.keyring /\ "bad" \notin d.keyring

ChainStatus(verdict) ==
  CASE verdict = "verified_intact"   -> "pass"
    [] verdict = "verified_tampered" -> "fail"
    [] OTHER                         -> "unknown"

\* assess_posture: the status of each check, with the verdict on the chain.  In
\* a local assessment there is no readiness signal and the mode is "hmac".
Checks(d, verdict) ==
  [process_privilege   |-> CASE d.privilege = "user" -> "pass"
                             [] d.privilege = "root" -> "warn"
                             [] OTHER -> "unknown",
   broker_auth         |-> IF d.token THEN "pass"
                           ELSE IF d.unauthenticated /\ d.loopback THEN "warn" ELSE "fail",
   mailbox_backend     |-> IF d.backend = "gog-agent-safe" THEN "pass" ELSE "warn",
   approval_boundary   |-> IF d.auth = "signature" /\ SignatureReady(d) THEN "pass" ELSE "warn",
   evidence_integrity  |-> CASE IntegrityMode(d) = "hmac_chain" -> ChainStatus(verdict)
                             [] IntegrityMode(d) = "append_only" -> "warn"
                             [] OTHER -> "unknown",
   path_isolation      |-> IF ~d.roots THEN "unknown"
                           ELSE IF d.exposed \cap Paths # {} THEN "warn" ELSE "pass",
   gog_home            |-> IF d.backend = "fake" THEN "pass"
                           ELSE IF ~d.gogHome THEN "unknown"
                           ELSE IF d.roots /\ "gog_home" \in d.exposed THEN "warn" ELSE "pass",
   evidence_rotation   |-> IF d.rotation THEN "pass" ELSE "warn",
   direct_gmail_bypass |-> IF d.attested THEN "pass" ELSE "unknown"]

StatusesOf(checks) == {checks[c] : c \in DOMAIN checks}

\* Mutant of Mode: unknowns do not count.
ModeUnknownPasses(d, verdict) ==
  IF StatusesOf(Checks(d, verdict)) \subseteq {"pass", "unknown"}
  THEN "hard_enforcement_ready" ELSE "advisory"

\* A failure outweighs an unknown, and an unknown a warning.
Mode(d, verdict) ==
  LET statuses == StatusesOf(Checks(d, verdict))
  IN  IF statuses = {"pass"} THEN "hard_enforcement_ready"
      ELSE IF "fail" \notin statuses /\ "unknown" \in statuses THEN "cannot_determine"
      ELSE "advisory"
=============================================================================
