----------------------------- MODULE MailPolicy -----------------------------
(***************************************************************************)
(* Policy evaluation (VMGAPolicy): a request m judged by the rules r of a  *)
(* policy file.  Of a request, policy sees                                 *)
(*   action, length (of its content), justified (a justification is given) *)
(*   topics   the content risks whose terms occur in the content           *)
(*   to       the domains of the recipients, in order                      *)
(*   sender   the sender's domain                                          *)
(* NoDomain is the domain of an address without an "@".                    *)
(***************************************************************************)
EXTENDS Integers, Sequences

CONSTANTS
  Domains,    \* mail domains
  NoDomain,   \* the empty domain
  OtherCase,  \* names of actions in other than lower case letters
  BulkLimit   \* recipients above which an operation is bulk: 10

NonKinetic == {"read", "summarize", "classify", "extract_entities", "recommend_draft"}

\* Actions whose approval a policy file can switch; approval_required may name
\* three more, which nothing reads.
Switchable == {"create_draft", "archive", "apply_label", "send", "forward", "delete"}

Kinetic == Switchable \cup {"download_attachment", "mark_read", "move"}

Actions == NonKinetic \cup Kinetic

ASSUME PolicyAssumption ==
  /\ NoDomain \in Domains
  /\ BulkLimit \in Nat
  /\ OtherCase \cap Actions = {}

Outbound == {"send", "forward"}

\* Risks found in the content.
Topics == {"payment_mention", "urgency_language", "credential_request",
           "mfa_recovery", "secrecy_instructions", "legal_threat"}

\* VALID_RISK_INDICATORS; nothing ever sets suspicious_attachment.
Indicators == Topics \cup {"bulk_operation", "unknown_sender", "external_recipient",
                           "suspicious_attachment"}

Baselines == {"financial", "credential", "mfa", "bulk"}

Mail == [action: Actions, topics: SUBSET Topics, length: Nat, justified: BOOLEAN,
         to: Seq(Domains), sender: Domains]

\* What a file lists is compared with an action's name as it is written:
\* evaluate finds no action in a name of OtherCase.
Listed == SUBSET (Actions \cup OtherCase)

Rules == [allowed: Listed,                  \* empty: every action
          denied: Listed,
          approval: [Switchable -> BOOLEAN],
          kineticApproval: BOOLEAN,         \* for the other kinetic actions
          baselines: SUBSET Baselines,
          maxLength: Nat,
          requireJustification: BOOLEAN,
          allowExternalDrafts: BOOLEAN,
          externalDeny: BOOLEAN,
          internal: SUBSET Domains,
          highRisk: SUBSET Indicators]

-----------------------------------------------------------------------------
\* evaluate_content_risk
Flags(m, r) ==
  m.topics
  \cup (IF Len(m.to) > BulkLimit THEN {"bulk_operation"} ELSE {})
  \cup (IF m.sender \notin r.internal THEN {"unknown_sender"} ELSE {})
  \cup (IF \E i \in 1..Len(m.to) : m.to[i] \notin r.internal THEN {"external_recipient"} ELSE {})

\* Mutant of RequiresApproval: the switch is read the wrong way round.
RequiresApprovalInverted(a, r) == IF a \in Switchable THEN ~r.approval[a] ELSE r.kineticApproval

RequiresApproval(a, r) == IF a \in Switchable THEN r.approval[a] ELSE r.kineticApproval

\* When each rule of evaluate applies, were it reached.
Applies(m, r) ==
  LET f        == Flags(m, r)
      draft    == m.action = "create_draft"
      outbound == m.action \in Outbound
      approval == RequiresApproval(m.action, r)
  IN [not_allowed         |-> r.allowed # {} /\ m.action \notin r.allowed,
      explicit_deny       |-> m.action \in r.denied,
      baseline_credential |-> "credential" \in r.baselines /\ "credential_request" \in f
                              /\ (draft \/ outbound),
      baseline_mfa        |-> "mfa" \in r.baselines /\ "mfa_recovery" \in f /\ outbound,
      baseline_bulk       |-> "bulk" \in r.baselines /\ "bulk_operation" \in f /\ outbound,
      baseline_financial  |-> "financial" \in r.baselines /\ "payment_mention" \in f /\ outbound,
      non_kinetic_allow   |-> m.action \in NonKinetic,
      draft_length        |-> draft /\ m.length > r.maxLength,
      draft_external      |-> draft /\ ~r.allowExternalDrafts /\ "external_recipient" \in f,
      draft_justification |-> draft /\ approval /\ r.requireJustification /\ ~m.justified,
      external_recipient  |-> r.externalDeny /\ "external_recipient" \in f /\ outbound,
      high_risk_review    |-> approval /\ r.highRisk \cap f # {},
      approval_required   |-> approval,
      auto_allow          |-> TRUE]

\* Mutant of Order: the rule for external drafts comes after the approval rules.
OrderDraftExternalLast ==
         <<"not_allowed", "explicit_deny", "baseline_credential", "baseline_mfa",
           "baseline_bulk", "baseline_financial", "non_kinetic_allow", "draft_length",
           "draft_justification", "external_recipient", "high_risk_review",
           "approval_required", "draft_external", "auto_allow">>

\* The order in which evaluate tries its rules.
Order == <<"not_allowed", "explicit_deny", "baseline_credential", "baseline_mfa",
           "baseline_bulk", "baseline_financial", "non_kinetic_allow", "draft_length",
           "draft_external", "draft_justification", "external_recipient",
           "high_risk_review", "approval_required", "auto_allow">>

\* evaluate: the first rule that applies.
FirstRule(m, r) ==
  LET applies == Applies(m, r)
  IN  Order[CHOOSE i \in 1..Len(Order) :
              /\ applies[Order[i]]
              /\ \A j \in 1..(i - 1) : ~applies[Order[j]]]

\* propose_action: the status of each rule.
Judge(m, r) ==
  LET rule == FirstRule(m, r)
  IN  CASE rule \in {"non_kinetic_allow", "auto_allow"} -> "ALLOW"
        [] rule \in {"draft_justification", "high_risk_review", "approval_required"} -> "REVIEW_REQUIRED"
        [] OTHER -> "DENY"

-----------------------------------------------------------------------------
(***************************************************************************)
(* What the action catalogue says, without an order of rules.              *)
(***************************************************************************)
Forbidden(m, r) ==
  LET f == Flags(m, r)
  IN  \/ r.allowed # {} /\ m.action \notin r.allowed
      \/ m.action \in r.denied
      \/ /\ m.action \in Outbound
         /\ \/ "mfa" \in r.baselines /\ "mfa_recovery" \in f
            \/ "bulk" \in r.baselines /\ "bulk_operation" \in f
            \/ "financial" \in r.baselines /\ "payment_mention" \in f
            \/ r.externalDeny /\ "external_recipient" \in f
      \/ /\ m.action \in Outbound \cup {"create_draft"}
         /\ "credential" \in r.baselines /\ "credential_request" \in f
      \/ /\ m.action = "create_draft"
         /\ \/ m.length > r.maxLength
            \/ ~r.allowExternalDrafts /\ "external_recipient" \in f

\* Denied when some rule forbids it; if not, reads go through and the rest
\* waits for approval as far as the file asks for it.
CatalogVerdict(m, r) ==
  IF Forbidden(m, r) THEN "DENY"
  ELSE IF m.action \in Kinetic /\ RequiresApproval(m.action, r) THEN "REVIEW_REQUIRED"
  ELSE "ALLOW"

\* r asks for no less than s in every field.  An empty allowlist allows
\* everything, so that taking its last action out is no tightening; a name of
\* OtherCase on a list allows and denies nothing.
Stricter(r, s) ==
  /\ r.allowed \cap Actions \subseteq s.allowed \/ s.allowed = {}
  /\ r.allowed = {} => s.allowed = {}
  /\ s.denied \cap Actions \subseteq r.denied
  /\ s.baselines \subseteq r.baselines
  /\ \A a \in Switchable : s.approval[a] => r.approval[a]
  /\ s.kineticApproval => r.kineticApproval
  /\ r.maxLength =< s.maxLength
  /\ r.allowExternalDrafts => s.allowExternalDrafts
  /\ s.externalDeny => r.externalDeny
  /\ r.internal \subseteq s.internal

Rank(verdict) == CASE verdict = "ALLOW" -> 0
                   [] verdict = "REVIEW_REQUIRED" -> 1
                   [] OTHER -> 2
=============================================================================
