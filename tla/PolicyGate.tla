----------------------------- MODULE PolicyGate -----------------------------
(***************************************************************************)
(* Requests judged by policy and the evidence of it: one broker that reads *)
(* a policy file when it starts, decides each request with it, and writes  *)
(* a lifecycle event for every decision, approval and execution.           *)
(*                                                                         *)
(* The operator may start the broker again with another file.  What waits  *)
(* for approval or is approved outlives that; denial counts do as far as a *)
(* save came after them.  Saves and ledger writes succeed here: their      *)
(* faults are in ApprovalGate, with tokens, expiry and rate limits.  The   *)
(* events of state saves, which no verifier reads, are left out.           *)
(***************************************************************************)
EXTENDS RequestContract, MailPolicy, SequencesExt

CONSTANTS
  Actors,      \* agents
  Approvers,   \* operators with the approval secret
  Pids,        \* proposal identifiers
  Requests,    \* requests agents make
  Files,       \* policy files: rules, threshold, approvers, unknown keys
  None,        \* no proposal, no policy, no actor
  MaxEvents    \* bound on the ledger

ASSUME GateAssumption ==
  /\ \A q \in Requests :
       /\ DOMAIN q = {"action", "fields", "params", "mail", "authority"}
       /\ q.mail \in Mail
       /\ q.authority \in BOOLEAN
  /\ \A f \in Files : f.threshold \in Nat \ {0}
  /\ None \notin Files
  /\ MaxEvents \in Nat

VARIABLES
  policy,     \* the file in force, None when the broker refused to start
  pending,    \* pending_proposals: request and actor
  approvals,  \* approvals: request, actor and used
  denials,    \* denial_counts
  saved,      \* denial_counts in the state store
  locked,     \* lockdown_active, saved whenever it changes
  ledger,     \* lifecycle events
  drafts,     \* drafts the backend made, by proposal
  asked       \* history: each proposal's request, policy and lockdown when made

vars == <<policy, pending, approvals, denials, saved, locked, ledger, drafts, asked>>

-----------------------------------------------------------------------------
Event(type, p, a, status) == [type |-> type, pid |-> p, actor |-> a, status |-> status]

EventTypes == {"received", "pressure", "approved", "executed",
               "lockdown_triggered", "lockdown_reset"}

Statuses == {"ALLOW", "REVIEW_REQUIRED", "DENY", "LOCKDOWN", "APPROVED", "SUCCESS", "ERROR",
             "RESET", "repeated_denial_escalation", "urgency_or_authority_pressure",
             "proposal_mutation_attempt"}

Events == [type: EventTypes, pid: Pids \cup {None}, actor: Actors \cup {None},
           status: Statuses]

Proposal == [request: Requests, actor: Actors]

Approval == [request: Requests, actor: Actors, used: BOOLEAN]

Asked == [request: Requests, policy: Files, locked: BOOLEAN]

ASSUME NoneAssumption == None \notin Approval /\ None \notin Asked

TypeOK ==
  /\ policy \in Files \cup {None}
  /\ pending \in [Pids -> Proposal \cup {None}]
  /\ approvals \in [Pids -> Approval \cup {None}]
  /\ denials \in [Actors -> Nat]
  /\ saved \in [Actors -> Nat]
  /\ locked \in BOOLEAN
  /\ ledger \in Seq(Events)
  /\ drafts \subseteq Pids
  /\ asked \in [Pids -> Asked \cup {None}]

\* validate_rules: no key it does not know, at the top or below, and in its
\* rules no other actions and indicators than those of Rules.  It lowers a
\* listed action before it looks it up, so that any letter case will do.
ValidFile(f) == f.unknown = {} /\ f.rules \in Rules

\* The broker starts on file f.
InForce(f) == IF ValidFile(f) THEN f ELSE None

NoCounts == [a \in Actors |-> 0]

Init ==
  /\ policy \in {InForce(f) : f \in Files}
  /\ pending = [p \in Pids |-> None]
  /\ approvals = [p \in Pids |-> None]
  /\ denials = NoCounts
  /\ saved = NoCounts
  /\ locked = FALSE
  /\ ledger = <<>>
  /\ drafts = {}
  /\ asked = [p \in Pids |-> None]

-----------------------------------------------------------------------------
(***************************************************************************)
(* The events of a decision.                                               *)
(***************************************************************************)

\* _log_proposal_received
Received(p, a, status) == Event("received", p, a, status)

\* _log_proposal_pressure_signals: a repeated denial by the actor's count after
\* the decision, and in what was not let through pressing words, or words of
\* authority in the content or the justification.
Escalation(p, a, status, count) ==
  IF status \in {"DENY", "LOCKDOWN"} /\ count >= 2
  THEN <<Event("pressure", p, a, "repeated_denial_escalation")>> ELSE <<>>

Pressing(p, a, q, status) ==
  IF status # "ALLOW" /\ ("urgency_language" \in q.mail.topics \/ q.authority)
  THEN <<Event("pressure", p, a, "urgency_or_authority_pressure")>> ELSE <<>>

\* What a decided proposal leaves in the ledger: nothing when its event cannot
\* be computed, which raises after the state has changed.
Decided(p, a, q, status, count) ==
  IF Loggable(q)
  THEN <<Received(p, a, status)>> \o Escalation(p, a, status, count) \o Pressing(p, a, q, status)
  ELSE <<>>

(***************************************************************************)
(* propose_action.                                                         *)
(***************************************************************************)

Ready(q) == policy # None /\ Valid(q) /\ Len(ledger) < MaxEvents

\* An unknown action is denied, and in lockdown everything is answered
\* LOCKDOWN; neither makes a proposal.
ProposeWithoutProposal(a, q) ==
  /\ Ready(q)
  /\ \/ /\ q.action \notin Actions
        /\ ledger' = Append(ledger, Received(None, None, "DENY"))
     \/ /\ q.action \in Actions /\ locked
        /\ ledger' = Append(ledger, Received(None, None, "LOCKDOWN"))
  /\ UNCHANGED <<policy, pending, approvals, denials, saved, locked, drafts, asked>>

\* The request becomes proposal p.
NewProposal(p, a, q) ==
  /\ Ready(q) /\ q.action \in Actions /\ ~locked /\ Assessable(q)
  /\ asked[p] = None
  /\ asked' = [asked EXCEPT ![p] = [request |-> q, policy |-> policy, locked |-> locked]]
  /\ UNCHANGED <<policy, approvals, drafts>>

ProposeAllowed(p, a, q) ==
  /\ NewProposal(p, a, q)
  /\ Judge(q.mail, policy.rules) = "ALLOW"
  /\ ledger' = ledger \o Decided(p, a, q, "ALLOW", denials[a])
  /\ UNCHANGED <<pending, denials, saved, locked>>

ProposeReviewed(p, a, q) ==
  /\ NewProposal(p, a, q)
  /\ Judge(q.mail, policy.rules) = "REVIEW_REQUIRED"
  /\ pending' = [pending EXCEPT ![p] = [request |-> q, actor |-> a]]
  /\ saved' = denials
  /\ ledger' = ledger \o Decided(p, a, q, "REVIEW_REQUIRED", denials[a])
  /\ UNCHANGED <<denials, locked>>

AtThreshold(count) == count >= policy.threshold

\* The denial is counted; the one that reaches the threshold locks down, which
\* is logged and saved before the proposal's own event.
ProposeDenied(p, a, q) ==
  LET count == denials[a] + 1
  IN  /\ NewProposal(p, a, q)
      /\ Judge(q.mail, policy.rules) = "DENY"
      /\ denials' = [denials EXCEPT ![a] = count]
      /\ \/ /\ AtThreshold(count)
            /\ locked' = TRUE
            /\ saved' = denials'
            /\ ledger' = Append(ledger, Event("lockdown_triggered", None, a, "LOCKDOWN"))
                         \o Decided(p, a, q, "LOCKDOWN", count)
         \/ /\ ~AtThreshold(count)
            /\ ledger' = ledger \o Decided(p, a, q, "DENY", count)
            /\ UNCHANGED <<saved, locked>>
      /\ UNCHANGED pending

(***************************************************************************)
(* approve_proposal, execute_approved, reset_lockdown, restart.            *)
(***************************************************************************)

\* Mutant of Approve: nothing is logged.
ApproveUnlogged(p, o) ==
  /\ policy # None /\ pending[p] # None /\ Loggable(pending[p].request)
  /\ approvals' = [approvals EXCEPT ![p] =
                     [request |-> pending[p].request, actor |-> pending[p].actor, used |-> FALSE]]
  /\ pending' = [pending EXCEPT ![p] = None]
  /\ saved' = denials
  /\ UNCHANGED <<policy, denials, locked, ledger, drafts, asked>>

\* The approver allowlist is that of the policy now in force.
Approve(p, o) ==
  /\ policy # None
  /\ policy.approvers = {} \/ o \in policy.approvers
  /\ pending[p] # None /\ Loggable(pending[p].request)
  /\ approvals' = [approvals EXCEPT ![p] =
                     [request |-> pending[p].request, actor |-> pending[p].actor, used |-> FALSE]]
  /\ pending' = [pending EXCEPT ![p] = None]
  /\ saved' = denials
  /\ ledger' = Append(ledger, Event("approved", p, pending[p].actor, "APPROVED"))
  /\ UNCHANGED <<policy, denials, locked, drafts, asked>>

\* The approval is consumed whether the backend takes the payload or not; one
\* it takes may still fail.
Execute(p) ==
  /\ policy # None /\ approvals[p] # None /\ ~approvals[p].used
  /\ approvals' = [approvals EXCEPT ![p].used = TRUE]
  /\ \/ /\ BackendTakes(approvals[p].request)
        /\ drafts' = drafts \cup {p}
        /\ ledger' = Append(ledger, Event("executed", p, None, "SUCCESS"))
     \/ /\ BackendTakes(approvals[p].request)
        /\ ledger' = Append(ledger, Event("executed", p, None, "ERROR"))
        /\ UNCHANGED drafts
     \/ /\ ~BackendTakes(approvals[p].request)
        /\ ledger' = Append(ledger, Event("executed", p, None, "DENY"))
        /\ UNCHANGED drafts
  /\ UNCHANGED <<policy, pending, denials, saved, locked, asked>>

\* A request to execute with another hash is refused and leaves a signal.
ExecuteMutated(p) ==
  /\ policy # None /\ approvals[p] # None
  /\ Len(ledger) < MaxEvents
  /\ ledger' = Append(ledger, Event("pressure", p, approvals[p].actor, "proposal_mutation_attempt"))
  /\ UNCHANGED <<policy, pending, approvals, denials, saved, locked, drafts, asked>>

ResetLockdown ==
  /\ policy # None /\ Len(ledger) < MaxEvents
  /\ locked' = FALSE
  /\ denials' = NoCounts
  /\ saved' = NoCounts
  /\ ledger' = Append(ledger, Event("lockdown_reset", None, None, "RESET"))
  /\ UNCHANGED <<policy, pending, approvals, drafts, asked>>

\* Mutant of Restart: lockdown does not outlive the process.
RestartUnlocked(f) ==
  /\ policy' = InForce(f)
  /\ denials' = saved
  /\ locked' = FALSE
  /\ UNCHANGED <<pending, approvals, saved, ledger, drafts, asked>>

\* Another process reads file f and the saved state.
Restart(f) ==
  /\ policy' = InForce(f)
  /\ denials' = saved
  /\ UNCHANGED <<pending, approvals, saved, locked, ledger, drafts, asked>>

Next ==
  \/ \E a \in Actors, q \in Requests :
       \/ ProposeWithoutProposal(a, q)
       \/ \E p \in Pids : ProposeAllowed(p, a, q) \/ ProposeReviewed(p, a, q) \/ ProposeDenied(p, a, q)
  \/ \E p \in Pids, o \in Approvers : Approve(p, o)
  \/ \E p \in Pids : Execute(p) \/ ExecuteMutated(p)
  \/ ResetLockdown
  \/ \E f \in Files : Restart(f)

Spec == Init /\ [][Next]_vars

-----------------------------------------------------------------------------
(***************************************************************************)
(* Safety.                                                                 *)
(***************************************************************************)
IndexOf(type, p) == SelectInSeq(ledger, LAMBDA e : e.type = type /\ e.pid = p)

\* verify_events for one proposal: the first execution comes after a proposal
\* received and an approval.
EvidenceInOrder(p) ==
  LET executed == IndexOf("executed", p)
  IN  executed # 0 => \A t \in {"received", "approved"} : IndexOf(t, p) \in 1..(executed - 1)

\* The broker never writes evidence its own verifier refuses: not across
\* restarts and lockdowns, and not for requests whose events cannot be made.
VerifierAcceptsEvidence == \A p \in Pids : EvidenceInOrder(p)

\* A draft is only made of a request the action catalogue sends to review, under
\* the policy and outside the lockdown it was proposed in, and with the content
\* that was proposed, whatever policy was in force later.
EffectsWereReviewed ==
  \A p \in drafts :
    /\ CatalogVerdict(asked[p].request.mail, asked[p].policy.rules) = "REVIEW_REQUIRED"
    /\ ~asked[p].locked
    /\ approvals[p].request = asked[p].request

\* What the ledger says of lockdown is what holds, also after a restart, so that
\* an operator who inspects the evidence sees why the broker is locked.
LockdownMatchesEvidence ==
  LET last == SelectLastInSeq(ledger, LAMBDA e : e.type \in {"lockdown_triggered", "lockdown_reset"})
  IN  locked <=> last # 0 /\ ledger[last].type = "lockdown_triggered"

\* A tighter policy file never gives a request more than a looser one gave it.
StricterNeverWidens ==
  \A p \in Pids, f \in Files :
    asked[p] # None /\ ValidFile(f) /\ Stricter(f.rules, asked[p].policy.rules)
    => LET m == asked[p].request.mail
       IN  Rank(Judge(m, f.rules)) >= Rank(Judge(m, asked[p].policy.rules))

\* Requests that pass the contract and policy and are no draft to the backend:
\* another action, no recipients, one address where a list is meant, no words.
Unfit(q) ==
  \/ q.action # "create_draft"
  \/ Value(q, "recipients") \in {"null", "empty", "address"}
  \/ Value(q, "content") \in {"null", "blank", "white"}

\* An approval is lost to a refusal of the backend, which looks at the payload
\* after the approval was consumed, exactly when its request was unfit as it
\* was proposed.  Of all values the contract lets through, no other is refused
\* so late, and none of these ever reaches the gog command.
RefusedExactlyIfUnfit ==
  \A i \in 1..Len(ledger) :
    ledger[i].type = "executed"
    => (ledger[i].status = "DENY" <=> Unfit(asked[ledger[i].pid].request))

-----------------------------------------------------------------------------
(***************************************************************************)
(* What the documents promise and the code does not keep.                  *)
(***************************************************************************)

\* Every proposal and its decision is recorded as evidence.
DecisionsRecorded == \A p \in Pids : asked[p] # None => IndexOf("received", p) # 0
=============================================================================
