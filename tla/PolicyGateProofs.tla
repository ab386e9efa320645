--------------------------- MODULE PolicyGateProofs --------------------------
(***************************************************************************)
(* Theorems about policy evaluation, for all mails and policy files, and   *)
(* about PolicyGate, for all requests, policy files, actors and approvers. *)
(***************************************************************************)
EXTENDS PolicyGate, WellFoundedInduction, TLAPS

-----------------------------------------------------------------------------
(***************************************************************************)
(* Numbers.                                                                *)
(***************************************************************************)

\* A set of natural numbers that is not empty has a least element.
LEMMA LeastElement ==
  ASSUME NEW T \in SUBSET Nat, T # {}
  PROVE  \E x \in T : \A y \in T : x =< y
<1> DEFINE Less == {p \in Nat \X Nat : p[1] < p[2]}
<1>1. IsWellFoundedOn(Less, Nat)
  BY NatLessThanWellFounded DEF OpToRel
<1>2. \A x, y \in T : <<y, x>> \notin Less => x =< y
  OBVIOUS
<1> HIDE DEF Less
<1>3. PICK x \in T : \A y \in T : <<y, x>> \notin Less
  BY <1>1, WFMin
<1> QED
  BY <1>2, <1>3

\* A set of naturals with a bound has a greatest element.
LEMMA GreatestElement ==
  ASSUME NEW n \in Nat, NEW T \in SUBSET (1..n), T # {}
  PROVE  \E x \in T : \A y \in T : x >= y
<1> DEFINE D == {n - x : x \in T}
<1>1. D \in SUBSET Nat /\ D # {}
  <2>1. \A x \in T : n - x \in Nat
    OBVIOUS
  <2> QED
    BY <2>1
<1>2. PICK d \in D : \A e \in D : d =< e
  BY <1>1, LeastElement
<1>3. PICK x \in T : d = n - x
  OBVIOUS
<1>4. \A y \in T : n - x =< n - y
  BY <1>2, <1>3
<1> QED
  BY <1>4

-----------------------------------------------------------------------------
(***************************************************************************)
(* Policy evaluation.                                                      *)
(***************************************************************************)

\* evaluate returns at one of its fourteen rules: it applies, and none before it
\* does.
LEMMA FirstRuleApplies ==
  ASSUME NEW m, NEW r
  PROVE  \E i \in 1..14 :
           /\ FirstRule(m, r) = Order[i]
           /\ Applies(m, r)[Order[i]]
           /\ \A j \in 1..(i - 1) : ~Applies(m, r)[Order[j]]
<1> DEFINE applies == Applies(m, r)
           T == {i \in 1..14 : applies[Order[i]]}
           First(i) == applies[Order[i]] /\ \A j \in 1..(i - 1) : ~applies[Order[j]]
<1>1. Len(Order) = 14
  BY DEF Order
<1>2. applies[Order[14]]
  BY DEF Order, Applies
<1>3. PICK x \in T : \A y \in T : x =< y
  <2>1. T \in SUBSET Nat /\ T # {}
    BY <1>2
  <2> QED
    BY <2>1, LeastElement
<1>4. x \in 1..Len(Order) /\ First(x)
  BY <1>1, <1>3
<1> DEFINE i == CHOOSE k \in 1..Len(Order) : First(k)
<1>5. i \in 1..Len(Order) /\ First(i)
  BY <1>4
<1>6. FirstRule(m, r) = Order[i]
  BY DEF FirstRule
<1> QED
  BY <1>1, <1>5, <1>6

\* The order of the rules adds nothing to what each of them says: the verdict on
\* every request under every policy file is that of the action catalogue.
THEOREM JudgeIsCatalogVerdict ==
  ASSUME NEW m \in Mail, NEW r \in Rules
  PROVE  Judge(m, r) = CatalogVerdict(m, r)
<1> DEFINE a == Applies(m, r)
           approval == RequiresApproval(m.action, r)
<1>1. PICK i \in 1..14 :
        /\ FirstRule(m, r) = Order[i]
        /\ a[Order[i]]
        /\ \A j \in 1..(i - 1) : ~a[Order[j]]
  BY FirstRuleApplies
<1>2. m.action \in Actions /\ approval \in BOOLEAN
  BY DEF Mail, Rules, RequiresApproval
<1>3. Forbidden(m, r) <=>
        \/ a.not_allowed \/ a.explicit_deny \/ a.baseline_credential \/ a.baseline_mfa
        \/ a.baseline_bulk \/ a.baseline_financial \/ a.draft_length \/ a.draft_external
        \/ a.external_recipient
  BY DEF Applies, Forbidden, Outbound
<1>4. /\ a.non_kinetic_allow <=> m.action \notin Kinetic
      /\ a.draft_length \/ a.draft_external \/ a.external_recipient => m.action \in Kinetic
      /\ a.draft_justification => approval /\ ~a.external_recipient
      /\ a.high_risk_review => approval
      /\ a.approval_required <=> approval
  BY <1>2 DEF Applies, Actions, NonKinetic, Kinetic, Switchable, Outbound
<1> HIDE DEF a, approval
<1>5. CatalogVerdict(m, r) =
        IF Forbidden(m, r) THEN "DENY"
        ELSE IF m.action \in Kinetic /\ approval THEN "REVIEW_REQUIRED" ELSE "ALLOW"
  BY DEF CatalogVerdict, approval
<1>6. CASE i \in 1..6
  <2>1. Judge(m, r) = "DENY"
    BY <1>1, <1>6 DEF Judge, Order
  <2>2. Forbidden(m, r)
    BY <1>1, <1>3, <1>6 DEF Order
  <2> QED
    BY <2>1, <2>2, <1>5
<1>7. CASE i = 7
  <2>1. Judge(m, r) = "ALLOW"
    BY <1>1, <1>7 DEF Judge, Order
  <2>2. m.action \notin Kinetic
    BY <1>1, <1>4, <1>7 DEF Order
  <2>3. ~Forbidden(m, r)
    BY <1>1, <1>3, <1>4, <1>7, <2>2 DEF Order
  <2> QED
    BY <2>1, <2>2, <2>3, <1>5
<1>8. CASE i \in {8, 9, 11}
  <2>1. Judge(m, r) = "DENY"
    BY <1>1, <1>8 DEF Judge, Order
  <2>2. Forbidden(m, r)
    BY <1>1, <1>3, <1>8 DEF Order
  <2> QED
    BY <2>1, <2>2, <1>5
<1>9. CASE i \in {10, 12, 13}
  <2>1. Judge(m, r) = "REVIEW_REQUIRED"
    BY <1>1, <1>9 DEF Judge, Order
  <2>2. m.action \in Kinetic /\ approval
    BY <1>1, <1>4, <1>9 DEF Order
  <2>3. ~Forbidden(m, r)
    BY <1>1, <1>3, <1>4, <1>9 DEF Order
  <2> QED
    BY <2>1, <2>2, <2>3, <1>5
<1>10. CASE i = 14
  <2>1. Judge(m, r) = "ALLOW"
    BY <1>1, <1>10 DEF Judge, Order
  <2>2. ~approval
    BY <1>1, <1>4, <1>10 DEF Order
  <2>3. ~Forbidden(m, r)
    BY <1>1, <1>3, <1>10 DEF Order
  <2> QED
    BY <2>1, <2>2, <2>3, <1>5
<1> QED
  BY <1>1, <1>6, <1>7, <1>8, <1>9, <1>10

\* A tighter policy file judges no request more mildly than a looser one.
THEOREM StricterJudgesNoMilder ==
  ASSUME NEW m \in Mail, NEW r \in Rules, NEW s \in Rules, Stricter(r, s)
  PROVE  Rank(Judge(m, r)) >= Rank(Judge(m, s))
<1>1. Flags(m, s) \subseteq Flags(m, r)
  BY DEF Flags, Stricter
<1>2. m.action \in Actions
  BY DEF Mail
<1>3. RequiresApproval(m.action, s) => RequiresApproval(m.action, r)
  BY DEF RequiresApproval, Stricter
<1>4. Forbidden(m, s) => Forbidden(m, r)
  BY <1>1, <1>2 DEF Forbidden, Stricter, Mail, Rules
<1>5. Rank(CatalogVerdict(m, r)) >= Rank(CatalogVerdict(m, s))
  BY <1>3, <1>4 DEF Rank, CatalogVerdict
<1> QED
  BY <1>5, JudgeIsCatalogVerdict

-----------------------------------------------------------------------------
(***************************************************************************)
(* The inductive invariant.                                                *)
(***************************************************************************)
Reviewed(p) ==
  /\ Judge(asked[p].request.mail, asked[p].policy.rules) = "REVIEW_REQUIRED"
  /\ ~asked[p].locked

\* Proposal p was made of request q, and policy sent it to review.
Backed(p, q) == asked[p] # None /\ asked[p].request = q /\ Reviewed(p)

\* One of the first n events of l is of this type and proposal.
Recorded(l, type, p, n) == \E i \in 1..n : l[i].type = type /\ l[i].pid = p

ValidWhenUsed ==
  /\ policy # None => ValidFile(policy)
  /\ \A p \in Pids :
       asked[p] # None => Valid(asked[p].request) /\ ValidFile(asked[p].policy)

PendingOK(p) ==
  pending[p] # None =>
    /\ Backed(p, pending[p].request)
    /\ Loggable(pending[p].request) => Recorded(ledger, "received", p, Len(ledger))

ApprovalOK(p) ==
  approvals[p] # None =>
    /\ Backed(p, approvals[p].request)
    /\ Recorded(ledger, "received", p, Len(ledger))
    /\ Recorded(ledger, "approved", p, Len(ledger))

PendingInv == \A p \in Pids : PendingOK(p)

ApprovalsInv == \A p \in Pids : ApprovalOK(p)

DraftsInv == \A p \in drafts : approvals[p] # None

\* An execution in the ledger is one of an approval recorded before it.
ExecutionOK(i) ==
  ledger[i].type = "executed" =>
    /\ ledger[i].pid \in Pids
    /\ approvals[ledger[i].pid] # None
    /\ Recorded(ledger, "received", ledger[i].pid, i - 1)
    /\ Recorded(ledger, "approved", ledger[i].pid, i - 1)
    /\ ledger[i].status = "DENY" <=> ~BackendTakes(asked[ledger[i].pid].request)

ExecutedInv == \A i \in 1..Len(ledger) : ExecutionOK(i)

\* A lockdown was entered and not reset since.
LockdownOpen ==
  \E i \in 1..Len(ledger) :
    /\ ledger[i].type = "lockdown_triggered"
    /\ \A j \in (i + 1)..Len(ledger) : ledger[j].type # "lockdown_reset"

IInv ==
  /\ TypeOK
  /\ ValidWhenUsed
  /\ PendingInv
  /\ ApprovalsInv
  /\ DraftsInv
  /\ ExecutedInv
  /\ locked <=> LockdownOpen

-----------------------------------------------------------------------------
(***************************************************************************)
(* Lemmas about the ledger.                                                *)
(***************************************************************************)

\* Events added to the ledger leave those before them in place.
LEMMA Grown ==
  ASSUME NEW l \in Seq(Events), NEW s \in Seq(Events)
  PROVE  /\ l \o s \in Seq(Events)
         /\ Len(l \o s) = Len(l) + Len(s)
         /\ \A i \in 1..Len(l) : (l \o s)[i] = l[i]
         /\ \A i \in 1..Len(s) : (l \o s)[Len(l) + i] = s[i]
  OBVIOUS

\* Appending an event is adding the sequence of it.
LEMMA AppendIsConcat ==
  ASSUME NEW l \in Seq(Events), NEW e \in Events
  PROVE  Append(l, e) = l \o <<e>> /\ <<e>> \in Seq(Events)
  OBVIOUS

\* The events that no decision writes.
Outside == {"executed", "lockdown_triggered", "lockdown_reset"}

\* What a decision writes: no event of Outside, and first its own event when it
\* can be computed.
LEMMA DecidedEvents ==
  ASSUME NEW p \in Pids, NEW a \in Actors, NEW q, NEW status \in Statuses, NEW count
  PROVE  /\ Decided(p, a, q, status, count) \in Seq(Events)
         /\ \A i \in 1..Len(Decided(p, a, q, status, count)) :
              Decided(p, a, q, status, count)[i].type \notin Outside
         /\ Loggable(q) =>
              /\ Len(Decided(p, a, q, status, count)) >= 1
              /\ Decided(p, a, q, status, count)[1] = Received(p, a, status)
<1> DEFINE r == Received(p, a, status)
           e == Escalation(p, a, status, count)
           u == Pressing(p, a, q, status)
<1>1. r \in Events /\ r.type \notin Outside
  <2>1. r = [type |-> "received", pid |-> p, actor |-> a, status |-> status]
    BY DEF Received, Event
  <2> QED
    BY <2>1 DEF Events, EventTypes, Statuses, Outside
<1>2. e \in Seq(Events) /\ \A i \in 1..Len(e) : e[i].type \notin Outside
  <2> DEFINE d == [type |-> "pressure", pid |-> p, actor |-> a,
                   status |-> "repeated_denial_escalation"]
  <2>1. d \in Events /\ d.type \notin Outside
    BY DEF Events, EventTypes, Statuses, Outside
  <2>2. e = <<d>> \/ e = <<>>
    BY DEF Escalation, Event
  <2> HIDE DEF d, e
  <2>3. CASE e = <<d>>
    <3>1. Len(e) = 1 /\ e[1] = d /\ e \in Seq(Events)
      BY <2>1, <2>3
    <3>2. \A i \in 1..1 : e[i].type \notin Outside
      BY <2>1, <3>1
    <3> QED
      BY <3>1, <3>2
  <2>4. CASE e = <<>>
    BY <2>4
  <2> QED
    BY <2>2, <2>3, <2>4
<1>3. u \in Seq(Events) /\ \A i \in 1..Len(u) : u[i].type \notin Outside
  <2> DEFINE d == [type |-> "pressure", pid |-> p, actor |-> a,
                   status |-> "urgency_or_authority_pressure"]
  <2>1. d \in Events /\ d.type \notin Outside
    BY DEF Events, EventTypes, Statuses, Outside
  <2>2. u = <<d>> \/ u = <<>>
    BY DEF Pressing, Event
  <2> HIDE DEF d, u
  <2>3. CASE u = <<d>>
    <3>1. Len(u) = 1 /\ u[1] = d /\ u \in Seq(Events)
      BY <2>1, <2>3
    <3>2. \A i \in 1..1 : u[i].type \notin Outside
      BY <2>1, <3>1
    <3> QED
      BY <3>1, <3>2
  <2>4. CASE u = <<>>
    BY <2>4
  <2> QED
    BY <2>2, <2>3, <2>4
<1>4. CASE ~Loggable(q)
  <2>1. Decided(p, a, q, status, count) = <<>>
    BY <1>4 DEF Decided
  <2> QED
    BY <2>1, <1>4
<1>5. CASE Loggable(q)
  <2>1. Decided(p, a, q, status, count) = <<r>> \o e \o u
    BY <1>5 DEF Decided
  <2> HIDE DEF r, e, u
  <2>2. /\ <<r>> \o e \in Seq(Events) /\ Len(<<r>> \o e) = 1 + Len(e)
        /\ (<<r>> \o e)[1] = r
        /\ \A i \in 1..Len(e) : (<<r>> \o e)[1 + i] = e[i]
    BY <1>1, <1>2
  <2>3. \A i \in 1..Len(<<r>> \o e) : (<<r>> \o e)[i].type \notin Outside
    <3> TAKE i \in 1..Len(<<r>> \o e)
    <3>1. i = 1 \/ (i - 1 \in 1..Len(e) /\ i = 1 + (i - 1))
      BY <1>2, <2>2
    <3> QED
      BY <3>1, <1>1, <1>2, <2>2
  <2> DEFINE d == <<r>> \o e
  <2> HIDE DEF d
  <2>4. /\ d \o u \in Seq(Events) /\ Len(d \o u) = Len(d) + Len(u)
        /\ \A i \in 1..Len(d) : (d \o u)[i] = d[i]
        /\ \A i \in 1..Len(u) : (d \o u)[Len(d) + i] = u[i]
    BY <1>3, <2>2, Grown DEF d
  <2>5. \A i \in 1..Len(d \o u) : (d \o u)[i].type \notin Outside
    <3> TAKE i \in 1..Len(d \o u)
    <3>1. \/ i \in 1..Len(d)
          \/ i - Len(d) \in 1..Len(u) /\ i = Len(d) + (i - Len(d))
      BY <1>3, <2>2, <2>4 DEF d
    <3> QED
      BY <3>1, <1>3, <2>3, <2>4 DEF d
  <2>6. Len(d \o u) >= 1 /\ (d \o u)[1] = r
    BY <1>2, <1>3, <2>2, <2>4 DEF d
  <2> QED
    BY <2>1, <2>4, <2>5, <2>6 DEF d, r
<1> QED
  BY <1>4, <1>5

\* A step adds s to the ledger, and takes back no approval and nothing asked.
Adds(s) ==
  /\ ledger' = ledger \o s
  /\ \A p \in Pids : asked[p] # None => asked'[p] = asked[p]
  /\ \A p \in Pids : approvals[p] # None => approvals'[p] # None

\* What the ledger held before such a step it holds after.
LEMMA LedgerGrows ==
  ASSUME TypeOK, NEW s \in Seq(Events), Adds(s)
  PROVE  /\ ledger' \in Seq(Events)
         /\ Len(ledger) \in Nat /\ Len(s) \in Nat
         /\ Len(ledger') = Len(ledger) + Len(s)
         /\ \A i \in 1..Len(ledger) : ledger'[i] = ledger[i]
         /\ \A i \in 1..Len(s) : ledger'[Len(ledger) + i] = s[i]
         /\ \A i \in 1..Len(ledger') :
              \/ i \in 1..Len(ledger)
              \/ i - Len(ledger) \in 1..Len(s) /\ ledger'[i] = s[i - Len(ledger)]
<1>1. ledger \in Seq(Events) /\ ledger' = ledger \o s
  BY DEF TypeOK, Adds
<1> QED
  BY <1>1, Grown

LEMMA RecordedStays ==
  ASSUME TypeOK, NEW s \in Seq(Events), Adds(s), NEW p, NEW n \in 0..Len(ledger), NEW k \in Nat, n =< k
  PROVE  /\ Recorded(ledger, "received", p, n) => Recorded(ledger', "received", p, k)
         /\ Recorded(ledger, "approved", p, n) => Recorded(ledger', "approved", p, k)
<1>1. \A i \in 1..n : i \in 1..Len(ledger) /\ i \in 1..k
  BY LedgerGrows
<1>2. \A i \in 1..n : ledger'[i] = ledger[i]
  BY <1>1, LedgerGrows
<1> QED
  BY <1>1, <1>2 DEF Recorded

\* A proposal that waits, or is approved, and is left alone stays as it is.
LEMMA ProposalStays ==
  ASSUME IInv, NEW s \in Seq(Events), Adds(s), NEW p \in Pids
  PROVE  /\ pending'[p] = pending[p] => PendingOK(p)'
         /\ approvals'[p] = approvals[p] => ApprovalOK(p)'
<1>1. TypeOK /\ PendingOK(p) /\ ApprovalOK(p)
  BY DEF IInv, PendingInv, ApprovalsInv
<1>2. Len(ledger) \in 0..Len(ledger) /\ Len(ledger') \in Nat /\ Len(ledger) =< Len(ledger')
  BY <1>1, LedgerGrows
<1>3. /\ Recorded(ledger, "received", p, Len(ledger)) => Recorded(ledger', "received", p, Len(ledger'))
      /\ Recorded(ledger, "approved", p, Len(ledger)) => Recorded(ledger', "approved", p, Len(ledger'))
  BY <1>1, <1>2, RecordedStays
<1>4. \A q : Backed(p, q) => Backed(p, q)'
  BY DEF Adds, Backed, Reviewed
<1>5. ASSUME pending'[p] = pending[p] PROVE PendingOK(p)'
  BY <1>1, <1>3, <1>4, <1>5 DEF PendingOK
<1>6. ASSUME approvals'[p] = approvals[p] PROVE ApprovalOK(p)'
  BY <1>1, <1>3, <1>4, <1>6 DEF ApprovalOK
<1> QED
  BY <1>5, <1>6

\* An execution recorded before the step stays so, and a step that adds no
\* execution keeps the invariant.
LEMMA ExecutionStays ==
  ASSUME IInv, NEW s \in Seq(Events), Adds(s)
  PROVE  /\ \A i \in 1..Len(ledger) : ExecutionOK(i)'
         /\ (\A i \in 1..Len(s) : s[i].type # "executed") => ExecutedInv'
<1>1. TypeOK /\ ApprovalsInv /\ ExecutedInv
  BY DEF IInv
<1>2. ASSUME NEW i \in 1..Len(ledger) PROVE ExecutionOK(i)'
  <2>1. SUFFICES ASSUME ledger[i].type = "executed" PROVE ExecutionOK(i)'
    BY <1>1, LedgerGrows DEF ExecutionOK
  <2> DEFINE p == ledger[i].pid
  <2>2. /\ p \in Pids
        /\ approvals[p] # None
        /\ Recorded(ledger, "received", p, i - 1)
        /\ Recorded(ledger, "approved", p, i - 1)
        /\ ledger[i].status = "DENY" <=> ~BackendTakes(asked[p].request)
    BY <1>1, <2>1 DEF ExecutedInv, ExecutionOK
  <2>3. asked[p] # None
    BY <1>1, <2>2 DEF ApprovalsInv, ApprovalOK, Backed
  <2>4. asked'[p] = asked[p] /\ approvals'[p] # None
    BY <2>2, <2>3 DEF Adds
  <2>5. ledger'[i] = ledger[i] /\ i - 1 \in 0..Len(ledger) /\ i - 1 \in Nat
    BY <1>1, LedgerGrows
  <2> HIDE DEF p
  <2>6. Recorded(ledger', "received", p, i - 1) /\ Recorded(ledger', "approved", p, i - 1)
    BY <1>1, <2>2, <2>5, RecordedStays
  <2> QED
    BY <2>2, <2>4, <2>5, <2>6 DEF ExecutionOK, p
<1>3. ASSUME \A i \in 1..Len(s) : s[i].type # "executed" PROVE ExecutedInv'
  <2>1. SUFFICES ASSUME NEW i \in 1..Len(ledger') PROVE ExecutionOK(i)'
    BY DEF ExecutedInv
  <2>2. CASE i \in 1..Len(ledger)
    BY <1>2, <2>2
  <2>3. CASE i - Len(ledger) \in 1..Len(s) /\ ledger'[i] = s[i - Len(ledger)]
    BY <1>3, <2>3 DEF ExecutionOK
  <2> QED
    BY <1>1, <2>2, <2>3, LedgerGrows
<1> QED
  BY <1>2, <1>3

\* A step that writes of no lockdown leaves open the one that was.
LEMMA LockdownStays ==
  ASSUME TypeOK, NEW s \in Seq(Events), Adds(s),
         \A i \in 1..Len(s) : s[i].type \notin {"lockdown_triggered", "lockdown_reset"}
  PROVE  LockdownOpen' <=> LockdownOpen
<1>1. ASSUME LockdownOpen PROVE LockdownOpen'
  <2>1. PICK i \in 1..Len(ledger) :
          /\ ledger[i].type = "lockdown_triggered"
          /\ \A j \in (i + 1)..Len(ledger) : ledger[j].type # "lockdown_reset"
    BY <1>1 DEF LockdownOpen
  <2>2. i \in 1..Len(ledger') /\ ledger'[i].type = "lockdown_triggered"
    BY <2>1, LedgerGrows
  <2>3. ASSUME NEW j \in (i + 1)..Len(ledger') PROVE ledger'[j].type # "lockdown_reset"
    <3>1. j \in 1..Len(ledger')
      BY LedgerGrows
    <3>2. CASE j \in 1..Len(ledger)
      BY <2>1, <3>2, LedgerGrows
    <3>3. CASE j - Len(ledger) \in 1..Len(s) /\ ledger'[j] = s[j - Len(ledger)]
      BY <3>3
    <3> QED
      BY <3>1, <3>2, <3>3, LedgerGrows
  <2> QED
    BY <2>2, <2>3 DEF LockdownOpen
<1>2. ASSUME LockdownOpen' PROVE LockdownOpen
  <2>1. PICK i \in 1..Len(ledger') :
          /\ ledger'[i].type = "lockdown_triggered"
          /\ \A j \in (i + 1)..Len(ledger') : ledger'[j].type # "lockdown_reset"
    BY <1>2 DEF LockdownOpen
  <2>2. i \in 1..Len(ledger) /\ ledger[i].type = "lockdown_triggered"
    BY <2>1, LedgerGrows
  <2>3. ASSUME NEW j \in (i + 1)..Len(ledger) PROVE ledger[j].type # "lockdown_reset"
    BY <2>1, LedgerGrows
  <2> QED
    BY <2>2, <2>3 DEF LockdownOpen
<1> QED
  BY <1>1, <1>2

\* A step that writes of no execution and no lockdown.
LEMMA QuietStep ==
  ASSUME IInv, TypeOK', ValidWhenUsed', NEW s \in Seq(Events), Adds(s),
         \A i \in 1..Len(s) : s[i].type \notin Outside,
         PendingInv', ApprovalsInv', drafts' = drafts, locked' = locked
  PROVE  IInv'
<1>1. TypeOK /\ DraftsInv /\ (locked <=> LockdownOpen)
  BY DEF IInv
<1>2. ExecutedInv'
  BY ExecutionStays DEF Outside
<1>3. LockdownOpen' <=> LockdownOpen
  BY <1>1, LockdownStays DEF Outside
<1>4. DraftsInv'
  BY <1>1 DEF DraftsInv, Adds, TypeOK
<1> QED
  BY <1>1, <1>2, <1>3, <1>4 DEF IInv

-----------------------------------------------------------------------------
(***************************************************************************)
(* One lemma per action.                                                   *)
(***************************************************************************)
LEMMA InitInv == Init => IInv
<1> SUFFICES ASSUME Init PROVE IInv
  OBVIOUS
<1>1. policy \in Files \cup {None} /\ (policy # None => ValidFile(policy))
  BY GateAssumption DEF Init, InForce
<1>2. TypeOK
  <2>1. /\ pending \in [Pids -> Proposal \cup {None}]
        /\ approvals \in [Pids -> Approval \cup {None}]
        /\ asked \in [Pids -> Asked \cup {None}]
    BY DEF Init
  <2>2. denials \in [Actors -> Nat] /\ saved \in [Actors -> Nat]
    BY DEF Init, NoCounts
  <2>3. locked \in BOOLEAN /\ drafts \subseteq Pids
    BY DEF Init
  <2>4. ledger \in Seq(Events)
    BY DEF Init
  <2> QED
    BY <1>1, <2>1, <2>2, <2>3, <2>4 DEF TypeOK
<1>3. ValidWhenUsed /\ PendingInv /\ ApprovalsInv /\ DraftsInv
  BY <1>1 DEF Init, ValidWhenUsed, PendingInv, PendingOK, ApprovalsInv, ApprovalOK, DraftsInv
<1>4. ExecutedInv /\ ~LockdownOpen
  BY DEF Init, ExecutedInv, LockdownOpen
<1> QED
  BY <1>2, <1>3, <1>4 DEF IInv, Init

\* Of one event: its sequence and what it holds.
LEMMA OneEvent ==
  ASSUME NEW e \in Events
  PROVE  <<e>> \in Seq(Events) /\ Len(<<e>>) = 1 /\ \A i \in 1..Len(<<e>>) : i = 1 /\ <<e>>[i] = e
  OBVIOUS

LEMMA ProposeWithoutProposalInv ==
  ASSUME IInv, NEW a \in Actors, NEW q \in Requests, ProposeWithoutProposal(a, q)
  PROVE  IInv'
<1>1. TypeOK /\ ValidWhenUsed
  BY DEF IInv
<1>2. PICK e : /\ e \in Events /\ e.type \notin Outside
               /\ ledger' = Append(ledger, e)
  <2>1. \A t \in {"DENY", "LOCKDOWN"} :
          /\ Received(None, None, t) \in Events
          /\ Received(None, None, t).type \notin Outside
    BY DEF Received, Event, Events, EventTypes, Statuses, Outside
  <2> QED
    BY <2>1 DEF ProposeWithoutProposal
<1>3. ledger' = ledger \o <<e>>
  BY <1>1, <1>2, AppendIsConcat DEF TypeOK
<1>4. UNCHANGED <<policy, pending, approvals, denials, saved, locked, drafts, asked>>
  BY DEF ProposeWithoutProposal
<1>5. Adds(<<e>>)
  BY <1>3, <1>4 DEF Adds
<1>6. TypeOK' /\ ValidWhenUsed'
  BY <1>1, <1>2, <1>4 DEF TypeOK, ValidWhenUsed
<1>7. PendingInv' /\ ApprovalsInv'
  BY <1>2, <1>4, <1>5, OneEvent, ProposalStays DEF PendingInv, ApprovalsInv
<1>8. /\ <<e>> \in Seq(Events)
      /\ \A i \in 1..Len(<<e>>) : <<e>>[i].type \notin Outside
  BY <1>2, OneEvent
<1> QED
  BY <1>4, <1>5, <1>6, <1>7, <1>8, QuietStep

\* What every new proposal keeps.
LEMMA NewProposalKeeps ==
  ASSUME IInv, NEW p \in Pids, NEW a \in Actors, NEW q \in Requests, NewProposal(p, a, q)
  PROVE  /\ asked' \in [Pids -> Asked \cup {None}]
         /\ \A o \in Pids : asked[o] # None => asked'[o] = asked[o]
         /\ asked'[p] = [request |-> q, policy |-> policy, locked |-> FALSE]
         /\ asked'[p] # None
         /\ pending[p] = None /\ approvals[p] = None
         /\ ValidWhenUsed'
         /\ policy \in Files /\ policy.rules \in Rules
<1>1. TypeOK /\ ValidWhenUsed /\ PendingOK(p) /\ ApprovalOK(p)
  BY DEF IInv, PendingInv, ApprovalsInv
<1>2. policy \in Files /\ ValidFile(policy) /\ Valid(q) /\ locked = FALSE
  BY <1>1 DEF NewProposal, Ready, TypeOK, ValidWhenUsed
<1>3. /\ asked[p] = None
      /\ asked' = [asked EXCEPT ![p] = [request |-> q, policy |-> policy, locked |-> FALSE]]
      /\ policy' = policy
  BY <1>2 DEF NewProposal
<1>4. [request |-> q, policy |-> policy, locked |-> FALSE] \in Asked
  BY <1>2 DEF Asked
<1>5. /\ asked' \in [Pids -> Asked \cup {None}]
      /\ asked'[p] = [request |-> q, policy |-> policy, locked |-> FALSE]
      /\ \A o \in Pids : o # p => asked'[o] = asked[o]
  BY <1>1, <1>3, <1>4 DEF TypeOK
<1>6. asked'[p] # None
  BY <1>4, <1>5, NoneAssumption
<1>7. pending[p] = None /\ approvals[p] = None
  BY <1>1, <1>3 DEF PendingOK, ApprovalOK, Backed
<1>8. ValidWhenUsed'
  <2>1. ASSUME NEW o \in Pids, asked'[o] # None
        PROVE  Valid(asked'[o].request) /\ ValidFile(asked'[o].policy)
    BY <1>1, <1>2, <1>5, <2>1 DEF ValidWhenUsed
  <2> QED
    BY <1>1, <1>3, <2>1 DEF ValidWhenUsed
<1> QED
  BY <1>2, <1>3, <1>5, <1>6, <1>7, <1>8 DEF ValidFile

LEMMA ProposeAllowedInv ==
  ASSUME IInv, NEW p \in Pids, NEW a \in Actors, NEW q \in Requests, ProposeAllowed(p, a, q)
  PROVE  IInv'
<1> DEFINE d == Decided(p, a, q, "ALLOW", denials[a])
<1>1. TypeOK /\ NewProposal(p, a, q)
  BY DEF IInv, ProposeAllowed
<1>2. /\ d \in Seq(Events)
      /\ \A i \in 1..Len(d) : d[i].type \notin Outside
  BY DecidedEvents DEF Statuses
<1>3. /\ ledger' = ledger \o d
      /\ UNCHANGED <<policy, pending, approvals, denials, saved, locked, drafts>>
  BY DEF ProposeAllowed, NewProposal
<1> HIDE DEF d
<1>4. Adds(d)
  BY <1>1, <1>3, NewProposalKeeps DEF Adds
<1>5. TypeOK'
  BY <1>1, <1>2, <1>3, <1>4, NewProposalKeeps, LedgerGrows DEF TypeOK
<1>6. PendingInv' /\ ApprovalsInv'
  BY <1>2, <1>3, <1>4, ProposalStays DEF PendingInv, ApprovalsInv
<1> QED
  BY <1>1, <1>2, <1>3, <1>4, <1>5, <1>6, NewProposalKeeps, QuietStep

LEMMA ProposeReviewedInv ==
  ASSUME IInv, NEW p \in Pids, NEW a \in Actors, NEW q \in Requests, ProposeReviewed(p, a, q)
  PROVE  IInv'
<1> DEFINE d == Decided(p, a, q, "REVIEW_REQUIRED", denials[a])
<1>1. TypeOK /\ NewProposal(p, a, q)
  BY DEF IInv, ProposeReviewed
<1>2. /\ d \in Seq(Events)
      /\ \A i \in 1..Len(d) : d[i].type \notin Outside
      /\ Loggable(q) => Len(d) >= 1 /\ d[1] = Received(p, a, "REVIEW_REQUIRED")
  <2>1. "REVIEW_REQUIRED" \in Statuses
    BY DEF Statuses
  <2> QED
    BY <2>1, DecidedEvents
<1>3. /\ ledger' = ledger \o d
      /\ pending' = [pending EXCEPT ![p] = [request |-> q, actor |-> a]]
      /\ saved' = denials
      /\ UNCHANGED <<policy, approvals, denials, locked, drafts>>
      /\ Judge(q.mail, policy.rules) = "REVIEW_REQUIRED"
  BY DEF ProposeReviewed, NewProposal
<1> HIDE DEF d
<1>4. Adds(d)
  BY <1>1, <1>3, NewProposalKeeps DEF Adds
<1>5. TypeOK'
  <2>1. [request |-> q, actor |-> a] \in Proposal
    BY DEF Proposal
  <2> QED
    BY <2>1, <1>1, <1>2, <1>3, <1>4, NewProposalKeeps, LedgerGrows DEF TypeOK
<1>6. ApprovalsInv'
  BY <1>2, <1>3, <1>4, ProposalStays DEF ApprovalsInv
<1>7. PendingOK(p)'
  <2>1. pending'[p] = [request |-> q, actor |-> a]
    BY <1>1, <1>3 DEF TypeOK
  <2>2. Backed(p, q)'
    <3>1. asked'[p] # None
      BY <1>1, NewProposalKeeps
    <3>2. asked'[p] = [request |-> q, policy |-> policy, locked |-> FALSE]
      BY <1>1, NewProposalKeeps
    <3>3. asked'[p].request = q /\ asked'[p].policy = policy /\ ~asked'[p].locked
      BY <3>2
    <3> QED
      BY <3>1, <3>3, <1>3 DEF Backed, Reviewed
  <2>3. ASSUME Loggable(q) PROVE Recorded(ledger', "received", p, Len(ledger'))
    <3>1. Len(ledger) + 1 \in 1..Len(ledger') /\ ledger'[Len(ledger) + 1] = d[1]
      BY <1>1, <1>2, <1>4, <2>3, LedgerGrows
    <3>2. d[1].type = "received" /\ d[1].pid = p
      BY <1>2, <2>3 DEF Received, Event
    <3> QED
      BY <3>1, <3>2 DEF Recorded
  <2> QED
    BY <2>1, <2>2, <2>3 DEF PendingOK
<1>8. PendingInv'
  <2>1. ASSUME NEW o \in Pids, o # p PROVE PendingOK(o)'
    <3>1. pending'[o] = pending[o]
      BY <1>1, <1>3, <2>1 DEF TypeOK
    <3> QED
      BY <3>1, <1>2, <1>4, ProposalStays
  <2> QED
    BY <2>1, <1>7 DEF PendingInv
<1> QED
  BY <1>1, <1>2, <1>3, <1>4, <1>5, <1>6, <1>8, NewProposalKeeps, QuietStep

LEMMA ProposeDeniedInv ==
  ASSUME IInv, NEW p \in Pids, NEW a \in Actors, NEW q \in Requests, ProposeDenied(p, a, q)
  PROVE  IInv'
<1> DEFINE count == denials[a] + 1
           t == [type |-> "lockdown_triggered", pid |-> None, actor |-> a, status |-> "LOCKDOWN"]
<1>1. TypeOK /\ NewProposal(p, a, q) /\ UNCHANGED <<policy, pending, approvals, drafts>>
  BY DEF IInv, ProposeDenied, NewProposal
<1>2. denials' = [denials EXCEPT ![a] = count] /\ denials' \in [Actors -> Nat]
  BY <1>1 DEF ProposeDenied, TypeOK
<1>3. CASE /\ ledger' = ledger \o Decided(p, a, q, "DENY", count)
           /\ UNCHANGED <<saved, locked>>
  <2> DEFINE d == Decided(p, a, q, "DENY", count)
  <2>1. /\ d \in Seq(Events)
        /\ \A i \in 1..Len(d) : d[i].type \notin Outside
    BY DecidedEvents DEF Statuses
  <2> HIDE DEF d
  <2>2. Adds(d)
    BY <1>1, <1>3, NewProposalKeeps DEF Adds, d
  <2>3. TypeOK'
    BY <1>1, <1>2, <1>3, <2>1, <2>2, NewProposalKeeps, LedgerGrows DEF TypeOK
  <2>4. PendingInv' /\ ApprovalsInv'
    BY <1>1, <2>1, <2>2, ProposalStays DEF PendingInv, ApprovalsInv
  <2> QED
    BY <1>1, <1>3, <2>1, <2>2, <2>3, <2>4, NewProposalKeeps, QuietStep
<1>4. CASE /\ locked' = TRUE
           /\ saved' = denials'
           /\ ledger' = Append(ledger, t) \o Decided(p, a, q, "LOCKDOWN", count)
  <2> DEFINE d == Decided(p, a, q, "LOCKDOWN", count)
             s == <<t>> \o d
  <2>1. /\ d \in Seq(Events)
        /\ \A i \in 1..Len(d) : d[i].type \notin Outside
    BY DecidedEvents DEF Statuses
  <2>2. t \in Events
    BY DEF Events, EventTypes, Statuses
  <2> HIDE DEF d, t
  <2>3. /\ s \in Seq(Events) /\ Len(s) = 1 + Len(d)
        /\ s[1] = t
        /\ \A i \in 1..Len(d) : s[1 + i] = d[i]
    BY <2>1, <2>2
  <2>4. ledger' = ledger \o s
    BY <1>1, <1>4, <2>1, <2>2 DEF TypeOK, d
  <2>5. \A i \in 2..Len(s) : s[i].type \notin Outside
    <3> TAKE i \in 2..Len(s)
    <3>1. i - 1 \in 1..Len(d) /\ i = 1 + (i - 1)
      BY <2>1, <2>3
    <3> QED
      BY <3>1, <2>1, <2>3
  <2>6. t.type = "lockdown_triggered"
    BY DEF t
  <2> HIDE DEF s
  <2>7. Adds(s)
    BY <1>1, <2>4, NewProposalKeeps DEF Adds
  <2>8. TypeOK'
    BY <1>1, <1>2, <1>4, <2>3, <2>7, NewProposalKeeps, LedgerGrows DEF TypeOK
  <2>9. PendingInv' /\ ApprovalsInv'
    BY <1>1, <2>3, <2>7, ProposalStays DEF PendingInv, ApprovalsInv
  <2>10. ExecutedInv'
    <3>1. \A i \in 1..Len(s) : i = 1 \/ i \in 2..Len(s)
      BY <2>1, <2>3
    <3>2. \A i \in 1..Len(s) : s[i].type # "executed"
      BY <3>1, <2>3, <2>5, <2>6 DEF Outside
    <3> QED
      BY <3>2, <2>3, <2>7, ExecutionStays
  <2>11. LockdownOpen'
    <3>1. /\ Len(ledger) + 1 \in 1..Len(ledger')
          /\ ledger'[Len(ledger) + 1].type = "lockdown_triggered"
      BY <1>1, <2>1, <2>3, <2>6, <2>7, LedgerGrows
    <3>2. ASSUME NEW j \in (Len(ledger) + 2)..Len(ledger')
          PROVE  ledger'[j].type # "lockdown_reset"
      <4>1. j \in 1..Len(ledger') /\ j \notin 1..Len(ledger) /\ j - Len(ledger) >= 2
        BY <1>1, <2>3, <2>7, LedgerGrows
      <4>2. j - Len(ledger) \in 1..Len(s) /\ ledger'[j] = s[j - Len(ledger)]
        BY <4>1, <1>1, <2>3, <2>7, LedgerGrows
      <4>3. j - Len(ledger) \in 2..Len(s)
        BY <4>1, <4>2
      <4> QED
        BY <4>2, <4>3, <2>5 DEF Outside
    <3>3. (Len(ledger) + 1) + 1 = Len(ledger) + 2
      BY <1>1 DEF TypeOK
    <3> QED
      BY <3>1, <3>2, <3>3 DEF LockdownOpen
  <2>12. DraftsInv'
    BY <1>1 DEF IInv, DraftsInv
  <2> QED
    BY <1>1, <1>4, <2>8, <2>9, <2>10, <2>11, <2>12, NewProposalKeeps DEF IInv
<1> QED
  BY <1>3, <1>4 DEF ProposeDenied, Event

LEMMA ApproveInv ==
  ASSUME IInv, NEW p \in Pids, NEW o \in Approvers, Approve(p, o)
  PROVE  IInv'
<1> PICK w : w = pending[p]
  OBVIOUS
<1> DEFINE r == [request |-> w.request, actor |-> w.actor, used |-> FALSE]
           e == [type |-> "approved", pid |-> p, actor |-> w.actor, status |-> "APPROVED"]
<1>1. TypeOK /\ ValidWhenUsed /\ PendingOK(p)
  BY DEF IInv, PendingInv
<1>2. /\ w # None /\ Loggable(w.request)
      /\ approvals' = [approvals EXCEPT ![p] = r]
      /\ pending' = [pending EXCEPT ![p] = None]
      /\ saved' = denials
      /\ ledger' = Append(ledger, e)
      /\ UNCHANGED <<policy, denials, locked, drafts, asked>>
  BY DEF Approve, Event
<1>3. w \in Proposal
  BY <1>1, <1>2 DEF TypeOK
<1>4. w.request \in Requests /\ w.actor \in Actors
  BY <1>3 DEF Proposal
<1>5. r \in Approval /\ e \in Events /\ e.type \notin Outside
  BY <1>4 DEF Approval, Events, EventTypes, Statuses, Outside
<1>6. e.type = "approved" /\ e.pid = p /\ r.request = w.request
  OBVIOUS
<1>7. Backed(p, w.request) /\ Recorded(ledger, "received", p, Len(ledger))
  BY <1>1, <1>2 DEF PendingOK
<1> HIDE DEF r, e
<1>8. /\ ledger' = ledger \o <<e>>
      /\ <<e>> \in Seq(Events)
      /\ \A i \in 1..Len(<<e>>) : <<e>>[i].type \notin Outside
  BY <1>1, <1>2, <1>5, AppendIsConcat, OneEvent DEF TypeOK
<1>9. approvals'[p] = r /\ approvals'[p] # None /\ \A k \in Pids : k # p => approvals'[k] = approvals[k]
  BY <1>1, <1>2, <1>5, NoneAssumption DEF TypeOK
<1>10. Adds(<<e>>)
  BY <1>2, <1>8, <1>9 DEF Adds
<1>11. TypeOK'
  <2>1. ledger' \in Seq(Events)
    BY <1>1, <1>8, <1>10, LedgerGrows
  <2> QED
    BY <2>1, <1>1, <1>2, <1>5 DEF TypeOK
<1>12. ValidWhenUsed'
  BY <1>1, <1>2 DEF ValidWhenUsed
<1>13. PendingInv'
  <2>1. ASSUME NEW k \in Pids, k # p PROVE PendingOK(k)'
    <3>1. pending'[k] = pending[k]
      BY <1>1, <1>2, <2>1 DEF TypeOK
    <3> QED
      BY <3>1, <1>8, <1>10, ProposalStays
  <2>2. PendingOK(p)'
    <3>1. pending'[p] = None
      BY <1>1, <1>2 DEF TypeOK
    <3> QED
      BY <3>1 DEF PendingOK
  <2> QED
    BY <2>1, <2>2 DEF PendingInv
<1>14. ApprovalOK(p)'
  <2>1. Backed(p, w.request)'
    BY <1>2, <1>7 DEF Backed, Reviewed
  <2>2. Len(ledger') = Len(ledger) + 1 /\ ledger'[Len(ledger) + 1] = e /\ Len(ledger) \in Nat
    BY <1>1, <1>5, <1>8, <1>10, LedgerGrows, OneEvent
  <2>3. Recorded(ledger', "received", p, Len(ledger'))
    <3>1. Len(ledger) \in 0..Len(ledger) /\ Len(ledger') \in Nat /\ Len(ledger) =< Len(ledger')
      BY <2>2
    <3> QED
      BY <3>1, <1>1, <1>7, <1>8, <1>10, RecordedStays
  <2>4. Recorded(ledger', "approved", p, Len(ledger'))
    <3>1. Len(ledger) + 1 \in 1..Len(ledger')
      BY <2>2
    <3> QED
      BY <3>1, <2>2, <1>6 DEF Recorded
  <2> QED
    BY <1>6, <1>9, <2>1, <2>3, <2>4 DEF ApprovalOK
<1>15. ApprovalsInv'
  <2>1. ASSUME NEW k \in Pids, k # p PROVE ApprovalOK(k)'
    BY <2>1, <1>8, <1>9, <1>10, ProposalStays
  <2> QED
    BY <2>1, <1>14 DEF ApprovalsInv
<1> QED
  BY <1>2, <1>8, <1>10, <1>11, <1>12, <1>13, <1>15, QuietStep

LEMMA ExecuteInv ==
  ASSUME IInv, NEW p \in Pids, Execute(p)
  PROVE  IInv'
<1> DEFINE e(status) == [type |-> "executed", pid |-> p, actor |-> None, status |-> status]
<1>1. TypeOK /\ ValidWhenUsed /\ DraftsInv /\ ApprovalOK(p) /\ (locked <=> LockdownOpen)
  BY DEF IInv, ApprovalsInv
<1>2. /\ approvals[p] # None
      /\ approvals' = [approvals EXCEPT ![p].used = TRUE]
      /\ UNCHANGED <<policy, pending, denials, saved, locked, asked>>
  BY DEF Execute
<1>3. approvals[p] \in Approval
  BY <1>1, <1>2 DEF TypeOK
<1>4. /\ approvals' \in [Pids -> Approval \cup {None}]
      /\ approvals'[p] \in Approval /\ approvals'[p].request = approvals[p].request
      /\ \A k \in Pids : k # p => approvals'[k] = approvals[k]
  BY <1>1, <1>2, <1>3 DEF TypeOK, Approval
<1>5. approvals'[p] # None
  BY <1>4, NoneAssumption
<1>6. PICK d : /\ d \in Events /\ d.type = "executed" /\ d.pid = p
               /\ d.status = "DENY" <=> ~BackendTakes(approvals[p].request)
               /\ ledger' = Append(ledger, d)
               /\ drafts' \in {drafts, drafts \cup {p}}
  <2>1. \A t \in {"SUCCESS", "ERROR", "DENY"} : e(t) \in Events /\ e(t).type = "executed"
                                               /\ e(t).pid = p /\ e(t).status = t
    BY DEF Events, EventTypes, Statuses
  <2>2. CASE /\ drafts' = drafts \cup {p} /\ ledger' = Append(ledger, e("SUCCESS"))
             /\ BackendTakes(approvals[p].request)
    BY <2>1, <2>2
  <2>3. CASE drafts' = drafts /\ ledger' = Append(ledger, e("ERROR")) /\ BackendTakes(approvals[p].request)
    BY <2>1, <2>3
  <2>4. CASE drafts' = drafts /\ ledger' = Append(ledger, e("DENY")) /\ ~BackendTakes(approvals[p].request)
    BY <2>1, <2>4
  <2> QED
    BY <2>2, <2>3, <2>4 DEF Execute, Event
<1>7. /\ ledger' = ledger \o <<d>>
      /\ <<d>> \in Seq(Events) /\ Len(<<d>>) = 1 /\ <<d>>[1] = d
  BY <1>1, <1>6, AppendIsConcat, OneEvent DEF TypeOK
<1>8. Adds(<<d>>)
  BY <1>2, <1>4, <1>5, <1>7 DEF Adds
<1>9. /\ Len(ledger') = Len(ledger) + 1 /\ ledger'[Len(ledger) + 1] = d
      /\ Len(ledger) \in Nat /\ ledger' \in Seq(Events)
      /\ \A i \in 1..Len(ledger') : i \in 1..Len(ledger) \/ i = Len(ledger) + 1
  <2>1. /\ ledger' \in Seq(Events)
        /\ Len(ledger) \in Nat
        /\ Len(ledger') = Len(ledger) + 1
        /\ \A i \in 1..1 : ledger'[Len(ledger) + i] = <<d>>[i]
    BY <1>1, <1>7, <1>8, LedgerGrows
  <2>2. 1 \in 1..1
    OBVIOUS
  <2> QED
    BY <1>7, <2>1, <2>2
<1>10. TypeOK'
  BY <1>1, <1>2, <1>4, <1>6, <1>9 DEF TypeOK
<1>11. ValidWhenUsed'
  BY <1>1, <1>2 DEF ValidWhenUsed
<1>12. PendingInv'
  BY <1>2, <1>7, <1>8, ProposalStays DEF PendingInv
<1>13. Backed(p, approvals[p].request)
       /\ Recorded(ledger, "received", p, Len(ledger)) /\ Recorded(ledger, "approved", p, Len(ledger))
  BY <1>1, <1>2 DEF ApprovalOK
<1>14. \A n \in Nat : Len(ledger) =< n =>
          Recorded(ledger', "received", p, n) /\ Recorded(ledger', "approved", p, n)
  <2>1. Len(ledger) \in 0..Len(ledger)
    BY <1>9
  <2> QED
    BY <2>1, <1>1, <1>7, <1>8, <1>13, RecordedStays
<1>15. ApprovalsInv'
  <2>1. ASSUME NEW k \in Pids, k # p PROVE ApprovalOK(k)'
    BY <2>1, <1>4, <1>7, <1>8, ProposalStays
  <2>2. Backed(p, approvals[p].request)'
    BY <1>2, <1>13 DEF Backed, Reviewed
  <2>3. Len(ledger') \in Nat /\ Len(ledger) =< Len(ledger')
    BY <1>9
  <2>4. ApprovalOK(p)'
    BY <1>4, <1>14, <2>2, <2>3 DEF ApprovalOK
  <2> QED
    BY <2>1, <2>4 DEF ApprovalsInv
<1>16. DraftsInv'
  BY <1>1, <1>5, <1>6, <1>8 DEF DraftsInv, Adds, TypeOK
<1>17. ExecutedInv'
  <2>1. \A i \in 1..Len(ledger) : ExecutionOK(i)'
    BY <1>7, <1>8, ExecutionStays
  <2>2. ASSUME NEW i, i = Len(ledger) + 1 PROVE ExecutionOK(i)'
    <3>1. ledger'[i] = d /\ i - 1 = Len(ledger)
      BY <1>9, <2>2
    <3>2. Recorded(ledger', "received", p, i - 1) /\ Recorded(ledger', "approved", p, i - 1)
      BY <1>9, <1>14, <3>1
    <3>3. d.status = "DENY" <=> ~BackendTakes(asked'[p].request)
      BY <1>2, <1>6, <1>13 DEF Backed
    <3> QED
      BY <1>5, <1>6, <3>1, <3>2, <3>3 DEF ExecutionOK
  <2> QED
    BY <1>9, <2>1, <2>2 DEF ExecutedInv
<1>18. LockdownOpen' <=> LockdownOpen
  <2>1. \A i \in 1..Len(<<d>>) : <<d>>[i].type \notin {"lockdown_triggered", "lockdown_reset"}
    BY <1>6, <1>7, OneEvent
  <2> QED
    BY <2>1, <1>1, <1>7, <1>8, LockdownStays
<1> QED
  BY <1>1, <1>2, <1>10, <1>11, <1>12, <1>15, <1>16, <1>17, <1>18 DEF IInv

LEMMA ExecuteMutatedInv ==
  ASSUME IInv, NEW p \in Pids, ExecuteMutated(p)
  PROVE  IInv'
<1> DEFINE e == [type |-> "pressure", pid |-> p, actor |-> approvals[p].actor,
                 status |-> "proposal_mutation_attempt"]
<1>1. TypeOK /\ ValidWhenUsed
  BY DEF IInv
<1>2. /\ approvals[p] # None
      /\ ledger' = Append(ledger, e)
      /\ UNCHANGED <<policy, pending, approvals, denials, saved, locked, drafts, asked>>
  BY DEF ExecuteMutated, Event
<1>3. approvals[p].actor \in Actors
  BY <1>1, <1>2 DEF TypeOK, Approval
<1>4. e \in Events /\ e.type \notin Outside
  BY <1>3 DEF Events, EventTypes, Statuses, Outside
<1> HIDE DEF e
<1>5. /\ ledger' = ledger \o <<e>>
      /\ <<e>> \in Seq(Events)
      /\ \A i \in 1..Len(<<e>>) : <<e>>[i].type \notin Outside
  BY <1>1, <1>2, <1>4, AppendIsConcat, OneEvent DEF TypeOK
<1>6. Adds(<<e>>)
  BY <1>2, <1>5 DEF Adds
<1>7. TypeOK' /\ ValidWhenUsed'
  <2>1. ledger' \in Seq(Events)
    BY <1>1, <1>5, <1>6, LedgerGrows
  <2> QED
    BY <2>1, <1>1, <1>2 DEF TypeOK, ValidWhenUsed
<1>8. PendingInv' /\ ApprovalsInv'
  BY <1>2, <1>5, <1>6, ProposalStays DEF PendingInv, ApprovalsInv
<1> QED
  BY <1>2, <1>5, <1>6, <1>7, <1>8, QuietStep

LEMMA ResetLockdownInv ==
  ASSUME IInv, ResetLockdown
  PROVE  IInv'
<1> DEFINE e == [type |-> "lockdown_reset", pid |-> None, actor |-> None, status |-> "RESET"]
<1>1. TypeOK /\ ValidWhenUsed
  BY DEF IInv
<1>2. /\ ledger' = Append(ledger, e)
      /\ locked' = FALSE /\ denials' = NoCounts /\ saved' = NoCounts
      /\ UNCHANGED <<policy, pending, approvals, drafts, asked>>
  BY DEF ResetLockdown, Event
<1>3. e \in Events /\ e.type = "lockdown_reset"
  BY DEF Events, EventTypes, Statuses
<1> HIDE DEF e
<1>4. /\ ledger' = ledger \o <<e>>
      /\ <<e>> \in Seq(Events) /\ Len(<<e>>) = 1 /\ <<e>>[1] = e
  BY <1>1, <1>2, <1>3, AppendIsConcat, OneEvent DEF TypeOK
<1>5. Adds(<<e>>)
  BY <1>2, <1>4 DEF Adds
<1>6. /\ ledger' \in Seq(Events)
      /\ Len(ledger) \in Nat
      /\ Len(ledger') = Len(ledger) + 1
      /\ ledger'[Len(ledger) + 1] = e
  <2>1. /\ ledger' \in Seq(Events)
        /\ Len(ledger) \in Nat
        /\ Len(ledger') = Len(ledger) + 1
        /\ \A i \in 1..1 : ledger'[Len(ledger) + i] = <<e>>[i]
    BY <1>1, <1>4, <1>5, LedgerGrows
  <2>2. 1 \in 1..1
    OBVIOUS
  <2> QED
    BY <1>4, <2>1, <2>2
<1>7. TypeOK'
  <2>1. denials' \in [Actors -> Nat] /\ saved' \in [Actors -> Nat]
    BY <1>2 DEF NoCounts
  <2> QED
    BY <2>1, <1>1, <1>2, <1>6 DEF TypeOK
<1>8. ValidWhenUsed' /\ DraftsInv'
  BY <1>1, <1>2 DEF ValidWhenUsed, DraftsInv, IInv
<1>9. PendingInv' /\ ApprovalsInv'
  BY <1>2, <1>4, <1>5, ProposalStays DEF PendingInv, ApprovalsInv
<1>10. ExecutedInv'
  <2>1. \A i \in 1..Len(<<e>>) : <<e>>[i].type # "executed"
    BY <1>3, OneEvent
  <2> QED
    BY <2>1, <1>4, <1>5, ExecutionStays
<1>11. ~LockdownOpen'
  <2>1. SUFFICES ASSUME NEW i \in 1..Len(ledger'), ledger'[i].type = "lockdown_triggered",
                        \A j \in (i + 1)..Len(ledger') : ledger'[j].type # "lockdown_reset"
                 PROVE  FALSE
    BY DEF LockdownOpen
  <2>2. i # Len(ledger')
    BY <1>3, <1>6, <2>1
  <2>3. Len(ledger') \in (i + 1)..Len(ledger')
    BY <1>6, <2>2
  <2> QED
    BY <1>3, <1>6, <2>1, <2>3
<1> QED
  BY <1>2, <1>7, <1>8, <1>9, <1>10, <1>11 DEF IInv

\* A step that writes nothing.
LEMMA SilentStep ==
  ASSUME IInv, TypeOK', ValidWhenUsed', UNCHANGED <<pending, approvals, locked, ledger, drafts, asked>>
  PROVE  IInv'
<1>1. TypeOK
  BY DEF IInv
<1>2. ledger' = ledger \o <<>> /\ <<>> \in Seq(Events)
  BY <1>1 DEF TypeOK
<1>3. Adds(<<>>)
  BY <1>2 DEF Adds
<1>4. PendingInv' /\ ApprovalsInv'
  BY <1>2, <1>3, ProposalStays DEF PendingInv, ApprovalsInv
<1>5. \A i \in 1..Len(<<>>) : <<>>[i].type \notin Outside
  OBVIOUS
<1> QED
  BY <1>2, <1>3, <1>4, <1>5, QuietStep

LEMMA RestartInv ==
  ASSUME IInv, NEW f \in Files, Restart(f)
  PROVE  IInv'
<1>1. TypeOK /\ ValidWhenUsed
  BY DEF IInv
<1>2. policy' = InForce(f) /\ denials' = saved
      /\ UNCHANGED <<pending, approvals, saved, locked, ledger, drafts, asked>>
  BY DEF Restart
<1>3. policy' \in Files \cup {None} /\ (policy' # None => ValidFile(policy'))
  BY <1>2, GateAssumption DEF InForce
<1>4. TypeOK' /\ ValidWhenUsed'
  BY <1>1, <1>2, <1>3 DEF TypeOK, ValidWhenUsed
<1> QED
  BY <1>2, <1>4, SilentStep

LEMMA NextInv == IInv /\ [Next]_vars => IInv'
<1> SUFFICES ASSUME IInv, [Next]_vars PROVE IInv'
  OBVIOUS
<1>1. ASSUME NEW a \in Actors, NEW q \in Requests, ProposeWithoutProposal(a, q) PROVE IInv'
  BY <1>1, ProposeWithoutProposalInv
<1>2. ASSUME NEW a \in Actors, NEW q \in Requests, NEW p \in Pids,
             \/ ProposeAllowed(p, a, q) \/ ProposeReviewed(p, a, q) \/ ProposeDenied(p, a, q)
      PROVE  IInv'
  BY <1>2, ProposeAllowedInv, ProposeReviewedInv, ProposeDeniedInv
<1>3. ASSUME NEW p \in Pids, NEW o \in Approvers, Approve(p, o) PROVE IInv'
  BY <1>3, ApproveInv
<1>4. ASSUME NEW p \in Pids, Execute(p) \/ ExecuteMutated(p) PROVE IInv'
  BY <1>4, ExecuteInv, ExecuteMutatedInv
<1>5. CASE ResetLockdown
  BY <1>5, ResetLockdownInv
<1>6. ASSUME NEW f \in Files, Restart(f) PROVE IInv'
  BY <1>6, RestartInv
<1>7. CASE UNCHANGED vars
  <2>1. TypeOK' /\ ValidWhenUsed'
    BY <1>7 DEF IInv, TypeOK, ValidWhenUsed, vars
  <2> QED
    BY <2>1, <1>7, SilentStep DEF vars
<1> QED
  BY <1>1, <1>2, <1>3, <1>4, <1>5, <1>6, <1>7 DEF Next

-----------------------------------------------------------------------------
(***************************************************************************)
(* What the properties ask of the inductive invariant.                     *)
(***************************************************************************)

\* The verifier's index of an event: 0 when there is none, else the first.
LEMMA IndexOfIsFirst ==
  ASSUME NEW type, NEW p,
         NEW I, I = {i \in 1..Len(ledger) : ledger[i].type = type /\ ledger[i].pid = p}
  PROVE  /\ I = {} => IndexOf(type, p) = 0
         /\ I # {} => IndexOf(type, p) \in I /\ \A i \in I : IndexOf(type, p) =< i
<1>1. IndexOf(type, p) = IF I # {} THEN Min(I) ELSE 0
  BY DEF IndexOf, SelectInSeq
<1>2. I \in SUBSET Nat
  OBVIOUS
<1>3. I # {} => Min(I) \in I /\ \A i \in I : Min(I) =< i
  BY <1>2, LeastElement DEF Min
<1> QED
  BY <1>1, <1>3

\* Of what passes the contract, the backend takes exactly what is not unfit.
LEMMA ContractBindsBackend ==
  ASSUME NEW q, Valid(q)
  PROVE  BackendTakes(q) <=> ~Unfit(q)
<1>1. \A f \in DOMAIN q.fields : q.fields[f] \in FieldKinds(f)
  BY DEF Valid
<1>2. \A k \in DOMAIN q.params : q.params[k] \in ParameterKinds(k)
  BY DEF Valid
<1>3. /\ FieldKinds("content") = Text
      /\ FieldKinds("recipients") = Emails
      /\ FieldKinds("subject") = SingleLine
      /\ FieldKinds("thread_id") = SingleLine
      /\ FieldKinds("reply_to_message_id") = SingleLine
  BY DEF FieldKinds
<1>4. /\ ParameterKinds("subject") = SingleLine
      /\ ParameterKinds("reply_to_message_id") = SingleLine
  BY DEF ParameterKinds
<1>5. "null" \in SingleLine
  BY DEF SingleLine
<1>6. Value(q, "content") \in Text
  BY <1>1, <1>3 DEF Value, Text
<1>7. /\ Value(q, "subject") \in SingleLine /\ Value(q, "thread_id") \in SingleLine
      /\ Value(q, "reply_to_message_id") \in SingleLine
  BY <1>1, <1>3, <1>5 DEF Value
<1>8. Parameter(q, "subject") \in SingleLine /\ Parameter(q, "reply_to_message_id") \in SingleLine
  BY <1>2, <1>4, <1>5, <1>7 DEF Parameter
<1>9. Value(q, "recipients") \in {"null", "address", "empty", "addresses"}
  BY <1>1, <1>3 DEF Value, Emails, Email
<1>10. Value(q, "recipients") \in EmailList \ {"empty"}
         <=> Value(q, "recipients") \notin {"null", "empty", "address"}
  BY <1>9 DEF EmailList
<1> QED
  BY <1>6, <1>7, <1>8, <1>10 DEF BackendTakes, Unfit

LEMMA ReviewedEffects == IInv => EffectsWereReviewed
<1> SUFFICES ASSUME IInv, NEW p \in drafts
             PROVE  /\ CatalogVerdict(asked[p].request.mail, asked[p].policy.rules) = "REVIEW_REQUIRED"
                    /\ ~asked[p].locked
                    /\ approvals[p].request = asked[p].request
  BY DEF EffectsWereReviewed
<1>1. TypeOK /\ ValidWhenUsed /\ ApprovalsInv /\ p \in Pids /\ approvals[p] # None
  BY DEF IInv, DraftsInv, TypeOK
<1>2. Backed(p, approvals[p].request)
  BY <1>1 DEF ApprovalsInv, ApprovalOK
<1>3. asked[p] \in Asked /\ asked[p].policy.rules \in Rules
  BY <1>1, <1>2 DEF Backed, TypeOK, ValidWhenUsed, ValidFile
<1>4. asked[p].request.mail \in Mail
  BY <1>3, GateAssumption DEF Asked
<1> QED
  BY <1>2, <1>3, <1>4, JudgeIsCatalogVerdict DEF Backed, Reviewed

LEMMA StricterFiles == IInv => StricterNeverWidens
<1> SUFFICES ASSUME IInv, NEW p \in Pids, NEW f \in Files,
                    asked[p] # None, ValidFile(f), Stricter(f.rules, asked[p].policy.rules)
             PROVE  Rank(Judge(asked[p].request.mail, f.rules))
                      >= Rank(Judge(asked[p].request.mail, asked[p].policy.rules))
  BY DEF StricterNeverWidens
<1>1. asked[p] \in Asked /\ asked[p].policy.rules \in Rules /\ f.rules \in Rules
  BY DEF IInv, TypeOK, ValidWhenUsed, ValidFile
<1>2. asked[p].request.mail \in Mail
  BY <1>1, GateAssumption DEF Asked
<1> QED
  BY <1>1, <1>2, StricterJudgesNoMilder

LEMMA RefusalsExact == IInv => RefusedExactlyIfUnfit
<1> SUFFICES ASSUME IInv, NEW i \in 1..Len(ledger), ledger[i].type = "executed"
             PROVE  ledger[i].status = "DENY" <=> Unfit(asked[ledger[i].pid].request)
  BY DEF RefusedExactlyIfUnfit
<1>1. PICK p \in Pids : /\ p = ledger[i].pid /\ approvals[p] # None
                        /\ ledger[i].status = "DENY" <=> ~BackendTakes(asked[p].request)
  BY DEF IInv, ExecutedInv, ExecutionOK
<1>2. asked[p] # None
  BY <1>1 DEF IInv, ApprovalsInv, ApprovalOK, Backed
<1>3. Valid(asked[p].request)
  BY <1>2 DEF IInv, ValidWhenUsed
<1>4. BackendTakes(asked[p].request) <=> ~Unfit(asked[p].request)
  BY <1>3, ContractBindsBackend
<1> QED
  BY <1>1, <1>4

LEMMA EvidenceAccepted == IInv => VerifierAcceptsEvidence
<1> SUFFICES ASSUME IInv, NEW p \in Pids, IndexOf("executed", p) # 0
             PROVE  \A t \in {"received", "approved"} : IndexOf(t, p) \in 1..(IndexOf("executed", p) - 1)
  BY DEF VerifierAcceptsEvidence, EvidenceInOrder
<1> DEFINE n == IndexOf("executed", p)
<1>1. n \in 1..Len(ledger) /\ ledger[n].type = "executed" /\ ledger[n].pid = p
  <2> PICK I : I = {i \in 1..Len(ledger) : ledger[i].type = "executed" /\ ledger[i].pid = p}
    OBVIOUS
  <2>1. n \in I
    BY IndexOfIsFirst
  <2> QED
    BY <2>1
<1>2. Recorded(ledger, "received", p, n - 1) /\ Recorded(ledger, "approved", p, n - 1)
  BY <1>1 DEF IInv, ExecutedInv, ExecutionOK
<1> HIDE DEF n
<1>3. ASSUME NEW t, Recorded(ledger, t, p, n - 1) PROVE IndexOf(t, p) \in 1..(n - 1)
  <2> PICK I : I = {i \in 1..Len(ledger) : ledger[i].type = t /\ ledger[i].pid = p}
    OBVIOUS
  <2>1. PICK k \in 1..(n - 1) : ledger[k].type = t /\ ledger[k].pid = p
    BY <1>3 DEF Recorded
  <2>2. k \in I
    BY <1>1, <2>1
  <2>3. IndexOf(t, p) \in I /\ IndexOf(t, p) =< k
    BY <2>2, IndexOfIsFirst
  <2> QED
    BY <1>1, <2>1, <2>3
<1> QED
  BY <1>2, <1>3 DEF n

LEMMA LockdownSeen == IInv => LockdownMatchesEvidence
<1> SUFFICES ASSUME IInv PROVE LockdownMatchesEvidence
  OBVIOUS
<1> DEFINE last == SelectLastInSeq(ledger, LAMBDA e : e.type \in {"lockdown_triggered", "lockdown_reset"})
<1>1. PICK I : I = {i \in 1..Len(ledger) : ledger[i].type \in {"lockdown_triggered", "lockdown_reset"}}
  OBVIOUS
<1>2. last = IF I # {} THEN Max(I) ELSE 0
  BY <1>1 DEF SelectLastInSeq
<1> HIDE DEF last
<1>3. I \in SUBSET (1..Len(ledger)) /\ Len(ledger) \in Nat
  BY <1>1 DEF IInv, TypeOK
<1>4. I # {} => last \in I /\ \A i \in I : last >= i
  BY <1>2, <1>3, GreatestElement DEF Max
<1>5. I = {} => last = 0
  BY <1>2
<1>6. LockdownOpen <=> last # 0 /\ ledger[last].type = "lockdown_triggered"
  <2>1. ASSUME NEW i \in 1..Len(ledger), ledger[i].type = "lockdown_triggered",
               \A j \in (i + 1)..Len(ledger) : ledger[j].type # "lockdown_reset"
        PROVE  last # 0 /\ ledger[last].type = "lockdown_triggered"
    <3>1. i \in I
      BY <1>1, <2>1
    <3>2. last \in I /\ last >= i /\ last \in 1..Len(ledger)
      BY <1>3, <1>4, <3>1
    <3>3. last = i \/ last \in (i + 1)..Len(ledger)
      BY <1>3, <3>2
    <3>4. ledger[last].type # "lockdown_reset"
      BY <2>1, <3>3
    <3> QED
      BY <1>1, <3>2, <3>4
  <2>2. ASSUME last # 0, ledger[last].type = "lockdown_triggered" PROVE LockdownOpen
    <3>1. last \in 1..Len(ledger) /\ \A i \in I : last >= i
      BY <1>3, <1>4, <1>5, <2>2
    <3>2. ASSUME NEW j \in (last + 1)..Len(ledger) PROVE ledger[j].type # "lockdown_reset"
      BY <1>1, <1>3, <3>1, <3>2
    <3> QED
      BY <2>2, <3>1, <3>2 DEF LockdownOpen
  <2> QED
    BY <2>1, <2>2 DEF LockdownOpen
<1>7. locked <=> LockdownOpen
  BY DEF IInv
<1> QED
  BY <1>6, <1>7 DEF LockdownMatchesEvidence, last

-----------------------------------------------------------------------------
(***************************************************************************)
(* The theorems.                                                           *)
(***************************************************************************)

\* Every state the broker reaches satisfies the inductive invariant.
THEOREM InductiveInvariant == Spec => []IInv
<1> QED
  BY InitInv, NextInv, PTL DEF Spec

\* The broker's state stays within its types.
THEOREM TypeCorrect == Spec => []TypeOK
<1>1. IInv => TypeOK
  BY DEF IInv
<1> QED
  BY <1>1, InductiveInvariant, PTL

\* A draft is only made of a request that the action catalogue sends to review
\* under the policy it was proposed in, outside lockdown, with its content.
THEOREM ReviewTheorem == Spec => []EffectsWereReviewed
<1> QED
  BY ReviewedEffects, InductiveInvariant, PTL

\* No tighter policy file gives a request more than the one it was judged by.
THEOREM StricterTheorem == Spec => []StricterNeverWidens
<1> QED
  BY StricterFiles, InductiveInvariant, PTL

\* The backend refuses an approved payload exactly when the request was unfit as
\* it was proposed: another action, no list of recipients, or no words.
THEOREM RefusalTheorem == Spec => []RefusedExactlyIfUnfit
<1> QED
  BY RefusalsExact, InductiveInvariant, PTL

\* The verifier accepts the events the broker writes.
THEOREM EvidenceTheorem == Spec => []VerifierAcceptsEvidence
<1> QED
  BY EvidenceAccepted, InductiveInvariant, PTL

\* The broker is locked exactly when the ledger says so, after a restart too.
THEOREM LockdownTheorem == Spec => []LockdownMatchesEvidence
<1> QED
  BY LockdownSeen, InductiveInvariant, PTL
=============================================================================
