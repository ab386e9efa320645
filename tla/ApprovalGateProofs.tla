------------------------- MODULE ApprovalGateProofs -------------------------
(***************************************************************************)
(* Theorems about ApprovalGate, for every value of its constants.          *)
(***************************************************************************)
EXTENDS ApprovalGate, TLAPS

-----------------------------------------------------------------------------
(***************************************************************************)
(* Lemmas about the state operators.                                       *)
(***************************************************************************)

\* The empty state is a state; so is a locked one.
LEMMA EmptyStateType == EmptyState \in State
BY ConstantsAssumption DEF EmptyState, State, NoAttempt, Attempt

LEMMA LockedType ==
  ASSUME NEW m \in State
  PROVE  /\ Locked(m) \in State
         /\ Locked(m).lockdown = TRUE
         /\ Locked(m).approvals = m.approvals
         /\ Locked(m).denials = m.denials
         /\ Locked(m).pending = m.pending
BY DEF Locked, State

\* A partial save takes each table from memory or leaves it.
LEMMA SaveTablesType ==
  ASSUME NEW m \in State, NEW d \in State, NEW k \in Tables
  PROVE  /\ SaveTables(m, d, k) \in State
         /\ SaveTables(m, d, k).approvals \in {m.approvals, d.approvals}
         /\ Saved(k) => SaveTables(m, d, k).approvals = m.approvals
         /\ \/ /\ SaveTables(m, d, k).denials = m.denials
               /\ SaveTables(m, d, k).lockdown = m.lockdown
            \/ /\ SaveTables(m, d, k).denials = d.denials
               /\ SaveTables(m, d, k).lockdown = d.lockdown
BY DEF SaveTables, Saved, Tables, State

\* Purging touches the attempts only.
LEMMA PurgeType ==
  ASSUME NEW d \in State, now \in 0..MaxTime
  PROVE  /\ PurgeAttempts(d) \in State
         /\ PurgeAttempts(d).approvals = d.approvals
         /\ PurgeAttempts(d).denials = d.denials
         /\ PurgeAttempts(d).lockdown = d.lockdown
         /\ PurgeAttempts(d).pending = d.pending
<1> DEFINE f == [key \in DOMAIN d.attempts |->
                   IF Expired(d.attempts[key]) THEN NoAttempt ELSE d.attempts[key]]
<1>1. d.attempts \in [Pids \X Approvers -> Attempt]
  BY DEF State
<1>2. NoAttempt \in Attempt
  BY ConstantsAssumption DEF NoAttempt, Attempt
<1>3. f \in [Pids \X Approvers -> Attempt]
  BY <1>1, <1>2
<1>4. PurgeAttempts(d) = [d EXCEPT !.attempts = f]
  BY DEF PurgeAttempts
<1> QED
  BY <1>3, <1>4 DEF State

\* After a restart the tables hold what d held, and memory is either the tables
\* or an empty state in lockdown.
LEMMA RestartType ==
  ASSUME NEW d \in State, now \in 0..MaxTime, RestartFrom(d)
  PROVE  /\ mem' \in State /\ disk' \in State
         /\ disk'.approvals = d.approvals
         /\ disk'.denials = d.denials
         /\ disk'.lockdown = d.lockdown
         /\ \/ mem' = disk'
            \/ /\ mem'.approvals = EmptyState.approvals
               /\ mem'.lockdown = TRUE
<1> DEFINE c == PurgeAttempts(d)
           e == [EmptyState EXCEPT !.lockdown = TRUE, !.attempts = c.attempts]
<1>1. /\ c \in State /\ c.approvals = d.approvals
      /\ c.denials = d.denials /\ c.lockdown = d.lockdown
  BY PurgeType
<1>2. disk' = c /\ mem' \in {c, e}
  BY DEF RestartFrom, Loads
<1>3. e \in State /\ e.approvals = EmptyState.approvals /\ e.lockdown = TRUE
  BY <1>1, EmptyStateType DEF State
<1> QED
  BY <1>1, <1>2, <1>3

\* Recording a failed attempt yields an attempt: the count stays in its bounds.
LEMMA FailedType ==
  ASSUME NEW t \in Attempt, now \in 0..MaxTime
  PROVE  Failed(t) \in Attempt
<1>1. t.count \in 0..MaxAttempts /\ t.first \in 0..MaxTime /\ t = [count |-> t.count, first |-> t.first]
  BY DEF Attempt
<1>2. CASE t.count = 0 \/ t.count >= MaxAttempts
  BY <1>2, ConstantsAssumption DEF Failed, Attempt
<1>3. CASE ~(t.count = 0 \/ t.count >= MaxAttempts)
  <2>1. t.count + 1 \in 0..MaxAttempts
    BY <1>1, <1>3, ConstantsAssumption
  <2>2. Failed(t) = [count |-> t.count + 1, first |-> t.first]
    BY <1>1, <1>3 DEF Failed
  <2> QED
    BY <1>1, <2>1, <2>2 DEF Attempt
<1> QED
  BY <1>2, <1>3

-----------------------------------------------------------------------------
(***************************************************************************)
(* IInv is inductive: one lemma per handler.                               *)
(***************************************************************************)

\* A step that neither gives nor spends an approval keeps what IInv says of
\* approvals, if memory and tables hold approvals either of them held.
LEMMA ApprovalsKept ==
  ASSUME IInv, mem' \in State, disk' \in State,
         UNCHANGED <<effects, spends, grants>>,
         disk'.approvals \in {disk.approvals, mem.approvals},
         mem'.approvals \in {mem.approvals, disk'.approvals, EmptyState.approvals}
  PROVE  DurableApprovals' /\ AtMostOncePerApproval' /\ SpentRowsAreUsed'
<1> SUFFICES ASSUME NEW p \in Pids
             PROVE  /\ mem'.approvals[p] # NoApproval => disk'.approvals[p] = mem'.approvals[p]
                    /\ disk'.approvals[p] # NoApproval => disk'.approvals[p] = disk.approvals[p]
  BY DEF IInv, DurableApprovals, AtMostOncePerApproval, SpentRowsAreUsed
<1>1. mem.approvals[p] # NoApproval => disk.approvals[p] = mem.approvals[p]
  BY DEF IInv, DurableApprovals
<1>2. EmptyState.approvals[p] = NoApproval
  BY DEF EmptyState
<1> QED
  BY <1>1, <1>2

LEMMA ProposeForReviewInv ==
  ASSUME IInv, NEW p \in Pids, ProposeForReview(p)
  PROVE  IInv'
<1> DEFINE m == [mem EXCEPT !.pending = @ \cup {p}]
<1>1. /\ mem \in State /\ disk \in State /\ now \in 0..MaxTime
      /\ evidence \in [Pids -> SUBSET Event]
  BY DEF IInv, TypeOK
<1>2. /\ m \in State /\ m.approvals = mem.approvals
      /\ m.denials = mem.denials /\ m.lockdown = mem.lockdown
  BY <1>1 DEF State
<1>3. PICK k \in Tables, r \in WriteResults :
        /\ evidence' = IF Saved(k) THEN Record(p, "received", r) ELSE evidence
        /\ \/ mem' \in {m, Locked(m)} /\ disk' = SaveTables(m, disk, k)
           \/ RestartFrom(SaveTables(m, disk, k))
  BY DEF ProposeForReview
<1> DEFINE d == SaveTables(m, disk, k)
<1>4. /\ d \in State /\ d.approvals \in {mem.approvals, disk.approvals}
      /\ \/ d.denials = mem.denials /\ d.lockdown = mem.lockdown
         \/ d.denials = disk.denials /\ d.lockdown = disk.lockdown
  BY <1>1, <1>2, SaveTablesType
<1>5. /\ Locked(m) \in State /\ Locked(m).approvals = m.approvals
      /\ Locked(m).lockdown = TRUE
  BY <1>2, LockedType
<1>6. /\ mem' \in State /\ disk' \in State /\ disk'.approvals = d.approvals
      /\ disk'.denials = d.denials /\ disk'.lockdown = d.lockdown
      /\ \/ mem' = disk'
         \/ mem'.approvals = mem.approvals /\ mem'.denials = mem.denials /\ mem'.lockdown = mem.lockdown
         \/ mem'.approvals \in {mem.approvals, EmptyState.approvals} /\ mem'.lockdown = TRUE
  BY <1>1, <1>2, <1>3, <1>4, <1>5, RestartType
<1>7. UNCHANGED <<now, effects, spends, grants, answers>> /\ proposed' = proposed \cup {p}
  BY DEF ProposeForReview
<1>8. evidence' \in [Pids -> SUBSET Event]
  BY <1>1, <1>3 DEF Record, Event
<1>9. TypeOK'
  BY <1>3, <1>6, <1>7, <1>8 DEF IInv, TypeOK
<1>10. ThresholdLocks'
  BY <1>4, <1>6 DEF IInv, ThresholdLocks
<1> QED
  BY <1>4, <1>6, <1>7, <1>9, <1>10, ApprovalsKept DEF IInv

LEMMA ProposeDeniedInv ==
  ASSUME IInv, NEW a \in Actors, NEW kinetic \in BOOLEAN, ProposeDenied(a, kinetic)
  PROVE  IInv'
<1> DEFINE m == [mem EXCEPT !.denials[a] = @ + 1]
<1>1. mem \in State /\ disk \in State /\ now \in 0..MaxTime
  BY DEF IInv, TypeOK
<1>2. mem.denials[a] < Threshold
  BY <1>1, ConstantsAssumption DEF ProposeDenied, IInv, ThresholdLocks, State
<1>3. /\ m \in State /\ m.approvals = mem.approvals /\ m.lockdown = mem.lockdown
      /\ m.denials = [mem.denials EXCEPT ![a] = @ + 1]
  BY <1>1, <1>2, ConstantsAssumption DEF State
<1>4. /\ Locked(m) \in State /\ Locked(m).approvals = mem.approvals
      /\ Locked(m).lockdown = TRUE
  BY <1>3, LockedType
<1>5. UNCHANGED <<now, evidence, effects, spends, grants, proposed, answers>>
  BY DEF ProposeDenied, history
<1>6. CASE ~AtThreshold(m.denials[a])
  <2>1. mem' \in {m, Locked(m)} /\ disk' = disk
    BY <1>6 DEF ProposeDenied
  <2>2. mem' \in State /\ mem'.approvals = mem.approvals
    BY <2>1, <1>3, <1>4
  <2>3. \A b \in Actors : m.denials[b] >= Threshold => m.lockdown
    BY <1>1, <1>3, <1>6 DEF AtThreshold, IInv, ThresholdLocks, State
  <2>4. ThresholdLocks'
    BY <2>1, <2>3, <1>4 DEF IInv, ThresholdLocks
  <2> QED
    BY <1>1, <1>5, <2>1, <2>2, <2>4, ApprovalsKept DEF IInv, TypeOK
<1>7. CASE AtThreshold(m.denials[a])
  <2>1. PICK k \in Tables :
          \/ mem' = Locked(m) /\ disk' = SaveTables(Locked(m), disk, k)
          \/ RestartFrom(SaveTables(Locked(m), disk, k))
    BY <1>7 DEF ProposeDenied
  <2> DEFINE d == SaveTables(Locked(m), disk, k)
  <2>2. /\ d \in State /\ d.approvals \in {mem.approvals, disk.approvals}
        /\ \/ d.lockdown = TRUE
           \/ d.denials = disk.denials /\ d.lockdown = disk.lockdown
    BY <1>1, <1>4, SaveTablesType
  <2>3. /\ mem' \in State /\ disk' \in State /\ disk'.approvals = d.approvals
        /\ disk'.denials = d.denials /\ disk'.lockdown = d.lockdown
        /\ \/ mem' = disk'
           \/ mem'.approvals \in {mem.approvals, EmptyState.approvals} /\ mem'.lockdown = TRUE
    BY <1>1, <1>4, <2>1, <2>2, RestartType
  <2>4. ThresholdLocks'
    BY <2>2, <2>3 DEF IInv, ThresholdLocks
  <2> QED
    BY <1>5, <2>2, <2>3, <2>4, ApprovalsKept DEF IInv, TypeOK
<1> QED
  BY <1>6, <1>7

LEMMA ProposeAllowedUnloggedInv ==
  ASSUME IInv, ProposeAllowedUnlogged
  PROVE  IInv'
<1>1. /\ mem \in State /\ disk \in State
      /\ mem' = Locked(mem) /\ disk' = disk
      /\ UNCHANGED <<now, evidence, effects, spends, grants, proposed, answers>>
  BY DEF IInv, TypeOK, ProposeAllowedUnlogged, history
<1>2. mem' \in State /\ mem'.approvals = mem.approvals /\ mem'.lockdown = TRUE
  BY <1>1, LockedType
<1>3. ThresholdLocks'
  BY <1>1, <1>2 DEF IInv, ThresholdLocks
<1> QED
  BY <1>1, <1>2, <1>3, ApprovalsKept DEF IInv, TypeOK

LEMMA ExecuteBadTokenInv ==
  ASSUME IInv, NEW p \in Pids, NEW hashOK \in BOOLEAN, NEW w \in 0..MaxTime,
         ExecuteBadToken(p, hashOK, w)
  PROVE  IInv'
<1> DEFINE m == [mem EXCEPT !.attempts[Key(p)] = Failed(@)]
           d == [disk EXCEPT !.attempts = m.attempts]
<1>1. /\ mem \in State /\ disk \in State /\ now \in 0..MaxTime
      /\ mem.approvals[p] # NoApproval
  BY DEF IInv, TypeOK, ExecuteBadToken
<1>2. Key(p) \in Pids \X Approvers
  BY <1>1 DEF Key, State, Approval
<1>3. Failed(mem.attempts[Key(p)]) \in Attempt
  BY <1>1, <1>2, FailedType DEF State
<1>4. /\ m \in State /\ m.approvals = mem.approvals
      /\ m.denials = mem.denials /\ m.lockdown = mem.lockdown
  BY <1>1, <1>2, <1>3 DEF State
<1>5. /\ d \in State /\ d.approvals = disk.approvals
      /\ d.denials = disk.denials /\ d.lockdown = disk.lockdown
  BY <1>1, <1>4 DEF State
<1>6. /\ \/ mem' = m /\ disk' \in {d, disk}
         \/ RestartFrom(d)
      /\ UNCHANGED <<now, evidence, effects, spends, grants, proposed, answers>>
  BY DEF ExecuteBadToken, history
<1>7. /\ mem' \in State /\ disk' \in State /\ disk'.approvals = disk.approvals
      /\ disk'.denials = disk.denials /\ disk'.lockdown = disk.lockdown
      /\ \/ mem' = disk'
         \/ mem'.approvals = mem.approvals /\ mem'.denials = mem.denials /\ mem'.lockdown = mem.lockdown
         \/ mem'.approvals = EmptyState.approvals /\ mem'.lockdown = TRUE
  BY <1>1, <1>4, <1>5, <1>6, RestartType
<1>8. ThresholdLocks'
  BY <1>7 DEF IInv, ThresholdLocks
<1> QED
  BY <1>6, <1>7, <1>8, ApprovalsKept DEF IInv, TypeOK

LEMMA ExecuteDeniedInv ==
  ASSUME IInv, NEW p \in Pids, NEW w \in 0..MaxTime, ExecuteDenied(p, w)
  PROVE  IInv'
<1>1. /\ mem \in State /\ disk \in State /\ now \in 0..MaxTime
      /\ mem.approvals[p] # NoApproval
      /\ mem' = [mem EXCEPT !.attempts[Key(p)] = NoAttempt] /\ disk' = disk
      /\ UNCHANGED <<now, evidence, effects, spends, grants, proposed, answers>>
  BY DEF IInv, TypeOK, ExecuteDenied, history
<1>2. NoAttempt \in Attempt
  BY ConstantsAssumption DEF NoAttempt, Attempt
<1>3. /\ mem' \in State /\ mem'.approvals = mem.approvals
      /\ mem'.denials = mem.denials /\ mem'.lockdown = mem.lockdown
  BY <1>1, <1>2 DEF State
<1>4. ThresholdLocks'
  BY <1>1, <1>3 DEF IInv, ThresholdLocks
<1> QED
  BY <1>1, <1>3, <1>4, ApprovalsKept DEF IInv, TypeOK

LEMMA ResetLockdownInv ==
  ASSUME IInv, ResetLockdown
  PROVE  IInv'
<1> DEFINE m == [mem EXCEPT !.lockdown = FALSE, !.denials = EmptyState.denials]
<1>1. mem \in State /\ disk \in State /\ now \in 0..MaxTime
  BY DEF IInv, TypeOK
<1>2. m \in State /\ m.approvals = mem.approvals /\ m.denials = EmptyState.denials
  BY <1>1, EmptyStateType DEF State
<1>3. \A a \in Actors : ~(EmptyState.denials[a] >= Threshold)
  BY ConstantsAssumption DEF EmptyState
<1>4. PICK k \in Tables :
        \/ mem' = m /\ disk' = SaveTables(m, disk, k)
        \/ RestartFrom(SaveTables(m, disk, k))
  BY DEF ResetLockdown
<1> DEFINE d == SaveTables(m, disk, k)
<1>5. /\ d \in State /\ d.approvals \in {mem.approvals, disk.approvals}
      /\ \/ d.denials = EmptyState.denials
         \/ d.denials = disk.denials /\ d.lockdown = disk.lockdown
  BY <1>1, <1>2, SaveTablesType
<1>6. /\ mem' \in State /\ disk' \in State /\ disk'.approvals = d.approvals
      /\ disk'.denials = d.denials /\ disk'.lockdown = d.lockdown
      /\ \/ mem' = disk'
         \/ mem'.approvals = mem.approvals /\ mem'.denials = EmptyState.denials
         \/ mem'.approvals = EmptyState.approvals /\ mem'.lockdown = TRUE
  BY <1>1, <1>2, <1>4, <1>5, RestartType
<1>7. ThresholdLocks'
  BY <1>3, <1>5, <1>6 DEF IInv, ThresholdLocks
<1>8. UNCHANGED <<now, evidence, effects, spends, grants, proposed, answers>>
  BY DEF ResetLockdown, history
<1> QED
  BY <1>5, <1>6, <1>7, <1>8, ApprovalsKept DEF IInv, TypeOK

LEMMA CrashInv ==
  ASSUME IInv, Crash
  PROVE  IInv'
<1>1. /\ mem \in State /\ disk \in State /\ now \in 0..MaxTime /\ RestartFrom(disk)
      /\ UNCHANGED <<now, evidence, effects, spends, grants, proposed, answers>>
  BY DEF IInv, TypeOK, Crash, history
<1>2. /\ mem' \in State /\ disk' \in State /\ disk'.approvals = disk.approvals
      /\ disk'.denials = disk.denials /\ disk'.lockdown = disk.lockdown
      /\ \/ mem' = disk'
         \/ mem'.approvals = EmptyState.approvals /\ mem'.lockdown = TRUE
  BY <1>1, RestartType
<1>3. ThresholdLocks'
  BY <1>2 DEF IInv, ThresholdLocks
<1> QED
  BY <1>1, <1>2, <1>3, ApprovalsKept DEF IInv, TypeOK

\* What holds of the record approve_proposal makes: it is an approval whose grant
\* is new, so nothing was spent on it.
LEMMA NewGrant ==
  ASSUME IInv, NEW p \in Pids, NEW approver \in Approvers, NEW w \in 0..MaxTime,
         grants[p] < MaxGrants
  PROVE  LET g == grants[p] + 1
             record == [grant |-> g, approver |-> approver, window |-> w,
                        expires |-> now + Expiry, used |-> FALSE]
         IN  g \in Grant /\ record \in Approval /\ spends[p][g] = 0
<1>1. grants[p] \in 0..MaxGrants /\ now \in 0..MaxTime
  BY DEF IInv, TypeOK
<1>2. grants[p] + 1 \in Grant /\ grants[p] + 1 > grants[p]
  BY <1>1, ConstantsAssumption DEF Grant
<1>3. now + Expiry \in 0..(MaxTime + Expiry)
  BY <1>1, ConstantsAssumption
<1>4. spends[p][grants[p] + 1] = 0
  BY <1>2 DEF IInv, SpentRowsAreUsed
<1> QED
  BY <1>2, <1>3, <1>4 DEF Approval

LEMMA ApproveInv ==
  ASSUME IInv, NEW p \in Pids, NEW approver \in Approvers, NEW w \in 0..MaxTime,
         Approve(p, approver, w)
  PROVE  IInv'
<1> DEFINE g      == grants[p] + 1
           record == [grant |-> g, approver |-> approver, window |-> w,
                      expires |-> now + Expiry, used |-> FALSE]
           m      == [mem EXCEPT !.pending = @ \ {p}, !.approvals[p] = record]
           back   == [mem EXCEPT !.approvals[p] = NoApproval]
<1>1. /\ mem \in State /\ disk \in State /\ now \in 0..MaxTime
      /\ evidence \in [Pids -> SUBSET Event] /\ grants \in [Pids -> 0..MaxGrants]
      /\ answers \in [Pids -> [Grant -> Answer]]
  BY DEF IInv, TypeOK
<1>2. g \in Grant /\ record \in Approval /\ spends[p][g] = 0
  BY NewGrant DEF Approve
<1>3. /\ m \in State /\ m.approvals = [mem.approvals EXCEPT ![p] = record]
      /\ m.denials = mem.denials /\ m.lockdown = mem.lockdown
  BY <1>1, <1>2 DEF State
<1>4. /\ back \in State /\ back.approvals = [mem.approvals EXCEPT ![p] = NoApproval]
      /\ back.denials = mem.denials /\ back.lockdown = mem.lockdown
  BY <1>1 DEF State
<1>5. PICK k \in Tables, r \in WriteResults :
        /\ evidence' = IF Saved(k) THEN Record(p, "approved", r) ELSE evidence
        /\ \/ mem' = m /\ Saved(k) /\ disk' = SaveTables(m, disk, k)
           \/ mem' \in {back, Locked(back)} /\ disk' = SaveTables(m, disk, k)
           \/ RestartFrom(SaveTables(m, disk, k))
        /\ \/ answers' = answers
           \/ \E a \in Answer : answers' = [answers EXCEPT ![p][g] = a]
  BY DEF Approve, Answer
<1> DEFINE d == SaveTables(m, disk, k)
<1> HIDE DEF m, back, record, g
<1>6. /\ d \in State /\ d.approvals \in {m.approvals, disk.approvals}
      /\ Saved(k) => d.approvals = m.approvals
      /\ \/ d.denials = mem.denials /\ d.lockdown = mem.lockdown
         \/ d.denials = disk.denials /\ d.lockdown = disk.lockdown
  <2>1. m \in State /\ disk \in State /\ k \in Tables
    BY <1>1, <1>3
  <2>2. /\ d \in State /\ d.approvals \in {m.approvals, disk.approvals}
        /\ Saved(k) => d.approvals = m.approvals
    BY <2>1, SaveTablesType
  <2>3. \/ d.denials = m.denials /\ d.lockdown = m.lockdown
        \/ d.denials = disk.denials /\ d.lockdown = disk.lockdown
    BY <2>1, SaveTablesType
  <2> QED
    BY <1>3, <2>2, <2>3
<1>7. /\ Locked(back) \in State /\ Locked(back).approvals = back.approvals
      /\ Locked(back).lockdown = TRUE
  BY <1>4, LockedType
<1> HIDE DEF d
<1>8. /\ mem' \in State /\ disk' \in State /\ disk'.approvals = d.approvals
      /\ disk'.denials = d.denials /\ disk'.lockdown = d.lockdown
      /\ \/ mem' = disk'
         \/ mem'.denials = mem.denials /\ mem'.lockdown = mem.lockdown
         \/ mem'.lockdown = TRUE
      /\ \/ mem'.approvals \in {d.approvals, back.approvals, EmptyState.approvals}
         \/ mem'.approvals = m.approvals /\ Saved(k)
  <2>1. CASE mem' = m /\ Saved(k) /\ disk' = d
    BY <1>3, <1>6, <2>1
  <2>2. CASE mem' \in {back, Locked(back)} /\ disk' = d
    BY <1>4, <1>6, <1>7, <2>2
  <2>3. CASE RestartFrom(d)
    BY <1>1, <1>6, <2>3, RestartType
  <2> QED
    BY <1>5, <2>1, <2>2, <2>3 DEF d
<1>9. /\ UNCHANGED <<now, effects, spends, proposed>>
      /\ grants' = [grants EXCEPT ![p] = g]
  BY DEF Approve, g
<1>10. TypeOK'
  <2>1. evidence' \in [Pids -> SUBSET Event]
    BY <1>1, <1>5 DEF Record, Event
  <2>2. grants' \in [Pids -> 0..MaxGrants]
    BY <1>1, <1>2, <1>9 DEF Grant
  <2>3. answers' \in [Pids -> [Grant -> Answer]]
    <3>1. answers[p] \in [Grant -> Answer]
      BY <1>1
    <3>2. \A a \in Answer : [answers[p] EXCEPT ![g] = a] \in [Grant -> Answer]
      BY <1>2, <3>1
    <3>3. \A a \in Answer :
            [answers EXCEPT ![p] = [answers[p] EXCEPT ![g] = a]] \in [Pids -> [Grant -> Answer]]
      BY <1>1, <3>2
    <3> QED
      BY <1>1, <1>5, <3>3
  <2>4. mem' \in State /\ disk' \in State
    BY <1>8
  <2> QED
    BY <1>1, <1>9, <2>1, <2>2, <2>3, <2>4 DEF IInv, TypeOK
<1>11. ThresholdLocks'
  BY <1>6, <1>8 DEF IInv, ThresholdLocks
<1>12. ASSUME NEW q \in Pids
       PROVE  mem'.approvals[q] # NoApproval => disk'.approvals[q] = mem'.approvals[q]
  <2>1. mem.approvals[q] # NoApproval => disk.approvals[q] = mem.approvals[q]
    BY DEF IInv, DurableApprovals
  <2>2. back.approvals[q] # NoApproval =>
          q # p /\ back.approvals[q] = mem.approvals[q] /\ m.approvals[q] = mem.approvals[q]
    BY <1>1, <1>3, <1>4 DEF State
  <2>3. EmptyState.approvals[q] = NoApproval
    BY DEF EmptyState
  <2> QED
    BY <1>6, <1>8, <2>1, <2>2, <2>3
<1>13. AtMostOncePerApproval'
  BY <1>9 DEF IInv, AtMostOncePerApproval
<1>14. ASSUME NEW q \in Pids
       PROVE  /\ \A h \in Grant : h > grants'[q] => spends'[q][h] = 0
              /\ disk'.approvals[q] # NoApproval =>
                   /\ disk'.approvals[q].grant <= grants'[q]
                   /\ spends'[q][disk'.approvals[q].grant] > 0 => disk'.approvals[q].used
  <2>1. /\ \A h \in Grant : h > grants[q] => spends[q][h] = 0
        /\ disk.approvals[q] # NoApproval =>
             /\ disk.approvals[q].grant <= grants[q]
             /\ spends[q][disk.approvals[q].grant] > 0 => disk.approvals[q].used
    BY DEF IInv, SpentRowsAreUsed
  <2>2. /\ grants[q] \in Nat /\ grants'[q] \in Nat /\ grants[q] <= grants'[q]
        /\ q = p => grants'[q] = g
    BY <1>1, <1>9, ConstantsAssumption DEF g
  <2>3. \A h \in Grant : h > grants'[q] => h > grants[q]
    BY <2>2 DEF Grant
  <2>4. CASE d.approvals[q] = disk.approvals[q]
    <3>1. disk.approvals[q] # NoApproval => disk.approvals[q].grant \in Grant
      BY <1>1 DEF State, Approval
    <3>2. disk.approvals[q] # NoApproval => disk.approvals[q].grant <= grants'[q]
      BY <2>1, <2>2, <3>1 DEF Grant
    <3> QED
      BY <1>8, <1>9, <2>1, <2>3, <2>4, <3>2
  <2>5. CASE d.approvals[q] # disk.approvals[q]
    <3>1. d.approvals[q] = m.approvals[q]
      BY <1>6, <2>5
    <3>2. q # p => m.approvals[q] = mem.approvals[q]
      BY <1>1, <1>3 DEF State
    <3>3. q = p => m.approvals[q] = record
      BY <1>1, <1>3 DEF State
    <3>4. q # p => d.approvals[q] = NoApproval
      BY <2>5, <3>1, <3>2 DEF IInv, DurableApprovals
    <3>5. record.grant = g /\ g \in Nat
      BY <1>2 DEF record, Grant
    <3>6. q = p => record.grant <= grants'[q] /\ spends'[q][record.grant] = 0
      BY <1>2, <1>9, <2>2, <3>5
    <3> QED
      BY <1>8, <1>9, <2>1, <2>3, <3>1, <3>3, <3>4, <3>6
  <2> QED
    BY <2>4, <2>5
<1> QED
  BY <1>10, <1>11, <1>12, <1>13, <1>14 DEF IInv, DurableApprovals, SpentRowsAreUsed

LEMMA TickInv ==
  ASSUME IInv, Tick
  PROVE  IInv'
<1>1. UNCHANGED <<mem, disk, evidence, effects, spends, grants, proposed, answers>>
  BY DEF Tick, history
<1>2. now' \in 0..MaxTime
  BY ConstantsAssumption DEF Tick, IInv, TypeOK
<1> QED
  BY <1>1, <1>2 DEF IInv, TypeOK, DurableApprovals, ThresholdLocks,
                    AtMostOncePerApproval, SpentRowsAreUsed

\* What execute_approved knows when it consumes a row: the row is the record it
\* validated, that approval was given, and nothing was spent on it yet.
LEMMA Unspent ==
  ASSUME IInv, NEW p \in Pids, Consumable(p)
  PROVE  LET g == mem.approvals[p].grant
         IN  /\ mem.approvals[p] \in Approval /\ disk.approvals[p] = mem.approvals[p]
             /\ g \in Grant /\ g <= grants[p]
             /\ spends[p][g] = 0 /\ effects[p][g] = 0
<1>1. mem \in State /\ disk \in State
  BY DEF IInv, TypeOK
<1>2. /\ disk.approvals[p] = mem.approvals[p] /\ disk.approvals[p] # NoApproval
      /\ ~disk.approvals[p].used
  BY DEF Consumable
<1>3. mem.approvals[p] \in Approval
  BY <1>1, <1>2 DEF State
<1> DEFINE g == mem.approvals[p].grant
<1>4. g \in Grant
  BY <1>3 DEF Approval
<1>5. spends[p][g] \in Nat /\ effects[p][g] \in Nat
  BY <1>4 DEF IInv, TypeOK
<1>6. g <= grants[p] /\ ~(spends[p][g] > 0)
  BY <1>2 DEF IInv, SpentRowsAreUsed
<1>7. effects[p][g] <= spends[p][g]
  BY <1>4 DEF IInv, AtMostOncePerApproval
<1> QED
  BY <1>2, <1>3, <1>4, <1>5, <1>6, <1>7

\* Execute spends that approval once, with at most one effect, and marks its row.
LEMMA ExecuteStep ==
  ASSUME IInv, NEW p \in Pids, NEW w \in 0..MaxTime, Execute(p, w)
  PROVE  LET g == mem.approvals[p].grant
         IN  /\ g \in Grant /\ g <= grants[p]
             /\ spends[p][g] = 0 /\ effects[p][g] = 0
             /\ spends' = [spends EXCEPT ![p] = [spends[p] EXCEPT ![g] = 1]]
             /\ \E effect \in {0, 1} :
                  effects' = [effects EXCEPT ![p] = [effects[p] EXCEPT ![g] = effect]]
             /\ UNCHANGED <<now, grants, proposed, answers>>
<1> DEFINE g == mem.approvals[p].grant
<1>1. /\ g \in Grant /\ g <= grants[p] /\ spends[p][g] = 0 /\ effects[p][g] = 0
  BY Unspent DEF Execute
<1>2. /\ spends \in [Pids -> [Grant -> Nat]] /\ effects \in [Pids -> [Grant -> Nat]]
  BY DEF IInv, TypeOK
<1>3. /\ spends' = [spends EXCEPT ![p][g] = @ + 1]
      /\ \E effect \in {0, 1} : effects' = [effects EXCEPT ![p][g] = @ + effect]
      /\ UNCHANGED <<now, grants, proposed, answers>>
  BY DEF Execute
<1> HIDE DEF g
<1>4. spends' = [spends EXCEPT ![p] = [spends[p] EXCEPT ![g] = 1]]
  BY <1>1, <1>2, <1>3
<1>5. \E effect \in {0, 1} :
        effects' = [effects EXCEPT ![p] = [effects[p] EXCEPT ![g] = effect]]
  <2>1. PICK effect \in {0, 1} : effects' = [effects EXCEPT ![p][g] = @ + effect]
    BY <1>3
  <2>2. effects[p][g] + effect = effect
    BY <1>1
  <2> QED
    BY <2>1, <2>2
<1> QED
  BY <1>1, <1>3, <1>4, <1>5 DEF g

LEMMA ExecuteInv ==
  ASSUME IInv, NEW p \in Pids, NEW w \in 0..MaxTime, Execute(p, w)
  PROVE  IInv'
<1> DEFINE g == mem.approvals[p].grant
           m == [mem EXCEPT !.approvals[p].used = TRUE, !.attempts[Key(p)] = NoAttempt]
           d == ConsumeRow(disk, p)
           row == [mem.approvals[p] EXCEPT !.used = TRUE]
<1>1. /\ mem \in State /\ disk \in State /\ now \in 0..MaxTime
      /\ evidence \in [Pids -> SUBSET Event]
      /\ spends \in [Pids -> [Grant -> Nat]] /\ effects \in [Pids -> [Grant -> Nat]]
  BY DEF IInv, TypeOK
<1>2. /\ mem.approvals[p] \in Approval /\ disk.approvals[p] = mem.approvals[p]
      /\ disk.approvals[p] # NoApproval
  BY Unspent DEF Execute, Consumable
<1>3. row \in Approval /\ row.grant = g /\ row.used = TRUE
  BY <1>2 DEF Approval
<1>4. NoAttempt \in Attempt
  BY ConstantsAssumption DEF NoAttempt, Attempt
<1>5. /\ m \in State /\ m.approvals = [mem.approvals EXCEPT ![p] = row]
      /\ m.denials = mem.denials /\ m.lockdown = mem.lockdown
  BY <1>1, <1>3, <1>4 DEF State
<1>6. /\ d \in State /\ d.approvals = [disk.approvals EXCEPT ![p] = row]
      /\ d.denials = disk.denials /\ d.lockdown = disk.lockdown
  BY <1>1, <1>2, <1>3 DEF State, ConsumeRow
<1>7. PICK r \in WriteResults, attempts \in {disk.attempts, m.attempts} :
        /\ evidence' = Record(p, "executed", r)
        /\ \/ mem' = m /\ disk' = [d EXCEPT !.attempts = attempts]
           \/ RestartFrom([d EXCEPT !.attempts = attempts])
  BY DEF Execute
<1> DEFINE e == [d EXCEPT !.attempts = attempts]
<1>8. attempts \in [Pids \X Approvers -> Attempt]
  BY <1>1, <1>5 DEF State
<1> HIDE DEF m, d, row
<1>9. /\ e \in State /\ e.approvals = d.approvals
      /\ e.denials = disk.denials /\ e.lockdown = disk.lockdown
  BY <1>6, <1>8 DEF State
<1> HIDE DEF e
<1>10. /\ mem' \in State /\ disk' \in State /\ disk'.approvals = d.approvals
       /\ disk'.denials = disk.denials /\ disk'.lockdown = disk.lockdown
       /\ \/ mem' = disk'
          \/ /\ mem'.approvals = m.approvals
             /\ mem'.denials = mem.denials /\ mem'.lockdown = mem.lockdown
          \/ mem'.approvals = EmptyState.approvals /\ mem'.lockdown = TRUE
  BY <1>1, <1>5, <1>7, <1>9, RestartType DEF e
<1>11. /\ g \in Grant /\ g <= grants[p] /\ spends[p][g] = 0
       /\ spends' = [spends EXCEPT ![p] = [spends[p] EXCEPT ![g] = 1]]
       /\ \E effect \in {0, 1} :
            effects' = [effects EXCEPT ![p] = [effects[p] EXCEPT ![g] = effect]]
       /\ UNCHANGED <<now, grants, proposed, answers>>
  BY ExecuteStep
<1> HIDE DEF g
<1>12. TypeOK'
  <2>1. evidence' \in [Pids -> SUBSET Event]
    BY <1>1, <1>7 DEF Record, Event
  <2>2. spends' \in [Pids -> [Grant -> Nat]]
    <3>1. [spends[p] EXCEPT ![g] = 1] \in [Grant -> Nat]
      BY <1>1, <1>11
    <3> QED
      BY <1>1, <1>11, <3>1
  <2>3. effects' \in [Pids -> [Grant -> Nat]]
    <3>1. PICK effect \in {0, 1} :
            effects' = [effects EXCEPT ![p] = [effects[p] EXCEPT ![g] = effect]]
      BY <1>11
    <3>2. [effects[p] EXCEPT ![g] = effect] \in [Grant -> Nat]
      BY <1>1, <1>11
    <3> QED
      BY <1>1, <3>1, <3>2
  <2>4. mem' \in State /\ disk' \in State
    BY <1>10
  <2> QED
    BY <1>11, <2>1, <2>2, <2>3, <2>4 DEF IInv, TypeOK
<1>13. ThresholdLocks'
  BY <1>10 DEF IInv, ThresholdLocks
<1>14. AtMostOncePerApproval'
  <2> SUFFICES ASSUME NEW q \in Pids, NEW h \in Grant
               PROVE  effects'[q][h] <= spends'[q][h] /\ spends'[q][h] <= 1
    BY DEF AtMostOncePerApproval
  <2>1. effects[q][h] <= spends[q][h] /\ spends[q][h] <= 1
    BY DEF IInv, AtMostOncePerApproval
  <2>2. CASE q = p /\ h = g
    BY <1>1, <1>11, <2>2
  <2>3. CASE ~(q = p /\ h = g)
    <3>1. spends'[q][h] = spends[q][h] /\ effects'[q][h] = effects[q][h]
      BY <1>1, <1>11, <2>3
    <3> QED
      BY <2>1, <3>1
  <2> QED
    BY <2>2, <2>3
<1>15. ASSUME NEW q \in Pids
       PROVE  mem'.approvals[q] # NoApproval => disk'.approvals[q] = mem'.approvals[q]
  <2>1. mem.approvals[q] # NoApproval => disk.approvals[q] = mem.approvals[q]
    BY DEF IInv, DurableApprovals
  <2>2. m.approvals[q] # NoApproval => d.approvals[q] = m.approvals[q]
    BY <1>1, <1>5, <1>6, <2>1 DEF State
  <2>3. EmptyState.approvals[q] = NoApproval
    BY DEF EmptyState
  <2> QED
    BY <1>10, <2>2, <2>3
<1>16. ASSUME NEW q \in Pids
       PROVE  /\ \A h \in Grant : h > grants'[q] => spends'[q][h] = 0
              /\ disk'.approvals[q] # NoApproval =>
                   /\ disk'.approvals[q].grant <= grants'[q]
                   /\ spends'[q][disk'.approvals[q].grant] > 0 => disk'.approvals[q].used
  <2>1. /\ \A h \in Grant : h > grants[q] => spends[q][h] = 0
        /\ disk.approvals[q] # NoApproval =>
             /\ disk.approvals[q].grant <= grants[q]
             /\ spends[q][disk.approvals[q].grant] > 0 => disk.approvals[q].used
    BY DEF IInv, SpentRowsAreUsed
  <2>2. CASE q # p
    <3>1. spends'[q] = spends[q] /\ d.approvals[q] = disk.approvals[q]
      BY <1>1, <1>6, <1>11, <2>2 DEF State
    <3> QED
      BY <1>10, <1>11, <2>1, <3>1
  <2>3. CASE q = p
    <3>1. d.approvals[q] = row
      BY <1>1, <1>6, <2>3 DEF State
    <3>2. row.grant = g /\ row.used = TRUE
      BY <1>3
    <3>3. grants[p] \in Nat /\ \A h \in Grant : h > grants[p] => h # g
      BY <1>11 DEF IInv, TypeOK, Grant
    <3>4. \A h \in Grant : h > grants[p] => spends'[p][h] = 0
      BY <1>1, <1>11, <2>1, <2>3, <3>3
    <3> QED
      BY <1>10, <1>11, <2>3, <3>1, <3>2, <3>4
  <2> QED
    BY <2>2, <2>3
<1> QED
  BY <1>12, <1>13, <1>14, <1>15, <1>16 DEF IInv, DurableApprovals, SpentRowsAreUsed

LEMMA InitInv == Init => IInv
<1> SUFFICES ASSUME Init PROVE IInv
  OBVIOUS
<1>1. /\ mem = EmptyState /\ disk = EmptyState /\ now = 0 /\ EmptyState \in State
      /\ spends = [p \in Pids |-> [g \in Grant |-> 0]] /\ effects = spends
      /\ grants = [p \in Pids |-> 0]
  BY EmptyStateType DEF Init
<1>2. TypeOK
  BY <1>1, ConstantsAssumption DEF Init, TypeOK, Answer
<1>3. DurableApprovals /\ ThresholdLocks
  BY <1>1, ConstantsAssumption DEF DurableApprovals, ThresholdLocks, EmptyState
<1>4. AtMostOncePerApproval
  BY <1>1 DEF AtMostOncePerApproval
<1>5. SpentRowsAreUsed
  BY <1>1 DEF SpentRowsAreUsed, EmptyState
<1> QED
  BY <1>2, <1>3, <1>4, <1>5 DEF IInv

LEMMA NextInv == IInv /\ [Next]_vars => IInv'
<1> SUFFICES ASSUME IInv, [Next]_vars PROVE IInv'
  OBVIOUS
<1>1. CASE \E p \in Pids : ProposeForReview(p)
  BY <1>1, ProposeForReviewInv
<1>2. CASE \E a \in Actors, kinetic \in BOOLEAN : ProposeDenied(a, kinetic)
  BY <1>2, ProposeDeniedInv
<1>3. CASE ProposeAllowedUnlogged
  BY <1>3, ProposeAllowedUnloggedInv
<1>4. CASE \E p \in Pids, approver \in Approvers, w \in 0..MaxTime : Approve(p, approver, w)
  BY <1>4, ApproveInv
<1>5. CASE \E p \in Pids, hashOK \in BOOLEAN, w \in 0..MaxTime : ExecuteBadToken(p, hashOK, w)
  BY <1>5, ExecuteBadTokenInv
<1>6. CASE \E p \in Pids, w \in 0..MaxTime : ExecuteDenied(p, w)
  BY <1>6, ExecuteDeniedInv
<1>7. CASE \E p \in Pids, w \in 0..MaxTime : Execute(p, w)
  BY <1>7, ExecuteInv
<1>8. CASE ResetLockdown
  BY <1>8, ResetLockdownInv
<1>9. CASE Crash
  BY <1>9, CrashInv
<1>10. CASE Tick
  BY <1>10, TickInv
<1>11. CASE UNCHANGED vars
  BY <1>11 DEF vars, history, IInv, TypeOK, DurableApprovals, ThresholdLocks,
               AtMostOncePerApproval, SpentRowsAreUsed
<1> QED
  BY <1>1, <1>2, <1>3, <1>4, <1>5, <1>6, <1>7, <1>8, <1>9, <1>10, <1>11 DEF Next

-----------------------------------------------------------------------------
(***************************************************************************)
(* Theorems.                                                               *)
(***************************************************************************)

\* IInv is an invariant: true of the empty state and kept by every handler,
\* every partial save, failed write and restart.
THEOREM InductiveInvariant == Spec => []IInv
<1>1. Init => IInv
  BY InitInv
<1>2. IInv /\ [Next]_vars => IInv'
  BY NextInv
<1> QED
  BY <1>1, <1>2, PTL DEF Spec

\* Memory and tables hold states of the adapter, with denial and attempt counters
\* inside their limits.
THEOREM TypeCorrect == Spec => []TypeOK
<1>1. IInv => TypeOK
  BY DEF IInv
<1> QED
  BY <1>1, InductiveInvariant, PTL

\* execute_approved hands an approval to the backend at most once, with at most
\* one mailbox side effect, whatever fails and however often the process restarts.
THEOREM AtMostOnce == Spec => []AtMostOncePerApproval
<1>1. IInv => AtMostOncePerApproval
  BY DEF IInv
<1> QED
  BY <1>1, InductiveInvariant, PTL

\* Every approval the adapter would act on is the row in SQLite, so a rollback or
\* a restart never revives a spent approval.
THEOREM ApprovalsDurable == Spec => []DurableApprovals
<1>1. IInv => DurableApprovals
  BY DEF IInv
<1> QED
  BY <1>1, InductiveInvariant, PTL

\* An actor at the denial threshold means lockdown, in memory and in the table.
THEOREM ThresholdMeansLockdown == Spec => []ThresholdLocks
<1>1. IInv => ThresholdLocks
  BY DEF IInv
<1> QED
  BY <1>1, InductiveInvariant, PTL

\* No approval is spent before approve_proposal gave it, and the row of a spent
\* approval says that it is used.
THEOREM RowsAreUsed == Spec => []SpentRowsAreUsed
<1>1. IInv => SpentRowsAreUsed
  BY DEF IInv
<1> QED
  BY <1>1, InductiveInvariant, PTL

-----------------------------------------------------------------------------
(***************************************************************************)
(* The gate implements OneShotApproval: approve gives one approval, execute *)
(* spends one, and every other step changes neither.                       *)
(***************************************************************************)
Given     == {x \in Pids \X Grant : x[2] <= grants[x[1]]}
Spent     == {x \in Pids \X Grant : spends[x[1]][x[2]] > 0}
Performed == {x \in Pids \X Grant : effects[x[1]][x[2]] > 0}

\* A step that gives, spends and performs nothing is a stutter of OneShotApproval.
LEMMA StutterRefines ==
  ASSUME UNCHANGED <<effects, spends, grants>>
  PROVE  UNCHANGED <<Given, Spent, Performed>>
BY DEF Given, Spent, Performed

\* Approving a proposal gives exactly the approval of its next grant.
LEMMA ApproveRefines ==
  ASSUME IInv, NEW p \in Pids, NEW approver \in Approvers, NEW w \in 0..MaxTime,
         Approve(p, approver, w)
  PROVE  \E x \in Pids \X Grant :
           /\ x \notin Given
           /\ Given' = Given \cup {x}
           /\ UNCHANGED <<Spent, Performed>>
<1> DEFINE g == grants[p] + 1
           x == <<p, g>>
<1>1. /\ grants \in [Pids -> 0..MaxGrants] /\ grants' = [grants EXCEPT ![p] = g]
      /\ UNCHANGED <<effects, spends>>
  BY DEF Approve, IInv, TypeOK
<1>2. g \in Grant
  BY NewGrant DEF Approve
<1>3. \A q \in Pids, h \in Grant : h <= grants'[q] <=> h <= grants[q] \/ <<q, h>> = x
  <2> TAKE q \in Pids, h \in Grant
  <2>1. grants[q] \in Nat /\ h \in Nat
    BY <1>1, ConstantsAssumption DEF Grant
  <2>2. CASE q = p
    BY <1>1, <2>1, <2>2
  <2>3. CASE q # p
    BY <1>1, <2>3
  <2> QED
    BY <2>2, <2>3
<1> HIDE DEF x
<1>4. Given' = Given \cup {x}
  BY <1>2, <1>3 DEF Given, x
<1>5. x \in Pids \X Grant /\ x \notin Given
  <2>1. ~(g <= grants[p])
    BY <1>1, ConstantsAssumption
  <2> QED
    BY <1>2, <2>1 DEF Given, x
<1>6. UNCHANGED <<Spent, Performed>>
  BY <1>1 DEF Spent, Performed
<1> QED
  BY <1>4, <1>5, <1>6

\* Executing spends exactly the approval whose row is consumed, and performs that
\* one or none.
LEMMA ExecuteRefines ==
  ASSUME IInv, NEW p \in Pids, NEW w \in 0..MaxTime, Execute(p, w)
  PROVE  \E x \in Pids \X Grant :
           /\ x \in Given \ Spent
           /\ Spent' = Spent \cup {x}
           /\ Performed' \in {Performed, Performed \cup {x}}
           /\ UNCHANGED Given
<1> DEFINE g == mem.approvals[p].grant
           x == <<p, g>>
<1>1. /\ g \in Grant /\ g <= grants[p] /\ spends[p][g] = 0 /\ effects[p][g] = 0
      /\ spends' = [spends EXCEPT ![p] = [spends[p] EXCEPT ![g] = 1]]
      /\ \E effect \in {0, 1} :
           effects' = [effects EXCEPT ![p] = [effects[p] EXCEPT ![g] = effect]]
      /\ UNCHANGED grants
  BY ExecuteStep
<1>2. /\ spends \in [Pids -> [Grant -> Nat]] /\ effects \in [Pids -> [Grant -> Nat]]
  BY DEF IInv, TypeOK
<1>3. PICK effect \in {0, 1} :
        effects' = [effects EXCEPT ![p] = [effects[p] EXCEPT ![g] = effect]]
  BY <1>1
<1> HIDE DEF g
<1>4. \A q \in Pids, h \in Grant :
        /\ spends'[q][h] > 0 <=> spends[q][h] > 0 \/ (q = p /\ h = g)
        /\ effects'[q][h] > 0 <=> effects[q][h] > 0 \/ (q = p /\ h = g /\ effect = 1)
  <2> TAKE q \in Pids, h \in Grant
  <2>1. CASE q = p /\ h = g
    BY <1>1, <1>2, <1>3, <2>1
  <2>2. CASE ~(q = p /\ h = g)
    <3>1. spends'[q][h] = spends[q][h] /\ effects'[q][h] = effects[q][h]
      BY <1>1, <1>2, <1>3, <2>2
    <3> QED
      BY <2>2, <3>1
  <2> QED
    BY <2>1, <2>2
<1>5. x \in Given \ Spent
  BY <1>1 DEF Given, Spent
<1>6. Spent' = Spent \cup {x}
  BY <1>1, <1>4 DEF Spent
<1>7. Performed' \in {Performed, Performed \cup {x}}
  <2>1. CASE effect = 1
    <3>1. Performed' = Performed \cup {x}
      BY <1>1, <1>4, <2>1 DEF Performed
    <3> QED
      BY <3>1
  <2>2. CASE effect = 0
    <3>1. Performed' = Performed
      BY <1>4, <2>2 DEF Performed
    <3> QED
      BY <3>1
  <2> QED
    BY <2>1, <2>2
<1>8. UNCHANGED Given
  BY <1>1 DEF Given
<1> QED
  BY <1>1, <1>5, <1>6, <1>7, <1>8

\* Every step of the gate is a step or a stutter of OneShotApproval.
LEMMA StepRefines ==
  IInv /\ [Next]_vars => [OneShot!Next]_<<Given, Spent, Performed>>
<1> SUFFICES ASSUME IInv, [Next]_vars
             PROVE  OneShot!Next \/ UNCHANGED <<Given, Spent, Performed>>
  OBVIOUS
<1>1. CASE \E p \in Pids, approver \in Approvers, w \in 0..MaxTime : Approve(p, approver, w)
  BY <1>1, ApproveRefines DEF OneShot!Next, OneShot!Give, Given, Spent, Performed
<1>2. CASE \E p \in Pids, w \in 0..MaxTime : Execute(p, w)
  BY <1>2, ExecuteRefines DEF OneShot!Next, OneShot!Spend, Given, Spent, Performed
<1>3. CASE UNCHANGED <<effects, spends, grants>>
  BY <1>3, StutterRefines
<1>4. ASSUME NEW p \in Pids, ProposeForReview(p) PROVE UNCHANGED <<effects, spends, grants>>
  BY <1>4 DEF ProposeForReview
<1>5. ASSUME NEW a \in Actors, NEW kinetic \in BOOLEAN, ProposeDenied(a, kinetic)
      PROVE  UNCHANGED <<effects, spends, grants>>
  BY <1>5 DEF ProposeDenied, history
<1>6. ASSUME NEW p \in Pids, NEW hashOK \in BOOLEAN, NEW w \in 0..MaxTime,
             ExecuteBadToken(p, hashOK, w)
      PROVE  UNCHANGED <<effects, spends, grants>>
  BY <1>6 DEF ExecuteBadToken, history
<1>7. ASSUME NEW p \in Pids, NEW w \in 0..MaxTime, ExecuteDenied(p, w)
      PROVE  UNCHANGED <<effects, spends, grants>>
  BY <1>7 DEF ExecuteDenied, history
<1>8. ASSUME ProposeAllowedUnlogged \/ ResetLockdown \/ Crash \/ Tick \/ UNCHANGED vars
      PROVE  UNCHANGED <<effects, spends, grants>>
  BY <1>8 DEF ProposeAllowedUnlogged, ResetLockdown, Crash, Tick, vars, history
<1> QED
  BY <1>1, <1>2, <1>3, <1>4, <1>5, <1>6, <1>7, <1>8 DEF Next

LEMMA InitRefines == Init => OneShot!Init
BY ConstantsAssumption DEF Init, OneShot!Init, Grant

\* The gate implements OneShotApproval: approvals are given, spent at most once
\* and only after they were given, and performed only by being spent.
THEOREM Refinement == Spec => ImplementsOneShot
<1>1. Init => OneShot!Init
  BY InitRefines
<1>2. IInv /\ [Next]_vars => [OneShot!Next]_<<Given, Spent, Performed>>
  BY StepRefines
<1> QED
  BY <1>1, <1>2, InductiveInvariant, PTL
  DEF Spec, ImplementsOneShot, OneShot!Spec, Given, Spent, Performed

-----------------------------------------------------------------------------
(***************************************************************************)
(* Lockdown.                                                               *)
(***************************************************************************)

\* Every handler but reset_lockdown keeps a lockdown that is in memory and in
\* the table: what it writes, and what a restart reads, holds the flag.
LEMMA LockdownKept ==
  ASSUME IInv, [Next]_vars, mem.lockdown, disk.lockdown, ~mem'.lockdown
  PROVE  ResetLockdown
<1>1. mem \in State /\ disk \in State /\ now \in 0..MaxTime
  BY DEF IInv, TypeOK
<1>2. ASSUME NEW d \in State, RestartFrom(d), d.lockdown PROVE FALSE
  BY <1>1, <1>2, RestartType
<1>3. ASSUME NEW m \in State, m.lockdown, NEW k \in Tables
      PROVE  SaveTables(m, disk, k) \in State /\ SaveTables(m, disk, k).lockdown
  BY <1>1, <1>3, SaveTablesType
<1>4. ~ (\E p \in Pids : ProposeForReview(p))
  BY DEF ProposeForReview
<1>5. ~ (\E a \in Actors, kinetic \in BOOLEAN : ProposeDenied(a, kinetic))
  BY DEF ProposeDenied
<1>6. ~ ProposeAllowedUnlogged
  BY DEF ProposeAllowedUnlogged
<1>7. ASSUME NEW p \in Pids, NEW approver \in Approvers, NEW w \in 0..MaxTime,
             Approve(p, approver, w)
      PROVE  FALSE
  <2> DEFINE record == [grant |-> grants[p] + 1, approver |-> approver, window |-> w,
                        expires |-> now + Expiry, used |-> FALSE]
             m    == [mem EXCEPT !.pending = @ \ {p}, !.approvals[p] = record]
             back == [mem EXCEPT !.approvals[p] = NoApproval]
  <2>1. record \in Approval
    BY <1>7, NewGrant DEF Approve
  <2>2. m \in State /\ m.lockdown /\ back.lockdown /\ back \in State
    BY <1>1, <2>1 DEF State
  <2>3. Locked(back).lockdown
    BY <2>2, LockedType
  <2>4. PICK k \in Tables :
          mem' \in {m, back, Locked(back)} \/ RestartFrom(SaveTables(m, disk, k))
    BY <1>7 DEF Approve
  <2> HIDE DEF m, back
  <2>5. CASE RestartFrom(SaveTables(m, disk, k))
    BY <1>2, <1>3, <2>2, <2>5
  <2> QED
    BY <2>2, <2>3, <2>4, <2>5
<1>8. ASSUME NEW p \in Pids, NEW hashOK \in BOOLEAN, NEW w \in 0..MaxTime,
             ExecuteBadToken(p, hashOK, w)
      PROVE  FALSE
  <2> DEFINE m == [mem EXCEPT !.attempts[Key(p)] = Failed(@)]
             d == [disk EXCEPT !.attempts = m.attempts]
  <2>1. mem.approvals[p] \in Approval
    BY <1>1, <1>8 DEF ExecuteBadToken, State
  <2>2. Key(p) \in Pids \X Approvers
    BY <2>1 DEF Key, Approval
  <2>3. Failed(mem.attempts[Key(p)]) \in Attempt
    BY <1>1, <2>2, FailedType DEF State
  <2>4. m \in State /\ m.lockdown
    BY <1>1, <2>2, <2>3 DEF State
  <2>5. d \in State /\ d.lockdown
    BY <1>1, <2>4 DEF State
  <2>6. mem' = m \/ RestartFrom(d)
    BY <1>8 DEF ExecuteBadToken
  <2> QED
    BY <1>2, <2>4, <2>5, <2>6
<1>9. ASSUME NEW p \in Pids, NEW w \in 0..MaxTime, ExecuteDenied(p, w) PROVE FALSE
  BY <1>1, <1>9 DEF ExecuteDenied, State
<1>10. ASSUME NEW p \in Pids, NEW w \in 0..MaxTime, Execute(p, w) PROVE FALSE
  <2> DEFINE m == [mem EXCEPT !.approvals[p].used = TRUE, !.attempts[Key(p)] = NoAttempt]
             d == ConsumeRow(disk, p)
  <2>1. /\ mem.approvals[p] \in Approval /\ disk.approvals[p] = mem.approvals[p]
    BY <1>10, Unspent DEF Execute
  <2>2. m.lockdown /\ m.attempts \in [Pids \X Approvers -> Attempt]
    <3>1. NoAttempt \in Attempt
      BY ConstantsAssumption DEF NoAttempt, Attempt
    <3> QED
      BY <1>1, <3>1 DEF State
  <2>3. [disk.approvals[p] EXCEPT !.used = TRUE] \in Approval
    BY <2>1 DEF Approval
  <2>4. d \in State /\ d.lockdown
    BY <1>1, <2>3 DEF State, ConsumeRow
  <2>5. PICK attempts \in {disk.attempts, m.attempts} :
          mem' = m \/ RestartFrom([d EXCEPT !.attempts = attempts])
    BY <1>10 DEF Execute
  <2> HIDE DEF m, d
  <2>6. [d EXCEPT !.attempts = attempts] \in State /\ [d EXCEPT !.attempts = attempts].lockdown
    BY <1>1, <2>2, <2>4, <2>5 DEF State
  <2> QED
    BY <1>2, <2>2, <2>5, <2>6
<1>11. ASSUME Crash PROVE FALSE
  BY <1>1, <1>2, <1>11 DEF Crash
<1>12. ASSUME Tick \/ UNCHANGED vars PROVE FALSE
  <2>1. mem' = mem
    BY <1>12 DEF Tick, vars
  <2> QED
    BY <2>1
<1> QED
  BY <1>4, <1>5, <1>6, <1>7, <1>8, <1>9, <1>10, <1>11, <1>12 DEF Next

\* A lockdown that reached the table ends only through reset_lockdown.
THEOREM DurableLockdown == Spec => DurableLockdownNeedsReset
<1>1. IInv /\ [Next]_vars =>
        [mem.lockdown /\ disk.lockdown /\ ~mem.lockdown' => ResetLockdown]_vars
  BY LockdownKept
<1> QED
  BY <1>1, InductiveInvariant, PTL DEF Spec, DurableLockdownNeedsReset

-----------------------------------------------------------------------------
(***************************************************************************)
(* One action per proposal: what becomes of the pending proposals and the  *)
(* approvals in memory and tables.                                         *)
(***************************************************************************)

\* Proposal p was made, and waits for an approval neither in memory nor in the
\* table.
Gone(p) == p \in proposed /\ p \notin mem.pending \cup disk.pending

\* Nothing waits for an approval, or was approved, that was not proposed.
KnownProposals ==
  /\ mem.pending \cup disk.pending \subseteq proposed
  /\ \A p \in Pids : disk.approvals[p] # NoApproval => p \in proposed

\* An approval that can be acted on, now or after a restart, is of a proposal that
\* waits for no other.
ApprovedIsGone ==
  Orderly => \A p \in Pids :
    \/ mem.approvals[p] # NoApproval
    \/ "crash" \in faults /\ disk.approvals[p] # NoApproval
    => Gone(p)

\* A proposal that was handed to the backend waits for no approval, and its row,
\* if there is one, is that of the approval that was spent.
SpentIsGone ==
  Orderly => \A p \in Pids, g \in Grant : spends[p][g] > 0 =>
    /\ Gone(p)
    /\ disk.approvals[p] # NoApproval => disk.approvals[p].grant = g

\* While the process stays up, an approval in memory was logged, and so was that
\* of every effect.
Logged ==
  LedgerRequired /\ "crash" \notin faults =>
    \A p \in Pids : mem.approvals[p] # NoApproval \/ (\E g \in Grant : effects[p][g] > 0)
                      => "approved" \in evidence[p]

\* The inductive invariant of proposals and approvals: the three properties that
\* the runs check, and what each of them needs of the step before.
ProposalInv ==
  /\ KnownProposals
  /\ ApprovedIsGone
  /\ SpentIsGone
  /\ OneActionPerProposal
  /\ AckedApprovalsSurvive
  /\ DecidedStaysDecided
  /\ Logged

-----------------------------------------------------------------------------
(***************************************************************************)
(* The shape of a step: which proposals and approvals memory and tables    *)
(* hold after it.                                                          *)
(***************************************************************************)

\* The tables hold the proposals P and the approvals A, or what they held before;
\* pending is written first.
Stores(P, A) ==
  /\ disk'.pending \in {P, disk.pending}
  /\ \/ disk'.approvals = disk.approvals
     \/ disk'.approvals = A /\ disk'.pending = P

Holds(P, A) == mem'.pending = P /\ mem'.approvals = A

\* A new process holds what the tables hold or, if it cannot read them, nothing.
Restarts ==
  /\ "crash" \in faults
  /\ \/ Holds(disk'.pending, disk'.approvals)
     \/ "load" \in faults /\ Holds({}, EmptyState.approvals)

\* A new process takes pending and approvals from the tables it finds.
LEMMA RestartShape ==
  ASSUME NEW d \in State, now \in 0..MaxTime, RestartFrom(d)
  PROVE  Restarts /\ disk'.pending = d.pending /\ disk'.approvals = d.approvals
<1> DEFINE c == PurgeAttempts(d)
           e == [EmptyState EXCEPT !.lockdown = TRUE, !.attempts = c.attempts]
<1>1. c \in State /\ c.approvals = d.approvals /\ c.pending = d.pending
  BY PurgeType
<1>2. /\ disk' = c /\ "crash" \in faults
      /\ \/ mem' = c
         \/ mem' = e /\ "load" \in faults
  BY DEF RestartFrom, Loads
<1>3. e.pending = {} /\ e.approvals = EmptyState.approvals
  BY EmptyStateType DEF EmptyState, State
<1> QED
  BY <1>1, <1>2, <1>3 DEF Restarts, Holds

\* A save that fails between two tables has written pending before approvals.
LEMMA SaveTablesOrder ==
  ASSUME NEW m \in State, NEW d \in State, NEW k \in Tables
  PROVE  /\ SaveTables(m, d, k).pending \in {m.pending, d.pending}
         /\ \/ SaveTables(m, d, k).approvals = d.approvals
            \/ /\ SaveTables(m, d, k).approvals = m.approvals
               /\ SaveTables(m, d, k).pending = m.pending
BY DEF SaveTables, Tables

\* A save, and the process that may start on what it wrote, leaves the tables with
\* all of the new state, with pending only, or as they were.
LEMMA SaveShape ==
  ASSUME NEW m \in State, NEW k \in Tables,
         disk \in State, now \in 0..MaxTime,
         disk' = SaveTables(m, disk, k) \/ RestartFrom(SaveTables(m, disk, k))
  PROVE  Stores(m.pending, m.approvals)
<1> DEFINE d == SaveTables(m, disk, k)
<1>1. /\ d \in State /\ d.pending \in {m.pending, disk.pending}
      /\ \/ d.approvals = disk.approvals
         \/ d.approvals = m.approvals /\ d.pending = m.pending
  BY SaveTablesType, SaveTablesOrder
<1>2. disk'.pending = d.pending /\ disk'.approvals = d.approvals
  BY <1>1, RestartShape
<1> QED
  BY <1>1, <1>2 DEF Stores

\* Steps that propose, give and spend nothing.
Quiet ==
  /\ Stores(mem.pending, mem.approvals)
  /\ Holds(mem.pending, mem.approvals) \/ Restarts
  /\ UNCHANGED <<evidence, effects, spends, grants, proposed, answers>>

\* Proposal p is added to pending, in memory and, as far as the save came, in the
\* table.
Proposes(p) ==
  /\ p \notin proposed
  /\ proposed' = proposed \cup {p}
  /\ Stores(mem.pending \cup {p}, mem.approvals)
  /\ Holds(mem.pending \cup {p}, mem.approvals) \/ Restarts
  /\ \A q \in Pids : evidence[q] \subseteq evidence'[q]
  /\ UNCHANGED <<effects, spends, grants, answers>>

\* The approval rec of p is committed, taken back in memory, or left to the
\* tables by a crash.
Approves(p, rec) ==
  LET P == mem.pending \ {p}
      A == [mem.approvals EXCEPT ![p] = rec]
      g == grants[p] + 1
  IN  /\ p \in mem.pending
      /\ rec \in Approval /\ rec.window <= now
      /\ Stores(P, A)
      /\ \/ /\ Holds(P, A) /\ disk'.pending = P /\ disk'.approvals = A
            /\ LedgerRequired => "approved" \in evidence'[p]
            /\ answers' = [answers EXCEPT ![p][g] = "approved"]
         \/ /\ Holds(mem.pending, [mem.approvals EXCEPT ![p] = NoApproval])
            /\ "save" \in faults \/ "ledger" \in faults
            /\ answers' = [answers EXCEPT ![p][g] = "refused"]
         \/ Restarts /\ UNCHANGED answers
      /\ \A q \in Pids : evidence[q] \subseteq evidence'[q]
      /\ UNCHANGED <<effects, spends, proposed>>

\* The approval of p is marked used, row and memory, before the backend call; rec
\* is the approval after it.
Executes(p, rec) ==
  LET g == mem.approvals[p].grant
  IN  /\ mem.approvals[p] # NoApproval
      /\ rec \in Approval /\ rec.grant = g /\ g \in Grant
      /\ rec.approver = mem.approvals[p].approver /\ rec.window = mem.approvals[p].window
      /\ disk.approvals[p] = mem.approvals[p]
      /\ disk'.pending = disk.pending
      /\ disk'.approvals = [disk.approvals EXCEPT ![p] = rec]
      /\ Holds(mem.pending, [mem.approvals EXCEPT ![p] = rec]) \/ Restarts
      /\ \A q \in Pids : evidence[q] \subseteq evidence'[q]
      /\ spends' = [spends EXCEPT ![p] = [spends[p] EXCEPT ![g] = 1]]
      /\ \E effect \in {0, 1} :
           effects' = [effects EXCEPT ![p] = [effects[p] EXCEPT ![g] = effect]]
      /\ UNCHANGED <<grants, proposed, answers>>

\* A step that changes neither pending nor approvals of memory is quiet, with or
\* without a crash after its save.
LEMMA QuietShape ==
  ASSUME IInv, NEW d \in State, NEW m \in State,
         UNCHANGED <<evidence, effects, spends, grants, proposed, answers>>,
         m.pending = mem.pending, m.approvals = mem.approvals,
         \/ mem' = m /\ disk' = d
         \/ RestartFrom(d),
         d.pending \in {mem.pending, disk.pending},
         \/ d.approvals = disk.approvals
         \/ d.approvals = mem.approvals /\ d.pending = mem.pending
  PROVE  Quiet
<1>1. now \in 0..MaxTime
  BY DEF IInv, TypeOK
<1>2. CASE RestartFrom(d)
  BY <1>1, <1>2, RestartShape DEF Quiet, Stores
<1>3. CASE mem' = m /\ disk' = d
  BY <1>3 DEF Quiet, Stores, Holds
<1> QED
  BY <1>2, <1>3

\* Denials, tokens refused, the reset, restarts and the clock are quiet steps.
LEMMA QuietSteps ==
  ASSUME IInv,
         \/ \E a \in Actors, kinetic \in BOOLEAN : ProposeDenied(a, kinetic)
         \/ ProposeAllowedUnlogged
         \/ \E p \in Pids, hashOK \in BOOLEAN, w \in 0..MaxTime : ExecuteBadToken(p, hashOK, w)
         \/ \E p \in Pids, w \in 0..MaxTime : ExecuteDenied(p, w)
         \/ ResetLockdown \/ Crash \/ Tick \/ UNCHANGED vars
  PROVE  Quiet
<1>1. mem \in State /\ disk \in State /\ now \in 0..MaxTime
  BY DEF IInv, TypeOK
<1>2. ASSUME NEW m \in State, NEW k \in Tables,
             m.pending = mem.pending, m.approvals = mem.approvals
      PROVE  /\ SaveTables(m, disk, k) \in State
             /\ SaveTables(m, disk, k).pending \in {mem.pending, disk.pending}
             /\ \/ SaveTables(m, disk, k).approvals = disk.approvals
                \/ /\ SaveTables(m, disk, k).approvals = mem.approvals
                   /\ SaveTables(m, disk, k).pending = mem.pending
  BY <1>1, <1>2, SaveTablesType, SaveTablesOrder
<1>3. ASSUME NEW a \in Actors, NEW kinetic \in BOOLEAN, ProposeDenied(a, kinetic)
      PROVE  Quiet
  <2> DEFINE m == [mem EXCEPT !.denials[a] = @ + 1]
  <2>1. mem.denials[a] < Threshold
    BY <1>1, <1>3, ConstantsAssumption DEF ProposeDenied, IInv, ThresholdLocks, State
  <2>2. m \in State /\ m.pending = mem.pending /\ m.approvals = mem.approvals
    BY <1>1, <2>1, ConstantsAssumption DEF State
  <2>3. /\ Locked(m) \in State /\ Locked(m).pending = mem.pending
        /\ Locked(m).approvals = mem.approvals
    BY <2>2, LockedType
  <2>4. UNCHANGED <<evidence, effects, spends, grants, proposed, answers>>
    BY <1>3 DEF ProposeDenied, history
  <2>5. \/ mem' \in {m, Locked(m)} /\ disk' = disk
        \/ \E k \in Tables :
             \/ mem' = Locked(m) /\ disk' = SaveTables(Locked(m), disk, k)
             \/ RestartFrom(SaveTables(Locked(m), disk, k))
    BY <1>3 DEF ProposeDenied
  <2> HIDE DEF m
  <2>6. CASE mem' \in {m, Locked(m)} /\ disk' = disk
    BY <1>1, <2>2, <2>3, <2>4, <2>6, QuietShape
  <2>7. ASSUME NEW k \in Tables,
               \/ mem' = Locked(m) /\ disk' = SaveTables(Locked(m), disk, k)
               \/ RestartFrom(SaveTables(Locked(m), disk, k))
        PROVE  Quiet
    BY <1>2, <2>3, <2>4, <2>7, QuietShape
  <2> QED
    BY <2>5, <2>6, <2>7
<1>4. CASE ProposeAllowedUnlogged
  BY <1>1, <1>4, LockedType, QuietShape DEF ProposeAllowedUnlogged, history
<1>5. ASSUME NEW p \in Pids, NEW hashOK \in BOOLEAN, NEW w \in 0..MaxTime,
             ExecuteBadToken(p, hashOK, w)
      PROVE  Quiet
  <2> DEFINE m == [mem EXCEPT !.attempts[Key(p)] = Failed(@)]
             d == [disk EXCEPT !.attempts = m.attempts]
  <2>1. mem.approvals[p] # NoApproval
    BY <1>5 DEF ExecuteBadToken
  <2>2. Key(p) \in Pids \X Approvers
    BY <1>1, <2>1 DEF Key, State, Approval
  <2>3. Failed(mem.attempts[Key(p)]) \in Attempt
    BY <1>1, <2>2, FailedType DEF State
  <2>4. m \in State /\ m.pending = mem.pending /\ m.approvals = mem.approvals
    BY <1>1, <2>2, <2>3 DEF State
  <2>5. d \in State /\ d.pending = disk.pending /\ d.approvals = disk.approvals
    BY <1>1, <2>4 DEF State
  <2>6. /\ \/ mem' = m /\ disk' \in {d, disk}
           \/ RestartFrom(d)
        /\ UNCHANGED <<evidence, effects, spends, grants, proposed, answers>>
    BY <1>5 DEF ExecuteBadToken, history
  <2> HIDE DEF m, d
  <2> QED
    BY <1>1, <2>4, <2>5, <2>6, QuietShape
<1>6. ASSUME NEW p \in Pids, NEW w \in 0..MaxTime, ExecuteDenied(p, w) PROVE Quiet
  <2> DEFINE m == [mem EXCEPT !.attempts[Key(p)] = NoAttempt]
  <2>1. NoAttempt \in Attempt
    BY ConstantsAssumption DEF NoAttempt, Attempt
  <2>2. m \in State /\ m.pending = mem.pending /\ m.approvals = mem.approvals
    BY <1>1, <2>1 DEF State
  <2>3. /\ mem' = m /\ disk' = disk
        /\ UNCHANGED <<evidence, effects, spends, grants, proposed, answers>>
    BY <1>6 DEF ExecuteDenied, history
  <2> HIDE DEF m
  <2> QED
    BY <1>1, <2>2, <2>3, QuietShape
<1>7. CASE ResetLockdown
  <2> DEFINE m == [mem EXCEPT !.lockdown = FALSE, !.denials = EmptyState.denials]
  <2>1. m \in State /\ m.pending = mem.pending /\ m.approvals = mem.approvals
    BY <1>1, EmptyStateType DEF State
  <2>2. PICK k \in Tables :
          \/ mem' = m /\ disk' = SaveTables(m, disk, k)
          \/ RestartFrom(SaveTables(m, disk, k))
    BY <1>7 DEF ResetLockdown
  <2>3. UNCHANGED <<evidence, effects, spends, grants, proposed, answers>>
    BY <1>7 DEF ResetLockdown, history
  <2> HIDE DEF m
  <2> QED
    BY <1>2, <2>1, <2>2, <2>3, QuietShape
<1>8. CASE Crash
  BY <1>1, <1>8, QuietShape DEF Crash, history
<1>9. CASE Tick \/ UNCHANGED vars
  BY <1>1, <1>9, QuietShape DEF Tick, vars, history
<1> QED
  BY <1>3, <1>4, <1>5, <1>6, <1>7, <1>8, <1>9

\* A proposal for review has the shape Proposes.
LEMMA ProposeShape ==
  ASSUME IInv, NEW p \in Pids, ProposeForReview(p)
  PROVE  Proposes(p)
<1> DEFINE m == [mem EXCEPT !.pending = @ \cup {p}]
<1>1. /\ mem \in State /\ disk \in State /\ now \in 0..MaxTime
      /\ evidence \in [Pids -> SUBSET Event]
  BY DEF IInv, TypeOK
<1>2. m \in State /\ m.approvals = mem.approvals /\ m.pending = mem.pending \cup {p}
  BY <1>1 DEF State
<1>3. PICK k \in Tables, r \in WriteResults :
        /\ evidence' = IF Saved(k) THEN Record(p, "received", r) ELSE evidence
        /\ \/ mem' \in {m, Locked(m)} /\ disk' = SaveTables(m, disk, k)
           \/ RestartFrom(SaveTables(m, disk, k))
  BY DEF ProposeForReview
<1>4. Locked(m).approvals = m.approvals /\ Locked(m).pending = m.pending
  BY <1>2, LockedType
<1> HIDE DEF m
<1>5. Stores(m.pending, m.approvals)
  BY <1>1, <1>2, <1>3, SaveShape
<1>6. Holds(m.pending, m.approvals) \/ Restarts
  <2>1. SaveTables(m, disk, k) \in State
    BY <1>1, <1>2, SaveTablesType
  <2> QED
    BY <1>1, <1>3, <1>4, <2>1, RestartShape DEF Holds
<1>7. \A q \in Pids : evidence[q] \subseteq evidence'[q]
  BY <1>1, <1>3 DEF Record
<1> QED
  BY <1>2, <1>5, <1>6, <1>7 DEF Proposes, ProposeForReview

\* An approval has the shape Approves, whether its save and its evidence succeed,
\* fail, or are cut short by a crash.
LEMMA ApproveShape ==
  ASSUME IInv, NEW p \in Pids, NEW approver \in Approvers, NEW w \in 0..MaxTime,
         Approve(p, approver, w)
  PROVE  Approves(p, [grant |-> grants[p] + 1, approver |-> approver, window |-> w,
                      expires |-> now + Expiry, used |-> FALSE])
<1> DEFINE g      == grants[p] + 1
           record == [grant |-> g, approver |-> approver, window |-> w,
                      expires |-> now + Expiry, used |-> FALSE]
           m      == [mem EXCEPT !.pending = @ \ {p}, !.approvals[p] = record]
           back   == [mem EXCEPT !.approvals[p] = NoApproval]
<1>1. /\ mem \in State /\ disk \in State /\ now \in 0..MaxTime
      /\ evidence \in [Pids -> SUBSET Event]
  BY DEF IInv, TypeOK
<1>2. record \in Approval /\ record.window <= now
  <2>1. w <= now
    BY <1>1 DEF Approve, TokenCurrent
  <2> QED
    BY <2>1, NewGrant DEF Approve
<1>3. /\ m \in State /\ m.approvals = [mem.approvals EXCEPT ![p] = record]
      /\ m.pending = mem.pending \ {p}
  BY <1>1, <1>2 DEF State
<1>4. /\ back \in State /\ back.approvals = [mem.approvals EXCEPT ![p] = NoApproval]
      /\ back.pending = mem.pending
  BY <1>1 DEF State
<1>5. PICK k \in Tables, r \in WriteResults :
        /\ evidence' = IF Saved(k) THEN Record(p, "approved", r) ELSE evidence
        /\ \/ /\ Saved(k) /\ Accepted(r) /\ mem' = m /\ disk' = SaveTables(m, disk, k)
              /\ answers' = [answers EXCEPT ![p][g] = "approved"]
           \/ /\ mem' \in {back, Locked(back)} /\ disk' = SaveTables(m, disk, k)
              /\ "save" \in faults \/ "ledger" \in faults
              /\ answers' = [answers EXCEPT ![p][g] = "refused"]
           \/ RestartFrom(SaveTables(m, disk, k)) /\ UNCHANGED answers
  BY DEF Approve, CanSave, CanWrite, Accepted
<1>6. p \in mem.pending /\ UNCHANGED <<effects, spends, proposed>>
  BY DEF Approve
<1> HIDE DEF m, back, record, g
<1>7. Locked(back).approvals = back.approvals /\ Locked(back).pending = back.pending
  BY <1>4, LockedType
<1>8. Stores(m.pending, m.approvals)
  BY <1>1, <1>3, <1>5, SaveShape
<1>9. SaveTables(m, disk, k) \in State
  BY <1>1, <1>3, SaveTablesType
<1>10. Saved(k) => /\ SaveTables(m, disk, k).pending = m.pending
                   /\ SaveTables(m, disk, k).approvals = m.approvals
  BY DEF Saved, SaveTables
<1>11. /\ \A q \in Pids : evidence[q] \subseteq evidence'[q]
       /\ Saved(k) /\ Accepted(r) /\ LedgerRequired => "approved" \in evidence'[p]
  BY <1>1, <1>5 DEF Record, Accepted
<1>12. \/ /\ Holds(m.pending, m.approvals)
          /\ disk'.pending = m.pending /\ disk'.approvals = m.approvals
          /\ LedgerRequired => "approved" \in evidence'[p]
          /\ answers' = [answers EXCEPT ![p][g] = "approved"]
       \/ /\ Holds(back.pending, back.approvals)
          /\ "save" \in faults \/ "ledger" \in faults
          /\ answers' = [answers EXCEPT ![p][g] = "refused"]
       \/ Restarts /\ UNCHANGED answers
  BY <1>1, <1>5, <1>7, <1>9, <1>10, <1>11, RestartShape DEF Holds
<1> QED
  BY <1>2, <1>3, <1>4, <1>6, <1>8, <1>11, <1>12 DEF Approves, record, g

\* An execution has the shape Executes.
LEMMA ExecuteShape ==
  ASSUME IInv, NEW p \in Pids, NEW w \in 0..MaxTime, Execute(p, w)
  PROVE  Executes(p, [mem.approvals[p] EXCEPT !.used = TRUE])
<1> DEFINE g == mem.approvals[p].grant
           m == [mem EXCEPT !.approvals[p].used = TRUE, !.attempts[Key(p)] = NoAttempt]
           d == ConsumeRow(disk, p)
           row == [mem.approvals[p] EXCEPT !.used = TRUE]
<1>1. /\ mem \in State /\ disk \in State /\ now \in 0..MaxTime
      /\ evidence \in [Pids -> SUBSET Event]
  BY DEF IInv, TypeOK
<1>2. /\ mem.approvals[p] \in Approval /\ disk.approvals[p] = mem.approvals[p]
      /\ disk.approvals[p] # NoApproval
  BY Unspent DEF Execute, Consumable
<1>3. /\ row \in Approval /\ row.grant = g
      /\ row.approver = mem.approvals[p].approver /\ row.window = mem.approvals[p].window
  BY <1>2 DEF Approval
<1>4. NoAttempt \in Attempt
  BY ConstantsAssumption DEF NoAttempt, Attempt
<1>5. /\ m \in State /\ m.approvals = [mem.approvals EXCEPT ![p] = row]
      /\ m.pending = mem.pending
  BY <1>1, <1>3, <1>4 DEF State
<1>6. /\ d \in State /\ d.approvals = [disk.approvals EXCEPT ![p] = row]
      /\ d.pending = disk.pending
  BY <1>1, <1>2, <1>3 DEF State, ConsumeRow
<1>7. PICK r \in WriteResults, attempts \in {disk.attempts, m.attempts} :
        /\ evidence' = Record(p, "executed", r)
        /\ \/ mem' = m /\ disk' = [d EXCEPT !.attempts = attempts]
           \/ RestartFrom([d EXCEPT !.attempts = attempts])
  BY DEF Execute
<1> DEFINE e == [d EXCEPT !.attempts = attempts]
<1>8. attempts \in [Pids \X Approvers -> Attempt]
  BY <1>1, <1>5 DEF State
<1> HIDE DEF m, d, row
<1>9. e \in State /\ e.approvals = d.approvals /\ e.pending = d.pending
  BY <1>6, <1>8 DEF State
<1> HIDE DEF e
<1>10. /\ disk'.pending = e.pending /\ disk'.approvals = e.approvals
       /\ Holds(m.pending, m.approvals) \/ Restarts
  BY <1>1, <1>7, <1>9, RestartShape DEF Holds, e
<1>11. \A q \in Pids : evidence[q] \subseteq evidence'[q]
  BY <1>1, <1>7 DEF Record
<1> QED
  BY <1>2, <1>3, <1>5, <1>6, <1>9, <1>10, <1>11, ExecuteStep DEF Executes, row

-----------------------------------------------------------------------------
(***************************************************************************)
(* Every shape of step keeps ProposalInv.                                  *)
(***************************************************************************)
\* Quiet steps keep ProposalInv: a restart takes memory from the tables, or leaves it
\* empty, which Readable excludes where it would matter.
LEMMA QuietKeeps ==
  ASSUME IInv, ProposalInv, UNCHANGED faults, Quiet
  PROVE  ProposalInv'
<1>1. /\ mem \in State /\ disk \in State
      /\ spends \in [Pids -> [Grant -> Nat]] /\ effects \in [Pids -> [Grant -> Nat]]
      /\ answers \in [Pids -> [Grant -> Answer]]
      /\ \A q \in Pids : EmptyState.approvals[q] = NoApproval
  BY DEF IInv, TypeOK, EmptyState
<1>2. KnownProposals'
  BY DEF ProposalInv, IInv, DurableApprovals, Quiet, Stores, Holds, Restarts,
         KnownProposals
<1>3. ApprovedIsGone'
  BY <1>1 DEF ProposalInv, Quiet, Stores, Holds, Restarts, Gone, Orderly, ApprovedIsGone
<1>4. SpentIsGone'
  BY DEF ProposalInv, IInv, DurableApprovals, Quiet, Stores, Holds, Restarts, Gone,
         Orderly, SpentIsGone
<1>5. OneActionPerProposal'
  BY DEF ProposalInv, Quiet, Orderly, OneActionPerProposal
<1>6. AckedApprovalsSurvive'
  BY DEF ProposalInv, Quiet, Stores, Holds, Restarts, Readable, AckedApprovalsSurvive,
         Acked
<1>7. DecidedStaysDecided'
  BY DEF ProposalInv, Quiet, Stores, Holds, Restarts, Readable, DecidedStaysDecided
<1>8. Logged'
  BY DEF ProposalInv, Quiet, Holds, Restarts, Logged
<1> QED
  BY <1>2, <1>3, <1>4, <1>5, <1>6, <1>7, <1>8 DEF ProposalInv

\* Proposing keeps ProposalInv: the new proposal is known to nobody yet.
LEMMA ProposesKeeps ==
  ASSUME IInv, ProposalInv, UNCHANGED faults, NEW p \in Pids, Proposes(p)
  PROVE  ProposalInv'
<1>1. /\ mem \in State /\ disk \in State
      /\ spends \in [Pids -> [Grant -> Nat]] /\ effects \in [Pids -> [Grant -> Nat]]
      /\ answers \in [Pids -> [Grant -> Answer]]
      /\ \A q \in Pids : EmptyState.approvals[q] = NoApproval
  BY DEF IInv, TypeOK, EmptyState
<1>2. KnownProposals'
  BY DEF ProposalInv, IInv, DurableApprovals, Proposes, Stores, Holds, Restarts,
         KnownProposals
<1>3. ApprovedIsGone'
  BY <1>1 DEF ProposalInv, Proposes, Stores, Holds, Restarts, Gone, Orderly,
         ApprovedIsGone
<1>4. SpentIsGone'
  BY DEF ProposalInv, IInv, DurableApprovals, Proposes, Stores, Holds, Restarts, Gone,
         Orderly, SpentIsGone
<1>5. OneActionPerProposal'
  BY DEF ProposalInv, Proposes, Orderly, OneActionPerProposal
<1>6. AckedApprovalsSurvive'
  BY DEF ProposalInv, Proposes, Stores, Holds, Restarts, Readable, KnownProposals,
         AckedApprovalsSurvive, Acked
<1>7. DecidedStaysDecided'
  BY DEF ProposalInv, Proposes, Stores, Holds, Restarts, Readable, DecidedStaysDecided
<1>8. Logged'
  BY DEF ProposalInv, Proposes, Holds, Restarts, Logged
<1> QED
  BY <1>2, <1>3, <1>4, <1>5, <1>6, <1>7, <1>8 DEF ProposalInv

\* Approving keeps ProposalInv. The row of p may outlive the roll back of its
\* approval in memory; only a restart could then act on it, which Orderly excludes.
LEMMA ApprovesKeeps ==
  ASSUME IInv, ProposalInv, UNCHANGED faults, NEW p \in Pids, NEW rec, Approves(p, rec)
  PROVE  ProposalInv'
<1>1. /\ mem \in State /\ disk \in State
      /\ spends \in [Pids -> [Grant -> Nat]] /\ effects \in [Pids -> [Grant -> Nat]]
      /\ answers \in [Pids -> [Grant -> Answer]]
      /\ \A q \in Pids : EmptyState.approvals[q] = NoApproval
  BY DEF IInv, TypeOK, EmptyState
<1>2. /\ p \in mem.pending /\ proposed' = proposed /\ spends' = spends
      /\ mem'.pending \subseteq mem.pending \cup disk.pending
      /\ disk'.pending \subseteq mem.pending \cup disk.pending
      /\ disk'.approvals[p] \in {disk.approvals[p], rec}
      /\ \A q \in Pids \ {p} : disk'.approvals[q] \in {disk.approvals[q], mem.approvals[q]}
  BY <1>1 DEF Approves, Stores, Holds, Restarts, State
<1>3. KnownProposals'
  BY <1>2 DEF ProposalInv, IInv, DurableApprovals, KnownProposals
<1>4. ApprovedIsGone'
  BY <1>1 DEF ProposalInv, Approves, Stores, Holds, Restarts, Gone, Orderly, State,
         KnownProposals, ApprovedIsGone
<1>5. SpentIsGone'
  BY <1>2 DEF ProposalInv, IInv, DurableApprovals, SpentIsGone, Gone, Orderly
<1>6. OneActionPerProposal'
  BY DEF ProposalInv, Approves, Orderly, OneActionPerProposal
<1>7. AckedApprovalsSurvive'
  <2> SUFFICES ASSUME Readable, NEW q \in Acked'
               PROVE  /\ disk'.approvals[q] # NoApproval
                      /\ mem'.approvals[q] # NoApproval
                      /\ q \notin mem'.pending \cup disk'.pending
                      /\ LedgerRequired => "approved" \in evidence'[q]
    BY DEF AckedApprovalsSurvive, Readable
  <2>1. q \in Pids
    BY DEF Acked
  <2>2. CASE q \in Acked
    <3>1. /\ disk.approvals[q] # NoApproval /\ mem.approvals[q] # NoApproval
          /\ q \notin mem.pending \cup disk.pending
          /\ LedgerRequired => "approved" \in evidence[q]
      BY <2>2 DEF ProposalInv, AckedApprovalsSurvive
    <3>2. /\ q # p /\ disk'.approvals[q] # NoApproval
          /\ q \notin mem'.pending \cup disk'.pending
      BY <1>2, <2>1, <3>1
    <3>3. mem'.approvals[q] # NoApproval
      BY <1>1, <2>1, <3>1, <3>2 DEF Approves, Holds, Restarts, Readable, State
    <3> QED
      BY <2>1, <3>1, <3>2, <3>3 DEF Approves
  <2>3. CASE q \notin Acked
    <3>1. PICK g \in Grant : answers'[q][g] = "approved" /\ answers[q][g] # "approved"
      BY <2>1, <2>3 DEF Acked
    <3>2. q = p /\ answers' # [answers EXCEPT ![p][grants[p] + 1] = "refused"]
      BY <1>1, <2>1, <3>1 DEF Approves
    <3>3. /\ answers' # answers /\ rec # NoApproval
      BY <3>1, NoApprovalAssumption DEF Approves
    <3>4. /\ Holds(mem.pending \ {p}, [mem.approvals EXCEPT ![p] = rec])
          /\ disk'.pending = mem.pending \ {p}
          /\ disk'.approvals = [mem.approvals EXCEPT ![p] = rec]
          /\ LedgerRequired => "approved" \in evidence'[p]
      BY <3>2, <3>3 DEF Approves
    <3> QED
      BY <1>1, <3>2, <3>3, <3>4 DEF Holds, State
  <2> QED
    BY <2>2, <2>3
<1>8. DecidedStaysDecided'
  BY DEF ProposalInv, Approves, Stores, Holds, Restarts, Readable, DecidedStaysDecided
<1>9. Logged'
  BY <1>1 DEF ProposalInv, Approves, Holds, Restarts, State, Logged
<1> QED
  BY <1>3, <1>4, <1>5, <1>6, <1>7, <1>8, <1>9 DEF ProposalInv

\* Executing keeps ProposalInv: what is spent is the approval in memory and row.
LEMMA ExecutesKeeps ==
  ASSUME IInv, ProposalInv, UNCHANGED faults, NEW p \in Pids, NEW rec, Executes(p, rec)
  PROVE  ProposalInv'
<1>1. /\ mem \in State /\ disk \in State
      /\ spends \in [Pids -> [Grant -> Nat]] /\ effects \in [Pids -> [Grant -> Nat]]
      /\ answers \in [Pids -> [Grant -> Answer]]
      /\ \A q \in Pids : EmptyState.approvals[q] = NoApproval
  BY DEF IInv, TypeOK, EmptyState
<1>2. KnownProposals'
  BY DEF ProposalInv, Executes, Holds, Restarts, KnownProposals
<1>3. ApprovedIsGone'
  BY <1>1 DEF ProposalInv, Executes, Holds, Restarts, Gone, Orderly, State, ApprovedIsGone
<1>4. SpentIsGone'
  BY DEF ProposalInv, Executes, Holds, Restarts, Gone, Orderly, ApprovedIsGone,
         SpentIsGone
<1>5. OneActionPerProposal'
  BY DEF ProposalInv, Executes, Orderly, SpentIsGone, OneActionPerProposal
<1>6. AckedApprovalsSurvive'
  <2> SUFFICES ASSUME Readable, NEW q \in Acked
               PROVE  /\ disk'.approvals[q] # NoApproval
                      /\ mem'.approvals[q] # NoApproval
                      /\ q \notin mem'.pending \cup disk'.pending
                      /\ LedgerRequired => "approved" \in evidence'[q]
    BY DEF AckedApprovalsSurvive, Readable, Acked, Executes
  <2>1. /\ q \in Pids /\ disk.approvals[q] # NoApproval /\ mem.approvals[q] # NoApproval
        /\ q \notin mem.pending \cup disk.pending
        /\ LedgerRequired => "approved" \in evidence[q]
    BY DEF ProposalInv, AckedApprovalsSurvive, Acked
  <2>2. rec # NoApproval
    BY NoApprovalAssumption DEF Executes
  <2> QED
    BY <1>1, <2>1, <2>2 DEF Executes, Holds, Restarts, Readable, State
<1>7. DecidedStaysDecided'
  BY DEF ProposalInv, Executes, Holds, Restarts, Readable, DecidedStaysDecided
<1>8. Logged'
  BY <1>1 DEF ProposalInv, Executes, Holds, Restarts, State, Logged
<1> QED
  BY <1>2, <1>3, <1>4, <1>5, <1>6, <1>7, <1>8 DEF ProposalInv

\* Nothing is proposed, approved or logged at the start.
LEMMA ProposalInit == Init => ProposalInv
BY DEF Init, ProposalInv, KnownProposals, ApprovedIsGone, SpentIsGone,
       OneActionPerProposal, AckedApprovalsSurvive, DecidedStaysDecided, Logged,
       EmptyState, Acked

\* Every step has one of the four shapes.
LEMMA ProposalNext ==
  ASSUME IInv, ProposalInv, [Next]_vars
  PROVE  ProposalInv'
<1>1. UNCHANGED faults
  BY DEF Next, vars
<1>2. ASSUME NEW p \in Pids, ProposeForReview(p) PROVE ProposalInv'
  BY <1>1, <1>2, ProposeShape, ProposesKeeps
<1>3. ASSUME NEW p \in Pids, NEW approver \in Approvers, NEW w \in 0..MaxTime,
             Approve(p, approver, w)
      PROVE  ProposalInv'
  BY <1>1, <1>3, ApproveShape, ApprovesKeeps
<1>4. ASSUME NEW p \in Pids, NEW w \in 0..MaxTime, Execute(p, w) PROVE ProposalInv'
  BY <1>1, <1>4, ExecuteShape, ExecutesKeeps
<1>5. CASE Quiet
  BY <1>1, <1>5, QuietKeeps
<1> QED
  BY <1>2, <1>3, <1>4, <1>5, QuietSteps DEF Next

\* What may wait for an approval, what may be acted on and what was logged, in
\* memory and tables, is as ProposalInv says under every partial save, failed
\* write and restart that the fault set allows.
THEOREM ProposalInvariant == Spec => [](IInv /\ ProposalInv)
<1>1. Init => IInv /\ ProposalInv
  BY InitInv, ProposalInit
<1>2. IInv /\ ProposalInv /\ [Next]_vars => IInv' /\ ProposalInv'
  BY NextInv, ProposalNext
<1> QED
  BY <1>1, <1>2, PTL DEF Spec

\* A proposal is handed to the backend under one approval only, where no process
\* dies between the roll back of an approval and the next save.
THEOREM OneAction == Spec => []OneActionPerProposal
<1>1. IInv /\ ProposalInv => OneActionPerProposal
  BY DEF ProposalInv
<1> QED
  BY <1>1, ProposalInvariant, PTL

\* An approval that was answered APPROVED stays in memory and table, logged, and
\* its proposal waits no more, whatever is saved in part, rolled back or restarted.
THEOREM AckedSurvive == Spec => []AckedApprovalsSurvive
<1>1. IInv /\ ProposalInv => AckedApprovalsSurvive
  BY DEF ProposalInv
<1> QED
  BY <1>1, ProposalInvariant, PTL

\* No partial save leaves a proposal waiting in the table that memory decided.
THEOREM DecidedStays == Spec => []DecidedStaysDecided
<1>1. IInv /\ ProposalInv => DecidedStaysDecided
  BY DEF ProposalInv
<1> QED
  BY <1>1, ProposalInvariant, PTL

\* A process that requires the ledger causes no effect whose approval it did not
\* log.
THEOREM LoggedBeforeEffect == Spec => []ApprovalLoggedBeforeEffect
<1>1. IInv /\ ProposalInv => ApprovalLoggedBeforeEffect
  BY DEF ProposalInv, Logged, ApprovalLoggedBeforeEffect
<1> QED
  BY <1>1, ProposalInvariant, PTL

-----------------------------------------------------------------------------
(***************************************************************************)
(* Failed attempts.                                                        *)
(***************************************************************************)
\* No token of an approval on disk is of a window that has not come yet.
RowsOfThePast ==
  \A p \in Pids : disk.approvals[p] # NoApproval => disk.approvals[p].window <= now

\* What a failed attempt by a at p recorded, in memory or in the table: p waits for
\* no approval, and its row was approved by a, before the first failure.
InTime(p, a, t) ==
  t.count > 0 =>
    /\ Gone(p)
    /\ disk.approvals[p] # NoApproval =>
         disk.approvals[p].approver = a /\ disk.approvals[p].window <= t.first

AttemptsInTime ==
  Orderly => \A p \in Pids, a \in Approvers :
    InTime(p, a, mem.attempts[<<p, a>>]) /\ InTime(p, a, disk.attempts[<<p, a>>])

\* When the table holds as many failures as the limit, so does memory, or the token
\* of the approval is over.
LimitSeen ==
  Orderly => \A p \in Pids, a \in Approvers :
    disk.attempts[<<p, a>>].count >= MaxAttempts /\ mem.approvals[p] # NoApproval =>
      \/ mem.attempts[<<p, a>>].count >= MaxAttempts
      \/ mem.approvals[p].window < now - 1

\* The inductive invariant of the failed attempts.
AttemptInv == RowsOfThePast /\ AttemptsInTime /\ LimitSeen

\* A step keeps the row of a proposal that waits for no approval, or deletes it;
\* and no step makes it wait again.
RowKept(q) ==
  Gone(q) =>
    /\ Gone(q)'
    /\ disk'.approvals[q] # NoApproval =>
         /\ disk.approvals[q] # NoApproval
         /\ disk'.approvals[q].approver = disk.approvals[q].approver
         /\ disk'.approvals[q].window = disk.approvals[q].window

\* Every step keeps the rows of proposals that wait for no approval.
LEMMA RowsKept ==
  ASSUME IInv, ProposalInv,
         \/ Quiet
         \/ \E p \in Pids : Proposes(p)
         \/ \E p \in Pids, rec \in Approval : Approves(p, rec)
         \/ \E p \in Pids, rec \in Approval : Executes(p, rec)
  PROVE  \A q \in Pids : RowKept(q)
<1> SUFFICES ASSUME NEW q \in Pids, Gone(q) PROVE RowKept(q)
  BY DEF RowKept
<1>1. /\ mem \in State /\ disk \in State /\ EmptyState.approvals[q] = NoApproval
      /\ mem.approvals[q] # NoApproval => disk.approvals[q] = mem.approvals[q]
  BY DEF IInv, TypeOK, EmptyState, DurableApprovals
<1>2. CASE Quiet
  BY <1>1, <1>2 DEF Quiet, RowKept, Gone, Stores, Holds, Restarts
<1>3. ASSUME NEW p \in Pids, Proposes(p) PROVE RowKept(q)
  BY <1>1, <1>3 DEF Proposes, RowKept, Gone, Stores, Holds, Restarts
<1>4. ASSUME NEW p \in Pids, NEW rec \in Approval, Approves(p, rec) PROVE RowKept(q)
  BY <1>1, <1>4 DEF Approves, RowKept, Gone, Stores, Holds, Restarts, State
<1>5. ASSUME NEW p \in Pids, NEW rec \in Approval, Executes(p, rec) PROVE RowKept(q)
  BY <1>1, <1>5 DEF Executes, RowKept, Gone, Holds, Restarts, State
<1> QED
  BY <1>2, <1>3, <1>4, <1>5

\* Rows are of the past.
LEMMA RowsOfThePastKept ==
  ASSUME IInv, ProposalInv, RowsOfThePast, now \in Int, now' \in Int, now' >= now,
         \/ Quiet
         \/ \E p \in Pids : Proposes(p)
         \/ \E p \in Pids, rec \in Approval : Approves(p, rec)
         \/ \E p \in Pids, rec \in Approval : Executes(p, rec)
  PROVE  RowsOfThePast'
<1> SUFFICES ASSUME NEW q \in Pids, disk'.approvals[q] # NoApproval
             PROVE  disk'.approvals[q].window <= now'
  BY DEF RowsOfThePast
<1>1. /\ mem \in State /\ disk \in State
      /\ mem.approvals[q] # NoApproval => disk.approvals[q] = mem.approvals[q]
  BY DEF IInv, TypeOK, DurableApprovals
<1>2. disk.approvals[q] # NoApproval =>
        disk.approvals[q].window \in Int /\ disk.approvals[q].window <= now'
  <2>1. disk.approvals[q] # NoApproval => disk.approvals[q].window \in Int
    BY <1>1, ConstantsAssumption DEF State, Approval
  <2> QED
    BY <2>1 DEF RowsOfThePast
<1>3. \A rec \in Approval : rec.window \in Int /\ (rec.window <= now => rec.window <= now')
  BY ConstantsAssumption DEF Approval
<1>4. CASE Quiet
  BY <1>1, <1>2, <1>4 DEF Quiet, Stores
<1>5. ASSUME NEW p \in Pids, Proposes(p) PROVE disk'.approvals[q].window <= now'
  BY <1>1, <1>2, <1>5 DEF Proposes, Stores
<1>6. ASSUME NEW p \in Pids, NEW rec \in Approval, Approves(p, rec)
      PROVE  disk'.approvals[q].window <= now'
  BY <1>1, <1>2, <1>3, <1>6 DEF Approves, Stores, State
<1>7. ASSUME NEW p \in Pids, NEW rec \in Approval, Executes(p, rec)
      PROVE  disk'.approvals[q].window <= now'
  BY <1>1, <1>2, <1>7 DEF Executes, State
<1> QED
  BY <1>4, <1>5, <1>6, <1>7

\* A restart drops attempts whose lockout is over.
RestartAttempts(f) ==
  /\ mem'.attempts = disk'.attempts
  /\ \A x \in Pids \X Approvers : disk'.attempts[x] \in {f[x], NoAttempt}

\* A new process holds the attempts of the table, those that are locked out no
\* longer dropped, whether it could read the other tables or not.
LEMMA RestartDrops ==
  ASSUME NEW d \in State, RestartFrom(d)
  PROVE  RestartAttempts(d.attempts)
<1> DEFINE c == PurgeAttempts(d)
           e == [EmptyState EXCEPT !.lockdown = TRUE, !.attempts = c.attempts]
<1>1. \A x \in Pids \X Approvers : c.attempts[x] \in {d.attempts[x], NoAttempt}
  BY DEF PurgeAttempts, State
<1>2. disk' = c /\ (mem' = c \/ mem' = e)
  BY DEF RestartFrom, Loads
<1>3. e.attempts = c.attempts
  BY DEF EmptyState
<1> QED
  BY <1>1, <1>2, <1>3 DEF RestartAttempts

\* Nothing is recorded, and no approval comes up but of a proposal that waited.
NothingRecorded ==
  /\ mem'.attempts = mem.attempts /\ disk'.attempts = disk.attempts
  /\ \A q \in Pids : \/ mem'.approvals[q] \in {mem.approvals[q], NoApproval}
                     \/ q \in mem.pending

\* Steps that present no token.
LEMMA AttemptsKept ==
  ASSUME IInv,
         \/ \E p \in Pids : ProposeForReview(p)
         \/ \E a \in Actors, kinetic \in BOOLEAN : ProposeDenied(a, kinetic)
         \/ ProposeAllowedUnlogged
         \/ \E p \in Pids, approver \in Approvers, w \in 0..MaxTime : Approve(p, approver, w)
         \/ ResetLockdown \/ Crash \/ Tick \/ UNCHANGED vars
  PROVE  NothingRecorded \/ RestartAttempts(disk.attempts)
<1>1. mem \in State /\ disk \in State /\ now \in 0..MaxTime
  BY DEF IInv, TypeOK
<1>2. ASSUME NEW m \in State, NEW k \in Tables
      PROVE  /\ SaveTables(m, disk, k) \in State
             /\ SaveTables(m, disk, k).attempts = disk.attempts
             /\ RestartFrom(SaveTables(m, disk, k)) => RestartAttempts(disk.attempts)
  <2>1. /\ SaveTables(m, disk, k) \in State
        /\ SaveTables(m, disk, k).attempts = disk.attempts
    BY <1>1, SaveTablesType DEF SaveTables
  <2> QED
    BY <2>1, RestartDrops
<1>3. ASSUME NEW m \in State PROVE Locked(m) \in State /\ Locked(m).attempts = m.attempts
             /\ Locked(m).approvals = m.approvals
  BY LockedType DEF Locked, State
<1>4. ASSUME NEW p \in Pids, ProposeForReview(p)
      PROVE  NothingRecorded \/ RestartAttempts(disk.attempts)
  <2> DEFINE m == [mem EXCEPT !.pending = @ \cup {p}]
  <2>1. m \in State /\ m.attempts = mem.attempts /\ m.approvals = mem.approvals
    BY <1>1 DEF State
  <2>2. PICK k \in Tables :
          \/ mem' \in {m, Locked(m)} /\ disk' = SaveTables(m, disk, k)
          \/ RestartFrom(SaveTables(m, disk, k))
    BY <1>4 DEF ProposeForReview
  <2> HIDE DEF m
  <2> QED
    BY <1>2, <1>3, <2>1, <2>2 DEF NothingRecorded
<1>5. ASSUME NEW a \in Actors, NEW kinetic \in BOOLEAN, ProposeDenied(a, kinetic)
      PROVE  NothingRecorded \/ RestartAttempts(disk.attempts)
  <2> DEFINE m == [mem EXCEPT !.denials[a] = @ + 1]
  <2>1. mem.denials[a] < Threshold
    BY <1>1, <1>5, ConstantsAssumption DEF ProposeDenied, IInv, ThresholdLocks, State
  <2>2. m \in State /\ m.attempts = mem.attempts /\ m.approvals = mem.approvals
    BY <1>1, <2>1, ConstantsAssumption DEF State
  <2>3. \/ mem' \in {m, Locked(m)} /\ disk' = disk
        \/ \E k \in Tables :
             \/ mem' = Locked(m) /\ disk' = SaveTables(Locked(m), disk, k)
             \/ RestartFrom(SaveTables(Locked(m), disk, k))
    BY <1>5 DEF ProposeDenied
  <2> HIDE DEF m
  <2> QED
    BY <1>2, <1>3, <2>2, <2>3 DEF NothingRecorded
<1>6. ASSUME NEW p \in Pids, NEW approver \in Approvers, NEW w \in 0..MaxTime,
             Approve(p, approver, w)
      PROVE  NothingRecorded \/ RestartAttempts(disk.attempts)
  <2> DEFINE record == [grant |-> grants[p] + 1, approver |-> approver, window |-> w,
                        expires |-> now + Expiry, used |-> FALSE]
             m    == [mem EXCEPT !.pending = @ \ {p}, !.approvals[p] = record]
             back == [mem EXCEPT !.approvals[p] = NoApproval]
  <2>1. record \in Approval
    BY <1>6, NewGrant DEF Approve
  <2>2. /\ m \in State /\ m.attempts = mem.attempts
        /\ back \in State /\ back.attempts = mem.attempts
        /\ \A q \in Pids \ {p} : /\ m.approvals[q] = mem.approvals[q]
                                /\ back.approvals[q] = mem.approvals[q]
    BY <1>1, <2>1 DEF State
  <2>3. PICK k \in Tables :
          \/ mem' \in {m, back, Locked(back)} /\ disk' = SaveTables(m, disk, k)
          \/ RestartFrom(SaveTables(m, disk, k))
    BY <1>6 DEF Approve
  <2>4. p \in mem.pending
    BY <1>6 DEF Approve
  <2> HIDE DEF m, back
  <2>5. CASE RestartFrom(SaveTables(m, disk, k))
    BY <1>2, <2>2, <2>5
  <2>6. CASE mem' \in {m, back, Locked(back)} /\ disk' = SaveTables(m, disk, k)
    <3>1. mem'.attempts = mem.attempts /\ disk'.attempts = disk.attempts
      BY <1>2, <1>3, <2>2, <2>6
    <3>2. \A q \in Pids \ {p} : mem'.approvals[q] = mem.approvals[q]
      BY <1>3, <2>2, <2>6
    <3> QED
      BY <2>4, <3>1, <3>2 DEF NothingRecorded
  <2> QED
    BY <2>3, <2>5, <2>6
<1>7. CASE ResetLockdown
  <2> DEFINE m == [mem EXCEPT !.lockdown = FALSE, !.denials = EmptyState.denials]
  <2>1. m \in State /\ m.attempts = mem.attempts /\ m.approvals = mem.approvals
    BY <1>1, EmptyStateType DEF State
  <2>2. PICK k \in Tables :
          \/ mem' = m /\ disk' = SaveTables(m, disk, k)
          \/ RestartFrom(SaveTables(m, disk, k))
    BY <1>7 DEF ResetLockdown
  <2> HIDE DEF m
  <2> QED
    BY <1>2, <2>1, <2>2 DEF NothingRecorded
<1>8. CASE Crash
  BY <1>1, <1>8, RestartDrops DEF Crash
<1>9. CASE ProposeAllowedUnlogged \/ Tick \/ UNCHANGED vars
  BY <1>1, <1>3, <1>9 DEF ProposeAllowedUnlogged, Tick, vars, NothingRecorded
<1> QED
  BY <1>4, <1>5, <1>6, <1>7, <1>8, <1>9

\* The types of an attempt record.
LEMMA AttemptFacts ==
  ASSUME IInv, NEW x \in Pids \X Approvers
  PROVE  /\ mem.attempts[x] \in Attempt /\ disk.attempts[x] \in Attempt
         /\ mem.attempts[x].count \in Nat /\ mem.attempts[x].first \in Int
         /\ disk.attempts[x].count \in Nat /\ disk.attempts[x].first \in Int
         /\ now \in 0..MaxTime
<1>1. mem.attempts[x] \in Attempt /\ disk.attempts[x] \in Attempt /\ now \in 0..MaxTime
  BY DEF IInv, TypeOK, State
<1> QED
  BY <1>1, ConstantsAssumption DEF Attempt

\* An approval in memory has its row, and a window and an approver.
LEMMA RecordFacts ==
  ASSUME IInv, NEW p \in Pids, mem.approvals[p] # NoApproval
  PROVE  /\ mem.approvals[p] \in Approval /\ disk.approvals[p] = mem.approvals[p]
         /\ mem.approvals[p].approver \in Approvers /\ mem.approvals[p].window \in Int
         /\ Key(p) = <<p, mem.approvals[p].approver>> /\ Key(p) \in Pids \X Approvers
<1>1. mem.approvals[p] \in Approval /\ disk.approvals[p] = mem.approvals[p]
  BY DEF IInv, TypeOK, State, DurableApprovals
<1> QED
  BY <1>1, ConstantsAssumption DEF Approval, Key

\* A limit that has run out outlived the token.
LEMMA TokenOver ==
  ASSUME Lockout >= 2, Orderly, IInv, AttemptInv,
         NEW p \in Pids, mem.approvals[p] # NoApproval,
         ~Limited(mem.attempts[Key(p)]), mem.attempts[Key(p)].count >= MaxAttempts
  PROVE  mem.approvals[p].window < now - 1
<1> DEFINE t == mem.attempts[Key(p)]
           a == mem.approvals[p].approver
<1>1. /\ a \in Approvers /\ mem.approvals[p].window \in Int /\ t = mem.attempts[<<p, a>>]
      /\ disk.approvals[p] = mem.approvals[p]
  BY RecordFacts
<1>2. t.count \in Nat /\ t.first \in Int /\ now \in Int
  BY <1>1, AttemptFacts, ConstantsAssumption
<1>3. InTime(p, a, t)
  BY <1>1 DEF AttemptInv, AttemptsInTime
<1>4. t.count > 0 /\ mem.approvals[p].window <= t.first
  BY <1>1, <1>2, <1>3, ConstantsAssumption DEF InTime
<1>5. now - t.first >= Lockout
  BY <1>2, ConstantsAssumption DEF Limited
<1> HIDE DEF t
<1> QED
  BY <1>1, <1>2, <1>4, <1>5, ConstantsAssumption

\* A token that is current is under no limit, in the table neither.
LEMMA CurrentIsUnlimited ==
  ASSUME Lockout >= 2, Orderly, IInv, AttemptInv,
         NEW p \in Pids, mem.approvals[p] # NoApproval,
         ~Limited(mem.attempts[Key(p)]), TokenCurrent(mem.approvals[p].window),
         NEW a \in Approvers
  PROVE  disk.attempts[<<p, a>>].count < MaxAttempts
<1>1. /\ mem.approvals[p].window \in Int /\ Key(p) = <<p, mem.approvals[p].approver>>
      /\ disk.approvals[p] = mem.approvals[p]
  BY RecordFacts
<1>2. disk.attempts[<<p, a>>].count \in Nat /\ now \in Int
  BY AttemptFacts, ConstantsAssumption
<1>3. ~(mem.approvals[p].window < now - 1)
  BY <1>1, <1>2 DEF TokenCurrent
<1>4. CASE a = mem.approvals[p].approver
  BY <1>1, <1>2, <1>3, <1>4, TokenOver, ConstantsAssumption DEF AttemptInv, LimitSeen
<1>5. CASE a # mem.approvals[p].approver
  <2>1. ~(disk.attempts[<<p, a>>].count > 0)
    BY <1>1, <1>5 DEF AttemptInv, AttemptsInTime, InTime
  <2> QED
    BY <1>2, <2>1, ConstantsAssumption
<1> QED
  BY <1>4, <1>5

\* Attempts that were in time stay so.
LEMMA InTimeKept ==
  ASSUME UNCHANGED faults, \A p \in Pids : RowKept(p),
         Orderly => \A p \in Pids, a \in Approvers :
           /\ InTime(p, a, mem'.attempts[<<p, a>>])
           /\ InTime(p, a, disk'.attempts[<<p, a>>])
  PROVE  AttemptsInTime'
BY DEF AttemptsInTime, InTime, RowKept, Gone, Orderly

\* No failure is always in time.
LEMMA NoAttemptInTime == \A p \in Pids, a \in Approvers : InTime(p, a, NoAttempt)
BY DEF InTime, NoAttempt

\* Steps that present no token keep AttemptInv.
LEMMA NoTokenKeeps ==
  ASSUME IInv, ProposalInv, AttemptInv, UNCHANGED faults,
         now' >= now, now' \in Int, \A p \in Pids : RowKept(p),
         NothingRecorded \/ RestartAttempts(disk.attempts)
  PROVE  AttemptsInTime' /\ LimitSeen'
<1>1. AttemptsInTime'
  BY InTimeKept, NoAttemptInTime DEF NothingRecorded, RestartAttempts, AttemptInv,
         AttemptsInTime
<1>2. LimitSeen'
  <2>1. CASE RestartAttempts(disk.attempts)
    BY <2>1 DEF RestartAttempts, LimitSeen
  <2>2. CASE NothingRecorded
    <3> SUFFICES ASSUME Orderly, NEW p \in Pids, NEW a \in Approvers,
                        disk'.attempts[<<p, a>>].count >= MaxAttempts,
                        mem'.approvals[p] # NoApproval
                 PROVE  \/ mem'.attempts[<<p, a>>].count >= MaxAttempts
                        \/ mem'.approvals[p].window < now' - 1
      BY DEF LimitSeen, Orderly
    <3>1. disk.attempts[<<p, a>>].count > 0 /\ now \in Int
      BY <2>2, AttemptFacts, ConstantsAssumption DEF NothingRecorded
    <3>2. Gone(p)
      BY <3>1 DEF AttemptInv, AttemptsInTime, InTime
    <3>3. mem'.approvals[p] = mem.approvals[p] /\ mem.approvals[p] # NoApproval
      BY <2>2, <3>2 DEF NothingRecorded, Gone
    <3>4. mem.approvals[p].window \in Int
      BY <3>3, RecordFacts
    <3>5. \/ mem.attempts[<<p, a>>].count >= MaxAttempts
          \/ mem.approvals[p].window < now - 1
      BY <2>2, <3>3 DEF AttemptInv, LimitSeen, NothingRecorded
    <3> QED
      BY <2>2, <3>1, <3>3, <3>4, <3>5 DEF NothingRecorded
  <2> QED
    BY <2>1, <2>2
<1> QED
  BY <1>1, <1>2

\* A failed attempt is counted for the approver of an approval in memory, whose
\* proposal waits for no other; it starts a new count when the old limit ran out.
LEMMA BadTokenKeeps ==
  ASSUME Lockout >= 2, IInv, ProposalInv, AttemptInv, UNCHANGED faults,
         \A q \in Pids : RowKept(q),
         NEW p \in Pids, NEW hashOK \in BOOLEAN, NEW w \in 0..MaxTime,
         ExecuteBadToken(p, hashOK, w)
  PROVE  AttemptsInTime' /\ LimitSeen'
<1> DEFINE x == Key(p)
           t == Failed(mem.attempts[x])
           f == [mem.attempts EXCEPT ![x] = t]
           m == [mem EXCEPT !.attempts[Key(p)] = Failed(@)]
           d == [disk EXCEPT !.attempts = m.attempts]
<1>1. /\ mem \in State /\ disk \in State /\ mem.approvals[p] # NoApproval
      /\ ~Limited(mem.attempts[x]) /\ now \in 0..MaxTime /\ now' = now
  BY DEF IInv, TypeOK, ExecuteBadToken
<1>2. /\ x \in Pids \X Approvers /\ x = <<p, mem.approvals[p].approver>>
      /\ disk.approvals[p] = mem.approvals[p] /\ mem.approvals[p].window \in Int
  BY <1>1, RecordFacts
<1>3. t \in Attempt
  BY <1>1, <1>2, FailedType DEF State
<1>4. m \in State /\ m.attempts = f /\ m.approvals = mem.approvals
  BY <1>1, <1>2, <1>3 DEF State
<1>5. d \in State /\ d.attempts = f
  BY <1>1, <1>4 DEF State
<1>6. \/ mem' = m /\ disk' \in {d, disk}
      \/ RestartFrom(d)
  BY DEF ExecuteBadToken
<1> HIDE DEF m, d
<1>7. \/ /\ mem'.attempts = f /\ mem'.approvals = mem.approvals
         /\ disk'.attempts \in {f, disk.attempts}
      \/ RestartAttempts(f)
  BY <1>4, <1>5, <1>6, RestartDrops
<1>8. ASSUME Orderly PROVE InTime(p, mem.approvals[p].approver, t)
  <2>1. Gone(p)
    BY <1>1, <1>8 DEF ProposalInv, ApprovedIsGone
  <2>2. mem.approvals[p].window <= now
    BY <1>1, <1>2 DEF AttemptInv, RowsOfThePast
  <2>3. InTime(p, mem.approvals[p].approver, mem.attempts[x])
    BY <1>2, <1>8, RecordFacts, <1>1 DEF AttemptInv, AttemptsInTime
  <2>4. mem.attempts[x].count \in Nat /\ mem.attempts[x] \in Attempt
    BY <1>2, AttemptFacts
  <2>5. CASE mem.attempts[x].count = 0 \/ mem.attempts[x].count >= MaxAttempts
    BY <1>2, <2>1, <2>2, <2>5 DEF InTime, Failed
  <2>6. CASE ~(mem.attempts[x].count = 0 \/ mem.attempts[x].count >= MaxAttempts)
    <3>1. mem.attempts[x].count > 0 /\ t.first = mem.attempts[x].first
      BY <2>4, <2>6 DEF Failed, Attempt
    <3> QED
      BY <2>3, <3>1 DEF InTime
  <2> QED
    BY <2>5, <2>6
<1>9. \A y \in Pids \X Approvers : f[y] = IF y = x THEN t ELSE mem.attempts[y]
  BY <1>1 DEF State
<1> HIDE DEF f, t
<1>10. AttemptsInTime'
  <2>1. ASSUME Orderly, NEW q \in Pids, NEW a \in Approvers PROVE InTime(q, a, f[<<q, a>>])
    BY <1>2, <1>8, <1>9, <2>1 DEF AttemptInv, AttemptsInTime
  <2>2. ASSUME Orderly, NEW q \in Pids, NEW a \in Approvers
        PROVE  /\ InTime(q, a, mem'.attempts[<<q, a>>])
               /\ InTime(q, a, disk'.attempts[<<q, a>>])
    BY <1>7, <2>1, <2>2, NoAttemptInTime DEF AttemptInv, AttemptsInTime, RestartAttempts
  <2> QED
    BY <2>2, InTimeKept
<1>11. LimitSeen'
  <2>1. CASE mem'.attempts = disk'.attempts
    BY <2>1 DEF LimitSeen
  <2>2. CASE /\ mem'.attempts = f /\ mem'.approvals = mem.approvals
             /\ disk'.attempts = disk.attempts
    <3> SUFFICES ASSUME Orderly, NEW q \in Pids, NEW a \in Approvers,
                        disk.attempts[<<q, a>>].count >= MaxAttempts,
                        mem.approvals[q] # NoApproval
                 PROVE  \/ f[<<q, a>>].count >= MaxAttempts
                        \/ mem.approvals[q].window < now - 1
      BY <1>1, <2>2 DEF LimitSeen, Orderly
    <3>1. \/ mem.attempts[<<q, a>>].count >= MaxAttempts
          \/ mem.approvals[q].window < now - 1
      BY DEF AttemptInv, LimitSeen
    <3>2. CASE <<q, a>> = x
      BY <1>1, <1>2, <3>1, <3>2, TokenOver
    <3>3. CASE <<q, a>> # x
      BY <1>9, <3>1, <3>3
    <3> QED
      BY <3>2, <3>3
  <2> QED
    BY <1>7, <2>1, <2>2 DEF RestartAttempts
<1> QED
  BY <1>10, <1>11

\* A token that holds clears the attempts in memory; the table may keep them.
LEMMA GoodTokenKeeps ==
  ASSUME Lockout >= 2, IInv, ProposalInv, AttemptInv, UNCHANGED faults,
         \A q \in Pids : RowKept(q),
         NEW p \in Pids, mem.approvals[p] # NoApproval,
         ~Limited(mem.attempts[Key(p)]), TokenCurrent(mem.approvals[p].window),
         now' = now, NEW f, f = [mem.attempts EXCEPT ![Key(p)] = NoAttempt],
         \/ /\ mem'.attempts = f /\ disk'.attempts \in {f, disk.attempts}
            /\ \A q \in Pids \ {p} : mem'.approvals[q] = mem.approvals[q]
         \/ RestartAttempts(f)
         \/ RestartAttempts(disk.attempts)
  PROVE  AttemptsInTime' /\ LimitSeen'
<1>1. mem \in State /\ Key(p) = <<p, mem.approvals[p].approver>>
  BY RecordFacts DEF IInv, TypeOK
<1>2. \A y \in Pids \X Approvers : f[y] \in {mem.attempts[y], NoAttempt}
  BY <1>1 DEF State
<1>3. \A q \in Pids \ {p}, a \in Approvers : f[<<q, a>>] = mem.attempts[<<q, a>>]
  BY <1>1 DEF State
<1>4. AttemptsInTime'
  <2>1. ASSUME NEW y \in Pids \X Approvers
        PROVE  /\ mem'.attempts[y] \in {mem.attempts[y], disk.attempts[y], NoAttempt}
               /\ disk'.attempts[y] \in {mem.attempts[y], disk.attempts[y], NoAttempt}
    BY <1>2 DEF RestartAttempts
  <2> QED
    BY <2>1, InTimeKept, NoAttemptInTime DEF AttemptInv, AttemptsInTime
<1>5. LimitSeen'
  <2>1. CASE mem'.attempts = disk'.attempts
    BY <2>1 DEF LimitSeen
  <2>2. CASE /\ mem'.attempts = f /\ disk'.attempts = disk.attempts
             /\ \A q \in Pids \ {p} : mem'.approvals[q] = mem.approvals[q]
    <3> SUFFICES ASSUME Orderly, NEW q \in Pids, NEW a \in Approvers,
                        disk.attempts[<<q, a>>].count >= MaxAttempts,
                        mem'.approvals[q] # NoApproval
                 PROVE  \/ f[<<q, a>>].count >= MaxAttempts
                        \/ mem'.approvals[q].window < now - 1
      BY <2>2 DEF LimitSeen, Orderly
    <3>1. q # p
      BY CurrentIsUnlimited, AttemptFacts, ConstantsAssumption
    <3> QED
      BY <1>3, <2>2, <3>1 DEF AttemptInv, LimitSeen
  <2> QED
    BY <2>1, <2>2 DEF RestartAttempts
<1> QED
  BY <1>4, <1>5
\* There are no rows and no attempts at the start.
LEMMA AttemptInit == Init => AttemptInv
BY DEF Init, AttemptInv, RowsOfThePast, AttemptsInTime, InTime, LimitSeen, EmptyState,
       NoAttempt

\* What execute_approved does to the attempts when the token holds.
LEMMA DeniedAttempts ==
  ASSUME IInv, NEW p \in Pids, NEW w \in 0..MaxTime, ExecuteDenied(p, w)
  PROVE  /\ mem.approvals[p] # NoApproval /\ ~Limited(mem.attempts[Key(p)])
         /\ TokenCurrent(mem.approvals[p].window) /\ now' = now
         /\ mem'.attempts = [mem.attempts EXCEPT ![Key(p)] = NoAttempt]
         /\ disk'.attempts = disk.attempts
         /\ \A q \in Pids \ {p} : mem'.approvals[q] = mem.approvals[q]
<1>1. mem \in State
  BY DEF IInv, TypeOK
<1> QED
  BY <1>1 DEF ExecuteDenied, Presents, State

\* An execution drops the attempts in memory; those of the table go with the save
\* or stay.
LEMMA ExecuteAttempts ==
  ASSUME IInv, NEW p \in Pids, NEW w \in 0..MaxTime, Execute(p, w)
  PROVE  LET f == [mem.attempts EXCEPT ![Key(p)] = NoAttempt]
         IN  /\ mem.approvals[p] # NoApproval /\ ~Limited(mem.attempts[Key(p)])
             /\ TokenCurrent(mem.approvals[p].window) /\ now' = now
             /\ \/ /\ mem'.attempts = f /\ disk'.attempts \in {f, disk.attempts}
                   /\ \A q \in Pids \ {p} : mem'.approvals[q] = mem.approvals[q]
                \/ RestartAttempts(f)
                \/ RestartAttempts(disk.attempts)
<1> DEFINE f == [mem.attempts EXCEPT ![Key(p)] = NoAttempt]
           m == [mem EXCEPT !.approvals[p].used = TRUE, !.attempts[Key(p)] = NoAttempt]
           d == ConsumeRow(disk, p)
           row == [mem.approvals[p] EXCEPT !.used = TRUE]
<1>1. mem \in State /\ disk \in State
  BY DEF IInv, TypeOK
<1>2. /\ mem.approvals[p] # NoApproval /\ ~Limited(mem.attempts[Key(p)])
      /\ TokenCurrent(mem.approvals[p].window) /\ now' = now
  BY DEF Execute, Presents
<1>3. mem.approvals[p] \in Approval /\ disk.approvals[p] = mem.approvals[p]
  BY <1>2, RecordFacts
<1>4. row \in Approval /\ NoAttempt \in Attempt
  <2>1. row \in Approval
    BY <1>3 DEF Approval
  <2> QED
    BY <2>1, ConstantsAssumption DEF NoAttempt, Attempt
<1>5. /\ m \in State /\ m.attempts = f
      /\ \A q \in Pids \ {p} : m.approvals[q] = mem.approvals[q]
  BY <1>1, <1>4 DEF State
<1>6. d \in State
  BY <1>1, <1>3, <1>4 DEF State, ConsumeRow
<1>7. PICK attempts \in {disk.attempts, m.attempts} :
        \/ mem' = m /\ disk' = [d EXCEPT !.attempts = attempts]
        \/ RestartFrom([d EXCEPT !.attempts = attempts])
  BY DEF Execute
<1> DEFINE e == [d EXCEPT !.attempts = attempts]
<1> HIDE DEF m, d, row
<1>8. e \in State /\ e.attempts = attempts
  BY <1>1, <1>5, <1>6, <1>7 DEF State
<1> HIDE DEF e, f
<1>9. \/ mem' = m /\ disk' = e
      \/ RestartAttempts(attempts)
  BY <1>7, <1>8, RestartDrops DEF e
<1> QED
  BY <1>2, <1>5, <1>7, <1>8, <1>9 DEF f

\* Every step keeps AttemptInv.
LEMMA AttemptNext ==
  ASSUME Lockout >= 2, IInv, ProposalInv, AttemptInv, [Next]_vars
  PROVE  AttemptInv'
<1>1. UNCHANGED faults /\ now \in Int /\ now' \in Int /\ now' >= now
  <2>1. now \in 0..MaxTime /\ now' \in 0..MaxTime
    BY NextInv DEF IInv, TypeOK
  <2>2. now' \in {now, now + 1}
    <3>1. CASE Tick
      BY <3>1 DEF Tick
    <3>2. ASSUME NEW p \in Pids, NEW w \in 0..MaxTime,
                 Execute(p, w) \/ ExecuteDenied(p, w) \/ ProposeForReview(p)
          PROVE  now' = now
      BY <3>2 DEF Execute, ExecuteDenied, ProposeForReview
    <3>3. ASSUME NEW p \in Pids, NEW w \in 0..MaxTime,
                 \/ \E approver \in Approvers : Approve(p, approver, w)
                 \/ \E hashOK \in BOOLEAN : ExecuteBadToken(p, hashOK, w)
          PROVE  now' = now
      BY <3>3 DEF Approve, ExecuteBadToken
    <3>4. ASSUME \/ \E a \in Actors, kinetic \in BOOLEAN : ProposeDenied(a, kinetic)
                 \/ ProposeAllowedUnlogged \/ ResetLockdown \/ Crash \/ UNCHANGED vars
          PROVE  now' = now
      BY <3>4 DEF ProposeDenied, ProposeAllowedUnlogged, ResetLockdown, Crash, vars
    <3> QED
      BY <2>1, <3>1, <3>2, <3>3, <3>4 DEF Next
  <2>3. UNCHANGED faults
    BY DEF Next, vars
  <2>4. MaxTime \in Nat
    BY ConstantsAssumption
  <2> QED
    BY <2>1, <2>2, <2>3, <2>4
<1>2. \/ Quiet
      \/ \E p \in Pids : Proposes(p)
      \/ \E p \in Pids, rec \in Approval : Approves(p, rec)
      \/ \E p \in Pids, rec \in Approval : Executes(p, rec)
  <2>1. ASSUME NEW p \in Pids, NEW approver \in Approvers, NEW w \in 0..MaxTime,
               Approve(p, approver, w)
        PROVE  \E rec \in Approval : Approves(p, rec)
    BY <2>1, ApproveShape DEF Approves
  <2>2. ASSUME NEW p \in Pids, NEW w \in 0..MaxTime, Execute(p, w)
        PROVE  \E rec \in Approval : Executes(p, rec)
    BY <2>2, ExecuteShape DEF Executes
  <2>3. \/ \E p \in Pids : ProposeForReview(p)
        \/ \E p \in Pids, approver \in Approvers, w \in 0..MaxTime : Approve(p, approver, w)
        \/ \E p \in Pids, w \in 0..MaxTime : Execute(p, w)
        \/ Quiet
    BY QuietSteps DEF Next
  <2> QED
    BY <2>1, <2>2, <2>3, ProposeShape
<1>3. RowsOfThePast' /\ \A q \in Pids : RowKept(q)
  BY <1>1, <1>2, RowsOfThePastKept, RowsKept DEF AttemptInv
<1>4. AttemptsInTime' /\ LimitSeen'
  <2>1. ASSUME NEW p \in Pids, NEW hashOK \in BOOLEAN, NEW w \in 0..MaxTime,
               ExecuteBadToken(p, hashOK, w)
        PROVE  AttemptsInTime' /\ LimitSeen'
    BY <1>1, <1>3, <2>1, BadTokenKeeps
  <2>2. ASSUME NEW p \in Pids, NEW w \in 0..MaxTime, ExecuteDenied(p, w)
        PROVE  AttemptsInTime' /\ LimitSeen'
    BY <1>1, <1>3, <2>2, DeniedAttempts, GoodTokenKeeps
  <2>3. ASSUME NEW p \in Pids, NEW w \in 0..MaxTime, Execute(p, w)
        PROVE  AttemptsInTime' /\ LimitSeen'
    BY <1>1, <1>3, <2>3, ExecuteAttempts, GoodTokenKeeps
  <2>4. CASE NothingRecorded \/ RestartAttempts(disk.attempts)
    BY <1>1, <1>3, <2>4, NoTokenKeeps
  <2> QED
    BY <2>1, <2>2, <2>3, <2>4, AttemptsKept DEF Next
<1> QED
  BY <1>3, <1>4 DEF AttemptInv

\* An execution needs a current token under no limit, so the table holds fewer
\* failures than the limit.
LEMMA LimitedIsNotExecuted ==
  ASSUME Lockout >= 2, Orderly, IInv, AttemptInv, [Next]_vars,
         NEW q \in Pids, NEW a \in Approvers, disk.attempts[<<q, a>>].count >= MaxAttempts
  PROVE  spends'[q] = spends[q]
<1>1. spends \in [Pids -> [Grant -> Nat]]
  BY DEF IInv, TypeOK
<1>2. ASSUME NEW p \in Pids, NEW w \in 0..MaxTime, Execute(p, w)
      PROVE  spends'[q] = spends[q]
  <2>1. p # q
    <3> SUFFICES ASSUME p = q PROVE FALSE
      OBVIOUS
    <3>1. disk.attempts[<<q, a>>].count < MaxAttempts
      BY <1>2, ExecuteAttempts, CurrentIsUnlimited
    <3> QED
      BY <3>1, AttemptFacts, ConstantsAssumption
  <2> QED
    BY <1>1, <1>2, <2>1, ExecuteStep
<1>3. ASSUME NEW p \in Pids, ProposeForReview(p) PROVE spends' = spends
  BY <1>3 DEF ProposeForReview
<1>4. ASSUME NEW p \in Pids, NEW approver \in Approvers, NEW w \in 0..MaxTime,
             Approve(p, approver, w)
      PROVE  spends' = spends
  BY <1>4 DEF Approve
<1>5. CASE Quiet
  BY <1>5 DEF Quiet
<1> QED
  BY <1>2, <1>3, <1>4, <1>5, QuietSteps DEF Next

\* An approval whose failed attempts reached the limit is never executed, not after
\* a restart that dropped them either: a lockout of two windows or more (it is
\* twelve in the code) outlives the token.
THEOREM LimitedTheorem ==
  ASSUME Lockout >= 2
  PROVE  Spec => LimitedNeverExecutes
<1>1. Init => AttemptInv
  BY AttemptInit
<1>2. IInv /\ ProposalInv /\ AttemptInv /\ [Next]_vars => AttemptInv'
  BY AttemptNext
<1>3. IInv /\ ProposalInv /\ AttemptInv /\ [Next]_vars =>
        [Orderly => \A p \in Pids, a \in Approvers :
           disk.attempts[<<p, a>>].count >= MaxAttempts => spends'[p] = spends[p]]_vars
  BY LimitedIsNotExecuted
<1> QED
  BY <1>1, <1>2, <1>3, ProposalInvariant, PTL DEF Spec, LimitedNeverExecutes
=============================================================================
