---------------------------- MODULE ApprovalGate ----------------------------
(***************************************************************************)
(* The approval gate of one VMGA broker process (VMGAGmailAdapter over     *)
(* SQLiteStateStore, HMAC approval tokens, strict mode).                   *)
(*                                                                         *)
(* The adapter keeps its state twice: in memory, where every decision is   *)
(* taken, and in SQLite, from which a restarted process starts again.      *)
(* Every handler runs under the adapter lock, so a handler is one action;  *)
(* what can still go wrong inside it is a choice of the action:            *)
(*   - _save_state writes its four tables in four transactions: the first  *)
(*     k of them are written when an error or a crash stops it;            *)
(*   - a ledger write fails, with or without its line in the file;         *)
(*   - the process dies, and memory is read again from the tables.         *)
(* FaultSets says which of these may come together in one behaviour.       *)
(*                                                                         *)
(* Time is counted in approval-token windows (five minutes).  A token is   *)
(* unforgeable, and is known by the window it was computed for.  Proposals *)
(* are immutable, so a proposal is its identifier and a request either     *)
(* carries its hash or does not.                                           *)
(***************************************************************************)
EXTENDS Integers, FiniteSets

CONSTANTS
  Pids,           \* identifiers of proposals that policy sends to review
  Actors,         \* agents, whose denials are counted
  Approvers,      \* operators who can compute approval tokens
  Allowlist,      \* approver_allowlist of the policy; empty: no restriction
  Threshold,      \* lockdown_threshold
  MaxAttempts,    \* _max_token_attempts
  Lockout,        \* _lockout_duration_seconds, in windows
  Expiry,         \* approval_expiry_seconds, in windows
  LedgerRequired, \* ledger_required_for_kinetic
  FaultSets,      \* each a subset of {"crash", "save", "ledger", "load"}
  NoApproval,     \* no record under this identifier
  MaxTime,        \* bound on the clock
  MaxGrants       \* bound on the approvals given to one proposal

ASSUME ConstantsAssumption ==
  /\ Allowlist \subseteq Approvers
  /\ Threshold \in Nat \ {0}
  /\ MaxAttempts \in Nat \ {0}
  /\ Lockout \in Nat
  /\ Expiry \in Nat
  /\ LedgerRequired \in BOOLEAN
  /\ FaultSets \subseteq SUBSET {"crash", "save", "ledger", "load"}
  /\ MaxTime \in Nat
  /\ MaxGrants \in Nat \ {0}

VARIABLES
  faults,    \* the faults of this behaviour; never changes
  now,       \* current token window
  mem,       \* the adapter's dictionaries and flags
  disk,      \* the SQLite tables
  evidence,  \* lifecycle events in the ledger, by proposal
  effects,   \* mailbox side effects, by proposal and grant
  spends,    \* history: how often each grant was consumed
  grants,    \* history: approvals whose token was accepted, by proposal
  proposed,  \* history: identifiers already given out
  answers    \* history: the answer to the approve call of each grant

history == <<spends, grants, proposed, answers>>
vars    == <<faults, now, mem, disk, evidence, effects, history>>

-----------------------------------------------------------------------------
(***************************************************************************)
(* Types.                                                                  *)
(***************************************************************************)
Grant == 1..MaxGrants
Event == {"received", "approved", "executed"}
\* "none" also stands for a caller whose connection died with the process.
Answer == {"none", "approved", "refused"}

\* approved_at, which tells two approvals of one proposal apart, is the grant.
Approval == [grant: Grant, approver: Approvers, window: 0..MaxTime,
             expires: 0..(MaxTime + Expiry), used: BOOLEAN]

ASSUME NoApprovalAssumption == NoApproval \notin Approval

\* _failed_token_attempts; a missing entry has count 0.
Attempt   == [count: 0..MaxAttempts, first: 0..MaxTime]
NoAttempt == [count |-> 0, first |-> 0]

State == [pending: SUBSET Pids,
          approvals: [Pids -> Approval \cup {NoApproval}],
          lockdown: BOOLEAN,
          denials: [Actors -> 0..Threshold],
          attempts: [Pids \X Approvers -> Attempt]]

EmptyState == [pending   |-> {},
               approvals |-> [p \in Pids |-> NoApproval],
               lockdown  |-> FALSE,
               denials   |-> [a \in Actors |-> 0],
               attempts  |-> [key \in Pids \X Approvers |-> NoAttempt]]

TypeOK ==
  /\ now \in 0..MaxTime
  /\ mem \in State
  /\ disk \in State
  /\ evidence \in [Pids -> SUBSET Event]
  /\ effects \in [Pids -> [Grant -> Nat]]
  /\ spends \in [Pids -> [Grant -> Nat]]
  /\ grants \in [Pids -> 0..MaxGrants]
  /\ proposed \subseteq Pids
  /\ answers \in [Pids -> [Grant -> Answer]]

-----------------------------------------------------------------------------
(***************************************************************************)
(* Persistence, restart and evidence.                                      *)
(***************************************************************************)

\* Mutants of SaveTables: approvals written before pending; approvals never
\* written; the flag in a transaction after the counts; rows never deleted.
SaveTablesSwapped(m, d, k) ==
  [pending   |-> IF k >= 2 THEN m.pending ELSE d.pending,
   approvals |-> IF k >= 1 THEN m.approvals ELSE d.approvals,
   lockdown  |-> IF k >= 3 THEN m.lockdown ELSE d.lockdown,
   denials   |-> IF k >= 3 THEN m.denials ELSE d.denials,
   attempts  |-> d.attempts]
SaveTablesSkipped(m, d, k) == SaveTablesSwapped(m, [d EXCEPT !.pending = m.pending], 0)
SaveTablesFlagLast(m, d, k) ==
  [m EXCEPT !.lockdown = IF k = 4 THEN m.lockdown ELSE d.lockdown, !.attempts = d.attempts]
SaveTablesUndeleted(m, d, k) ==
  [m EXCEPT !.pending = @ \cup d.pending, !.attempts = d.attempts]

\* _save_state stopped after its first k tables: pending, approvals,
\* lockdown with denial counts, nonces (empty under HMAC approval).
SaveTables(m, d, k) ==
  [pending   |-> IF k >= 1 THEN m.pending ELSE d.pending,
   approvals |-> IF k >= 2 THEN m.approvals ELSE d.approvals,
   lockdown  |-> IF k >= 3 THEN m.lockdown ELSE d.lockdown,
   denials   |-> IF k >= 3 THEN m.denials ELSE d.denials,
   attempts  |-> d.attempts]

\* Mutant of Saved: a save that wrote its first table is taken for done.
SavedEarly(k) == k >= 1

Tables   == 0..4
Saved(k) == k = 4
\* The tables a handler that goes on after _save_state may have written.
CanSave(k) == Saved(k) \/ "save" \in faults

\* A failed ledger write leaves its line out ("lost") or in ("unacked").
WriteResults == {"ok", "lost", "unacked"}
CanWrite(r)  == r = "ok" \/ "ledger" \in faults
Record(p, event, r) ==
  IF r = "lost" THEN evidence ELSE [evidence EXCEPT ![p] = @ \cup {event}]
\* Mutant of Accepted: the result of the ledger write is ignored.
AcceptedAlways(r) == TRUE

\* What the handler requires of a ledger write before it answers.
Accepted(r)  == r = "ok" \/ ~LedgerRequired

Expired(t) == t.count > 0 /\ now - t.first >= Lockout

\* load_rate_limit_state drops expired entries, from the table too.
PurgeAttempts(d) ==
  [d EXCEPT !.attempts = [key \in DOMAIN d.attempts |->
     IF Expired(d.attempts[key]) THEN NoAttempt ELSE d.attempts[key]]]

\* Mutants of Loads: a new process starts unlocked, or with no failed attempts.
LoadsUnlocked(d)        == {[d EXCEPT !.lockdown = FALSE]}
LoadsWithoutAttempts(d) == {[d EXCEPT !.attempts = EmptyState.attempts]}

\* __init__ over load_all_state(fail_closed=True): the tables as they are or,
\* when reading them fails, an empty state in lockdown.
Loads(d) ==
  {d} \cup IF "load" \in faults
           THEN {[EmptyState EXCEPT !.lockdown = TRUE, !.attempts = d.attempts]}
           ELSE {}

\* The process dies when the tables are d, and the next one starts from them.
RestartFrom(d) ==
  /\ "crash" \in faults
  /\ disk' = PurgeAttempts(d)
  /\ mem' \in Loads(PurgeAttempts(d))

Locked(m) == [m EXCEPT !.lockdown = TRUE]

-----------------------------------------------------------------------------
Init ==
  /\ faults \in FaultSets
  /\ now = 0
  /\ mem = EmptyState
  /\ disk = EmptyState
  /\ evidence = [p \in Pids |-> {}]
  /\ effects = [p \in Pids |-> [g \in Grant |-> 0]]
  /\ spends = effects
  /\ grants = [p \in Pids |-> 0]
  /\ proposed = {}
  /\ answers = [p \in Pids |-> [g \in Grant |-> "none"]]

(***************************************************************************)
(* propose_action                                                          *)
(***************************************************************************)

\* Policy asks for review (only kinetic actions get this far): the proposal is
\* pending, saved and logged, each of which may fail.
ProposeForReview(p) ==
  LET m == [mem EXCEPT !.pending = @ \cup {p}]
  IN  /\ ~mem.lockdown
      /\ p \notin proposed
      /\ proposed' = proposed \cup {p}
      /\ \E k \in Tables, r \in WriteResults :
           LET d == SaveTables(m, disk, k)
           IN  /\ evidence' = IF Saved(k) THEN Record(p, "received", r) ELSE evidence
               /\ \/ /\ Saved(k) /\ CanWrite(r) /\ Accepted(r)
                     /\ mem' = m /\ disk' = d
                  \/ /\ ~Saved(k) /\ CanSave(k)
                     /\ mem' = m /\ disk' = d
                  \/ /\ Saved(k) /\ CanWrite(r) /\ ~Accepted(r)
                     /\ mem' = Locked(m) /\ disk' = d
                  \/ RestartFrom(d)
      /\ UNCHANGED <<now, effects, spends, grants, answers>>

AtThreshold(n) == n >= Threshold

\* Policy denies: the actor's denials are counted, and saved only when they
\* reach the threshold and lock the adapter down.  A kinetic denial that cannot
\* be logged locks it down too, without saving.
ProposeDenied(a, kinetic) ==
  LET m == [mem EXCEPT !.denials[a] = @ + 1]
  IN  /\ ~mem.lockdown
      /\ \/ /\ ~AtThreshold(m.denials[a])
            /\ mem' = m
            /\ UNCHANGED disk
         \/ /\ ~AtThreshold(m.denials[a])
            /\ kinetic /\ LedgerRequired /\ "ledger" \in faults
            /\ mem' = Locked(m)
            /\ UNCHANGED disk
         \/ /\ AtThreshold(m.denials[a])
            /\ mem' = Locked(m)
            /\ \E k \in Tables : CanSave(k) /\ disk' = SaveTables(Locked(m), disk, k)
         \/ /\ AtThreshold(m.denials[a])
            /\ \E k \in Tables : RestartFrom(SaveTables(Locked(m), disk, k))
      /\ UNCHANGED <<now, evidence, effects, history>>

\* Policy allows a kinetic action outright and its evidence cannot be written.
\* (An allowed proposal that is logged changes nothing here.)
ProposeAllowedUnlogged ==
  /\ ~mem.lockdown
  /\ LedgerRequired /\ "ledger" \in faults
  /\ mem' = Locked(mem)
  /\ UNCHANGED <<now, disk, evidence, effects, history>>

(***************************************************************************)
(* approve_proposal.  A refused token changes nothing and is no action.    *)
(***************************************************************************)
Authorized == IF Allowlist = {} THEN Approvers ELSE Allowlist

\* _verify_approval_token: the token of this window or of the previous one.
TokenCurrent(w) == w \in {now, now - 1}

\* The token holds: the proposal moves from pending to approved, is saved and
\* logged.  A failed save or log takes the move back in memory only.
Approve(p, approver, w) ==
  LET g      == grants[p] + 1
      record == [grant |-> g, approver |-> approver, window |-> w,
                 expires |-> now + Expiry, used |-> FALSE]
      m      == [mem EXCEPT !.pending = @ \ {p}, !.approvals[p] = record]
      back   == [mem EXCEPT !.approvals[p] = NoApproval]
  IN  /\ approver \in Authorized
      /\ p \in mem.pending
      /\ TokenCurrent(w)
      /\ grants[p] < MaxGrants
      /\ grants' = [grants EXCEPT ![p] = g]
      /\ \E k \in Tables, r \in WriteResults :
           LET d == SaveTables(m, disk, k)
           IN  /\ evidence' = IF Saved(k) THEN Record(p, "approved", r) ELSE evidence
               /\ \/ /\ Saved(k) /\ CanWrite(r) /\ Accepted(r)
                     /\ mem' = m /\ disk' = d
                     /\ answers' = [answers EXCEPT ![p][g] = "approved"]
                  \/ /\ ~Saved(k) /\ CanSave(k)
                     /\ mem' = back /\ disk' = d
                     /\ answers' = [answers EXCEPT ![p][g] = "refused"]
                  \/ /\ Saved(k) /\ CanWrite(r) /\ ~Accepted(r)
                     /\ mem' = Locked(back) /\ disk' = d
                     /\ answers' = [answers EXCEPT ![p][g] = "refused"]
                  \/ /\ RestartFrom(d)
                     /\ UNCHANGED answers
      /\ UNCHANGED <<now, effects, spends, proposed>>

(***************************************************************************)
(* execute_approved                                                        *)
(***************************************************************************)
Key(p) == <<p, mem.approvals[p].approver>>

Limited(t) == t.count >= MaxAttempts /\ now - t.first < Lockout

\* The checks of _is_approval_valid that count as an attempt: the hash, the
\* token of the record, and that token still being current.
Presents(rec, hashOK, w) == hashOK /\ w = rec.window /\ TokenCurrent(w)

\* _record_failed_attempt; an entry past its lockout was dropped just before.
\* An entry below the limit keeps its first attempt however old it is.
Failed(t) ==
  IF t.count = 0 \/ t.count >= MaxAttempts
  THEN [count |-> 1, first |-> now]
  ELSE [t EXCEPT !.count = @ + 1]

\* A wrong hash or token: counted, and saved at once.
ExecuteBadToken(p, hashOK, w) ==
  LET m == [mem EXCEPT !.attempts[Key(p)] = Failed(@)]
  IN  /\ mem.approvals[p] # NoApproval
      /\ ~Limited(mem.attempts[Key(p)])
      /\ ~Presents(mem.approvals[p], hashOK, w)
      /\ \/ /\ mem' = m
            /\ disk' = [disk EXCEPT !.attempts = m.attempts]
         \/ /\ "save" \in faults
            /\ mem' = m
            /\ UNCHANGED disk
         \/ RestartFrom([disk EXCEPT !.attempts = m.attempts])
      /\ UNCHANGED <<now, evidence, effects, history>>

\* The token holds, which clears the attempts in memory, but the approval has
\* expired or is used, or the transaction that consumes it fails.
ExecuteDenied(p, w) ==
  /\ mem.approvals[p] # NoApproval
  /\ ~Limited(mem.attempts[Key(p)])
  /\ Presents(mem.approvals[p], TRUE, w)
  /\ \/ now > mem.approvals[p].expires
     \/ mem.approvals[p].used
     \/ "save" \in faults
  /\ mem' = [mem EXCEPT !.attempts[Key(p)] = NoAttempt]
  /\ UNCHANGED <<now, disk, evidence, effects, history>>

\* consume_approval_for_execution re-reads the row; it goes on only if the row
\* is the validated record, unused.
Consumable(p) ==
  /\ disk.approvals[p] # NoApproval
  /\ ~disk.approvals[p].used
  /\ disk.approvals[p] = mem.approvals[p]

\* Mutant of ConsumeRow: the UPDATE is missing.
ConsumeRowNot(d, p) == d

ConsumeRow(d, p) == [d EXCEPT !.approvals[p].used = TRUE]

\* The approval is consumed, the backend runs (effect 1) or fails (effect 0),
\* and the outcome is logged; nobody looks at whether that write succeeded.
Execute(p, w) ==
  LET g == mem.approvals[p].grant
      m == [mem EXCEPT !.approvals[p].used = TRUE,
                       !.attempts[Key(p)] = NoAttempt]
      d == ConsumeRow(disk, p)
  IN  /\ mem.approvals[p] # NoApproval
      /\ ~Limited(mem.attempts[Key(p)])
      /\ Presents(mem.approvals[p], TRUE, w)
      /\ now <= mem.approvals[p].expires
      /\ ~mem.approvals[p].used
      /\ Consumable(p)
      /\ \E effect \in {0, 1}, r \in WriteResults, attempts \in {disk.attempts, m.attempts} :
           /\ spends' = [spends EXCEPT ![p][g] = @ + 1]
           /\ effects' = [effects EXCEPT ![p][g] = @ + effect]
           /\ evidence' = Record(p, "executed", r)
           /\ \/ /\ CanWrite(r)
                 /\ attempts = m.attempts \/ "save" \in faults
                 /\ mem' = m /\ disk' = [d EXCEPT !.attempts = attempts]
              \/ RestartFrom([d EXCEPT !.attempts = attempts])
      /\ UNCHANGED <<now, grants, proposed, answers>>

(***************************************************************************)
(* reset_lockdown, a crash between requests, and the clock.                *)
(***************************************************************************)
ResetLockdown ==
  LET m == [mem EXCEPT !.lockdown = FALSE, !.denials = EmptyState.denials]
  IN  /\ \E k \in Tables :
           \/ /\ CanSave(k)
              /\ mem' = m /\ disk' = SaveTables(m, disk, k)
           \/ RestartFrom(SaveTables(m, disk, k))
      /\ UNCHANGED <<now, evidence, effects, history>>

Crash ==
  /\ RestartFrom(disk)
  /\ UNCHANGED <<now, evidence, effects, history>>

Tick ==
  /\ now < MaxTime
  /\ now' = now + 1
  /\ UNCHANGED <<mem, disk, evidence, effects, history>>

Next ==
  /\ \/ \E p \in Pids : ProposeForReview(p)
     \/ \E a \in Actors, kinetic \in BOOLEAN : ProposeDenied(a, kinetic)
     \/ ProposeAllowedUnlogged
     \/ \E p \in Pids, approver \in Approvers, w \in 0..MaxTime : Approve(p, approver, w)
     \/ \E p \in Pids, hashOK \in BOOLEAN, w \in 0..MaxTime : ExecuteBadToken(p, hashOK, w)
     \/ \E p \in Pids, w \in 0..MaxTime : ExecuteDenied(p, w)
     \/ \E p \in Pids, w \in 0..MaxTime : Execute(p, w)
     \/ ResetLockdown
     \/ Crash
     \/ Tick
  /\ UNCHANGED faults

Spec == Init /\ [][Next]_vars

-----------------------------------------------------------------------------
(***************************************************************************)
(* Safety.                                                                 *)
(***************************************************************************)
Acked == {p \in Pids : \E g \in Grant : answers[p][g] = "approved"}

\* An approval is spent at most once: whatever fails, and however often the
\* process restarts, execute_approved hands each approval to the backend at most
\* once, and so causes at most one mailbox side effect with it.
AtMostOncePerApproval ==
  \A p \in Pids, g \in Grant : effects[p][g] <= spends[p][g] /\ spends[p][g] <= 1

\* Every approval the adapter would act on in memory is the row in the table,
\* used flag included: rollbacks and restarts never leave it ahead of SQLite.
DurableApprovals ==
  \A p \in Pids :
    mem.approvals[p] # NoApproval => disk.approvals[p] = mem.approvals[p]

\* No approval is rolled back (its save or ledger write fails) in one process
\* and found in the tables by the next.
Orderly == "crash" \notin faults \/ faults \cap {"save", "ledger"} = {}

\* No new process starts without the tables, locked down.
Readable == ~({"crash", "load"} \subseteq faults)

\* A proposal that was handed to the backend is not handed to it again, whoever
\* approves it again, where roll backs and restarts do not come together.
OneActionPerProposal ==
  Orderly =>
    \A p \in Pids, g, h \in Grant : spends[p][g] > 0 /\ spends[p][h] > 0 => g = h

\* As long as the tables can be read, an approval answered APPROVED is kept for
\* good: its row survives every crash, roll back and partial save, it never
\* returns to pending, and its evidence was written.
AckedApprovalsSurvive ==
  Readable => \A p \in Acked :
    /\ disk.approvals[p] # NoApproval
    /\ mem.approvals[p] # NoApproval
    /\ p \notin mem.pending \cup disk.pending
    /\ LedgerRequired => "approved" \in evidence[p]

\* A restart that reads its tables brings no proposal back to pending that memory
\* had decided.
DecidedStaysDecided == Readable => disk.pending \subseteq mem.pending

\* An actor at the denial threshold means lockdown, in memory and on disk:
\* no partial save stores the count without the flag.
ThresholdLocks ==
  \A s \in {mem, disk} :
    (\E a \in Actors : s.denials[a] >= Threshold) => s.lockdown

\* While the process stays up, a kinetic side effect is backed by approval
\* evidence even when ledger writes fail.
ApprovalLoggedBeforeEffect ==
  LedgerRequired /\ "crash" \notin faults =>
    \A p \in Pids, g \in Grant : effects[p][g] > 0 => "approved" \in evidence[p]

\* A lockdown that reached the table ends only through reset_lockdown:
\* restarting the process does not clear it.
DurableLockdownNeedsReset ==
  [][mem.lockdown /\ disk.lockdown /\ ~mem.lockdown' => ResetLockdown]_vars

\* Once the failed attempts recorded for an approval reach the limit, it is
\* never executed again, restarts included: its token expires before the lockout.
LimitedNeverExecutes ==
  [][Orderly => \A p \in Pids, a \in Approvers :
       disk.attempts[<<p, a>>].count >= MaxAttempts => spends'[p] = spends[p]]_vars

\* What ties the rows to the history: no approval was spent before it was given,
\* and the row of a spent approval says so.  With the invariants above it is
\* inductive.
SpentRowsAreUsed ==
  \A p \in Pids :
    /\ \A g \in Grant : g > grants[p] => spends[p][g] = 0
    /\ disk.approvals[p] # NoApproval =>
         /\ disk.approvals[p].grant <= grants[p]
         /\ spends[p][disk.approvals[p].grant] > 0 => disk.approvals[p].used

IInv ==
  /\ TypeOK
  /\ DurableApprovals
  /\ ThresholdLocks
  /\ AtMostOncePerApproval
  /\ SpentRowsAreUsed

\* The gate implements OneShotApproval, each grant being one approval.
OneShot == INSTANCE OneShotApproval WITH
  Approvals <- Pids \X Grant,
  given     <- {x \in Pids \X Grant : x[2] <= grants[x[1]]},
  spent     <- {x \in Pids \X Grant : spends[x[1]][x[2]] > 0},
  performed <- {x \in Pids \X Grant : effects[x[1]][x[2]] > 0}

ImplementsOneShot == OneShot!Spec
=============================================================================
