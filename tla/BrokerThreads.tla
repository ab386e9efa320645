---------------------------- MODULE BrokerThreads ----------------------------
(***************************************************************************)
(* One broker serving HTTP requests, a thread for each.  The adapter lock  *)
(* is held from the checks of a handler to its answer, over the backend    *)
(* command of an approved action too.  Outside it run the executor's first *)
(* look at the approval, whose payload it will hand to the backend, and    *)
(* the backend command of an allowed read.                                 *)
(*                                                                         *)
(* A handler is one step, except where an unlocked reader or a backend     *)
(* command can come in between: an approval is in memory before it is      *)
(* saved and logged, and is consumed before its command has returned.      *)
(* ApprovalGate has the same handlers as single steps, with the lockdown   *)
(* and token checks that appear here as requests being refused.            *)
(*                                                                         *)
(* The broker does not notice a client that stops waiting (agents do after *)
(* 2.5 or 10 seconds): its request goes on, and a retry is one more        *)
(* request.                                                                *)
(***************************************************************************)
EXTENDS Integers

CONSTANTS
  Requests,    \* requests clients may send
  Pids,        \* identifiers of proposals
  MaxRetries,  \* max_retries of the gog backend
  NoRecord,    \* no approval under this identifier
  Nobody       \* the adapter lock is free

ASSUME ConstantsAssumption ==
  /\ MaxRetries \in Nat
  /\ NoRecord \notin [by: Requests, used: BOOLEAN]
  /\ Nobody \notin Requests

VARIABLES
  thread,    \* where each request is and what its thread remembers
  lock,      \* the request whose thread holds the adapter lock
  pending,   \* pending_proposals
  approvals, \* the approvals in memory; a record is named by its request
  retries,   \* rate-limited commands each request has repeated
  answer,    \* the answer to each request
  drafts,    \* drafts created in the mailbox, by proposal
  proposed   \* history: identifiers already given out

vars == <<thread, lock, pending, approvals, retries, answer, drafts, proposed>>

-----------------------------------------------------------------------------
\* unsent; arrived: the executor has not looked at the approval yet; queued:
\* waits for the lock; committing: an approval is being saved and logged;
\* reading, drafting: the backend command of a read or of an approval runs.
Stage == {"unsent", "arrived", "queued", "committing", "reading", "drafting", "done"}

Kind == {"propose", "approve", "execute"}

\* saw: the executor found a record.  acked: when the client sent the request
\* it knew of the proposal's approval.
Thread == [stage: Stage, kind: Kind, pid: Pids, saw: BOOLEAN, acked: BOOLEAN]

Record == [by: Requests, used: BOOLEAN]

Answer == {"none", "REQUIRE_REVIEW", "ALLOW", "APPROVED", "SUCCESS", "DENY", "ERROR"}

TypeOK ==
  /\ thread \in [Requests -> Thread]
  /\ lock \in Requests \cup {Nobody}
  /\ pending \subseteq Pids
  /\ approvals \in [Pids -> Record \cup {NoRecord}]
  /\ retries \in [Requests -> 0..MaxRetries]
  /\ answer \in [Requests -> Answer]
  /\ drafts \in [Pids -> Nat]
  /\ proposed \subseteq Pids

-----------------------------------------------------------------------------
\* The broker has started over proposals of an earlier process.
Init ==
  /\ \E p \in Pids :
       thread = [r \in Requests |-> [stage |-> "unsent", kind |-> "propose", pid |-> p,
                                     saw |-> FALSE, acked |-> FALSE]]
  /\ lock = Nobody
  /\ pending \in SUBSET Pids
  /\ approvals = [p \in Pids |-> NoRecord]
  /\ retries = [r \in Requests |-> 0]
  /\ answer = [r \in Requests |-> "none"]
  /\ drafts = [p \in Pids |-> 0]
  /\ proposed = pending

At(r, kind, stage) == thread[r].kind = kind /\ thread[r].stage = stage
Go(r, stage)       == thread' = [thread EXCEPT ![r].stage = stage]

Reply(r, a) ==
  /\ Go(r, "done")
  /\ answer' = [answer EXCEPT ![r] = a]

LockFree == lock = Nobody
Acquire(r) == LockFree /\ lock' = r
Release == lock' = Nobody

-----------------------------------------------------------------------------
(***************************************************************************)
(* Requests come in.  An execute first passes through the executor.        *)
(***************************************************************************)
Acked(p) == \E a \in Requests : thread[a].pid = p /\ answer[a] = "APPROVED"

Send(r, kind, p) ==
  /\ thread[r].stage = "unsent"
  /\ thread' = [thread EXCEPT ![r] =
       [stage |-> IF kind = "execute" THEN "arrived" ELSE "queued",
        kind |-> kind, pid |-> p, saw |-> FALSE, acked |-> Acked(p)]]
  /\ UNCHANGED <<lock, pending, approvals, retries, answer, drafts, proposed>>

\* Mutant of LookUp: the executor looks into the approvals it started with.
LookUpCached(r) ==
  /\ At(r, "execute", "arrived")
  /\ Go(r, "queued")
  /\ UNCHANGED <<lock, pending, approvals, retries, answer, drafts, proposed>>

\* VMGAExecutor.execute_approved: reads the approval without the lock.
LookUp(r) ==
  /\ At(r, "execute", "arrived")
  /\ thread' = [thread EXCEPT ![r].stage = "queued",
                             ![r].saw = approvals[thread[r].pid] # NoRecord]
  /\ UNCHANGED <<lock, pending, approvals, retries, answer, drafts, proposed>>

(***************************************************************************)
(* propose                                                                 *)
(***************************************************************************)

\* An invalid action, policy or lockdown: nothing becomes pending.
ProposeRefused(r) ==
  /\ At(r, "propose", "queued") /\ LockFree
  /\ Reply(r, "DENY")
  /\ UNCHANGED <<lock, pending, approvals, retries, drafts, proposed>>

\* When its save or its event fails the proposal is refused too, but stays in
\* pending_proposals.
ProposeForReview(r) ==
  /\ At(r, "propose", "queued") /\ LockFree
  /\ thread[r].pid \notin proposed
  /\ pending' = pending \cup {thread[r].pid}
  /\ proposed' = proposed \cup {thread[r].pid}
  /\ \E a \in {"REQUIRE_REVIEW", "DENY"} : Reply(r, a)
  /\ UNCHANGED <<lock, approvals, retries, drafts>>

\* An allowed read: its command runs after the lock is released.
ProposeRead(r) ==
  /\ At(r, "propose", "queued") /\ LockFree
  /\ Go(r, "reading")
  /\ UNCHANGED <<lock, pending, approvals, retries, answer, drafts, proposed>>

(***************************************************************************)
(* approve                                                                 *)
(***************************************************************************)

\* Not pending, or the approver or the token is not good.
ApproveRefused(r) ==
  /\ At(r, "approve", "queued") /\ LockFree
  /\ Reply(r, "DENY")
  /\ UNCHANGED <<lock, pending, approvals, retries, drafts, proposed>>

\* The move from pending to approved, visible to the executor at once.
Approve(r) ==
  LET p == thread[r].pid
  IN  /\ At(r, "approve", "queued") /\ Acquire(r)
      /\ p \in pending
      /\ pending' = pending \ {p}
      /\ approvals' = [approvals EXCEPT ![p] = [by |-> r, used |-> FALSE]]
      /\ Go(r, "committing")
      /\ UNCHANGED <<retries, answer, drafts, proposed>>

ApproveCommits(r) ==
  /\ At(r, "approve", "committing")
  /\ Release
  /\ Reply(r, "APPROVED")
  /\ UNCHANGED <<pending, approvals, retries, drafts, proposed>>

\* The save or the ledger write fails: the move is taken back.
ApproveRollsBack(r) ==
  LET p == thread[r].pid
  IN  /\ At(r, "approve", "committing")
      /\ Release
      /\ pending' = pending \cup {p}
      /\ approvals' = [approvals EXCEPT ![p] = NoRecord]
      /\ Reply(r, "DENY")
      /\ UNCHANGED <<retries, drafts, proposed>>

(***************************************************************************)
(* execute                                                                 *)
(***************************************************************************)
Executable(p) == approvals[p] # NoRecord /\ ~approvals[p].used

\* No unused record, or its token is not good, limited or expired, or the
\* consumption fails.
ExecuteRefused(r) ==
  /\ At(r, "execute", "queued") /\ LockFree
  /\ Reply(r, "DENY")
  /\ UNCHANGED <<lock, pending, approvals, retries, drafts, proposed>>

\* Mutant of Consume: the check is about the record the executor saw.
ConsumeSeen(r) ==
  /\ At(r, "execute", "queued") /\ Acquire(r)
  /\ thread[r].saw /\ approvals[thread[r].pid] # NoRecord
  /\ approvals' = [approvals EXCEPT ![thread[r].pid].used = TRUE]
  /\ Go(r, "drafting")
  /\ UNCHANGED <<pending, retries, answer, drafts, proposed>>

\* The approval is consumed; the lock stays with the thread.
Consume(r) ==
  /\ At(r, "execute", "queued") /\ Acquire(r)
  /\ Executable(thread[r].pid)
  /\ approvals' = [approvals EXCEPT ![thread[r].pid].used = TRUE]
  /\ Go(r, "drafting")
  /\ UNCHANGED <<pending, retries, answer, drafts, proposed>>

\* Without a record the action is "unknown", which the backend denies.
BackendDenies(r) ==
  /\ At(r, "execute", "drafting")
  /\ ~thread[r].saw
  /\ Release
  /\ Reply(r, "DENY")
  /\ UNCHANGED <<pending, approvals, retries, drafts, proposed>>

(***************************************************************************)
(* The gog command, of a read or of an approved draft.                     *)
(***************************************************************************)
Running(r) == thread[r].stage = "reading" \/ (thread[r].stage = "drafting" /\ thread[r].saw)

\* What the command did to the mailbox.  A command that failed or was killed
\* may have created its draft.
Drafts(r, n) ==
  IF thread[r].stage = "drafting"
  THEN drafts' = [drafts EXCEPT ![thread[r].pid] = @ + n]
  ELSE UNCHANGED drafts

\* Mutant of LeaveBackend: an exception on the way keeps the lock.
LeaveBackendLocked(r) == UNCHANGED lock

LeaveBackend(r) == IF thread[r].stage = "drafting" THEN Release ELSE UNCHANGED lock

CommandSucceeds(r) ==
  /\ Running(r)
  /\ Drafts(r, 1)
  /\ LeaveBackend(r)
  /\ Reply(r, IF thread[r].stage = "drafting" THEN "SUCCESS" ELSE "ALLOW")
  /\ UNCHANGED <<pending, approvals, retries, proposed>>

\* Mutants of MayRetry: one more; for ever.
MayRetryOneMore(r) == retries[r] <= MaxRetries

MayRetry(r) == retries[r] < MaxRetries

\* The output speaks of a rate limit: the same command is run again.
CommandRateLimited(r) ==
  /\ Running(r)
  /\ MayRetry(r)
  /\ \E n \in {0, 1} : Drafts(r, n)
  /\ retries' = [retries EXCEPT ![r] = @ + 1]
  /\ UNCHANGED <<thread, lock, pending, approvals, answer, proposed>>

\* Any other failure, a timeout among them, or the last retry.
CommandFails(r) ==
  /\ Running(r)
  /\ \E n \in {0, 1} : Drafts(r, n)
  /\ LeaveBackend(r)
  /\ Reply(r, IF thread[r].stage = "drafting" THEN "ERROR" ELSE "ALLOW")
  /\ UNCHANGED <<pending, approvals, retries, proposed>>

-----------------------------------------------------------------------------
\* What a thread does by itself.
Serve(r) ==
  \/ LookUp(r)
  \/ ProposeRefused(r) \/ ProposeForReview(r) \/ ProposeRead(r)
  \/ ApproveRefused(r) \/ Approve(r) \/ ApproveCommits(r) \/ ApproveRollsBack(r)
  \/ ExecuteRefused(r) \/ Consume(r) \/ BackendDenies(r)
  \/ CommandSucceeds(r) \/ CommandRateLimited(r) \/ CommandFails(r)

Next ==
  \E r \in Requests :
    \/ \E kind \in Kind, p \in Pids : Send(r, kind, p)
    \/ Serve(r)

Spec == Init /\ [][Next]_vars

\* A thread that can go on does: the interpreter runs every thread, a command
\* returns or is killed after timeout_seconds, and each request takes the lock
\* only once, so that none is overtaken for ever.
Fairness == \A r \in Requests : WF_vars(Serve(r))

FairSpec == Spec /\ Fairness

-----------------------------------------------------------------------------
(***************************************************************************)
(* Properties.                                                             *)
(***************************************************************************)

\* An execute sent by a client that knew of the approval gives the backend the
\* approved action: the executor's unlocked look never misses the record, so
\* the approval is not consumed for nothing.
AckedApprovalCarriesPayload ==
  \A r \in Requests :
    At(r, "execute", "drafting") /\ thread[r].acked => thread[r].saw

\* However many requests ask for it and however often a rate-limited command is
\* repeated, one proposal leaves at most one draft per run of its one command.
DraftsBoundedByRetries == \A p \in Pids : drafts[p] <= 1 + MaxRetries

\* Every request that was sent is answered, behind whatever holds the lock.
EveryRequestAnswered ==
  \A r \in Requests : thread[r].stage # "unsent" ~> thread[r].stage = "done"

\* The threads implement OneShotApproval, an approval being the request that
\* gave it: it counts as given when it was committed, and as spent when the
\* request that consumed it left the backend.
Drafting(p) == \E r \in Requests : At(r, "execute", "drafting") /\ thread[r].pid = p

Given == {a \in Requests : answer[a] = "APPROVED"}
Spent == {a \in Requests :
            \E p \in Pids : approvals[p] = [by |-> a, used |-> TRUE] /\ ~Drafting(p)}
Performed == {a \in Spent : drafts[thread[a].pid] > 0}

OneShot == INSTANCE OneShotApproval WITH
  Approvals <- Requests, given <- Given, spent <- Spent, performed <- Performed

ImplementsOneShot == OneShot!Spec
=============================================================================
