---------------------------- MODULE JsonStateStore ----------------------------
(***************************************************************************)
(* The adapter over VMGAStateStore, its default store: one JSON file per   *)
(* dictionary, each replaced as a whole by a rename.  It differs from the  *)
(* SQLite store in four ways, which are what this module is about:         *)
(*   - a save may report an error after every file was replaced, because   *)
(*     the directory is synchronised after the rename;                     *)
(*   - an approval is consumed by setting used in memory and saving        *)
(*     everything, with no look at what the file holds;                    *)
(*   - a file that cannot be read counts as empty, silently unless it is   *)
(*     the lockdown file of an adapter that fails closed;                  *)
(*   - proposals older than proposal_ttl_seconds are left out whenever the *)
(*     pending file is written or read.                                    *)
(*                                                                         *)
(* Tokens, failed attempts and evidence are in ApprovalGate; nonces are in *)
(* SignatureApproval.  Every request here carries a token that holds, and  *)
(* which denial reaches the threshold is left open.                        *)
(***************************************************************************)
EXTENDS Integers

CONSTANTS
  Pids,        \* identifiers of proposals that need review
  TTL,         \* proposal_ttl_seconds
  Expiry,      \* approval_expiry_seconds
  FaultSets,   \* each a subset of {"crash", "save", "ledger", "load"}
  NoApproval,  \* no record under this identifier
  MaxTime,     \* bound on the clock
  MaxGrants    \* bound on the approvals given to one proposal

ASSUME ConstantsAssumption ==
  /\ TTL \in Nat
  /\ Expiry \in Nat
  /\ FaultSets \subseteq SUBSET {"crash", "save", "ledger", "load"}
  /\ MaxTime \in Nat
  /\ MaxGrants \in Nat \ {0}

VARIABLES
  faults,      \* the faults of this behaviour; never changes
  fail_closed, \* fail_closed_on_corrupted_state; never changes
  now,         \* the clock
  mem,         \* the adapter's dictionaries and flag
  files,       \* the JSON files
  proposed,    \* history: identifiers already given out
  grants,      \* history: approvals given to each proposal
  acked,       \* history: proposals whose approve call was answered APPROVED
  spends       \* history: how often each grant went to the backend

history == <<proposed, grants, acked, spends>>
vars    == <<faults, fail_closed, now, mem, files, history>>

-----------------------------------------------------------------------------
Grant == 1..MaxGrants

\* A proposal, with requested_at.
Proposal == [pid: Pids, at: 0..MaxTime]

Approval == [grant: Grant, expires: 0..(MaxTime + Expiry), used: BOOLEAN]

ASSUME NoApprovalAssumption == NoApproval \notin Approval

State == [pending: SUBSET Proposal,
          approvals: [Pids -> Approval \cup {NoApproval}],
          lockdown: BOOLEAN]

Empty == [pending   |-> {},
          approvals |-> [p \in Pids |-> NoApproval],
          lockdown  |-> FALSE]

TypeOK ==
  /\ now \in 0..MaxTime
  /\ mem \in State
  /\ files \in State
  /\ proposed \subseteq Pids
  /\ grants \in [Pids -> 0..MaxGrants]
  /\ acked \subseteq Pids
  /\ spends \in [Pids -> [Grant -> Nat]]

-----------------------------------------------------------------------------
\* Mutant of Unexpired: nothing is too old.
UnexpiredAll(P) == P

\* The proposals of P younger than proposal_ttl_seconds.
Unexpired(P) == {x \in P : now - x.at < TTL}

\* Mutant of SaveFiles: approvals before pending.
SaveFilesSwapped(m, f, k) ==
  [pending   |-> IF k >= 2 THEN Unexpired(m.pending) ELSE f.pending,
   approvals |-> IF k >= 1 THEN m.approvals ELSE f.approvals,
   lockdown  |-> IF k >= 3 THEN m.lockdown ELSE f.lockdown]

\* _save_state after k of its renames: pending, approvals, lockdown, and the
\* nonces, which are none here.  The pending file leaves old proposals out.
SaveFiles(m, f, k) ==
  [pending   |-> IF k >= 1 THEN Unexpired(m.pending) ELSE f.pending,
   approvals |-> IF k >= 2 THEN m.approvals ELSE f.approvals,
   lockdown  |-> IF k >= 3 THEN m.lockdown ELSE f.lockdown]

Renames == 0..4

\* Mutant of SaveSucceeds: done with the first file.
SaveSucceedsEarly(k) == k >= 1

\* A save that raises nothing has renamed every file; one that raises may have.
SaveSucceeds(k) == k = 4
SaveFails(k)    == k \in Renames /\ "save" \in faults

\* What load_all_state makes of the files of which those in U cannot be read.
Read(f, U) ==
  [pending   |-> IF "pending" \in U THEN {} ELSE Unexpired(f.pending),
   approvals |-> IF "approvals" \in U THEN Empty.approvals ELSE f.approvals,
   lockdown  |-> "lockdown" \notin U /\ f.lockdown]

\* Mutant of FailsClosed: an unreadable lockdown file is not noticed either.
FailsClosedNever(U) == FALSE

\* An unreadable lockdown file is noticed, the other two are not.
FailsClosed(U) == fail_closed /\ "lockdown" \in U

\* load_all_state.  A malformed file (one that parses but holds something else)
\* or an oversized one leads to an empty state in lockdown as well.
Loads(f) ==
  IF "load" \notin faults THEN {Read(f, {})}
  ELSE {Read(f, U) : U \in {V \in SUBSET {"pending", "approvals", "lockdown"} : ~FailsClosed(V)}}
         \cup IF fail_closed THEN {[Empty EXCEPT !.lockdown = TRUE]} ELSE {}

\* The process dies when the files are f; the next one loads them.
RestartFrom(f) ==
  /\ "crash" \in faults
  /\ files' = f
  /\ mem' \in Loads(f)

Init ==
  /\ faults \in FaultSets
  /\ fail_closed \in BOOLEAN
  /\ now = 0
  /\ mem = Empty
  /\ files = Empty
  /\ proposed = {}
  /\ grants = [p \in Pids |-> 0]
  /\ acked = {}
  /\ spends = [p \in Pids |-> [g \in Grant |-> 0]]

-----------------------------------------------------------------------------
\* propose_action under review.  A failed save or ledger write is answered DENY
\* or LOCKDOWN, and the proposal stays pending in memory.
Propose(p) ==
  LET m == [mem EXCEPT !.pending = @ \cup {[pid |-> p, at |-> now]}]
  IN  /\ ~mem.lockdown
      /\ p \notin proposed
      /\ proposed' = proposed \cup {p}
      /\ \E k \in Renames :
           LET f == SaveFiles(m, files, k)
           IN  \/ /\ SaveSucceeds(k) \/ SaveFails(k)
                  /\ mem' = m /\ files' = f
               \/ /\ SaveSucceeds(k) /\ "ledger" \in faults
                  /\ mem' = [m EXCEPT !.lockdown = TRUE] /\ files' = f
               \/ RestartFrom(f)
      /\ UNCHANGED <<now, grants, acked, spends>>

\* A denied proposal that reaches the threshold locks the adapter and saves.
ProposeDenied ==
  LET m == [mem EXCEPT !.lockdown = TRUE]
  IN  /\ ~mem.lockdown
      /\ \E k \in Renames :
           \/ /\ SaveSucceeds(k) \/ SaveFails(k)
              /\ mem' = m /\ files' = SaveFiles(m, files, k)
           \/ RestartFrom(SaveFiles(m, files, k))
      /\ UNCHANGED <<now, history>>

\* approved_at + approval_expiry_seconds.
ExpiresAt == now + Expiry

\* approve_proposal of a pending proposal of any age; the rollback after a
\* failed save or ledger write is in memory.
Approve(x) ==
  LET p      == x.pid
      record == [grant |-> grants[p] + 1, expires |-> ExpiresAt, used |-> FALSE]
      m      == [mem EXCEPT !.pending = @ \ {x}, !.approvals[p] = record]
      back   == [mem EXCEPT !.approvals[p] = NoApproval]
  IN  /\ x \in mem.pending
      /\ grants[p] < MaxGrants
      /\ grants' = [grants EXCEPT ![p] = @ + 1]
      /\ \E k \in Renames :
           LET f == SaveFiles(m, files, k)
           IN  \/ /\ SaveSucceeds(k)
                  /\ mem' = m /\ files' = f
                  /\ acked' = acked \cup {p}
               \/ /\ SaveFails(k)
                  /\ mem' = back /\ files' = f
                  /\ UNCHANGED acked
               \/ /\ SaveSucceeds(k) /\ "ledger" \in faults
                  /\ mem' = [back EXCEPT !.lockdown = TRUE] /\ files' = f
                  /\ UNCHANGED acked
               \/ /\ RestartFrom(f)
                  /\ UNCHANGED acked
      /\ UNCHANGED <<now, proposed, spends>>

\* execute_approved: used is set and everything saved; the backend is reached
\* only when the save raised nothing, and otherwise used is unset in memory.
Execute(p) ==
  LET m == [mem EXCEPT !.approvals[p].used = TRUE]
      g == mem.approvals[p].grant
  IN  /\ mem.approvals[p] # NoApproval
      /\ now <= mem.approvals[p].expires
      /\ ~mem.approvals[p].used
      /\ \E k \in Renames :
           LET f == SaveFiles(m, files, k)
           IN  \/ /\ SaveSucceeds(k)
                  /\ spends' = [spends EXCEPT ![p][g] = @ + 1]
                  /\ \/ mem' = m /\ files' = f
                     \/ RestartFrom(f)
               \/ /\ SaveFails(k)
                  /\ files' = f
                  /\ UNCHANGED <<mem, spends>>
               \/ /\ RestartFrom(f)
                  /\ UNCHANGED spends
      /\ UNCHANGED <<now, proposed, grants, acked>>

\* reset_lockdown.
ResetLockdown ==
  LET m == [mem EXCEPT !.lockdown = FALSE]
  IN  /\ \E k \in Renames :
           \/ /\ SaveSucceeds(k) \/ SaveFails(k)
              /\ mem' = m /\ files' = SaveFiles(m, files, k)
           \/ RestartFrom(SaveFiles(m, files, k))
      /\ UNCHANGED <<now, history>>

Crash ==
  /\ RestartFrom(files)
  /\ UNCHANGED <<now, history>>

Tick ==
  /\ now < MaxTime
  /\ now' = now + 1
  /\ UNCHANGED <<mem, files, history>>

Next ==
  /\ \/ \E p \in Pids : Propose(p) \/ Execute(p)
     \/ \E x \in mem.pending : Approve(x)
     \/ ProposeDenied
     \/ ResetLockdown
     \/ Crash
     \/ Tick
  /\ UNCHANGED <<faults, fail_closed>>

Spec == Init /\ [][Next]_vars

-----------------------------------------------------------------------------
(***************************************************************************)
(* Properties.                                                             *)
(***************************************************************************)

\* Consumption by a whole save is enough: no approval goes to the backend twice,
\* whichever saves fail or stop and whichever files cannot be read.
AtMostOncePerApproval == \A p \in Pids, g \in Grant : spends[p][g] <= 1

\* No approval that one process rolls back, because its save or ledger write
\* failed, is found in the files by another.
Orderly == "crash" \notin faults \/ faults \cap {"save", "ledger"} = {}

\* No proposal goes to the backend under two approvals, unless an approval is
\* rolled back in one process and found in the files by another.
OneActionPerProposal ==
  Orderly =>
    \A p \in Pids, g, h \in Grant : spends[p][g] > 0 /\ spends[p][h] > 0 => g = h

\* As long as the files can be read, an approval answered APPROVED stays in
\* them, and its proposal never returns to pending.
AckedApprovalsSurvive ==
  "load" \notin faults =>
    \A p \in acked :
      /\ files.approvals[p] # NoApproval
      /\ \A x \in mem.pending \cup files.pending : x.pid # p

\* With fail_closed a lockdown that reached its file ends through reset_lockdown
\* only, whatever cannot be read at a restart.
DurableLockdownNeedsReset ==
  [][fail_closed /\ mem.lockdown /\ files.lockdown /\ ~mem.lockdown' => ResetLockdown]_vars

\* An unreadable pending file may bring proposals back at a later restart, but
\* never one older than its time to live.
ExpiredNeverReturns ==
  [][\A x \in mem'.pending \ mem.pending : now - x.at < TTL \/ x.pid \notin proposed]_vars
=============================================================================
