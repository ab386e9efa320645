----------------------------- MODULE SharedStore ----------------------------
(***************************************************************************)
(* Several brokers over one SQLite database.  Each broker serialises its   *)
(* requests with its own lock and decides from its own memory; between two *)
(* transactions of one broker come those of the others.  A save deletes    *)
(* and rewrites a whole table from memory; only the consumption of an      *)
(* approval reads the row again inside its transaction.                    *)
(*                                                                         *)
(* A write transaction that finds the database locked for busy_timeout     *)
(* fails, and with it its request.  A broker may die at any point; SQLite  *)
(* then drops its transaction, and the next process reads the tables one   *)
(* by one.  The tables start with the approvals of an earlier process.     *)
(***************************************************************************)
EXTENDS Integers, FiniteSets

CONSTANTS
  Brokers,     \* processes on the database
  Writers,     \* the brokers that take proposals and approvals
  Pids,        \* identifiers of proposals
  Approved,    \* those approved by an earlier process
  NoApproval,  \* no record under this identifier
  NoBroker,    \* nobody holds the write lock
  MaxGrants,   \* bound on the approvals given to one proposal
  MaxSpends,   \* bound: an approval consumed so often is not tried again
  MaxCrashes   \* bound on crashes

ASSUME ConstantsAssumption ==
  /\ Writers \subseteq Brokers
  /\ IsFiniteSet(Brokers)
  /\ Approved \subseteq Pids
  /\ NoBroker \notin Brokers
  /\ Pids # {}
  /\ MaxGrants \in Nat \ {0}
  /\ MaxSpends \in Nat \ {0}
  /\ MaxCrashes \in Nat

VARIABLES
  mem,       \* each broker's pending proposals and approvals
  disk,      \* the committed tables
  job,       \* what each broker is doing
  writer,    \* the broker inside a write transaction
  proposed,  \* history: identifiers already given out
  grants,    \* history: approvals given, by proposal
  spends,    \* history: consumptions, by proposal and approval
  revived,   \* history: saves that made a spent approval unused again
  crashes    \* history: number of crashes

history == <<proposed, grants, spends, revived, crashes>>
vars    == <<mem, disk, job, writer, history>>

-----------------------------------------------------------------------------
Grant    == 1..MaxGrants
Approval == [grant: Grant, used: BOOLEAN]

ASSUME NoApprovalAssumption == NoApproval \notin Approval

State == [pending: SUBSET Pids, approvals: [Pids -> Approval \cup {NoApproval}]]

\* idle; save: the transactions of _save_state that are left; consume: waits
\* for BEGIN IMMEDIATE, then is inside the transaction (commit); backend: the
\* approval is consumed; load: reads the approvals after the proposals.
Stage == {"idle", "save pending", "save approvals", "consume", "commit", "backend", "load"}
Kind  == {"propose", "approve", "execute", "start"}
Job   == [stage: Stage, kind: Kind, pid: Pids]

TypeOK ==
  /\ mem \in [Brokers -> State]
  /\ disk \in State
  /\ job \in [Brokers -> Job]
  /\ writer \in Brokers \cup {NoBroker}
  /\ proposed \subseteq Pids
  /\ grants \in [Pids -> 0..MaxGrants]
  /\ spends \in [Pids -> [Grant -> Nat]]
  /\ revived \in [Pids -> [Grant -> Nat]]
  /\ crashes \in 0..MaxCrashes

-----------------------------------------------------------------------------
Init ==
  /\ disk = [pending   |-> {},
             approvals |-> [p \in Pids |-> IF p \in Approved THEN [grant |-> 1, used |-> FALSE]
                                                             ELSE NoApproval]]
  /\ mem = [b \in Brokers |-> disk]
  /\ job = [b \in Brokers |-> [stage |-> "idle", kind |-> "start", pid |-> CHOOSE p \in Pids : TRUE]]
  /\ writer = NoBroker
  /\ proposed = Approved
  /\ grants = [p \in Pids |-> IF p \in Approved THEN 1 ELSE 0]
  /\ spends = [p \in Pids |-> [g \in Grant |-> 0]]
  /\ revived = spends
  /\ crashes = 0

At(b, stage)   == job[b].stage = stage
GoTo(b, stage) == job' = [job EXCEPT ![b].stage = stage]

Begin(b, kind, p, stage) ==
  /\ At(b, "idle")
  /\ job' = [job EXCEPT ![b] = [stage |-> stage, kind |-> kind, pid |-> p]]

\* A write transaction starts when no other broker is inside one.
Unlocked(b) == writer \in {b, NoBroker}

(***************************************************************************)
(* Requests.                                                               *)
(***************************************************************************)

\* propose_action up to its save.
Propose(b, p) ==
  /\ b \in Writers
  /\ p \notin proposed
  /\ Begin(b, "propose", p, "save pending")
  /\ proposed' = proposed \cup {p}
  /\ mem' = [mem EXCEPT ![b].pending = @ \cup {p}]
  /\ UNCHANGED <<disk, writer, grants, spends, revived, crashes>>

\* approve_proposal up to its save.
Approve(b, p) ==
  /\ b \in Writers
  /\ p \in mem[b].pending
  /\ grants[p] < MaxGrants
  /\ Begin(b, "approve", p, "save pending")
  /\ grants' = [grants EXCEPT ![p] = @ + 1]
  /\ mem' = [mem EXCEPT ![b].pending = @ \ {p},
                       ![b].approvals[p] = [grant |-> grants[p] + 1, used |-> FALSE]]
  /\ UNCHANGED <<disk, writer, proposed, spends, revived, crashes>>

\* The first transaction of _save_state.
SavePending(b) ==
  /\ At(b, "save pending") /\ Unlocked(b)
  /\ disk' = [disk EXCEPT !.pending = mem[b].pending]
  /\ GoTo(b, "save approvals")
  /\ UNCHANGED <<mem, writer, history>>

\* The second one.  (The others are about other tables.)
SaveApprovals(b) ==
  /\ At(b, "save approvals") /\ Unlocked(b)
  /\ disk' = [disk EXCEPT !.approvals = mem[b].approvals]
  /\ revived' = [p \in Pids |-> [g \in Grant |->
       IF /\ spends[p][g] > 0
          /\ disk.approvals[p] # [grant |-> g, used |-> FALSE]
          /\ mem[b].approvals[p] = [grant |-> g, used |-> FALSE]
       THEN revived[p][g] + 1 ELSE revived[p][g]]]
  /\ GoTo(b, "idle")
  /\ UNCHANGED <<mem, writer, proposed, grants, spends, crashes>>

\* execute_approved up to the consumption: the approval is valid in memory.
Execute(b, p) ==
  /\ mem[b].approvals[p] # NoApproval
  /\ ~mem[b].approvals[p].used
  /\ spends[p][mem[b].approvals[p].grant] < MaxSpends
  /\ Begin(b, "execute", p, "consume")
  /\ UNCHANGED <<mem, disk, writer, history>>

\* Mutant of BeginImmediate: the transaction takes no lock before it reads.
BeginDeferred(b) ==
  /\ At(b, "consume")
  /\ GoTo(b, IF disk.approvals[job[b].pid] = mem[b].approvals[job[b].pid]
             THEN "commit" ELSE "idle")
  /\ UNCHANGED <<mem, disk, writer, history>>

\* consume_approval_for_execution takes the write lock and reads the row: it
\* goes on if the row is the record validated in memory, unused.
BeginImmediate(b) ==
  /\ At(b, "consume") /\ Unlocked(b)
  /\ IF disk.approvals[job[b].pid] = mem[b].approvals[job[b].pid]
     THEN writer' = b /\ GoTo(b, "commit")
     ELSE UNCHANGED writer /\ GoTo(b, "idle")
  /\ UNCHANGED <<mem, disk, history>>

\* Mutant of Commit: memory keeps the record unused.
CommitForgets(b) ==
  /\ At(b, "commit")
  /\ disk' = [disk EXCEPT !.approvals[job[b].pid].used = TRUE]
  /\ spends' = [spends EXCEPT ![job[b].pid][mem[b].approvals[job[b].pid].grant] = @ + 1]
  /\ writer' = NoBroker
  /\ GoTo(b, "backend")
  /\ UNCHANGED <<mem, proposed, grants, revived, crashes>>

\* The row is marked used and committed, and then memory.
Commit(b) ==
  LET p == job[b].pid
      g == mem[b].approvals[p].grant
  IN  /\ At(b, "commit")
      /\ disk' = [disk EXCEPT !.approvals[p].used = TRUE]
      /\ mem' = [mem EXCEPT ![b].approvals[p].used = TRUE]
      /\ spends' = [spends EXCEPT ![p][g] = @ + 1]
      /\ writer' = NoBroker
      /\ GoTo(b, "backend")
      /\ UNCHANGED <<proposed, grants, revived, crashes>>

\* Mutant of BackendReturns: the backend command has no timeout and hangs.
BackendHangs(b) ==
  /\ At(b, "backend")
  /\ UNCHANGED vars

\* The backend returns and the request is answered.
BackendReturns(b) ==
  /\ At(b, "backend")
  /\ GoTo(b, "idle")
  /\ UNCHANGED <<mem, disk, writer, history>>

\* The database stays locked for busy_timeout and the request is answered with
\* an error; a failed approval is taken back in memory.
BusyTimeout(b) ==
  LET p == job[b].pid
  IN  /\ job[b].stage \in {"save pending", "save approvals", "consume"}
      /\ ~Unlocked(b)
      /\ mem' = IF job[b].kind = "approve"
                THEN [mem EXCEPT ![b].pending = @ \cup {p}, ![b].approvals[p] = NoApproval]
                ELSE mem
      /\ GoTo(b, "idle")
      /\ UNCHANGED <<disk, writer, history>>

(***************************************************************************)
(* A broker dies and the next one loads the tables.                        *)
(***************************************************************************)
Crash(b) ==
  /\ crashes < MaxCrashes
  /\ crashes' = crashes + 1
  /\ writer' = IF writer = b THEN NoBroker ELSE writer
  /\ mem' = [mem EXCEPT ![b] = [pending |-> disk.pending, approvals |-> [p \in Pids |-> NoApproval]]]
  /\ job' = [job EXCEPT ![b].stage = "load", ![b].kind = "start"]
  /\ UNCHANGED <<disk, proposed, grants, spends, revived>>

LoadApprovals(b) ==
  /\ At(b, "load")
  /\ mem' = [mem EXCEPT ![b].approvals = disk.approvals]
  /\ GoTo(b, "idle")
  /\ UNCHANGED <<disk, writer, history>>

\* What a broker does by itself once a request is in.
Serve(b) ==
  \/ SavePending(b) \/ SaveApprovals(b)
  \/ BeginImmediate(b) \/ Commit(b) \/ BackendReturns(b)
  \/ BusyTimeout(b) \/ LoadApprovals(b)

Next ==
  \E b \in Brokers :
    \/ \E p \in Pids : Propose(b, p) \/ Approve(b, p) \/ Execute(b, p)
    \/ Serve(b)
    \/ Crash(b)

Spec == Init /\ [][Next]_vars

\* A broker goes on with a request it has begun: its thread runs, transactions
\* commit, the backend returns (its subprocess has a timeout).
Fairness == \A b \in Brokers : WF_vars(Serve(b))

FairSpec == Spec /\ Fairness

-----------------------------------------------------------------------------
(***************************************************************************)
(* Properties.                                                             *)
(***************************************************************************)

\* Brokers that share the database never consume one approval twice.
ConsumedOnce == \A p \in Pids, g \in Grant : spends[p][g] <= 1

\* One approval is consumed again only if, in between, a broker saved its
\* outdated memory over the tables and made it unused again: the consumption
\* itself never races.
SecondConsumeNeedsStaleSave ==
  \A p \in Pids, g \in Grant : spends[p][g] <= 1 + revived[p][g]

\* Not even then does one process consume it twice: whatever others save over
\* the row, an approval is spent at most once by each process that ever ran.
OncePerProcess ==
  \A p \in Pids, g \in Grant : spends[p][g] <= Cardinality(Brokers) + crashes

\* Every request is answered, whoever holds the database lock or dies with it.
EveryRequestAnswered == \A b \in Brokers : ~At(b, "idle") ~> At(b, "idle")
=============================================================================
