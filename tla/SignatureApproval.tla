-------------------------- MODULE SignatureApproval --------------------------
(***************************************************************************)
(* Approval by Ed25519 signatures: one adapter over SQLite in signature    *)
(* mode.  A signature is made offline for one proposal, window and nonce;  *)
(* whoever has it may present it again and again.  The broker remembers    *)
(* the nonces it has used, in memory and in the last table a save writes,  *)
(* and forgets them after a horizon.                                       *)
(*                                                                         *)
(* Handlers are single actions with the faults of ApprovalGate: a save     *)
(* stops after k of its tables, a ledger write fails, the process dies.    *)
(* Lockdown, denials and failed attempts are left out; they are in         *)
(* ApprovalGate, and here a refused request changes nothing but nonces.    *)
(* Time is counted in approval windows of 300 seconds.  Operators use a    *)
(* fresh nonce for each signature, so that a nonce names a signature.      *)
(***************************************************************************)
EXTENDS Integers

CONSTANTS
  Pids,        \* identifiers of proposals that need review
  Nonces,      \* the nonces of the signatures operators make
  Keys,        \* key ids of the approval keyring
  Expiry,      \* approval_expiry_seconds, in windows
  FaultSets,   \* each a subset of {"crash", "save", "ledger"}
  NoApproval,  \* no record under this identifier
  MaxTime,     \* bound on the clock
  MaxAccepts   \* bound: a signature accepted so often is not presented again

ASSUME ConstantsAssumption ==
  /\ Expiry \in Nat
  /\ FaultSets \subseteq SUBSET {"crash", "save", "ledger"}
  /\ MaxTime \in Nat
  /\ MaxAccepts \in Nat \ {0}

VARIABLES
  faults,    \* the faults of this behaviour; never changes
  signed,    \* the signature of each nonce; never changes
  now,       \* current window
  keyring,   \* status of each key in the running process
  mem,       \* the adapter's dictionaries
  disk,      \* the SQLite tables
  accepts,   \* history: how often each signature was accepted
  acked,     \* history: signatures whose approve call was answered APPROVED
  spends,    \* history: how often an approval by each signature was consumed
  proposed   \* history: identifiers already given out

history == <<accepts, acked, spends, proposed>>
vars    == <<faults, signed, now, keyring, mem, disk, history>>

-----------------------------------------------------------------------------
Signature == [pid: Pids, key: Keys, window: 0..MaxTime]

\* active; verify-only (any other status); no entry for the key id.
KeyStatus == {"active", "inactive", "removed"}

\* approved_at, which tells two approvals by one signature apart, is the number
\* of times the signature was accepted.
Approval == [nonce: Nonces, number: 1..MaxAccepts, expires: 0..(MaxTime + Expiry), used: BOOLEAN]

\* _used_approval_nonces: when each nonce was used.
NeverUsed == -1

State == [pending: SUBSET Pids,
          approvals: [Pids -> Approval \cup {NoApproval}],
          nonces: [Nonces -> 0..MaxTime \cup {NeverUsed}]]

TypeOK ==
  /\ now \in 0..MaxTime
  /\ keyring \in [Keys -> KeyStatus]
  /\ mem \in State
  /\ disk \in State
  /\ accepts \in [Nonces -> 0..MaxAccepts]
  /\ acked \subseteq Nonces
  /\ spends \in [Nonces -> Nat]
  /\ proposed \subseteq Pids

-----------------------------------------------------------------------------
\* Mutant of SaveTables: the nonces are not saved.
SaveTablesNoNonces(m, d, k) ==
  [pending   |-> IF k >= 1 THEN m.pending ELSE d.pending,
   approvals |-> IF k >= 2 THEN m.approvals ELSE d.approvals,
   nonces    |-> d.nonces]

\* _save_state stopped after its first k tables: pending, approvals, lockdown
\* (not modelled), nonces.
SaveTables(m, d, k) ==
  [pending   |-> IF k >= 1 THEN m.pending ELSE d.pending,
   approvals |-> IF k >= 2 THEN m.approvals ELSE d.approvals,
   nonces    |-> IF k = 4 THEN m.nonces ELSE d.nonces]

Tables     == 0..4
Saved(k)   == k = 4
CanSave(k) == Saved(k) \/ "save" \in faults

\* Mutant of Horizon: without the 300 seconds of grace.
HorizonNoGrace == Expiry

\* approval_expiry_seconds + 300.
Horizon == Expiry + 1

\* _prune_approval_nonces; load_approval_nonce_state prunes the table likewise.
Pruned(m) ==
  [m EXCEPT !.nonces = [n \in Nonces |->
     IF m.nonces[n] # NeverUsed /\ now - m.nonces[n] > Horizon
     THEN NeverUsed ELSE m.nonces[n]]]

\* The process dies when the tables are d; the next one starts from them, with
\* the keyring the operator then has.
RestartFrom(d) ==
  /\ "crash" \in faults
  /\ disk' = Pruned(d)
  /\ mem' = Pruned(d)
  /\ keyring' \in [Keys -> KeyStatus]

-----------------------------------------------------------------------------
Init ==
  /\ faults \in FaultSets
  /\ signed \in [Nonces -> Signature]
  /\ now = 0
  /\ keyring = [k \in Keys |-> "active"]
  /\ mem = [pending   |-> {},
            approvals |-> [p \in Pids |-> NoApproval],
            nonces    |-> [n \in Nonces |-> NeverUsed]]
  /\ disk = mem
  /\ accepts = [n \in Nonces |-> 0]
  /\ acked = {}
  /\ spends = accepts
  /\ proposed = {}

\* propose_action for a proposal that needs review.  It stays pending whether
\* or not its save and its ledger write succeed.
Propose(p) ==
  LET m == [mem EXCEPT !.pending = @ \cup {p}]
  IN  /\ p \notin proposed
      /\ proposed' = proposed \cup {p}
      /\ \E k \in Tables :
           \/ /\ CanSave(k)
              /\ mem' = m /\ disk' = SaveTables(m, disk, k)
              /\ UNCHANGED keyring
           \/ RestartFrom(SaveTables(m, disk, k))
      /\ UNCHANGED <<now, accepts, acked, spends>>

(***************************************************************************)
(* approve_proposal                                                        *)
(***************************************************************************)

\* A window up to 600 seconds away, either side.
WindowCurrent(w) == now - w \in -2..2

\* _verify_approval_signature, the signature itself being genuine.
Acceptable(n, m) ==
  /\ keyring[signed[n].key] = "active"
  /\ m.nonces[n] = NeverUsed
  /\ WindowCurrent(signed[n].window)

\* Verification prunes the nonces in memory even when it refuses.
ApproveRefused(n) ==
  /\ signed[n].pid \in mem.pending
  /\ ~Acceptable(n, Pruned(mem))
  /\ mem' = Pruned(mem)
  /\ UNCHANGED <<now, keyring, disk, history>>

\* approved_at + approval_expiry_seconds.
ExpiresAt == now + Expiry

\* The nonce is used and the proposal approved; a failed save or log takes the
\* approval back in memory, but not the nonce.
Approve(n) ==
  LET p      == signed[n].pid
      record == [nonce |-> n, number |-> accepts[n] + 1, expires |-> ExpiresAt, used |-> FALSE]
      m      == [Pruned(mem) EXCEPT !.pending = @ \ {p}, !.approvals[p] = record,
                                    !.nonces[n] = now]
      back   == [m EXCEPT !.pending = @ \cup {p}, !.approvals[p] = NoApproval]
  IN  /\ p \in mem.pending
      /\ Acceptable(n, Pruned(mem))
      /\ accepts[n] < MaxAccepts
      /\ accepts' = [accepts EXCEPT ![n] = @ + 1]
      /\ \E k \in Tables :
           LET d == SaveTables(m, disk, k)
           IN  \/ /\ Saved(k)
                  /\ mem' = m /\ disk' = d
                  /\ acked' = acked \cup {n}
                  /\ UNCHANGED keyring
               \/ /\ IF Saved(k) THEN "ledger" \in faults ELSE "save" \in faults
                  /\ mem' = back /\ disk' = d
                  /\ UNCHANGED <<acked, keyring>>
               \/ /\ RestartFrom(d)
                  /\ UNCHANGED acked
      /\ UNCHANGED <<now, spends, proposed>>

(***************************************************************************)
(* execute_approved, reset_lockdown, restarts and the clock                *)
(***************************************************************************)

\* The row is the validated record.
Consumable(p) == disk.approvals[p] = mem.approvals[p]

\* The signature is verified again, with any key the keyring still has; its
\* window is not.  Then the approval is consumed and the backend runs.
Execute(p) ==
  LET r == mem.approvals[p]
  IN  /\ r # NoApproval
      /\ keyring[signed[r.nonce].key] # "removed"
      /\ now <= r.expires
      /\ ~r.used
      /\ Consumable(p)
      /\ spends' = [spends EXCEPT ![r.nonce] = @ + 1]
      /\ LET d == [disk EXCEPT !.approvals[p].used = TRUE]
         IN  \/ /\ disk' = d
                /\ mem' = [mem EXCEPT !.approvals[p].used = TRUE]
                /\ UNCHANGED keyring
             \/ RestartFrom(d)
      /\ UNCHANGED <<now, accepts, acked, proposed>>

\* reset_lockdown, which saves all tables.
ResetLockdown ==
  /\ \E k \in Tables :
       \/ /\ CanSave(k)
          /\ disk' = SaveTables(mem, disk, k)
          /\ UNCHANGED <<mem, keyring>>
       \/ RestartFrom(SaveTables(mem, disk, k))
  /\ UNCHANGED <<now, history>>

Crash ==
  /\ RestartFrom(disk)
  /\ UNCHANGED <<now, history>>

Tick ==
  /\ now < MaxTime
  /\ now' = now + 1
  /\ UNCHANGED <<keyring, mem, disk, history>>

Next ==
  /\ \/ \E p \in Pids : Propose(p) \/ Execute(p)
     \/ \E n \in Nonces : Approve(n) \/ ApproveRefused(n)
     \/ ResetLockdown
     \/ Crash
     \/ Tick
  /\ UNCHANGED <<faults, signed>>

Spec == Init /\ [][Next]_vars

-----------------------------------------------------------------------------
(***************************************************************************)
(* Properties.                                                             *)
(***************************************************************************)

\* A nonce is denied as long as the process that used it lives: the horizon
\* after which it is forgotten is longer than its signature is acceptable,
\* although a signature may be used before its window.
ReplayDenied == "crash" \notin faults => \A n \in Nonces : accepts[n] <= 1

\* A nonce whose approval was answered APPROVED stays in the table until its
\* signature can be accepted no more, whatever is pruned, saved or restarted.
AckedNonceKept ==
  \A n \in acked : disk.nonces[n] # NeverUsed \/ now > signed[n].window + 2

\* An approval by one signature is consumed at most once, whatever of a failed or
\* interrupted approval reached the tables before a restart.  A save that fails
\* and one that is interrupted together break it: see doc_nonce_replay.cfg.
SignatureSpentOnce == \A n \in Nonces : spends[n] <= 1
=============================================================================
