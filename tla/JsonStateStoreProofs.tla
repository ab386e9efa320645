------------------------ MODULE JsonStateStoreProofs ------------------------
(***************************************************************************)
(* Theorems about JsonStateStore, for every value of its constants.        *)
(***************************************************************************)
EXTENDS JsonStateStore, TLAPS

-----------------------------------------------------------------------------
(***************************************************************************)
(* Lemmas about saving and loading.                                        *)
(***************************************************************************)

\* No approval in s is ahead of the grants, and one that was spent says so.
SpentAreUsed(s) ==
  \A p \in Pids :
    s.approvals[p] # NoApproval =>
      /\ s.approvals[p].grant <= grants[p]
      /\ spends[p][s.approvals[p].grant] > 0 => s.approvals[p].used

\* No grant is spent before it is given.
UngivenUnspent == \A p \in Pids, g \in Grant : g > grants[p] => spends[p][g] = 0

IInv ==
  /\ TypeOK
  /\ AtMostOncePerApproval
  /\ UngivenUnspent
  /\ SpentAreUsed(mem)
  /\ SpentAreUsed(files)

\* The empty state is a state.
LEMMA EmptyType == Empty \in State
BY DEF Empty, State

\* A save takes the approvals and the lockdown from memory or leaves the files.
LEMMA SaveFilesType ==
  ASSUME NEW m \in State, NEW f \in State, NEW k \in Renames
  PROVE  /\ SaveFiles(m, f, k) \in State
         /\ SaveFiles(m, f, k).approvals \in {m.approvals, f.approvals}
         /\ SaveSucceeds(k) => SaveFiles(m, f, k).approvals = m.approvals
         /\ m.lockdown /\ f.lockdown => SaveFiles(m, f, k).lockdown
BY DEF SaveFiles, SaveSucceeds, Renames, State, Unexpired

\* Reading files yields a state with the approvals of the files or with none.
LEMMA ReadType ==
  ASSUME NEW f \in State, NEW U \in SUBSET {"pending", "approvals", "lockdown"}
  PROVE  /\ Read(f, U) \in State
         /\ Read(f, U).approvals \in {f.approvals, Empty.approvals}
         /\ "lockdown" \notin U /\ f.lockdown => Read(f, U).lockdown
BY EmptyType DEF Read, State, Unexpired

\* So does loading, which with fail_closed keeps a lockdown.
LEMMA LoadsType ==
  ASSUME NEW f \in State, NEW x \in Loads(f)
  PROVE  /\ x \in State
         /\ x.approvals \in {f.approvals, Empty.approvals}
         /\ fail_closed /\ f.lockdown => x.lockdown
<1>1. CASE x = [Empty EXCEPT !.lockdown = TRUE]
  BY <1>1, EmptyType DEF State, Empty
<1>2. ASSUME NEW U \in SUBSET {"pending", "approvals", "lockdown"},
             ~FailsClosed(U), x = Read(f, U)
      PROVE  /\ x \in State
             /\ x.approvals \in {f.approvals, Empty.approvals}
             /\ fail_closed /\ f.lockdown => x.lockdown
  BY <1>2, ReadType DEF FailsClosed
<1>3. CASE "load" \notin faults
  BY <1>3, <1>2 DEF Loads, FailsClosed
<1>4. CASE "load" \in faults
  BY <1>4, <1>1, <1>2 DEF Loads
<1> QED
  BY <1>3, <1>4

\* What a restart leaves in memory.
LEMMA RestartType ==
  ASSUME NEW f \in State, RestartFrom(f)
  PROVE  /\ mem' \in State /\ files' = f
         /\ mem'.approvals \in {f.approvals, Empty.approvals}
         /\ fail_closed /\ f.lockdown => mem'.lockdown
BY LoadsType DEF RestartFrom

-----------------------------------------------------------------------------
(***************************************************************************)
(* IInv is inductive.                                                      *)
(***************************************************************************)

\* A step that neither gives nor spends an approval keeps what IInv says of
\* approvals, if memory and files hold approvals either of them held.
LEMMA ApprovalsKept ==
  ASSUME IInv, UNCHANGED <<grants, spends>>,
         files'.approvals \in {mem.approvals, files.approvals},
         mem'.approvals \in {mem.approvals, files.approvals, Empty.approvals}
  PROVE  AtMostOncePerApproval' /\ UngivenUnspent' /\ SpentAreUsed(mem)' /\ SpentAreUsed(files)'
<1>1. AtMostOncePerApproval' /\ UngivenUnspent'
  BY DEF IInv, AtMostOncePerApproval, UngivenUnspent
<1>2. \A p \in Pids : Empty.approvals[p] = NoApproval
  BY DEF Empty
<1> QED
  BY <1>1, <1>2 DEF IInv, SpentAreUsed

\* What a save of m may leave, in memory or after a restart, when nothing is
\* given or spent.
LEMMA SavedStep ==
  ASSUME IInv, NEW m \in State, NEW k \in Renames, UNCHANGED <<grants, spends>>,
         m.approvals = mem.approvals,
         \/ files' = SaveFiles(m, files, k) /\ mem' \in State /\ mem'.approvals = mem.approvals
         \/ RestartFrom(SaveFiles(m, files, k))
  PROVE  /\ mem' \in State /\ files' \in State
         /\ AtMostOncePerApproval' /\ UngivenUnspent' /\ SpentAreUsed(mem)' /\ SpentAreUsed(files)'
<1> DEFINE f == SaveFiles(m, files, k)
<1>1. f \in State /\ f.approvals \in {mem.approvals, files.approvals}
  BY SaveFilesType DEF IInv, TypeOK
<1>2. /\ mem' \in State /\ files' = f
      /\ mem'.approvals \in {mem.approvals, files.approvals, Empty.approvals}
  BY <1>1, RestartType
<1> QED
  BY <1>1, <1>2, ApprovalsKept

\* propose_action neither gives nor spends.
LEMMA ProposeInv == ASSUME IInv, NEW p \in Pids, Propose(p) PROVE IInv'
<1> DEFINE m == [mem EXCEPT !.pending = @ \cup {[pid |-> p, at |-> now]}]
<1>1. /\ m \in State /\ m.approvals = mem.approvals
      /\ [m EXCEPT !.lockdown = TRUE] \in State
      /\ [m EXCEPT !.lockdown = TRUE].approvals = mem.approvals
  <2>1. [pid |-> p, at |-> now] \in Proposal
    BY DEF IInv, TypeOK, Proposal
  <2>2. mem.pending \cup {[pid |-> p, at |-> now]} \in SUBSET Proposal
    BY <2>1 DEF IInv, TypeOK, State
  <2>3. m \in State /\ m.approvals = mem.approvals
    BY <2>2 DEF IInv, TypeOK, State
  <2> HIDE DEF m
  <2> QED
    BY <2>3 DEF State
<1>2. UNCHANGED <<now, grants, acked, spends>> /\ proposed' = proposed \cup {p}
  BY DEF Propose
<1>3. PICK k \in Renames :
        \/ files' = SaveFiles(m, files, k) /\ mem' \in {m, [m EXCEPT !.lockdown = TRUE]}
        \/ RestartFrom(SaveFiles(m, files, k))
  BY DEF Propose
<1> HIDE DEF m
<1>4. /\ mem' \in State /\ files' \in State
      /\ AtMostOncePerApproval' /\ UngivenUnspent' /\ SpentAreUsed(mem)' /\ SpentAreUsed(files)'
  BY <1>1, <1>2, <1>3, SavedStep
<1> QED
  BY <1>2, <1>4 DEF IInv, TypeOK

\* Nor does a denial that locks the adapter.
LEMMA ProposeDeniedInv == ASSUME IInv, ProposeDenied PROVE IInv'
<1> DEFINE m == [mem EXCEPT !.lockdown = TRUE]
<1>1. m \in State /\ m.approvals = mem.approvals
  BY DEF IInv, TypeOK, State
<1>2. UNCHANGED <<now, history>>
  BY DEF ProposeDenied
<1>3. PICK k \in Renames :
        \/ files' = SaveFiles(m, files, k) /\ mem' = m
        \/ RestartFrom(SaveFiles(m, files, k))
  BY DEF ProposeDenied
<1> HIDE DEF m
<1>4. /\ mem' \in State /\ files' \in State
      /\ AtMostOncePerApproval' /\ UngivenUnspent' /\ SpentAreUsed(mem)' /\ SpentAreUsed(files)'
  BY <1>1, <1>2, <1>3, SavedStep DEF history
<1> QED
  BY <1>2, <1>4 DEF IInv, TypeOK, history

\* Nor does reset_lockdown.
LEMMA ResetLockdownInv == ASSUME IInv, ResetLockdown PROVE IInv'
<1> DEFINE m == [mem EXCEPT !.lockdown = FALSE]
<1>1. m \in State /\ m.approvals = mem.approvals
  BY DEF IInv, TypeOK, State
<1>2. UNCHANGED <<now, history>>
  BY DEF ResetLockdown
<1>3. PICK k \in Renames :
        \/ files' = SaveFiles(m, files, k) /\ mem' = m
        \/ RestartFrom(SaveFiles(m, files, k))
  BY DEF ResetLockdown
<1> HIDE DEF m
<1>4. /\ mem' \in State /\ files' \in State
      /\ AtMostOncePerApproval' /\ UngivenUnspent' /\ SpentAreUsed(mem)' /\ SpentAreUsed(files)'
  BY <1>1, <1>2, <1>3, SavedStep DEF history
<1> QED
  BY <1>2, <1>4 DEF IInv, TypeOK, history

\* Nor does a restart between requests.
LEMMA CrashInv == ASSUME IInv, Crash PROVE IInv'
<1>1. UNCHANGED <<now, history>>
  BY DEF Crash
<1>2. /\ mem' \in State /\ files' = files /\ files' \in State
      /\ mem'.approvals \in {files.approvals, Empty.approvals}
  BY RestartType DEF Crash, IInv, TypeOK
<1>3. AtMostOncePerApproval' /\ UngivenUnspent' /\ SpentAreUsed(mem)' /\ SpentAreUsed(files)'
  BY <1>1, <1>2, ApprovalsKept DEF history
<1> QED
  BY <1>1, <1>2, <1>3 DEF IInv, TypeOK, history

\* The record of a new grant is ahead of no grant and unspent; every other
\* approval stays as it was.
LEMMA ApproveInv == ASSUME IInv, NEW x \in mem.pending, Approve(x) PROVE IInv'
<1> DEFINE p      == x.pid
           record == [grant |-> grants[p] + 1, expires |-> ExpiresAt, used |-> FALSE]
           m      == [mem EXCEPT !.pending = @ \ {x}, !.approvals[p] = record]
           back   == [mem EXCEPT !.approvals[p] = NoApproval]
<1>1. /\ p \in Pids /\ grants[p] \in 0..MaxGrants /\ grants[p] < MaxGrants
      /\ grants \in [Pids -> 0..MaxGrants] /\ spends \in [Pids -> [Grant -> Nat]]
      /\ mem \in State /\ files \in State /\ now \in 0..MaxTime
      /\ MaxGrants \in Nat /\ MaxTime \in Nat /\ Expiry \in Nat
  BY ConstantsAssumption DEF IInv, TypeOK, State, Proposal, Approve
<1>2. record \in Approval /\ record.grant = grants[p] + 1 /\ ~record.used
  BY <1>1 DEF Approval, Grant, ExpiresAt
<1>3. /\ m \in State /\ back \in State
      /\ [back EXCEPT !.lockdown = TRUE] \in State
      /\ [back EXCEPT !.lockdown = TRUE].approvals = back.approvals
      /\ m.approvals = [mem.approvals EXCEPT ![p] = record]
      /\ back.approvals = [mem.approvals EXCEPT ![p] = NoApproval]
  BY <1>1, <1>2 DEF State
<1>4. /\ UNCHANGED <<now, proposed, spends>>
      /\ grants' = [grants EXCEPT ![p] = grants[p] + 1]
      /\ acked' \in {acked, acked \cup {p}}
  BY DEF Approve
<1>5. PICK k \in Renames :
        \/ files' = SaveFiles(m, files, k) /\ mem' \in {m, back, [back EXCEPT !.lockdown = TRUE]}
        \/ RestartFrom(SaveFiles(m, files, k))
  BY DEF Approve
<1> HIDE DEF m, back
<1>6. /\ SaveFiles(m, files, k) \in State
      /\ SaveFiles(m, files, k).approvals \in {m.approvals, files.approvals}
  BY <1>1, <1>3, SaveFilesType
<1>7. /\ mem' \in State /\ files' \in State
      /\ files'.approvals \in {m.approvals, files.approvals}
      /\ mem'.approvals \in {m.approvals, back.approvals, files.approvals, Empty.approvals}
  BY <1>3, <1>5, <1>6, RestartType
<1>8. TypeOK'
  BY <1>1, <1>4, <1>7 DEF IInv, TypeOK
<1>9. AtMostOncePerApproval' /\ UngivenUnspent'
  <2>1. \A q \in Pids : grants[q] <= grants'[q] /\ grants[q] \in Nat /\ grants'[q] \in Nat
    BY <1>1, <1>4
  <2>2. \A q \in Pids, g \in Grant : g \in Nat
    BY <1>1 DEF Grant
  <2> QED
    BY <1>4, <2>1, <2>2 DEF IInv, AtMostOncePerApproval, UngivenUnspent
<1> DEFINE Fine(r, q) ==
      r # NoApproval => r.grant <= grants'[q] /\ (spends[q][r.grant] > 0 => r.used)
<1>10. Fine(record, p)
  <2>1. grants[p] + 1 \in Grant
    BY <1>1 DEF Grant
  <2>2. spends[p][grants[p] + 1] = 0
    BY <1>1, <2>1 DEF IInv, UngivenUnspent
  <2>3. grants'[p] = grants[p] + 1
    BY <1>1, <1>4
  <2> QED
    BY <1>1, <1>2, <2>2, <2>3
<1>11. ASSUME NEW s \in {mem, files}, NEW q \in Pids PROVE Fine(s.approvals[q], q)
  <2>1. s.approvals[q] # NoApproval =>
          /\ s.approvals[q] \in Approval
          /\ s.approvals[q].grant <= grants[q]
          /\ spends[q][s.approvals[q].grant] > 0 => s.approvals[q].used
    BY <1>1 DEF IInv, SpentAreUsed, State
  <2>2. s.approvals[q] # NoApproval => s.approvals[q].grant \in Nat
    BY <1>1, <2>1 DEF Approval, Grant
  <2>3. grants[q] <= grants'[q] /\ grants[q] \in Nat /\ grants'[q] \in Nat
    BY <1>1, <1>4
  <2> QED
    BY <2>1, <2>2, <2>3
<1>12. Fine(NoApproval, p) /\ \A q \in Pids : Fine(Empty.approvals[q], q)
  BY DEF Empty
<1>13. mem.approvals \in [Pids -> Approval \cup {NoApproval}]
  BY <1>1 DEF State
<1>14. ASSUME NEW q \in Pids PROVE Fine(m.approvals[q], q) /\ Fine(back.approvals[q], q)
  <2>1. CASE q = p
    BY <2>1, <1>3, <1>10, <1>12, <1>13
  <2>2. CASE q # p
    <3>1. m.approvals[q] = mem.approvals[q] /\ back.approvals[q] = mem.approvals[q]
      BY <2>2, <1>3, <1>13
    <3>2. Fine(mem.approvals[q], q)
      BY <1>11
    <3> QED
      BY <3>1, <3>2
  <2> QED
    BY <2>1, <2>2
<1>15. \A q \in Pids : Fine(mem'.approvals[q], q) /\ Fine(files'.approvals[q], q)
  BY <1>7, <1>11, <1>12, <1>14
<1>16. SpentAreUsed(mem)' /\ SpentAreUsed(files)'
  BY <1>4, <1>15 DEF SpentAreUsed
<1> QED
  BY <1>8, <1>9, <1>16 DEF IInv

\* The approval of a success was unused in memory, hence unspent; afterwards
\* memory and the files say that it is used.
LEMMA ExecuteInv == ASSUME IInv, NEW p \in Pids, Execute(p) PROVE IInv'
<1> DEFINE r    == mem.approvals[p]
           g    == r.grant
           used == [r EXCEPT !.used = TRUE]
           m    == [mem EXCEPT !.approvals[p].used = TRUE]
<1>1. /\ mem \in State /\ files \in State
      /\ r \in Approval /\ r # NoApproval /\ ~r.used /\ g \in Grant
      /\ grants \in [Pids -> 0..MaxGrants] /\ spends \in [Pids -> [Grant -> Nat]]
  BY DEF IInv, TypeOK, State, Execute, Approval
<1>2. used \in Approval /\ used.grant = g /\ used.used
  BY <1>1 DEF Approval
<1>3. m \in State /\ m.approvals = [mem.approvals EXCEPT ![p] = used]
  BY <1>1, <1>2 DEF State
<1>4. g <= grants[p] /\ spends[p][g] = 0
  BY <1>1 DEF IInv, SpentAreUsed
<1>5. UNCHANGED <<now, proposed, grants, acked>>
  BY DEF Execute
<1>6. PICK k \in Renames :
        \/ /\ SaveSucceeds(k)
           /\ spends' = [spends EXCEPT ![p][g] = @ + 1]
           /\ \/ mem' = m /\ files' = SaveFiles(m, files, k)
              \/ RestartFrom(SaveFiles(m, files, k))
        \/ /\ files' = SaveFiles(m, files, k)
           /\ UNCHANGED <<mem, spends>>
        \/ /\ RestartFrom(SaveFiles(m, files, k))
           /\ UNCHANGED spends
  BY DEF Execute
<1> HIDE DEF m
<1>7. /\ SaveFiles(m, files, k) \in State
      /\ SaveFiles(m, files, k).approvals \in {m.approvals, files.approvals}
      /\ SaveSucceeds(k) => SaveFiles(m, files, k).approvals = m.approvals
  <2>1. m \in State /\ files \in State
    BY <1>1, <1>3
  <2> HIDE DEF r, g, used
  <2> QED
    BY <2>1, SaveFilesType
<1>8. mem' \in State /\ files' \in State
  BY <1>1, <1>3, <1>6, <1>7, RestartType
<1>9. \/ spends' = spends
      \/ spends' = [spends EXCEPT ![p][g] = @ + 1]
  BY <1>6
<1>10. /\ spends' \in [Pids -> [Grant -> Nat]]
       /\ \A q \in Pids, h \in Grant : spends'[q][h] # spends[q][h] =>
            q = p /\ h = g /\ spends'[q][h] = 1
  BY <1>1, <1>4, <1>9
<1>11. TypeOK'
  BY <1>5, <1>8, <1>10 DEF IInv, TypeOK
<1>12. AtMostOncePerApproval'
  <2>1. \A q \in Pids, h \in Grant : spends'[q][h] <= 1
    BY <1>10 DEF IInv, AtMostOncePerApproval
  <2> QED
    BY <2>1 DEF AtMostOncePerApproval
<1>13. UngivenUnspent'
  <2> SUFFICES ASSUME NEW q \in Pids, NEW h \in Grant, h > grants[q]
               PROVE  spends'[q][h] = 0
    BY <1>5 DEF UngivenUnspent
  <2>1. spends[q][h] = 0
    BY DEF IInv, UngivenUnspent
  <2>2. ~(q = p /\ h = g)
    <3>1. grants[p] \in Int /\ g \in Int
      BY <1>1 DEF Grant
    <3> QED
      BY <1>4, <3>1
  <2> QED
    BY <1>10, <2>1, <2>2
<1> DEFINE Fine(a, q) ==
      a # NoApproval => a.grant <= grants[q] /\ (spends'[q][a.grant] > 0 => a.used)
<1>14. Fine(used, p)
  BY <1>2, <1>4
<1>15. mem.approvals \in [Pids -> Approval \cup {NoApproval}]
       /\ files.approvals \in [Pids -> Approval \cup {NoApproval}]
  BY <1>1 DEF State
<1>16. ASSUME NEW s \in {mem, files}, NEW q \in Pids, q # p \/ spends' = spends
       PROVE  Fine(s.approvals[q], q)
  <2>1. s.approvals[q] # NoApproval =>
          /\ s.approvals[q] \in Approval /\ s.approvals[q].grant \in Grant
          /\ s.approvals[q].grant <= grants[q]
          /\ spends[q][s.approvals[q].grant] > 0 => s.approvals[q].used
    BY <1>15 DEF IInv, SpentAreUsed, Approval
  <2>2. \A h \in Grant : spends'[q][h] = spends[q][h]
    BY <1>10, <1>16
  <2> QED
    BY <2>1, <2>2
<1>17. ASSUME NEW q \in Pids PROVE Fine(m.approvals[q], q)
  <2>1. CASE q = p
    BY <2>1, <1>3, <1>14, <1>15
  <2>2. CASE q # p
    <3>1. m.approvals[q] = mem.approvals[q] /\ Fine(mem.approvals[q], q)
      BY <2>2, <1>3, <1>15, <1>16
    <3> QED
      BY <3>1
  <2> QED
    BY <2>1, <2>2
<1>18. \A q \in Pids : Fine(Empty.approvals[q], q)
  BY DEF Empty
<1>19. ASSUME NEW q \in Pids PROVE Fine(mem'.approvals[q], q) /\ Fine(files'.approvals[q], q)
  <2>1. CASE spends' = spends
    <3>1. /\ files'.approvals \in {m.approvals, files.approvals}
          /\ mem'.approvals \in {m.approvals, mem.approvals, files.approvals, Empty.approvals}
      BY <1>6, <1>7, RestartType
    <3> QED
      BY <2>1, <3>1, <1>16, <1>17, <1>18
  <2>2. CASE spends' # spends
    <3>1. /\ files'.approvals = m.approvals
          /\ mem'.approvals \in {m.approvals, Empty.approvals}
      BY <2>2, <1>6, <1>7, RestartType
    <3> QED
      BY <3>1, <1>17, <1>18
  <2> QED
    BY <2>1, <2>2
<1>20. SpentAreUsed(mem)' /\ SpentAreUsed(files)'
  BY <1>5, <1>19 DEF SpentAreUsed
<1> QED
  BY <1>11, <1>12, <1>13, <1>20 DEF IInv

\* The clock touches none of it.
LEMMA TickInv == ASSUME IInv, Tick \/ UNCHANGED vars PROVE IInv'
<1>1. UNCHANGED <<mem, files, proposed, grants, acked, spends>> /\ now' \in 0..MaxTime
  BY ConstantsAssumption DEF Tick, vars, history, IInv, TypeOK
<1> QED
  BY <1>1 DEF IInv, TypeOK, AtMostOncePerApproval, UngivenUnspent, SpentAreUsed

\* Nothing is given at the start.
LEMMA InitInv == Init => IInv
<1> SUFFICES ASSUME Init PROVE IInv
  OBVIOUS
<1>1. TypeOK
  BY EmptyType, ConstantsAssumption DEF Init, TypeOK
<1>2. \A p \in Pids : mem.approvals[p] = NoApproval /\ files.approvals[p] = NoApproval
  BY DEF Init, Empty
<1>3. \A p \in Pids, g \in Grant : spends[p][g] = 0
  BY DEF Init
<1> QED
  BY <1>1, <1>2, <1>3 DEF IInv, AtMostOncePerApproval, UngivenUnspent, SpentAreUsed

\* Every step keeps IInv.
LEMMA NextInv == IInv /\ [Next]_vars => IInv'
<1> SUFFICES ASSUME IInv, [Next]_vars PROVE IInv'
  OBVIOUS
<1>1. ASSUME NEW p \in Pids, Propose(p) PROVE IInv'
  BY <1>1, ProposeInv
<1>2. ASSUME NEW p \in Pids, Execute(p) PROVE IInv'
  BY <1>2, ExecuteInv
<1>3. ASSUME NEW x \in mem.pending, Approve(x) PROVE IInv'
  BY <1>3, ApproveInv
<1>4. CASE ProposeDenied
  BY <1>4, ProposeDeniedInv
<1>5. CASE ResetLockdown
  BY <1>5, ResetLockdownInv
<1>6. CASE Crash
  BY <1>6, CrashInv
<1>7. CASE Tick \/ UNCHANGED vars
  BY <1>7, TickInv
<1> QED
  BY <1>1, <1>2, <1>3, <1>4, <1>5, <1>6, <1>7 DEF Next

-----------------------------------------------------------------------------
(***************************************************************************)
(* The theorems.                                                           *)
(***************************************************************************)

\* IInv holds in every reachable state.
THEOREM InductiveInvariant == Spec => []IInv
<1>1. Init => IInv
  BY InitInv
<1>2. IInv /\ [Next]_vars => IInv'
  BY NextInv
<1> QED
  BY <1>1, <1>2, PTL DEF Spec

\* Memory and files hold well-formed proposals and approvals.
THEOREM TypeCorrect == Spec => []TypeOK
<1>1. IInv => TypeOK
  BY DEF IInv
<1> QED
  BY <1>1, InductiveInvariant, PTL

\* An approval consumed by saving the JSON files goes to the backend once at
\* most, whichever saves fail, processes die and files cannot be read.
THEOREM AtMostOnce == Spec => []AtMostOncePerApproval
<1>1. IInv => AtMostOncePerApproval
  BY DEF IInv
<1> QED
  BY <1>1, InductiveInvariant, PTL

\* With fail_closed a lockdown that reached its file ends through reset_lockdown
\* only.
LEMMA LockdownKept ==
  IInv /\ [Next]_vars =>
    [fail_closed /\ mem.lockdown /\ files.lockdown /\ ~mem.lockdown' => ResetLockdown]_vars
<1> SUFFICES ASSUME IInv, [Next]_vars, ~ResetLockdown,
                    fail_closed, mem.lockdown, files.lockdown
             PROVE  mem'.lockdown
  OBVIOUS
<1>1. mem \in State /\ files \in State
  BY DEF IInv, TypeOK
<1>2. ASSUME NEW m \in State, m.lockdown, NEW k \in Renames,
             RestartFrom(SaveFiles(m, files, k))
      PROVE  mem'.lockdown
  <2>1. SaveFiles(m, files, k) \in State /\ SaveFiles(m, files, k).lockdown
    BY <1>1, <1>2, SaveFilesType
  <2> QED
    BY <1>2, <2>1, RestartType
<1>3. ASSUME NEW p \in Pids, Propose(p) PROVE FALSE
  BY <1>3 DEF Propose
<1>4. ASSUME ProposeDenied PROVE FALSE
  BY <1>4 DEF ProposeDenied
<1>5. ASSUME NEW x \in mem.pending, Approve(x) PROVE mem'.lockdown
  <2> DEFINE p      == x.pid
             record == [grant |-> grants[p] + 1, expires |-> ExpiresAt, used |-> FALSE]
             m      == [mem EXCEPT !.pending = @ \ {x}, !.approvals[p] = record]
             back   == [mem EXCEPT !.approvals[p] = NoApproval]
  <2>1. p \in Pids /\ grants[p] \in 0..MaxGrants /\ grants[p] < MaxGrants /\ now \in 0..MaxTime
    BY <1>1, <1>5 DEF IInv, TypeOK, State, Proposal, Approve
  <2>2. record \in Approval
    BY <2>1, ConstantsAssumption DEF Approval, Grant, ExpiresAt
  <2>3. /\ m \in State /\ m.lockdown /\ back.lockdown
        /\ [back EXCEPT !.lockdown = TRUE].lockdown
    BY <1>1, <2>1, <2>2 DEF State
  <2>4. PICK k \in Renames :
          mem' \in {m, back, [back EXCEPT !.lockdown = TRUE]} \/ RestartFrom(SaveFiles(m, files, k))
    BY <1>5 DEF Approve
  <2> HIDE DEF m, back
  <2> QED
    BY <1>2, <2>3, <2>4
<1>6. ASSUME NEW p \in Pids, Execute(p) PROVE mem'.lockdown
  <2> DEFINE m == [mem EXCEPT !.approvals[p].used = TRUE]
  <2>1. mem.approvals[p] \in Approval
    BY <1>1, <1>6 DEF Execute, State
  <2>2. [mem.approvals[p] EXCEPT !.used = TRUE] \in Approval
    BY <2>1 DEF Approval
  <2>3. m \in State /\ m.lockdown
    BY <1>1, <2>2 DEF State
  <2>4. PICK k \in Renames :
          mem' \in {m, mem} \/ RestartFrom(SaveFiles(m, files, k))
    BY <1>6 DEF Execute
  <2> HIDE DEF m
  <2> QED
    BY <1>2, <2>3, <2>4
<1>7. ASSUME Crash PROVE mem'.lockdown
  BY <1>1, <1>7, RestartType DEF Crash
<1>8. ASSUME Tick \/ UNCHANGED vars PROVE mem'.lockdown
  BY <1>8 DEF Tick, vars
<1> QED
  BY <1>3, <1>4, <1>5, <1>6, <1>7, <1>8 DEF Next

\* A process that fails closed keeps a saved lockdown through restarts.
THEOREM DurableLockdown == Spec => DurableLockdownNeedsReset
<1>1. IInv /\ [Next]_vars =>
        [fail_closed /\ mem.lockdown /\ files.lockdown /\ ~mem.lockdown' => ResetLockdown]_vars
  BY LockdownKept
<1> QED
  BY <1>1, InductiveInvariant, PTL DEF Spec, DurableLockdownNeedsReset

-----------------------------------------------------------------------------
(***************************************************************************)
(* What may wait for an approval, and what an approval leaves behind.      *)
(***************************************************************************)

\* No proposal of this identifier waits where a process may find it.
Gone(p) ==
  /\ \A x \in mem.pending : x.pid # p
  /\ "crash" \in faults => \A x \in files.pending : x.pid # p

\* What waits, was approved or was spent was proposed, once.
KnownProposals ==
  /\ \A x \in mem.pending \cup files.pending : x.pid \in proposed
  /\ \A x, y \in mem.pending \cup files.pending : x.pid = y.pid => x = y
  /\ \A p \in Pids \ proposed :
       /\ mem.approvals[p] = NoApproval
       /\ files.approvals[p] = NoApproval
       /\ \A g \in Grant : spends[p][g] = 0

\* An approved proposal is gone.
ApprovedIsGone ==
  Orderly =>
    \A p \in Pids :
      \/ mem.approvals[p] # NoApproval
      \/ "crash" \in faults /\ files.approvals[p] # NoApproval
      => Gone(p)

\* So is a spent one, and an approval of it that is still there is the one spent.
SpentIsGone ==
  Orderly =>
    \A p \in Pids, g \in Grant :
      spends[p][g] > 0 =>
        /\ Gone(p)
        /\ mem.approvals[p] # NoApproval => mem.approvals[p].grant = g
        /\ "crash" \in faults /\ files.approvals[p] # NoApproval => files.approvals[p].grant = g

\* What AckedApprovalsSurvive says of the files holds of memory too.
AckedStay ==
  "load" \notin faults =>
    \A p \in acked :
      /\ mem.approvals[p] # NoApproval
      /\ files.approvals[p] # NoApproval
      /\ \A x \in mem.pending \cup files.pending : x.pid # p

\* The inductive invariant of proposals and approvals: the two properties that the
\* runs check, and what each of them needs of the step before.
ProposalInv ==
  /\ KnownProposals
  /\ ApprovedIsGone
  /\ SpentIsGone
  /\ OneActionPerProposal
  /\ AckedStay

-----------------------------------------------------------------------------
(***************************************************************************)
(* The shapes of steps: what a step does to pending and approvals.         *)
(***************************************************************************)

\* The files after any of the renames of a save of P and A.
Stores(P, A) ==
  \/ files'.pending = files.pending /\ files'.approvals = files.approvals
  \/ files'.pending \subseteq P /\ files'.approvals \in {A, files.approvals}

\* The files after all of them.
StoresAll(P, A) == files'.pending \subseteq P /\ files'.approvals = A

\* Memory after the step.
Holds(P, A) == mem'.pending = P /\ mem'.approvals = A

\* Memory read from the files.
Restarts ==
  /\ "crash" \in faults
  /\ mem'.pending \subseteq files'.pending
  /\ mem'.approvals \in {files'.approvals, Empty.approvals}
  /\ "load" \notin faults => mem'.approvals = files'.approvals

\* Nothing is proposed, approved or executed.
Quiet ==
  /\ UNCHANGED <<proposed, acked, spends>>
  /\ Stores(mem.pending, mem.approvals)
  /\ Holds(mem.pending, mem.approvals) \/ Restarts

\* One proposal is new.
Proposes(x) ==
  /\ x.pid \notin proposed
  /\ proposed' = proposed \cup {x.pid}
  /\ UNCHANGED <<acked, spends>>
  /\ Stores(mem.pending \cup {x}, mem.approvals)
  /\ Holds(mem.pending \cup {x}, mem.approvals) \/ Restarts

\* x is approved under rec, or the approval is rolled back, or cut short.
Approves(x, rec) ==
  LET P == mem.pending \ {x}
      A == [mem.approvals EXCEPT ![x.pid] = rec]
  IN  /\ x \in mem.pending
      /\ rec # NoApproval
      /\ UNCHANGED <<proposed, spends>>
      /\ Stores(P, A)
      /\ \/ /\ acked' = acked \cup {x.pid}
            /\ StoresAll(P, A)
            /\ Holds(P, A)
         \/ /\ UNCHANGED acked
            /\ faults \cap {"save", "ledger"} # {}
            /\ Holds(mem.pending, [mem.approvals EXCEPT ![x.pid] = NoApproval])
         \/ UNCHANGED acked /\ Restarts

\* The approval of p is spent and rec, which says so, saved; or the save fails or
\* is cut short.
Executes(p, rec) ==
  LET A == [mem.approvals EXCEPT ![p] = rec]
  IN  /\ mem.approvals[p] # NoApproval
      /\ rec # NoApproval /\ rec.grant = mem.approvals[p].grant
      /\ UNCHANGED <<proposed, acked>>
      /\ Stores(mem.pending, A)
      /\ \/ /\ spends' = [spends EXCEPT ![p][rec.grant] = @ + 1]
            /\ StoresAll(mem.pending, A)
            /\ Holds(mem.pending, A) \/ Restarts
         \/ /\ UNCHANGED spends
            /\ Holds(mem.pending, mem.approvals) \/ Restarts

\* The files after a save.
LEMMA SaveShape ==
  ASSUME IInv, NEW m \in State, NEW k \in Renames, files' = SaveFiles(m, files, k)
  PROVE  /\ Stores(m.pending, m.approvals)
         /\ SaveSucceeds(k) => StoresAll(m.pending, m.approvals)
BY DEF SaveFiles, SaveSucceeds, Renames, Unexpired, Stores, StoresAll

\* Loading keeps the proposals that are young enough, or none.
LEMMA LoadsShape ==
  ASSUME NEW f, NEW x \in Loads(f)
  PROVE  /\ x.pending \subseteq Unexpired(f.pending)
         /\ "load" \notin faults => x.approvals = f.approvals
<1>1. \A U : /\ Read(f, U).pending \subseteq Unexpired(f.pending)
             /\ U = {} => Read(f, U).approvals = f.approvals
  BY DEF Read
<1>2. CASE "load" \notin faults
  BY <1>1, <1>2 DEF Loads
<1>3. CASE "load" \in faults
  <2>1. [Empty EXCEPT !.lockdown = TRUE].pending = {}
    BY DEF Empty
  <2> QED
    BY <1>1, <1>3, <2>1 DEF Loads
<1> QED
  BY <1>2, <1>3

\* Memory after a restart.
LEMMA RestartShape ==
  ASSUME NEW f \in State, RestartFrom(f)
  PROVE  Restarts /\ files' = f
<1>1. mem' \in Loads(f) /\ files' = f /\ "crash" \in faults
  BY DEF RestartFrom
<1>2. /\ mem'.pending \subseteq f.pending
      /\ "load" \notin faults => mem'.approvals = f.approvals
      /\ mem'.approvals \in {f.approvals, Empty.approvals}
  BY <1>1, LoadsShape, LoadsType DEF Unexpired
<1> QED
  BY <1>1, <1>2 DEF Restarts

\* A restart that cuts a save short.
LEMMA CutShape ==
  ASSUME IInv, NEW m \in State, NEW k \in Renames, RestartFrom(SaveFiles(m, files, k))
  PROVE  /\ Restarts /\ Stores(m.pending, m.approvals)
         /\ SaveSucceeds(k) => StoresAll(m.pending, m.approvals)
<1>1. SaveFiles(m, files, k) \in State
  BY SaveFilesType DEF IInv, TypeOK
<1>2. Restarts /\ files' = SaveFiles(m, files, k)
  BY <1>1, RestartShape
<1> QED
  BY <1>2, SaveShape

\* What such a restart reads is young.
LEMMA CutIsYoung ==
  ASSUME NEW m, NEW k, RestartFrom(SaveFiles(m, files, k)) \/ RestartFrom(files)
  PROVE  mem'.pending \subseteq Unexpired(m.pending) \cup Unexpired(files.pending)
<1>1. PICK f \in {SaveFiles(m, files, k), files} : mem' \in Loads(f)
  BY DEF RestartFrom
<1>2. f.pending \in {Unexpired(m.pending), files.pending}
  BY <1>1 DEF SaveFiles
<1>3. mem'.pending \subseteq Unexpired(f.pending)
  BY <1>1, LoadsShape
<1> QED
  BY <1>2, <1>3 DEF Unexpired

\* Denials, the reset, restarts and the clock are quiet.
LEMMA QuietShape ==
  ASSUME IInv,
         ProposeDenied \/ ResetLockdown \/ Crash \/ Tick \/ UNCHANGED vars
  PROVE  Quiet
<1>1. ASSUME NEW b \in BOOLEAN, NEW m, m = [mem EXCEPT !.lockdown = b], NEW k \in Renames,
             UNCHANGED history,
             \/ files' = SaveFiles(m, files, k) /\ mem' = m
             \/ RestartFrom(SaveFiles(m, files, k))
      PROVE  Quiet
  <2>1. m \in State /\ m.pending = mem.pending /\ m.approvals = mem.approvals
    BY <1>1 DEF IInv, TypeOK, State
  <2> QED
    BY <1>1, <2>1, SaveShape, CutShape DEF Quiet, Holds, history
<1>2. CASE ProposeDenied
  BY <1>1, <1>2 DEF ProposeDenied
<1>3. CASE ResetLockdown
  BY <1>1, <1>3 DEF ResetLockdown
<1>4. CASE Crash
  BY <1>4, RestartShape DEF Crash, Quiet, Stores, history, IInv, TypeOK
<1>5. CASE Tick \/ UNCHANGED vars
  BY <1>5 DEF Tick, vars, history, Quiet, Stores, Holds
<1> QED
  BY <1>2, <1>3, <1>4, <1>5

\* A proposal has the shape Proposes, however far its save came.
LEMMA ProposeShape ==
  ASSUME IInv, NEW p \in Pids, Propose(p)
  PROVE  /\ [pid |-> p, at |-> now] \in Proposal
         /\ Proposes([pid |-> p, at |-> now])
<1> DEFINE x == [pid |-> p, at |-> now]
           m == [mem EXCEPT !.pending = @ \cup {x}]
           l == [m EXCEPT !.lockdown = TRUE]
<1>1. x \in Proposal /\ x.pid = p
  BY DEF IInv, TypeOK, Proposal
<1>2. mem.pending \cup {x} \in SUBSET Proposal
  BY <1>1 DEF IInv, TypeOK, State
<1>3. m \in State /\ m.pending = mem.pending \cup {x} /\ m.approvals = mem.approvals
  BY <1>2 DEF IInv, TypeOK, State
<1>4. p \notin proposed /\ proposed' = proposed \cup {p} /\ UNCHANGED <<acked, spends>>
  BY DEF Propose
<1>5. PICK k \in Renames :
        \/ files' = SaveFiles(m, files, k) /\ mem' \in {m, l}
        \/ RestartFrom(SaveFiles(m, files, k))
  BY DEF Propose
<1>6. l.pending = mem.pending \cup {x} /\ l.approvals = mem.approvals
  <2> HIDE DEF m
  <2> QED
    BY <1>3 DEF State
<1> HIDE DEF m, l
<1>7. Stores(m.pending, m.approvals) /\ (mem' \in {m, l} \/ Restarts)
  BY <1>3, <1>5, SaveShape, CutShape
<1> HIDE DEF x
<1>8. Proposes(x)
  BY <1>1, <1>3, <1>4, <1>6, <1>7 DEF Proposes, Holds
<1> QED
  BY <1>1, <1>8 DEF x

\* An approval has the shape Approves, whether its save and its evidence succeed,
\* fail, or are cut short.
LEMMA ApproveShape ==
  ASSUME IInv, NEW x \in mem.pending, Approve(x)
  PROVE  x.pid \in Pids /\ \E rec : Approves(x, rec)
<1> DEFINE p      == x.pid
           record == [grant |-> grants[p] + 1, expires |-> ExpiresAt, used |-> FALSE]
           m      == [mem EXCEPT !.pending = @ \ {x}, !.approvals[p] = record]
           back   == [mem EXCEPT !.approvals[p] = NoApproval]
           lock   == [back EXCEPT !.lockdown = TRUE]
<1>1. /\ p \in Pids /\ grants[p] \in 0..MaxGrants /\ grants[p] < MaxGrants
      /\ mem \in State /\ files \in State /\ now \in 0..MaxTime
  BY DEF IInv, TypeOK, State, Proposal, Approve
<1>2. record \in Approval
  BY <1>1, ConstantsAssumption DEF Approval, Grant, ExpiresAt
<1>3. record # NoApproval
  BY <1>2, NoApprovalAssumption
<1>4. /\ m \in State
      /\ m.pending = mem.pending \ {x}
      /\ m.approvals = [mem.approvals EXCEPT ![p] = record]
      /\ \A b \in {back, lock} :
           /\ b.pending = mem.pending
           /\ b.approvals = [mem.approvals EXCEPT ![p] = NoApproval]
  BY <1>1, <1>2 DEF State
<1>5. UNCHANGED <<proposed, spends>>
  BY DEF Approve
<1>6. PICK k \in Renames :
        \/ /\ SaveSucceeds(k)
           /\ mem' = m /\ files' = SaveFiles(m, files, k)
           /\ acked' = acked \cup {p}
        \/ /\ SaveFails(k) \/ "ledger" \in faults
           /\ mem' \in {back, lock} /\ files' = SaveFiles(m, files, k)
           /\ UNCHANGED acked
        \/ /\ RestartFrom(SaveFiles(m, files, k))
           /\ UNCHANGED acked
  BY DEF Approve
<1> HIDE DEF m, back, lock, record
<1>7. /\ Stores(m.pending, m.approvals)
      /\ \/ /\ acked' = acked \cup {p}
            /\ StoresAll(m.pending, m.approvals)
            /\ mem' = m
         \/ /\ UNCHANGED acked
            /\ faults \cap {"save", "ledger"} # {}
            /\ mem' \in {back, lock}
         \/ UNCHANGED acked /\ Restarts
  BY <1>4, <1>6, SaveShape, CutShape DEF SaveFails
<1>8. Approves(x, record)
  BY <1>3, <1>4, <1>5, <1>7 DEF Approves, Holds
<1> QED
  BY <1>1, <1>8

\* An execution has the shape Executes.
LEMMA ExecuteShape ==
  ASSUME IInv, NEW p \in Pids, Execute(p)
  PROVE  \E rec \in Approval : Executes(p, rec)
<1> DEFINE r   == mem.approvals[p]
           rec == [r EXCEPT !.used = TRUE]
           m   == [mem EXCEPT !.approvals[p].used = TRUE]
<1>1. mem \in State /\ files \in State /\ r \in Approval /\ r # NoApproval
  BY DEF IInv, TypeOK, State, Execute
<1>2. rec \in Approval /\ rec.grant = r.grant
  BY <1>1 DEF Approval
<1>3. rec # NoApproval
  BY <1>2, NoApprovalAssumption
<1>4. /\ m \in State /\ m.pending = mem.pending
      /\ m.approvals = [mem.approvals EXCEPT ![p] = rec]
  BY <1>1, <1>2 DEF State
<1>5. UNCHANGED <<proposed, acked>>
  BY DEF Execute
<1>6. PICK k \in Renames :
        \/ /\ SaveSucceeds(k)
           /\ spends' = [spends EXCEPT ![p][r.grant] = @ + 1]
           /\ \/ mem' = m /\ files' = SaveFiles(m, files, k)
              \/ RestartFrom(SaveFiles(m, files, k))
        \/ /\ files' = SaveFiles(m, files, k)
           /\ UNCHANGED <<mem, spends>>
        \/ /\ RestartFrom(SaveFiles(m, files, k))
           /\ UNCHANGED spends
  BY DEF Execute
<1> HIDE DEF m, rec
<1>7. /\ Stores(m.pending, m.approvals)
      /\ \/ /\ spends' = [spends EXCEPT ![p][rec.grant] = @ + 1]
            /\ StoresAll(m.pending, m.approvals)
            /\ mem' = m \/ Restarts
         \/ /\ UNCHANGED spends
            /\ mem' = mem \/ Restarts
  BY <1>2, <1>4, <1>6, SaveShape, CutShape
<1>8. Executes(p, rec)
  BY <1>1, <1>2, <1>3, <1>4, <1>5, <1>7 DEF Executes, Holds
<1> QED
  BY <1>2, <1>8

-----------------------------------------------------------------------------
(***************************************************************************)
(* Every shape of step keeps ProposalInv.                                  *)
(***************************************************************************)

\* Quiet steps keep ProposalInv: what a restart reads is what the files hold.
LEMMA QuietKeeps ==
  ASSUME IInv, ProposalInv, UNCHANGED faults, Quiet
  PROVE  ProposalInv'
<1>1. /\ mem \in State /\ files \in State /\ spends \in [Pids -> [Grant -> Nat]]
      /\ \A q \in Pids : Empty.approvals[q] = NoApproval
  BY DEF IInv, TypeOK, Empty
<1>2. KnownProposals'
  BY <1>1 DEF ProposalInv, Quiet, Stores, Holds, Restarts, KnownProposals
<1>3. ApprovedIsGone'
  BY <1>1 DEF ProposalInv, Quiet, Stores, Holds, Restarts, Gone, Orderly, ApprovedIsGone
<1>4. SpentIsGone'
  BY <1>1 DEF ProposalInv, Quiet, Stores, Holds, Restarts, Gone, Orderly, SpentIsGone
<1>5. OneActionPerProposal'
  BY DEF ProposalInv, Quiet, Orderly, OneActionPerProposal
<1>6. AckedStay'
  BY DEF ProposalInv, Quiet, Stores, Holds, Restarts, AckedStay
<1> QED
  BY <1>2, <1>3, <1>4, <1>5, <1>6 DEF ProposalInv

\* Proposing keeps ProposalInv: nothing is known of the identifier before.
LEMMA ProposesKeeps ==
  ASSUME IInv, ProposalInv, UNCHANGED faults, NEW x \in Proposal, Proposes(x)
  PROVE  ProposalInv'
<1>1. /\ mem \in State /\ files \in State /\ spends \in [Pids -> [Grant -> Nat]]
      /\ \A q \in Pids : Empty.approvals[q] = NoApproval
  BY DEF IInv, TypeOK, Empty
<1>2. KnownProposals'
  BY <1>1 DEF ProposalInv, Proposes, Stores, Holds, Restarts, KnownProposals
<1>3. ApprovedIsGone'
  BY <1>1 DEF ProposalInv, Proposes, Stores, Holds, Restarts, Gone, Orderly,
         KnownProposals, ApprovedIsGone
<1>4. SpentIsGone'
  BY <1>1 DEF ProposalInv, Proposes, Stores, Holds, Restarts, Gone, Orderly,
         KnownProposals, SpentIsGone
<1>5. OneActionPerProposal'
  BY DEF ProposalInv, Proposes, Orderly, OneActionPerProposal
<1>6. AckedStay'
  BY DEF ProposalInv, Proposes, Stores, Holds, Restarts, Proposal, KnownProposals,
         AckedStay
<1> QED
  BY <1>2, <1>3, <1>4, <1>5, <1>6 DEF ProposalInv

\* An approval is acknowledged when the files hold it and its proposal waits in
\* them no more; another one is not touched.
LEMMA ApprovesAcked ==
  ASSUME IInv, ProposalInv, UNCHANGED faults, NEW x \in Proposal, NEW rec, Approves(x, rec)
  PROVE  AckedStay'
<1> DEFINE p == x.pid
<1>1. /\ mem \in State /\ files \in State /\ acked \subseteq Pids /\ p \in Pids
      /\ x \in mem.pending
  BY DEF IInv, TypeOK, Proposal, Approves
<1> SUFFICES ASSUME "load" \notin faults, NEW q \in acked'
             PROVE  /\ mem'.approvals[q] # NoApproval
                    /\ files'.approvals[q] # NoApproval
                    /\ \A y \in mem'.pending \cup files'.pending : y.pid # q
  BY DEF AckedStay
<1>2. CASE q \in acked
  <2>1. /\ mem.approvals[q] # NoApproval /\ files.approvals[q] # NoApproval
        /\ \A y \in mem.pending \cup files.pending : y.pid # q
    BY <1>2 DEF ProposalInv, AckedStay
  <2>2. q # p /\ q \in Pids
    BY <1>1, <1>2, <2>1
  <2>3. /\ files'.approvals[q] \in {mem.approvals[q], files.approvals[q]}
        /\ mem'.approvals[q] \in {mem.approvals[q], files'.approvals[q]}
    BY <1>1, <2>2 DEF Approves, Stores, Holds, Restarts, State
  <2>4. mem'.pending \cup files'.pending \subseteq mem.pending \cup files.pending
    BY DEF Approves, Stores, Holds, Restarts
  <2> QED
    BY <2>1, <2>3, <2>4
<1>3. CASE q \notin acked
  <2>1. /\ q = p /\ rec # NoApproval
        /\ files'.pending \subseteq mem.pending \ {x} /\ mem'.pending = mem.pending \ {x}
        /\ files'.approvals = [mem.approvals EXCEPT ![p] = rec]
        /\ mem'.approvals = [mem.approvals EXCEPT ![p] = rec]
    BY <1>3 DEF Approves, StoresAll, Holds
  <2>2. \A y \in mem.pending \ {x} : y.pid # p
    BY <1>1 DEF ProposalInv, KnownProposals
  <2> QED
    BY <1>1, <2>1, <2>2 DEF State
<1> QED
  BY <1>2, <1>3

\* An execution takes no approval away.
LEMMA ExecutesAcked ==
  ASSUME IInv, ProposalInv, UNCHANGED faults,
         NEW p \in Pids, NEW rec \in Approval, Executes(p, rec)
  PROVE  AckedStay'
<1>1. mem \in State /\ files \in State /\ acked \subseteq Pids
  BY DEF IInv, TypeOK
<1> SUFFICES ASSUME "load" \notin faults, NEW q \in acked
             PROVE  /\ mem'.approvals[q] # NoApproval
                    /\ files'.approvals[q] # NoApproval
                    /\ \A y \in mem'.pending \cup files'.pending : y.pid # q
  BY DEF AckedStay, Executes
<1>2. /\ mem.approvals[q] # NoApproval /\ files.approvals[q] # NoApproval
      /\ \A y \in mem.pending \cup files.pending : y.pid # q
  BY DEF ProposalInv, AckedStay
<1>3. /\ files'.approvals[q] \in {mem.approvals[q], files.approvals[q], rec}
      /\ mem'.approvals[q] \in {mem.approvals[q], files'.approvals[q], rec}
  BY <1>1 DEF Executes, Stores, Holds, Restarts, State
<1>4. mem'.pending \cup files'.pending \subseteq mem.pending \cup files.pending
  BY DEF Executes, Stores, Holds, Restarts
<1> QED
  BY <1>2, <1>3, <1>4 DEF Executes

\* What is spent is the approval in memory, which no other approval of the proposal
\* can follow.
LEMMA ExecutesSpent ==
  ASSUME IInv, ProposalInv, UNCHANGED faults,
         NEW p \in Pids, NEW rec \in Approval, Executes(p, rec)
  PROVE  SpentIsGone' /\ OneActionPerProposal'
<1>1. /\ mem \in State /\ files \in State /\ spends \in [Pids -> [Grant -> Nat]]
      /\ mem.approvals[p] # NoApproval /\ rec.grant = mem.approvals[p].grant
      /\ \A q \in Pids : Empty.approvals[q] = NoApproval
      /\ rec.grant \in Grant
  BY DEF IInv, TypeOK, Executes, Approval, Empty
<1> SUFFICES ASSUME Orderly
             PROVE  \A q \in Pids, g \in Grant : spends'[q][g] > 0 =>
                      /\ Gone(q)'
                      /\ mem'.approvals[q] # NoApproval => mem'.approvals[q].grant = g
                      /\ "crash" \in faults /\ files'.approvals[q] # NoApproval =>
                           files'.approvals[q].grant = g
                      /\ \A h \in Grant : spends'[q][h] > 0 => g = h
  BY DEF SpentIsGone, OneActionPerProposal, Orderly, Gone
<1>2. \A q \in Pids, g \in Grant : spends[q][g] > 0 =>
        /\ mem.approvals[q] # NoApproval => mem.approvals[q].grant = g
        /\ "crash" \in faults /\ files.approvals[q] # NoApproval => files.approvals[q].grant = g
        /\ \A h \in Grant : spends[q][h] > 0 => g = h
  BY DEF ProposalInv, SpentIsGone, OneActionPerProposal
<1>3. \A q \in Pids : mem.approvals[q] # NoApproval \/ (\E g \in Grant : spends[q][g] > 0) =>
        Gone(q)'
  <2>1. /\ mem'.pending \subseteq mem.pending \cup files'.pending
        /\ "crash" \notin faults => mem'.pending = mem.pending
        /\ files'.pending \subseteq mem.pending \cup files.pending
    BY DEF Executes, Stores, Holds, Restarts
  <2> QED
    BY <2>1 DEF ProposalInv, ApprovedIsGone, SpentIsGone, Gone
<1>4. ASSUME NEW q \in Pids, NEW g \in Grant, spends'[q][g] > 0, q = p => g = rec.grant
      PROVE  /\ mem'.approvals[q] # NoApproval => mem'.approvals[q].grant = g
             /\ "crash" \in faults /\ files'.approvals[q] # NoApproval =>
                  files'.approvals[q].grant = g
  <2>1. CASE q # p
    <3>1. spends[q][g] > 0
      BY <1>1, <1>4, <2>1 DEF Executes
    <3>2. /\ files'.approvals[q] \in {mem.approvals[q], files.approvals[q]}
          /\ "crash" \notin faults => mem'.approvals[q] = mem.approvals[q]
          /\ mem'.approvals[q] \in {mem.approvals[q], files'.approvals[q], NoApproval}
      BY <1>1, <2>1 DEF Executes, Stores, Holds, Restarts, State
    <3> QED
      BY <1>2, <3>1, <3>2
  <2>2. CASE q = p /\ spends' = spends
    <3>1. spends[q][g] > 0
      BY <1>4, <2>2
    <3>2. /\ files'.approvals[q] \in {mem.approvals[q], files.approvals[q], rec}
          /\ "crash" \notin faults => mem'.approvals[q] \in {mem.approvals[q], rec}
          /\ mem'.approvals[q] \in {mem.approvals[q], files'.approvals[q], NoApproval, rec}
      BY <1>1 DEF Executes, Stores, Holds, Restarts, State
    <3>3. rec.grant = g /\ mem.approvals[q].grant = g
      BY <1>1, <1>2, <2>2, <3>1
    <3>4. "crash" \in faults /\ files.approvals[q] # NoApproval => files.approvals[q].grant = g
      BY <1>2, <3>1
    <3> QED
      BY <3>2, <3>3, <3>4
  <2>3. CASE q = p /\ spends' # spends
    <3>1. files'.approvals[q] = rec /\ mem'.approvals[q] \in {rec, NoApproval}
      BY <1>1, <2>3 DEF Executes, StoresAll, Holds, Restarts, State
    <3> QED
      BY <1>4, <2>3, <3>1
  <2> QED
    BY <2>1, <2>2, <2>3
<1>5. \A q \in Pids, g \in Grant : spends'[q][g] > 0 =>
        IF q = p THEN g = rec.grant ELSE spends[q][g] > 0
  BY <1>1, <1>2 DEF Executes
<1> QED
  BY <1>1, <1>2, <1>3, <1>4, <1>5

\* Approving keeps ProposalInv. The file may hold an approval that memory rolled
\* back; only a restart could act on it, which Orderly excludes.
LEMMA ApprovesKeeps ==
  ASSUME IInv, ProposalInv, UNCHANGED faults, NEW x \in Proposal, NEW rec, Approves(x, rec)
  PROVE  ProposalInv'
<1>1. /\ mem \in State /\ files \in State /\ spends \in [Pids -> [Grant -> Nat]]
      /\ \A q \in Pids : Empty.approvals[q] = NoApproval
  BY DEF IInv, TypeOK, Empty
<1>2. KnownProposals'
  BY <1>1 DEF ProposalInv, Approves, Stores, Holds, Restarts, State, KnownProposals
<1>3. ApprovedIsGone'
  BY <1>1 DEF ProposalInv, Approves, Stores, StoresAll, Holds, Restarts, Gone, Orderly,
         State, KnownProposals, ApprovedIsGone
<1>4. SpentIsGone'
  BY <1>1 DEF ProposalInv, Approves, Stores, Holds, Restarts, Gone, Orderly, State,
         SpentIsGone
<1>5. OneActionPerProposal'
  BY DEF ProposalInv, Approves, Orderly, OneActionPerProposal
<1>6. AckedStay'
  BY ApprovesAcked
<1> QED
  BY <1>2, <1>3, <1>4, <1>5, <1>6 DEF ProposalInv

\* Executing keeps ProposalInv.
LEMMA ExecutesKeeps ==
  ASSUME IInv, ProposalInv, UNCHANGED faults,
         NEW p \in Pids, NEW rec \in Approval, Executes(p, rec)
  PROVE  ProposalInv'
<1>1. /\ mem \in State /\ files \in State /\ spends \in [Pids -> [Grant -> Nat]]
      /\ \A q \in Pids : Empty.approvals[q] = NoApproval
  BY DEF IInv, TypeOK, Empty
<1>2. KnownProposals'
  BY <1>1 DEF ProposalInv, Executes, Stores, Holds, Restarts, State, KnownProposals
<1>3. ApprovedIsGone'
  BY <1>1 DEF ProposalInv, Executes, Stores, Holds, Restarts, Gone, Orderly, State,
              ApprovedIsGone
<1>4. SpentIsGone'
  BY ExecutesSpent
<1>5. OneActionPerProposal'
  BY ExecutesSpent
<1>6. AckedStay'
  BY ExecutesAcked
<1> QED
  BY <1>2, <1>3, <1>4, <1>5, <1>6 DEF ProposalInv

-----------------------------------------------------------------------------
(***************************************************************************)
(* ProposalInv is inductive, given IInv.                                   *)
(***************************************************************************)

\* Nothing is proposed at the start.
LEMMA ProposalInit == Init => ProposalInv
<1> SUFFICES ASSUME Init PROVE ProposalInv
  OBVIOUS
<1>1. /\ mem.pending = {} /\ files.pending = {} /\ acked = {}
      /\ \A p \in Pids : mem.approvals[p] = NoApproval /\ files.approvals[p] = NoApproval
      /\ \A p \in Pids, g \in Grant : spends[p][g] = 0
  BY DEF Init, Empty
<1> QED
  BY <1>1 DEF ProposalInv, KnownProposals, ApprovedIsGone, SpentIsGone,
              OneActionPerProposal, AckedStay, Gone

\* Every step has one of the shapes.
LEMMA ProposalNext == IInv /\ ProposalInv /\ [Next]_vars => ProposalInv'
<1> SUFFICES ASSUME IInv, ProposalInv, [Next]_vars PROVE ProposalInv'
  OBVIOUS
<1>1. UNCHANGED faults
  BY DEF Next, vars
<1>2. ASSUME NEW p \in Pids, Propose(p) PROVE ProposalInv'
  BY <1>1, <1>2, ProposeShape, ProposesKeeps
<1>3. ASSUME NEW p \in Pids, Execute(p) PROVE ProposalInv'
  BY <1>1, <1>3, ExecuteShape, ExecutesKeeps
<1>4. ASSUME NEW x \in mem.pending, Approve(x) PROVE ProposalInv'
  BY <1>1, <1>4, ApproveShape, ApprovesKeeps DEF IInv, TypeOK, State
<1>5. CASE ProposeDenied \/ ResetLockdown \/ Crash \/ Tick \/ UNCHANGED vars
  BY <1>1, <1>5, QuietShape, QuietKeeps
<1> QED
  BY <1>2, <1>3, <1>4, <1>5 DEF Next

\* A restart brings back young proposals only, and every other step adds the
\* proposal it makes at most.
LEMMA OnlyYoungReturn ==
  IInv /\ [Next]_vars =>
    [\A x \in mem'.pending \ mem.pending : now - x.at < TTL \/ x.pid \notin proposed]_vars
<1> SUFFICES ASSUME IInv, [Next]_vars, NEW x \in mem'.pending \ mem.pending
             PROVE  now - x.at < TTL \/ x.pid \notin proposed
  OBVIOUS
<1>1. ASSUME NEW p \in Pids, Propose(p)
      PROVE  now - x.at < TTL \/ x.pid \notin proposed
  <2> DEFINE y == [pid |-> p, at |-> now]
             m == [mem EXCEPT !.pending = @ \cup {y}]
             l == [m EXCEPT !.lockdown = TRUE]
  <2>1. y \in Proposal /\ y.pid = p /\ p \notin proposed
    BY <1>1, ProposeShape DEF Propose
  <2>2. m \in State /\ m.pending = mem.pending \cup {y}
    BY <2>1 DEF IInv, TypeOK, State
  <2>3. mem' \in {m, l} \/ \E k \in Renames : RestartFrom(SaveFiles(m, files, k))
    BY <1>1 DEF Propose
  <2> HIDE DEF m, y
  <2>4. x \in m.pending \/ now - x.at < TTL
    BY <2>2, <2>3, CutIsYoung DEF Unexpired, State
  <2> QED
    BY <2>1, <2>2, <2>4
<1>2. ASSUME NEW y \in mem.pending, Approve(y)
      PROVE  now - x.at < TTL
  <2> DEFINE record == [grant |-> grants[y.pid] + 1, expires |-> ExpiresAt, used |-> FALSE]
             m      == [mem EXCEPT !.pending = @ \ {y}, !.approvals[y.pid] = record]
             back   == [mem EXCEPT !.approvals[y.pid] = NoApproval]
             lock   == [back EXCEPT !.lockdown = TRUE]
  <2>1. \A s \in {m, back, lock} : s.pending \subseteq mem.pending
    <3>1. mem \in State
      BY DEF IInv, TypeOK
    <3>2. m.pending = mem.pending \ {y} /\ back.pending = mem.pending /\ lock.pending = mem.pending
      BY <3>1 DEF State
    <3> QED
      BY <3>2
  <2>2. mem' \in {m, back, lock} \/ \E k \in Renames : RestartFrom(SaveFiles(m, files, k))
    BY <1>2 DEF Approve
  <2> HIDE DEF m, back, lock
  <2> QED
    BY <2>1, <2>2, CutIsYoung DEF Unexpired
<1>3. ASSUME NEW p \in Pids, Execute(p)
      PROVE  now - x.at < TTL
  <2> DEFINE m == [mem EXCEPT !.approvals[p].used = TRUE]
  <2>1. m.pending = mem.pending
    BY DEF IInv, TypeOK, State
  <2>2. mem' \in {m, mem} \/ \E k \in Renames : RestartFrom(SaveFiles(m, files, k))
    BY <1>3 DEF Execute
  <2> HIDE DEF m
  <2> QED
    BY <2>1, <2>2, CutIsYoung DEF Unexpired
<1>4. ASSUME ProposeDenied \/ ResetLockdown \/ Crash \/ Tick \/ UNCHANGED vars
      PROVE  now - x.at < TTL
  <2> DEFINE m(b) == [mem EXCEPT !.lockdown = b]
  <2>1. \A b \in BOOLEAN : m(b).pending = mem.pending
    BY DEF IInv, TypeOK, State
  <2>2. \/ \E b \in BOOLEAN, k \in Renames : mem' = m(b) \/ RestartFrom(SaveFiles(m(b), files, k))
        \/ RestartFrom(files)
        \/ mem' = mem
    BY <1>4 DEF ProposeDenied, ResetLockdown, Crash, Tick, vars
  <2> HIDE DEF m
  <2> QED
    BY <2>1, <2>2, CutIsYoung DEF Unexpired
<1> QED
  BY <1>1, <1>2, <1>3, <1>4 DEF Next

-----------------------------------------------------------------------------
(***************************************************************************)
(* Theorems about proposals and approvals.                                 *)
(***************************************************************************)

\* What waits, what was approved and what was spent fit together, in memory and
\* files, under every partial save, failed write, restart and unreadable file that
\* the fault set allows.
THEOREM ProposalInvariant == Spec => [](IInv /\ ProposalInv)
<1>1. Init => IInv /\ ProposalInv
  BY InitInv, ProposalInit
<1>2. IInv /\ ProposalInv /\ [Next]_vars => IInv' /\ ProposalInv'
  BY NextInv, ProposalNext
<1> QED
  BY <1>1, <1>2, PTL DEF Spec

\* A proposal goes to the backend under one approval only, where no process finds
\* in the files an approval that another rolled back.
THEOREM OneAction == Spec => []OneActionPerProposal
<1>1. ProposalInv => OneActionPerProposal
  BY DEF ProposalInv
<1> QED
  BY <1>1, ProposalInvariant, PTL

\* An approval answered APPROVED stays in the files and its proposal waits no
\* more, as long as the files can be read.
THEOREM AckedSurvive == Spec => []AckedApprovalsSurvive
<1>1. ProposalInv => AckedApprovalsSurvive
  BY DEF ProposalInv, AckedStay, AckedApprovalsSurvive
<1> QED
  BY <1>1, ProposalInvariant, PTL

\* No restart brings back a proposal older than its time to live.
THEOREM ExpiredTheorem == Spec => ExpiredNeverReturns
<1>1. IInv /\ [Next]_vars =>
        [\A x \in mem'.pending \ mem.pending : now - x.at < TTL \/ x.pid \notin proposed]_vars
  BY OnlyYoungReturn
<1> QED
  BY <1>1, InductiveInvariant, PTL DEF Spec, ExpiredNeverReturns
=============================================================================
