-------------------------- MODULE SharedStoreProofs --------------------------
(***************************************************************************)
(* Theorems about SharedStore, for any number of brokers, proposals,       *)
(* approvals and crashes.                                                  *)
(***************************************************************************)
EXTENDS SharedStore, FiniteSetTheorems, TLAPS

-----------------------------------------------------------------------------
(***************************************************************************)
(* The inductive invariant.                                                *)
(***************************************************************************)

\* An approval that a broker or the database knows was given, and so was one
\* that was spent.
GrantsGiven ==
  \A p \in Pids :
    /\ \A b \in Brokers : mem[b].approvals[p] # NoApproval => mem[b].approvals[p].grant =< grants[p]
    /\ disk.approvals[p] # NoApproval => disk.approvals[p].grant =< grants[p]
    /\ \A g \in Grant : spends[p][g] > 0 => g =< grants[p]

\* A broker that consumes has the approval unused in memory; the one inside the
\* transaction holds the lock, and nobody has changed the row it read.
TransactionAlone ==
  \A b \in Brokers :
    /\ job[b].stage \in {"consume", "commit"} =>
         /\ mem[b].approvals[job[b].pid] # NoApproval
         /\ ~mem[b].approvals[job[b].pid].used
    /\ At(b, "commit") =>
         /\ writer = b
         /\ disk.approvals[job[b].pid] = mem[b].approvals[job[b].pid]

Unused(g) == [grant |-> g, used |-> FALSE]
Used(g)   == [grant |-> g, used |-> TRUE]

\* Each time an approval was spent its row became used, and only a stale save
\* makes it unused again.
UnusedWasRevived ==
  \A p \in Pids, g \in Grant :
    disk.approvals[p] = Unused(g) => spends[p][g] =< revived[p][g]

\* The brokers that may still spend an approval: it is unused in their memory,
\* or they are about to load the tables.
MaySpend(p, g) == {b \in Brokers : mem[b].approvals[p] = Unused(g) \/ At(b, "load")}

\* A broker that spends an approval may not do it again until it has crashed.
SpendersUsedUp ==
  \A p \in Pids, g \in Grant :
    spends[p][g] + Cardinality(MaySpend(p, g)) =< Cardinality(Brokers) + crashes

IInv ==
  /\ TypeOK
  /\ GrantsGiven
  /\ TransactionAlone
  /\ UnusedWasRevived
  /\ SecondConsumeNeedsStaleSave
  /\ SpendersUsedUp

-----------------------------------------------------------------------------
(***************************************************************************)
(* Sets of brokers.                                                        *)
(***************************************************************************)

LEMMA BrokersFinite == IsFiniteSet(Brokers)
BY ConstantsAssumption

\* Fewer brokers are counted as fewer.
LEMMA FewerBrokers ==
  ASSUME NEW S \in SUBSET Brokers, NEW T \in SUBSET S
  PROVE  /\ Cardinality(S) \in Nat
         /\ Cardinality(T) \in Nat
         /\ Cardinality(T) =< Cardinality(S)
<1>1. IsFiniteSet(S)
  BY BrokersFinite, FS_Subset
<1>2. IsFiniteSet(T) /\ Cardinality(T) =< Cardinality(S)
  BY <1>1, FS_Subset
<1> QED
  BY <1>1, <1>2, FS_CardinalityType

\* One broker less, and one broker more.
LEMMA OneBroker ==
  ASSUME NEW S \in SUBSET Brokers, NEW b \in Brokers
  PROVE  /\ b \in S => Cardinality(S \ {b}) = Cardinality(S) - 1
         /\ Cardinality(S \cup {b}) =< Cardinality(S) + 1
<1>1. IsFiniteSet(S)
  BY BrokersFinite, FS_Subset
<1>2. Cardinality(S) \in Nat
  BY <1>1, FS_CardinalityType
<1>3. Cardinality(S \cup {b}) = IF b \in S THEN Cardinality(S) ELSE Cardinality(S) + 1
  BY <1>1, FS_AddElement
<1>4. Cardinality(S \ {b}) = IF b \in S THEN Cardinality(S) - 1 ELSE Cardinality(S)
  BY <1>1, FS_RemoveElement
<1> QED
  BY <1>2, <1>3, <1>4

\* A step that spends nothing, in which no broker comes to be one that may
\* spend, keeps the count.
LEMMA NoMoreSpenders ==
  ASSUME TypeOK, SpendersUsedUp,
         spends' = spends, crashes' = crashes,
         \A p \in Pids, g \in Grant : spends[p][g] > 0 => MaySpend(p, g)' \subseteq MaySpend(p, g)
  PROVE  SpendersUsedUp'
<1> SUFFICES ASSUME NEW p \in Pids, NEW g \in Grant
             PROVE  spends[p][g] + Cardinality(MaySpend(p, g)') =< Cardinality(Brokers) + crashes
  BY DEF SpendersUsedUp
<1>1. MaySpend(p, g) \in SUBSET Brokers /\ MaySpend(p, g)' \in SUBSET Brokers
  BY DEF MaySpend
<1>2. /\ Cardinality(MaySpend(p, g)') \in Nat
      /\ Cardinality(MaySpend(p, g)') =< Cardinality(Brokers)
      /\ Cardinality(Brokers) \in Nat
  BY <1>1, FewerBrokers
<1>3. spends[p][g] \in Nat /\ crashes \in Nat
  BY DEF TypeOK
<1>4. CASE spends[p][g] = 0
  BY <1>2, <1>3, <1>4
<1>5. CASE spends[p][g] > 0
  <2>1. /\ Cardinality(MaySpend(p, g)') =< Cardinality(MaySpend(p, g))
        /\ Cardinality(MaySpend(p, g)) \in Nat
    BY <1>1, <1>5, FewerBrokers
  <2>2. spends[p][g] + Cardinality(MaySpend(p, g)) =< Cardinality(Brokers) + crashes
    BY DEF SpendersUsedUp
  <2> QED
    BY <1>2, <1>3, <2>1, <2>2
<1> QED
  BY <1>3, <1>4, <1>5

\* A record is not the absence of one.
LEMMA RecordIsRecord ==
  ASSUME NEW g \in Grant, NEW used \in BOOLEAN
  PROVE  /\ [grant |-> g, used |-> used] \in Approval
         /\ [grant |-> g, used |-> used] # NoApproval
<1>1. [grant |-> g, used |-> used] \in Approval
  BY DEF Approval
<1> QED
  BY <1>1, NoApprovalAssumption

\* An approval in memory or in the tables is a record with its grant.
LEMMA RecordsTyped ==
  ASSUME TypeOK, NEW p \in Pids
  PROVE  /\ \A b \in Brokers : mem[b].approvals[p] # NoApproval =>
              /\ mem[b].approvals[p] \in Approval
              /\ mem[b].approvals[p].grant \in Grant
              /\ mem[b].approvals[p].used \in BOOLEAN
         /\ disk.approvals[p] # NoApproval =>
              /\ disk.approvals[p] \in Approval
              /\ disk.approvals[p].grant \in Grant
              /\ disk.approvals[p].used \in BOOLEAN
BY DEF TypeOK, State, Approval

\* A record that is not used is the unused record of its grant.
LEMMA UnusedRecord ==
  ASSUME NEW a \in Approval
  PROVE  /\ ~a.used <=> a = Unused(a.grant)
         /\ \A g : a = Unused(g) => a.grant = g
BY DEF Approval, Unused

\* Marking an unused record makes it the used record of the same grant.
LEMMA UsedRecord ==
  ASSUME NEW g \in Grant, NEW a \in Approval, a = Unused(g)
  PROVE  [a EXCEPT !.used = TRUE] = Used(g)
<1> DEFINE r == [a EXCEPT !.used = TRUE]
<1>1. r \in Approval
  BY DEF Approval
<1>2. r.grant = g /\ r.used = TRUE
  BY DEF Approval, Unused
<1>3. \A x \in Approval : x = [grant |-> x.grant, used |-> x.used]
  BY DEF Approval
<1> HIDE DEF r
<1>4. r = [grant |-> r.grant, used |-> r.used]
  BY <1>1, <1>3
<1> QED
  BY <1>2, <1>4 DEF r, Used

-----------------------------------------------------------------------------
(***************************************************************************)
(* The initial state and each step.                                        *)
(***************************************************************************)
LEMMA InitInv == Init => IInv
<1> SUFFICES ASSUME Init PROVE IInv
  OBVIOUS
<1>1. 1 \in Grant /\ (\E p \in Pids : TRUE) /\ (CHOOSE p \in Pids : TRUE) \in Pids
  BY ConstantsAssumption DEF Grant
<1>2. disk.approvals \in [Pids -> Approval \cup {NoApproval}]
  BY <1>1, RecordIsRecord DEF Init
<1>3. disk \in State
  BY <1>2 DEF Init, State
<1>4. TypeOK
  <2>1. job \in [Brokers -> Job]
    BY <1>1 DEF Init, Job, Stage, Kind
  <2>2. spends \in [Pids -> [Grant -> Nat]] /\ grants \in [Pids -> 0..MaxGrants]
    BY ConstantsAssumption DEF Init
  <2>3. mem \in [Brokers -> State]
    BY <1>3 DEF Init
  <2> QED
    BY <1>3, <2>1, <2>3, ConstantsAssumption DEF Init, TypeOK
<1>5. GrantsGiven
  BY <1>1, RecordIsRecord DEF Init, GrantsGiven, Grant
<1>6. TransactionAlone
  BY DEF Init, TransactionAlone, At
<1>7. UnusedWasRevived /\ SecondConsumeNeedsStaleSave
  BY DEF Init, UnusedWasRevived, SecondConsumeNeedsStaleSave
<1>8. SpendersUsedUp
  <2> SUFFICES ASSUME NEW p \in Pids, NEW g \in Grant
               PROVE  spends[p][g] + Cardinality(MaySpend(p, g)) =< Cardinality(Brokers) + crashes
    BY DEF SpendersUsedUp
  <2>1. MaySpend(p, g) \in SUBSET Brokers
    BY DEF MaySpend
  <2> QED
    BY <2>1, FewerBrokers DEF Init
<1> QED
  BY <1>4, <1>5, <1>6, <1>7, <1>8 DEF IInv

LEMMA ProposeInv ==
  ASSUME IInv, NEW b \in Brokers, NEW p \in Pids, Propose(b, p)
  PROVE  IInv'
<1>1. /\ \A c \in Brokers : mem'[c].approvals = mem[c].approvals
      /\ \A c \in Brokers : c # b => job'[c] = job[c]
      /\ job'[b].stage = "save pending"
      /\ UNCHANGED <<disk, writer, grants, spends, revived, crashes>>
  BY DEF IInv, TypeOK, State, Propose, Begin
<1>2. TypeOK'
  <2>1. mem' \in [Brokers -> State]
    BY DEF IInv, TypeOK, State, Propose
  <2>2. job' \in [Brokers -> Job]
    BY DEF IInv, TypeOK, Job, Stage, Kind, Propose, Begin
  <2>3. proposed' \subseteq Pids
    BY DEF IInv, TypeOK, Propose
  <2> QED
    BY <1>1, <2>1, <2>2, <2>3 DEF IInv, TypeOK
<1>3. GrantsGiven'
  BY <1>1 DEF IInv, GrantsGiven
<1>4. TransactionAlone'
  BY <1>1 DEF IInv, TransactionAlone, At
<1>5. UnusedWasRevived' /\ SecondConsumeNeedsStaleSave'
  BY <1>1 DEF IInv, UnusedWasRevived, SecondConsumeNeedsStaleSave
<1>6. SpendersUsedUp'
  <2>1. \A q \in Pids, h \in Grant : MaySpend(q, h)' \subseteq MaySpend(q, h)
    BY <1>1 DEF MaySpend, At
  <2> QED
    BY <1>1, <2>1, NoMoreSpenders DEF IInv
<1> QED
  BY <1>2, <1>3, <1>4, <1>5, <1>6 DEF IInv

\* A new approval has not been spent.
LEMMA ApproveInv ==
  ASSUME IInv, NEW b \in Brokers, NEW p \in Pids, Approve(b, p)
  PROVE  IInv'
<1> DEFINE g == grants[p] + 1
           m == [mem[b] EXCEPT !.pending = @ \ {p}, !.approvals[p] = Unused(g)]
<1>1. g \in Grant /\ Unused(g) \in Approval /\ Unused(g) # NoApproval
  <2>1. g \in Grant
    <3>1. grants[p] \in 0..MaxGrants /\ grants[p] < MaxGrants /\ MaxGrants \in Nat
      BY ConstantsAssumption DEF IInv, TypeOK, Approve
    <3> QED
      BY <3>1 DEF Grant
  <2> QED
    BY <2>1, RecordIsRecord DEF Unused
<1>2. m \in State
  BY <1>1 DEF IInv, TypeOK, State
<1>3. /\ mem' = [mem EXCEPT ![b] = m]
      /\ grants' = [grants EXCEPT ![p] = g]
      /\ UNCHANGED <<disk, writer, proposed, spends, revived, crashes>>
  BY DEF IInv, TypeOK, State, Approve, Unused
<1>4. \A q \in Pids : m.approvals[q] = IF q = p THEN Unused(g) ELSE mem[b].approvals[q]
  BY DEF IInv, TypeOK, State
<1> HIDE DEF m, g
<1>5. job'[b].stage = "save pending" /\ \A c \in Brokers : c # b => job'[c] = job[c]
  BY DEF IInv, TypeOK, Approve, Begin
<1>6. /\ mem'[b] = m /\ \A c \in Brokers : c # b => mem'[c] = mem[c]
      /\ grants'[p] = g /\ \A q \in Pids : q # p => grants'[q] = grants[q]
  BY <1>3 DEF IInv, TypeOK
<1>7. TypeOK'
  <2>1. mem' \in [Brokers -> State]
    BY <1>2, <1>3 DEF IInv, TypeOK
  <2>2. job' \in [Brokers -> Job]
    BY DEF IInv, TypeOK, Approve, Begin, Job, Stage, Kind
  <2>3. grants' \in [Pids -> 0..MaxGrants]
    <3>1. g \in 0..MaxGrants
      BY <1>1, ConstantsAssumption DEF Grant
    <3> QED
      BY <1>3, <3>1 DEF IInv, TypeOK
  <2> QED
    BY <1>3, <2>1, <2>2, <2>3 DEF IInv, TypeOK
<1>8. \A q \in Pids : /\ grants[q] \in Nat /\ grants'[q] \in Nat
                       /\ grants[q] =< grants'[q]
  <2>1. grants[p] \in Nat /\ g = grants[p] + 1
    BY DEF IInv, TypeOK, g
  <2> QED
    BY <1>6, <2>1 DEF IInv, TypeOK
<1>9. GrantsGiven'
  <2>1. ASSUME NEW q \in Pids, NEW c \in Brokers, mem'[c].approvals[q] # NoApproval
        PROVE  mem'[c].approvals[q].grant =< grants'[q]
    <3>1. CASE c = b /\ q = p
      <4>1. mem'[c].approvals[q] = Unused(g) /\ grants'[q] = g
        BY <1>4, <1>6, <3>1
      <4>2. Unused(g).grant = g
        BY DEF Unused
      <4> QED
        BY <1>1, <4>1, <4>2 DEF Grant
    <3>2. CASE ~(c = b /\ q = p)
      <4>1. mem'[c].approvals[q] = mem[c].approvals[q]
        BY <1>4, <1>6, <3>2
      <4>2. mem[c].approvals[q].grant =< grants[q] /\ mem[c].approvals[q].grant \in Nat
        BY <2>1, <4>1, RecordsTyped DEF IInv, GrantsGiven, Grant
      <4> QED
        BY <1>8, <4>1, <4>2
    <3> QED
      BY <3>1, <3>2
  <2>2. ASSUME NEW q \in Pids, disk.approvals[q] # NoApproval
        PROVE  disk.approvals[q].grant =< grants'[q]
    <3>1. disk.approvals[q].grant =< grants[q] /\ disk.approvals[q].grant \in Nat
      BY <2>2, RecordsTyped DEF IInv, GrantsGiven, Grant
    <3> QED
      BY <1>8, <3>1
  <2>3. ASSUME NEW q \in Pids, NEW h \in Grant, spends[q][h] > 0
        PROVE  h =< grants'[q]
    <3>1. h =< grants[q] /\ h \in Nat
      BY <2>3 DEF IInv, GrantsGiven, Grant
    <3> QED
      BY <1>8, <3>1
  <2> QED
    BY <1>3, <2>1, <2>2, <2>3 DEF GrantsGiven
<1>10. TransactionAlone'
  <2> SUFFICES ASSUME NEW c \in Brokers, job'[c].stage \in {"consume", "commit"}
               PROVE  /\ mem'[c].approvals[job'[c].pid] # NoApproval
                      /\ ~mem'[c].approvals[job'[c].pid].used
                      /\ job'[c].stage = "commit" =>
                           /\ writer' = c
                           /\ disk'.approvals[job'[c].pid] = mem'[c].approvals[job'[c].pid]
    BY DEF TransactionAlone, At
  <2>1. mem'[c] = mem[c] /\ job'[c] = job[c] /\ writer' = writer /\ disk' = disk
    BY <1>3, <1>5, <1>6
  <2> QED
    BY <2>1 DEF IInv, TransactionAlone, At
<1>11. UnusedWasRevived' /\ SecondConsumeNeedsStaleSave'
  BY <1>3 DEF IInv, UnusedWasRevived, SecondConsumeNeedsStaleSave
<1>12. SpendersUsedUp'
  <2>1. ASSUME NEW q \in Pids, NEW h \in Grant, spends[q][h] > 0
        PROVE  MaySpend(q, h)' \subseteq MaySpend(q, h)
    <3>1. q = p => Unused(g) # Unused(h)
      <4>1. q = p => h =< grants[p] /\ grants[p] \in Nat /\ h \in Nat
        BY <2>1 DEF IInv, GrantsGiven, TypeOK, Grant
      <4> QED
        BY <4>1 DEF Unused, g
    <3>2. \A c \in Brokers : mem'[c].approvals[q] = Unused(h) => mem[c].approvals[q] = Unused(h)
      BY <1>4, <1>6, <3>1
    <3>3. \A c \in Brokers : job'[c].stage = "load" => job[c].stage = "load"
      BY <1>5
    <3> QED
      BY <3>2, <3>3 DEF MaySpend, At
  <2> QED
    BY <1>3, <2>1, NoMoreSpenders DEF IInv
<1> QED
  BY <1>7, <1>9, <1>10, <1>11, <1>12 DEF IInv

LEMMA SavePendingInv ==
  ASSUME IInv, NEW b \in Brokers, SavePending(b)
  PROVE  IInv'
<1> USE DEF SavePending, GoTo, At, history
<1>1. /\ disk'.approvals = disk.approvals
      /\ \A c \in Brokers : c # b => job'[c] = job[c]
      /\ job'[b].stage = "save approvals"
  BY DEF IInv, TypeOK, State, Job
<1>2. TypeOK'
  <2>1. disk' \in State
    BY DEF IInv, TypeOK, State
  <2>2. job' \in [Brokers -> Job]
    BY DEF IInv, TypeOK, Job, Stage
  <2> QED
    BY <2>1, <2>2 DEF IInv, TypeOK
<1>3. GrantsGiven'
  BY <1>1 DEF IInv, GrantsGiven
<1>4. TransactionAlone'
  BY <1>1 DEF IInv, TransactionAlone
<1>5. UnusedWasRevived' /\ SecondConsumeNeedsStaleSave'
  BY <1>1 DEF IInv, UnusedWasRevived, SecondConsumeNeedsStaleSave
<1>6. SpendersUsedUp'
  BY <1>1, NoMoreSpenders DEF IInv, MaySpend
<1> QED
  BY <1>2, <1>3, <1>4, <1>5, <1>6 DEF IInv

\* A save that makes a spent approval unused is counted; it cannot come while
\* another broker is inside its transaction.
LEMMA SaveApprovalsInv ==
  ASSUME IInv, NEW b \in Brokers, SaveApprovals(b)
  PROVE  IInv'
<1> DEFINE Revives(p, g) == /\ spends[p][g] > 0
                            /\ disk.approvals[p] # Unused(g)
                            /\ mem[b].approvals[p] = Unused(g)
<1>1. /\ disk'.approvals = mem[b].approvals
      /\ UNCHANGED <<mem, writer, proposed, grants, spends, crashes>>
      /\ Unlocked(b)
  BY DEF IInv, TypeOK, State, SaveApprovals
<1>2. job'[b].stage = "idle" /\ \A c \in Brokers : c # b => job'[c] = job[c]
  BY DEF IInv, TypeOK, SaveApprovals, GoTo, Job
<1>3. revived' = [p \in Pids |-> [g \in Grant |->
         IF Revives(p, g) THEN revived[p][g] + 1 ELSE revived[p][g]]]
  BY DEF SaveApprovals, Unused
<1>4. \A p \in Pids, g \in Grant :
        spends[p][g] \in Nat /\ revived[p][g] \in Nat
  BY DEF IInv, TypeOK
<1>5. TypeOK'
  <2>1. disk' \in State
    BY DEF IInv, TypeOK, State, SaveApprovals
  <2>2. job' \in [Brokers -> Job]
    BY DEF IInv, TypeOK, Job, Stage, SaveApprovals, GoTo
  <2>3. revived' \in [Pids -> [Grant -> Nat]]
    <3> HIDE DEF Revives
    <3>1. \A p \in Pids, g \in Grant :
            (IF Revives(p, g) THEN revived[p][g] + 1 ELSE revived[p][g]) \in Nat
      BY <1>4
    <3> QED
      BY <1>3, <3>1
  <2> QED
    BY <1>1, <2>1, <2>2, <2>3 DEF IInv, TypeOK
<1>6. GrantsGiven'
  BY <1>1 DEF IInv, GrantsGiven
<1>7. TransactionAlone'
  <2>1. \A c \in Brokers : c # b => ~At(c, "commit")
    BY <1>1, ConstantsAssumption DEF IInv, TransactionAlone, Unlocked
  <2> QED
    BY <1>1, <1>2, <2>1 DEF IInv, TransactionAlone, At
<1>8. ASSUME NEW p \in Pids, NEW g \in Grant
      PROVE  /\ spends[p][g] =< 1 + revived'[p][g]
             /\ disk'.approvals[p] = Unused(g) => spends[p][g] =< revived'[p][g]
  <2>1. spends[p][g] =< 1 + revived[p][g]
    BY DEF IInv, SecondConsumeNeedsStaleSave
  <2>2. disk.approvals[p] = Unused(g) => spends[p][g] =< revived[p][g]
    BY DEF IInv, UnusedWasRevived
  <2>3. revived'[p][g] = IF Revives(p, g) THEN revived[p][g] + 1 ELSE revived[p][g]
    BY <1>3
  <2>4. disk'.approvals[p] = mem[b].approvals[p]
    BY <1>1
  <2>5. CASE Revives(p, g)
    BY <1>4, <2>1, <2>3, <2>5
  <2>6. CASE ~Revives(p, g)
    <3>1. disk'.approvals[p] = Unused(g) => spends[p][g] =< revived[p][g]
      BY <1>4, <2>2, <2>4, <2>6
    <3> QED
      BY <2>1, <2>3, <2>6, <3>1
  <2> QED
    BY <2>5, <2>6
<1>9. UnusedWasRevived' /\ SecondConsumeNeedsStaleSave'
  BY <1>1, <1>8 DEF UnusedWasRevived, SecondConsumeNeedsStaleSave
<1>10. SpendersUsedUp'
  <2>1. \A p \in Pids, g \in Grant : MaySpend(p, g)' \subseteq MaySpend(p, g)
    BY <1>1, <1>2 DEF MaySpend, At
  <2> QED
    BY <1>1, <2>1, NoMoreSpenders DEF IInv
<1> QED
  BY <1>5, <1>6, <1>7, <1>9, <1>10 DEF IInv

LEMMA ExecuteInv ==
  ASSUME IInv, NEW b \in Brokers, NEW p \in Pids, Execute(b, p)
  PROVE  IInv'
<1> USE DEF Execute, Begin, At, history
<1>1. /\ \A c \in Brokers : c # b => job'[c] = job[c]
      /\ job'[b] = [stage |-> "consume", kind |-> "execute", pid |-> p]
  BY DEF IInv, TypeOK
<1>2. TypeOK'
  BY DEF IInv, TypeOK, Job, Stage, Kind
<1>3. GrantsGiven'
  BY DEF IInv, GrantsGiven
<1>4. TransactionAlone'
  BY <1>1 DEF IInv, TransactionAlone
<1>5. UnusedWasRevived' /\ SecondConsumeNeedsStaleSave'
  BY DEF IInv, UnusedWasRevived, SecondConsumeNeedsStaleSave
<1>6. SpendersUsedUp'
  BY <1>1, NoMoreSpenders DEF IInv, MaySpend
<1> QED
  BY <1>2, <1>3, <1>4, <1>5, <1>6 DEF IInv

\* The transaction begins when no other broker is inside one.
LEMMA BeginImmediateInv ==
  ASSUME IInv, NEW b \in Brokers, BeginImmediate(b)
  PROVE  IInv'
<1> USE DEF BeginImmediate, GoTo, At, history
<1>1. /\ \A c \in Brokers : c # b => job'[c] = job[c]
      /\ job'[b].stage \in {"commit", "idle"} /\ job'[b].pid = job[b].pid
      /\ job'[b].stage = "commit" =>
           /\ writer' = b
           /\ disk.approvals[job[b].pid] = mem[b].approvals[job[b].pid]
  BY DEF IInv, TypeOK, Job
<1>2. TypeOK'
  <2>1. /\ job' = [job EXCEPT ![b].stage = "commit"] \/ job' = [job EXCEPT ![b].stage = "idle"]
        /\ job \in [Brokers -> Job]
    BY DEF IInv, TypeOK
  <2> HIDE DEF BeginImmediate
  <2>2. job' \in [Brokers -> Job]
    BY <2>1 DEF Job, Stage
  <2> QED
    BY <2>2 DEF IInv, TypeOK, BeginImmediate
<1>3. GrantsGiven'
  BY DEF IInv, GrantsGiven
<1>4. TransactionAlone'
  <2>1. \A c \in Brokers : c # b => ~At(c, "commit")
    BY ConstantsAssumption DEF IInv, TransactionAlone, Unlocked
  <2> QED
    BY <1>1, <2>1 DEF IInv, TransactionAlone
<1>5. UnusedWasRevived' /\ SecondConsumeNeedsStaleSave'
  BY DEF IInv, UnusedWasRevived, SecondConsumeNeedsStaleSave
<1>6. SpendersUsedUp'
  BY <1>1, NoMoreSpenders DEF IInv, MaySpend
<1> QED
  BY <1>2, <1>3, <1>4, <1>5, <1>6 DEF IInv

\* The approval that is spent was unused in the row and in the memory of the
\* broker, and is used in both.
LEMMA CommitStep ==
  ASSUME IInv, NEW b \in Brokers, Commit(b)
  PROVE  \E p \in Pids, g \in Grant, m \in State, d \in State :
           /\ writer = b /\ mem[b].approvals[p] = Unused(g) /\ disk.approvals[p] = Unused(g)
           /\ mem' = [mem EXCEPT ![b] = m] /\ disk' = d
           /\ \A q \in Pids :
                /\ m.approvals[q] = IF q = p THEN Used(g) ELSE mem[b].approvals[q]
                /\ d.approvals[q] = IF q = p THEN Used(g) ELSE disk.approvals[q]
           /\ job' = [job EXCEPT ![b].stage = "backend"]
           /\ writer' = NoBroker
           /\ spends' = [spends EXCEPT ![p] = [spends[p] EXCEPT ![g] = spends[p][g] + 1]]
           /\ UNCHANGED <<proposed, grants, revived, crashes>>
<1> DEFINE p == job[b].pid
           g == mem[b].approvals[p].grant
           m == [mem[b] EXCEPT !.approvals[p].used = TRUE]
           d == [disk EXCEPT !.approvals[p].used = TRUE]
<1>1. /\ p \in Pids /\ g \in Grant /\ writer = b
      /\ mem[b].approvals[p] = Unused(g)
      /\ disk.approvals[p] = Unused(g)
  <2>1. /\ p \in Pids /\ writer = b
        /\ mem[b].approvals[p] # NoApproval /\ ~mem[b].approvals[p].used
        /\ disk.approvals[p] = mem[b].approvals[p]
    BY DEF IInv, TypeOK, TransactionAlone, Commit, At, Job
  <2>2. mem[b].approvals[p] \in Approval /\ g \in Grant
    BY <2>1, RecordsTyped DEF IInv
  <2> QED
    BY <2>1, <2>2, UnusedRecord
<1>2. Used(g) \in Approval /\ Unused(g) \in Approval
  BY <1>1, RecordIsRecord DEF Used, Unused
<1>3. ASSUME NEW s \in State, s.approvals[p] = Unused(g)
      PROVE  /\ [s EXCEPT !.approvals[p].used = TRUE] \in State
             /\ \A q \in Pids : [s EXCEPT !.approvals[p].used = TRUE].approvals[q]
                                  = IF q = p THEN Used(g) ELSE s.approvals[q]
  <2> HIDE DEF p, g
  <2>1. [s.approvals[p] EXCEPT !.used = TRUE] = Used(g)
    BY <1>1, <1>2, <1>3, UsedRecord
  <2>2. [s EXCEPT !.approvals[p].used = TRUE] = [s EXCEPT !.approvals = [@ EXCEPT ![p] = Used(g)]]
    BY <2>1
  <2> QED
    BY <1>1, <1>2, <2>2 DEF State
<1>4. mem[b] \in State /\ disk \in State
  BY DEF IInv, TypeOK
<1>5. /\ disk' = d
      /\ mem' = [mem EXCEPT ![b] = m]
      /\ job' = [job EXCEPT ![b].stage = "backend"]
      /\ writer' = NoBroker
      /\ spends' = [spends EXCEPT ![p] = [spends[p] EXCEPT ![g] = spends[p][g] + 1]]
      /\ UNCHANGED <<proposed, grants, revived, crashes>>
  BY DEF IInv, TypeOK, Commit, GoTo
<1>6. m \in State /\ \A q \in Pids : m.approvals[q] = IF q = p THEN Used(g) ELSE mem[b].approvals[q]
  BY <1>1, <1>3, <1>4
<1>7. d \in State /\ \A q \in Pids : d.approvals[q] = IF q = p THEN Used(g) ELSE disk.approvals[q]
  BY <1>1, <1>3, <1>4
<1>8. p \in Pids /\ g \in Grant /\ m \in State /\ d \in State
  BY <1>1, <1>6, <1>7
<1> HIDE DEF m, d, p, g
<1> USE <1>8
<1> WITNESS p \in Pids, g \in Grant, m \in State, d \in State
<1> QED
  BY <1>1, <1>5, <1>6, <1>7

\* Only that approval, of that broker, is touched.
LEMMA CommitInv ==
  ASSUME IInv, NEW b \in Brokers, Commit(b)
  PROVE  IInv'
<1>1. PICK p \in Pids, g \in Grant, m \in State, d \in State :
        /\ writer = b /\ mem[b].approvals[p] = Unused(g) /\ disk.approvals[p] = Unused(g)
        /\ mem' = [mem EXCEPT ![b] = m] /\ disk' = d
        /\ \A q \in Pids :
             /\ m.approvals[q] = IF q = p THEN Used(g) ELSE mem[b].approvals[q]
             /\ d.approvals[q] = IF q = p THEN Used(g) ELSE disk.approvals[q]
        /\ job' = [job EXCEPT ![b].stage = "backend"]
        /\ writer' = NoBroker
        /\ spends' = [spends EXCEPT ![p] = [spends[p] EXCEPT ![g] = spends[p][g] + 1]]
        /\ UNCHANGED <<proposed, grants, revived, crashes>>
  BY CommitStep
<1>2. /\ Used(g) \in Approval /\ Used(g) # NoApproval /\ \A h : Used(g) # Unused(h)
      /\ Unused(g) # NoApproval
  BY RecordIsRecord DEF Unused, Used
<1>3. /\ \A c \in Brokers : mem'[c] = IF c = b THEN m ELSE mem[c]
      /\ \A c \in Brokers : c # b => job'[c] = job[c]
      /\ job'[b].stage = "backend"
      /\ \A q \in Pids, h \in Grant :
           spends'[q][h] = IF q = p /\ h = g THEN spends[q][h] + 1 ELSE spends[q][h]
  BY <1>1 DEF IInv, TypeOK, Job
<1>4. TypeOK'
  <2>1. disk' \in State /\ mem' \in [Brokers -> State]
    BY <1>1 DEF IInv, TypeOK
  <2>2. job' \in [Brokers -> Job]
    BY <1>1 DEF IInv, TypeOK, Job, Stage
  <2>3. spends' \in [Pids -> [Grant -> Nat]]
    BY <1>1 DEF IInv, TypeOK
  <2> QED
    BY <1>1, <2>1, <2>2, <2>3 DEF IInv, TypeOK
<1>5. GrantsGiven'
  <2>1. Unused(g).grant = g /\ Used(g).grant = g
    BY DEF Unused, Used
  <2>2. g =< grants[p]
    BY <1>1, <1>2, <2>1 DEF IInv, GrantsGiven
  <2> QED
    BY <1>1, <2>1, <2>2 DEF IInv, GrantsGiven
<1>6. TransactionAlone'
  <2>1. \A c \in Brokers : c # b => ~At(c, "commit")
    BY <1>1 DEF IInv, TransactionAlone
  <2> QED
    BY <1>3, <2>1 DEF IInv, TransactionAlone, At
<1>7. ASSUME NEW q \in Pids, NEW h \in Grant
       PROVE  /\ spends'[q][h] =< 1 + revived'[q][h]
              /\ disk'.approvals[q] = Unused(h) => spends'[q][h] =< revived'[q][h]
  <2>1. /\ spends[q][h] \in Nat /\ revived[q][h] \in Nat
        /\ spends[q][h] =< 1 + revived[q][h]
    BY DEF IInv, TypeOK, SecondConsumeNeedsStaleSave
  <2>2. disk.approvals[q] = Unused(h) => spends[q][h] =< revived[q][h]
    BY DEF IInv, UnusedWasRevived
  <2>3. disk'.approvals[q] = IF q = p THEN Used(g) ELSE disk.approvals[q]
    BY <1>1
  <2>4. revived' = revived
    BY <1>1
  <2> QED
    BY <1>1, <1>2, <1>3, <2>1, <2>2, <2>3, <2>4
<1>8. UnusedWasRevived' /\ SecondConsumeNeedsStaleSave'
  BY <1>7 DEF UnusedWasRevived, SecondConsumeNeedsStaleSave
<1>9. SpendersUsedUp'
  <2> SUFFICES ASSUME NEW q \in Pids, NEW h \in Grant
               PROVE  spends'[q][h] + Cardinality(MaySpend(q, h)') =< Cardinality(Brokers) + crashes'
    BY DEF SpendersUsedUp
  <2>1. /\ spends[q][h] + Cardinality(MaySpend(q, h)) =< Cardinality(Brokers) + crashes
        /\ spends[q][h] \in Nat /\ crashes \in Nat /\ crashes' = crashes
    BY <1>1 DEF IInv, TypeOK, SpendersUsedUp
  <2>2. MaySpend(q, h) \in SUBSET Brokers
    BY DEF MaySpend
  <2>3. MaySpend(q, h)' \subseteq MaySpend(q, h)
    BY <1>1, <1>2, <1>3 DEF MaySpend, At
  <2>4. /\ Cardinality(MaySpend(q, h)) \in Nat /\ Cardinality(MaySpend(q, h)') \in Nat
        /\ Cardinality(MaySpend(q, h)') =< Cardinality(MaySpend(q, h))
        /\ Cardinality(Brokers) \in Nat
    BY <2>2, <2>3, FewerBrokers
  <2>5. CASE q = p /\ h = g
    <3>1. b \in MaySpend(q, h) /\ b \notin MaySpend(q, h)'
      BY <1>1, <1>2, <1>3, <2>5 DEF MaySpend, At
    <3>2. Cardinality(MaySpend(q, h) \ {b}) = Cardinality(MaySpend(q, h)) - 1
      BY <2>2, <3>1, OneBroker
    <3>3. Cardinality(MaySpend(q, h)') =< Cardinality(MaySpend(q, h) \ {b})
      <4>1. /\ MaySpend(q, h)' \in SUBSET (MaySpend(q, h) \ {b})
            /\ MaySpend(q, h) \ {b} \in SUBSET Brokers
        BY <2>2, <2>3, <3>1
      <4> QED
        BY <4>1, FewerBrokers
    <3>4. spends'[q][h] = spends[q][h] + 1
      BY <1>3, <2>5
    <3> QED
      BY <2>1, <2>4, <3>2, <3>3, <3>4
  <2>6. CASE ~(q = p /\ h = g)
    <3>1. spends'[q][h] = spends[q][h]
      BY <1>3, <2>6
    <3> QED
      BY <2>1, <2>4, <3>1
  <2> QED
    BY <2>5, <2>6
<1> QED
  BY <1>4, <1>5, <1>6, <1>8, <1>9 DEF IInv

LEMMA BackendReturnsInv ==
  ASSUME IInv, NEW b \in Brokers, BackendReturns(b)
  PROVE  IInv'
<1> USE DEF BackendReturns, GoTo, At, history
<1>1. /\ \A c \in Brokers : c # b => job'[c] = job[c]
      /\ job'[b].stage = "idle"
  BY DEF IInv, TypeOK, Job
<1>2. TypeOK'
  BY DEF IInv, TypeOK, Job, Stage
<1>3. GrantsGiven'
  BY DEF IInv, GrantsGiven
<1>4. TransactionAlone'
  BY <1>1 DEF IInv, TransactionAlone
<1>5. UnusedWasRevived' /\ SecondConsumeNeedsStaleSave'
  BY DEF IInv, UnusedWasRevived, SecondConsumeNeedsStaleSave
<1>6. SpendersUsedUp'
  BY <1>1, NoMoreSpenders DEF IInv, MaySpend
<1> QED
  BY <1>2, <1>3, <1>4, <1>5, <1>6 DEF IInv

\* An approval taken back is in the memory of its broker no more.
LEMMA BusyTimeoutInv ==
  ASSUME IInv, NEW b \in Brokers, BusyTimeout(b)
  PROVE  IInv'
<1> DEFINE p == job[b].pid
           m == [mem[b] EXCEPT !.pending = @ \cup {p}, !.approvals[p] = NoApproval]
<1>1. p \in Pids
  BY DEF IInv, TypeOK, Job
<1>2. m \in State /\ \A q \in Pids : m.approvals[q] \in {NoApproval, mem[b].approvals[q]}
  BY <1>1 DEF IInv, TypeOK, State
<1>3. mem' = [mem EXCEPT ![b] = m] \/ mem' = mem
  BY DEF IInv, TypeOK, BusyTimeout
<1> HIDE DEF m
<1>4. /\ mem' \in [Brokers -> State]
      /\ \A c \in Brokers : c # b => mem'[c] = mem[c] /\ job'[c] = job[c]
      /\ \A q \in Pids : mem'[b].approvals[q] \in {NoApproval, mem[b].approvals[q]}
      /\ job'[b].stage = "idle"
  <2>1. job'[b].stage = "idle" /\ \A c \in Brokers : c # b => job'[c] = job[c]
    BY DEF IInv, TypeOK, BusyTimeout, GoTo, Job
  <2>2. mem \in [Brokers -> State]
    BY DEF IInv, TypeOK
  <2> QED
    BY <1>2, <1>3, <2>1, <2>2
<1>5. UNCHANGED <<disk, writer, proposed, grants, spends, revived, crashes>>
  BY DEF BusyTimeout, history
<1>6. TypeOK'
  <2>1. job' \in [Brokers -> Job]
    BY DEF IInv, TypeOK, BusyTimeout, GoTo, Job, Stage
  <2> QED
    BY <1>4, <1>5, <2>1 DEF IInv, TypeOK
<1>7. GrantsGiven'
  BY <1>4, <1>5 DEF IInv, GrantsGiven
<1>8. TransactionAlone'
  BY <1>4, <1>5 DEF IInv, TransactionAlone, At
<1>9. UnusedWasRevived' /\ SecondConsumeNeedsStaleSave'
  BY <1>5 DEF IInv, UnusedWasRevived, SecondConsumeNeedsStaleSave
<1>10. SpendersUsedUp'
  <2>1. \A q \in Pids, h \in Grant : MaySpend(q, h)' \subseteq MaySpend(q, h)
    <3>1. \A h \in Grant : Unused(h) # NoApproval
      BY RecordIsRecord DEF Unused
    <3> QED
      BY <1>4, <3>1 DEF MaySpend, At
  <2> QED
    BY <1>5, <2>1, NoMoreSpenders DEF IInv
<1> QED
  BY <1>6, <1>7, <1>8, <1>9, <1>10 DEF IInv

\* The process after a crash is one more that may spend.
LEMMA CrashInv ==
  ASSUME IInv, NEW b \in Brokers, Crash(b)
  PROVE  IInv'
<1> DEFINE m == [pending |-> disk.pending, approvals |-> [p \in Pids |-> NoApproval]]
<1>1. m \in State /\ \A q \in Pids : m.approvals[q] = NoApproval
  BY DEF IInv, TypeOK, State
<1>2. mem' = [mem EXCEPT ![b] = m]
  BY DEF Crash
<1> HIDE DEF m
<1>3. /\ \A c \in Brokers : c # b => mem'[c] = mem[c] /\ job'[c] = job[c]
      /\ mem'[b] = m
      /\ job'[b].stage = "load"
  BY <1>2 DEF IInv, TypeOK, Crash, Job
<1>4. TypeOK'
  <2>1. mem' \in [Brokers -> State]
    BY <1>1, <1>2 DEF IInv, TypeOK
  <2>2. job' \in [Brokers -> Job]
    BY DEF IInv, TypeOK, Crash, Job, Stage, Kind
  <2>3. crashes' \in 0..MaxCrashes
    BY ConstantsAssumption DEF IInv, TypeOK, Crash
  <2> QED
    BY <2>1, <2>2, <2>3 DEF IInv, TypeOK, Crash
<1>5. GrantsGiven'
  BY <1>1, <1>3 DEF IInv, GrantsGiven, Crash
<1>6. TransactionAlone'
  <2> SUFFICES ASSUME NEW c \in Brokers, job'[c].stage \in {"consume", "commit"}
               PROVE  /\ mem'[c].approvals[job'[c].pid] # NoApproval
                      /\ ~mem'[c].approvals[job'[c].pid].used
                      /\ At(c, "commit")' =>
                           /\ writer' = c
                           /\ disk'.approvals[job'[c].pid] = mem'[c].approvals[job'[c].pid]
    BY DEF TransactionAlone, At
  <2>1. c # b /\ mem'[c] = mem[c] /\ job'[c] = job[c]
    BY <1>3
  <2>2. disk' = disk /\ (writer = c => writer' = c)
    BY <2>1 DEF Crash
  <2> QED
    BY <2>1, <2>2 DEF IInv, TransactionAlone, At
<1>7. UnusedWasRevived' /\ SecondConsumeNeedsStaleSave'
  BY DEF IInv, UnusedWasRevived, SecondConsumeNeedsStaleSave, Crash
<1>8. SpendersUsedUp'
  <2> SUFFICES ASSUME NEW q \in Pids, NEW h \in Grant
               PROVE  spends'[q][h] + Cardinality(MaySpend(q, h)') =< Cardinality(Brokers) + crashes'
    BY DEF SpendersUsedUp
  <2>1. /\ spends[q][h] + Cardinality(MaySpend(q, h)) =< Cardinality(Brokers) + crashes
        /\ spends[q][h] \in Nat /\ crashes \in Nat
        /\ spends' = spends /\ crashes' = crashes + 1
    BY DEF IInv, TypeOK, SpendersUsedUp, Crash
  <2>2. /\ MaySpend(q, h) \in SUBSET Brokers
        /\ MaySpend(q, h) \cup {b} \in SUBSET Brokers
        /\ MaySpend(q, h)' \in SUBSET (MaySpend(q, h) \cup {b})
    BY <1>3 DEF MaySpend, At
  <2>3. Cardinality(MaySpend(q, h) \cup {b}) =< Cardinality(MaySpend(q, h)) + 1
    BY <2>2, OneBroker
  <2>4. /\ Cardinality(MaySpend(q, h)') =< Cardinality(MaySpend(q, h) \cup {b})
        /\ Cardinality(MaySpend(q, h)') \in Nat
        /\ Cardinality(MaySpend(q, h) \cup {b}) \in Nat
    BY <2>2, FewerBrokers
  <2>5. Cardinality(MaySpend(q, h)) \in Nat /\ Cardinality(Brokers) \in Nat
    BY <2>2, FewerBrokers
  <2> QED
    BY <2>1, <2>3, <2>4, <2>5
<1> QED
  BY <1>4, <1>5, <1>6, <1>7, <1>8 DEF IInv

LEMMA LoadApprovalsInv ==
  ASSUME IInv, NEW b \in Brokers, LoadApprovals(b)
  PROVE  IInv'
<1> DEFINE m == [mem[b] EXCEPT !.approvals = disk.approvals]
<1>1. m \in State /\ m.approvals = disk.approvals
  BY DEF IInv, TypeOK, State
<1>2. mem' = [mem EXCEPT ![b] = m]
  BY DEF IInv, TypeOK, LoadApprovals
<1> HIDE DEF m
<1>3. /\ \A c \in Brokers : c # b => mem'[c] = mem[c] /\ job'[c] = job[c]
      /\ mem'[b] = m
      /\ job[b].stage = "load" /\ job'[b].stage = "idle"
  BY <1>2 DEF IInv, TypeOK, LoadApprovals, GoTo, At
<1>4. UNCHANGED <<disk, writer, proposed, grants, spends, revived, crashes>>
  BY DEF LoadApprovals, history
<1>5. TypeOK'
  <2>1. mem' \in [Brokers -> State]
    BY <1>1, <1>2 DEF IInv, TypeOK
  <2>2. job' \in [Brokers -> Job]
    BY DEF IInv, TypeOK, LoadApprovals, GoTo, Job, Stage
  <2> QED
    BY <1>4, <2>1, <2>2 DEF IInv, TypeOK
<1>6. GrantsGiven'
  BY <1>1, <1>3, <1>4 DEF IInv, GrantsGiven
<1>7. TransactionAlone'
  BY <1>3, <1>4 DEF IInv, TransactionAlone, At
<1>8. UnusedWasRevived' /\ SecondConsumeNeedsStaleSave'
  BY <1>4 DEF IInv, UnusedWasRevived, SecondConsumeNeedsStaleSave
<1>9. SpendersUsedUp'
  <2>1. \A q \in Pids, h \in Grant : MaySpend(q, h)' \subseteq MaySpend(q, h)
    BY <1>3 DEF MaySpend, At
  <2> QED
    BY <1>4, <2>1, NoMoreSpenders DEF IInv
<1> QED
  BY <1>5, <1>6, <1>7, <1>8, <1>9 DEF IInv

LEMMA NextInv == IInv /\ [Next]_vars => IInv'
<1> SUFFICES ASSUME IInv, [Next]_vars PROVE IInv'
  OBVIOUS
<1>1. ASSUME NEW b \in Brokers, NEW p \in Pids, Propose(b, p) \/ Approve(b, p) \/ Execute(b, p)
      PROVE  IInv'
  BY <1>1, ProposeInv, ApproveInv, ExecuteInv
<1>2. ASSUME NEW b \in Brokers, SavePending(b) \/ SaveApprovals(b) \/ BeginImmediate(b) \/ Commit(b)
      PROVE  IInv'
  BY <1>2, SavePendingInv, SaveApprovalsInv, BeginImmediateInv, CommitInv
<1>3. ASSUME NEW b \in Brokers, BackendReturns(b) \/ BusyTimeout(b) \/ LoadApprovals(b) \/ Crash(b)
      PROVE  IInv'
  BY <1>3, BackendReturnsInv, BusyTimeoutInv, LoadApprovalsInv, CrashInv
<1>4. CASE UNCHANGED vars
  BY <1>4 DEF vars, history, IInv, TypeOK, GrantsGiven, TransactionAlone, UnusedWasRevived,
              SecondConsumeNeedsStaleSave, SpendersUsedUp, MaySpend, At
<1> QED
  BY <1>1, <1>2, <1>3, <1>4 DEF Next, Serve

-----------------------------------------------------------------------------
(***************************************************************************)
(* Theorems.                                                               *)
(***************************************************************************)

\* In every reachable state the tables, the brokers' memories and the counts of
\* consumptions are related as IInv says.
THEOREM InductiveInvariant == Spec => []IInv
BY InitInv, NextInv, PTL DEF Spec

\* Every variable of every broker always has its type.
THEOREM TypeCorrect == Spec => []TypeOK
<1>1. IInv => TypeOK
  BY DEF IInv
<1> QED
  BY <1>1, InductiveInvariant, PTL

\* However many brokers share the database, an approval is consumed again
\* only after a stale save made it unused: two transactions of
\* consume_approval_for_execution never both find it unused.
THEOREM StaleSaveTheorem == Spec => []SecondConsumeNeedsStaleSave
<1>1. IInv => SecondConsumeNeedsStaleSave
  BY DEF IInv
<1> QED
  BY <1>1, InductiveInvariant, PTL

\* Stale saves or not, each process consumes an approval at most once: there
\* are no more consumptions than processes that ever ran.
THEOREM OncePerProcessTheorem == Spec => []OncePerProcess
<1>1. IInv => OncePerProcess
  <2> SUFFICES ASSUME IInv, NEW p \in Pids, NEW g \in Grant
               PROVE  spends[p][g] =< Cardinality(Brokers) + crashes
    BY DEF OncePerProcess
  <2>1. MaySpend(p, g) \in SUBSET Brokers
    BY DEF MaySpend
  <2>2. Cardinality(MaySpend(p, g)) \in Nat /\ Cardinality(Brokers) \in Nat
    BY <2>1, FewerBrokers
  <2> QED
    BY <2>2 DEF IInv, TypeOK, SpendersUsedUp
<1> QED
  BY <1>1, InductiveInvariant, PTL
-----------------------------------------------------------------------------
(***************************************************************************)
(* Where no broker saves over what another did, an approval is consumed    *)
(* once: with one broker, or with brokers that only execute.               *)
(***************************************************************************)
OneBrokerOnly == \E b : Brokers = {b}

\* A spent approval is used in the table and, if there is only one broker, in
\* its memory.
SpentIsUsed ==
  \A p \in Pids, g \in Grant : spends[p][g] > 0 =>
    /\ spends[p][g] = 1
    /\ disk.approvals[p] # Unused(g)
    /\ OneBrokerOnly => \A b \in Brokers : mem[b].approvals[p] # Unused(g)

\* Brokers that take neither proposals nor approvals save nothing.
NothingSaved ==
  Writers = {} => \A b \in Brokers : job[b].stage \notin {"save pending", "save approvals"}

\* A step that spends nothing and after which only those hold a spent approval
\* unused that could take it from one who did.
LEMMA NothingRevived ==
  ASSUME SpentIsUsed, spends' = spends,
         \A q \in Pids, h \in Grant : spends[q][h] > 0 =>
           /\ disk'.approvals[q] = Unused(h) =>
                \/ disk.approvals[q] = Unused(h)
                \/ OneBrokerOnly /\ \E c \in Brokers : mem[c].approvals[q] = Unused(h)
           /\ \A c \in Brokers : mem'[c].approvals[q] = Unused(h) =>
                \/ disk.approvals[q] = Unused(h)
                \/ mem[c].approvals[q] = Unused(h)
  PROVE  SpentIsUsed'
<1> SUFFICES ASSUME NEW q \in Pids, NEW h \in Grant, spends[q][h] > 0
             PROVE  /\ spends[q][h] = 1
                    /\ disk'.approvals[q] # Unused(h)
                    /\ OneBrokerOnly => \A c \in Brokers : mem'[c].approvals[q] # Unused(h)
  BY DEF SpentIsUsed
<1>1. /\ spends[q][h] = 1 /\ disk.approvals[q] # Unused(h)
      /\ OneBrokerOnly => \A c \in Brokers : mem[c].approvals[q] # Unused(h)
  BY DEF SpentIsUsed
<1> QED
  BY <1>1

LEMMA AloneNext ==
  ASSUME OneBrokerOnly \/ Writers = {}, IInv, SpentIsUsed, NothingSaved, [Next]_vars
  PROVE  SpentIsUsed' /\ NothingSaved'
<1>1. ASSUME NEW b \in Brokers, Commit(b)
      PROVE  SpentIsUsed' /\ NothingSaved'
  <2>1. PICK p \in Pids, g \in Grant, m \in State, d \in State :
          /\ writer = b /\ mem[b].approvals[p] = Unused(g) /\ disk.approvals[p] = Unused(g)
          /\ mem' = [mem EXCEPT ![b] = m] /\ disk' = d
          /\ \A q \in Pids :
               /\ m.approvals[q] = IF q = p THEN Used(g) ELSE mem[b].approvals[q]
               /\ d.approvals[q] = IF q = p THEN Used(g) ELSE disk.approvals[q]
          /\ job' = [job EXCEPT ![b].stage = "backend"]
          /\ writer' = NoBroker
          /\ spends' = [spends EXCEPT ![p] = [spends[p] EXCEPT ![g] = spends[p][g] + 1]]
          /\ UNCHANGED <<proposed, grants, revived, crashes>>
    BY <1>1, CommitStep
  <2>2. /\ \A c \in Brokers : mem'[c] = IF c = b THEN m ELSE mem[c]
        /\ \A c \in Brokers : c # b => job'[c] = job[c]
        /\ job'[b].stage = "backend"
        /\ \A q \in Pids, h \in Grant :
             /\ spends[q][h] \in Nat
             /\ spends'[q][h] = IF q = p /\ h = g THEN spends[q][h] + 1 ELSE spends[q][h]
    BY <2>1 DEF IInv, TypeOK, Job
  <2>3. spends[p][g] = 0
    BY <2>1, <2>2 DEF SpentIsUsed
  <2>4. \A h : Used(g) # Unused(h)
    BY DEF Used, Unused
  <2>5. SpentIsUsed'
    <3> SUFFICES ASSUME NEW q \in Pids, NEW h \in Grant, spends'[q][h] > 0
                 PROVE  /\ spends'[q][h] = 1
                        /\ disk'.approvals[q] # Unused(h)
                        /\ OneBrokerOnly => \A c \in Brokers : mem'[c].approvals[q] # Unused(h)
      BY DEF SpentIsUsed
    <3>1. CASE q = p /\ h = g
      <4>1. OneBrokerOnly => \A c \in Brokers : c = b
        BY DEF OneBrokerOnly
      <4> QED
        BY <2>1, <2>2, <2>3, <2>4, <3>1, <4>1
    <3>2. CASE ~(q = p /\ h = g)
      <4>1. spends'[q][h] = spends[q][h]
        BY <2>2, <3>2
      <4>2. /\ spends[q][h] = 1 /\ disk.approvals[q] # Unused(h)
            /\ OneBrokerOnly => \A c \in Brokers : mem[c].approvals[q] # Unused(h)
        BY <4>1 DEF SpentIsUsed
      <4> QED
        BY <2>1, <2>2, <2>4, <4>1, <4>2
    <3> QED
      BY <3>1, <3>2
  <2> QED
    BY <2>2, <2>5 DEF NothingSaved
<1>2. ASSUME NEW b \in Brokers, NEW p \in Pids, Approve(b, p)
      PROVE  SpentIsUsed' /\ NothingSaved'
  <2>1. b \in Writers
    BY <1>2 DEF Approve
  <2>2. UNCHANGED <<disk, spends>>
    BY <1>2 DEF Approve
  <2>3. grants[p] \in Nat
    BY DEF IInv, TypeOK
  <2>4. \A c \in Brokers, q \in Pids :
          \/ mem'[c].approvals[q] = mem[c].approvals[q]
          \/ q = p /\ mem'[c].approvals[q] = Unused(grants[p] + 1)
    <3>1. mem \in [Brokers -> State]
      BY DEF IInv, TypeOK
    <3>2. \A c \in Brokers : c # b => mem'[c] = mem[c]
      BY <1>2, <3>1 DEF Approve
    <3>3. mem'[b].approvals = [mem[b].approvals EXCEPT ![p] = Unused(grants[p] + 1)]
      BY <1>2, <3>1 DEF Approve, State, Unused
    <3>4. mem[b].approvals \in [Pids -> Approval \cup {NoApproval}]
      BY <3>1 DEF State
    <3> QED
      BY <3>2, <3>3, <3>4
  <2>5. \A h \in Grant : spends[p][h] > 0 => Unused(h) # Unused(grants[p] + 1)
    BY <2>3 DEF IInv, GrantsGiven, Grant, Unused
  <2>6. SpentIsUsed'
    BY <2>2, <2>4, <2>5, NothingRevived
  <2> QED
    BY <2>1, <2>6 DEF NothingSaved
<1>3. ASSUME NEW b \in Brokers, NEW p \in Pids, Propose(b, p)
      PROVE  SpentIsUsed' /\ NothingSaved'
  <2>1. b \in Writers /\ UNCHANGED <<disk, spends>>
    BY <1>3 DEF Propose
  <2>2. \A c \in Brokers : mem'[c].approvals = mem[c].approvals
    BY <1>3 DEF IInv, TypeOK, State, Propose
  <2>3. SpentIsUsed'
    BY <2>1, <2>2, NothingRevived
  <2> QED
    BY <2>1, <2>3 DEF NothingSaved
<1>4. ASSUME NEW b \in Brokers, SaveApprovals(b)
      PROVE  SpentIsUsed' /\ NothingSaved'
  <2>1. OneBrokerOnly /\ Writers # {}
    BY <1>4 DEF NothingSaved, SaveApprovals, At
  <2>2. disk'.approvals = mem[b].approvals /\ UNCHANGED <<mem, spends>>
    BY <1>4 DEF IInv, TypeOK, State, SaveApprovals
  <2>3. SpentIsUsed'
    BY <2>1, <2>2, NothingRevived
  <2> QED
    BY <2>1, <2>3 DEF NothingSaved
<1>5. ASSUME NEW b \in Brokers, SavePending(b)
      PROVE  SpentIsUsed' /\ NothingSaved'
  <2>1. Writers # {}
    BY <1>5 DEF NothingSaved, SavePending, At
  <2>2. disk'.approvals = disk.approvals /\ UNCHANGED <<mem, spends>>
    BY <1>5 DEF IInv, TypeOK, State, SavePending, history
  <2>3. SpentIsUsed'
    BY <2>2, NothingRevived
  <2> QED
    BY <2>1, <2>3 DEF NothingSaved
<1>6. ASSUME NEW b \in Brokers,
             \/ BeginImmediate(b) \/ BackendReturns(b) \/ BusyTimeout(b)
             \/ LoadApprovals(b) \/ Crash(b) \/ (\E p \in Pids : Execute(b, p))
      PROVE  SpentIsUsed' /\ NothingSaved'
  <2>1. UNCHANGED <<disk, spends>>
    BY <1>6 DEF BeginImmediate, BackendReturns, BusyTimeout, LoadApprovals, Crash, Execute, history
  <2>2. \A c \in Brokers, q \in Pids :
          mem'[c].approvals[q] \in {mem[c].approvals[q], disk.approvals[q], NoApproval}
    <3>1. CASE mem' = mem
      BY <3>1
    <3>2. CASE BusyTimeout(b)
      BY <3>2 DEF IInv, TypeOK, State, Job, BusyTimeout
    <3>3. CASE LoadApprovals(b)
      BY <3>3 DEF IInv, TypeOK, State, LoadApprovals
    <3>4. CASE Crash(b)
      BY <3>4 DEF IInv, TypeOK, State, Crash
    <3> QED
      BY <1>6, <3>1, <3>2, <3>3, <3>4 DEF BeginImmediate, BackendReturns, Execute, history
  <2>3. \A h \in Grant : Unused(h) # NoApproval
    BY RecordIsRecord DEF Unused
  <2>4. NothingSaved'
    <3>1. job \in [Brokers -> Job]
      BY DEF IInv, TypeOK
    <3>2. \A c \in Brokers : c # b => job'[c] = job[c]
      BY <1>6, <3>1 DEF BeginImmediate, BackendReturns, BusyTimeout, LoadApprovals, Crash, Execute,
                        Begin, GoTo
    <3>3. job'[b].stage \notin {"save pending", "save approvals"}
      <4>1. CASE BeginImmediate(b)
        BY <3>1, <4>1 DEF BeginImmediate, GoTo, Job
      <4>2. CASE BackendReturns(b) \/ BusyTimeout(b) \/ LoadApprovals(b)
        BY <3>1, <4>2 DEF BackendReturns, BusyTimeout, LoadApprovals, GoTo, Job
      <4>3. CASE Crash(b)
        BY <3>1, <4>3 DEF Crash, Job
      <4>4. CASE \E p \in Pids : Execute(b, p)
        BY <3>1, <4>4 DEF Execute, Begin, Job
      <4> QED
        BY <1>6, <4>1, <4>2, <4>3, <4>4
    <3> QED
      BY <3>2, <3>3 DEF NothingSaved
  <2>5. SpentIsUsed'
    BY <2>1, <2>2, <2>3, NothingRevived
  <2> QED
    BY <2>4, <2>5
<1>7. CASE UNCHANGED vars
  BY <1>7 DEF vars, history, SpentIsUsed, NothingSaved
<1> QED
  BY <1>1, <1>2, <1>3, <1>4, <1>5, <1>6, <1>7 DEF Next, Serve

\* Brokers never consume an approval twice if there is one of them, through all
\* its crashes, or if none of them takes proposals or approvals: then nobody
\* saves an outdated memory over a used row.
THEOREM ConsumedOnceTheorem ==
  ASSUME OneBrokerOnly \/ Writers = {}
  PROVE  Spec => []ConsumedOnce
<1>1. Init => SpentIsUsed /\ NothingSaved
  <2> SUFFICES ASSUME Init PROVE SpentIsUsed /\ NothingSaved
    OBVIOUS
  <2>1. \A p \in Pids, g \in Grant : spends[p][g] = 0
    BY DEF Init
  <2>2. \A b \in Brokers : job[b].stage = "idle"
    BY DEF Init
  <2>3. \A p \in Pids, g \in Grant : ~(spends[p][g] > 0)
    BY <2>1
  <2>4. SpentIsUsed
    BY <2>3 DEF SpentIsUsed
  <2>5. NothingSaved
    BY <2>2 DEF NothingSaved
  <2> QED
    BY <2>4, <2>5
<1>2. IInv /\ SpentIsUsed /\ NothingSaved /\ [Next]_vars => SpentIsUsed' /\ NothingSaved'
  BY AloneNext
<1>3. IInv /\ SpentIsUsed => ConsumedOnce
  BY DEF IInv, TypeOK, SpentIsUsed, ConsumedOnce
<1> QED
  BY <1>1, <1>2, <1>3, InductiveInvariant, PTL DEF Spec
==============================================================================
