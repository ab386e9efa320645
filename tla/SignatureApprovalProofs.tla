----------------------- MODULE SignatureApprovalProofs -----------------------
(***************************************************************************)
(* Theorems about SignatureApproval, for every value of its constants in   *)
(* which an approval is valid for 900 seconds (three windows) or more.     *)
(***************************************************************************)
EXTENDS SignatureApproval, TLAPS

-----------------------------------------------------------------------------
\* The signature of n is acceptable no more.
Late(n) == now > signed[n].window + 2

\* s knows that n was used as long as that matters.
Remembers(s, n) == s.nonces[n] # NeverUsed \/ Late(n)

\* A nonce is not used long before its window.
UsedInTime(s) ==
  \A n \in Nonces : s.nonces[n] # NeverUsed => signed[n].window <= s.nonces[n] + 2

IInv ==
  /\ Expiry >= 3
  /\ signed \in [Nonces -> Signature]
  /\ TypeOK
  /\ UsedInTime(mem)
  /\ UsedInTime(disk)
  /\ \A n \in acked : Remembers(mem, n) /\ Remembers(disk, n)
  /\ "crash" \notin faults =>
       \A n \in Nonces : accepts[n] <= 1 /\ (accepts[n] > 0 => Remembers(mem, n))

-----------------------------------------------------------------------------
(***************************************************************************)
(* Lemmas about saving and pruning.                                        *)
(***************************************************************************)

\* A save takes the nonces from memory or leaves the table.
LEMMA SaveTablesType ==
  ASSUME NEW m \in State, NEW d \in State, NEW k \in Tables
  PROVE  /\ SaveTables(m, d, k) \in State
         /\ SaveTables(m, d, k).nonces \in {m.nonces, d.nonces}
         /\ Saved(k) => SaveTables(m, d, k).nonces = m.nonces
BY DEF SaveTables, Saved, Tables, State

\* Pruning yields a state, and forgets a nonce only when it is late: the horizon
\* is longer than the signature of a nonce used in time is acceptable.
LEMMA PrunedType ==
  ASSUME NEW s \in State, Expiry >= 3, now \in 0..MaxTime,
         signed \in [Nonces -> Signature], UsedInTime(s)
  PROVE  /\ Pruned(s) \in State
         /\ UsedInTime(Pruned(s))
         /\ Pruned(s).pending = s.pending
         /\ Pruned(s).approvals = s.approvals
         /\ \A n \in Nonces : Remembers(s, n) => Remembers(Pruned(s), n)
<1> DEFINE f == [n \in Nonces |->
                   IF s.nonces[n] # NeverUsed /\ now - s.nonces[n] > Horizon
                   THEN NeverUsed ELSE s.nonces[n]]
<1>1. s.nonces \in [Nonces -> 0..MaxTime \cup {NeverUsed}]
  BY DEF State
<1>2. f \in [Nonces -> 0..MaxTime \cup {NeverUsed}]
  BY <1>1
<1>3. Pruned(s) = [s EXCEPT !.nonces = f]
  BY DEF Pruned
<1>4. ASSUME NEW n \in Nonces, s.nonces[n] # NeverUsed, f[n] = NeverUsed
      PROVE  Late(n)
  <2>1. s.nonces[n] \in Int /\ signed[n].window \in Int /\ now \in Int
        /\ Expiry \in Int
    BY <1>1, <1>4, ConstantsAssumption DEF Signature
  <2>2. now - s.nonces[n] > Expiry + 1
    BY <1>4 DEF Horizon
  <2>3. signed[n].window <= s.nonces[n] + 2
    BY <1>4 DEF UsedInTime
  <2> QED
    BY <2>1, <2>2, <2>3 DEF Late
<1>5. \A n \in Nonces : f[n] # NeverUsed => f[n] = s.nonces[n]
  OBVIOUS
<1> HIDE DEF f
<1>6. /\ Pruned(s) \in State /\ Pruned(s).nonces = f
      /\ Pruned(s).pending = s.pending /\ Pruned(s).approvals = s.approvals
  BY <1>2, <1>3 DEF State
<1>7. UsedInTime(Pruned(s))
  BY <1>5, <1>6 DEF UsedInTime
<1>8. \A n \in Nonces : Remembers(s, n) => Remembers(Pruned(s), n)
  BY <1>4, <1>6 DEF Remembers
<1> QED
  BY <1>6, <1>7, <1>8

\* What a restart leaves.
LEMMA RestartType ==
  ASSUME NEW d \in State, Expiry >= 3, now \in 0..MaxTime,
         signed \in [Nonces -> Signature], UsedInTime(d), RestartFrom(d)
  PROVE  /\ "crash" \in faults
         /\ mem' \in State /\ disk' = mem'
         /\ keyring' \in [Keys -> KeyStatus]
         /\ mem' = Pruned(d)
         /\ \A n \in Nonces :
              /\ mem'.nonces[n] # NeverUsed => signed[n].window <= mem'.nonces[n] + 2
              /\ Remembers(d, n) => mem'.nonces[n] # NeverUsed \/ Late(n)
<1>1. mem' = Pruned(d) /\ disk' = Pruned(d)
  BY DEF RestartFrom
<1> QED
  BY <1>1, PrunedType DEF RestartFrom, UsedInTime, Remembers

\* A step keeps what IInv says of nonces if those of memory and of the table are
\* forgotten by pruning only.
LEMMA NoncesKept ==
  ASSUME IInv, TypeOK',
         UNCHANGED <<faults, signed, now, accepts>>, acked' \subseteq acked,
         \A n \in Nonces :
           /\ mem'.nonces[n] # NeverUsed => signed[n].window <= mem'.nonces[n] + 2
           /\ disk'.nonces[n] # NeverUsed => signed[n].window <= disk'.nonces[n] + 2
           /\ Remembers(mem, n) /\ Remembers(disk, n) =>
                /\ mem'.nonces[n] # NeverUsed \/ Late(n)
                /\ disk'.nonces[n] # NeverUsed \/ Late(n)
           /\ "crash" \notin faults /\ Remembers(mem, n) => mem'.nonces[n] # NeverUsed \/ Late(n)
  PROVE  IInv'
<1>1. UsedInTime(mem)' /\ UsedInTime(disk)'
  BY DEF UsedInTime
<1>2. \A n \in Nonces : Late(n)' <=> Late(n)
  BY DEF Late
<1>3. acked' \subseteq Nonces
  BY DEF TypeOK
<1>4. \A n \in acked' : Remembers(mem, n)' /\ Remembers(disk, n)'
  BY <1>2, <1>3 DEF IInv, Remembers
<1>5. "crash" \notin faults' =>
        \A n \in Nonces : accepts'[n] <= 1 /\ (accepts'[n] > 0 => Remembers(mem, n)')
  BY <1>2 DEF IInv, Remembers
<1> QED
  BY <1>1, <1>4, <1>5 DEF IInv

\* What NoncesKept asks of a step.
Kept(n) ==
  /\ mem'.nonces[n] # NeverUsed => signed[n].window <= mem'.nonces[n] + 2
  /\ disk'.nonces[n] # NeverUsed => signed[n].window <= disk'.nonces[n] + 2
  /\ Remembers(mem, n) /\ Remembers(disk, n) =>
       /\ mem'.nonces[n] # NeverUsed \/ Late(n)
       /\ disk'.nonces[n] # NeverUsed \/ Late(n)
  /\ "crash" \notin faults /\ Remembers(mem, n) => mem'.nonces[n] # NeverUsed \/ Late(n)

\* A restart from tables with nonces of memory or of the tables keeps them.
LEMMA RestartKeeps ==
  ASSUME IInv, NEW d \in State, d.nonces \in {mem.nonces, disk.nonces}, RestartFrom(d)
  PROVE  /\ mem' \in State /\ disk' \in State /\ keyring' \in [Keys -> KeyStatus]
         /\ \A n \in Nonces : Kept(n)
<1>1. UsedInTime(d)
  BY DEF IInv, UsedInTime
<1>2. \A n \in Nonces : Remembers(mem, n) /\ Remembers(disk, n) => Remembers(d, n)
  BY DEF Remembers
<1> QED
  BY <1>1, <1>2, RestartType DEF IInv, TypeOK, Kept

\* What a save of memory m leaves when it uses no nonce.
LEMMA SavedStep ==
  ASSUME IInv, NEW m \in State, m.nonces = mem.nonces, NEW k \in Tables,
         \/ /\ disk' = SaveTables(m, disk, k) /\ mem' \in State
            /\ mem'.nonces = mem.nonces /\ keyring' = keyring
         \/ RestartFrom(SaveTables(m, disk, k))
  PROVE  /\ mem' \in State /\ disk' \in State /\ keyring' \in [Keys -> KeyStatus]
         /\ \A n \in Nonces : Kept(n)
<1> DEFINE d == SaveTables(m, disk, k)
<1>1. d \in State /\ d.nonces \in {mem.nonces, disk.nonces}
  BY SaveTablesType DEF IInv, TypeOK
<1> HIDE DEF d
<1>2. CASE disk' = d /\ mem' \in State /\ mem'.nonces = mem.nonces /\ keyring' = keyring
  BY <1>1, <1>2 DEF Kept, IInv, TypeOK, UsedInTime, Remembers
<1>3. CASE RestartFrom(d)
  BY <1>1, <1>3, RestartKeeps
<1> QED
  BY <1>2, <1>3 DEF d

\* propose_action uses no nonce.
LEMMA ProposeInv ==
  ASSUME IInv, UNCHANGED <<faults, signed>>, NEW p \in Pids, Propose(p) PROVE IInv'
<1> DEFINE m == [mem EXCEPT !.pending = @ \cup {p}]
<1>1. m \in State /\ m.nonces = mem.nonces
  BY DEF IInv, TypeOK, State
<1>2. UNCHANGED <<now, accepts, acked, spends>> /\ proposed' = proposed \cup {p}
  BY DEF Propose
<1>3. PICK k \in Tables :
        \/ disk' = SaveTables(m, disk, k) /\ mem' = m /\ keyring' = keyring
        \/ RestartFrom(SaveTables(m, disk, k))
  BY DEF Propose
<1> HIDE DEF m
<1>4. /\ mem' \in State /\ disk' \in State /\ keyring' \in [Keys -> KeyStatus]
      /\ \A n \in Nonces : Kept(n)
  BY <1>1, <1>3, SavedStep
<1>5. TypeOK'
  BY <1>2, <1>4 DEF IInv, TypeOK
<1> QED
  BY <1>2, <1>4, <1>5, NoncesKept DEF Kept

\* Nor does reset_lockdown.
LEMMA ResetLockdownInv ==
  ASSUME IInv, UNCHANGED <<faults, signed>>, ResetLockdown PROVE IInv'
<1>1. UNCHANGED <<now, accepts, acked, spends, proposed>>
  BY DEF ResetLockdown, history
<1>2. PICK k \in Tables :
        \/ disk' = SaveTables(mem, disk, k) /\ mem' = mem /\ keyring' = keyring
        \/ RestartFrom(SaveTables(mem, disk, k))
  BY DEF ResetLockdown
<1>3. /\ mem' \in State /\ disk' \in State /\ keyring' \in [Keys -> KeyStatus]
      /\ \A n \in Nonces : Kept(n)
  BY <1>2, SavedStep DEF IInv, TypeOK
<1>4. TypeOK'
  BY <1>1, <1>3 DEF IInv, TypeOK
<1> QED
  BY <1>1, <1>3, <1>4, NoncesKept DEF Kept

\* Nor does a restart between requests.
LEMMA CrashInv ==
  ASSUME IInv, UNCHANGED <<faults, signed>>, Crash PROVE IInv'
<1>1. UNCHANGED <<now, accepts, acked, spends, proposed>>
  BY DEF Crash, history
<1>2. /\ mem' \in State /\ disk' \in State /\ keyring' \in [Keys -> KeyStatus]
      /\ \A n \in Nonces : Kept(n)
  BY RestartKeeps DEF Crash, IInv, TypeOK
<1>3. TypeOK'
  BY <1>1, <1>2 DEF IInv, TypeOK
<1> QED
  BY <1>1, <1>2, <1>3, NoncesKept DEF Kept

\* A refused signature prunes the nonces in memory.
LEMMA ApproveRefusedInv ==
  ASSUME IInv, UNCHANGED <<faults, signed>>, NEW n \in Nonces, ApproveRefused(n) PROVE IInv'
<1>1. UNCHANGED <<now, keyring, disk, accepts, acked, spends, proposed>> /\ mem' = Pruned(mem)
  BY DEF ApproveRefused, history
<1>2. /\ mem' \in State /\ UsedInTime(Pruned(mem))
      /\ \A l \in Nonces : Remembers(mem, l) => Remembers(Pruned(mem), l)
  BY <1>1, PrunedType DEF IInv, TypeOK
<1>3. TypeOK'
  BY <1>1, <1>2 DEF IInv, TypeOK
<1>4. \A l \in Nonces : Kept(l)
  BY <1>1, <1>2 DEF Kept, UsedInTime, Remembers, IInv
<1> QED
  BY <1>1, <1>3, <1>4, NoncesKept DEF Kept

\* Executing touches approvals only.
LEMMA ExecuteInv ==
  ASSUME IInv, UNCHANGED <<faults, signed>>, NEW p \in Pids, Execute(p) PROVE IInv'
<1> DEFINE r == mem.approvals[p]
           d == [disk EXCEPT !.approvals[p].used = TRUE]
           m == [mem EXCEPT !.approvals[p].used = TRUE]
<1>1. /\ mem \in State /\ disk \in State /\ spends \in [Nonces -> Nat]
      /\ r \in Approval /\ disk.approvals[p] = r /\ r.nonce \in Nonces
  BY DEF IInv, TypeOK, State, Execute, Consumable, Approval
<1>2. [r EXCEPT !.used = TRUE] \in Approval
  BY <1>1 DEF Approval
<1>3. /\ d \in State /\ d.nonces = disk.nonces
      /\ m \in State /\ m.nonces = mem.nonces
  BY <1>1, <1>2 DEF State
<1>4. /\ UNCHANGED <<now, accepts, acked, proposed>>
      /\ spends' = [spends EXCEPT ![r.nonce] = @ + 1]
      /\ \/ disk' = d /\ mem' = m /\ keyring' = keyring
         \/ RestartFrom(d)
  BY DEF Execute
<1>5. spends' \in [Nonces -> Nat]
  BY <1>1, <1>4
<1> HIDE DEF r, d, m
<1>6. /\ mem' \in State /\ disk' \in State /\ keyring' \in [Keys -> KeyStatus]
      /\ \A n \in Nonces : Kept(n)
  <2>1. CASE disk' = d /\ mem' = m /\ keyring' = keyring
    BY <1>3, <2>1 DEF Kept, IInv, TypeOK, UsedInTime, Remembers
  <2>2. CASE RestartFrom(d)
    BY <1>3, <2>2, RestartKeeps
  <2> QED
    BY <1>4, <2>1, <2>2
<1>7. TypeOK'
  BY <1>4, <1>5, <1>6 DEF IInv, TypeOK
<1> QED
  BY <1>4, <1>6, <1>7, NoncesKept DEF Kept

\* Time only makes signatures late.
LEMMA TickInv ==
  ASSUME IInv, UNCHANGED <<faults, signed>>, Tick \/ UNCHANGED vars PROVE IInv'
<1>1. /\ UNCHANGED <<mem, disk, keyring, accepts, acked, spends, proposed>>
      /\ now' \in 0..MaxTime /\ now \in Int /\ now' \in Int /\ now' >= now
  BY ConstantsAssumption DEF Tick, vars, history, IInv, TypeOK
<1>2. TypeOK'
  BY <1>1 DEF IInv, TypeOK
<1>3. ASSUME NEW n \in Nonces, Late(n) PROVE Late(n)'
  <2>1. signed[n].window \in Int
    BY DEF IInv, Signature
  <2> QED
    BY <1>1, <1>3, <2>1 DEF Late
<1>4. acked \subseteq Nonces
  BY DEF IInv, TypeOK
<1> QED
  BY <1>1, <1>2, <1>3, <1>4 DEF IInv, UsedInTime, Remembers

\* An accepted signature is current and unknown to the pruned nonces, so it was
\* not accepted before by this process, nor ever answered APPROVED.
LEMMA AcceptedIsFresh ==
  ASSUME IInv, NEW n \in Nonces, Acceptable(n, Pruned(mem))
  PROVE  /\ ~Late(n) /\ signed[n].window <= now + 2
         /\ ~Remembers(mem, n)
         /\ "crash" \notin faults => accepts[n] = 0
<1>1. signed[n].window \in Int /\ now \in Int /\ accepts[n] \in Nat
  BY ConstantsAssumption DEF IInv, TypeOK, Signature
<1>2. ~Late(n) /\ signed[n].window <= now + 2
  BY <1>1 DEF Acceptable, WindowCurrent, Late
<1>3. ~Remembers(Pruned(mem), n)
  BY <1>2 DEF Acceptable, Remembers
<1>4. ~Remembers(mem, n)
  BY <1>3, PrunedType DEF IInv, TypeOK
<1> QED
  BY <1>1, <1>2, <1>4 DEF IInv

\* approve_proposal uses the nonce of a fresh signature; memory keeps it through
\* the rollback, and the table has it when the answer is APPROVED.
LEMMA ApproveInv ==
  ASSUME IInv, UNCHANGED <<faults, signed>>, NEW n \in Nonces, Approve(n) PROVE IInv'
<1> DEFINE p      == signed[n].pid
           record == [nonce |-> n, number |-> accepts[n] + 1, expires |-> ExpiresAt, used |-> FALSE]
           N      == [Pruned(mem).nonces EXCEPT ![n] = now]
           m      == [Pruned(mem) EXCEPT !.pending = @ \ {p}, !.approvals[p] = record,
                                         !.nonces[n] = now]
           back   == [m EXCEPT !.pending = @ \cup {p}, !.approvals[p] = NoApproval]
<1>1. /\ signed \in [Nonces -> Signature] /\ Expiry >= 3 /\ now \in 0..MaxTime
      /\ mem \in State /\ disk \in State /\ UsedInTime(mem) /\ UsedInTime(disk)
      /\ accepts \in [Nonces -> 0..MaxAccepts] /\ acked \subseteq Nonces
      /\ keyring \in [Keys -> KeyStatus]
  BY DEF IInv, TypeOK
<1>2. p \in Pids /\ now \in Int /\ now # NeverUsed
  BY <1>1, ConstantsAssumption DEF Signature, NeverUsed
<1>3. /\ Pruned(mem) \in State /\ UsedInTime(Pruned(mem))
      /\ \A l \in Nonces : Remembers(mem, l) => Remembers(Pruned(mem), l)
  BY <1>1, PrunedType
<1>4. Acceptable(n, Pruned(mem)) /\ accepts[n] < MaxAccepts
  BY DEF Approve
<1>5. record \in Approval
  BY <1>1, <1>4, ConstantsAssumption DEF Approval, ExpiresAt
<1>6. /\ m \in State /\ m.nonces = N
  BY <1>1, <1>2, <1>3, <1>5 DEF State
<1>7. /\ UNCHANGED <<now, spends, proposed>>
      /\ accepts' = [accepts EXCEPT ![n] = accepts[n] + 1]
  BY DEF Approve
<1>8. PICK k \in Tables :
        \/ /\ Saved(k)
           /\ mem' = m /\ disk' = SaveTables(m, disk, k)
           /\ acked' = acked \cup {n} /\ UNCHANGED keyring
        \/ /\ mem' = back /\ disk' = SaveTables(m, disk, k)
           /\ UNCHANGED <<acked, keyring>>
        \/ /\ RestartFrom(SaveTables(m, disk, k))
           /\ UNCHANGED acked
  BY DEF Approve
<1> DEFINE d == SaveTables(m, disk, k)
<1> HIDE DEF m, record
<1>9. back \in State /\ back.nonces = N
  BY <1>2, <1>6 DEF State
<1> HIDE DEF back
<1>10. /\ d \in State /\ d.nonces \in {N, disk.nonces}
       /\ Saved(k) => d.nonces = N
  <2>1. m \in State /\ disk \in State /\ k \in Tables
    BY <1>1, <1>6
  <2>2. /\ d \in State /\ d.nonces \in {m.nonces, disk.nonces}
        /\ Saved(k) => d.nonces = m.nonces
    BY <2>1, SaveTablesType
  <2> QED
    BY <1>6, <2>2
<1> HIDE DEF d
<1>11. N \in [Nonces -> 0..MaxTime \cup {NeverUsed}] /\ N[n] = now
       /\ \A l \in Nonces : l # n => N[l] = Pruned(mem).nonces[l]
  BY <1>1, <1>3 DEF State
<1>12. \A l \in Nonces : N[l] # NeverUsed => signed[l].window <= N[l] + 2
  BY <1>3, <1>4, <1>11, AcceptedIsFresh DEF UsedInTime
<1>13. \A l \in Nonces : l = n \/ Remembers(mem, l) => N[l] # NeverUsed \/ Late(l)
  BY <1>2, <1>3, <1>11 DEF Remembers
<1> HIDE DEF N
<1>14. \A l \in Nonces : d.nonces[l] # NeverUsed => signed[l].window <= d.nonces[l] + 2
  BY <1>1, <1>10, <1>12 DEF UsedInTime
<1>15. \A l \in Nonces : Remembers(mem, l) /\ Remembers(disk, l) => Remembers(d, l)
  BY <1>10, <1>13 DEF Remembers
<1>16. UsedInTime(d)
  BY <1>14 DEF UsedInTime
<1>17. accepts' \in [Nonces -> 0..MaxAccepts]
  BY <1>1, <1>4, <1>7, ConstantsAssumption
<1>18. \A l \in Nonces : Late(l)' <=> Late(l)
  BY <1>7 DEF Late
<1>19. CASE RestartFrom(d) /\ UNCHANGED acked
  <2>1. /\ "crash" \in faults /\ mem' \in State /\ disk' = mem'
        /\ keyring' \in [Keys -> KeyStatus]
        /\ \A l \in Nonces :
             /\ mem'.nonces[l] # NeverUsed => signed[l].window <= mem'.nonces[l] + 2
             /\ Remembers(d, l) => mem'.nonces[l] # NeverUsed \/ Late(l)
    BY <1>1, <1>10, <1>16, <1>19, RestartType
  <2>2. TypeOK'
    BY <1>7, <1>17, <1>19, <2>1 DEF IInv, TypeOK
  <2>3. \A l \in acked : Remembers(mem, l)' /\ Remembers(disk, l)'
    BY <1>1, <1>15, <1>18, <2>1 DEF IInv, Remembers
  <2>4. UsedInTime(mem)' /\ UsedInTime(disk)'
    BY <2>1 DEF UsedInTime
  <2> QED
    BY <1>19, <2>1, <2>2, <2>3, <2>4 DEF IInv
<1>20. ASSUME mem' \in {m, back}, disk' = d, UNCHANGED keyring,
              UNCHANGED acked \/ (Saved(k) /\ acked' = acked \cup {n})
       PROVE  IInv'
  <2>1. mem' \in State /\ mem'.nonces = N
    BY <1>6, <1>9, <1>20
  <2>2. TypeOK'
    BY <1>1, <1>7, <1>10, <1>17, <1>20, <2>1 DEF IInv, TypeOK
  <2>3. UsedInTime(mem)' /\ UsedInTime(disk)'
    BY <1>12, <1>14, <1>20, <2>1 DEF UsedInTime
  <2>4. ASSUME NEW l \in acked' PROVE Remembers(mem, l)' /\ Remembers(disk, l)'
    <3>1. l \in Nonces
      BY <1>1, <1>20
    <3>2. N[l] # NeverUsed \/ Late(l)
      BY <1>1, <1>13, <1>20, <2>4, <3>1 DEF IInv
    <3>3. d.nonces[l] # NeverUsed \/ Late(l)
      <4>1. CASE l \in acked
        BY <4>1, <3>1, <1>15 DEF IInv, Remembers
      <4>2. CASE l \notin acked
        BY <4>2, <1>10, <1>20, <2>4, <3>2
      <4> QED
        BY <4>1, <4>2
    <3> QED
      BY <1>18, <1>20, <2>1, <3>1, <3>2, <3>3 DEF Remembers
  <2>5. ASSUME "crash" \notin faults, NEW l \in Nonces
        PROVE  accepts'[l] <= 1 /\ (accepts'[l] > 0 => Remembers(mem, l)')
    <3>1. CASE l = n
      <4>1. accepts'[l] = 1
        BY <1>1, <1>4, <1>7, <2>5, <3>1, AcceptedIsFresh
      <4> QED
        BY <4>1, <3>1, <1>13, <1>18, <2>1 DEF Remembers
    <3>2. CASE l # n
      <4>1. accepts'[l] = accepts[l]
        BY <1>1, <1>7, <3>2
      <4> QED
        BY <4>1, <2>5, <1>13, <1>18, <2>1 DEF IInv, Remembers
    <3> QED
      BY <3>1, <3>2
  <2> QED
    BY <1>1, <2>2, <2>3, <2>4, <2>5 DEF IInv
<1>21. \/ RestartFrom(d) /\ UNCHANGED acked
       \/ /\ mem' \in {m, back} /\ disk' = d /\ UNCHANGED keyring
          /\ UNCHANGED acked \/ (Saved(k) /\ acked' = acked \cup {n})
  BY <1>8 DEF d
<1> QED
  BY <1>19, <1>20, <1>21

\* No nonce is used at the start.
LEMMA InitInv == ASSUME Expiry >= 3 PROVE Init => IInv
<1> SUFFICES ASSUME Init PROVE IInv
  OBVIOUS
<1>1. mem \in State /\ disk = mem /\ \A n \in Nonces : mem.nonces[n] = NeverUsed
  BY DEF Init, State
<1>2. TypeOK
  BY <1>1, ConstantsAssumption DEF Init, TypeOK, KeyStatus
<1> QED
  BY <1>1, <1>2 DEF Init, IInv, UsedInTime

\* Every step keeps IInv.
LEMMA NextInv == IInv /\ [Next]_vars => IInv'
<1> SUFFICES ASSUME IInv, [Next]_vars PROVE IInv'
  OBVIOUS
<1>1. UNCHANGED <<faults, signed>>
  BY DEF Next, vars
<1>2. ASSUME NEW p \in Pids, Propose(p) PROVE IInv'
  BY <1>1, <1>2, ProposeInv
<1>3. ASSUME NEW p \in Pids, Execute(p) PROVE IInv'
  BY <1>1, <1>3, ExecuteInv
<1>4. ASSUME NEW n \in Nonces, Approve(n) PROVE IInv'
  BY <1>1, <1>4, ApproveInv
<1>5. ASSUME NEW n \in Nonces, ApproveRefused(n) PROVE IInv'
  BY <1>1, <1>5, ApproveRefusedInv
<1>6. CASE ResetLockdown
  BY <1>1, <1>6, ResetLockdownInv
<1>7. CASE Crash
  BY <1>1, <1>7, CrashInv
<1>8. CASE Tick \/ UNCHANGED vars
  BY <1>1, <1>8, TickInv
<1> QED
  BY <1>2, <1>3, <1>4, <1>5, <1>6, <1>7, <1>8 DEF Next

-----------------------------------------------------------------------------
(***************************************************************************)
(* The theorems.                                                           *)
(***************************************************************************)

\* IInv holds in every reachable state.
THEOREM InductiveInvariant == ASSUME Expiry >= 3 PROVE Spec => []IInv
<1>1. Init => IInv
  BY InitInv
<1>2. IInv /\ [Next]_vars => IInv'
  BY NextInv
<1> QED
  BY <1>1, <1>2, PTL DEF Spec

\* With an expiry of 900 seconds or more, a living process accepts no signature
\* twice, however often it is presented and whatever writes fail.
THEOREM ReplaysDenied == ASSUME Expiry >= 3 PROVE Spec => []ReplayDenied
<1>1. IInv => ReplayDenied
  BY DEF IInv, ReplayDenied
<1> QED
  BY <1>1, InductiveInvariant, PTL

\* With such an expiry the table knows the nonce of an acknowledged approval
\* until its signature is acceptable no more, also across restarts.
THEOREM AckedNoncesKept == ASSUME Expiry >= 3 PROVE Spec => []AckedNonceKept
<1>1. IInv => AckedNonceKept
  BY DEF IInv, AckedNonceKept, Remembers, Late, TypeOK
<1> QED
  BY <1>1, InductiveInvariant, PTL

-----------------------------------------------------------------------------
(***************************************************************************)
(* What an accepted signature leaves behind.                               *)
(***************************************************************************)

\* No process takes back in memory what its save wrote in part, and restarts.
Orderly == ~({"crash", "save"} \subseteq faults)

\* s holds an approval by signature n.
Names(s, n) == \E p \in Pids : s.approvals[p] # NoApproval /\ s.approvals[p].nonce = n

\* Signature n was accepted, and that had an effect.
Traced(n) == Names(mem, n) \/ Names(disk, n) \/ spends[n] > 0

\* The nonce of n is remembered where a process looks for it.
Known(n) == Remembers(mem, n) /\ ("crash" \in faults => Remembers(disk, n))

\* The proposal of n waits no more.
Gone(n) == "crash" \in faults /\ signed[n].pid \notin mem.pending \cup disk.pending

\* What waits was proposed; an approval is for the proposal that was signed.
SignedProposals ==
  /\ mem.pending \cup disk.pending \subseteq proposed
  /\ \A s \in {mem, disk}, p \in Pids :
       s.approvals[p] # NoApproval => signed[s.approvals[p].nonce].pid = p
  /\ \A n \in Nonces : Traced(n) => signed[n].pid \in proposed

\* A signature that had an effect is not accepted again.
TracedStaysOut == Orderly => \A n \in Nonces : Traced(n) => Known(n) \/ Gone(n)

\* No approval by a spent signature can be consumed.
SpentAreUsed ==
  Orderly =>
    \A n \in Nonces :
      spends[n] > 0 =>
        \A s \in {mem, disk}, p \in Pids :
          s.approvals[p] # NoApproval /\ s.approvals[p].nonce = n => s.approvals[p].used

\* The property of the runs, where it holds.
SpentOnce == Orderly => SignatureSpentOnce

\* The inductive invariant of accepted signatures.
SignatureInv ==
  /\ SignedProposals
  /\ TracedStaysOut
  /\ SpentAreUsed
  /\ SpentOnce

-----------------------------------------------------------------------------
(***************************************************************************)
(* The shapes of steps.                                                    *)
(***************************************************************************)

\* The nonces of known signatures stay known.
KnownStay == \A n \in Nonces : Known(n) => Known(n)'

\* The tables hold pending P or approvals A or what they held; memory holds P and
\* A or is read from the tables.
Moves(P, A) ==
  /\ disk'.pending \in {P, disk.pending}
  /\ disk'.approvals \in {A, disk.approvals}
  /\ \/ mem'.pending = P /\ mem'.approvals = A
     \/ mem'.pending = disk'.pending /\ mem'.approvals = disk'.approvals

\* Nothing is approved or spent; the proposals of Q, if any, are new.
Quiet(Q) ==
  /\ Q \cap proposed = {}
  /\ proposed' = proposed \cup Q
  /\ UNCHANGED spends
  /\ Moves(mem.pending \cup Q, mem.approvals)
  /\ KnownStay

\* The approval of p is consumed and becomes rec.
Executes(p, rec) ==
  LET r == mem.approvals[p]
  IN  /\ r # NoApproval /\ ~r.used
      /\ disk.approvals[p] = r
      /\ rec.nonce = r.nonce /\ rec.used
      /\ spends' = [spends EXCEPT ![r.nonce] = @ + 1]
      /\ UNCHANGED proposed
      /\ disk'.pending = disk.pending
      /\ disk'.approvals = [disk.approvals EXCEPT ![p] = rec]
      /\ \/ mem'.pending = mem.pending /\ mem'.approvals = [mem.approvals EXCEPT ![p] = rec]
         \/ mem'.pending = disk'.pending /\ mem'.approvals = disk'.approvals
      /\ KnownStay

\* Signature n, not known, is accepted and p approved under rec: the approval is
\* answered, or rolled back in memory, or cut short by a crash before the tables
\* show any of it or after pending is saved.
Approves(n, p, rec) ==
  LET P == mem.pending \ {p}
      A == [mem.approvals EXCEPT ![p] = rec]
  IN  /\ p = signed[n].pid /\ p \in mem.pending
      /\ ~Known(n)
      /\ rec.nonce = n
      /\ UNCHANGED <<spends, proposed>>
      /\ \A l \in Nonces : Known(l) => Known(l)'
      /\ \/ /\ mem'.pending = P /\ mem'.approvals = A
            /\ disk'.pending = P /\ disk'.approvals = A
            /\ Known(n)'
         \/ /\ mem'.pending = mem.pending
            /\ mem'.approvals = [mem.approvals EXCEPT ![p] = NoApproval]
            /\ disk'.pending \in {P, disk.pending} /\ disk'.approvals \in {A, disk.approvals}
            /\ Orderly => Known(n)'
         \/ /\ "crash" \in faults
            /\ mem'.pending = disk'.pending /\ mem'.approvals = disk'.approvals
            /\ \/ disk'.pending = disk.pending /\ disk'.approvals = disk.approvals
               \/ disk'.pending = P /\ disk'.approvals \in {A, disk.approvals}

\* A step with the nonces that Kept asks for keeps the known ones.
LEMMA KeptKnown ==
  ASSUME UNCHANGED <<faults, signed, now>>, \A n \in Nonces : Kept(n)
  PROVE  KnownStay
BY DEF Kept, KnownStay, Known, Remembers, Late

\* A restart, seen without the nonces.
LEMMA RestartShape ==
  ASSUME NEW d \in State, RestartFrom(d)
  PROVE  /\ "crash" \in faults
         /\ mem'.pending = d.pending /\ mem'.approvals = d.approvals
         /\ disk'.pending = d.pending /\ disk'.approvals = d.approvals
BY DEF RestartFrom, Pruned, State

\* A save without a new nonce, complete, partial or cut short.
LEMMA SavedShape ==
  ASSUME IInv, UNCHANGED <<faults, signed, now>>,
         NEW m \in State, m.nonces = mem.nonces, NEW k \in Tables,
         \/ disk' = SaveTables(m, disk, k) /\ mem' = m /\ keyring' = keyring
         \/ RestartFrom(SaveTables(m, disk, k))
  PROVE  Moves(m.pending, m.approvals) /\ KnownStay
<1> DEFINE d == SaveTables(m, disk, k)
<1>1. d \in State
  BY SaveTablesType DEF IInv, TypeOK
<1>2. d.pending \in {m.pending, disk.pending} /\ d.approvals \in {m.approvals, disk.approvals}
  BY DEF SaveTables
<1>3. KnownStay
  BY SavedStep, KeptKnown
<1> HIDE DEF d
<1>4. (disk' = d /\ mem' = m) \/ RestartFrom(d)
  BY DEF d
<1> QED
  BY <1>1, <1>2, <1>3, <1>4, RestartShape DEF Moves

\* A proposal is quiet but for its identifier.
LEMMA ProposeShape ==
  ASSUME IInv, UNCHANGED <<faults, signed>>, NEW p \in Pids, Propose(p)
  PROVE  Quiet({p})
<1> DEFINE m == [mem EXCEPT !.pending = @ \cup {p}]
<1>1. m \in State /\ m.nonces = mem.nonces
      /\ m.pending = mem.pending \cup {p} /\ m.approvals = mem.approvals
  BY DEF IInv, TypeOK, State
<1>2. UNCHANGED <<now, spends>> /\ proposed' = proposed \cup {p} /\ p \notin proposed
  BY DEF Propose
<1>3. PICK k \in Tables :
        \/ disk' = SaveTables(m, disk, k) /\ mem' = m /\ keyring' = keyring
        \/ RestartFrom(SaveTables(m, disk, k))
  BY DEF Propose
<1> HIDE DEF m
<1>4. Moves(m.pending, m.approvals) /\ KnownStay
  BY <1>1, <1>2, <1>3, SavedShape
<1> QED
  BY <1>1, <1>2, <1>4 DEF Quiet

\* The reset, restarts, the clock and refused signatures are quiet.
LEMMA QuietShape ==
  ASSUME IInv, UNCHANGED <<faults, signed>>,
         \/ ResetLockdown \/ Crash \/ Tick \/ UNCHANGED vars
         \/ \E n \in Nonces : ApproveRefused(n)
  PROVE  Quiet({})
<1>1. mem \in State /\ disk \in State
  BY DEF IInv, TypeOK
<1>2. mem.pending \cup {} = mem.pending /\ proposed \cup {} = proposed
  OBVIOUS
<1>3. CASE ResetLockdown
  <2>1. UNCHANGED <<now, spends, proposed>>
    BY <1>3 DEF ResetLockdown, history
  <2>2. PICK k \in Tables :
          \/ disk' = SaveTables(mem, disk, k) /\ mem' = mem /\ keyring' = keyring
          \/ RestartFrom(SaveTables(mem, disk, k))
    BY <1>3 DEF ResetLockdown
  <2>3. Moves(mem.pending, mem.approvals) /\ KnownStay
    BY <1>1, <2>1, <2>2, SavedShape
  <2> QED
    BY <1>2, <2>1, <2>3 DEF Quiet
<1>4. CASE Crash
  <2>1. UNCHANGED <<now, spends, proposed>> /\ RestartFrom(disk)
    BY <1>4 DEF Crash, history
  <2>2. KnownStay
    BY <1>1, <2>1, RestartKeeps, KeptKnown
  <2>3. Moves(mem.pending, mem.approvals)
    BY <1>1, <2>1, RestartShape DEF Moves
  <2> QED
    BY <1>2, <2>1, <2>2, <2>3 DEF Quiet
<1>5. CASE Tick \/ UNCHANGED vars
  <2>1. /\ UNCHANGED <<mem, disk, spends, proposed>>
        /\ now \in Int /\ now' \in Int /\ now' >= now
    BY <1>5, ConstantsAssumption DEF Tick, vars, history, IInv, TypeOK
  <2>2. \A n \in Nonces : Late(n) => Late(n)'
    BY <2>1 DEF IInv, Signature, Late
  <2>3. KnownStay
    BY <2>1, <2>2 DEF KnownStay, Known, Remembers
  <2> QED
    BY <1>2, <2>1, <2>3 DEF Quiet, Moves
<1>6. CASE \E n \in Nonces : ApproveRefused(n)
  <2>1. UNCHANGED <<now, disk, spends, proposed>> /\ mem' = Pruned(mem)
    BY <1>6 DEF ApproveRefused, history
  <2>2. /\ mem'.pending = mem.pending /\ mem'.approvals = mem.approvals
        /\ \A n \in Nonces : Remembers(mem, n) => Remembers(Pruned(mem), n)
    BY <1>1, <2>1, PrunedType DEF IInv, TypeOK
  <2>3. KnownStay
    BY <2>1, <2>2 DEF KnownStay, Known, Remembers, Late
  <2> QED
    BY <1>2, <2>1, <2>2, <2>3 DEF Quiet, Moves
<1> QED
  BY <1>3, <1>4, <1>5, <1>6

\* An execution has the shape Executes, and its restart loses no nonce.
LEMMA ExecuteShape ==
  ASSUME IInv, UNCHANGED <<faults, signed>>, NEW p \in Pids, Execute(p)
  PROVE  \E rec \in Approval : Executes(p, rec)
<1> DEFINE r   == mem.approvals[p]
           rec == [r EXCEPT !.used = TRUE]
           d   == [disk EXCEPT !.approvals[p].used = TRUE]
           m   == [mem EXCEPT !.approvals[p].used = TRUE]
<1>1. /\ mem \in State /\ disk \in State
      /\ r \in Approval /\ r # NoApproval /\ ~r.used /\ disk.approvals[p] = r
  BY DEF IInv, TypeOK, State, Execute, Consumable
<1>2. rec \in Approval /\ rec.nonce = r.nonce /\ rec.used
  BY <1>1 DEF Approval
<1>3. /\ d \in State /\ d.nonces = disk.nonces /\ d.pending = disk.pending
      /\ d.approvals = [disk.approvals EXCEPT ![p] = rec]
      /\ m.nonces = mem.nonces /\ m.pending = mem.pending
      /\ m.approvals = [mem.approvals EXCEPT ![p] = rec]
  BY <1>1, <1>2 DEF State
<1>4. /\ UNCHANGED <<now, proposed>>
      /\ spends' = [spends EXCEPT ![r.nonce] = @ + 1]
      /\ (disk' = d /\ mem' = m) \/ RestartFrom(d)
  BY DEF Execute
<1> HIDE DEF d, m
<1>5. KnownStay
  <2>1. CASE RestartFrom(d)
    BY <1>3, <1>4, <2>1, RestartKeeps, KeptKnown
  <2>2. CASE disk' = d /\ mem' = m
    BY <1>3, <1>4, <2>2 DEF KnownStay, Known, Remembers, Late
  <2> QED
    BY <1>4, <2>1, <2>2
<1>6. \/ /\ disk'.pending = disk.pending /\ mem'.pending = mem.pending
         /\ disk'.approvals = d.approvals /\ mem'.approvals = m.approvals
      \/ /\ disk'.pending = disk.pending /\ mem'.pending = disk'.pending
         /\ disk'.approvals = d.approvals /\ mem'.approvals = disk'.approvals
  BY <1>3, <1>4, RestartShape
<1> HIDE DEF rec
<1>7. Executes(p, rec)
  BY <1>1, <1>2, <1>3, <1>4, <1>5, <1>6 DEF Executes
<1> QED
  BY <1>2, <1>7

\* An accepted signature has the shape Approves. Its nonce is saved last, so a
\* crash may lose it only where pending already went, or nothing was written.
LEMMA ApproveShape ==
  ASSUME IInv, UNCHANGED <<faults, signed>>, NEW n \in Nonces, Approve(n)
  PROVE  signed[n].pid \in Pids /\ \E rec : Approves(n, signed[n].pid, rec)
<1> DEFINE p      == signed[n].pid
           record == [nonce |-> n, number |-> accepts[n] + 1, expires |-> ExpiresAt,
                      used |-> FALSE]
           N      == [Pruned(mem).nonces EXCEPT ![n] = now]
           m      == [Pruned(mem) EXCEPT !.pending = @ \ {p}, !.approvals[p] = record,
                                         !.nonces[n] = now]
           back   == [m EXCEPT !.pending = @ \cup {p}, !.approvals[p] = NoApproval]
<1>1. /\ signed \in [Nonces -> Signature] /\ Expiry >= 3 /\ now \in 0..MaxTime
      /\ mem \in State /\ disk \in State /\ UsedInTime(mem) /\ UsedInTime(disk)
      /\ accepts \in [Nonces -> 0..MaxAccepts]
  BY DEF IInv, TypeOK
<1>2. p \in Pids /\ p \in mem.pending /\ now \in Int /\ now # NeverUsed
  BY <1>1, ConstantsAssumption DEF Signature, NeverUsed, Approve
<1>3. /\ Pruned(mem) \in State /\ UsedInTime(Pruned(mem))
      /\ Pruned(mem).pending = mem.pending /\ Pruned(mem).approvals = mem.approvals
      /\ \A l \in Nonces : Remembers(mem, l) => Remembers(Pruned(mem), l)
  BY <1>1, PrunedType
<1>4. Acceptable(n, Pruned(mem)) /\ accepts[n] < MaxAccepts
  BY DEF Approve
<1>5. /\ signed[n].window <= now + 2 /\ ~Remembers(mem, n)
  BY <1>4, AcceptedIsFresh
<1>6. record \in Approval /\ record.nonce = n
  BY <1>1, <1>4, ConstantsAssumption DEF Approval, ExpiresAt
<1> HIDE DEF p, record
<1>7. /\ m \in State /\ m.nonces = N
      /\ m.pending = mem.pending \ {p}
      /\ m.approvals = [mem.approvals EXCEPT ![p] = record]
  BY <1>1, <1>2, <1>3, <1>6 DEF State
<1>8. UNCHANGED <<now, spends, proposed>>
  BY DEF Approve
<1>9. PICK k \in Tables :
        \/ Saved(k) /\ mem' = m /\ disk' = SaveTables(m, disk, k)
        \/ /\ Saved(k) \/ "save" \in faults
           /\ mem' = back /\ disk' = SaveTables(m, disk, k)
        \/ RestartFrom(SaveTables(m, disk, k))
  BY DEF Approve, p, record
<1> DEFINE d == SaveTables(m, disk, k)
<1> HIDE DEF m
<1>10. /\ back.nonces = N
       /\ back.pending = mem.pending
       /\ back.approvals = [mem.approvals EXCEPT ![p] = NoApproval]
  BY <1>1, <1>2, <1>7 DEF State
<1> HIDE DEF back
<1>11. /\ d \in State /\ d.nonces \in {N, disk.nonces}
       /\ Saved(k) => d.nonces = N
  <2>1. /\ d \in State /\ d.nonces \in {m.nonces, disk.nonces}
        /\ Saved(k) => d.nonces = m.nonces
    <3>1. m \in State /\ disk \in State
      BY <1>1, <1>7
    <3> QED
      BY <3>1, SaveTablesType
  <2> HIDE DEF d, N
  <2> QED
    BY <1>7, <2>1
<1>12. /\ d.pending \in {m.pending, disk.pending}
       /\ d.approvals \in {m.approvals, disk.approvals}
       /\ d.pending = m.pending \/ d.approvals = disk.approvals
       /\ Saved(k) => d.pending = m.pending /\ d.approvals = m.approvals
       /\ d.pending = m.pending \/ (d.pending = disk.pending /\ d.approvals = disk.approvals)
  BY DEF SaveTables, Saved, Tables
<1> HIDE DEF d
<1>13. N \in [Nonces -> 0..MaxTime \cup {NeverUsed}] /\ N[n] = now
       /\ \A l \in Nonces : l # n => N[l] = Pruned(mem).nonces[l]
  BY <1>1, <1>3 DEF State
<1>14. \A l \in Nonces : N[l] # NeverUsed => signed[l].window <= N[l] + 2
  BY <1>3, <1>5, <1>13 DEF UsedInTime
<1>15. \A l \in Nonces : l = n \/ Remembers(mem, l) => N[l] # NeverUsed \/ Late(l)
  BY <1>2, <1>3, <1>13 DEF Remembers
<1> HIDE DEF N
<1>16. /\ UsedInTime(d)
       /\ \A l \in Nonces : Remembers(mem, l) /\ Remembers(disk, l) => Remembers(d, l)
       /\ Saved(k) => Remembers(d, n)
  BY <1>1, <1>11, <1>14, <1>15 DEF UsedInTime, Remembers
<1>17. \A l \in Nonces : Late(l)' <=> Late(l)
  BY <1>8 DEF Late
<1>18. CASE Saved(k) /\ mem' = m /\ disk' = d
  <2>1. \A l \in Nonces : Known(l) \/ l = n => Known(l)'
    BY <1>7, <1>11, <1>15, <1>17, <1>18 DEF Known, Remembers
  <2>2. Approves(n, p, record)
    BY <1>2, <1>5, <1>6, <1>7, <1>8, <1>12, <1>18, <2>1 DEF Approves, Known, p
  <2> QED
    BY <1>2, <2>2 DEF p
<1>19. CASE (Saved(k) \/ "save" \in faults) /\ mem' = back /\ disk' = d
  <2>1. \A l \in Nonces : Known(l) => Known(l)'
    BY <1>10, <1>15, <1>16, <1>17, <1>19 DEF Known, Remembers
  <2>2. Orderly => Known(n)'
    BY <1>10, <1>11, <1>15, <1>17, <1>19 DEF Known, Remembers, Orderly
  <2>3. Approves(n, p, record)
    BY <1>2, <1>5, <1>6, <1>7, <1>8, <1>10, <1>12, <1>19, <2>1, <2>2
       DEF Approves, Known, p
  <2> QED
    BY <1>2, <2>3 DEF p
<1>20. CASE RestartFrom(d)
  <2>1. /\ "crash" \in faults /\ disk' = mem'
        /\ \A l \in Nonces : Remembers(d, l) => mem'.nonces[l] # NeverUsed \/ Late(l)
    BY <1>1, <1>11, <1>16, <1>20, RestartType
  <2>2. \A l \in Nonces : Known(l) => Known(l)'
    BY <1>16, <1>17, <2>1 DEF Known, Remembers
  <2>3. mem'.pending = d.pending /\ mem'.approvals = d.approvals
    BY <1>11, <1>20, RestartShape
  <2>4. Approves(n, p, record)
    BY <1>2, <1>5, <1>6, <1>7, <1>8, <1>12, <2>1, <2>2, <2>3 DEF Approves, Known, p
  <2> QED
    BY <1>2, <2>4 DEF p
<1> QED
  BY <1>9, <1>18, <1>19, <1>20 DEF d

-----------------------------------------------------------------------------
(***************************************************************************)
(* Every shape of step keeps SignatureInv.                                 *)
(***************************************************************************)

\* Quiet steps keep SignatureInv: nothing new is approved, nothing known forgotten.
LEMMA QuietKeeps ==
  ASSUME IInv, SignatureInv, UNCHANGED <<faults, signed>>, NEW Q, Quiet(Q)
  PROVE  SignatureInv'
<1>1. SignedProposals'
  BY DEF SignatureInv, SignedProposals, Quiet, Moves, Traced, Names
<1>2. \A n \in Nonces : Traced(n)' => Traced(n)
  BY DEF Quiet, Moves, Traced, Names
<1>3. \A n \in Nonces : Traced(n) /\ Gone(n) => Gone(n)'
  BY DEF SignatureInv, SignedProposals, Quiet, Moves, Gone
<1>4. TracedStaysOut'
  BY <1>2, <1>3 DEF SignatureInv, TracedStaysOut, Quiet, KnownStay, Orderly
<1>5. SpentAreUsed'
  BY DEF SignatureInv, SpentAreUsed, Quiet, Moves, Orderly
<1>6. SpentOnce'
  BY DEF SignatureInv, SpentOnce, SignatureSpentOnce, Quiet, Orderly
<1> QED
  BY <1>1, <1>4, <1>5, <1>6 DEF SignatureInv

\* Executing keeps SignatureInv: the approval was not used, so its signature was
\* not spent, and row and memory say that it is now.
LEMMA ExecutesKeeps ==
  ASSUME IInv, SignatureInv, UNCHANGED <<faults, signed>>,
         NEW p \in Pids, NEW rec \in Approval, Executes(p, rec)
  PROVE  SignatureInv'
<1>1. /\ mem.approvals \in [Pids -> Approval \cup {NoApproval}]
      /\ disk.approvals \in [Pids -> Approval \cup {NoApproval}]
      /\ spends \in [Nonces -> Nat]
      /\ mem.approvals[p] # NoApproval /\ ~mem.approvals[p].used
      /\ disk.approvals[p] = mem.approvals[p]
      /\ rec.nonce = mem.approvals[p].nonce /\ rec.nonce \in Nonces /\ rec.used
      /\ spends' = [spends EXCEPT ![rec.nonce] = spends[rec.nonce] + 1]
  BY DEF IInv, TypeOK, State, Executes, Approval
<1>2. \A q \in Pids :
        /\ disk'.approvals[q] = IF q = p THEN rec ELSE disk.approvals[q]
        /\ mem'.approvals[q] \in IF q = p THEN {rec} ELSE {mem.approvals[q], disk.approvals[q]}
  BY <1>1 DEF Executes
<1>3. /\ disk'.pending = disk.pending
      /\ mem'.pending \in {mem.pending, disk.pending}
      /\ proposed' = proposed
  BY DEF Executes
<1>4. Traced(rec.nonce)
  BY <1>1 DEF Traced, Names
<1>5. \A n \in Nonces : Traced(n)' => Traced(n)
  BY <1>1, <1>2, <1>4 DEF Traced, Names
<1>6. SignedProposals'
  <2>1. \A s \in {mem', disk'}, q \in Pids :
          s.approvals[q] # NoApproval => signed[s.approvals[q].nonce].pid = q
    <3>1. \A s \in {mem, disk}, q \in Pids :
            s.approvals[q] # NoApproval => signed[s.approvals[q].nonce].pid = q
      BY DEF SignatureInv, SignedProposals
    <3>2. signed[rec.nonce].pid = p
      BY <1>1, <3>1
    <3>3. \A q \in Pids :
            disk'.approvals[q] # NoApproval => signed[disk'.approvals[q].nonce].pid = q
      BY <1>2, <3>1, <3>2
    <3>4. \A q \in Pids :
            mem'.approvals[q] # NoApproval => signed[mem'.approvals[q].nonce].pid = q
      BY <1>2, <3>1, <3>2
    <3> QED
      BY <3>3, <3>4
  <2> QED
    BY <1>3, <1>5, <2>1 DEF SignatureInv, SignedProposals
<1>7. TracedStaysOut'
  BY <1>3, <1>5 DEF SignatureInv, TracedStaysOut, Executes, KnownStay, Orderly, Gone
<1>8. Orderly => spends[rec.nonce] = 0
  BY <1>1 DEF SignatureInv, SpentAreUsed
<1>9. SpentOnce'
  BY <1>1, <1>8 DEF SignatureInv, SpentOnce, SignatureSpentOnce, Orderly
<1>10. SpentAreUsed'
  <2> SUFFICES ASSUME Orderly, NEW n \in Nonces, spends'[n] > 0, NEW s \in {mem', disk'},
                      NEW q \in Pids, s.approvals[q] # NoApproval, s.approvals[q].nonce = n
               PROVE  s.approvals[q].used
    BY DEF SpentAreUsed, Orderly
  <2>1. CASE q = p
    BY <1>1, <1>2, <2>1
  <2>2. CASE q # p
    <3>1. s.approvals[q] \in {mem.approvals[q], disk.approvals[q]}
      BY <1>2, <2>2
    <3>2. signed[n].pid = q /\ signed[rec.nonce].pid = p
      BY <1>1, <3>1 DEF SignatureInv, SignedProposals
    <3>3. spends[n] > 0
      BY <1>1, <2>2, <3>2
    <3> QED
      BY <3>1, <3>3 DEF SignatureInv, SpentAreUsed
  <2> QED
    BY <2>1, <2>2
<1> QED
  BY <1>6, <1>7, <1>9, <1>10 DEF SignatureInv

\* Approving keeps SignatureInv: a signature that is not known left no trace, or
\* its proposal waits no more and it cannot be accepted.
LEMMA ApprovesKeeps ==
  ASSUME IInv, SignatureInv, UNCHANGED <<faults, signed>>,
         NEW n \in Nonces, NEW p \in Pids, NEW rec, Approves(n, p, rec)
  PROVE  SignatureInv'
<1>1. /\ mem.approvals \in [Pids -> Approval \cup {NoApproval}]
      /\ disk.approvals \in [Pids -> Approval \cup {NoApproval}]
      /\ p = signed[n].pid /\ p \in mem.pending /\ ~Known(n) /\ rec.nonce = n
      /\ UNCHANGED <<spends, proposed>>
      /\ \A l \in Nonces : Known(l) => Known(l)'
  BY DEF IInv, TypeOK, State, Approves
<1>2. Orderly => ~Traced(n) /\ spends[n] = 0
  <2>1. Orderly => ~Traced(n)
    BY <1>1 DEF SignatureInv, TracedStaysOut, Gone
  <2> QED
    BY <2>1 DEF Traced, IInv, TypeOK
<1>3. /\ mem'.pending \cup disk'.pending \subseteq mem.pending \cup disk.pending
      /\ \A l \in Nonces : Gone(l) => Gone(l)'
  BY DEF Approves, Gone
<1>4. ASSUME NEW s \in {mem', disk'}, NEW q \in Pids
      PROVE  \/ s.approvals[q] \in {mem.approvals[q], disk.approvals[q], NoApproval}
             \/ q = p /\ s.approvals[q] = rec
  BY <1>1 DEF Approves
<1>5. \A l \in Nonces : Traced(l)' => l = n \/ Traced(l)
  BY <1>1, <1>4 DEF Traced, Names
<1>6. SignedProposals'
  <2>1. \A s \in {mem', disk'}, q \in Pids :
          s.approvals[q] # NoApproval => signed[s.approvals[q].nonce].pid = q
    BY <1>1, <1>4 DEF SignatureInv, SignedProposals
  <2> QED
    BY <1>1, <1>3, <1>5, <2>1 DEF SignatureInv, SignedProposals
<1>7. Orderly /\ Traced(n)' => Known(n)' \/ Gone(n)'
  <2> SUFFICES ASSUME Orderly, Traced(n)', ~Known(n)'
               PROVE  Gone(n)'
    OBVIOUS
  <2>1. /\ "crash" \in faults
        /\ mem'.pending = disk'.pending /\ mem'.approvals = disk'.approvals
        /\ \/ disk'.pending = disk.pending /\ disk'.approvals = disk.approvals
           \/ disk'.pending = mem.pending \ {p}
    BY DEF Approves
  <2>2. disk'.approvals # disk.approvals
    BY <1>1, <1>2, <2>1 DEF Traced, Names
  <2> QED
    BY <1>1, <2>1, <2>2 DEF Gone
<1>8. TracedStaysOut'
  BY <1>1, <1>3, <1>5, <1>7 DEF SignatureInv, TracedStaysOut, Orderly
<1>9. SpentAreUsed'
  <2> SUFFICES ASSUME Orderly, NEW l \in Nonces, spends[l] > 0, NEW s \in {mem', disk'},
                      NEW q \in Pids, s.approvals[q] # NoApproval, s.approvals[q].nonce = l
               PROVE  s.approvals[q].used
    BY <1>1 DEF SpentAreUsed, Orderly
  <2>1. l # n
    BY <1>2
  <2>2. s.approvals[q] \in {mem.approvals[q], disk.approvals[q]}
    BY <1>1, <1>4, <2>1
  <2> QED
    BY <2>2 DEF SignatureInv, SpentAreUsed
<1>10. SpentOnce'
  BY <1>1 DEF SignatureInv, SpentOnce, SignatureSpentOnce, Orderly
<1> QED
  BY <1>6, <1>8, <1>9, <1>10 DEF SignatureInv

\* Nothing is signed for or spent at the start.
LEMMA SignatureInit == Init => SignatureInv
<1> SUFFICES ASSUME Init PROVE SignatureInv
  OBVIOUS
<1>1. /\ mem.pending = {} /\ disk.pending = {}
      /\ \A p \in Pids : mem.approvals[p] = NoApproval /\ disk.approvals[p] = NoApproval
      /\ \A n \in Nonces : spends[n] = 0
  BY DEF Init
<1>2. \A n \in Nonces : ~Traced(n)
  BY <1>1 DEF Traced, Names
<1> QED
  BY <1>1, <1>2 DEF SignatureInv, SignedProposals, TracedStaysOut, SpentAreUsed,
                    SpentOnce, SignatureSpentOnce

\* Every step has one of the shapes.
LEMMA SignatureNext == IInv /\ SignatureInv /\ [Next]_vars => SignatureInv'
<1> SUFFICES ASSUME IInv, SignatureInv, [Next]_vars PROVE SignatureInv'
  OBVIOUS
<1>1. UNCHANGED <<faults, signed>>
  BY DEF Next, vars
<1>2. ASSUME NEW p \in Pids, Propose(p) PROVE SignatureInv'
  BY <1>1, <1>2, ProposeShape, QuietKeeps
<1>3. ASSUME NEW p \in Pids, Execute(p) PROVE SignatureInv'
  BY <1>1, <1>3, ExecuteShape, ExecutesKeeps
<1>4. ASSUME NEW n \in Nonces, Approve(n) PROVE SignatureInv'
  BY <1>1, <1>4, ApproveShape, ApprovesKeeps
<1>5. CASE \/ ResetLockdown \/ Crash \/ Tick \/ UNCHANGED vars
           \/ \E n \in Nonces : ApproveRefused(n)
  BY <1>1, <1>5, QuietShape, QuietKeeps
<1> QED
  BY <1>2, <1>3, <1>4, <1>5 DEF Next

-----------------------------------------------------------------------------
(***************************************************************************)
(* Theorems about spent signatures.                                        *)
(***************************************************************************)

\* What an accepted signature leaves behind fits together whatever fails.
THEOREM SignatureInvariant == ASSUME Expiry >= 3 PROVE Spec => [](IInv /\ SignatureInv)
<1>1. Init => IInv /\ SignatureInv
  BY InitInv, SignatureInit
<1>2. IInv /\ SignatureInv /\ [Next]_vars => IInv' /\ SignatureInv'
  BY NextInv, SignatureNext
<1> QED
  BY <1>1, <1>2, PTL DEF Spec

\* Where no partial save and restart meet, the backend runs at most once for
\* each signature.
THEOREM SpentOnceTheorem ==
  ASSUME Expiry >= 3, \A F \in FaultSets : ~({"crash", "save"} \subseteq F)
  PROVE  Spec => []SignatureSpentOnce
<1>1. Init => Orderly
  BY DEF Init, Orderly
<1>2. Orderly /\ [Next]_vars => Orderly'
  BY DEF Next, vars, Orderly
<1>3. Orderly /\ SignatureInv => SignatureSpentOnce
  BY DEF SignatureInv, SpentOnce
<1> QED
  BY <1>1, <1>2, <1>3, SignatureInvariant, PTL DEF Spec
=============================================================================
