------------------------- MODULE EvidenceChainProofs -------------------------
(***************************************************************************)
(* Theorems about EvidenceChain, for any number of backups, keys and       *)
(* writes, and any faults.                                                 *)
(***************************************************************************)
EXTENDS EvidenceChain, WellFoundedInduction, TLAPS

-----------------------------------------------------------------------------
(***************************************************************************)
(* Numbers.  The proofs argue about the first index at which something     *)
(* fails where others use induction.                                       *)
(***************************************************************************)

\* A set of natural numbers that is not empty has a least element.
LEMMA LeastElement ==
  ASSUME NEW T \in SUBSET Nat, T # {}
  PROVE  \E x \in T : \A y \in T : x =< y
<1> DEFINE Less == {p \in Nat \X Nat : p[1] < p[2]}
<1>1. IsWellFoundedOn(Less, Nat)
  BY NatLessThanWellFounded DEF OpToRel
<1>2. \A x, y \in T : <<y, x>> \notin Less => x =< y
  OBVIOUS
<1> HIDE DEF Less
<1>3. PICK x \in T : \A y \in T : <<y, x>> \notin Less
  BY <1>1, WFMin
<1> QED
  BY <1>2, <1>3

\* A set of naturals with a bound has a greatest element.
LEMMA GreatestElement ==
  ASSUME NEW n \in Nat, NEW T \in SUBSET (1..n), T # {}
  PROVE  \E x \in T : \A y \in T : x >= y
<1> DEFINE D == {n - x : x \in T}
<1>1. D \in SUBSET Nat /\ D # {}
  <2>1. \A x \in T : n - x \in Nat
    OBVIOUS
  <2> QED
    BY <2>1
<1>2. PICK d \in D : \A e \in D : d =< e
  BY <1>1, LeastElement
<1>3. PICK x \in T : d = n - x
  OBVIOUS
<1>4. \A y \in T : n - x =< n - y
  BY <1>2, <1>3
<1> QED
  BY <1>4

\* What holds of 1 and of every number after one it holds of, up to n.
LEMMA Upwards ==
  ASSUME NEW n \in Nat, NEW G, 1 \in G,
         \A i \in 2..n : i - 1 \in G => i \in G
  PROVE  1..n \subseteq G
<1> DEFINE T == {i \in 1..n : i \notin G}
<1>1. SUFFICES ASSUME T # {} PROVE FALSE
  OBVIOUS
<1>2. T \in SUBSET Nat
  OBVIOUS
<1>3. PICK i \in T : \A k \in T : i =< k
  <2> HIDE DEF T
  <2> QED
    BY <1>1, <1>2, LeastElement
<1>4. i \in 2..n /\ i - 1 \in 1..n /\ ~(i =< i - 1)
  OBVIOUS
<1>5. i - 1 \in G
  BY <1>3, <1>4
<1> QED
  BY <1>4, <1>5

\* What holds of n and of every number before one it holds of, down to 1.
LEMMA Downwards ==
  ASSUME NEW n \in Nat, NEW G, n \in G,
         \A i \in 1..(n - 1) : i + 1 \in G => i \in G
  PROVE  1..n \subseteq G
<1> DEFINE T == {i \in 1..n : i \notin G}
<1>1. SUFFICES ASSUME T # {} PROVE FALSE
  OBVIOUS
<1>2. T \in SUBSET (1..n)
  OBVIOUS
<1>3. PICK i \in T : \A k \in T : i >= k
  <2> HIDE DEF T
  <2> QED
    BY <1>1, <1>2, GreatestElement
<1>4. i \in 1..(n - 1) /\ i + 1 \in 1..n /\ ~(i >= i + 1)
  OBVIOUS
<1>5. i + 1 \in G
  BY <1>3, <1>4
<1> QED
  BY <1>4, <1>5

-----------------------------------------------------------------------------
(***************************************************************************)
(* The inductive invariant.                                                *)
(***************************************************************************)

\* The records in the files f.
On(f) == UNION {ToSet(f[i]) : i \in FileNo}

\* Every record there is, in the files or accepted, was made by a write of its
\* own.
Known == On(files) \cup ToSet(accepted)

MacsUnique ==
  /\ \A r \in Known : r.mac =< writes
  /\ \A r, s \in Known : r.mac = s.mac => r = s

IInv ==
  /\ TypeOK
  /\ HeadsFormChain
  /\ HeadBehindLedger
  /\ MacsUnique

-----------------------------------------------------------------------------
(***************************************************************************)
(* Lemmas about the files.                                                 *)
(***************************************************************************)
Files == [FileNo -> Seq(Record)]

\* A rotation cut short anywhere keeps every record but those it prunes.
LEMMA RotatedKeeps ==
  ASSUME NEW f \in Files, NEW j \in RotationSteps
  PROVE  /\ Rotated(f, j) \in Files
         /\ On(Rotated(f, j)) \subseteq On(f)
         /\ On(f) \subseteq On(Rotated(f, j)) \cup Pruned(f, j)
<1>1. Backups \in Nat \ {0} /\ j \in 0..(Backups + 1)
  BY ConstantsAssumption DEF RotationSteps
<1>2. Rotated(f, j) \in Files
  BY <1>1 DEF Rotated, Files, FileNo
<1>3. \A i \in FileNo : ToSet(Rotated(f, j)[i]) \subseteq On(f)
  <2> TAKE i \in FileNo
  <2>1. CASE j = 0 \/ i < Backups + 1 - j
    BY <2>1 DEF Rotated, On
  <2>2. CASE j # 0 /\ i = Backups + 1 - j
    BY <2>2, <1>1 DEF Rotated, On, ToSet
  <2>3. CASE j # 0 /\ i > Backups + 1 - j
    <3>1. Rotated(f, j)[i] = f[i - 1] /\ i - 1 \in FileNo
      BY <2>3, <1>1 DEF Rotated, FileNo
    <3> QED
      BY <3>1 DEF On
  <2> QED
    BY <1>1, <2>1, <2>2, <2>3 DEF FileNo
<1>4. \A i \in FileNo : ToSet(f[i]) \subseteq On(Rotated(f, j)) \cup Pruned(f, j)
  <2> TAKE i \in FileNo
  <2>1. CASE j = 0 \/ i < Backups + 1 - j
    <3>1. Rotated(f, j)[i] = f[i]
      BY <2>1 DEF Rotated
    <3> QED
      BY <3>1 DEF On
  <2>2. CASE j # 0 /\ i >= Backups + 1 - j /\ i < Backups
    <3>1. Rotated(f, j)[i + 1] = f[i] /\ i + 1 \in FileNo
      BY <2>2, <1>1 DEF Rotated, FileNo
    <3> QED
      BY <3>1 DEF On
  <2>3. CASE j # 0 /\ i = Backups
    BY <2>3 DEF Pruned
  <2> QED
    BY <1>1, <2>1, <2>2, <2>3 DEF FileNo
<1> QED
  BY <1>2, <1>3, <1>4 DEF On

\* A sequence with one more element.
LEMMA AppendedSequence ==
  ASSUME NEW S, NEW s \in Seq(S), NEW r \in S
  PROVE  /\ Append(s, r) \in Seq(S)
         /\ Len(Append(s, r)) = Len(s) + 1
         /\ \A i \in 1..Len(s) : Append(s, r)[i] = s[i]
         /\ Append(s, r)[Len(s) + 1] = r
         /\ ToSet(Append(s, r)) = ToSet(s) \cup {r}
<1>1. /\ Append(s, r) \in Seq(S) /\ Len(s) \in Nat
      /\ Len(Append(s, r)) = Len(s) + 1
      /\ \A i \in 1..Len(s) : Append(s, r)[i] = s[i]
      /\ Append(s, r)[Len(s) + 1] = r
  OBVIOUS
<1>2. DOMAIN Append(s, r) = 1..(Len(s) + 1) /\ DOMAIN s = 1..Len(s)
  BY <1>1
<1>3. ToSet(Append(s, r)) \subseteq ToSet(s) \cup {r}
  <2>1. \A i \in 1..(Len(s) + 1) : i \in 1..Len(s) \/ i = Len(s) + 1
    BY <1>1
  <2> QED
    BY <1>1, <1>2, <2>1 DEF ToSet
<1>4. ToSet(s) \cup {r} \subseteq ToSet(Append(s, r))
  <2>1. Len(s) + 1 \in 1..(Len(s) + 1) /\ \A i \in 1..Len(s) : i \in 1..(Len(s) + 1)
    BY <1>1
  <2> QED
    BY <1>1, <1>2, <2>1 DEF ToSet
<1> QED
  BY <1>1, <1>3, <1>4

\* An appended record is in the files, and so are all the others.
LEMMA AppendedAdds ==
  ASSUME NEW f \in Files, NEW r \in Record
  PROVE  Appended(f, r) \in Files /\ On(Appended(f, r)) = On(f) \cup {r}
<1>1. 0 \in FileNo /\ f[0] \in Seq(Record)
  BY ConstantsAssumption DEF FileNo, Files
<1>2. Append(f[0], r) \in Seq(Record) /\ ToSet(Append(f[0], r)) = ToSet(f[0]) \cup {r}
  BY <1>1, AppendedSequence
<1>3. Appended(f, r) = [f EXCEPT ![0] = Append(f[0], r)]
  BY DEF Appended
<1>4. Appended(f, r) \in Files
  BY <1>1, <1>2, <1>3 DEF Files
<1>5. /\ Appended(f, r)[0] = Append(f[0], r)
      /\ \A i \in FileNo : i # 0 => Appended(f, r)[i] = f[i]
  BY <1>1, <1>3 DEF Files
<1>6. On(Appended(f, r)) \subseteq On(f) \cup {r}
  BY <1>1, <1>2, <1>5 DEF On
<1>7. On(f) \cup {r} \subseteq On(Appended(f, r))
  BY <1>1, <1>2, <1>5 DEF On
<1> QED
  BY <1>4, <1>6, <1>7

\* The ledger's last record is in the files.
LEMMA NewestIsOn ==
  ASSUME NEW f \in Files, Newest(f) # <<>>
  PROVE  Last(Newest(f)) \in On(f) /\ Last(Newest(f)) \in Record
<1>1. PICK i \in FileNo : Newest(f) = f[i]
  BY ConstantsAssumption DEF Newest, FileNo
<1>2. f[i] \in Seq(Record) /\ f[i] # <<>>
  BY <1>1 DEF Files
<1>3. Len(f[i]) \in DOMAIN f[i] /\ Last(f[i]) = f[i][Len(f[i])]
  BY <1>2 DEF Last
<1> QED
  BY <1>1, <1>2, <1>3 DEF On, ToSet

\* Every record in the files is one.
LEMMA OnAreRecords ==
  ASSUME NEW f \in Files
  PROVE  On(f) \subseteq Record
  BY DEF Files, On, ToSet

-----------------------------------------------------------------------------
(***************************************************************************)
(* The invariant is inductive.                                             *)
(***************************************************************************)

\* The next record continues the chain.
LEMMA NextContinues ==
  ASSUME TypeOK, HeadsFormChain
  PROVE  /\ NextRecord \in Record
         /\ NextRecord.seq = Len(accepted) + 1
         /\ NextRecord.prev = IF accepted = <<>> THEN NoMac ELSE accepted[Len(accepted)].mac
         /\ NextRecord.mac = writes + 1
         /\ head = NoHead <=> accepted = <<>>
         /\ head # NoHead => head.lastSeq = Len(accepted) /\ head.lastMac = accepted[Len(accepted)].mac
<1>1. /\ accepted \in Seq(Record) /\ writes \in Nat /\ key \in Keys
      /\ head \in Checkpoint \cup {NoHead} /\ head = EndOf(accepted)
  BY ConstantsAssumption DEF TypeOK, HeadsFormChain
<1>2. CASE accepted = <<>>
  <2>1. head = NoHead
    BY <1>1, <1>2 DEF EndOf
  <2>2. NextRecord = [seq |-> 1, prev |-> NoMac, mac |-> writes + 1, key |-> key]
    BY <2>1 DEF NextRecord
  <2> QED
    BY <1>1, <1>2, <2>1, <2>2 DEF Record, NoMac
<1>3. CASE accepted # <<>>
  <2>1. Len(accepted) \in Nat \ {0} /\ accepted[Len(accepted)] \in Record
    BY <1>1, <1>3
  <2>2. head = [genesisSeq |-> 1, genesisMac |-> accepted[1].mac,
                lastSeq |-> Len(accepted), lastMac |-> accepted[Len(accepted)].mac]
    BY <1>1, <1>3 DEF EndOf, Last
  <2>3. accepted[1] \in Record
    BY <1>1, <2>1
  <2>4. head \in Checkpoint /\ head # NoHead
    BY <2>1, <2>2, <2>3, NoHeadAssumption DEF Checkpoint, Record
  <2>5. NextRecord = [seq |-> Len(accepted) + 1, prev |-> accepted[Len(accepted)].mac,
                      mac |-> writes + 1, key |-> key]
    BY <2>2, <2>4 DEF NextRecord
  <2> QED
    BY <1>1, <1>3, <2>1, <2>2, <2>4, <2>5 DEF Record
<1> QED
  BY <1>2, <1>3

\* A record that continues the chain, once accepted, is its end.
LEMMA AcceptExtends ==
  ASSUME TypeOK, HeadsFormChain, NEW r \in Record, Accept(r),
         r.seq = NextRecord.seq, r.prev = NextRecord.prev
  PROVE  /\ accepted' \in Seq(Record)
         /\ ToSet(accepted') = ToSet(accepted) \cup {r}
         /\ Chained(accepted')
         /\ head' = EndOf(accepted') /\ head' \in Checkpoint
<1> DEFINE n == Len(accepted)
<1>1. accepted \in Seq(Record) /\ Chained(accepted) /\ head = EndOf(accepted) /\ n \in Nat
  BY DEF TypeOK, HeadsFormChain
<1>2. accepted' = Append(accepted, r) /\ head' = HeadAt(head, r)
  BY DEF Accept
<1>3. /\ accepted' \in Seq(Record) /\ Len(accepted') = n + 1
      /\ \A i \in 1..n : accepted'[i] = accepted[i]
      /\ accepted'[n + 1] = r
      /\ ToSet(accepted') = ToSet(accepted) \cup {r}
  BY <1>1, <1>2, AppendedSequence
<1>4. r.seq = n + 1 /\ r.prev = IF accepted = <<>> THEN NoMac ELSE accepted[n].mac
  BY NextContinues
<1> HIDE DEF n
<1>5. Chained(accepted')
  <2> SUFFICES ASSUME NEW i \in 1..(n + 1)
               PROVE  /\ accepted'[i].seq = i
                      /\ accepted'[i].prev = IF i = 1 THEN NoMac ELSE accepted'[i - 1].mac
    BY <1>3 DEF Chained
  <2>1. CASE i \in 1..n
    <3>1. accepted'[i] = accepted[i] /\ (i # 1 => accepted'[i - 1] = accepted[i - 1])
      BY <1>1, <1>3, <2>1
    <3> QED
      BY <1>1, <2>1, <3>1 DEF Chained, n
  <2>2. CASE i = n + 1
    <3>1. n = 0 <=> accepted = <<>>
      BY <1>1 DEF n
    <3>2. n # 0 => accepted'[i - 1] = accepted[n]
      BY <1>1, <1>3, <2>2
    <3> QED
      BY <1>1, <1>3, <1>4, <2>2, <3>1, <3>2
  <2> QED
    BY <1>1, <2>1, <2>2
<1>6. head' = EndOf(accepted')
  <2>1. accepted' # <<>> /\ Last(accepted') = r
    BY <1>1, <1>3 DEF Last
  <2>2. EndOf(accepted') = [genesisSeq |-> 1, genesisMac |-> accepted'[1].mac,
                            lastSeq |-> n + 1, lastMac |-> r.mac]
    BY <1>3, <2>1 DEF EndOf
  <2>3. CASE accepted = <<>>
    <3>1. n = 0 /\ head = NoHead
      BY <2>3, <1>1 DEF n, EndOf
    <3>2. accepted'[1] = r
      BY <1>3, <3>1
    <3> QED
      BY <1>2, <1>4, <2>2, <3>1, <3>2 DEF HeadAt
  <2>4. CASE accepted # <<>>
    <3>1. n # 0 /\ head # NoHead
      BY <2>4, <1>1, NextContinues DEF n
    <3>2. head.genesisSeq = 1 /\ head.genesisMac = accepted[1].mac
      BY <2>4, <1>1 DEF EndOf
    <3>3. accepted'[1] = accepted[1]
      BY <1>1, <1>3, <3>1
    <3> QED
      BY <1>2, <1>4, <2>2, <3>1, <3>2, <3>3 DEF HeadAt
  <2> QED
    BY <2>3, <2>4
<1>7. head' \in Checkpoint
  <2>1. accepted' # <<>> /\ accepted'[1] \in Record /\ Last(accepted') = r
    BY <1>1, <1>3 DEF Last
  <2> QED
    BY <1>1, <1>3, <1>6, <2>1 DEF EndOf, Checkpoint, Record
<1> QED
  BY <1>3, <1>5, <1>6, <1>7

\* The record a step may add to the files.
New == IF writes' = writes + 1 THEN {NextRecord} ELSE {}

\* A step adds no record but the next one, loses none that is not in gone, and
\* accepts at most one record from the files, which continues the chain.
LEMMA StepKeeps ==
  ASSUME IInv,
         files' \in Files, key' \in Keys, writes' \in 0..MaxWrites, writes' \in {writes, writes + 1},
         gone' \subseteq Record, gone \subseteq gone',
         On(files') \subseteq On(files) \cup New,
         On(files) \subseteq On(files') \cup gone',
         \/ UNCHANGED <<head, accepted, acked>>
         \/ \E r \in On(files') :
              /\ r.seq = NextRecord.seq /\ r.prev = NextRecord.prev
              /\ Accept(r) /\ acked' \in {acked, acked \cup {r}}
  PROVE  IInv'
<1>1. TypeOK /\ HeadsFormChain /\ HeadBehindLedger /\ MacsUnique /\ NextRecord \in Record
  BY NextContinues DEF IInv
<1>2. files \in Files /\ writes \in Nat
  BY <1>1, ConstantsAssumption DEF TypeOK, Files
<1>3. /\ accepted' \in Seq(Record) /\ head' \in Checkpoint \cup {NoHead}
      /\ acked' \subseteq Record
      /\ HeadsFormChain'
      /\ ToSet(accepted) \subseteq ToSet(accepted')
      /\ ToSet(accepted') \subseteq ToSet(accepted) \cup On(files')
  <2>1. CASE UNCHANGED <<head, accepted, acked>>
    BY <1>1, <2>1 DEF TypeOK, HeadsFormChain, Chained, EndOf
  <2>2. ASSUME NEW r \in On(files'),
               r.seq = NextRecord.seq, r.prev = NextRecord.prev,
               Accept(r), acked' \in {acked, acked \cup {r}}
        PROVE  /\ accepted' \in Seq(Record) /\ head' \in Checkpoint \cup {NoHead}
               /\ acked' \subseteq Record
               /\ HeadsFormChain'
               /\ ToSet(accepted) \subseteq ToSet(accepted')
               /\ ToSet(accepted') \subseteq ToSet(accepted) \cup On(files')
    <3>1. r \in Record
      BY OnAreRecords
    <3>2. /\ accepted' \in Seq(Record)
          /\ ToSet(accepted') = ToSet(accepted) \cup {r}
          /\ Chained(accepted')
          /\ head' = EndOf(accepted') /\ head' \in Checkpoint
      BY <1>1, <2>2, <3>1, AcceptExtends
    <3>3. acked' \subseteq ToSet(accepted') /\ acked' \subseteq Record
      BY <1>1, <2>2, <3>1, <3>2 DEF TypeOK, HeadsFormChain
    <3> QED
      BY <3>2, <3>3 DEF HeadsFormChain, Chained, EndOf
  <2> QED
    BY <2>1, <2>2
<1>4. TypeOK'
  BY <1>1, <1>3 DEF TypeOK, Files
<1>5. HeadBehindLedger'
  <2>1. \A f : On(f) = UNION {ToSet(f[i]) : i \in FileNo}
    BY DEF On
  <2>2. ToSet(accepted) \subseteq On(files) \cup gone
    BY <1>1, <2>1 DEF HeadBehindLedger, OnDisk
  <2>3. ToSet(accepted') \subseteq On(files') \cup gone'
    BY <1>3, <2>2
  <2> QED
    BY <2>1, <2>3 DEF HeadBehindLedger, OnDisk
<1>6. MacsUnique'
  <2>1. Known' \subseteq Known \cup New
    <3>1. Known' = On(files') \cup ToSet(accepted')
      BY DEF Known, On
    <3> QED
      BY <1>3, <3>1 DEF Known
  <2>2. \A r \in Known : r \in Record /\ r.mac \in Nat
    <3>1. ToSet(accepted) \subseteq Record
      BY <1>1 DEF TypeOK, ToSet
    <3> QED
      BY <1>2, <3>1, OnAreRecords DEF Known, Record
  <2>3. \A r \in New : r.mac = writes + 1 /\ writes' = writes + 1 /\ r = NextRecord
    BY <1>1, NextContinues DEF New
  <2>4. \A r \in Known' : r.mac =< writes'
    BY <1>1, <1>2, <2>1, <2>2, <2>3 DEF MacsUnique
  <2>5. ASSUME NEW r \in Known', NEW q \in Known', r.mac = q.mac PROVE r = q
    <3>1. CASE r \in Known /\ q \in Known
      BY <1>1, <2>5, <3>1 DEF MacsUnique
    <3>2. CASE r \in New /\ q \in New
      BY <2>3, <3>2
    <3>3. CASE r \in New /\ q \in Known
      BY <1>1, <1>2, <2>2, <2>3, <2>5, <3>3 DEF MacsUnique
    <3>4. CASE r \in Known /\ q \in New
      BY <1>1, <1>2, <2>2, <2>3, <2>5, <3>4 DEF MacsUnique
    <3> QED
      BY <2>1, <3>1, <3>2, <3>3, <3>4
  <2> QED
    BY <2>4, <2>5 DEF MacsUnique
<1> QED
  BY <1>3, <1>4, <1>5, <1>6 DEF IInv

LEMMA InitInv == Init => IInv
<1> SUFFICES ASSUME Init PROVE IInv
  OBVIOUS
<1>1. /\ files = [i \in FileNo |-> <<>>] /\ head = NoHead /\ key \in Keys
      /\ writes = 0 /\ accepted = <<>> /\ acked = {} /\ gone = {}
  BY DEF Init
<1>2. files \in [FileNo -> Seq(Record)]
  BY <1>1
<1>3. accepted \in Seq(Record)
  BY <1>1
<1>4. TypeOK
  BY <1>1, <1>2, <1>3, ConstantsAssumption DEF TypeOK
<1>5. On(files) = {} /\ ToSet(accepted) = {}
  BY <1>1 DEF On, ToSet
<1>6. HeadsFormChain /\ HeadBehindLedger /\ MacsUnique
  BY <1>1, <1>5 DEF HeadsFormChain, Chained, EndOf, HeadBehindLedger, MacsUnique, Known
<1> QED
  BY <1>4, <1>6 DEF IInv

\* Whatever the next process does of recovery, it accepts nothing or a record
\* from the files that continues the chain.
LEMMA StartAccepts ==
  ASSUME TypeOK, files' \in Files, Start(files')
  PROVE  /\ key' \in Keys
         /\ \/ UNCHANGED <<head, accepted>>
            \/ \E r \in On(files') :
                 /\ r.seq = NextRecord.seq /\ r.prev = NextRecord.prev
                 /\ Accept(r)
<1>1. key' \in Keys
  BY DEF TypeOK, Start, NextKey
<1>2. CASE OneAhead(files', head, key') /\ Accept(Last(Newest(files')))
  <2> DEFINE r == Last(Newest(files'))
  <2>1. /\ head # NoHead /\ Newest(files') # <<>>
        /\ r.seq = head.lastSeq + 1 /\ r.prev = head.lastMac
    BY <1>2 DEF OneAhead
  <2>2. r \in On(files')
    BY <2>1, NewestIsOn
  <2>3. r.seq = NextRecord.seq /\ r.prev = NextRecord.prev
    BY <2>1 DEF NextRecord
  <2> QED
    BY <1>1, <1>2, <2>2, <2>3
<1> QED
  BY <1>1, <1>2 DEF Start

\* The files after a write that stopped anywhere.
LEMMA WriteKeepsFiles ==
  ASSUME IInv, NEW j \in RotationSteps, NEW appends \in BOOLEAN,
         files' = IF appends THEN Appended(Rotated(files, j), NextRecord) ELSE Rotated(files, j),
         gone' = gone \cup Pruned(files, j), writes' = writes + 1
  PROVE  /\ files' \in Files
         /\ gone' \subseteq Record
         /\ On(files') \subseteq On(files) \cup New
         /\ On(files) \subseteq On(files') \cup gone'
         /\ appends => NextRecord \in On(files')
<1>1. files \in Files /\ gone \subseteq Record /\ NextRecord \in Record
  BY NextContinues DEF IInv, TypeOK, Files
<1>2. Pruned(files, j) \subseteq Record
  <2>1. Backups \in FileNo
    BY ConstantsAssumption DEF FileNo
  <2> QED
    BY <1>1, <2>1 DEF Pruned, Files, ToSet
<1>3. /\ Rotated(files, j) \in Files
      /\ On(Rotated(files, j)) \subseteq On(files)
      /\ On(files) \subseteq On(Rotated(files, j)) \cup Pruned(files, j)
  BY <1>1, RotatedKeeps
<1>4. /\ Appended(Rotated(files, j), NextRecord) \in Files
      /\ On(Appended(Rotated(files, j), NextRecord)) = On(Rotated(files, j)) \cup {NextRecord}
  BY <1>1, <1>3, AppendedAdds
<1>5. New = {NextRecord}
  BY DEF New
<1> QED
  BY <1>1, <1>2, <1>3, <1>4, <1>5

LEMMA WriteInv ==
  ASSUME IInv, Write
  PROVE  IInv'
<1>1. writes' = writes + 1 /\ writes' \in 0..MaxWrites
  BY ConstantsAssumption DEF Write, IInv, TypeOK
<1>2. PICK j \in RotationSteps :
        /\ gone' = gone \cup Pruned(files, j)
        /\ \/ WriteOK(j)
           \/ \E appends \in BOOLEAN : WriteFails(j, appends) \/ WriteCrashes(j, appends)
  BY DEF Write
<1>3. CASE WriteOK(j)
  <2>1. files' = Appended(Rotated(files, j), NextRecord)
    BY <1>3 DEF WriteOK
  <2>2. /\ files' \in Files
        /\ gone' \subseteq Record
        /\ On(files') \subseteq On(files) \cup New
        /\ On(files) \subseteq On(files') \cup gone'
        /\ NextRecord \in On(files')
    BY <1>1, <1>2, <2>1, WriteKeepsFiles
  <2>3. key' \in Keys /\ Accept(NextRecord) /\ acked' = acked \cup {NextRecord}
    BY <1>3 DEF WriteOK, IInv, TypeOK
  <2> QED
    BY <1>1, <1>2, <2>2, <2>3, StepKeeps
<1>4. ASSUME NEW appends \in BOOLEAN, WriteFails(j, appends) \/ WriteCrashes(j, appends)
      PROVE  IInv'
  <2>1. /\ files' = IF appends THEN Appended(Rotated(files, j), NextRecord) ELSE Rotated(files, j)
        /\ acked' = acked
    BY <1>4 DEF WriteFails, WriteCrashes
  <2>2. /\ files' \in Files
        /\ gone' \subseteq Record
        /\ On(files') \subseteq On(files) \cup New
        /\ On(files) \subseteq On(files') \cup gone'
        /\ appends => NextRecord \in On(files')
    BY <1>1, <1>2, <2>1, WriteKeepsFiles
  <2>3. CASE WriteFails(j, appends)
    <3>1. key' \in Keys /\ UNCHANGED <<head, accepted, acked>>
      BY <2>3 DEF WriteFails, IInv, TypeOK
    <3> QED
      BY <1>1, <1>2, <2>2, <3>1, StepKeeps
  <2>4. CASE Start(files')
    <3>1. /\ key' \in Keys
          /\ \/ UNCHANGED <<head, accepted>>
             \/ \E r \in On(files') :
                  /\ r.seq = NextRecord.seq /\ r.prev = NextRecord.prev
                  /\ Accept(r)
      BY <2>2, <2>4, StartAccepts DEF IInv
    <3> QED
      BY <1>1, <1>2, <2>1, <2>2, <3>1, StepKeeps
  <2>5. CASE appends /\ Accept(NextRecord) /\ key' \in NextKey
    <3>1. key' \in Keys
      BY <2>5 DEF NextKey, IInv, TypeOK
    <3> QED
      BY <1>1, <1>2, <2>1, <2>2, <2>5, <3>1, StepKeeps
  <2> QED
    BY <1>4, <2>3, <2>4, <2>5 DEF WriteCrashes
<1> QED
  BY <1>2, <1>3, <1>4

LEMMA RestartInv ==
  ASSUME IInv, Restart
  PROVE  IInv'
<1>1. UNCHANGED <<files, writes, acked, gone>> /\ Start(files')
  BY DEF Restart
<1>2. /\ files \in Files /\ files' \in Files
      /\ writes' \in 0..MaxWrites /\ writes' = writes /\ gone' \subseteq Record
  BY <1>1 DEF IInv, TypeOK, Files
<1>3. On(files') \subseteq On(files) \cup New /\ On(files) \subseteq On(files') \cup gone'
  BY <1>1
<1>4. /\ key' \in Keys
      /\ \/ UNCHANGED <<head, accepted>>
         \/ \E r \in On(files') :
              /\ r.seq = NextRecord.seq /\ r.prev = NextRecord.prev
              /\ Accept(r)
  BY <1>1, <1>2, StartAccepts DEF IInv
<1> QED
  BY <1>1, <1>2, <1>3, <1>4, StepKeeps

LEMMA LoseFileInv ==
  ASSUME IInv, NEW i \in FileNo, LoseFile(i)
  PROVE  IInv'
<1>1. /\ files' = [files EXCEPT ![i] = <<>>] /\ gone' = gone \cup ToSet(files[i])
      /\ UNCHANGED <<head, key, writes, accepted, acked>>
  BY DEF LoseFile
<1>2. files \in Files /\ writes' \in 0..MaxWrites /\ key' \in Keys /\ gone \subseteq Record
  BY <1>1 DEF IInv, TypeOK, Files
<1>3. /\ files' \in Files /\ files'[i] = <<>>
      /\ \A k \in FileNo : k # i => files'[k] = files[k]
  <2>1. <<>> \in Seq(Record)
    OBVIOUS
  <2> QED
    BY <1>1, <1>2, <2>1 DEF Files
<1>4. On(files') \subseteq On(files)
  BY <1>3 DEF On, ToSet
<1>5. On(files) \subseteq On(files') \cup ToSet(files[i])
  BY <1>3 DEF On
<1>6. ToSet(files[i]) \subseteq Record
  BY <1>2 DEF Files, ToSet
<1> QED
  BY <1>1, <1>2, <1>3, <1>4, <1>5, <1>6, StepKeeps

LEMMA NextInv == IInv /\ [Next]_vars => IInv'
<1> SUFFICES ASSUME IInv, [Next]_vars PROVE IInv'
  OBVIOUS
<1>1. CASE Write
  BY <1>1, WriteInv
<1>2. CASE Restart
  BY <1>2, RestartInv
<1>3. ASSUME NEW i \in FileNo, LoseFile(i) PROVE IInv'
  BY <1>3, LoseFileInv
<1>4. CASE UNCHANGED vars
  <2>1. /\ files \in Files /\ files' \in Files /\ key' \in Keys
        /\ writes' \in 0..MaxWrites /\ writes' = writes /\ gone' = gone /\ gone' \subseteq Record
        /\ UNCHANGED <<files, head, accepted, acked>>
    BY <1>4 DEF IInv, TypeOK, Files, vars
  <2>2. On(files') \subseteq On(files) \cup New /\ On(files) \subseteq On(files') \cup gone'
    BY <2>1
  <2> QED
    BY <2>1, <2>2, StepKeeps
<1> QED
  BY <1>1, <1>2, <1>3, <1>4 DEF Next

-----------------------------------------------------------------------------
(***************************************************************************)
(* What the verifier calls intact.                                         *)
(***************************************************************************)

\* Records that verify against the end of a chain are that chain, when no MAC
\* was made twice: counted from the first on, they have as many records, and
\* traced back from the last, the same ones.
LEMMA IntactIsChain ==
  ASSUME NEW rs \in Seq(Record), NEW acc \in Seq(Record), Chained(acc), NEW h, h = EndOf(acc),
         NEW keyring, Verdict(rs, h, keyring) = "verified_intact",
         \A i \in 1..Len(rs), j \in 1..Len(acc) : rs[i].mac = acc[j].mac => rs[i] = acc[j]
  PROVE  rs = acc
<1>1. /\ rs # <<>> /\ h # NoHead /\ Linked(rs)
      /\ rs[1].seq = h.genesisSeq /\ Last(rs).seq = h.lastSeq /\ Last(rs).mac = h.lastMac
  BY DEF Verdict
<1>2. acc # <<>> /\ h = [genesisSeq |-> 1, genesisMac |-> acc[1].mac,
                         lastSeq |-> Len(acc), lastMac |-> Last(acc).mac]
  BY <1>1 DEF EndOf
<1>3. /\ Len(rs) \in Nat \ {0} /\ Len(acc) \in Nat \ {0}
      /\ Last(rs) = rs[Len(rs)] /\ Last(acc) = acc[Len(acc)]
      /\ \A i \in 1..Len(rs) : rs[i] \in Record
  BY <1>1, <1>2 DEF Last
<1>4. \A i \in 1..Len(rs) : rs[i].seq = i
  <2>1. PICK G : G = {i \in 1..Len(rs) : rs[i].seq = i}
    OBVIOUS
  <2>2. 1 \in G
    BY <1>1, <1>2, <1>3, <2>1
  <2>3. ASSUME NEW i \in 2..Len(rs), i - 1 \in G PROVE i \in G
    <3>1. rs[i].seq = rs[i - 1].seq + 1
      BY <1>1 DEF Linked
    <3> QED
      BY <1>3, <2>1, <2>3, <3>1
  <2> QED
    BY <1>3, <2>1, <2>2, <2>3, Upwards
<1>5. Len(rs) = Len(acc)
  BY <1>1, <1>2, <1>3, <1>4
<1>6. \A i \in 1..Len(rs) : rs[i] = acc[i]
  <2>1. PICK G : G = {i \in 1..Len(rs) : rs[i] = acc[i]}
    OBVIOUS
  <2>2. Len(rs) \in G
    BY <1>1, <1>2, <1>3, <1>5, <2>1
  <2>3. ASSUME NEW i \in 1..(Len(rs) - 1), i + 1 \in G PROVE i \in G
    <3>1. i + 1 \in 2..Len(rs) /\ i + 1 \in 1..Len(rs) /\ (i + 1) - 1 = i /\ i + 1 # 1
      BY <1>3
    <3>2. rs[i + 1].prev = rs[i].mac
      BY <1>1, <3>1 DEF Linked
    <3>3. acc[i + 1].prev = acc[i].mac
      BY <1>5, <3>1 DEF Chained
    <3>4. rs[i].mac = acc[i].mac
      BY <2>1, <2>3, <3>2, <3>3
    <3> QED
      BY <1>3, <1>5, <2>1, <3>4
  <2>4. 1..Len(rs) \subseteq G
    BY <1>3, <2>2, <2>3, Downwards
  <2> QED
    BY <2>1, <2>4
<1> QED
  BY <1>5, <1>6

\* A concatenation holds the elements of its parts.
LEMMA JoinedElements ==
  ASSUME NEW S, NEW s \in Seq(S), NEW t \in Seq(S)
  PROVE  s \o t \in Seq(S) /\ ToSet(s \o t) \subseteq ToSet(s) \cup ToSet(t)
<1>1. s \o t \in Seq(S)
  OBVIOUS
<1>2. ASSUME NEW i \in DOMAIN (s \o t) PROVE (s \o t)[i] \in ToSet(s) \cup ToSet(t)
  <2>1. i \in 1..(Len(s) + Len(t)) /\ Len(s) \in Nat /\ Len(t) \in Nat
    BY <1>2
  <2>2. CASE i \in 1..Len(s)
    BY <2>1, <2>2 DEF ToSet
  <2>3. CASE i - Len(s) \in 1..Len(t)
    BY <2>1, <2>3 DEF ToSet
  <2> QED
    BY <2>1, <2>2, <2>3
<1> QED
  BY <1>1, <1>2 DEF ToSet

\* flat[i] is the first i of the n parts ss joined, and all of them make FlattenSeq.
Joins(flat, ss, n) ==
  /\ FlattenSeq(ss) = flat[n]
  /\ \A i \in 1..n : flat[i] = IF i = 1 THEN ss[i] ELSE flat[i - 1] \o ss[i]

\* FlattenSeq joins the parts from the first on.
LEMMA FlattenedFrom ==
  ASSUME NEW T, NEW n \in Nat \ {0}, NEW ss \in [1..n -> T]
  PROVE  \E flat : Joins(flat, ss, n)
<1> DEFINE Flat(g, m) == g = [i \in 1..m |-> IF i = 1 THEN ss[i] ELSE g[i - 1] \o ss[i]]
<1>1. \E g : Flat(g, n)
  <2>1. PICK G : G = {m \in 1..n : \E g : Flat(g, m)}
    OBVIOUS
  <2>2. 1 \in G
    <3>1. Flat([i \in 1..1 |-> ss[i]], 1)
      OBVIOUS
    <3>2. \E g : Flat(g, 1)
      BY <3>1
    <3> HIDE DEF Flat
    <3> QED
      BY <2>1, <3>2
  <2>3. ASSUME NEW m \in 2..n, m - 1 \in G PROVE m \in G
    <3>1. PICK g : Flat(g, m - 1)
      BY <2>1, <2>3
    <3> DEFINE h == [i \in 1..m |-> IF i = m THEN g[m - 1] \o ss[m] ELSE g[i]]
    <3>2. \A i \in 1..m : h[i] = IF i = 1 THEN ss[i] ELSE h[i - 1] \o ss[i]
      <4> TAKE i \in 1..m
      <4>1. CASE i = m
        <5>1. m - 1 \in 1..m /\ m # 1 /\ h[m - 1] = g[m - 1]
          OBVIOUS
        <5> QED
          BY <4>1, <5>1
      <4>2. CASE i # m
        <5>1. i \in 1..(m - 1) /\ h[i] = g[i] /\ (i # 1 => h[i - 1] = g[i - 1])
          BY <4>2
        <5>2. g[i] = IF i = 1 THEN ss[i] ELSE g[i - 1] \o ss[i]
          BY <3>1, <5>1
        <5> QED
          BY <5>1, <5>2
      <4> QED
        BY <4>1, <4>2
    <3>3. Flat(h, m)
      <4>1. h = [i \in 1..m |-> h[i]]
        OBVIOUS
      <4> HIDE DEF h
      <4> QED
        BY <3>2, <4>1
    <3> HIDE DEF h, Flat
    <3> QED
      BY <2>1, <3>3
  <2>4. n \in 1..n
    OBVIOUS
  <2> HIDE DEF Flat
  <2> QED
    BY <2>1, <2>2, <2>3, <2>4, Upwards
<1> DEFINE flat == CHOOSE g : Flat(g, n)
<1>2. Flat(flat, n)
  BY <1>1
<1>3. FlattenSeq(ss) = flat[n]
  <2>1. Len(ss) = n
    OBVIOUS
  <2> QED
    BY <2>1 DEF FlattenSeq
<1> HIDE DEF flat
<1>4. \A i \in 1..n : flat[i] = IF i = 1 THEN ss[i] ELSE flat[i - 1] \o ss[i]
  BY <1>2
<1> QED
  BY <1>3, <1>4 DEF Joins

\* A concatenation of any number of parts holds their elements.
LEMMA FlattenedElements ==
  ASSUME NEW S, NEW n \in Nat \ {0}, NEW ss \in [1..n -> Seq(S)]
  PROVE  /\ FlattenSeq(ss) \in Seq(S)
         /\ ToSet(FlattenSeq(ss)) \subseteq UNION {ToSet(ss[i]) : i \in 1..n}
<1>1. PICK flat : Joins(flat, ss, n)
  BY FlattenedFrom
<1>2. PICK parts : parts = UNION {ToSet(ss[i]) : i \in 1..n}
  OBVIOUS
<1> DEFINE Good(s) == s \in Seq(S) /\ ToSet(s) \subseteq parts
<1>3. \A i \in 1..n : Good(ss[i])
  BY <1>2
<1>4. ASSUME NEW s, NEW t, Good(s), Good(t) PROVE Good(s \o t)
  BY <1>4, JoinedElements
<1>5. Good(flat[n])
  <2>1. PICK G : G = {i \in 1..n : Good(flat[i])}
    OBVIOUS
  <2>2. 1 \in G
    BY <1>1, <1>3, <2>1 DEF Joins
  <2>3. ASSUME NEW i \in 2..n, i - 1 \in G PROVE i \in G
    <3>1. i \in 1..n /\ i # 1
      OBVIOUS
    <3>2. flat[i] = flat[i - 1] \o ss[i]
      BY <1>1, <3>1 DEF Joins
    <3>3. Good(flat[i - 1]) /\ Good(ss[i])
      BY <1>3, <2>1, <2>3, <3>1
    <3> HIDE DEF Good
    <3> QED
      BY <1>4, <2>1, <3>1, <3>2, <3>3
  <2>4. n \in 1..n
    OBVIOUS
  <2> HIDE DEF Good
  <2> QED
    BY <2>1, <2>2, <2>3, <2>4, Upwards
<1> QED
  BY <1>1, <1>2, <1>5 DEF Joins

\* One part alone is its own concatenation.
LEMMA FlattenedOne ==
  ASSUME NEW T, NEW ss \in [1..1 -> T]
  PROVE  FlattenSeq(ss) = ss[1]
<1>1. 1 \in Nat \ {0} /\ 1 \in 1..1
  OBVIOUS
<1>2. PICK flat : Joins(flat, ss, 1)
  BY <1>1, FlattenedFrom
<1> QED
  BY <1>1, <1>2 DEF Joins

\* One more part is joined at the end.
LEMMA FlattenedMore ==
  ASSUME NEW S, NEW n \in Nat \ {0}, NEW ss \in [1..n -> Seq(S)],
         NEW tt \in [1..(n + 1) -> Seq(S)], \A i \in 1..n : tt[i] = ss[i]
  PROVE  FlattenSeq(tt) = FlattenSeq(ss) \o tt[n + 1]
<1>1. PICK fs : Joins(fs, ss, n)
  BY FlattenedFrom
<1> DEFINE m == n + 1
<1>2. m \in Nat \ {0} /\ tt \in [1..m -> Seq(S)]
  OBVIOUS
<1> HIDE DEF m
<1>3. PICK ft : Joins(ft, tt, m)
  BY <1>2, FlattenedFrom
<1> USE DEF m
<1>4. ft[n] = fs[n]
  <2>1. PICK G : G = {i \in 1..n : ft[i] = fs[i]}
    OBVIOUS
  <2>2. 1 \in G
    BY <1>1, <1>3, <2>1 DEF Joins
  <2>3. ASSUME NEW i \in 2..n, i - 1 \in G PROVE i \in G
    <3>1. i \in 1..n /\ i \in 1..(n + 1) /\ i # 1
      OBVIOUS
    <3>2. fs[i] = fs[i - 1] \o ss[i] /\ ft[i] = ft[i - 1] \o tt[i] /\ tt[i] = ss[i]
      BY <1>1, <1>3, <3>1 DEF Joins
    <3> QED
      BY <2>1, <2>3, <3>1, <3>2
  <2>4. n \in 1..n
    OBVIOUS
  <2>5. 1..n \subseteq G
    BY <2>1, <2>2, <2>3, Upwards
  <2> QED
    BY <2>1, <2>4, <2>5
<1>5. ft[n + 1] = ft[n] \o tt[n + 1]
  <2>1. n + 1 \in 1..(n + 1) /\ n + 1 # 1 /\ (n + 1) - 1 = n
    OBVIOUS
  <2> QED
    BY <1>3, <2>1 DEF Joins
<1> QED
  BY <1>1, <1>3, <1>4, <1>5 DEF Joins

\* The last of n + 1 retained backups has number n.
Counts(f, n) == (\A i \in 1..n : f[i] # <<>>) /\ (n < Backups => f[n + 1] = <<>>)

\* The retained files, oldest first.
Parts(f, n) == [k \in 1..(n + 1) |-> f[n + 1 - k]]

\* There is such a number.
LEMMA CountExists ==
  ASSUME NEW f \in Files
  PROVE  \E n \in FileNo : Counts(f, n)
<1>1. Backups \in Nat \ {0}
  BY ConstantsAssumption
<1>2. PICK T : T = {n \in FileNo : n < Backups => f[n + 1] = <<>>}
  OBVIOUS
<1>3. Backups \in T /\ T \in SUBSET Nat
  BY <1>1, <1>2 DEF FileNo
<1>4. PICK n \in T : \A k \in T : n =< k
  BY <1>3, LeastElement
<1>5. ASSUME NEW i \in 1..n PROVE f[i] # <<>>
  <2>1. i - 1 \in FileNo /\ ~(n =< i - 1) /\ (i - 1) + 1 = i
    BY <1>1, <1>2, <1>4 DEF FileNo
  <2>2. i - 1 \notin T
    BY <1>4, <2>1
  <2> QED
    BY <1>2, <2>1, <2>2
<1> QED
  BY <1>2, <1>4, <1>5 DEF Counts

\* There is only one, and its parts make the retained records.
LEMMA RetainedParts ==
  ASSUME NEW f \in Files, NEW n \in FileNo, Counts(f, n)
  PROVE  /\ Retained(f) = FlattenSeq(Parts(f, n))
         /\ Parts(f, n) \in [1..(n + 1) -> Seq(Record)]
         /\ n + 1 \in Nat \ {0}
<1>1. Backups \in Nat \ {0} /\ n \in 0..Backups
  BY ConstantsAssumption DEF FileNo
<1>2. ASSUME NEW m \in FileNo, Counts(f, m) PROVE m = n
  <2>1. m \in 0..Backups
    BY DEF FileNo
  <2>2. CASE m < n
    BY <1>1, <1>2, <2>1, <2>2 DEF Counts
  <2>3. CASE n < m
    BY <1>1, <1>2, <2>1, <2>3 DEF Counts
  <2> QED
    BY <1>1, <2>1, <2>2, <2>3
<1>3. RetainedCount(f) = CHOOSE m \in FileNo : Counts(f, m)
  BY DEF RetainedCount, Counts
<1>4. RetainedCount(f) = n
  BY <1>2, <1>3
<1>5. \A k \in 1..(n + 1) : n + 1 - k \in FileNo
  BY <1>1 DEF FileNo
<1> QED
  BY <1>1, <1>4, <1>5 DEF Retained, Parts, Files

\* The retained records are records of the files.
LEMMA RetainedAreOn ==
  ASSUME NEW f \in Files
  PROVE  Retained(f) \in Seq(Record) /\ ToSet(Retained(f)) \subseteq On(f)
<1>1. PICK n \in FileNo : Counts(f, n)
  BY CountExists
<1> DEFINE ss == Parts(f, n)
<1>2. /\ Retained(f) = FlattenSeq(ss)
      /\ ss \in [1..(n + 1) -> Seq(Record)] /\ n + 1 \in Nat \ {0}
  BY <1>1, RetainedParts
<1>3. \A k \in 1..(n + 1) : ToSet(ss[k]) \subseteq On(f)
  <2>1. \A k \in 1..(n + 1) : n + 1 - k \in FileNo
    BY ConstantsAssumption DEF FileNo
  <2> QED
    BY <2>1 DEF Parts, On
<1> HIDE DEF ss
<1>4. /\ FlattenSeq(ss) \in Seq(Record)
      /\ ToSet(FlattenSeq(ss)) \subseteq UNION {ToSet(ss[i]) : i \in 1..(n + 1)}
  BY <1>2, FlattenedElements
<1> QED
  BY <1>2, <1>3, <1>4


\* Intact records out of the files are all those the head ever named.
LEMMA IntactRecords ==
  ASSUME IInv, NEW rs \in Seq(Record), ToSet(rs) \subseteq On(files), NEW keyring,
         Verdict(rs, head, keyring) = "verified_intact"
  PROVE  rs = accepted
<1>1. /\ accepted \in Seq(Record) /\ Chained(accepted) /\ head = EndOf(accepted)
      /\ \A r, s \in Known : r.mac = s.mac => r = s
  BY DEF IInv, TypeOK, HeadsFormChain, MacsUnique
<1>2. \A i \in 1..Len(rs) : rs[i] \in Known
  BY DEF Known, ToSet
<1>3. \A j \in 1..Len(accepted) : accepted[j] \in Known
  BY <1>1 DEF Known, ToSet
<1> QED
  BY <1>1, <1>2, <1>3, IntactIsChain

LEMMA IntactComplete == IInv => IntactMeansComplete
<1> SUFFICES ASSUME IInv, Verdict(Retained(files), head, Keys) = "verified_intact"
             PROVE  Retained(files) = accepted
  BY DEF IntactMeansComplete
<1>1. Retained(files) \in Seq(Record) /\ ToSet(Retained(files)) \subseteq On(files)
  BY RetainedAreOn DEF IInv, TypeOK, Files
<1> QED
  BY <1>1, IntactRecords

\* A sequence without its last element.
LEMMA FrontElements ==
  ASSUME NEW S, NEW s \in Seq(S), s # <<>>
  PROVE  Front(s) \in Seq(S) /\ ToSet(Front(s)) \subseteq ToSet(s)
<1>1. Front(s) = SubSeq(s, 1, Len(s) - 1)
  BY DEF Front
<1>2. Len(s) \in Nat \ {0} /\ DOMAIN s = 1..Len(s)
  OBVIOUS
<1>3. /\ SubSeq(s, 1, Len(s) - 1) \in Seq(S)
      /\ Len(SubSeq(s, 1, Len(s) - 1)) = Len(s) - 1
      /\ \A i \in 1..(Len(s) - 1) : SubSeq(s, 1, Len(s) - 1)[i] = s[i]
  BY <1>2
<1>4. DOMAIN Front(s) = 1..(Len(s) - 1) /\ \A i \in 1..(Len(s) - 1) : i \in 1..Len(s)
  BY <1>1, <1>2, <1>3
<1> QED
  BY <1>1, <1>2, <1>3, <1>4 DEF ToSet

\* Recovery adopts a record whose past verifies.
LEMMA RecoveryOfIntact ==
  ASSUME IInv, [Next]_vars, head' # head, writes' = writes
  PROVE  Front(Retained(files)) = accepted
<1>1. Restart
  <2>1. ~Write
    BY DEF Write, IInv, TypeOK
  <2> QED
    BY <2>1 DEF Next, LoseFile, vars
<1>2. OneAhead(files, head, key')
  BY <1>1 DEF Restart, Start
<1>3. Verdict(Front(Retained(files)), head, {key'}) = "verified_intact"
  BY <1>2 DEF OneAhead
<1>4. Retained(files) \in Seq(Record) /\ ToSet(Retained(files)) \subseteq On(files)
  BY RetainedAreOn DEF IInv, TypeOK, Files
<1>5. Retained(files) # <<>>
  <2>1. head \in Checkpoint /\ Len(Retained(files)) >= head.lastSeq + 1
    BY <1>2 DEF OneAhead, IInv, TypeOK
  <2>2. head.lastSeq \in Nat
    BY <2>1 DEF Checkpoint
  <2> QED
    BY <2>1, <2>2
<1>6. Front(Retained(files)) \in Seq(Record) /\ ToSet(Front(Retained(files))) \subseteq On(files)
  BY <1>4, <1>5, FrontElements
<1> QED
  BY <1>3, <1>6, IntactRecords

-----------------------------------------------------------------------------
(***************************************************************************)
(* What the retained files hold as they change.                            *)
(***************************************************************************)

\* No files, no records.
LEMMA RetainedOfNone ==
  ASSUME NEW f \in Files, f[0] = <<>>, f[1] = <<>>
  PROVE  Retained(f) = <<>>
<1>1. 0 \in FileNo /\ Counts(f, 0)
  BY ConstantsAssumption DEF FileNo, Counts
<1>2. Retained(f) = FlattenSeq(Parts(f, 0))
  BY <1>1, RetainedParts
<1>3. Parts(f, 0) = [i \in 1..1 |-> f[1 - i]]
  BY DEF Parts
<1>4. Parts(f, 0) \in [1..1 -> {<<>>}] /\ Parts(f, 0)[1] = <<>>
  BY <1>3
<1> QED
  BY <1>2, <1>4, FlattenedOne

\* An appended record comes last.
LEMMA RetainedOfAppended ==
  ASSUME NEW f \in Files, NEW r \in Record
  PROVE  Retained(Appended(f, r)) = Append(Retained(f), r)
<1> DEFINE g == Appended(f, r)
<1>1. 0 \in FileNo /\ f[0] \in Seq(Record) /\ Backups \in Nat \ {0} /\ 1 \in FileNo
  BY ConstantsAssumption DEF FileNo, Files
<1>2. /\ g \in Files /\ g[0] = Append(f[0], r)
      /\ \A i \in FileNo : i # 0 => g[i] = f[i]
  BY <1>1, AppendedAdds DEF Appended, Files
<1>3. PICK n \in FileNo : Counts(f, n)
  BY CountExists
<1> HIDE DEF g
<1>4. Counts(g, n)
  BY <1>1, <1>2, <1>3 DEF Counts, FileNo
<1> DEFINE ss == Parts(f, n)
           tt == Parts(g, n)
<1>5. /\ Retained(f) = FlattenSeq(ss) /\ ss \in [1..(n + 1) -> Seq(Record)]
      /\ Retained(g) = FlattenSeq(tt) /\ tt \in [1..(n + 1) -> Seq(Record)]
      /\ n \in Nat
  BY <1>2, <1>3, <1>4, RetainedParts DEF FileNo
<1>6. /\ \A i \in 1..n : tt[i] = ss[i]
      /\ tt[n + 1] = Append(ss[n + 1], r)
  <2>1. \A i \in 1..n : n + 1 - i \in FileNo /\ n + 1 - i # 0 /\ i \in 1..(n + 1)
    BY <1>1, <1>5 DEF FileNo
  <2>2. n + 1 \in 1..(n + 1) /\ n + 1 - (n + 1) = 0
    BY <1>5
  <2> QED
    BY <1>2, <2>1, <2>2 DEF Parts
<1> HIDE DEF ss, tt
<1>7. CASE n = 0
  <2>1. ss \in [1..1 -> Seq(Record)] /\ tt \in [1..1 -> Seq(Record)] /\ n + 1 = 1
    BY <1>5, <1>7
  <2> QED
    BY <1>5, <1>6, <2>1, FlattenedOne DEF g
<1>8. CASE n # 0
  <2> DEFINE pp == [i \in 1..n |-> ss[i]]
  <2>1. n \in Nat \ {0} /\ pp \in [1..n -> Seq(Record)]
        /\ \A i \in 1..n : ss[i] = pp[i] /\ tt[i] = pp[i]
    BY <1>5, <1>6, <1>8
  <2> HIDE DEF pp
  <2>2. ASSUME NEW uu \in {ss, tt}
        PROVE  FlattenSeq(uu) = FlattenSeq(pp) \o uu[n + 1]
    <3>1. uu \in [1..(n + 1) -> Seq(Record)] /\ \A i \in 1..n : uu[i] = pp[i]
      BY <1>5, <2>1
    <3>2. n \in Nat \ {0} /\ pp \in [1..n -> Seq(Record)]
      BY <2>1
    <3> QED
      BY <3>1, <3>2, FlattenedMore
  <2>3. /\ FlattenSeq(ss) = FlattenSeq(pp) \o ss[n + 1]
        /\ FlattenSeq(tt) = FlattenSeq(pp) \o tt[n + 1]
    BY <2>2
  <2>4. FlattenSeq(pp) \in Seq(Record) /\ ss[n + 1] \in Seq(Record)
    BY <1>5, <2>1, FlattenedElements
  <2> QED
    BY <1>5, <1>6, <2>2, <2>3, <2>4 DEF g
<1> QED
  BY <1>7, <1>8

\* A rotation that prunes nothing changes no record's place.
LEMMA RetainedOfRotated ==
  ASSUME NEW f \in Files, f[0] # <<>>, f[Backups] = <<>>
  PROVE  Retained(Rotated(f, Backups + 1)) = Retained(f)
<1> DEFINE g == Rotated(f, Backups + 1)
<1>1. Backups \in Nat \ {0} /\ Backups \in FileNo
  BY ConstantsAssumption DEF FileNo
<1>2. /\ g \in Files /\ g[0] = <<>>
      /\ \A i \in 1..Backups : g[i] = f[i - 1]
  <2>1. Backups + 1 \in RotationSteps /\ Backups + 1 # 0
    BY <1>1 DEF RotationSteps
  <2>2. \A i \in FileNo : g[i] = IF i = 0 THEN <<>> ELSE f[i - 1]
    BY <1>1 DEF Rotated, FileNo
  <2> QED
    BY <1>1, <2>1, <2>2, RotatedKeeps DEF FileNo
<1>3. PICK n \in FileNo : Counts(f, n)
  BY CountExists
<1>4. n \in Nat /\ n < Backups
  BY <1>1, <1>3 DEF Counts, FileNo
<1> HIDE DEF g
<1>5. n + 1 \in FileNo /\ Counts(g, n + 1)
  <2>1. n + 1 \in 1..Backups
    BY <1>1, <1>4
  <2>2. ASSUME NEW i \in 1..(n + 1) PROVE g[i] # <<>>
    <3>1. g[i] = f[i - 1] /\ (i # 1 => i - 1 \in 1..n)
      BY <1>1, <1>2, <1>4
    <3> QED
      BY <1>3, <3>1 DEF Counts
  <2>3. n + 1 < Backups => g[n + 2] = f[n + 1]
    BY <1>1, <1>2, <1>4
  <2> QED
    BY <1>1, <1>3, <1>4, <2>1, <2>2, <2>3 DEF Counts, FileNo
<1> DEFINE ss == Parts(f, n)
           tt == Parts(g, n + 1)
<1>6. /\ Retained(f) = FlattenSeq(ss) /\ ss \in [1..(n + 1) -> Seq(Record)]
      /\ Retained(g) = FlattenSeq(tt) /\ tt \in [1..((n + 1) + 1) -> Seq(Record)]
      /\ n + 1 \in Nat \ {0}
  BY <1>2, <1>3, <1>5, RetainedParts
<1>7. \A i \in 1..(n + 1) : tt[i] = ss[i]
  <2> TAKE i \in 1..(n + 1)
  <2>1. /\ (n + 1) + 1 - i \in 1..Backups /\ ((n + 1) + 1 - i) - 1 = n + 1 - i
        /\ i \in 1..((n + 1) + 1)
    BY <1>1, <1>4
  <2> QED
    BY <1>2, <2>1 DEF Parts
<1>8. tt[(n + 1) + 1] = <<>>
  <2>1. (n + 1) + 1 \in 1..((n + 1) + 1) /\ (n + 1) + 1 - ((n + 1) + 1) = 0
    BY <1>4
  <2> QED
    BY <1>2, <2>1 DEF Parts
<1> HIDE DEF ss, tt
<1>9. FlattenSeq(tt) = FlattenSeq(ss) \o tt[(n + 1) + 1]
  BY <1>6, <1>7, FlattenedMore
<1>10. FlattenSeq(ss) \in Seq(Record)
  BY <1>6, FlattenedElements
<1>11. FlattenSeq(ss) \o <<>> = FlattenSeq(ss)
  BY <1>10
<1> QED
  BY <1>6, <1>8, <1>9, <1>11 DEF g

-----------------------------------------------------------------------------
(***************************************************************************)
(* What crashes leave.                                                     *)
(***************************************************************************)

\* Nothing but crashes, or nothing but changes of keys.
Calm == faults \in {{"crash"}, {"rekey"}}

\* The chain began with the first write, or will.
Began == writes = 0 \/ (accepted # <<>> /\ accepted[1].mac = 1)

\* The chain has one key, that of the process, unless keys change.
KeyKept == "rekey" \notin faults => \A i \in 1..Len(accepted) : accepted[i].key = key

\* The files f hold the chain, as long as nothing of it was pruned.
HoldsChain(f) == Calm /\ gone = {} /\ Began => Retained(f) = accepted /\ KeyKept

Settled == HoldsChain(files)

\* The chain verifies with the keys of its records.
LEMMA ChainVerifies ==
  ASSUME NEW acc \in Seq(Record), acc # <<>>, Chained(acc), NEW keyring,
         \A i \in 1..Len(acc) : acc[i].key \in keyring
  PROVE  Verdict(acc, EndOf(acc), keyring) = "verified_intact"
<1> DEFINE h == [genesisSeq |-> 1, genesisMac |-> acc[1].mac,
                 lastSeq |-> Len(acc), lastMac |-> Last(acc).mac]
<1>1. Len(acc) \in Nat \ {0} /\ 1 \in 1..Len(acc) /\ Len(acc) \in 1..Len(acc)
      /\ \A i \in 1..Len(acc) : acc[i] \in Record
  OBVIOUS
<1>2. EndOf(acc) = h
  BY DEF EndOf
<1>3. h # NoHead
  <2>1. Last(acc) \in Record /\ acc[1] \in Record
    BY <1>1 DEF Last
  <2>2. h \in Checkpoint
    BY <1>1, <2>1 DEF Checkpoint, Record
  <2> QED
    BY <2>2, NoHeadAssumption
<1>4. SelectInSeq(acc, LAMBDA r : r.key \notin keyring) = 0
  <2>1. {i \in 1..Len(acc) : acc[i].key \notin keyring} = {}
    OBVIOUS
  <2> QED
    BY <2>1 DEF SelectInSeq
<1>5. Linked(acc)
  <2>1. \A i \in 2..Len(acc) :
          i \in 1..Len(acc) /\ i - 1 \in 1..Len(acc) /\ i # 1 /\ (i - 1) + 1 = i
    BY <1>1
  <2> QED
    BY <2>1 DEF Linked, Chained
<1>6. /\ acc[1].seq = 1 /\ acc[1].prev = NoMac
      /\ Last(acc).seq = Len(acc)
  BY <1>1 DEF Chained, Last
<1> QED
  BY <1>2, <1>3, <1>4, <1>5, <1>6 DEF Verdict

\* What a chain without the newest record verifies as is adopted.
LEMMA OneAheadRecovers ==
  ASSUME TypeOK, HeadsFormChain, accepted # <<>>, NEW f \in Files, NEW k,
         \A i \in 1..Len(accepted) : accepted[i].key = k,
         NEW r \in Record, r.seq = NextRecord.seq, r.prev = NextRecord.prev, r.key = k,
         f[0] # <<>>, Last(f[0]) = r, Retained(f) = Append(accepted, r)
  PROVE  OneAhead(f, head, k) /\ Last(Newest(f)) = r
<1>1. /\ accepted \in Seq(Record) /\ Chained(accepted) /\ head = EndOf(accepted)
      /\ head # NoHead /\ head.lastSeq = Len(accepted)
      /\ r.seq = head.lastSeq + 1 /\ r.prev = head.lastMac
  BY NextContinues DEF TypeOK, HeadsFormChain, NextRecord
<1>2. Newest(f) = f[0]
  BY DEF Newest
<1>3. Len(Retained(f)) = Len(accepted) + 1 /\ Front(Retained(f)) = accepted
  BY <1>1 DEF Front
<1>4. Verdict(accepted, head, {k}) = "verified_intact"
  BY <1>1, ChainVerifies
<1>5. Len(accepted) \in Nat
  BY <1>1
<1> QED
  BY <1>1, <1>2, <1>3, <1>4, <1>5 DEF OneAhead

\* Nothing is adopted when the files hold the chain and no more.
LEMMA NothingAhead ==
  ASSUME TypeOK, HeadsFormChain, NEW f, NEW k,
         Retained(f) = accepted \/ accepted = <<>>
  PROVE  ~OneAhead(f, head, k)
<1>1. /\ accepted \in Seq(Record)
      /\ head = NoHead <=> accepted = <<>>
      /\ head # NoHead => head.lastSeq = Len(accepted)
  BY NextContinues DEF TypeOK
<1>2. Len(accepted) \in Nat
  BY <1>1
<1> QED
  BY <1>1, <1>2 DEF OneAhead

\* If a chain whose end is new began with the first write, so did it without.
LEMMA BeganBefore ==
  ASSUME TypeOK, NEW r \in Record, accepted' \in {accepted, Append(accepted, r)}, Began',
         writes' = writes + 1, accepted = <<>> => r.mac = writes + 1
  PROVE  Began
<1>1. accepted \in Seq(Record) /\ writes \in Nat
  BY DEF TypeOK
<1>2. accepted' # <<>> /\ accepted'[1].mac = 1
  BY <1>1 DEF Began
<1>3. CASE accepted = <<>>
  <2>1. accepted'[1] = r
    BY <1>1, <1>2, <1>3
  <2> QED
    BY <1>1, <1>2, <1>3, <2>1 DEF Began
<1>4. CASE accepted # <<>>
  <2>1. Len(accepted) \in Nat \ {0}
    BY <1>1, <1>4
  <2>2. accepted'[1] = accepted[1]
    BY <1>1, <2>1
  <2> QED
    BY <1>2, <1>4, <2>2 DEF Began
<1> QED
  BY <1>3, <1>4

\* A record that is appended comes last.
LEMMA LastOfAppended ==
  ASSUME NEW s \in Seq(Record), NEW r \in Record
  PROVE  Append(s, r) # <<>> /\ Last(Append(s, r)) = r
<1>1. /\ Len(s) \in Nat /\ Len(Append(s, r)) = Len(s) + 1
      /\ Append(s, r)[Len(s) + 1] = r
  BY AppendedSequence
<1> QED
  BY <1>1 DEF Last

\* The first record of a chain stays the first.
LEMMA FirstKept ==
  ASSUME NEW s \in Seq(Record), s # <<>>, NEW r \in Record
  PROVE  Append(s, r)[1] = s[1]
<1>1. Len(s) \in Nat \ {0}
  OBVIOUS
<1> QED
  BY <1>1

\* A record with the key in use keeps KeyKept.
LEMMA KeyKeptByAppend ==
  ASSUME KeyKept, UNCHANGED faults, NEW r \in Record, r.key = key, accepted \in Seq(Record),
         accepted' = Append(accepted, r), key' \in NextKey
  PROVE  KeyKept'
<1> SUFFICES ASSUME "rekey" \notin faults, NEW i \in 1..Len(accepted')
             PROVE  accepted'[i].key = key
  BY DEF KeyKept, NextKey
<1>1. Len(accepted) \in Nat /\ Len(accepted') = Len(accepted) + 1
  BY AppendedSequence
<1>2. CASE i \in 1..Len(accepted)
  BY <1>2, AppendedSequence DEF KeyKept
<1>3. CASE i = Len(accepted) + 1
  BY <1>3, AppendedSequence
<1> QED
  BY <1>1, <1>2, <1>3

\* The end of a write that is calm: it accepts its record, or the files are as
\* good as they were.
LEMMA WriteHolds ==
  ASSUME TypeOK, HeadsFormChain, NEW f \in Files, HoldsChain(f), UNCHANGED faults, Calm, Began',
         NEW j \in {0, Backups + 1}, j > 0 => f[0] # <<>>,
         writes' = writes + 1, gone' = gone \cup Pruned(f, j), gone' = {}, key' \in NextKey,
         NEW after,
         \/ after = Appended(Rotated(f, j), NextRecord) /\ Accept(NextRecord)
         \/ after = Appended(Rotated(f, j), NextRecord) /\ Start(after) /\ "crash" \in faults
         \/ after = Rotated(f, j) /\ Start(after)
  PROVE  Retained(after) = accepted' /\ KeyKept'
<1> DEFINE r == NextRecord
           g == Rotated(f, j)
<1>1. /\ r \in Record /\ r.mac = writes + 1 /\ r.key = key
      /\ accepted \in Seq(Record) /\ writes \in Nat
  BY NextContinues DEF TypeOK, NextRecord
<1> HIDE DEF r
<1>2. g \in Files /\ Retained(g) = Retained(f)
  <2>1. j \in RotationSteps
    BY ConstantsAssumption DEF RotationSteps
  <2>2. g \in Files
    BY <2>1, RotatedKeeps
  <2>3. CASE j = 0
    <3>1. g = f
      BY <1>1, <2>3 DEF Rotated, Files
    <3> QED
      BY <2>1, <2>2, <3>1
  <2>4. CASE j = Backups + 1
    <3>1. j > 0 /\ j # 0 /\ Backups \in FileNo
      BY <2>4, ConstantsAssumption DEF FileNo
    <3>2. f[0] # <<>> /\ ToSet(f[Backups]) = {}
      BY <3>1 DEF Pruned
    <3>3. f[Backups] = <<>>
      <4>1. f[Backups] \in Seq(Record)
        BY <1>1, <3>1 DEF Files
      <4>2. f[Backups] # <<>> => 1 \in DOMAIN f[Backups]
        BY <4>1
      <4> QED
        BY <3>2, <4>2 DEF ToSet
    <3> QED
      BY <1>1, <2>1, <2>2, <2>4, <3>2, <3>3, RetainedOfRotated
  <2> QED
    BY <2>1, <2>3, <2>4
<1> HIDE DEF g
<1> DEFINE a == Appended(g, r)
<1>3. /\ a \in Files /\ Retained(a) = Append(Retained(f), r)
      /\ a[0] # <<>> /\ Last(a[0]) = r
  <2>1. 0 \in FileNo /\ g[0] \in Seq(Record)
    BY <1>2, ConstantsAssumption DEF FileNo, Files
  <2>2. a[0] = Append(g[0], r)
    BY <1>2, <2>1 DEF Appended, Files
  <2>3. a[0] # <<>> /\ Last(a[0]) = r
    BY <1>1, <2>1, <2>2, LastOfAppended
  <2> QED
    BY <1>1, <1>2, <2>3, AppendedAdds, RetainedOfAppended
<1> HIDE DEF a
<1>4. \/ after = a /\ Accept(r)
      \/ after = a /\ Start(after) /\ "crash" \in faults
      \/ after = g /\ Start(after)
  BY DEF a, g, r
<1>5. Began /\ Retained(f) = accepted /\ KeyKept
  <2>1. CASE Accept(r)
    BY <1>1, <2>1, BeganBefore DEF Accept, HoldsChain
  <2>2. CASE Start(after)
    <3>1. PICK q : /\ accepted' \in {accepted, Append(accepted, q)}
                   /\ accepted' # accepted => q \in Record /\ accepted # <<>>
      <4>1. CASE UNCHANGED accepted
        BY <4>1
      <4>2. CASE OneAhead(after, head, key') /\ Accept(Last(Newest(after)))
        <5>1. Last(Newest(after)) \in Record
          BY <1>2, <1>3, <1>4, <4>2, NewestIsOn DEF OneAhead
        <5>2. accepted # <<>>
          BY <4>2, NothingAhead
        <5> QED
          BY <4>2, <5>1, <5>2 DEF Accept
      <4> QED
        BY <2>2, <4>1, <4>2 DEF Start
    <3>2. Began
      BY <1>1, <3>1, BeganBefore
    <3> QED
      BY <3>2 DEF HoldsChain
  <2> QED
    BY <1>4, <2>1, <2>2
<1>6. CASE after = a /\ Accept(r)
  <2>1. accepted' = Append(accepted, r)
    BY <1>6 DEF Accept
  <2>2. Retained(after) = accepted'
    BY <1>3, <1>5, <1>6, <2>1
  <2> QED
    BY <1>1, <1>4, <1>5, <2>1, <2>2, KeyKeptByAppend
<1>7. CASE after = a /\ Start(after) /\ "crash" \in faults
  <2>1. faults = {"crash"} /\ key' = key
    BY <1>4, <1>7 DEF Calm, NextKey
  <2>2. accepted # <<>>
    <3> SUFFICES ASSUME accepted = <<>> PROVE FALSE
      OBVIOUS
    <3>1. ~OneAhead(after, head, key')
      BY NothingAhead
    <3>2. accepted' = <<>> /\ writes' # 0
      <4>1. writes \in Nat
        BY DEF TypeOK
      <4> QED
        BY <1>1, <1>7, <3>1, <4>1 DEF Start
    <3> QED
      BY <3>2 DEF Began
  <2>3. \A i \in 1..Len(accepted) : accepted[i].key = key
    BY <1>5, <2>1 DEF KeyKept
  <2>4. Retained(a) = Append(accepted, r)
    BY <1>3, <1>5
  <2>5. r.seq = NextRecord.seq /\ r.prev = NextRecord.prev
    BY DEF r
  <2>6. OneAhead(a, head, key) /\ Last(Newest(a)) = r
    BY <1>1, <1>3, <2>2, <2>3, <2>4, <2>5, OneAheadRecovers
  <2>7. accepted' = Append(accepted, r)
    BY <1>7, <2>1, <2>6 DEF Start, Accept
  <2> QED
    BY <1>1, <1>4, <1>5, <1>7, <2>4, <2>7, KeyKeptByAppend
<1>8. CASE after = g /\ Start(after)
  <2>1. Retained(after) = accepted
    BY <1>2, <1>5, <1>8
  <2>2. accepted' = accepted
    BY <1>8, <2>1, NothingAhead DEF Start
  <2> QED
    BY <1>4, <1>5, <2>1, <2>2 DEF KeyKept, NextKey
<1> QED
  BY <1>4, <1>6, <1>7, <1>8

\* A planned restart finds the chain and no more.
LEMMA RestartHolds ==
  ASSUME TypeOK, HeadsFormChain, NEW f \in Files, HoldsChain(f), Start(f),
         UNCHANGED <<faults, writes, gone>>, Calm, gone = {}, Began'
  PROVE  Retained(f) = accepted' /\ KeyKept'
<1>1. key' \in NextKey
  BY DEF Start
<1>2. accepted' = accepted
  <2>1. CASE OneAhead(f, head, key') /\ Accept(Last(Newest(f)))
    <3>1. accepted # <<>>
      BY <2>1, NothingAhead
    <3>2. Last(Newest(f)) \in Record /\ accepted \in Seq(Record)
      BY <2>1, NewestIsOn DEF OneAhead, TypeOK
    <3>3. accepted' = Append(accepted, Last(Newest(f)))
      BY <2>1 DEF Accept
    <3>4. Began
      BY <1>1, <3>1, <3>2, <3>3, FirstKept DEF Began
    <3>5. Retained(f) = accepted
      BY <1>1, <3>4 DEF HoldsChain
    <3> QED
      BY <2>1, <3>5, NothingAhead
  <2> QED
    BY <1>1, <2>1 DEF Start
<1>3. Began
  BY <1>1, <1>2 DEF Began
<1> QED
  BY <1>1, <1>2, <1>3 DEF HoldsChain, KeyKept, NextKey

\* Nothing was written at the start.
LEMMA SettledInit == Init => Settled
<1> SUFFICES ASSUME Init PROVE Retained(files) = accepted /\ KeyKept
  BY DEF Settled, HoldsChain
<1>1. /\ files \in Files /\ files[0] = <<>> /\ files[1] = <<>> /\ accepted = <<>>
  BY ConstantsAssumption DEF Init, Files, FileNo
<1> QED
  BY <1>1, RetainedOfNone DEF KeyKept

\* Every step keeps Settled; the files shrink in none, as none is lost or pruned.
LEMMA SettledNext == IInv /\ Settled /\ [Next]_vars => Settled'
<1> SUFFICES ASSUME IInv, Settled, [Next]_vars, Calm', gone' = {}, Began'
             PROVE  Retained(files') = accepted' /\ KeyKept'
  BY DEF Settled, HoldsChain
<1>1. UNCHANGED faults
  BY DEF Next, vars
<1>2. Calm
  BY <1>1 DEF Calm
<1>3. TypeOK /\ HeadsFormChain /\ files \in Files /\ HoldsChain(files) /\ key \in NextKey
  BY DEF IInv, TypeOK, Files, Settled, NextKey
<1>4. CASE Write
  <2>1. PICK j \in RotationSteps :
          /\ j > 0 => Rotation /\ files[0] # <<>>
          /\ gone' = gone \cup Pruned(files, j)
          /\ \/ j \in {0, Backups + 1} /\ WriteOK(j)
             \/ \E appends \in BOOLEAN :
                  /\ j \in RotationStops
                  /\ appends => j \in {0, Backups + 1}
                  /\ WriteFails(j, appends) \/ WriteCrashes(j, appends)
    BY <1>4 DEF Write
  <2>2. j \in {0, Backups + 1} /\ writes' = writes + 1
    BY <1>2, <1>4, <2>1 DEF RotationStops, Calm, Write
  <2>3. PICK after : after = files'
    OBVIOUS
  <2>4. /\ key' \in NextKey
        /\ \/ after = Appended(Rotated(files, j), NextRecord) /\ Accept(NextRecord)
           \/ /\ after = Appended(Rotated(files, j), NextRecord)
              /\ Start(after) /\ "crash" \in faults
           \/ after = Rotated(files, j) /\ Start(after)
    <3>1. CASE WriteOK(j)
      BY <1>3, <2>3, <3>1 DEF WriteOK
    <3>2. ASSUME NEW appends \in BOOLEAN, WriteFails(j, appends) \/ WriteCrashes(j, appends)
          PROVE  /\ key' \in NextKey
                 /\ \/ after = Appended(Rotated(files, j), NextRecord) /\ Accept(NextRecord)
                    \/ /\ after = Appended(Rotated(files, j), NextRecord)
                       /\ Start(after) /\ "crash" \in faults
                    \/ after = Rotated(files, j) /\ Start(after)
      <4>1. WriteCrashes(j, appends)
        BY <1>2, <3>2 DEF WriteFails, Calm
      <4> QED
        BY <2>3, <4>1 DEF WriteCrashes, Start
    <3> QED
      BY <2>1, <3>1, <3>2
  <2>5. Retained(after) = accepted' /\ KeyKept'
    BY <1>1, <1>2, <1>3, <2>1, <2>2, <2>4, WriteHolds
  <2> QED
    BY <2>3, <2>5
<1>5. CASE Restart
  BY <1>1, <1>2, <1>3, <1>5, RestartHolds DEF Restart
<1>6. ASSUME NEW i \in FileNo, LoseFile(i) PROVE FALSE
  BY <1>2, <1>6 DEF LoseFile, Calm
<1>7. CASE UNCHANGED vars
  BY <1>2, <1>7 DEF vars, Settled, HoldsChain, Began, KeyKept
<1> QED
  BY <1>4, <1>5, <1>6, <1>7 DEF Next

-----------------------------------------------------------------------------
(***************************************************************************)
(* The theorems.                                                           *)
(***************************************************************************)

\* Every state of the chain satisfies the inductive invariant.
THEOREM InductiveInvariant == Spec => []IInv
<1> QED
  BY InitInv, NextInv, PTL DEF Spec

\* The chain's state stays within its types.
THEOREM TypeCorrect == Spec => []TypeOK
<1>1. IInv => TypeOK
  BY DEF IInv
<1> QED
  BY <1>1, InductiveInvariant, PTL

\* The heads form one chain, which holds every write answered True.
THEOREM ChainTheorem == Spec => []HeadsFormChain
<1>1. IInv => HeadsFormChain
  BY DEF IInv
<1> QED
  BY <1>1, InductiveInvariant, PTL

\* Every record the head ever named is in the files, pruned or lost.
THEOREM LedgerTheorem == Spec => []HeadBehindLedger
<1>1. IInv => HeadBehindLedger
  BY DEF IInv
<1> QED
  BY <1>1, InductiveInvariant, PTL

\* A ledger that verifies holds the chain, all of it, and nothing else.
THEOREM IntactTheorem == Spec => []IntactMeansComplete
<1> QED
  BY IntactComplete, InductiveInvariant, PTL

\* Recovery adopts a record only when all of its past is there.
THEOREM RecoveryTheorem == Spec => RecoveryExtendsIntact
<1>1. IInv /\ [Next]_vars => [head' # head /\ writes' = writes => Front(Retained(files)) = accepted]_vars
  BY RecoveryOfIntact
<1> QED
  BY <1>1, InductiveInvariant, PTL DEF Spec, RecoveryExtendsIntact

\* As long as nothing but crashes, or nothing but changes of keys, and no pruning
\* happened to a chain that began with the first write, the files hold it.
THEOREM SettledInvariant == Spec => [](IInv /\ Settled)
<1>1. Init => IInv /\ Settled
  BY InitInv, SettledInit
<1>2. IInv /\ Settled /\ [Next]_vars => IInv' /\ Settled'
  BY NextInv, SettledNext
<1> QED
  BY <1>1, <1>2, PTL DEF Spec

\* So does it verify: recovery adopts every record that a crash left ahead of the
\* head.
THEOREM UntilPrunedTheorem == Spec => []IntactUntilPruned
<1>1. IInv /\ Settled => IntactUntilPruned
  <2> SUFFICES ASSUME IInv, Settled, Calm, accepted # <<>>, accepted[1].mac = 1, gone = {}
               PROVE  Verdict(Retained(files), head, Keys) = "verified_intact"
    BY DEF IntactUntilPruned, Calm
  <2>1. Retained(files) = accepted
    BY DEF Settled, HoldsChain, Began
  <2>2. /\ accepted \in Seq(Record) /\ Chained(accepted) /\ head = EndOf(accepted)
    BY DEF IInv, TypeOK, HeadsFormChain
  <2>3. \A i \in 1..Len(accepted) : accepted[i].key \in Keys
    <3>1. \A i \in 1..Len(accepted) : accepted[i] \in Record
      BY <2>2
    <3> QED
      BY <3>1 DEF Record
  <2> QED
    BY <2>1, <2>2, <2>3, ChainVerifies
<1> QED
  BY <1>1, SettledInvariant, PTL
=============================================================================
