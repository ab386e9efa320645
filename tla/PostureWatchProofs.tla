------------------------- MODULE PostureWatchProofs -------------------------
(***************************************************************************)
(* Theorems about PostureWatch, for any number of backups, keys and        *)
(* writes, any faults and any set of deployments.                          *)
(***************************************************************************)
EXTENDS PostureWatch, EvidenceChainProofs

-----------------------------------------------------------------------------
(***************************************************************************)
(* The inductive invariant.                                                *)
(***************************************************************************)

\* What a write under way has done to the files it found.
WriterInv ==
  /\ writer \in [phase: {"idle", "rotate", "append", "save"}, j: RotationSteps]
  /\ before \in Files
  /\ writer.phase = "idle" => writer = Idle /\ files = before
  /\ writer.j > 0 => Rotation /\ before[0] # <<>>
  /\ writer.phase = "rotate" => writer.j =< Backups /\ files = Rotated(before, writer.j)
  /\ writer.phase \in {"rotate", "append", "save"} => writes < MaxWrites
  /\ writer.phase \in {"append", "save"} => writer.j \in {0, Backups + 1}
  /\ writer.phase = "rotate" => Rotation /\ before[0] # <<>>
  /\ writer.phase = "append" => files = Rotated(before, writer.j)
  /\ writer.phase = "save" => files = Appended(Rotated(before, writer.j), NextRecord)

\* Every record there is, the ones a read has put together included.
All == On(files) \cup On(before) \cup ToSet(accepted) \cup ToSet(reader.got)

\* They were made by a write of their own, the last one by the one under way.
AllUnique ==
  /\ \A r \in All : r.mac =< writes \/ (writer.phase = "save" /\ r = NextRecord)
  /\ \A r, s \in All : r.mac = s.mac => r = s

\* The head was the end of the chain when it was read.
WasHead(h) == h = NoHead \/ \E n \in 1..Len(accepted) : h = EndOf(SubSeq(accepted, 1, n))

ReaderInv ==
  /\ reader \in ReadState
  /\ WasHead(reader.head)
  /\ reader.verdict = "verified_intact" => reader.head # NoHead
  /\ reader.phase # "done" => reader.verdict = "none"

WatchIInv ==
  /\ TypeOK
  /\ HeadsFormChain
  /\ WriterInv
  /\ AllUnique
  /\ ReaderInv
  /\ IntactReportIsSnapshot

-----------------------------------------------------------------------------
(***************************************************************************)
(* Lemmas about prefixes of the chain.                                     *)
(***************************************************************************)
LEMMA PrefixOfChain ==
  ASSUME NEW rs \in Seq(Record), Chained(rs), NEW n \in 1..Len(rs)
  PROVE  /\ SubSeq(rs, 1, n) \in Seq(Record)
         /\ Len(SubSeq(rs, 1, n)) = n
         /\ \A i \in 1..n : SubSeq(rs, 1, n)[i] = rs[i]
         /\ Chained(SubSeq(rs, 1, n))
<1>1. /\ SubSeq(rs, 1, n) \in Seq(Record)
      /\ Len(SubSeq(rs, 1, n)) = n
      /\ \A i \in 1..n : SubSeq(rs, 1, n)[i] = rs[i]
  OBVIOUS
<1>2. \A i \in 1..n : i \in 1..Len(rs) /\ (i # 1 => i - 1 \in 1..n)
  OBVIOUS
<1> QED
  BY <1>1, <1>2 DEF Chained

\* The end of the chain is that of a prefix of it.
LEMMA HeadWasHead ==
  ASSUME TypeOK, HeadsFormChain
  PROVE  WasHead(head)
<1>1. accepted \in Seq(Record) /\ head = EndOf(accepted)
  BY DEF TypeOK, HeadsFormChain
<1>2. CASE accepted = <<>>
  BY <1>1, <1>2 DEF WasHead, EndOf
<1>3. CASE accepted # <<>>
  <2>1. Len(accepted) \in 1..Len(accepted) /\ SubSeq(accepted, 1, Len(accepted)) = accepted
    BY <1>1, <1>3
  <2> QED
    BY <1>1, <2>1 DEF WasHead
<1> QED
  BY <1>2, <1>3

\* Nothing the chain began with changes when a record is accepted.
LEMMA PrefixStays ==
  ASSUME NEW rs \in Seq(Record), NEW r \in Record, NEW n \in 1..Len(rs)
  PROVE  n \in 1..Len(Append(rs, r)) /\ SubSeq(Append(rs, r), 1, n) = SubSeq(rs, 1, n)
<1>1. /\ Append(rs, r) \in Seq(Record) /\ Len(Append(rs, r)) = Len(rs) + 1
      /\ \A i \in 1..Len(rs) : Append(rs, r)[i] = rs[i]
  OBVIOUS
<1> QED
  BY <1>1

LEMMA HeadSeq ==
  ASSUME TypeOK, HeadsFormChain, NEW h, WasHead(h), h # NoHead
  PROVE  h.lastSeq \in 1..Len(accepted)
<1>1. accepted \in Seq(Record) /\ Chained(accepted)
  BY DEF TypeOK, HeadsFormChain
<1>2. PICK n \in 1..Len(accepted) : h = EndOf(SubSeq(accepted, 1, n))
  BY DEF WasHead
<1>3. SubSeq(accepted, 1, n) \in Seq(Record) /\ Len(SubSeq(accepted, 1, n)) = n
  BY <1>1, PrefixOfChain
<1>4. SubSeq(accepted, 1, n) # <<>>
  BY <1>3
<1> QED
  BY <1>2, <1>3, <1>4 DEF EndOf

\* What the reader of intact records has put together.
LEMMA IntactRead ==
  ASSUME WatchIInv, NEW h, WasHead(h), NEW keyring,
         Verdict(reader.got, h, keyring) = "verified_intact"
  PROVE  reader.got = SubSeq(accepted, 1, h.lastSeq)
<1>1. /\ accepted \in Seq(Record) /\ Chained(accepted) /\ reader.got \in Seq(Record)
      /\ \A r, s \in All : r.mac = s.mac => r = s
  BY DEF WatchIInv, TypeOK, HeadsFormChain, ReaderInv, ReadState, AllUnique
<1>2. h # NoHead
  BY DEF Verdict
<1>3. PICK n \in 1..Len(accepted) : h = EndOf(SubSeq(accepted, 1, n))
  BY <1>2 DEF WasHead
<1>4. PICK acc : acc = SubSeq(accepted, 1, n)
  OBVIOUS
<1>5. /\ acc \in Seq(Record) /\ Len(acc) = n /\ Chained(acc)
      /\ \A i \in 1..n : acc[i] = accepted[i]
  BY <1>1, <1>4, PrefixOfChain
<1>6. h = EndOf(acc)
  BY <1>3, <1>4
<1>7. \A i \in 1..Len(reader.got) : reader.got[i] \in All
  BY <1>1 DEF All, ToSet
<1>8. \A j \in 1..Len(acc) : acc[j] \in All
  <2>1. \A j \in 1..n : j \in 1..Len(accepted) /\ j \in DOMAIN accepted
    BY <1>1
  <2> QED
    BY <1>5, <2>1 DEF All, ToSet
<1>9. reader.got = acc
  <2>1. \A i \in 1..Len(reader.got), j \in 1..Len(acc) :
          reader.got[i].mac = acc[j].mac => reader.got[i] = acc[j]
    BY <1>1, <1>7, <1>8
  <2> QED
    BY <1>1, <1>5, <1>6, <2>1, IntactIsChain
<1>10. h.lastSeq = n
  <2>1. acc # <<>>
    BY <1>5
  <2> QED
    BY <1>5, <1>6, <2>1 DEF EndOf
<1> QED
  BY <1>4, <1>9, <1>10

-----------------------------------------------------------------------------
(***************************************************************************)
(* What the steps keep.                                                    *)
(***************************************************************************)
LEMMA AllAreRecords ==
  ASSUME WatchIInv
  PROVE  /\ files \in Files /\ before \in Files
         /\ \A r \in All : r \in Record /\ r.mac \in Nat
         /\ writes \in Nat
         /\ NextRecord \in Record /\ NextRecord.mac = writes + 1
<1>1. /\ files \in Files /\ before \in Files
      /\ accepted \in Seq(Record) /\ reader.got \in Seq(Record)
      /\ writes \in Nat
  BY ConstantsAssumption DEF WatchIInv, TypeOK, Files, WriterInv, ReaderInv, ReadState
<1>2. ToSet(accepted) \subseteq Record /\ ToSet(reader.got) \subseteq Record
  BY <1>1 DEF ToSet
<1>3. NextRecord \in Record /\ NextRecord.mac = writes + 1
  BY NextContinues DEF WatchIInv
<1> QED
  BY <1>1, <1>2, <1>3, OnAreRecords DEF All, Record

\* A step that makes no record.
LEMMA UniqueStays ==
  ASSUME WatchIInv, All' \subseteq All,
         \/ writes' = writes + 1
         \/ /\ writes' = writes
            /\ writer.phase = "save" => writer'.phase = "save" /\ NextRecord' = NextRecord
  PROVE  AllUnique'
<1>1. AllUnique
  BY DEF WatchIInv
<1>2. \A r \in All' : r.mac =< writes' \/ (writer'.phase = "save" /\ r = NextRecord')
  BY <1>1, AllAreRecords DEF AllUnique
<1>3. \A r, s \in All' : r.mac = s.mac => r = s
  BY <1>1 DEF AllUnique
<1> QED
  BY <1>2, <1>3 DEF AllUnique

\* A step beside which a read goes on, or which ends it.
LEMMA ReadStays ==
  ASSUME WatchIInv,
         accepted' = accepted \/ \E r \in Record : accepted' = Append(accepted, r),
         \/ reader' = reader
         \/ reader' = NoRead
         \/ Reading /\ reader' = [reader EXCEPT !.quiet = FALSE]
  PROVE  /\ ReaderInv'
         /\ IntactReportIsSnapshot'
         /\ ToSet(reader'.got) \subseteq ToSet(reader.got)
<1>1. reader \in ReadState /\ WasHead(reader.head) /\ IntactReportIsSnapshot
  BY DEF WatchIInv, ReaderInv
<1>2. accepted \in Seq(Record)
  BY DEF WatchIInv, TypeOK
<1>3. \A n \in 1..Len(accepted) :
        n \in 1..Len(accepted') /\ SubSeq(accepted', 1, n) = SubSeq(accepted, 1, n)
  BY <1>2, PrefixStays
<1>4. \A h : WasHead(h) => WasHead(h)'
  <2> TAKE h
  <2>1. SUFFICES ASSUME NEW n \in 1..Len(accepted), h = EndOf(SubSeq(accepted, 1, n))
                 PROVE  \E m \in 1..Len(accepted') : h = EndOf(SubSeq(accepted', 1, m))
    BY DEF WasHead
  <2> QED
    BY <1>3, <2>1
<1>5. CASE reader' = NoRead
  <2>1. NoRead \in ReadState /\ NoRead.head = NoHead /\ NoRead.got = <<>>
        /\ NoRead.phase = "none" /\ NoRead.verdict = "none"
    <3>1. 0 \in FileNo
      BY ConstantsAssumption DEF FileNo
    <3>2. <<>> \in Seq(FileNo)
      OBVIOUS
    <3>3. <<>> \in Seq(Record)
      OBVIOUS
    <3> QED
      BY <3>1, <3>2, <3>3 DEF NoRead, ReadState, Readers
  <2>2. ReaderInv' /\ IntactReportIsSnapshot'
    BY <1>5, <2>1 DEF ReaderInv, WasHead, IntactReportIsSnapshot, Reported
  <2>3. ToSet(NoRead.got) = {}
    BY <2>1 DEF ToSet
  <2> QED
    BY <1>5, <2>2, <2>3
<1>6. CASE \/ reader' = reader
           \/ Reading /\ reader' = [reader EXCEPT !.quiet = FALSE]
  <2>1. /\ reader' \in ReadState
        /\ reader'.head = reader.head /\ reader'.got = reader.got
        /\ reader'.phase = reader.phase /\ reader'.verdict = reader.verdict
    BY <1>1, <1>6 DEF ReadState
  <2>2. ReaderInv'
    BY <1>1, <1>4, <2>1 DEF ReaderInv, WatchIInv
  <2>3. ASSUME Reported, reader.verdict = "verified_intact"
        PROVE  reader.got = SubSeq(accepted', 1, reader.head.lastSeq)
    <3>1. reader.got = SubSeq(accepted, 1, reader.head.lastSeq)
      BY <1>1, <2>3 DEF IntactReportIsSnapshot
    <3>2. reader.head.lastSeq \in 1..Len(accepted)
      BY <2>3, HeadSeq DEF WatchIInv, ReaderInv
    <3> QED
      BY <1>3, <3>1, <3>2
  <2>4. IntactReportIsSnapshot'
    BY <2>1, <2>3 DEF IntactReportIsSnapshot, Reported
  <2> QED
    BY <2>1, <2>2, <2>4
<1> QED
  BY <1>5, <1>6

\* The part of the invariant a step of the broker or from outside changes.
LEMMA BrokerStep ==
  ASSUME WatchIInv, WriterInv', files' \in Files, key' \in Keys,
         writes' \in {writes, writes + 1}, writes' =< MaxWrites, gone' \subseteq Record,
         \/ UNCHANGED <<head, accepted, acked>>
         \/ \E r \in Record :
              /\ r.seq = NextRecord.seq /\ r.prev = NextRecord.prev
              /\ Accept(r) /\ acked' \in {acked, acked \cup {r}},
         ReaderInv', IntactReportIsSnapshot', AllUnique'
  PROVE  WatchIInv'
<1>1. TypeOK /\ HeadsFormChain /\ writes \in Nat
  BY AllAreRecords DEF WatchIInv
<1>2. /\ accepted' \in Seq(Record) /\ head' \in Checkpoint \cup {NoHead}
      /\ acked' \subseteq Record
      /\ HeadsFormChain'
  <2>1. CASE UNCHANGED <<head, accepted, acked>>
    BY <1>1, <2>1 DEF TypeOK, HeadsFormChain, Chained, EndOf
  <2>2. ASSUME NEW r \in Record,
               r.seq = NextRecord.seq, r.prev = NextRecord.prev,
               Accept(r), acked' \in {acked, acked \cup {r}}
        PROVE  /\ accepted' \in Seq(Record) /\ head' \in Checkpoint \cup {NoHead}
               /\ acked' \subseteq Record
               /\ HeadsFormChain'
    <3>1. /\ accepted' \in Seq(Record)
          /\ ToSet(accepted') = ToSet(accepted) \cup {r}
          /\ Chained(accepted')
          /\ head' = EndOf(accepted') /\ head' \in Checkpoint
      BY <1>1, <2>2, AcceptExtends
    <3>2. acked' \subseteq ToSet(accepted') /\ acked' \subseteq Record
      BY <1>1, <2>2, <3>1 DEF TypeOK, HeadsFormChain
    <3> QED
      BY <3>1, <3>2 DEF HeadsFormChain, Chained, EndOf
  <2> QED
    BY <2>1, <2>2
<1>3. writes' \in 0..MaxWrites
  BY <1>1, ConstantsAssumption
<1>4. TypeOK'
  BY <1>2, <1>3 DEF TypeOK, Files
<1> QED
  BY <1>2, <1>4 DEF WatchIInv

LEMMA RotatedByNone ==
  ASSUME NEW f \in Files
  PROVE  Rotated(f, 0) = f
BY DEF Rotated, Files

\* What Disturb and Abandon make of a read.
LEMMA DisturbedRead ==
  ASSUME Disturb \/ Abandon
  PROVE  \/ reader' = reader
         \/ reader' = NoRead
         \/ Reading /\ reader' = [reader EXCEPT !.quiet = FALSE]
BY DEF Disturb, Abandon

LEMMA BeginWriteInv ==
  ASSUME WatchIInv, BeginWrite
  PROVE  WatchIInv'
<1>1. /\ writer = Idle /\ writes < MaxWrites /\ Disturb
      /\ UNCHANGED <<faults, files, head, key, writes, accepted, acked, gone, before>>
  BY DEF BeginWrite, vars
<1>2. files = before /\ files \in Files /\ WriterInv /\ writes \in Nat
  BY <1>1, AllAreRecords DEF WatchIInv, WriterInv, Idle
<1>3. WriterInv'
  <2>1. PICK phase \in {"rotate", "append"} :
          /\ phase = "rotate" => Rotation /\ files[0] # <<>>
          /\ writer' = [phase |-> phase, j |-> 0]
    BY DEF BeginWrite
  <2>2. 0 \in RotationSteps /\ 0 =< Backups
    BY ConstantsAssumption DEF RotationSteps
  <2>3. files = Rotated(before, 0)
    BY <1>2, RotatedByNone
  <2>4. writer'.phase = phase /\ writer'.j = 0
    BY <2>1
  <2> QED
    BY <1>1, <1>2, <2>1, <2>2, <2>3, <2>4 DEF WriterInv
<1>4. ReaderInv' /\ IntactReportIsSnapshot' /\ ToSet(reader'.got) \subseteq ToSet(reader.got)
  BY <1>1, DisturbedRead, ReadStays
<1>5. AllUnique'
  <2>1. All' \subseteq All
    BY <1>1, <1>4 DEF All
  <2> QED
    BY <1>1, <2>1, UniqueStays DEF Idle
<1>6. files' \in Files /\ key' \in Keys /\ writes' =< MaxWrites /\ gone' \subseteq Record
  BY <1>1, <1>2, ConstantsAssumption DEF WatchIInv, TypeOK
<1> QED
  BY <1>1, <1>3, <1>4, <1>5, <1>6, BrokerStep

LEMMA RotateStepInv ==
  ASSUME WatchIInv, RotateStep
  PROVE  WatchIInv'
<1>1. /\ writer.phase = "rotate" /\ Disturb
      /\ writer' = [phase |-> IF writer.j = Backups THEN "append" ELSE "rotate", j |-> writer.j + 1]
      /\ files' = Rotated(before, writer.j + 1)
      /\ UNCHANGED <<faults, head, key, writes, accepted, acked, gone, before>>
  BY DEF RotateStep
<1>2. /\ before \in Files /\ WriterInv /\ writes < MaxWrites /\ writes \in Nat
      /\ writer.j \in 0..Backups /\ Rotation /\ before[0] # <<>>
  BY <1>1, AllAreRecords, ConstantsAssumption DEF WatchIInv, WriterInv, RotationSteps
<1>3. writer.j + 1 \in RotationSteps
  BY <1>2, ConstantsAssumption DEF RotationSteps
<1>4. files' \in Files /\ On(files') \subseteq On(before)
  BY <1>1, <1>2, <1>3, RotatedKeeps
<1>5. WriterInv'
  <2>1. CASE writer.j = Backups
    <3>1. writer'.phase = "append" /\ writer'.j = Backups + 1
          /\ writer' \in [phase: {"idle", "rotate", "append", "save"}, j: RotationSteps]
      BY <1>1, <1>3, <2>1
    <3> QED
      BY <1>1, <1>2, <2>1, <3>1 DEF WriterInv
  <2>2. CASE writer.j # Backups
    <3>1. writer'.phase = "rotate" /\ writer'.j = writer.j + 1 /\ writer.j + 1 =< Backups
          /\ writer' \in [phase: {"idle", "rotate", "append", "save"}, j: RotationSteps]
      BY <1>1, <1>2, <1>3, <2>2, ConstantsAssumption
    <3> QED
      BY <1>1, <1>2, <3>1 DEF WriterInv
  <2> QED
    BY <2>1, <2>2
<1>6. ReaderInv' /\ IntactReportIsSnapshot' /\ ToSet(reader'.got) \subseteq ToSet(reader.got)
  BY <1>1, DisturbedRead, ReadStays
<1>7. AllUnique'
  <2>1. All' \subseteq All
    BY <1>1, <1>4, <1>6 DEF All
  <2> QED
    BY <1>1, <2>1, UniqueStays
<1>8. key' \in Keys /\ writes' =< MaxWrites /\ gone' \subseteq Record
  BY <1>1, <1>2, ConstantsAssumption DEF WatchIInv, TypeOK
<1> QED
  BY <1>1, <1>4, <1>5, <1>6, <1>7, <1>8, BrokerStep

LEMMA AppendLineInv ==
  ASSUME WatchIInv, AppendLine
  PROVE  WatchIInv'
<1>1. /\ writer.phase = "append" /\ Disturb
      /\ files' = Appended(files, NextRecord)
      /\ writer' = [writer EXCEPT !.phase = "save"]
      /\ UNCHANGED <<faults, head, key, writes, accepted, acked, gone, before>>
  BY DEF AppendLine
<1>2. /\ WriterInv /\ writes < MaxWrites /\ writes \in Nat
      /\ writer.j \in {0, Backups + 1} /\ files = Rotated(before, writer.j)
      /\ files \in Files /\ before \in Files /\ NextRecord \in Record /\ NextRecord.mac = writes + 1
  BY <1>1, AllAreRecords DEF WatchIInv, WriterInv
<1>3. files' \in Files /\ On(files') = On(files) \cup {NextRecord}
  BY <1>1, <1>2, AppendedAdds
<1>4. NextRecord' = NextRecord
  BY <1>1 DEF NextRecord
<1>5. WriterInv'
  <2>1. writer'.phase = "save" /\ writer'.j = writer.j
        /\ writer' \in [phase: {"idle", "rotate", "append", "save"}, j: RotationSteps]
    BY <1>1, <1>2 DEF WriterInv
  <2> QED
    BY <1>1, <1>2, <1>4, <2>1 DEF WriterInv
<1>6. ReaderInv' /\ IntactReportIsSnapshot' /\ ToSet(reader'.got) \subseteq ToSet(reader.got)
  BY <1>1, DisturbedRead, ReadStays
<1>7. AllUnique'
  <2>1. All' \subseteq All \cup {NextRecord}
    BY <1>1, <1>3, <1>6 DEF All
  <2>2. \A r \in All : r.mac =< writes /\ r.mac \in Nat
    BY <1>1, AllAreRecords DEF WatchIInv, AllUnique
  <2>3. \A r \in All' : r.mac =< writes' \/ (writer'.phase = "save" /\ r = NextRecord')
    <3>1. writer'.phase = "save"
      BY <1>1, <1>2 DEF WriterInv
    <3> QED
      BY <1>1, <1>4, <2>1, <2>2, <3>1
  <2>4. ASSUME NEW r \in All', NEW q \in All', r.mac = q.mac PROVE r = q
    <3>1. CASE r \in All /\ q \in All
      BY <2>4, <3>1 DEF WatchIInv, AllUnique
    <3>2. CASE r \in All /\ q = NextRecord
      BY <1>2, <2>2, <2>4, <3>2
    <3>3. CASE r = NextRecord /\ q \in All
      BY <1>2, <2>2, <2>4, <3>3
    <3> QED
      BY <2>1, <3>1, <3>2, <3>3
  <2> QED
    BY <2>3, <2>4 DEF AllUnique
<1>8. key' \in Keys /\ writes' =< MaxWrites /\ gone' \subseteq Record
  BY <1>1, <1>2, ConstantsAssumption DEF WatchIInv, TypeOK
<1> QED
  BY <1>1, <1>3, <1>5, <1>6, <1>7, <1>8, BrokerStep

\* The end of a write: the files stay as they are, with what a fault left.
LEMMA EndWriteInv ==
  ASSUME WatchIInv, EndWrite, Disturb \/ Abandon, key' \in Keys,
         \/ UNCHANGED <<head, accepted, acked>>
         \/ \E r \in On(files) :
              /\ r.seq = NextRecord.seq /\ r.prev = NextRecord.prev
              /\ Accept(r) /\ acked' \in {acked, acked \cup {r}}
  PROVE  WatchIInv'
<1>1. /\ writer # Idle /\ writer' = Idle
      /\ writes' = writes + 1 /\ gone' = gone \cup Pruned(before, writer.j)
      /\ before' = files /\ files' = files
  BY DEF EndWrite
<1>2. /\ WriterInv /\ files \in Files /\ before \in Files /\ writes \in Nat
      /\ gone \subseteq Record /\ accepted \in Seq(Record)
  BY AllAreRecords DEF WatchIInv, TypeOK
<1>3. writes < MaxWrites
  BY <1>1, <1>2 DEF WriterInv
<1>4. gone' \subseteq Record
  <2>1. before[Backups] \in Seq(Record)
    BY <1>2, ConstantsAssumption DEF Files, FileNo
  <2> QED
    BY <1>1, <1>2, <2>1 DEF Pruned, ToSet
<1>5. WriterInv'
  <2>1. Idle \in [phase: {"idle", "rotate", "append", "save"}, j: RotationSteps]
        /\ Idle.phase = "idle" /\ Idle.j = 0
    BY ConstantsAssumption DEF Idle, RotationSteps
  <2> QED
    BY <1>1, <1>2, <2>1 DEF WriterInv
<1>6. /\ accepted' = accepted \/ \E r \in Record : accepted' = Append(accepted, r)
      /\ ToSet(accepted') \subseteq ToSet(accepted) \cup On(files)
  <2>1. CASE UNCHANGED <<head, accepted, acked>>
    BY <2>1
  <2>2. ASSUME NEW r \in On(files), Accept(r)
        PROVE  /\ accepted' = accepted \/ \E q \in Record : accepted' = Append(accepted, q)
               /\ ToSet(accepted') \subseteq ToSet(accepted) \cup On(files)
    <3>1. r \in Record /\ accepted' = Append(accepted, r)
      BY <1>2, <2>2, OnAreRecords DEF Accept
    <3>2. ToSet(accepted') = ToSet(accepted) \cup {r}
      BY <1>2, <3>1, AppendedSequence
    <3> QED
      BY <3>1, <3>2
  <2> QED
    BY <2>1, <2>2
<1>7. ReaderInv' /\ IntactReportIsSnapshot' /\ ToSet(reader'.got) \subseteq ToSet(reader.got)
  BY <1>6, DisturbedRead, ReadStays
<1>8. AllUnique'
  <2>1. All' = On(files') \cup On(before') \cup ToSet(accepted') \cup ToSet(reader'.got)
    BY DEF All
  <2>2. All' \subseteq All
    BY <1>1, <1>6, <1>7, <2>1 DEF All
  <2> QED
    BY <1>1, <2>2, UniqueStays
<1>9. \/ UNCHANGED <<head, accepted, acked>>
      \/ \E r \in Record :
           /\ r.seq = NextRecord.seq /\ r.prev = NextRecord.prev
           /\ Accept(r) /\ acked' \in {acked, acked \cup {r}}
  BY <1>2, OnAreRecords
<1>10. files' \in Files /\ writes' =< MaxWrites
  BY <1>1, <1>2, <1>3, ConstantsAssumption
<1> QED
  BY <1>1, <1>4, <1>5, <1>7, <1>8, <1>9, <1>10, BrokerStep

\* The line is in the files when the head is saved.
LEMMA LineIsThere ==
  ASSUME WatchIInv, writer.phase = "save"
  PROVE  NextRecord \in On(files)
<1>1. /\ before \in Files /\ writer.j \in RotationSteps /\ NextRecord \in Record
      /\ files = Appended(Rotated(before, writer.j), NextRecord)
  BY AllAreRecords DEF WatchIInv, WriterInv
<1> QED
  BY <1>1, RotatedKeeps, AppendedAdds

LEMMA SaveHeadInv ==
  ASSUME WatchIInv, SaveHead
  PROVE  WatchIInv'
<1>1. /\ Accept(NextRecord) /\ acked' = acked \cup {NextRecord} /\ EndWrite /\ Disturb
      /\ key' = key /\ NextRecord \in On(files)
  BY LineIsThere DEF SaveHead
<1>2. key' \in Keys
  BY <1>1 DEF WatchIInv, TypeOK
<1> QED
  BY <1>1, <1>2, EndWriteInv

LEMMA FailWriteInv ==
  ASSUME WatchIInv, FailWrite
  PROVE  WatchIInv'
<1>1. EndWrite /\ Disturb /\ UNCHANGED <<head, key, accepted, acked>>
  BY DEF FailWrite
<1>2. key' \in Keys
  BY <1>1 DEF WatchIInv, TypeOK
<1> QED
  BY <1>1, <1>2, EndWriteInv

LEMMA CrashInWriteInv ==
  ASSUME WatchIInv, CrashInWrite
  PROVE  WatchIInv'
<1>1. EndWrite /\ Abandon /\ acked' = acked /\ files' = files /\ files \in Files /\ TypeOK
  BY AllAreRecords DEF CrashInWrite, EndWrite, WatchIInv
<1>2. CASE Start(files)
  <2>1. Start(files')
    BY <1>1, <1>2
  <2>2. /\ key' \in Keys
        /\ \/ UNCHANGED <<head, accepted>>
           \/ \E r \in On(files') :
                /\ r.seq = NextRecord.seq /\ r.prev = NextRecord.prev
                /\ Accept(r)
    BY <1>1, <2>1, StartAccepts
  <2>3. \/ UNCHANGED <<head, accepted, acked>>
        \/ \E r \in On(files) :
             /\ r.seq = NextRecord.seq /\ r.prev = NextRecord.prev
             /\ Accept(r) /\ acked' \in {acked, acked \cup {r}}
    BY <1>1, <2>2
  <2> QED
    BY <1>1, <2>2, <2>3, EndWriteInv
<1>3. CASE writer.phase = "save" /\ Accept(NextRecord) /\ key' \in NextKey
  <2>1. NextRecord \in On(files) /\ key' \in Keys
    BY <1>1, <1>3, LineIsThere DEF NextKey, TypeOK
  <2> QED
    BY <1>1, <1>3, <2>1, EndWriteInv
<1> QED
  BY <1>2, <1>3 DEF CrashInWrite

LEMMA WatchRestartInv ==
  ASSUME WatchIInv, WatchRestart
  PROVE  WatchIInv'
<1>1. /\ writer = Idle /\ Abandon
      /\ UNCHANGED <<faults, writer, before, files, writes, acked, gone>>
      /\ Start(files') /\ files' \in Files /\ TypeOK /\ writes \in Nat
  BY AllAreRecords DEF WatchRestart, Restart, WatchIInv
<1>2. /\ key' \in Keys
      /\ \/ UNCHANGED <<head, accepted>>
         \/ \E r \in On(files') :
              /\ r.seq = NextRecord.seq /\ r.prev = NextRecord.prev
              /\ Accept(r)
  BY <1>1, StartAccepts
<1>3. /\ \/ UNCHANGED <<head, accepted, acked>>
         \/ \E r \in Record :
              /\ r.seq = NextRecord.seq /\ r.prev = NextRecord.prev
              /\ Accept(r) /\ acked' \in {acked, acked \cup {r}}
      /\ accepted' = accepted \/ \E r \in Record : accepted' = Append(accepted, r)
      /\ ToSet(accepted') \subseteq ToSet(accepted) \cup On(files)
  <2>1. CASE UNCHANGED <<head, accepted>>
    BY <1>1, <2>1
  <2>2. ASSUME NEW r \in On(files'), r.seq = NextRecord.seq, r.prev = NextRecord.prev, Accept(r)
        PROVE  /\ \/ UNCHANGED <<head, accepted, acked>>
                  \/ \E q \in Record :
                       /\ q.seq = NextRecord.seq /\ q.prev = NextRecord.prev
                       /\ Accept(q) /\ acked' \in {acked, acked \cup {q}}
               /\ accepted' = accepted \/ \E q \in Record : accepted' = Append(accepted, q)
               /\ ToSet(accepted') \subseteq ToSet(accepted) \cup On(files)
    <3>1. r \in Record /\ accepted' = Append(accepted, r) /\ accepted \in Seq(Record)
      BY <1>1, <2>2, OnAreRecords DEF Accept, TypeOK
    <3>2. ToSet(accepted') = ToSet(accepted) \cup {r} /\ r \in On(files)
      BY <1>1, <3>1, AppendedSequence
    <3> QED
      BY <1>1, <2>2, <3>1, <3>2
  <2> QED
    BY <1>2, <2>1, <2>2
<1>4. WriterInv'
  BY <1>1 DEF WatchIInv, WriterInv, Idle
<1>5. ReaderInv' /\ IntactReportIsSnapshot' /\ ToSet(reader'.got) \subseteq ToSet(reader.got)
  BY <1>1, <1>3, DisturbedRead, ReadStays
<1>6. AllUnique'
  <2>1. All' = On(files') \cup On(before') \cup ToSet(accepted') \cup ToSet(reader'.got)
    BY DEF All
  <2>2. All' \subseteq All
    BY <1>1, <1>3, <1>5, <2>1 DEF All
  <2> QED
    BY <1>1, <2>2, UniqueStays DEF Idle
<1>7. writes' =< MaxWrites /\ gone' \subseteq Record
  BY <1>1, ConstantsAssumption DEF TypeOK
<1> QED
  BY <1>1, <1>2, <1>3, <1>4, <1>5, <1>6, <1>7, BrokerStep

LEMMA WatchLoseFileInv ==
  ASSUME WatchIInv, NEW i \in FileNo, WatchLoseFile(i)
  PROVE  WatchIInv'
<1>1. /\ writer = Idle /\ Disturb /\ before' = files' /\ UNCHANGED <<faults, writer>>
      /\ files' = [files EXCEPT ![i] = <<>>] /\ gone' = gone \cup ToSet(files[i])
      /\ UNCHANGED <<head, key, writes, accepted, acked>>
  BY DEF WatchLoseFile, LoseFile
<1>2. files \in Files /\ WriterInv /\ TypeOK /\ writes \in Nat
  BY AllAreRecords DEF WatchIInv
<1>3. /\ files' \in Files /\ files'[i] = <<>>
      /\ \A k \in FileNo : k # i => files'[k] = files[k]
  <2>1. <<>> \in Seq(Record)
    OBVIOUS
  <2> QED
    BY <1>1, <1>2, <2>1 DEF Files
<1>4. On(files') \subseteq On(files)
  BY <1>3 DEF On, ToSet
<1>5. WriterInv'
  BY <1>1, <1>2, <1>3 DEF WriterInv, Idle
<1>6. ReaderInv' /\ IntactReportIsSnapshot' /\ ToSet(reader'.got) \subseteq ToSet(reader.got)
  BY <1>1, DisturbedRead, ReadStays
<1>7. AllUnique'
  <2>1. All' \subseteq All
    BY <1>1, <1>4, <1>6 DEF All
  <2> QED
    BY <1>1, <2>1, UniqueStays DEF Idle
<1>8. key' \in Keys /\ writes' =< MaxWrites /\ gone' \subseteq Record
  <2>1. ToSet(files[i]) \subseteq Record
    BY <1>2 DEF Files, ToSet
  <2> QED
    BY <1>1, <1>2, <2>1, ConstantsAssumption DEF TypeOK
<1> QED
  BY <1>1, <1>3, <1>5, <1>6, <1>7, <1>8, BrokerStep

\* A step of a reader: the records it has read are in the files or were read
\* before, and what it reports intact is the chain.
LEMMA ReaderStep ==
  ASSUME WatchIInv, UNCHANGED <<vars, writer, before>>,
         reader' \in ReadState,
         reader'.head \in {reader.head, head, NoHead},
         ToSet(reader'.got) \subseteq ToSet(reader.got) \cup On(files),
         reader'.phase # "done" => reader'.verdict = "none",
         reader'.verdict = "verified_intact" =>
           reader'.head # NoHead /\ reader'.got = SubSeq(accepted, 1, reader'.head.lastSeq)
  PROVE  WatchIInv'
<1>1. /\ TypeOK /\ HeadsFormChain /\ WriterInv /\ AllUnique /\ WasHead(reader.head)
      /\ UNCHANGED <<faults, files, head, key, writes, accepted, acked, gone>>
  BY DEF WatchIInv, ReaderInv, vars
<1>2. TypeOK' /\ HeadsFormChain' /\ WriterInv'
  <2>1. NextRecord' = NextRecord
    BY <1>1 DEF NextRecord
  <2>2. TypeOK' /\ HeadsFormChain'
    BY <1>1 DEF TypeOK, HeadsFormChain, Chained, EndOf
  <2>3. WriterInv'
    BY <1>1, <2>1 DEF WriterInv
  <2> QED
    BY <2>2, <2>3
<1>3. WasHead(reader.head)'
  <2>1. \A h : WasHead(h) => WasHead(h)'
    BY <1>1 DEF WasHead
  <2>2. WasHead(reader.head) /\ WasHead(head) /\ WasHead(NoHead)
    BY <1>1, HeadWasHead DEF WasHead
  <2>3. PICK h : h = reader'.head /\ WasHead(h)
    BY <2>2
  <2> QED
    BY <2>1, <2>3 DEF WasHead
<1>4. ReaderInv'
  BY <1>3 DEF ReaderInv, WasHead
<1>5. IntactReportIsSnapshot'
  BY <1>1 DEF IntactReportIsSnapshot
<1>6. AllUnique'
  <2>1. All' = On(files') \cup On(before') \cup ToSet(accepted') \cup ToSet(reader'.got)
    BY DEF All
  <2>2. All' \subseteq All
    BY <1>1, <2>1 DEF All
  <2>3. NextRecord' = NextRecord
    BY <1>1 DEF NextRecord
  <2> QED
    BY <1>1, <2>2, <2>3, UniqueStays
<1> QED
  BY <1>2, <1>4, <1>5, <1>6 DEF WatchIInv

\* The verdict is one of three, intact only against a head.
LEMMA Verdicts ==
  ASSUME NEW rs, NEW h, NEW keyring
  PROVE  /\ Verdict(rs, h, keyring) \in {"cannot_verify", "verified_intact", "verified_tampered"}
         /\ Verdict(rs, h, keyring) = "verified_intact" => h # NoHead
BY DEF Verdict

LEMMA BeginReadInv ==
  ASSUME WatchIInv, NEW kind \in Readers, BeginRead(kind), UNCHANGED <<vars, writer, before>>
  PROVE  WatchIInv'
<1>1. /\ 0 \in FileNo /\ <<>> \in Seq(FileNo) /\ <<>> \in Seq(Record)
      /\ head \in Checkpoint \cup {NoHead}
  <2>1. 0 \in FileNo
    BY ConstantsAssumption DEF FileNo
  <2>2. <<>> \in Seq(FileNo)
    OBVIOUS
  <2>3. <<>> \in Seq(Record)
    OBVIOUS
  <2> QED
    BY <2>1, <2>2, <2>3 DEF WatchIInv, TypeOK
<1>2. PICK h : h = IF kind = "posture" THEN head ELSE NoHead
  OBVIOUS
<1>3. reader' = [kind |-> kind, phase |-> "probe", head |-> h, n |-> 0, todo |-> <<>>,
                 got |-> <<>>, quiet |-> (writer = Idle), verdict |-> "none"]
  BY <1>2 DEF BeginRead, NoRead
<1>4. h \in {head, NoHead}
  BY <1>2
<1>5. reader' \in ReadState
  BY <1>1, <1>3, <1>4 DEF ReadState
<1>6. /\ reader'.head = h /\ reader'.got = <<>> /\ reader'.verdict = "none"
  BY <1>3
<1>7. ToSet(reader'.got) = {}
  BY <1>6 DEF ToSet
<1> QED
  BY <1>4, <1>5, <1>6, <1>7, ReaderStep

LEMMA ProbeInv ==
  ASSUME WatchIInv, Probe, UNCHANGED <<vars, writer, before>>
  PROVE  WatchIInv'
<1>1. reader \in ReadState /\ reader.verdict = "none" /\ reader.phase = "probe"
  BY DEF WatchIInv, ReaderInv, Probe
<1>2. /\ reader' \in ReadState
      /\ reader'.head = reader.head /\ reader'.got = reader.got /\ reader'.verdict = "none"
  <2>1. CASE reader.n < Backups /\ reader' = [reader EXCEPT !.n = reader.n + 1]
    <3>1. reader.n + 1 \in FileNo
      BY <1>1, <2>1, ConstantsAssumption DEF ReadState, FileNo
    <3> QED
      BY <1>1, <2>1, <3>1 DEF ReadState
  <2>2. CASE reader' = [reader EXCEPT !.phase = "base"]
    BY <1>1, <2>2 DEF ReadState
  <2> QED
    BY <2>1, <2>2 DEF Probe
<1> QED
  BY <1>2, ReaderStep

LEMMA ProbeBaseInv ==
  ASSUME WatchIInv, ProbeBase, UNCHANGED <<vars, writer, before>>
  PROVE  WatchIInv'
<1>1. reader \in ReadState /\ reader.verdict = "none" /\ reader.n \in FileNo
  BY DEF WatchIInv, ReaderInv, ProbeBase, ReadState
<1>2. PICK todo : todo = [k \in 1..reader.n |-> reader.n + 1 - k]
                           \o (IF files[0] # <<>> THEN <<0>> ELSE <<>>)
  OBVIOUS
<1>3. reader' = [reader EXCEPT !.phase = "open", !.todo = todo]
  BY <1>2 DEF ProbeBase
<1>4. todo \in Seq(FileNo)
  <2>1. PICK n : n = reader.n
    OBVIOUS
  <2>2. n \in Nat /\ n =< Backups /\ Backups \in Nat
    BY <1>1, <2>1, ConstantsAssumption DEF FileNo
  <2>3. \A k \in 1..n : n + 1 - k \in FileNo
    BY <2>2 DEF FileNo
  <2>4. [k \in 1..n |-> n + 1 - k] \in Seq(FileNo)
    BY <2>2, <2>3
  <2>5. 0 \in FileNo
    BY <2>2 DEF FileNo
  <2>6. (IF files[0] # <<>> THEN <<0>> ELSE <<>>) \in Seq(FileNo)
    BY <2>5
  <2> QED
    BY <1>2, <2>1, <2>4, <2>6
<1>5. /\ reader' \in ReadState
      /\ reader'.head = reader.head /\ reader'.got = reader.got /\ reader'.verdict = "none"
  BY <1>1, <1>3, <1>4 DEF ReadState
<1> QED
  BY <1>5, ReaderStep

LEMMA ReadSegmentInv ==
  ASSUME WatchIInv, ReadSegment, UNCHANGED <<vars, writer, before>>
  PROVE  WatchIInv'
<1>1. /\ reader \in ReadState /\ reader.verdict = "none" /\ reader.todo \in Seq(FileNo)
      /\ reader.todo # <<>> /\ reader.got \in Seq(Record) /\ files \in Files
  BY AllAreRecords DEF WatchIInv, ReaderInv, ReadSegment, ReadState
<1>2. PICK i : i = Head(reader.todo)
  OBVIOUS
<1>3. i \in FileNo /\ Tail(reader.todo) \in Seq(FileNo)
  BY <1>1, <1>2
<1>4. files[i] \in Seq(Record) /\ ToSet(files[i]) \subseteq On(files)
  BY <1>1, <1>3 DEF Files, On
<1>5. CASE reader' = Answered(reader.head, <<>>, "cannot_verify")
  <2>1. 0 \in FileNo /\ <<>> \in Seq(FileNo) /\ <<>> \in Seq(Record)
    <3>1. 0 \in FileNo
      BY ConstantsAssumption DEF FileNo
    <3>2. <<>> \in Seq(FileNo)
      OBVIOUS
    <3>3. <<>> \in Seq(Record)
      OBVIOUS
    <3> QED
      BY <3>1, <3>2, <3>3
  <2>2. /\ reader' \in ReadState /\ reader'.phase = "done"
        /\ reader'.head = reader.head /\ reader'.got = <<>> /\ reader'.verdict = "cannot_verify"
    BY <1>1, <1>5, <2>1 DEF ReadState, Answered
  <2>3. ToSet(reader'.got) = {}
    BY <2>2 DEF ToSet
  <2> QED
    BY <2>2, <2>3, ReaderStep
<1>6. CASE reader' = [reader EXCEPT !.todo = Tail(reader.todo), !.got = reader.got \o files[i]]
  <2>1. PICK got : got = reader.got \o files[i]
    OBVIOUS
  <2>2. got \in Seq(Record) /\ ToSet(got) \subseteq ToSet(reader.got) \cup ToSet(files[i])
    BY <1>1, <1>4, <2>1, JoinedElements
  <2>3. reader' = [reader EXCEPT !.todo = Tail(reader.todo), !.got = got]
    BY <1>6, <2>1
  <2>4. /\ reader' \in ReadState
        /\ reader'.head = reader.head /\ reader'.got = got /\ reader'.verdict = "none"
    BY <1>1, <1>3, <2>2, <2>3 DEF ReadState
  <2> QED
    BY <1>4, <2>2, <2>4, ReaderStep
<1> QED
  BY <1>2, <1>5, <1>6 DEF ReadSegment

LEMMA ReportInv ==
  ASSUME WatchIInv, Report, UNCHANGED <<vars, writer, before>>
  PROVE  WatchIInv'
<1>1. reader \in ReadState /\ WasHead(reader.head) /\ WasHead(head)
      /\ head \in Checkpoint \cup {NoHead}
  BY HeadWasHead DEF WatchIInv, ReaderInv, TypeOK
<1>2. PICK h : h = IF reader.kind = "posture" THEN reader.head ELSE head
  OBVIOUS
<1>3. PICK verdict : verdict = Verdict(reader.got, h, Keyring(reader.kind))
  OBVIOUS
<1>4. h \in {reader.head, head} /\ WasHead(h) /\ h \in Checkpoint \cup {NoHead}
  BY <1>1, <1>2 DEF ReadState
<1>5. verdict \in {"cannot_verify", "verified_intact", "verified_tampered"}
  BY <1>3, Verdicts
<1>6. reader' = Answered(h, reader.got, verdict)
  BY <1>2, <1>3 DEF Report
<1>7. 0 \in FileNo /\ <<>> \in Seq(FileNo)
  <2>1. 0 \in FileNo
    BY ConstantsAssumption DEF FileNo
  <2>2. <<>> \in Seq(FileNo)
    OBVIOUS
  <2> QED
    BY <2>1, <2>2
<1>8. /\ reader' \in ReadState /\ reader'.phase = "done"
      /\ reader'.head = h /\ reader'.got = reader.got /\ reader'.verdict = verdict
  BY <1>1, <1>4, <1>5, <1>6, <1>7 DEF ReadState, Answered
<1>9. verdict = "verified_intact" => h # NoHead /\ reader.got = SubSeq(accepted, 1, h.lastSeq)
  BY <1>3, <1>4, Verdicts, IntactRead
<1> QED
  BY <1>4, <1>8, <1>9, ReaderStep

LEMMA WatchInitInv == WatchInit => WatchIInv
<1> SUFFICES ASSUME WatchInit PROVE WatchIInv
  OBVIOUS
<1>1. Init /\ writer = Idle /\ before = files /\ reader = NoRead
  BY DEF WatchInit
<1>2. IInv
  BY <1>1, InitInv
<1>3. TypeOK /\ HeadsFormChain
  BY <1>2 DEF IInv
<1>4. /\ 0 \in RotationSteps /\ 0 \in FileNo /\ files \in Files
  BY <1>3, ConstantsAssumption DEF RotationSteps, FileNo, TypeOK, Files
<1>5. WriterInv
  BY <1>1, <1>4 DEF WriterInv, Idle
<1>6. ToSet(reader.got) = {}
  BY <1>1 DEF NoRead, ToSet
<1>7. AllUnique
  BY <1>1, <1>2, <1>6 DEF IInv, MacsUnique, Known, AllUnique, All
<1>8. ReaderInv
  <2>1. <<>> \in Seq(FileNo)
    OBVIOUS
  <2>2. <<>> \in Seq(Record)
    OBVIOUS
  <2>3. NoRead \in ReadState
    BY <1>4, <2>1, <2>2 DEF NoRead, ReadState, Readers
  <2> QED
    BY <1>1, <2>3 DEF ReaderInv, NoRead, WasHead
<1>9. IntactReportIsSnapshot
  BY <1>1 DEF IntactReportIsSnapshot, Reported, NoRead
<1> QED
  BY <1>3, <1>5, <1>7, <1>8, <1>9 DEF WatchIInv

LEMMA WatchStutterInv ==
  ASSUME WatchIInv, UNCHANGED watchVars
  PROVE  WatchIInv'
<1>1. UNCHANGED <<vars, writer, before>> /\ reader' = reader
  BY DEF watchVars
<1>2. /\ reader' \in ReadState /\ reader'.head = reader.head
      /\ reader'.phase # "done" => reader'.verdict = "none"
      /\ reader'.verdict = "verified_intact" =>
           reader'.head # NoHead /\ reader'.got = SubSeq(accepted, 1, reader'.head.lastSeq)
  BY <1>1 DEF WatchIInv, ReaderInv, IntactReportIsSnapshot, Reported
<1> QED
  BY <1>1, <1>2, ReaderStep

LEMMA WatchNextInv == WatchIInv /\ [WatchNext]_watchVars => WatchIInv'
<1> SUFFICES ASSUME WatchIInv, [WatchNext]_watchVars PROVE WatchIInv'
  OBVIOUS
<1>1. CASE BeginWrite
  BY <1>1, BeginWriteInv
<1>2. CASE RotateStep
  BY <1>2, RotateStepInv
<1>3. CASE AppendLine
  BY <1>3, AppendLineInv
<1>4. CASE SaveHead
  BY <1>4, SaveHeadInv
<1>5. CASE FailWrite
  BY <1>5, FailWriteInv
<1>6. CASE CrashInWrite
  BY <1>6, CrashInWriteInv
<1>7. CASE WatchRestart
  BY <1>7, WatchRestartInv
<1>8. ASSUME NEW i \in FileNo, WatchLoseFile(i) PROVE WatchIInv'
  BY <1>8, WatchLoseFileInv
<1>9. CASE Read
  <2>1. UNCHANGED <<vars, writer, before>>
    BY <1>9 DEF Read
  <2> QED
    BY <1>9, <2>1, BeginReadInv, ProbeInv, ProbeBaseInv, ReadSegmentInv, ReportInv DEF Read
<1>10. CASE UNCHANGED watchVars
  BY <1>10, WatchStutterInv
<1> QED
  BY <1>1, <1>2, <1>3, <1>4, <1>5, <1>6, <1>7, <1>8, <1>9, <1>10 DEF WatchNext

-----------------------------------------------------------------------------
(***************************************************************************)
(* Theorems.                                                               *)
(***************************************************************************)

\* The invariant holds throughout: the writer is where its phase says, every
\* record in the files, in the chain and in the hands of a reader was made by a
\* write of its own, and a reader holds a head that the chain once had.
THEOREM WatchInductive == WatchSpec => []WatchIInv
BY WatchInitInv, WatchNextInv, PTL DEF WatchSpec

\* Every variable of the writer and of the reader keeps its type.
THEOREM WatchTypeTheorem == WatchSpec => []WatchTypeOK
<1>1. WatchIInv => WatchTypeOK
  BY DEF WatchIInv, WriterInv, ReaderInv, WatchTypeOK, Files
<1> QED
  BY <1>1, WatchInductive, PTL

\* A read that overlaps writes, rotations, crashes and losses in any way, and
\* still finds the ledger intact, has put together exactly the chain up to the
\* head it compared.
THEOREM SnapshotTheorem == WatchSpec => []IntactReportIsSnapshot
<1>1. WatchIInv => IntactReportIsSnapshot
  BY DEF WatchIInv
<1> QED
  BY <1>1, WatchInductive, PTL

\* Nothing but a pass of every check makes a broker ready.
LEMMA ReadyChecks ==
  ASSUME NEW d, NEW verdict, Mode(d, verdict) = "hard_enforcement_ready"
  PROVE  \A c \in DOMAIN Checks(d, verdict) : Checks(d, verdict)[c] = "pass"
<1>1. StatusesOf(Checks(d, verdict)) = {"pass"}
  BY DEF Mode
<1> QED
  BY <1>1 DEF StatusesOf

\* A broker that was let start is called ready only when its settings are
\* operative and it has just read the whole chain.
THEOREM ReadyTheorem == WatchSpec => []ReadyOnlyWhenOperative
<1>1. WatchIInv => ReadyOnlyWhenOperative
  <2> SUFFICES ASSUME WatchIInv, Reported, NEW d \in Deployments,
                      Mode(d, reader.verdict) = "hard_enforcement_ready"
               PROVE  /\ d.auth = "signature" /\ "active" \in d.keyring /\ "bad" \notin d.keyring
                      /\ d.token /\ d.privilege = "user"
                      /\ d.roots /\ d.gogHome /\ d.exposed = {}
                      /\ d.hmac = EvidenceVariables
                      /\ reader.got = SubSeq(accepted, 1, reader.head.lastSeq)
    BY DEF ReadyOnlyWhenOperative
  <2>1. d.exposed \in SUBSET (Paths \cup {"gog_home"})
    BY DeploymentsAssumption DEF Deployment
  <2>2. /\ Checks(d, reader.verdict).process_privilege = "pass"
        /\ Checks(d, reader.verdict).broker_auth = "pass"
        /\ Checks(d, reader.verdict).mailbox_backend = "pass"
        /\ Checks(d, reader.verdict).approval_boundary = "pass"
        /\ Checks(d, reader.verdict).evidence_integrity = "pass"
        /\ Checks(d, reader.verdict).path_isolation = "pass"
        /\ Checks(d, reader.verdict).gog_home = "pass"
    <3>1. DOMAIN Checks(d, reader.verdict) =
            {"process_privilege", "broker_auth", "mailbox_backend", "approval_boundary",
             "evidence_integrity", "path_isolation", "gog_home", "evidence_rotation",
             "direct_gmail_bypass"}
      BY DEF Checks
    <3> QED
      BY <3>1, ReadyChecks
  <2>3. d.privilege = "user"
    BY <2>2 DEF Checks
  <2>4. d.token
    BY <2>2 DEF Checks
  <2>5. d.auth = "signature" /\ "active" \in d.keyring /\ "bad" \notin d.keyring
    BY <2>2 DEF Checks, SignatureReady
  <2>6. d.hmac = EvidenceVariables /\ reader.verdict = "verified_intact"
    BY <2>2 DEF Checks, IntegrityMode, ChainStatus
  <2>7. d.roots /\ d.exposed \cap Paths = {}
    BY <2>2 DEF Checks
  <2>8. d.gogHome /\ "gog_home" \notin d.exposed
    BY <2>2, <2>7 DEF Checks
  <2>9. d.exposed = {}
    BY <2>1, <2>7, <2>8
  <2>10. reader.got = SubSeq(accepted, 1, reader.head.lastSeq)
    BY <2>6 DEF WatchIInv, IntactReportIsSnapshot
  <2> QED
    BY <2>3, <2>4, <2>5, <2>6, <2>7, <2>8, <2>9, <2>10
<1> QED
  BY <1>1, WatchInductive, PTL

-----------------------------------------------------------------------------
(***************************************************************************)
(* A read beside which nothing was written.                                *)
(***************************************************************************)

\* The files hold the chain whenever the writer is idle.
Held == HoldsChain(before)

\* The files a reader lists: the backups it counted and the active one.
Listed == IF files[0] # <<>> THEN reader.n + 1 ELSE reader.n

\* It has read the first m of them, oldest first.
HasRead(m) ==
  /\ reader.todo = [k \in 1..(Listed - m) |-> reader.n + 1 - m - k]
  /\ reader.got = FlattenSeq([k \in 1..m |-> files[reader.n + 1 - k]])

\* A read that is still alone counts and reads the retained files as they are,
\* and compares the head as it is.
ReadAlone ==
  Reading /\ reader.quiet =>
    /\ writer = Idle
    /\ reader.kind = "posture" => reader.head = head
    /\ \A i \in 1..reader.n : files[i] # <<>>
    /\ reader.phase \in {"probe", "base"} => reader.got = <<>>
    /\ reader.phase \in {"base", "open"} => Counts(files, reader.n)
    /\ reader.phase = "open" => \E m \in 0..Listed : HasRead(m)

QuietIInv == WatchIInv /\ Held /\ ReadAlone /\ QuietReadIsIntact

\* The chain is never called tampered with, whatever keys are at hand.
LEMMA ChainTolerated ==
  ASSUME NEW acc \in Seq(Record), acc # <<>>, Chained(acc), NEW keyring
  PROVE  Verdict(acc, EndOf(acc), keyring) # "verified_tampered"
<1> DEFINE Unknown(r) == r.key \notin keyring
           T == {i \in 1..Len(acc) : Unknown(acc[i])}
<1>1. CASE T = {}
  <2>1. \A i \in 1..Len(acc) : acc[i].key \in keyring
    BY <1>1
  <2> QED
    BY <2>1, ChainVerifies
<1>2. CASE T # {}
  <2> DEFINE first == SelectInSeq(acc, LAMBDA r : r.key \notin keyring)
  <2>1. first \in 1..Len(acc)
    <3>1. first = CHOOSE x \in T : \A y \in T : x =< y
      BY <1>2 DEF SelectInSeq, Min
    <3>2. T \in SUBSET Nat
      OBVIOUS
    <3>3. \E x \in T : \A y \in T : x =< y
      <4> HIDE DEF T
      <4> QED
        BY <1>2, <3>2, LeastElement
    <3> QED
      BY <3>1, <3>3
  <2> HIDE DEF first
  <2>2. PICK checked : checked = SubSeq(acc, 1, first - 1)
    OBVIOUS
  <2>3. Len(checked) = first - 1 /\ \A i \in 1..Len(checked) : checked[i] = acc[i]
    BY <2>1, <2>2
  <2>4. Linked(checked)
    <3>1. \A i \in 2..Len(checked) :
            /\ i \in 1..Len(acc) /\ i - 1 \in 1..Len(acc) /\ i # 1 /\ (i - 1) + 1 = i
            /\ checked[i] = acc[i] /\ checked[i - 1] = acc[i - 1]
      BY <2>1, <2>3
    <3> QED
      BY <3>1 DEF Linked, Chained
  <2>5. first # 0
    BY <2>1
  <2> QED
    BY <2>2, <2>4, <2>5 DEF Verdict, first
<1> QED
  BY <1>1, <1>2

\* What no step undoes: the faults there may be, what is gone, and the first
\* record of the chain.
LEMMA NothingTakenBack ==
  ASSUME WatchIInv, [WatchNext]_watchVars
  PROVE  /\ faults' = faults
         /\ gone \subseteq gone'
         /\ accepted # <<>> => accepted' # <<>> /\ accepted'[1] = accepted[1]
<1>1. faults' = faults /\ gone \subseteq gone'
  BY DEF WatchNext, watchVars, vars, BeginWrite, RotateStep, AppendLine, SaveHead, FailWrite,
         CrashInWrite, EndWrite, WatchRestart, Restart, WatchLoseFile, LoseFile, Read
<1>2. accepted' = accepted \/ \E r : accepted' = Append(accepted, r)
  BY DEF WatchNext, watchVars, vars, BeginWrite, RotateStep, AppendLine, SaveHead, FailWrite,
         CrashInWrite, WatchRestart, Restart, Start, Accept, WatchLoseFile, LoseFile, Read
<1>3. accepted \in Seq(Record)
  BY DEF WatchIInv, TypeOK
<1>4. ASSUME accepted # <<>>, NEW r, accepted' = Append(accepted, r)
      PROVE  accepted' # <<>> /\ accepted'[1] = accepted[1]
  <2>1. Len(accepted) \in Nat \ {0} /\ accepted \in Seq(Record \cup {r})
    BY <1>3, <1>4
  <2> QED
    BY <1>4, <2>1
<1> QED
  BY <1>1, <1>2, <1>4

\* The end of a write that is calm.
LEMMA EndHolds ==
  ASSUME WatchIInv, Held, EndWrite, Calm, gone' = {}, Began', writer.j \in {0, Backups + 1},
         key' \in NextKey,
         \/ writer.phase = "save" /\ Accept(NextRecord)
         \/ Start(files) /\ "crash" \in faults
  PROVE  Retained(before') = accepted' /\ KeyKept'
<1>1. /\ TypeOK /\ HeadsFormChain /\ WriterInv /\ before \in Files
      /\ writer # Idle /\ before' = files /\ faults' = faults
      /\ writes' = writes + 1 /\ gone' = gone \cup Pruned(before, writer.j)
  BY AllAreRecords DEF WatchIInv, EndWrite
<1>2. writer.j > 0 => before[0] # <<>>
  BY <1>1 DEF WriterInv
<1>3. \/ files = Appended(Rotated(before, writer.j), NextRecord) /\ Accept(NextRecord)
      \/ /\ files = Appended(Rotated(before, writer.j), NextRecord)
         /\ Start(files) /\ "crash" \in faults
      \/ files = Rotated(before, writer.j) /\ Start(files)
  <2>1. writer.phase \in {"rotate", "append", "save"}
    BY <1>1 DEF WriterInv
  <2>2. \/ writer.phase = "save" /\ files = Appended(Rotated(before, writer.j), NextRecord)
        \/ writer.phase # "save" /\ files = Rotated(before, writer.j)
    BY <1>1, <2>1 DEF WriterInv
  <2> QED
    BY <2>2
<1> QED
  BY <1>1, <1>2, <1>3, WriteHolds DEF Held

LEMMA HeldNext ==
  ASSUME WatchIInv, Held, [WatchNext]_watchVars
  PROVE  Held'
<1> SUFFICES ASSUME Calm', gone' = {}, Began'
             PROVE  Retained(before') = accepted' /\ KeyKept'
  BY DEF Held, HoldsChain
<1>1. faults' = faults /\ Calm /\ gone = {}
  BY NothingTakenBack DEF Calm
<1>2. TypeOK /\ key \in NextKey /\ RotationStops = {0, Backups + 1} /\ "error" \notin faults
  BY <1>1 DEF WatchIInv, TypeOK, NextKey, RotationStops, Calm
<1>3. CASE BeginWrite \/ RotateStep \/ AppendLine \/ Read \/ UNCHANGED watchVars
  <2>1. UNCHANGED <<faults, key, writes, accepted, gone, before>>
    BY <1>3 DEF BeginWrite, RotateStep, AppendLine, Read, watchVars, vars
  <2> QED
    BY <1>1, <2>1 DEF Held, HoldsChain, Began, KeyKept
<1>4. CASE SaveHead
  <2>1. /\ writer.phase = "save" /\ EndWrite /\ Accept(NextRecord) /\ key' \in NextKey
        /\ writer.j \in {0, Backups + 1}
    BY <1>2, <1>4 DEF SaveHead, WatchIInv, WriterInv
  <2> QED
    BY <1>1, <2>1, EndHolds
<1>5. CASE FailWrite
  BY <1>2, <1>5 DEF FailWrite
<1>6. CASE CrashInWrite
  <2>1. /\ EndWrite /\ writer.j \in {0, Backups + 1} /\ key' \in NextKey /\ "crash" \in faults
        /\ \/ writer.phase = "save" /\ Accept(NextRecord)
           \/ Start(files)
    BY <1>2, <1>6 DEF CrashInWrite, MayStop, Start
  <2> QED
    BY <1>1, <2>1, EndHolds
<1>7. CASE WatchRestart
  <2>1. /\ writer = Idle /\ Start(files) /\ before' = before
        /\ UNCHANGED <<faults, writes, gone>>
    BY <1>7 DEF WatchRestart, Restart
  <2>2. files = before /\ files \in Files
    BY <2>1, AllAreRecords DEF WatchIInv, WriterInv, Idle
  <2>3. Retained(files) = accepted' /\ KeyKept'
    BY <1>1, <2>1, <2>2, RestartHolds DEF Held, WatchIInv
  <2> QED
    BY <2>1, <2>2, <2>3
<1>8. ASSUME NEW i \in FileNo, WatchLoseFile(i) PROVE FALSE
  BY <1>1, <1>8 DEF WatchLoseFile, LoseFile, Calm
<1> QED
  BY <1>3, <1>4, <1>5, <1>6, <1>7, <1>8 DEF WatchNext

\* A read that is answered stays what it was.
LEMMA AnswerStands ==
  ASSUME QuietIInv, [WatchNext]_watchVars, Reported' => reader' = reader
  PROVE  QuietReadIsIntact'
<1> SUFFICES ASSUME Reported', reader'.quiet, reader'.head # NoHead,
                    faults' \in {{"crash"}, {"rekey"}},
                    accepted'[1].mac = 1, gone' = {}
             PROVE  /\ reader'.verdict # "verified_tampered"
                    /\ reader'.kind = "cli" => reader'.verdict = "verified_intact"
  BY DEF QuietReadIsIntact
<1>1. reader' = reader /\ Reported
  BY DEF Reported
<1>2. accepted # <<>>
  <2>1. \E n \in 1..Len(accepted) : TRUE
    BY <1>1 DEF QuietIInv, WatchIInv, ReaderInv, WasHead
  <2>2. accepted = <<>> => Len(accepted) = 0
    OBVIOUS
  <2> QED
    BY <2>1, <2>2
<1>3. faults' = faults /\ gone = {} /\ accepted'[1] = accepted[1]
  BY <1>2, NothingTakenBack DEF QuietIInv
<1> QED
  BY <1>1, <1>3 DEF QuietIInv, QuietReadIsIntact

\* A step of the broker or from outside ends a read or is seen by it.
LEMMA BrokerDisturbs ==
  ASSUME QuietIInv, [WatchNext]_watchVars, Disturb \/ Abandon
  PROVE  ReadAlone' /\ QuietReadIsIntact'
<1>1. reader \in ReadState
  BY DEF QuietIInv, WatchIInv, ReaderInv
<1>2. \/ ~Reading /\ reader' = reader
      \/ reader' = NoRead
      \/ Reading /\ reader' = [reader EXCEPT !.quiet = FALSE]
  BY DEF Disturb, Abandon
<1>3. ~(Reading' /\ reader'.quiet) /\ (Reported' => reader' = reader)
  <2>1. CASE ~Reading /\ reader' = reader
    BY <2>1 DEF Reading
  <2>2. CASE reader' = NoRead
    BY <2>2 DEF Reading, Reported, NoRead
  <2>3. CASE Reading /\ reader' = [reader EXCEPT !.quiet = FALSE]
    <3>1. ~reader'.quiet /\ reader'.phase = reader.phase
      BY <1>1, <2>3 DEF ReadState
    <3> QED
      BY <2>3, <3>1 DEF Reading, Reported
  <2> QED
    BY <1>2, <2>1, <2>2, <2>3
<1> QED
  BY <1>3, AnswerStands DEF ReadAlone

\* The files a reader lists hold all the retained records.
LEMMA ListedIsRetained ==
  ASSUME NEW f \in Files, NEW n \in FileNo, Counts(f, n),
         NEW m, m = IF f[0] # <<>> THEN n + 1 ELSE n
  PROVE  FlattenSeq([k \in 1..m |-> f[n + 1 - k]]) = Retained(f)
<1>1. /\ Retained(f) = FlattenSeq(Parts(f, n))
      /\ Parts(f, n) \in [1..(n + 1) -> Seq(Record)]
      /\ n \in Nat
  BY RetainedParts, ConstantsAssumption DEF FileNo
<1>2. CASE f[0] # <<>>
  BY <1>1, <1>2 DEF Parts
<1>3. CASE f[0] = <<>> /\ n = 0
  <2>1. Parts(f, n) \in [1..1 -> Seq(Record)] /\ Parts(f, n)[1] = <<>>
    BY <1>1, <1>3 DEF Parts
  <2>2. Retained(f) = <<>>
    BY <1>1, <2>1, FlattenedOne
  <2>3. PICK ss : ss = [k \in 1..m |-> f[n + 1 - k]]
    OBVIOUS
  <2>4. Len(ss) = 0
    BY <1>3, <2>3
  <2> QED
    BY <2>2, <2>3, <2>4 DEF FlattenSeq
<1>4. CASE f[0] = <<>> /\ n # 0
  <2> DEFINE ss == [k \in 1..n |-> f[n + 1 - k]]
             tt == Parts(f, n)
  <2>1. n \in Nat \ {0} /\ m = n
    BY <1>1, <1>4
  <2>2. ss \in [1..n -> Seq(Record)] /\ \A k \in 1..n : tt[k] = ss[k]
    <3>1. \A k \in 1..n : k \in 1..(n + 1) /\ tt[k] = f[n + 1 - k] /\ tt[k] \in Seq(Record)
      BY <1>1, <2>1 DEF Parts
    <3> QED
      BY <3>1
  <2>3. tt[n + 1] = <<>>
    BY <1>4, <2>1 DEF Parts
  <2>4. tt \in [1..(n + 1) -> Seq(Record)]
    BY <1>1
  <2> HIDE DEF ss, tt
  <2>5. FlattenSeq(tt) = FlattenSeq(ss) \o tt[n + 1]
    BY <2>1, <2>2, <2>4, FlattenedMore
  <2>6. FlattenSeq(ss) \in Seq(Record)
    BY <2>1, <2>2, FlattenedElements
  <2>7. FlattenSeq(tt) = FlattenSeq(ss)
    BY <2>3, <2>5, <2>6
  <2> QED
    BY <1>1, <2>1, <2>7 DEF ss, tt
<1> QED
  BY <1>2, <1>3, <1>4

\* One file more.
LEMMA OneFileMore ==
  ASSUME NEW f \in Files, NEW n \in FileNo, NEW m \in 0..n
  PROVE  FlattenSeq([k \in 1..(m + 1) |-> f[n + 1 - k]])
           = FlattenSeq([k \in 1..m |-> f[n + 1 - k]]) \o f[n - m]
<1> DEFINE ss == [k \in 1..m |-> f[n + 1 - k]]
           tt == [k \in 1..(m + 1) |-> f[n + 1 - k]]
<1>1. n \in Nat /\ n =< Backups /\ Backups \in Nat /\ m \in Nat
  BY ConstantsAssumption DEF FileNo
<1>2. \A k \in 1..(m + 1) : n + 1 - k \in FileNo
  BY <1>1 DEF FileNo
<1>3. /\ ss \in [1..m -> Seq(Record)] /\ tt \in [1..(m + 1) -> Seq(Record)]
      /\ \A k \in 1..m : tt[k] = ss[k]
  BY <1>1, <1>2 DEF Files
<1>4. tt[m + 1] = f[n - m] /\ f[n - m] \in Seq(Record)
  BY <1>1, <1>2 DEF Files, FileNo
<1>5. CASE m = 0
  <2>1. Len(ss) = 0
    BY <1>5
  <2>2. FlattenSeq(ss) = <<>>
    <3> HIDE DEF ss
    <3> QED
      BY <2>1 DEF FlattenSeq
  <2>3. tt \in [1..1 -> Seq(Record)]
    BY <1>3, <1>5
  <2> HIDE DEF ss, tt
  <2>4. FlattenSeq(tt) = tt[1]
    BY <2>3, FlattenedOne
  <2> QED
    BY <1>4, <1>5, <2>2, <2>4 DEF ss, tt
<1>6. CASE m # 0
  <2>1. m \in Nat \ {0}
    BY <1>1, <1>6
  <2> HIDE DEF ss, tt
  <2>2. FlattenSeq(tt) = FlattenSeq(ss) \o tt[m + 1]
    BY <1>3, <2>1, FlattenedMore
  <2> QED
    BY <1>4, <2>2 DEF ss, tt
<1> QED
  BY <1>5, <1>6

(***************************************************************************)
(* The steps of a read.                                                    *)
(***************************************************************************)
LEMMA BeginAlone ==
  ASSUME QuietIInv, NEW kind \in Readers, BeginRead(kind), UNCHANGED <<vars, writer, before>>
  PROVE  ReadAlone' /\ ~Reported'
<1>1. PICK h : h = IF kind = "posture" THEN head ELSE NoHead
  OBVIOUS
<1>2. reader' = [kind |-> kind, phase |-> "probe", head |-> h, n |-> 0, todo |-> <<>>,
                 got |-> <<>>, quiet |-> (writer = Idle), verdict |-> "none"]
  BY <1>1 DEF BeginRead, NoRead
<1>3. /\ reader'.kind = kind /\ reader'.phase = "probe" /\ reader'.head = h /\ reader'.n = 0
      /\ reader'.got = <<>> /\ reader'.quiet = (writer = Idle)
  BY <1>2
<1>4. UNCHANGED <<files, head, writer>>
  BY DEF vars
<1>5. reader'.quiet => writer' = Idle
  BY <1>3, <1>4
<1>6. reader'.kind = "posture" => reader'.head = head'
  BY <1>1, <1>3, <1>4
<1>7. \A i \in 1..reader'.n : files'[i] # <<>>
  BY <1>3
<1> QED
  BY <1>3, <1>5, <1>6, <1>7 DEF ReadAlone, Reported

\* Once it has looked for every number up to one that is not there, the reader
\* has counted the backups.
LEMMA ProbeAlone ==
  ASSUME QuietIInv, Probe, UNCHANGED <<vars, writer, before>>
  PROVE  ReadAlone' /\ ~Reported'
<1>1. /\ reader \in ReadState /\ reader.phase = "probe" /\ reader.n \in FileNo
      /\ UNCHANGED <<files, head, writer>>
  BY DEF QuietIInv, WatchIInv, ReaderInv, ReadState, Probe, vars
<1>2. reader.n \in Nat /\ reader.n =< Backups /\ Backups \in Nat
  BY <1>1, ConstantsAssumption DEF FileNo
<1>3. reader.quiet => /\ writer = Idle
                      /\ reader.kind = "posture" => reader.head = head
                      /\ \A i \in 1..reader.n : files[i] # <<>>
                      /\ reader.got = <<>>
  BY <1>1 DEF QuietIInv, ReadAlone, Reading
<1>4. CASE /\ reader.n < Backups /\ files[reader.n + 1] # <<>>
           /\ reader' = [reader EXCEPT !.n = reader.n + 1]
  <2>1. /\ reader'.phase = "probe" /\ reader'.n = reader.n + 1
        /\ reader'.kind = reader.kind /\ reader'.head = reader.head
        /\ reader'.got = reader.got /\ reader'.quiet = reader.quiet
    BY <1>1, <1>4 DEF ReadState
  <2>2. \A i \in 1..(reader.n + 1) : i \in 1..reader.n \/ i = reader.n + 1
    BY <1>2
  <2> QED
    BY <1>1, <1>3, <1>4, <2>1, <2>2 DEF ReadAlone, Reported
<1>5. CASE /\ ~(reader.n < Backups /\ files[reader.n + 1] # <<>>)
           /\ reader' = [reader EXCEPT !.phase = "base"]
  <2>1. /\ reader'.phase = "base" /\ reader'.n = reader.n
        /\ reader'.kind = reader.kind /\ reader'.head = reader.head
        /\ reader'.got = reader.got /\ reader'.quiet = reader.quiet
    BY <1>1, <1>5 DEF ReadState
  <2>2. reader.quiet => Counts(files, reader.n)
    BY <1>3, <1>5 DEF Counts
  <2> QED
    BY <1>1, <1>3, <2>1, <2>2 DEF ReadAlone, Reported, Counts
<1> QED
  BY <1>4, <1>5 DEF Probe

LEMMA ProbeBaseAlone ==
  ASSUME QuietIInv, ProbeBase, UNCHANGED <<vars, writer, before>>
  PROVE  ReadAlone' /\ ~Reported'
<1>1. /\ reader \in ReadState /\ reader.phase = "base" /\ reader.n \in FileNo
      /\ UNCHANGED <<files, head, writer>>
  BY DEF QuietIInv, WatchIInv, ReaderInv, ReadState, ProbeBase, vars
<1>2. PICK n : n = reader.n
  OBVIOUS
<1>3. n \in Nat
  BY <1>1, <1>2, ConstantsAssumption DEF FileNo
<1>4. reader.quiet => /\ writer = Idle
                      /\ reader.kind = "posture" => reader.head = head
                      /\ \A i \in 1..n : files[i] # <<>>
                      /\ reader.got = <<>> /\ Counts(files, n)
  BY <1>1, <1>2 DEF QuietIInv, ReadAlone, Reading
<1>5. PICK todo : todo = [k \in 1..n |-> n + 1 - k] \o (IF files[0] # <<>> THEN <<0>> ELSE <<>>)
  OBVIOUS
<1>6. /\ reader'.phase = "open" /\ reader'.n = n /\ reader'.todo = todo
      /\ reader'.kind = reader.kind /\ reader'.head = reader.head
      /\ reader'.got = reader.got /\ reader'.quiet = reader.quiet
  BY <1>1, <1>2, <1>5 DEF ReadState, ProbeBase
<1>7. PICK m : m = IF files[0] # <<>> THEN n + 1 ELSE n
  OBVIOUS
<1>8. todo = [k \in 1..m |-> n + 1 - k]
  <2> DEFINE backups == [k \in 1..n |-> n + 1 - k]
  <2>1. backups \in Seq(Int) /\ Len(backups) = n /\ \A k \in 1..n : backups[k] = n + 1 - k
    BY <1>3
  <2> HIDE DEF backups
  <2>2. CASE files[0] # <<>>
    <3>1. todo = backups \o <<0>>
      BY <1>5, <2>2 DEF backups
    <3>2. todo \in Seq(Int) /\ Len(todo) = n + 1
      BY <1>3, <2>1, <3>1
    <3>3. \A k \in 1..n : todo[k] = n + 1 - k
      BY <1>3, <2>1, <3>1
    <3>4. todo[n + 1] = 0
      BY <1>3, <2>1, <3>1
    <3>5. \A k \in 1..(n + 1) : todo[k] = n + 1 - k
      BY <1>3, <3>3, <3>4
    <3>6. m = n + 1
      BY <1>7, <2>2
    <3> QED
      BY <1>3, <3>2, <3>5, <3>6
  <2>3. CASE files[0] = <<>>
    BY <1>5, <1>7, <2>1, <2>3 DEF backups
  <2> QED
    BY <2>2, <2>3
<1>9. reader.quiet => \E i \in 0..Listed' : HasRead(i)'
  <2> SUFFICES ASSUME reader.quiet PROVE \E i \in 0..Listed' : HasRead(i)'
    OBVIOUS
  <2>1. Listed' = m /\ m \in Nat
    BY <1>1, <1>3, <1>6, <1>7 DEF Listed
  <2>2. FlattenSeq([k \in 1..0 |-> files'[reader'.n + 1 - k]]) = <<>>
    <3>1. PICK ss : ss = [k \in 1..0 |-> files'[reader'.n + 1 - k]]
      OBVIOUS
    <3>2. Len(ss) = 0
      BY <3>1
    <3> QED
      BY <3>1, <3>2 DEF FlattenSeq
  <2>3. todo = [k \in 1..(m - 0) |-> n + 1 - 0 - k]
    BY <1>3, <1>8, <2>1
  <2>4. HasRead(0)'
    BY <1>4, <1>6, <2>1, <2>2, <2>3 DEF HasRead
  <2> QED
    BY <2>1, <2>4
<1> QED
  BY <1>1, <1>4, <1>6, <1>9 DEF ReadAlone, Reported, Counts

\* Each file it opens is there, and is the next one.
LEMMA SegmentAlone ==
  ASSUME QuietIInv, ReadSegment, UNCHANGED <<vars, writer, before>>
  PROVE  ReadAlone' /\ (Reported' => ~reader'.quiet)
<1>1. /\ reader \in ReadState /\ reader.phase = "open" /\ reader.todo # <<>>
      /\ reader.n \in FileNo /\ files \in Files
      /\ UNCHANGED <<files, head, writer>>
  BY AllAreRecords DEF QuietIInv, WatchIInv, ReaderInv, ReadState, ReadSegment, vars
<1>2. PICK f : f = files[Head(reader.todo)]
  OBVIOUS
<1>3. \/ f = <<>> /\ reader' = Answered(reader.head, <<>>, "cannot_verify")
      \/ reader' = [reader EXCEPT !.todo = Tail(reader.todo), !.got = reader.got \o f]
  BY <1>2 DEF ReadSegment
<1>4. reader'.quiet = reader.quiet
  BY <1>1, <1>3 DEF ReadState, Answered
<1>5. CASE ~reader.quiet
  BY <1>4, <1>5 DEF ReadAlone
<1>6. CASE reader.quiet
  <2>1. /\ writer = Idle
        /\ reader.kind = "posture" => reader.head = head
        /\ \A i \in 1..reader.n : files[i] # <<>>
        /\ Counts(files, reader.n)
    BY <1>1, <1>6 DEF QuietIInv, ReadAlone, Reading
  <2>2. PICK m \in 0..Listed : HasRead(m)
    BY <1>1, <1>6 DEF QuietIInv, ReadAlone, Reading
  <2>3. PICK n : n = reader.n
    OBVIOUS
  <2>4. /\ n \in Nat /\ Listed = (IF files[0] # <<>> THEN n + 1 ELSE n)
        /\ Listed \in Nat
    BY <1>1, <2>3, ConstantsAssumption DEF Listed, FileNo
  <2>5. PICK z : z = Listed - m
    OBVIOUS
  <2>6. reader.todo = [k \in 1..z |-> n + 1 - m - k]
    BY <2>2, <2>3, <2>5 DEF HasRead
  <2>7. z \in Nat \ {0} /\ m \in 0..n
    <3>1. z \in Nat
      BY <2>2, <2>4, <2>5
    <3>2. z # 0
      BY <1>1, <2>6
    <3> QED
      BY <2>2, <2>4, <2>5, <3>1, <3>2
  <2>8. Head(reader.todo) = n - m
    BY <2>4, <2>6, <2>7
  <2>9. Tail(reader.todo) = [k \in 1..(z - 1) |-> n + 1 - (m + 1) - k]
    BY <2>4, <2>6, <2>7
  <2>10. f # <<>>
    <3>1. CASE n - m \in 1..n
      BY <1>2, <2>1, <2>3, <2>8, <3>1
    <3>2. CASE n - m = 0
      BY <1>2, <2>4, <2>5, <2>7, <2>8, <3>2
    <3> QED
      BY <2>4, <2>7, <3>1, <3>2
  <2>11. /\ reader'.todo = Tail(reader.todo) /\ reader'.got = reader.got \o f
         /\ reader'.n = n /\ reader'.phase = "open"
         /\ reader'.kind = reader.kind /\ reader'.head = reader.head
    BY <1>1, <1>3, <2>3, <2>10 DEF ReadState
  <2>12. Listed' = Listed /\ m + 1 \in 0..Listed
    BY <1>1, <2>2, <2>3, <2>4, <2>5, <2>7, <2>11 DEF Listed
  <2>13. reader.got \o f = FlattenSeq([k \in 1..(m + 1) |-> files[n + 1 - k]])
    <3>1. reader.got = FlattenSeq([k \in 1..m |-> files[n + 1 - k]])
      BY <2>2, <2>3 DEF HasRead
    <3>2. f = files[n - m]
      BY <1>2, <2>8
    <3>3. n \in FileNo
      BY <1>1, <2>3
    <3> QED
      BY <1>1, <2>7, <3>1, <3>2, <3>3, OneFileMore
  <2>14. HasRead(m + 1)'
    <3>1. reader'.todo = [k \in 1..(Listed - (m + 1)) |-> n + 1 - (m + 1) - k]
      BY <2>4, <2>5, <2>7, <2>9, <2>11
    <3> QED
      BY <1>1, <2>11, <2>12, <2>13, <3>1 DEF HasRead
  <2> QED
    BY <1>1, <2>1, <2>3, <2>11, <2>12, <2>14 DEF ReadAlone, Reported, Counts
<1> QED
  BY <1>5, <1>6

\* A read that was alone has put together the chain and compares its end.
LEMMA ReportAlone ==
  ASSUME QuietIInv, Report, UNCHANGED <<vars, writer, before>>
  PROVE  ReadAlone' /\ QuietReadIsIntact'
<1>1. /\ reader \in ReadState /\ reader.phase = "open" /\ reader.todo = <<>>
      /\ reader.n \in FileNo /\ files \in Files /\ key \in Keys
      /\ accepted \in Seq(Record) /\ Chained(accepted) /\ head = EndOf(accepted)
      /\ UNCHANGED <<faults, files, head, accepted, gone, writer>>
  BY AllAreRecords DEF QuietIInv, WatchIInv, ReaderInv, ReadState, Report, vars, TypeOK, HeadsFormChain
<1>2. PICK h : h = IF reader.kind = "posture" THEN reader.head ELSE head
  OBVIOUS
<1>3. reader' = Answered(h, reader.got, Verdict(reader.got, h, Keyring(reader.kind)))
  BY <1>2 DEF Report
<1>4. /\ reader'.phase = "done" /\ reader'.quiet = reader.quiet /\ reader'.kind = reader.kind
      /\ reader'.head = h
      /\ reader'.verdict = Verdict(reader.got, h, Keyring(reader.kind))
  BY <1>1, <1>3 DEF Answered, ReadState
<1>5. ReadAlone'
  BY <1>4 DEF ReadAlone, Reading
<1>6. ASSUME reader.quiet, h # NoHead, Calm, accepted[1].mac = 1, gone = {}
      PROVE  /\ reader'.verdict # "verified_tampered"
             /\ reader.kind = "cli" => reader'.verdict = "verified_intact"
  <2>1. /\ writer = Idle /\ h = head
        /\ Counts(files, reader.n)
    BY <1>1, <1>2, <1>6 DEF QuietIInv, ReadAlone, Reading
  <2>2. PICK m \in 0..Listed : HasRead(m)
    BY <1>1, <1>6 DEF QuietIInv, ReadAlone, Reading
  <2>3. m = Listed
    <3>1. Listed \in Nat
      BY <1>1, ConstantsAssumption DEF Listed, FileNo
    <3>2. PICK z : z = Listed - m
      OBVIOUS
    <3>3. z \in Nat /\ reader.todo = [k \in 1..z |-> reader.n + 1 - m - k]
      BY <2>2, <3>1, <3>2 DEF HasRead
    <3>4. z = 0
      <4>1. Len(reader.todo) = z
        BY <3>3
      <4> QED
        BY <1>1, <4>1
    <3> QED
      BY <2>2, <3>1, <3>2, <3>4
  <2>4. reader.got = Retained(files)
    BY <1>1, <2>1, <2>2, <2>3, ListedIsRetained DEF HasRead, Listed
  <2>5. accepted # <<>>
    BY <1>1, <1>6, <2>1 DEF EndOf
  <2>6. Retained(files) = accepted
    <3>1. files = before
      BY <2>1 DEF QuietIInv, WatchIInv, WriterInv, Idle
    <3> QED
      BY <1>6, <2>5, <3>1 DEF QuietIInv, Held, HoldsChain, Began
  <2>7. \A i \in 1..Len(accepted) : accepted[i].key \in Keys
    <3>1. \A i \in 1..Len(accepted) : accepted[i] \in Record
      BY <1>1
    <3> QED
      BY <3>1 DEF Record
  <2>8. Verdict(accepted, EndOf(accepted), Keys) = "verified_intact"
    BY <1>1, <2>5, <2>7, ChainVerifies
  <2> QED
    BY <1>1, <1>4, <2>1, <2>4, <2>5, <2>6, <2>8, ChainTolerated DEF Keyring
<1>7. QuietReadIsIntact'
  BY <1>1, <1>4, <1>6 DEF QuietReadIsIntact, Calm
<1> QED
  BY <1>5, <1>7

LEMMA QuietInit == WatchInit => QuietIInv
<1> SUFFICES ASSUME WatchInit PROVE QuietIInv
  OBVIOUS
<1>1. Init /\ before = files /\ reader = NoRead
  BY DEF WatchInit
<1>2. Held
  BY <1>1, SettledInit DEF Settled, Held
<1>3. ReadAlone /\ QuietReadIsIntact
  BY <1>1 DEF ReadAlone, QuietReadIsIntact, Reading, Reported, NoRead
<1> QED
  BY <1>2, <1>3, WatchInitInv DEF QuietIInv

LEMMA QuietNext == QuietIInv /\ [WatchNext]_watchVars => QuietIInv'
<1> SUFFICES ASSUME QuietIInv, [WatchNext]_watchVars PROVE QuietIInv'
  OBVIOUS
<1>1. WatchIInv' /\ Held'
  BY WatchNextInv, HeldNext DEF QuietIInv
<1>2. CASE Disturb \/ Abandon
  BY <1>1, <1>2, BrokerDisturbs DEF QuietIInv
<1>3. CASE Read
  <2>1. UNCHANGED <<vars, writer, before>>
    BY <1>3 DEF Read
  <2>2. CASE (\E kind \in Readers : BeginRead(kind)) \/ Probe \/ ProbeBase
    <3>1. ReadAlone' /\ ~Reported'
      BY <2>1, <2>2, BeginAlone, ProbeAlone, ProbeBaseAlone
    <3> QED
      BY <1>1, <3>1 DEF QuietIInv, QuietReadIsIntact
  <2>3. CASE ReadSegment
    <3>1. ReadAlone' /\ (Reported' => ~reader'.quiet)
      BY <2>1, <2>3, SegmentAlone
    <3> QED
      BY <1>1, <3>1 DEF QuietIInv, QuietReadIsIntact
  <2>4. CASE Report
    BY <1>1, <2>1, <2>4, ReportAlone DEF QuietIInv
  <2> QED
    BY <1>3, <2>2, <2>3, <2>4 DEF Read
<1>4. CASE UNCHANGED watchVars
  <2>1. /\ UNCHANGED <<files, head, writer, reader>>
        /\ Reported' => reader' = reader
    BY <1>4 DEF watchVars, vars
  <2>2. ReadAlone'
    BY <2>1 DEF QuietIInv, ReadAlone, Reading, Counts, Listed, HasRead
  <2> QED
    BY <1>1, <2>1, <2>2, AnswerStands DEF QuietIInv
<1>5. Disturb \/ Abandon \/ Read \/ UNCHANGED watchVars
  BY DEF WatchNext, BeginWrite, RotateStep, AppendLine, SaveHead, FailWrite, CrashInWrite,
         WatchRestart, WatchLoseFile
<1> QED
  BY <1>2, <1>3, <1>4, <1>5

\* A read beside which the broker writes nothing puts together the whole chain
\* and raises no false alarm, wherever earlier processes of the broker died and
\* whatever key the present one has.
THEOREM QuietTheorem == WatchSpec => []QuietReadIsIntact
<1>1. QuietIInv => QuietReadIsIntact
  BY DEF QuietIInv
<1> QED
  BY <1>1, QuietInit, QuietNext, PTL DEF WatchSpec

-----------------------------------------------------------------------------
(***************************************************************************)
(* The writer implements the one whose writes are one step.                *)
(***************************************************************************)

\* The definitions that do not look at the files are the same.
LEMMA SameWords ==
  ASSUME NEW f, NEW h, NEW r, NEW j
  PROVE  /\ Chain!Rotated(f, j) = Rotated(f, j)
         /\ Chain!Pruned(f, j) = Pruned(f, j)
         /\ Chain!Appended(f, r) = Appended(f, r)
         /\ Chain!HeadAt(h, r) = HeadAt(h, r)
         /\ Chain!NextRecord = NextRecord
         /\ Chain!RotationSteps = RotationSteps
         /\ Chain!RotationStops = RotationStops
         /\ Chain!NextKey = NextKey
<1>1. Chain!Rotated(f, j) = Rotated(f, j)
  BY DEF Chain!Rotated, Rotated, Chain!FileNo, FileNo
<1>2. Chain!Pruned(f, j) = Pruned(f, j)
  BY DEF Chain!Pruned, Pruned, Chain!ToSet, ToSet
<1>3. Chain!Appended(f, r) = Appended(f, r)
  BY DEF Chain!Appended, Appended
<1>4. Chain!HeadAt(h, r) = HeadAt(h, r)
  BY DEF Chain!HeadAt, HeadAt
<1>5. Chain!NextRecord = NextRecord
  BY DEF Chain!NextRecord, NextRecord, Chain!NoMac, NoMac
<1>6. Chain!RotationSteps = RotationSteps
  BY DEF Chain!RotationSteps, RotationSteps
<1>7. Chain!RotationStops = RotationStops
  BY <1>6 DEF Chain!RotationStops, RotationStops
<1>8. Chain!NextKey = NextKey
  BY DEF Chain!NextKey, NextKey
<1> QED
  BY <1>1, <1>2, <1>3, <1>4, <1>5, <1>6, <1>7, <1>8

LEMMA SameOneAhead ==
  ASSUME NEW f, NEW h, NEW k
  PROVE  Chain!OneAhead(f, h, k) <=> OneAhead(f, h, k)
<1>1. Chain!RetainedCount(f) = RetainedCount(f)
  BY DEF Chain!RetainedCount, RetainedCount, Chain!FileNo, FileNo
<1>2. \A ss : Chain!FlattenSeq(ss) = FlattenSeq(ss)
  BY DEF Chain!FlattenSeq, FlattenSeq
<1>3. Chain!Retained(f) = Retained(f)
  BY <1>1, <1>2 DEF Chain!Retained, Retained
<1>4. \A s : Chain!Front(s) = Front(s) /\ Chain!Last(s) = Last(s)
  BY DEF Chain!Front, Front, Chain!Last, Last
<1>5. Chain!Newest(f) = Newest(f)
  BY DEF Chain!Newest, Newest
<1>6. \A rs : Chain!Linked(rs) = Linked(rs)
  BY DEF Chain!Linked, Linked
<1>7. \A rs, keyring : Chain!Verdict(rs, h, keyring) = Verdict(rs, h, keyring)
  <2>1. \A I : Chain!Min(I) = Min(I)
    BY DEF Chain!Min, Min
  <2> TAKE rs, keyring
  <2>2. Chain!SelectInSeq(rs, LAMBDA r : r.key \notin keyring)
          = SelectInSeq(rs, LAMBDA r : r.key \notin keyring)
    BY <2>1 DEF Chain!SelectInSeq, SelectInSeq
  <2> QED
    BY <1>4, <1>6, <2>2 DEF Chain!Verdict, Verdict, Chain!NoMac, NoMac
<1> QED
  BY <1>3, <1>4, <1>5, <1>7 DEF Chain!OneAhead, OneAhead

\* The files of the writer whose writes are one step.
Seen == IF writer = Idle THEN files ELSE before

LEMMA SeenIsBefore ==
  ASSUME WatchIInv
  PROVE  Seen = before
BY DEF WatchIInv, WriterInv, Idle, Seen

LEMMA StartImplements ==
  ASSUME NEW f, Start(f)
  PROVE  Chain!Start(f)
<1>1. /\ \A h, k : Chain!OneAhead(f, h, k) <=> OneAhead(f, h, k)
      /\ Chain!Newest(f) = Newest(f) /\ Chain!NextKey = NextKey
  BY SameOneAhead, SameWords DEF Chain!Newest, Newest
<1>2. \A s : Chain!Last(s) = Last(s)
  BY DEF Chain!Last, Last
<1>3. \A r : Accept(r) => Chain!Accept(r)
  BY SameWords DEF Accept, Chain!Accept
<1> QED
  BY <1>1, <1>2, <1>3 DEF Start, Chain!Start

\* The end of a write is the whole write.
LEMMA EndImplements ==
  ASSUME WatchIInv, WatchIInv', EndWrite, NEW appends \in BOOLEAN,
         appends = (writer.phase = "save"),
         \/ writer.phase = "save" /\ Accept(NextRecord) /\ acked' = acked \cup {NextRecord}
              /\ key' = key
         \/ /\ writer.j \in RotationStops /\ "error" \in faults
            /\ UNCHANGED <<head, key, accepted, acked>>
         \/ /\ writer.j \in RotationStops /\ "crash" \in faults /\ acked' = acked
            /\ \/ Start(files)
               \/ appends /\ Accept(NextRecord) /\ key' \in NextKey
  PROVE  Chain!Next
<1>1. /\ WriterInv /\ writer # Idle /\ writes < MaxWrites /\ writer.j \in RotationSteps
      /\ writer.phase \in {"rotate", "append", "save"}
      /\ writer.j > 0 => Rotation /\ before[0] # <<>>
      /\ appends => writer.j \in {0, Backups + 1}
  BY DEF WatchIInv, WriterInv, EndWrite
<1>2. /\ writes' = writes + 1 /\ gone' = gone \cup Pruned(before, writer.j)
      /\ before' = files /\ files' = files /\ faults' = faults
  BY DEF EndWrite
<1>3. files = IF appends THEN Appended(Rotated(before, writer.j), NextRecord)
              ELSE Rotated(before, writer.j)
  BY <1>1 DEF WriterInv
<1>4. Seen = before /\ Seen' = files
  <2>1. Seen = before
    BY SeenIsBefore
  <2>2. Seen' = files'
    BY DEF EndWrite, Seen, Idle
  <2> QED
    BY <1>2, <2>1, <2>2
<1>5. PICK j \in Chain!RotationSteps : j = writer.j
  BY <1>1, SameWords
<1>6. /\ j > 0 => Rotation /\ Seen[0] # <<>>
      /\ gone' = gone \cup Chain!Pruned(Seen, j)
      /\ Seen' = IF appends THEN Chain!Appended(Chain!Rotated(Seen, j), Chain!NextRecord)
                 ELSE Chain!Rotated(Seen, j)
  BY <1>1, <1>2, <1>3, <1>4, <1>5, SameWords
<1>7. \A r : Accept(r) => Chain!Accept(r)
  BY SameWords DEF Accept, Chain!Accept
<1>8. \/ j \in {0, Backups + 1} /\ Chain!WriteOK(j)
      \/ /\ j \in Chain!RotationStops
         /\ appends => j \in {0, Backups + 1}
         /\ Chain!WriteFails(j, appends) \/ Chain!WriteCrashes(j, appends)
  <2>1. CASE writer.phase = "save" /\ Accept(NextRecord) /\ acked' = acked \cup {NextRecord}
               /\ key' = key
    <3>1. Chain!WriteOK(j)
      BY <1>6, <1>7, <2>1, SameWords DEF Chain!WriteOK, Seen
    <3> QED
      BY <1>1, <1>5, <2>1, <3>1
  <2>2. CASE /\ writer.j \in RotationStops /\ "error" \in faults
             /\ UNCHANGED <<head, key, accepted, acked>>
    <3>1. Chain!WriteFails(j, appends)
      BY <1>6, <2>2 DEF Chain!WriteFails, Seen
    <3> QED
      BY <1>1, <1>5, <2>2, <3>1, SameWords
  <2>3. CASE /\ writer.j \in RotationStops /\ "crash" \in faults /\ acked' = acked
             /\ \/ Start(files)
                \/ appends /\ Accept(NextRecord) /\ key' \in NextKey
    <3>1. Start(files) => Chain!Start(Seen')
      BY <1>4, StartImplements
    <3>2. Chain!WriteCrashes(j, appends)
      BY <1>6, <1>7, <2>3, <3>1, SameWords DEF Chain!WriteCrashes, Seen
    <3> QED
      BY <1>1, <1>5, <2>3, <3>2, SameWords
  <2> QED
    BY <2>1, <2>2, <2>3
<1>9. Chain!Write
  BY <1>1, <1>2, <1>5, <1>6, <1>8 DEF Chain!Write, Seen
<1> QED
  BY <1>2, <1>9 DEF Chain!Next

LEMMA StepImplements ==
  ASSUME WatchIInv, WatchIInv', [WatchNext]_watchVars
  PROVE  [Chain!Next]_Chain!vars
<1>1. Seen = before /\ Seen' = before'
  <2>1. Seen = before
    BY SeenIsBefore
  <2>2. Seen' = before'
    BY DEF WatchIInv, WriterInv, Idle, Seen
  <2> QED
    BY <2>1, <2>2
<1>2. ASSUME UNCHANGED <<faults, head, key, writes, accepted, acked, gone, before>>
      PROVE  UNCHANGED Chain!vars
  BY <1>1, <1>2 DEF Chain!vars, Seen
<1>3. CASE BeginWrite \/ RotateStep \/ AppendLine \/ Read
  BY <1>2, <1>3 DEF BeginWrite, RotateStep, AppendLine, Read, vars
<1>4. CASE SaveHead
  BY <1>4, EndImplements DEF SaveHead
<1>5. CASE FailWrite
  BY <1>5, EndImplements DEF FailWrite, MayStop
<1>6. CASE CrashInWrite
  BY <1>6, EndImplements DEF CrashInWrite, MayStop
<1>7. CASE WatchRestart
  <2>1. /\ writer = Idle /\ UNCHANGED <<faults, writer, before, files, writes, acked, gone>>
        /\ Start(files)
    BY <1>7 DEF WatchRestart, Restart
  <2>2. Seen = files /\ Seen' = files
    BY <1>1, <2>1 DEF Seen
  <2>3. Chain!Start(Seen)
    BY <2>1, <2>2, StartImplements
  <2>4. Chain!Restart
    BY <2>1, <2>2, <2>3 DEF Chain!Restart, Seen
  <2> QED
    BY <2>1, <2>4 DEF Chain!Next
<1>8. ASSUME NEW i \in FileNo, WatchLoseFile(i) PROVE Chain!Next
  <2>1. /\ writer = Idle /\ before' = files' /\ UNCHANGED faults
        /\ "loss" \in faults /\ files[i] # <<>>
        /\ files' = [files EXCEPT ![i] = <<>>]
        /\ gone' = gone \cup ToSet(files[i])
        /\ UNCHANGED <<head, key, writes, accepted, acked>>
    BY <1>8 DEF WatchLoseFile, LoseFile
  <2>2. Seen = files /\ Seen' = files'
    BY <1>1, <2>1 DEF Seen
  <2>3. Chain!ToSet(files[i]) = ToSet(files[i]) /\ i \in Chain!FileNo
    BY DEF Chain!ToSet, ToSet, Chain!FileNo, FileNo
  <2>4. Chain!LoseFile(i)
    BY <2>1, <2>2, <2>3 DEF Chain!LoseFile, Seen
  <2> QED
    BY <2>1, <2>3, <2>4 DEF Chain!Next
<1>9. CASE UNCHANGED watchVars
  BY <1>2, <1>9 DEF watchVars, vars
<1> QED
  BY <1>3, <1>4, <1>5, <1>6, <1>7, <1>8, <1>9 DEF WatchNext

LEMMA InitImplements ==
  ASSUME WatchInit
  PROVE  Chain!Init
<1>1. Init /\ writer = Idle
  BY DEF WatchInit
<1> QED
  BY <1>1 DEF Init, Chain!Init, FileNo, Chain!FileNo

\* The broker that rotates, appends and saves one file operation after the
\* other, while readers look on, implements the chain of whole writes.
THEOREM ImplementationTheorem == WatchSpec => ImplementsChain
<1>1. WatchInit => Chain!Init
  BY InitImplements
<1>2. WatchIInv /\ WatchIInv' /\ [WatchNext]_watchVars => [Chain!Next]_Chain!vars
  BY StepImplements
<1> QED
  BY <1>1, <1>2, WatchInductive, PTL DEF WatchSpec, ImplementsChain, Chain!Spec
=============================================================================
