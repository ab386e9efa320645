---------------------------- MODULE EvidenceChain ---------------------------
(***************************************************************************)
(* The evidence ledger of one broker in HMAC mode: a chain of records in   *)
(* an active JSONL file and its numbered backups, and the head checkpoint  *)
(* in the state store that says where the chain begins and ends.           *)
(*                                                                         *)
(* A write computes the next record from the head, rotates the files if    *)
(* the active one is full, appends the record, and saves the new head.     *)
(* The writes of a process are serialised by the adapter lock, so a write  *)
(* is one action; it may be cut short by an error, which the broker        *)
(* survives with the head it had, or by a crash, after which the next      *)
(* process tries to recover.  FaultSets says what a behaviour may contain: *)
(*   "crash"     the process dies inside a write                           *)
(*   "error"     an append or a head save fails and the process goes on    *)
(*   "rotation"  a fault may hit between two file operations of a rotation *)
(*   "loss"      a ledger file disappears                                  *)
(*   "rekey"     the next process gets another HMAC key                    *)
(*                                                                         *)
(* A record keeps its sequence number, its link and its key.  Its MAC is   *)
(* the number of the write that made it: no two writes share content and   *)
(* nobody without the key makes a MAC that verifies.  A line may be of any *)
(* size, so a rotation may come before any write to a non-empty file.      *)
(***************************************************************************)
EXTENDS Integers, Sequences, SequencesExt

CONSTANTS
  Backups,     \* backup_count
  Rotation,    \* rotate_bytes > 0
  Keys,        \* identifiers of the HMAC keys an operator configures
  FaultSets,   \* each a subset of {"crash", "error", "rotation", "loss", "rekey"}
  NoHead,      \* no checkpoint in the state store
  MaxWrites    \* bound on the number of writes

ASSUME ConstantsAssumption ==
  /\ Backups \in Nat \ {0}
  /\ Rotation \in BOOLEAN
  /\ Keys # {}
  /\ FaultSets \subseteq SUBSET {"crash", "error", "rotation", "loss", "rekey"}
  /\ MaxWrites \in Nat

VARIABLES
  faults,    \* the faults of this behaviour; never changes
  files,     \* the active file (0) and the backups (1..Backups); <<>> is no file
  head,      \* the evidence head checkpoint
  key,       \* key_id of the running process
  writes,    \* history: number of writes begun
  accepted,  \* history: the records that became the head, in order
  acked,     \* history: records whose write was answered True
  gone       \* history: records pruned by rotation or lost with a file

vars == <<faults, files, head, key, writes, accepted, acked, gone>>

-----------------------------------------------------------------------------
NoMac == 0

Record == [seq: Nat \ {0}, prev: Nat, mac: Nat \ {0}, key: Keys]

Checkpoint == [genesisSeq: Nat \ {0}, genesisMac: Nat \ {0},
               lastSeq: Nat \ {0}, lastMac: Nat \ {0}]

ASSUME NoHeadAssumption == NoHead \notin Checkpoint

FileNo == 0..Backups

TypeOK ==
  /\ files \in [FileNo -> Seq(Record)]
  /\ head \in Checkpoint \cup {NoHead}
  /\ key \in Keys
  /\ writes \in 0..MaxWrites
  /\ accepted \in Seq(Record)
  /\ acked \subseteq Record
  /\ gone \subseteq Record

-----------------------------------------------------------------------------
(***************************************************************************)
(* Writing a record.                                                       *)
(***************************************************************************)
\* Mutant of NextRecord: the link is read from the active file.
NextRecordFromFile ==
  [seq  |-> IF head = NoHead THEN 1 ELSE head.lastSeq + 1,
   prev |-> IF files[0] = <<>> THEN NoMac ELSE Last(files[0]).mac,
   mac  |-> writes + 1,
   key  |-> key]

NextRecord ==
  [seq  |-> IF head = NoHead THEN 1 ELSE head.lastSeq + 1,
   prev |-> IF head = NoHead THEN NoMac ELSE head.lastMac,
   mac  |-> writes + 1,
   key  |-> key]

\* The checkpoint that names r as the newest record.
HeadAt(h, r) ==
  [genesisSeq |-> IF h = NoHead THEN r.seq ELSE h.genesisSeq,
   genesisMac |-> IF h = NoHead THEN r.mac ELSE h.genesisMac,
   lastSeq    |-> r.seq,
   lastMac    |-> r.mac]

\* A rotation removes the oldest backup and then renames each backup and at
\* last the active file to the next number, downwards.  These are its first j
\* file operations of Backups + 1.
Rotated(f, j) ==
  [i \in FileNo |->
     IF j = 0 \/ i < Backups + 1 - j THEN f[i]
     ELSE IF i = Backups + 1 - j THEN <<>>
     ELSE f[i - 1]]

RotationSteps == 0..(Backups + 1)

\* How far a rotation may have come when a fault stops it.
RotationStops == IF "rotation" \in faults THEN RotationSteps ELSE {0, Backups + 1}

Pruned(f, j) == IF j = 0 THEN {} ELSE ToSet(f[Backups])

Appended(f, r) == [f EXCEPT ![0] = Append(@, r)]

-----------------------------------------------------------------------------
(***************************************************************************)
(* Reading the ledger back.                                                *)
(***************************************************************************)

\* retained_segment_paths: backups from .1 upwards as long as they are there,
\* read oldest first, and the active file.
RetainedCount(f) ==
  CHOOSE n \in FileNo :
    /\ \A i \in 1..n : f[i] # <<>>
    /\ n < Backups => f[n + 1] = <<>>

Retained(f) == FlattenSeq([k \in 1..(RetainedCount(f) + 1) |-> f[RetainedCount(f) + 1 - k]])

Linked(rs) ==
  \A i \in 2..Len(rs) :
    rs[i].seq = rs[i - 1].seq + 1 /\ rs[i].prev = rs[i - 1].mac

\* Mutant of Verdict: the head is not compared.
VerdictWithoutHead(rs, h, keyring) ==
  IF rs = <<>> \/ h = NoHead \/ ~(\A i \in 1..Len(rs) : rs[i].key \in keyring)
  THEN "cannot_verify"
  ELSE IF Linked(rs) /\ rs[1].mac = h.genesisMac THEN "verified_intact" ELSE "verified_tampered"

\* verify_integrity with a keyring: the records are checked in order up to one
\* whose key is unknown.  A MAC always verifies, for nobody changes a record.
Verdict(rs, h, keyring) ==
  IF rs = <<>> THEN (IF h = NoHead THEN "cannot_verify" ELSE "verified_tampered")
  ELSE IF h = NoHead THEN "cannot_verify"
  ELSE LET unknown == SelectInSeq(rs, LAMBDA r : r.key \notin keyring)
           checked == IF unknown = 0 THEN rs ELSE SubSeq(rs, 1, unknown - 1)
       IN  IF ~Linked(checked) THEN "verified_tampered"
           ELSE IF unknown # 0 THEN "cannot_verify"
           ELSE IF /\ rs[1].seq = h.genesisSeq /\ rs[1].mac = h.genesisMac
                   /\ rs[1].prev = NoMac
                   /\ Last(rs).seq = h.lastSeq /\ Last(rs).mac = h.lastMac
                THEN "verified_intact"
                ELSE "verified_tampered"

\* The newest retained file, where the ledger's last record is.
Newest(f) == IF f[0] # <<>> THEN f[0] ELSE f[1]

\* Mutants of OneAhead: the records before are not verified; off by one.
OneAheadUnverified(f, h, k) ==
  h # NoHead /\ Newest(f) # <<>> /\ Last(Newest(f)).seq = h.lastSeq + 1
OneAheadLate(f, h, k) ==
  h # NoHead /\ Newest(f) # <<>> /\ Len(Retained(f)) > h.lastSeq + 1

\* recover_one_ahead: the ledger's last record extends the head, and all before
\* it verifies with the key of the new process alone.
OneAhead(f, h, k) ==
  /\ h # NoHead
  /\ Newest(f) # <<>>
  /\ Len(Retained(f)) >= h.lastSeq + 1
  /\ Last(Newest(f)).seq = h.lastSeq + 1
  /\ Last(Newest(f)).prev = h.lastMac
  /\ Last(Newest(f)).key = k
  /\ Verdict(Front(Retained(f)), h, {k}) = "verified_intact"

-----------------------------------------------------------------------------
Init ==
  /\ faults \in FaultSets
  /\ files = [i \in FileNo |-> <<>>]
  /\ head = NoHead
  /\ key \in Keys
  /\ writes = 0
  /\ accepted = <<>>
  /\ acked = {}
  /\ gone = {}

\* The head becomes the checkpoint at r.
Accept(r) ==
  /\ head' = HeadAt(head, r)
  /\ accepted' = Append(accepted, r)

\* The key of the next process: any the operator has, or the one it had.
NextKey == IF "rekey" \in faults THEN Keys ELSE {key}

\* A new process starts on the files f.  It swallows an error of its recovery.
Start(f) ==
  /\ key' \in NextKey
  /\ \/ /\ OneAhead(f, head, key')
        /\ Accept(Last(Newest(f)))
     \/ /\ OneAhead(f, head, key') => "error" \in faults
        /\ UNCHANGED <<head, accepted>>

\* Every file operation and the head save succeed.
WriteOK(j) ==
  /\ files' = Appended(Rotated(files, j), NextRecord)
  /\ Accept(NextRecord)
  /\ acked' = acked \cup {NextRecord}
  /\ UNCHANGED key

\* Mutant of WriteFails: the head is saved before the append.
WriteFailsHeadFirst(j, appends) ==
  /\ "error" \in faults /\ ~appends
  /\ files' = Rotated(files, j)
  /\ Accept(NextRecord)
  /\ UNCHANGED <<key, acked>>

\* An error before or after the append: the head stays, the answer is False.
WriteFails(j, appends) ==
  /\ "error" \in faults
  /\ files' = IF appends THEN Appended(Rotated(files, j), NextRecord)
                         ELSE Rotated(files, j)
  /\ UNCHANGED <<head, key, accepted, acked>>

\* A crash before or after the append, or after the head save.
WriteCrashes(j, appends) ==
  /\ "crash" \in faults
  /\ files' = IF appends THEN Appended(Rotated(files, j), NextRecord)
                         ELSE Rotated(files, j)
  /\ UNCHANGED acked
  /\ \/ Start(files')
     \/ appends /\ Accept(NextRecord) /\ key' \in NextKey

\* _write_to_ledger.  j file operations of a rotation come first; an append
\* follows none of them or all.
Write ==
  /\ writes < MaxWrites
  /\ writes' = writes + 1
  /\ \E j \in RotationSteps :
       /\ j > 0 => Rotation /\ files[0] # <<>>
       /\ gone' = gone \cup Pruned(files, j)
       /\ \/ j \in {0, Backups + 1} /\ WriteOK(j)
          \/ \E appends \in BOOLEAN :
               /\ j \in RotationStops
               /\ appends => j \in {0, Backups + 1}
               /\ WriteFails(j, appends) \/ WriteCrashes(j, appends)

\* The process ends between two writes and another one starts.
Restart ==
  /\ Start(files)
  /\ UNCHANGED <<files, writes, acked, gone>>

\* A ledger file is removed from outside.
LoseFile(i) ==
  /\ "loss" \in faults
  /\ files[i] # <<>>
  /\ files' = [files EXCEPT ![i] = <<>>]
  /\ gone' = gone \cup ToSet(files[i])
  /\ UNCHANGED <<head, key, writes, accepted, acked>>

Next ==
  /\ Write \/ Restart \/ \E i \in FileNo : LoseFile(i)
  /\ UNCHANGED faults

Spec == Init /\ [][Next]_vars

-----------------------------------------------------------------------------
(***************************************************************************)
(* Safety.                                                                 *)
(***************************************************************************)
OnDisk == UNION {ToSet(files[i]) : i \in FileNo}

Chained(rs) ==
  \A i \in 1..Len(rs) :
    /\ rs[i].seq = i
    /\ rs[i].prev = IF i = 1 THEN NoMac ELSE rs[i - 1].mac

\* The checkpoint at the end of a chain.
EndOf(rs) ==
  IF rs = <<>> THEN NoHead
  ELSE [genesisSeq |-> 1, genesisMac |-> rs[1].mac, lastSeq |-> Len(rs), lastMac |-> Last(rs).mac]

\* The records the head has named form one chain without gap or fork, whatever
\* failed writes left in the files, the head is its end, and a write answered
\* True is in it and stays there.
HeadsFormChain == Chained(accepted) /\ head = EndOf(accepted) /\ acked \subseteq ToSet(accepted)

\* The head never names a record that is not in the files: every record it ever
\* named is still there unless rotation pruned it or its file was lost.
HeadBehindLedger == ToSet(accepted) \subseteq OnDisk \cup gone

\* The verifier calls a ledger intact only when it holds the records of the
\* chain, all of them, in order, and nothing else: no fork a failed write left,
\* no lost or pruned file and no gap of an interrupted rotation goes unseen.
IntactMeansComplete ==
  Verdict(Retained(files), head, Keys) = "verified_intact" => Retained(files) = accepted

\* Neither does the broker's own recovery adopt a record without its past.
RecoveryExtendsIntact ==
  [][head' # head /\ writes' = writes => Front(Retained(files)) = accepted]_vars

\* Once the first write went through, crashes inside later writes, before or
\* after their rotation but not between two of its renames, leave a ledger that
\* verifies after the restart, until rotation prunes the beginning: recovery
\* adopts every record a crash left ahead of the head.  So does a change of
\* keys at a planned restart.
IntactUntilPruned ==
  /\ faults \in {{"crash"}, {"rekey"}}
  /\ accepted # <<>> /\ accepted[1].mac = 1
  /\ gone = {}
  => Verdict(Retained(files), head, Keys) = "verified_intact"
=============================================================================
