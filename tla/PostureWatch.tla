---------------------------- MODULE PostureWatch ----------------------------
(***************************************************************************)
(* The evidence ledger read while it is written.  The broker writes under  *)
(* the adapter lock, one file operation after the other; the posture       *)
(* self-check of GET /v1/posture and of /health runs in another thread     *)
(* without that lock, and vmga-verify-evidence runs in another process.    *)
(* Here each file operation of the writer and each look of a reader is a   *)
(* step, where EvidenceChain has one action for a whole write.             *)
(*                                                                         *)
(* The posture check reads the head first and knows the key of its broker  *)
(* alone; vmga-verify-evidence reads the files first and has all the keys. *)
(* The content of a file is read in one step after the file is opened, and *)
(* one read is under way at a time: reads change nothing.                  *)
(***************************************************************************)
EXTENDS EvidenceChain, Posture

CONSTANT Deployments   \* the deployments whose posture is assessed

ASSUME DeploymentsAssumption == Deployments \subseteq Deployment

VARIABLES
  writer,   \* the write under way: its phase and the file operations of its rotation
  before,   \* history: the files when the writer was last idle
  reader    \* the read under way or the last one that reported

watchVars == <<vars, writer, before, reader>>

-----------------------------------------------------------------------------
Idle == [phase |-> "idle", j |-> 0]

Readers == {"posture", "cli"}

NoRead == [kind |-> "posture", phase |-> "none", head |-> NoHead, n |-> 0,
           todo |-> <<>>, got |-> <<>>, quiet |-> TRUE, verdict |-> "none"]

ReadState ==
  [kind: Readers, phase: {"none", "probe", "base", "open", "done"},
   head: Checkpoint \cup {NoHead}, n: FileNo, todo: Seq(FileNo), got: Seq(Record),
   quiet: BOOLEAN, verdict: {"none", "cannot_verify", "verified_intact", "verified_tampered"}]

Reading == reader.phase \notin {"none", "done"}

WatchTypeOK ==
  /\ TypeOK
  /\ writer \in [phase: {"idle", "rotate", "append", "save"}, j: RotationSteps]
  /\ before \in [FileNo -> Seq(Record)]
  /\ reader \in ReadState

\* What a step of the broker or of the outside is to a read under way: the read
\* was alone only if no write ran beside it and nothing was lost.
Disturb == reader' = IF Reading THEN [reader EXCEPT !.quiet = FALSE] ELSE reader

\* The self-check of a process ends with it.
Abandon ==
  reader' = IF Reading /\ reader.kind = "posture" THEN NoRead
            ELSE IF Reading THEN [reader EXCEPT !.quiet = FALSE] ELSE reader

WatchInit == Init /\ writer = Idle /\ before = files /\ reader = NoRead

-----------------------------------------------------------------------------
(***************************************************************************)
(* The writer.                                                             *)
(***************************************************************************)

\* _write_to_ledger has computed the record: does its line need a rotation?
BeginWrite ==
  /\ writer = Idle /\ writes < MaxWrites
  /\ \E phase \in {"rotate", "append"} :
       /\ phase = "rotate" => Rotation /\ files[0] # <<>>
       /\ writer' = [phase |-> phase, j |-> 0]
  /\ Disturb
  /\ UNCHANGED <<vars, before>>

\* The next unlink or rename of _rotate_if_needed.
RotateStep ==
  /\ writer.phase = "rotate"
  /\ writer' = [phase |-> IF writer.j = Backups THEN "append" ELSE "rotate",
                j     |-> writer.j + 1]
  /\ files' = Rotated(before, writer.j + 1)
  /\ Disturb
  /\ UNCHANGED <<faults, head, key, writes, accepted, acked, gone, before>>

AppendLine ==
  /\ writer.phase = "append"
  /\ files' = Appended(files, NextRecord)
  /\ writer' = [writer EXCEPT !.phase = "save"]
  /\ Disturb
  /\ UNCHANGED <<faults, head, key, writes, accepted, acked, gone, before>>

\* The write is over, one way or another.
EndWrite ==
  /\ writer # Idle
  /\ writer' = Idle
  /\ writes' = writes + 1
  /\ gone' = gone \cup Pruned(before, writer.j)
  /\ before' = files
  /\ UNCHANGED <<faults, files>>

\* Mutant of SaveHead: the head is saved before the line is appended.
SaveHeadFirst ==
  /\ writer.phase = "append"
  /\ Accept(NextRecord)
  /\ acked' = acked \cup {NextRecord}
  /\ EndWrite /\ Disturb
  /\ UNCHANGED key

SaveHead ==
  /\ writer.phase = "save"
  /\ Accept(NextRecord)
  /\ acked' = acked \cup {NextRecord}
  /\ EndWrite /\ Disturb
  /\ UNCHANGED key

\* Where a fault may stop a write.
MayStop == writer.j \in RotationStops

FailWrite ==
  /\ "error" \in faults /\ MayStop
  /\ EndWrite /\ Disturb
  /\ UNCHANGED <<head, key, accepted, acked>>

CrashInWrite ==
  /\ "crash" \in faults /\ MayStop
  /\ EndWrite /\ Abandon
  /\ UNCHANGED acked
  /\ \/ Start(files)
     \/ writer.phase = "save" /\ Accept(NextRecord) /\ key' \in NextKey

WatchRestart ==
  /\ writer = Idle
  /\ Restart /\ Abandon
  /\ UNCHANGED <<faults, writer, before>>

WatchLoseFile(i) ==
  /\ writer = Idle
  /\ LoseFile(i) /\ Disturb
  /\ before' = files'
  /\ UNCHANGED <<faults, writer>>

-----------------------------------------------------------------------------
(***************************************************************************)
(* A reader.                                                               *)
(***************************************************************************)

\* The self-check starts with the head, the command with the files.
BeginRead(kind) ==
  /\ ~Reading
  /\ reader' = [NoRead EXCEPT !.kind = kind, !.phase = "probe", !.quiet = (writer = Idle),
                              !.head = IF kind = "posture" THEN head ELSE NoHead]

\* retained_segment_paths asks for one number after the other.
Probe ==
  /\ reader.phase = "probe"
  /\ reader' = IF reader.n < Backups /\ files[reader.n + 1] # <<>>
               THEN [reader EXCEPT !.n = @ + 1]
               ELSE [reader EXCEPT !.phase = "base"]

\* Mutant of ProbeBase: the segments are not put oldest first.
ProbeBaseNewestFirst ==
  /\ reader.phase = "base"
  /\ reader' = [reader EXCEPT
       !.phase = "open",
       !.todo = [k \in 1..reader.n |-> k] \o (IF files[0] # <<>> THEN <<0>> ELSE <<>>)]

\* ... and last for the active file.
ProbeBase ==
  /\ reader.phase = "base"
  /\ reader' = [reader EXCEPT
       !.phase = "open",
       !.todo = [k \in 1..reader.n |-> reader.n + 1 - k]
                  \o (IF files[0] # <<>> THEN <<0>> ELSE <<>>)]

Answered(h, records, verdict) ==
  [reader EXCEPT !.phase = "done", !.n = 0, !.todo = <<>>,
                 !.head = h, !.got = records, !.verdict = verdict]

\* load_segmented_events: a file that is no longer there ends the read.
ReadSegment ==
  /\ reader.phase = "open" /\ reader.todo # <<>>
  /\ LET f == files[Head(reader.todo)]
     IN  reader' = IF f = <<>> THEN Answered(reader.head, <<>>, "cannot_verify")
                   ELSE [reader EXCEPT !.todo = Tail(@), !.got = @ \o f]

Keyring(kind) == IF kind = "posture" THEN {key} ELSE Keys

\* verify_integrity on what was read; the command reads the head only now.
Report ==
  /\ reader.phase = "open" /\ reader.todo = <<>>
  /\ LET h == IF reader.kind = "posture" THEN reader.head ELSE head
     IN  reader' = Answered(h, reader.got, Verdict(reader.got, h, Keyring(reader.kind)))

Read ==
  /\ (\E kind \in Readers : BeginRead(kind)) \/ Probe \/ ProbeBase \/ ReadSegment \/ Report
  /\ UNCHANGED <<vars, writer, before>>

-----------------------------------------------------------------------------
WatchNext ==
  \/ BeginWrite \/ RotateStep \/ AppendLine \/ SaveHead \/ FailWrite \/ CrashInWrite
  \/ WatchRestart
  \/ \E i \in FileNo : WatchLoseFile(i)
  \/ Read

WatchSpec == WatchInit /\ [][WatchNext]_watchVars

-----------------------------------------------------------------------------
(***************************************************************************)
(* Properties.                                                             *)
(***************************************************************************)
Reported == reader.phase = "done"

\* Whatever a reader sees of a ledger that is being rotated, appended to,
\* recovered or damaged while it reads, it reports an intact ledger only when
\* it has put together exactly the records of the chain, in order and from the
\* first on, up to the head it compared them with.
IntactReportIsSnapshot ==
  Reported /\ reader.verdict = "verified_intact" =>
    reader.got = SubSeq(accepted, 1, reader.head.lastSeq)

\* A read beside which nothing was written is no false alarm: where the broker
\* may crash or change its key but nothing was pruned or lost, it is never told
\* that the ledger was tampered with, and with all the keys it is told that the
\* ledger is intact.
QuietReadIsIntact ==
  /\ Reported /\ reader.quiet /\ reader.head # NoHead
  /\ faults \in {{"crash"}, {"rekey"}}
  /\ accepted[1].mac = 1 /\ gone = {}
  => /\ reader.verdict # "verified_tampered"
     /\ reader.kind = "cli" => reader.verdict = "verified_intact"

\* A broker that was let start and calls itself ready for hard enforcement has
\* its signature key active and its callers authenticated, keeps its files and
\* its mailbox account from the agents, and has just read the whole chain: a
\* setting that is declared without being operative, or unknown, is not enough.
ReadyOnlyWhenOperative ==
  Reported /\ reader.kind = "posture" =>
    \A d \in Deployments :
      Starts(d) /\ Mode(d, reader.verdict) = "hard_enforcement_ready" =>
        /\ d.auth = "signature" /\ "active" \in d.keyring /\ "bad" \notin d.keyring
        /\ d.token /\ d.privilege = "user"
        /\ d.roots /\ d.gogHome /\ d.exposed = {}
        /\ d.hmac = EvidenceVariables
        /\ reader.got = SubSeq(accepted, 1, reader.head.lastSeq)

\* The writer, seen only when it is idle, is the one whose writes are one step:
\* what EvidenceChain shows of whole writes holds of these.
Chain == INSTANCE EvidenceChain WITH files <- IF writer = Idle THEN files ELSE before
ImplementsChain == Chain!Spec
=============================================================================
