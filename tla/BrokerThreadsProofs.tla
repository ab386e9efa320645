------------------------- MODULE BrokerThreadsProofs ------------------------
(***************************************************************************)
(* Theorems about BrokerThreads, for any number of requests, proposals and *)
(* repetitions.                                                            *)
(***************************************************************************)
EXTENDS BrokerThreads, TLAPS

-----------------------------------------------------------------------------
(***************************************************************************)
(* The inductive invariant.                                                *)
(***************************************************************************)

\* The lock is held by the request that commits an approval or drafts, and by
\* no other; each stage belongs to one kind of request.
LockHeld ==
  \A r \in Requests :
    /\ thread[r].stage \in {"committing", "drafting"} <=> lock = r
    /\ thread[r].stage = "committing" => thread[r].kind = "approve"
    /\ thread[r].stage \in {"arrived", "drafting"} => thread[r].kind = "execute"
    /\ thread[r].stage = "reading" => thread[r].kind = "propose"

\* Only a request that is done was answered, and an approval that was answered
\* APPROVED is the record of its proposal, for good.
AnswersStand ==
  \A r \in Requests :
    /\ answer[r] # "none" => thread[r].stage = "done"
    /\ answer[r] = "APPROVED" => /\ approvals[thread[r].pid] # NoRecord
                                 /\ approvals[thread[r].pid].by = r

\* The record of a proposal was made by an approve request for it, which holds
\* the lock still or was answered; the proposal is known and pending no more.
RecordsOwned ==
  /\ pending \subseteq proposed
  /\ \A p \in Pids : approvals[p] # NoRecord =>
       /\ p \in proposed \ pending
       /\ thread[approvals[p].by].pid = p
       /\ \/ answer[approvals[p].by] = "APPROVED"
          \/ thread[approvals[p].by].stage = "committing" /\ ~approvals[p].used

\* A request that commits has its record in memory.
CommitsItsOwn ==
  \A r \in Requests :
    thread[r].stage = "committing" =>
      approvals[thread[r].pid] = [by |-> r, used |-> FALSE]

\* What a client knew when it sent its request was so, and the executor sees it.
AckedIsSeen ==
  \A r \in Requests :
    /\ thread[r].acked => thread[r].stage # "unsent" /\ Acked(thread[r].pid)
    /\ thread[r].kind = "execute" /\ thread[r].stage \in {"queued", "drafting"} /\ thread[r].acked
         => thread[r].saw

\* A proposal with a draft has a used approval; while its command runs, there
\* are no more drafts than repetitions.
DraftsCounted ==
  /\ \A p \in Pids :
       /\ drafts[p] > 0 => approvals[p] # NoRecord /\ approvals[p].used
       /\ drafts[p] <= 1 + MaxRetries
  /\ \A r \in Requests :
       thread[r].stage = "drafting" =>
         /\ approvals[thread[r].pid] # NoRecord
         /\ approvals[thread[r].pid].used
         /\ drafts[thread[r].pid] <= retries[r]

IInv ==
  /\ TypeOK
  /\ LockHeld
  /\ AnswersStand
  /\ RecordsOwned
  /\ CommitsItsOwn
  /\ AckedIsSeen
  /\ DraftsCounted

-----------------------------------------------------------------------------
\* A record is never taken for no record.
LEMMA RecordIsRecord ==
  ASSUME NEW a \in Requests, NEW used \in BOOLEAN
  PROVE  [by |-> a, used |-> used] # NoRecord
<1>1. [by |-> a, used |-> used] \in [by: Requests, used: BOOLEAN]
  OBVIOUS
<1> QED
  BY <1>1, ConstantsAssumption

-----------------------------------------------------------------------------
(***************************************************************************)
(* A request that is sent, and each step of serving one, keeps the         *)
(* invariant.                                                              *)
(***************************************************************************)
LEMMA SendInv ==
  ASSUME IInv, NEW r \in Requests, NEW kind \in Kind, NEW p \in Pids, Send(r, kind, p)
  PROVE  IInv'
<1>1. TypeOK'
  BY DEF IInv, TypeOK, Send, Acked, Thread, Stage
<1>2. LockHeld'
  BY DEF IInv, LockHeld, Send
<1>3. AnswersStand'
  BY DEF IInv, AnswersStand, Send
<1>4. RecordsOwned'
  BY DEF IInv, AnswersStand, RecordsOwned, Send
<1>5. CommitsItsOwn'
  BY DEF IInv, CommitsItsOwn, Send
<1>6. AckedIsSeen'
  BY DEF IInv, AnswersStand, AckedIsSeen, Send, Acked
<1>7. DraftsCounted'
  BY DEF IInv, DraftsCounted, Send
<1> QED
  BY <1>1, <1>2, <1>3, <1>4, <1>5, <1>6, <1>7 DEF IInv

LEMMA LookUpInv == ASSUME IInv, NEW r \in Requests, LookUp(r) PROVE IInv'
<1>1. TypeOK'
  <2>1. thread[r] \in Thread /\ (approvals[thread[r].pid] # NoRecord) \in BOOLEAN
    BY DEF IInv, TypeOK
  <2>2. thread' \in [Requests -> Thread]
    BY <2>1 DEF IInv, TypeOK, LookUp, Thread, Stage
  <2> QED
    BY <2>2 DEF IInv, TypeOK, LookUp
<1>2. LockHeld'
  BY DEF IInv, TypeOK, LockHeld, LookUp, At
<1>3. AnswersStand'
  BY DEF IInv, TypeOK, AnswersStand, LookUp, At
<1>4. RecordsOwned'
  BY DEF IInv, TypeOK, RecordsOwned, LookUp, At, Record
<1>5. CommitsItsOwn'
  BY DEF IInv, TypeOK, CommitsItsOwn, LookUp
<1>6. AckedIsSeen'
  <2>1. thread[r].acked => approvals[thread[r].pid] # NoRecord
    BY DEF IInv, TypeOK, AnswersStand, AckedIsSeen, Acked, Thread
  <2>2. /\ thread'[r] = [thread[r] EXCEPT !.stage = "queued",
                                        !.saw = approvals[thread[r].pid] # NoRecord]
        /\ \A q \in Requests \ {r} : thread'[q] = thread[q]
        /\ answer' = answer
    BY DEF IInv, TypeOK, LookUp
  <2>3. /\ thread'[r].saw = (approvals[thread[r].pid] # NoRecord)
        /\ thread'[r].stage = "queued"
        /\ thread'[r].pid = thread[r].pid /\ thread'[r].acked = thread[r].acked
    BY <2>2 DEF IInv, TypeOK, Thread
  <2>4. \A p \in Pids : Acked(p)' <=> Acked(p)
    <3>1. \A q \in Requests : thread'[q].pid = thread[q].pid
      BY <2>2, <2>3
    <3> QED
      BY <2>2, <3>1 DEF Acked
  <2> QED
    BY <2>1, <2>2, <2>3, <2>4 DEF IInv, TypeOK, AckedIsSeen, Thread
<1>7. DraftsCounted'
  BY DEF IInv, TypeOK, DraftsCounted, LookUp
<1> QED
  BY <1>1, <1>2, <1>3, <1>4, <1>5, <1>6, <1>7 DEF IInv

LEMMA ProposeRefusedInv == ASSUME IInv, NEW r \in Requests, ProposeRefused(r) PROVE IInv'
<1>1. TypeOK'
  BY DEF IInv, TypeOK, ProposeRefused, Go, Reply, Thread, Stage, Answer
<1>2. LockHeld'
  BY DEF IInv, LockHeld, ProposeRefused, At, Go, Reply
<1>3. AnswersStand'
  BY DEF IInv, TypeOK, AnswersStand, ProposeRefused, Go, Reply
<1>4. RecordsOwned'
  BY DEF IInv, AnswersStand, RecordsOwned, ProposeRefused, At, Go, Reply
<1>5. CommitsItsOwn'
  BY DEF IInv, CommitsItsOwn, ProposeRefused, Go, Reply
<1>6. AckedIsSeen'
  BY DEF IInv, AnswersStand, AckedIsSeen, ProposeRefused, At, Go, Reply, Acked
<1>7. DraftsCounted'
  BY DEF IInv, DraftsCounted, ProposeRefused, Go, Reply
<1> QED
  BY <1>1, <1>2, <1>3, <1>4, <1>5, <1>6, <1>7 DEF IInv

LEMMA ProposeForReviewInv == ASSUME IInv, NEW r \in Requests, ProposeForReview(r) PROVE IInv'
<1>1. TypeOK'
  BY DEF IInv, TypeOK, ProposeForReview, Go, Reply, LockFree, Thread, Stage, Answer
<1>2. LockHeld'
  BY DEF IInv, LockHeld, ProposeForReview, At, Go, Reply
<1>3. AnswersStand'
  BY DEF IInv, TypeOK, AnswersStand, ProposeForReview, Go, Reply
<1>4. RecordsOwned'
  BY DEF IInv, RecordsOwned, ProposeForReview, Go, Reply
<1>5. CommitsItsOwn'
  BY DEF IInv, CommitsItsOwn, ProposeForReview, Go, Reply
<1>6. AckedIsSeen'
  BY ConstantsAssumption DEF IInv, AnswersStand, AckedIsSeen, ProposeForReview, At, Go, Reply,
                             Acked
<1>7. DraftsCounted'
  BY DEF IInv, DraftsCounted, ProposeForReview, Go, Reply
<1> QED
  BY <1>1, <1>2, <1>3, <1>4, <1>5, <1>6, <1>7 DEF IInv

LEMMA ProposeReadInv == ASSUME IInv, NEW r \in Requests, ProposeRead(r) PROVE IInv'
<1>1. TypeOK'
  BY DEF IInv, TypeOK, ProposeRead, Go, Reply, Acquire, Thread, Stage
<1>2. LockHeld'
  BY DEF IInv, LockHeld, ProposeRead, At, Go
<1>3. AnswersStand'
  BY DEF IInv, AnswersStand, ProposeRead, At, Go
<1>4. RecordsOwned'
  BY DEF IInv, RecordsOwned, ProposeRead, At, Go
<1>5. CommitsItsOwn'
  BY DEF IInv, CommitsItsOwn, ProposeRead, Go
<1>6. AckedIsSeen'
  BY DEF IInv, AckedIsSeen, ProposeRead, Go, Acked
<1>7. DraftsCounted'
  BY DEF IInv, DraftsCounted, ProposeRead, Go
<1> QED
  BY <1>1, <1>2, <1>3, <1>4, <1>5, <1>6, <1>7 DEF IInv

LEMMA ApproveRefusedInv == ASSUME IInv, NEW r \in Requests, ApproveRefused(r) PROVE IInv'
<1>1. TypeOK'
  BY DEF IInv, TypeOK, ApproveRefused, At, Go, Reply, Thread, Stage, Answer
<1>2. LockHeld'
  BY DEF IInv, LockHeld, ApproveRefused, At, Go, Reply
<1>3. AnswersStand'
  BY DEF IInv, TypeOK, AnswersStand, ApproveRefused, Go, Reply
<1>4. RecordsOwned'
  BY DEF IInv, AnswersStand, RecordsOwned, ApproveRefused, At, Go, Reply
<1>5. CommitsItsOwn'
  BY DEF IInv, CommitsItsOwn, ApproveRefused, Go, Reply
<1>6. AckedIsSeen'
  BY DEF IInv, AnswersStand, AckedIsSeen, ApproveRefused, At, Go, Reply, Acked
<1>7. DraftsCounted'
  BY DEF IInv, DraftsCounted, ApproveRefused, Go, Reply
<1> QED
  BY <1>1, <1>2, <1>3, <1>4, <1>5, <1>6, <1>7 DEF IInv

LEMMA ApproveInv == ASSUME IInv, NEW r \in Requests, Approve(r) PROVE IInv'
<1>1. TypeOK'
  BY DEF IInv, TypeOK, Approve, Go, Acquire, Thread, Record, Stage
<1>2. LockHeld'
  BY ConstantsAssumption DEF IInv, TypeOK, LockHeld, Approve, At, Go, LockFree, Acquire
<1>3. AnswersStand'
  BY DEF IInv, TypeOK, AnswersStand, RecordsOwned, Approve, At, Go
<1>4. RecordsOwned'
  BY DEF IInv, TypeOK, RecordsOwned, Approve, Go
<1>5. CommitsItsOwn'
  <2> SUFFICES ASSUME NEW q \in Requests, thread'[q].stage = "committing"
               PROVE  approvals'[thread'[q].pid] = [by |-> q, used |-> FALSE]
    BY DEF CommitsItsOwn
  <2>1. thread[q].stage # "committing"
    BY ConstantsAssumption DEF IInv, LockHeld, Approve, Acquire, LockFree
  <2>2. q = r /\ thread'[r].pid = thread[r].pid
    BY <2>1 DEF Approve, Go
  <2> QED
    BY <2>2 DEF IInv, TypeOK, Approve, Thread
<1>6. AckedIsSeen'
  BY DEF IInv, AckedIsSeen, Approve, Go, Acked
<1>7. DraftsCounted'
  BY DEF IInv, TypeOK, RecordsOwned, DraftsCounted, Approve, Go
<1> QED
  BY <1>1, <1>2, <1>3, <1>4, <1>5, <1>6, <1>7 DEF IInv

LEMMA ApproveCommitsInv == ASSUME IInv, NEW r \in Requests, ApproveCommits(r) PROVE IInv'
<1>1. TypeOK'
  BY DEF IInv, TypeOK, ApproveCommits, Go, Reply, Release, Thread, Stage, Answer
<1>2. LockHeld'
  BY ConstantsAssumption DEF IInv, TypeOK, LockHeld, ApproveCommits, At, Go, Reply, Release
<1>3. AnswersStand'
  <2>1. /\ approvals[thread[r].pid] = [by |-> r, used |-> FALSE]
        /\ [by |-> r, used |-> FALSE] # NoRecord
    BY RecordIsRecord DEF IInv, CommitsItsOwn, ApproveCommits, At
  <2> QED
    BY <2>1 DEF IInv, TypeOK, AnswersStand, ApproveCommits, Go, Reply
<1>4. RecordsOwned'
  BY DEF IInv, TypeOK, RecordsOwned, ApproveCommits, Go, Reply
<1>5. CommitsItsOwn'
  BY DEF IInv, CommitsItsOwn, ApproveCommits, Go, Reply
<1>6. AckedIsSeen'
  BY DEF IInv, AckedIsSeen, ApproveCommits, Go, Reply, Acked
<1>7. DraftsCounted'
  BY DEF IInv, DraftsCounted, ApproveCommits, Go, Reply
<1> QED
  BY <1>1, <1>2, <1>3, <1>4, <1>5, <1>6, <1>7 DEF IInv

LEMMA ApproveRollsBackInv == ASSUME IInv, NEW r \in Requests, ApproveRollsBack(r) PROVE IInv'
<1>1. TypeOK'
  BY DEF IInv, TypeOK, ApproveRollsBack, At, Go, Reply, Release, Thread, Stage, Answer
<1>2. LockHeld'
  BY ConstantsAssumption DEF IInv, TypeOK, LockHeld, ApproveRollsBack, At, Go, Reply, Release
<1>3. AnswersStand'
  <2>1. approvals[thread[r].pid] = [by |-> r, used |-> FALSE] /\ answer[r] # "APPROVED"
    BY DEF IInv, AnswersStand, CommitsItsOwn, ApproveRollsBack, At
  <2>2. \A q \in Requests : answer[q] = "APPROVED" => q # r /\ thread[q].pid # thread[r].pid
    BY <2>1 DEF IInv, AnswersStand
  <2> QED
    BY <2>2 DEF IInv, TypeOK, AnswersStand, ApproveRollsBack, Go, Reply
<1>4. RecordsOwned'
  <2>1. approvals[thread[r].pid] = [by |-> r, used |-> FALSE]
    BY DEF IInv, CommitsItsOwn, ApproveRollsBack, At
  <2>2. approvals[thread[r].pid] # NoRecord
    BY <2>1, RecordIsRecord
  <2>3. \A p \in Pids : approvals'[p] # NoRecord =>
          /\ approvals'[p] = approvals[p] /\ p # thread[r].pid
          /\ approvals[p].by # r /\ approvals[p].by \in Requests
    BY DEF IInv, TypeOK, RecordsOwned, ApproveRollsBack, Record
  <2> QED
    BY <2>2 DEF IInv, TypeOK, RecordsOwned, ApproveRollsBack, Go, Reply, Thread
<1>5. CommitsItsOwn'
  BY DEF IInv, TypeOK, LockHeld, CommitsItsOwn, ApproveRollsBack, At, Go, Reply
<1>6. AckedIsSeen'
  BY DEF IInv, AnswersStand, AckedIsSeen, ApproveRollsBack, At, Go, Reply, Acked
<1>7. DraftsCounted'
  <2>1. approvals[thread[r].pid] = [by |-> r, used |-> FALSE] /\ lock = r
    BY DEF IInv, LockHeld, CommitsItsOwn, ApproveRollsBack, At
  <2>2. drafts[thread[r].pid] = 0
    BY <2>1 DEF IInv, TypeOK, DraftsCounted, Thread
  <2>3. \A q \in Requests : thread'[q].stage # "drafting"
    BY <2>1 DEF IInv, TypeOK, LockHeld, ApproveRollsBack, Go, Reply
  <2> QED
    BY <2>2, <2>3 DEF IInv, DraftsCounted, ApproveRollsBack
<1> QED
  BY <1>1, <1>2, <1>3, <1>4, <1>5, <1>6, <1>7 DEF IInv

LEMMA ExecuteRefusedInv == ASSUME IInv, NEW r \in Requests, ExecuteRefused(r) PROVE IInv'
<1>1. TypeOK'
  BY DEF IInv, TypeOK, ExecuteRefused, Go, Reply, Thread, Stage, Answer
<1>2. LockHeld'
  BY DEF IInv, LockHeld, ExecuteRefused, At, Go, Reply
<1>3. AnswersStand'
  BY DEF IInv, TypeOK, AnswersStand, ExecuteRefused, Go, Reply
<1>4. RecordsOwned'
  BY DEF IInv, AnswersStand, RecordsOwned, ExecuteRefused, At, Go, Reply
<1>5. CommitsItsOwn'
  BY DEF IInv, CommitsItsOwn, ExecuteRefused, Go, Reply
<1>6. AckedIsSeen'
  BY ConstantsAssumption DEF IInv, AnswersStand, AckedIsSeen, ExecuteRefused, At, Go, Reply,
                             Acked
<1>7. DraftsCounted'
  BY DEF IInv, DraftsCounted, ExecuteRefused, Go, Reply
<1> QED
  BY <1>1, <1>2, <1>3, <1>4, <1>5, <1>6, <1>7 DEF IInv

LEMMA ConsumeInv == ASSUME IInv, NEW r \in Requests, Consume(r) PROVE IInv'
<1>1. TypeOK'
  <2>1. approvals[thread[r].pid] \in Record /\ thread[r].pid \in Pids
    BY DEF IInv, TypeOK, Consume, Executable, Thread
  <2>2. /\ approvals'[thread[r].pid] = [by |-> approvals[thread[r].pid].by, used |-> TRUE]
        /\ \A p \in Pids \ {thread[r].pid} : approvals'[p] = approvals[p]
    BY <2>1 DEF IInv, TypeOK, Consume, Record
  <2>3. approvals' \in [Pids -> Record \cup {NoRecord}]
    BY <2>1 DEF IInv, TypeOK, Consume, Record
  <2>4. thread' \in [Requests -> Thread]
    BY DEF IInv, TypeOK, Consume, Go, Thread, Stage
  <2> QED
    BY <2>3, <2>4 DEF IInv, TypeOK, Consume, Acquire
<1>2. LockHeld'
  BY ConstantsAssumption DEF IInv, TypeOK, LockHeld, Consume, At, Go, LockFree, Acquire
<1>3. AnswersStand'
  <2>1. approvals[thread[r].pid] \in Record /\ thread[r].pid \in Pids
    BY DEF IInv, TypeOK, Consume, Executable, Thread
  <2>2. /\ approvals'[thread[r].pid] = [by |-> approvals[thread[r].pid].by, used |-> TRUE]
        /\ \A p \in Pids \ {thread[r].pid} : approvals'[p] = approvals[p]
    BY <2>1 DEF IInv, TypeOK, Consume, Record
  <2>3. [by |-> approvals[thread[r].pid].by, used |-> TRUE] # NoRecord
    BY <2>1, RecordIsRecord DEF Record
  <2>4. \A q \in Requests : answer[q] = "APPROVED" =>
          /\ approvals'[thread[q].pid] # NoRecord
          /\ approvals'[thread[q].pid].by = approvals[thread[q].pid].by
    BY <2>2, <2>3 DEF IInv, TypeOK, AnswersStand, Thread
  <2> QED
    BY <2>4 DEF IInv, AnswersStand, Consume, At, Go
<1>4. RecordsOwned'
  <2>1. approvals[thread[r].pid] \in Record /\ approvals[thread[r].pid] # NoRecord
        /\ thread[r].pid \in Pids /\ thread[r].stage = "queued" /\ lock = Nobody
    BY ConstantsAssumption DEF IInv, TypeOK, Consume, Executable, LockFree, Acquire, At, Thread
  <2>2. /\ approvals'[thread[r].pid].by = approvals[thread[r].pid].by
        /\ \A p \in Pids \ {thread[r].pid} : approvals'[p] = approvals[p]
    BY <2>1 DEF IInv, TypeOK, Consume, Record
  <2>3. \A q \in Requests : thread[q].stage # "committing"
    BY <2>1, ConstantsAssumption DEF IInv, LockHeld
  <2>4. \A p \in Pids : approvals[p] # NoRecord =>
          answer[approvals[p].by] = "APPROVED" /\ approvals[p].by \in Requests
    BY <2>3 DEF IInv, TypeOK, RecordsOwned, Record
  <2>5. /\ UNCHANGED <<pending, proposed, answer>>
        /\ \A q \in Requests : thread'[q].pid = thread[q].pid
    BY DEF IInv, TypeOK, Consume, Go, Thread
  <2> QED
    BY <2>1, <2>2, <2>4, <2>5 DEF IInv, RecordsOwned
<1>5. CommitsItsOwn'
  BY ConstantsAssumption DEF IInv, LockHeld, CommitsItsOwn, Consume, Go, LockFree, Acquire
<1>6. AckedIsSeen'
  BY DEF IInv, AckedIsSeen, Consume, At, Go, Acked
<1>7. DraftsCounted'
  <2>1. approvals[thread[r].pid] \in Record /\ thread[r].pid \in Pids
    BY DEF IInv, TypeOK, Consume, Executable, Thread
  <2>2. /\ approvals'[thread[r].pid] = [by |-> approvals[thread[r].pid].by, used |-> TRUE]
        /\ \A p \in Pids \ {thread[r].pid} : approvals'[p] = approvals[p]
    BY <2>1 DEF IInv, TypeOK, Consume, Record
  <2>3. [by |-> approvals[thread[r].pid].by, used |-> TRUE] # NoRecord
    BY <2>1, RecordIsRecord DEF Record
  <2>4. drafts[thread[r].pid] = 0
    BY <2>1 DEF IInv, TypeOK, DraftsCounted, Consume, Executable
  <2>5. retries[r] \in Nat /\ drafts' = drafts /\ retries' = retries
    BY ConstantsAssumption DEF IInv, TypeOK, Consume
  <2>6. \A q \in Requests : thread'[q].stage = "drafting" => q = r /\ thread'[q].pid = thread[r].pid
    BY ConstantsAssumption DEF IInv, LockHeld, Consume, Acquire, LockFree, Go
  <2> QED
    BY <2>2, <2>3, <2>4, <2>5, <2>6 DEF IInv, DraftsCounted
<1> QED
  BY <1>1, <1>2, <1>3, <1>4, <1>5, <1>6, <1>7 DEF IInv

LEMMA BackendDeniesInv == ASSUME IInv, NEW r \in Requests, BackendDenies(r) PROVE IInv'
<1>1. TypeOK'
  BY DEF IInv, TypeOK, BackendDenies, Go, Reply, Release, Thread, Stage, Answer
<1>2. LockHeld'
  BY ConstantsAssumption DEF IInv, TypeOK, LockHeld, BackendDenies, At, Go, Reply, Release
<1>3. AnswersStand'
  BY DEF IInv, TypeOK, AnswersStand, BackendDenies, Go, Reply
<1>4. RecordsOwned'
  BY DEF IInv, AnswersStand, RecordsOwned, BackendDenies, At, Go, Reply
<1>5. CommitsItsOwn'
  BY DEF IInv, CommitsItsOwn, BackendDenies, Go, Reply
<1>6. AckedIsSeen'
  BY DEF IInv, AnswersStand, AckedIsSeen, BackendDenies, At, Go, Reply, Acked
<1>7. DraftsCounted'
  BY DEF IInv, DraftsCounted, BackendDenies, Go, Reply
<1> QED
  BY <1>1, <1>2, <1>3, <1>4, <1>5, <1>6, <1>7 DEF IInv

LEMMA CommandSucceedsInv == ASSUME IInv, NEW r \in Requests, CommandSucceeds(r) PROVE IInv'
<1>1. TypeOK'
  <2>1. drafts' \in [Pids -> Nat]
    BY DEF IInv, TypeOK, CommandSucceeds, Drafts, Thread
  <2>2. thread' \in [Requests -> Thread] /\ answer' \in [Requests -> Answer]
    BY DEF IInv, TypeOK, CommandSucceeds, Reply, Go, Thread, Stage, Answer
  <2> QED
    BY <2>1, <2>2 DEF IInv, TypeOK, CommandSucceeds, LeaveBackend, Release
<1>2. LockHeld'
  BY ConstantsAssumption DEF IInv, TypeOK, LockHeld, CommandSucceeds, Go, Reply, Release,
                             Running, LeaveBackend
<1>3. AnswersStand'
  BY DEF IInv, TypeOK, AnswersStand, CommandSucceeds, Go, Reply
<1>4. RecordsOwned'
  BY DEF IInv, AnswersStand, RecordsOwned, CommandSucceeds, Go, Reply, Running
<1>5. CommitsItsOwn'
  BY DEF IInv, CommitsItsOwn, CommandSucceeds, Go, Reply
<1>6. AckedIsSeen'
  BY DEF IInv, AnswersStand, AckedIsSeen, CommandSucceeds, Go, Reply, Acked, Running
<1>7. DraftsCounted'
  BY ConstantsAssumption DEF IInv, TypeOK, LockHeld, RecordsOwned, DraftsCounted,
                             CommandSucceeds, Go, Reply, Drafts
<1> QED
  BY <1>1, <1>2, <1>3, <1>4, <1>5, <1>6, <1>7 DEF IInv

LEMMA CommandRateLimitedInv == ASSUME IInv, NEW r \in Requests, CommandRateLimited(r) PROVE IInv'
<1>1. TypeOK'
  BY ConstantsAssumption DEF IInv, TypeOK, CommandRateLimited, Drafts, MayRetry
<1>2. LockHeld'
  BY DEF IInv, LockHeld, CommandRateLimited
<1>3. AnswersStand'
  BY DEF IInv, AnswersStand, CommandRateLimited
<1>4. RecordsOwned'
  BY DEF IInv, RecordsOwned, CommandRateLimited
<1>5. CommitsItsOwn'
  BY DEF IInv, CommitsItsOwn, CommandRateLimited
<1>6. AckedIsSeen'
  BY DEF IInv, AckedIsSeen, CommandRateLimited, Acked
<1>7. DraftsCounted'
  BY ConstantsAssumption DEF IInv, TypeOK, LockHeld, DraftsCounted, CommandRateLimited, Drafts,
                             MayRetry, Thread
<1> QED
  BY <1>1, <1>2, <1>3, <1>4, <1>5, <1>6, <1>7 DEF IInv

LEMMA CommandFailsInv == ASSUME IInv, NEW r \in Requests, CommandFails(r) PROVE IInv'
<1>1. TypeOK'
  <2>1. drafts' \in [Pids -> Nat]
    BY DEF IInv, TypeOK, CommandFails, Drafts, Thread
  <2>2. thread' \in [Requests -> Thread] /\ answer' \in [Requests -> Answer]
    BY DEF IInv, TypeOK, CommandFails, Reply, Go, Thread, Stage, Answer
  <2> QED
    BY <2>1, <2>2 DEF IInv, TypeOK, CommandFails, LeaveBackend, Release
<1>2. LockHeld'
  BY ConstantsAssumption DEF IInv, TypeOK, LockHeld, CommandFails, Go, Reply, Release, Running,
                             LeaveBackend
<1>3. AnswersStand'
  BY DEF IInv, TypeOK, AnswersStand, CommandFails, Go, Reply
<1>4. RecordsOwned'
  BY DEF IInv, AnswersStand, RecordsOwned, CommandFails, Go, Reply, Running
<1>5. CommitsItsOwn'
  BY DEF IInv, CommitsItsOwn, CommandFails, Go, Reply
<1>6. AckedIsSeen'
  BY DEF IInv, AnswersStand, AckedIsSeen, CommandFails, Go, Reply, Acked, Running
<1>7. DraftsCounted'
  <2>1. PICK n \in {0, 1} : Drafts(r, n)
    BY DEF CommandFails
  <2>2. \A q \in Requests : thread'[q].stage = "drafting" => q # r /\ thread[q].stage = "drafting"
    BY DEF IInv, TypeOK, CommandFails, Reply, Go
  <2>3. UNCHANGED <<approvals, retries>>
    BY DEF CommandFails
  <2>4. CASE thread[r].stage = "drafting"
    <3>1. /\ approvals[thread[r].pid] # NoRecord /\ approvals[thread[r].pid].used
          /\ thread[r].pid \in Pids
          /\ drafts[thread[r].pid] + n \in 0..(1 + MaxRetries)
      BY <2>4, ConstantsAssumption DEF IInv, TypeOK, DraftsCounted, Thread
    <3>2. drafts' = [drafts EXCEPT ![thread[r].pid] = @ + n]
      BY <2>1, <2>4 DEF Drafts
    <3>3. \A q \in Requests : thread'[q].stage # "drafting"
      BY <2>2, <2>4 DEF IInv, LockHeld
    <3> QED
      BY <2>3, <3>1, <3>2, <3>3 DEF IInv, DraftsCounted
  <2>5. CASE thread[r].stage # "drafting"
    <3>1. drafts' = drafts
      BY <2>1, <2>5 DEF Drafts
    <3>2. \A q \in Requests : q # r => thread'[q] = thread[q]
      BY DEF IInv, TypeOK, CommandFails, Reply, Go
    <3> QED
      BY <2>2, <2>3, <3>1, <3>2 DEF IInv, DraftsCounted
  <2> QED
    BY <2>4, <2>5
<1> QED
  BY <1>1, <1>2, <1>3, <1>4, <1>5, <1>6, <1>7 DEF IInv

\* The broker starts in the invariant.
LEMMA InitInv == Init => IInv
<1> SUFFICES ASSUME Init PROVE IInv
  OBVIOUS
<1>1. TypeOK
  <2>1. PICK p \in Pids :
          thread = [r \in Requests |-> [stage |-> "unsent", kind |-> "propose", pid |-> p,
                                        saw |-> FALSE, acked |-> FALSE]]
    BY DEF Init
  <2>2. thread \in [Requests -> Thread]
    BY <2>1 DEF Thread, Stage, Kind
  <2>3. /\ lock \in Requests \cup {Nobody} /\ pending \subseteq Pids /\ proposed \subseteq Pids
        /\ answer \in [Requests -> Answer]
    BY DEF Init, Answer
  <2>4. /\ approvals \in [Pids -> Record \cup {NoRecord}]
        /\ retries \in [Requests -> 0..MaxRetries] /\ drafts \in [Pids -> Nat]
    BY ConstantsAssumption DEF Init
  <2> QED
    BY <2>2, <2>3, <2>4 DEF TypeOK
<1>2. LockHeld /\ AnswersStand /\ RecordsOwned /\ CommitsItsOwn /\ AckedIsSeen
  BY ConstantsAssumption DEF Init, LockHeld, AnswersStand, RecordsOwned, CommitsItsOwn,
                             AckedIsSeen
<1>3. DraftsCounted
  BY ConstantsAssumption DEF Init, DraftsCounted
<1> QED
  BY <1>1, <1>2, <1>3 DEF IInv

\* Every step keeps it.
LEMMA NextInv == IInv /\ [Next]_vars => IInv'
<1> SUFFICES ASSUME IInv, [Next]_vars PROVE IInv'
  OBVIOUS
<1>1. ASSUME NEW r \in Requests, Serve(r) PROVE IInv'
  BY <1>1, LookUpInv, ProposeRefusedInv, ProposeForReviewInv, ProposeReadInv,
     ApproveRefusedInv, ApproveInv, ApproveCommitsInv, ApproveRollsBackInv, ExecuteRefusedInv,
     ConsumeInv, BackendDeniesInv, CommandSucceedsInv, CommandRateLimitedInv, CommandFailsInv
     DEF Serve
<1>2. CASE UNCHANGED vars
  BY <1>2 DEF vars, IInv, TypeOK, LockHeld, AnswersStand, RecordsOwned, CommitsItsOwn,
              AckedIsSeen, Acked, DraftsCounted
<1> QED
  BY <1>1, <1>2, SendInv DEF Next

\* Every reachable state satisfies the invariant.
THEOREM InductiveInvariant == Spec => []IInv
BY InitInv, NextInv, PTL DEF Spec

\* Threads, lock, records and answers keep their types.
THEOREM TypeCorrect == Spec => []TypeOK
<1>1. IInv => TypeOK
  BY DEF IInv
<1> QED
  BY <1>1, InductiveInvariant, PTL

\* An execute whose client knew of the approval gives the backend the approved
\* action: the executor's look without the lock comes after the client's answer,
\* and what was answered APPROVED stays in memory.
THEOREM PayloadTheorem == Spec => []AckedApprovalCarriesPayload
<1>1. IInv => AckedApprovalCarriesPayload
  BY DEF IInv, AckedIsSeen, AckedApprovalCarriesPayload, At
<1> QED
  BY <1>1, InductiveInvariant, PTL

\* One proposal leaves at most one draft per run of its one command.
THEOREM DraftsTheorem == Spec => []DraftsBoundedByRetries
<1>1. IInv => DraftsBoundedByRetries
  BY DEF IInv, DraftsCounted, DraftsBoundedByRetries
<1> QED
  BY <1>1, InductiveInvariant, PTL

-----------------------------------------------------------------------------
(***************************************************************************)
(* The threads implement OneShotApproval: an approval is given when it was *)
(* committed, and spent when the request that consumed it left the backend.*)
(***************************************************************************)

\* Spent approvals are given ones, of requests that are done, and one proposal
\* has one.
LEMMA SpentFacts ==
  ASSUME IInv, NEW a \in Spent
  PROVE  /\ a \in Given /\ thread[a].stage = "done" /\ thread[a].pid \in Pids
         /\ approvals[thread[a].pid] = [by |-> a, used |-> TRUE]
         /\ ~Drafting(thread[a].pid)
<1>1. PICK p \in Pids : approvals[p] = [by |-> a, used |-> TRUE] /\ ~Drafting(p)
  BY DEF Spent
<1>2. a \in Requests /\ approvals[p] # NoRecord
  BY <1>1, RecordIsRecord DEF Spent
<1>3. thread[a].pid = p /\ answer[a] = "APPROVED"
  BY <1>1, <1>2 DEF IInv, RecordsOwned
<1> QED
  BY <1>1, <1>2, <1>3 DEF IInv, AnswersStand, Given

\* The approval of p was a's, and the request that consumed it has left the
\* backend.
Settled(p, a) == approvals[p] = [by |-> a, used |-> TRUE] /\ ~Drafting(p)

\* A step that gives and settles nothing, and changes no draft of a settled
\* proposal, is a stutter of OneShotApproval.
LEMMA StutterRefines ==
  ASSUME IInv, Given' = Given,
         \A p \in Pids, a \in Requests : Settled(p, a)' <=> Settled(p, a),
         \A p \in Pids, a \in Requests : Settled(p, a) => drafts'[p] = drafts[p],
         \A a \in Requests : thread[a].stage = "done" => thread'[a].pid = thread[a].pid
  PROVE  UNCHANGED <<Given, Spent, Performed>>
<1>1. Spent' = Spent
  BY DEF Spent, Settled
<1>2. ASSUME NEW a \in Spent
      PROVE  thread'[a].pid = thread[a].pid /\ drafts'[thread[a].pid] = drafts[thread[a].pid]
  <2>1. a \in Requests /\ thread[a].pid \in Pids /\ Settled(thread[a].pid, a)
        /\ thread[a].stage = "done"
    BY SpentFacts DEF Settled, Spent
  <2> QED
    BY <2>1
<1> QED
  BY <1>1, <1>2 DEF Performed

\* Answers other than APPROVED give nothing.
LEMMA GivenKept ==
  ASSUME IInv, NEW r \in Requests, NEW a \in Answer \ {"APPROVED"},
         thread[r].stage # "done",
         answer' = [answer EXCEPT ![r] = a] \/ answer' = answer
  PROVE  Given' = Given
BY DEF IInv, TypeOK, AnswersStand, Given

\* A request that is not drafting before or after its step changes what is
\* drafting nowhere.
LEMMA DraftingKept ==
  ASSUME IInv, NEW r \in Requests,
         thread[r].stage # "drafting", thread'[r].stage # "drafting",
         \A q \in Requests \ {r} : thread'[q] = thread[q]
  PROVE  \A p \in Pids : Drafting(p)' <=> Drafting(p)
BY DEF Drafting, At

\* Before it drafts a request changes no settled approval.
LEMMA BeforeDraftRefines ==
  ASSUME IInv, NEW r \in Requests,
         thread[r].stage \notin {"drafting", "done"}, thread'[r].stage # "drafting",
         \A q \in Requests \ {r} : thread'[q] = thread[q],
         Given' = Given, drafts' = drafts,
         \A p \in Pids : \/ approvals'[p] = approvals[p]
                        \/ /\ approvals[p] = NoRecord \/ ~approvals[p].used
                           /\ approvals'[p] = NoRecord \/ ~approvals'[p].used
  PROVE  UNCHANGED <<Given, Spent, Performed>>
<1>1. \A p \in Pids : Drafting(p)' <=> Drafting(p)
  BY DraftingKept
<1>2. \A p \in Pids, a \in Requests : Settled(p, a)' <=> Settled(p, a)
  <2> SUFFICES ASSUME NEW p \in Pids, NEW a \in Requests
               PROVE  Settled(p, a)' <=> Settled(p, a)
    OBVIOUS
  <2>1. /\ [by |-> a, used |-> TRUE] # NoRecord
        /\ [by |-> a, used |-> TRUE].used
    BY RecordIsRecord
  <2>2. approvals'[p] = [by |-> a, used |-> TRUE] <=> approvals[p] = [by |-> a, used |-> TRUE]
    BY <2>1
  <2> QED
    BY <1>1, <2>2 DEF Settled
<1>3. \A a \in Requests : thread[a].stage = "done" => thread'[a].pid = thread[a].pid
  OBVIOUS
<1> QED
  BY <1>2, <1>3, StutterRefines

\* The steps of a request up to the consumption of an approval.
LEMMA ServeBeforeDraftRefines ==
  ASSUME IInv, NEW r \in Requests,
         \/ LookUp(r) \/ ProposeRefused(r) \/ ProposeForReview(r) \/ ProposeRead(r)
         \/ ApproveRefused(r) \/ Approve(r) \/ ApproveRollsBack(r) \/ ExecuteRefused(r)
  PROVE  UNCHANGED <<Given, Spent, Performed>>
<1>1. thread \in [Requests -> Thread] /\ approvals \in [Pids -> Record \cup {NoRecord}]
  BY DEF IInv, TypeOK
<1>2. /\ thread[r].stage \in {"arrived", "queued", "committing"}
      /\ thread'[r].stage # "drafting"
      /\ \A q \in Requests \ {r} : thread'[q] = thread[q]
      /\ drafts' = drafts
  BY <1>1 DEF LookUp, ProposeRefused, ProposeForReview, ProposeRead, ApproveRefused, Approve,
              ApproveRollsBack, ExecuteRefused, At, Go, Reply, Thread
<1>3. PICK a \in Answer \ {"APPROVED"} : answer' = [answer EXCEPT ![r] = a] \/ answer' = answer
  BY DEF LookUp, ProposeRefused, ProposeForReview, ProposeRead, ApproveRefused, Approve,
         ApproveRollsBack, ExecuteRefused, Reply, Answer
<1>4. Given' = Given
  BY <1>2, <1>3, GivenKept
<1>5. CASE approvals' = approvals
  BY <1>2, <1>4, <1>5, BeforeDraftRefines
<1>6. CASE Approve(r)
  <2>1. approvals[thread[r].pid] = NoRecord /\ thread[r].pid \in Pids
    BY <1>1, <1>6 DEF IInv, RecordsOwned, Approve, Thread
  <2>2. \A p \in Pids : \/ approvals'[p] = approvals[p]
                        \/ approvals[p] = NoRecord /\ ~approvals'[p].used
    <3>1. approvals' = [approvals EXCEPT ![thread[r].pid] = [by |-> r, used |-> FALSE]]
      BY <1>6 DEF Approve
    <3>2. ~[by |-> r, used |-> FALSE].used
      OBVIOUS
    <3> QED
      BY <1>1, <2>1, <3>1, <3>2
  <2> QED
    BY <1>2, <1>4, <2>2, BeforeDraftRefines
<1>7. CASE ApproveRollsBack(r)
  <2>1. approvals[thread[r].pid] = [by |-> r, used |-> FALSE]
    BY <1>7 DEF IInv, CommitsItsOwn, ApproveRollsBack, At
  <2>2. \A p \in Pids : \/ approvals'[p] = approvals[p]
                        \/ ~approvals[p].used /\ approvals'[p] = NoRecord
    <3>1. approvals' = [approvals EXCEPT ![thread[r].pid] = NoRecord]
      BY <1>7 DEF ApproveRollsBack
    <3>2. ~[by |-> r, used |-> FALSE].used
      OBVIOUS
    <3> QED
      BY <1>1, <2>1, <3>1, <3>2
  <2> QED
    BY <1>2, <1>4, <2>2, BeforeDraftRefines
<1> QED
  BY <1>5, <1>6, <1>7 DEF LookUp, ProposeRefused, ProposeForReview, ProposeRead, ApproveRefused,
                          ExecuteRefused

\* So is sending it.
LEMMA SendRefines ==
  ASSUME IInv, NEW r \in Requests, NEW kind \in Kind, NEW p \in Pids, Send(r, kind, p)
  PROVE  UNCHANGED <<Given, Spent, Performed>>
<1>1. /\ thread[r].stage = "unsent" /\ thread'[r].stage # "drafting"
      /\ \A q \in Requests \ {r} : thread'[q] = thread[q]
      /\ UNCHANGED <<approvals, drafts, answer>>
  BY DEF IInv, TypeOK, Send
<1>2. Given' = Given
  BY <1>1 DEF Given
<1> QED
  BY <1>1, <1>2, BeforeDraftRefines

\* Committing gives the approval of the request.
LEMMA CommitRefines ==
  ASSUME IInv, NEW r \in Requests, ApproveCommits(r)
  PROVE  OneShot!Give(r)
<1>1. /\ thread[r].stage = "committing" /\ thread'[r].stage = "done" /\ answer[r] = "none"
      /\ \A q \in Requests \ {r} : thread'[q] = thread[q]
      /\ thread'[r].pid = thread[r].pid
      /\ answer' = [answer EXCEPT ![r] = "APPROVED"]
      /\ UNCHANGED <<approvals, drafts>>
  BY DEF IInv, TypeOK, AnswersStand, ApproveCommits, At, Go, Reply
<1>2. Given' = Given \cup {r} /\ r \notin Given
  BY <1>1 DEF IInv, TypeOK, Given
<1>3. \A p \in Pids : Drafting(p)' <=> Drafting(p)
  BY <1>1, DraftingKept
<1>4. Spent' = Spent
  BY <1>1, <1>3 DEF Spent
<1>5. Performed' = Performed
  BY <1>1, <1>4 DEF Performed, Spent
<1> QED
  BY <1>2, <1>4, <1>5 DEF OneShot!Give

\* Consuming an approval settles nothing: its request is drafting now.
LEMMA ConsumeRefines ==
  ASSUME IInv, NEW r \in Requests, Consume(r)
  PROVE  UNCHANGED <<Given, Spent, Performed>>
<1>1. /\ thread \in [Requests -> Thread] /\ approvals \in [Pids -> Record \cup {NoRecord}]
      /\ thread[r].pid \in Pids /\ UNCHANGED <<drafts, answer>>
  BY DEF IInv, TypeOK, Consume, Thread
<1> PICK p \in Pids : p = thread[r].pid
  BY <1>1
<1>2. /\ thread[r].kind = "execute" /\ thread[r].stage = "queued"
      /\ thread'[r] = [thread[r] EXCEPT !.stage = "drafting"]
      /\ \A q \in Requests \ {r} : thread'[q] = thread[q]
  BY <1>1 DEF Consume, At, Go
<1>3. thread'[r].stage = "drafting" /\ thread'[r].kind = "execute" /\ thread'[r].pid = p
  BY <1>1, <1>2 DEF Thread
<1>4. Drafting(p)' /\ \A q \in Pids \ {p} : Drafting(q)' <=> Drafting(q)
  BY <1>2, <1>3 DEF Drafting, At
<1>5. /\ approvals[p] # NoRecord /\ ~approvals[p].used
      /\ \A q \in Pids \ {p} : approvals'[q] = approvals[q]
  BY <1>1 DEF Consume, Executable
<1>6. \A q \in Pids, a \in Requests : Settled(q, a)' <=> Settled(q, a)
  <2> SUFFICES ASSUME NEW q \in Pids, NEW a \in Requests
               PROVE  Settled(q, a)' <=> Settled(q, a)
    OBVIOUS
  <2>1. CASE q = p
    <3>1. [by |-> a, used |-> TRUE].used
      OBVIOUS
    <3>2. approvals[p] # [by |-> a, used |-> TRUE]
      BY <1>5, <3>1
    <3> QED
      BY <1>4, <2>1, <3>2 DEF Settled
  <2>2. CASE q # p
    BY <1>4, <1>5, <2>2 DEF Settled
  <2> QED
    BY <2>1, <2>2
<1>7. Given' = Given
  BY <1>1 DEF Given
<1>8. \A a \in Requests : thread[a].stage = "done" => thread'[a].pid = thread[a].pid
  BY <1>2
<1> QED
  BY <1>1, <1>6, <1>7, <1>8, StutterRefines

\* A command that is run again changes drafts of a proposal not settled yet.
LEMMA RateLimitedRefines ==
  ASSUME IInv, NEW r \in Requests, CommandRateLimited(r)
  PROVE  UNCHANGED <<Given, Spent, Performed>>
<1>1. UNCHANGED <<thread, approvals, answer>>
  BY DEF CommandRateLimited
<1>2. \A q \in Pids, a \in Requests : Settled(q, a)' <=> Settled(q, a)
  BY <1>1 DEF Settled, Drafting, At
<1>3. ASSUME NEW q \in Pids, ~Drafting(q) PROVE drafts'[q] = drafts[q]
  <2>1. thread[r].stage = "drafting" => thread[r].pid # q
    BY <1>3 DEF IInv, LockHeld, Drafting, At
  <2> QED
    BY <2>1 DEF IInv, TypeOK, CommandRateLimited, Drafts
<1> QED
  BY <1>1, <1>2, <1>3, StutterRefines DEF Given, Settled

\* A command of a read changes nothing about approvals.
LEMMA ReadRefines ==
  ASSUME IInv, NEW r \in Requests, thread[r].stage = "reading",
         CommandSucceeds(r) \/ CommandFails(r)
  PROVE  UNCHANGED <<Given, Spent, Performed>>
<1>1. /\ thread'[r].stage = "done" /\ UNCHANGED <<approvals, drafts>>
      /\ \A q \in Requests \ {r} : thread'[q] = thread[q]
      /\ answer' = [answer EXCEPT ![r] = "ALLOW"]
  BY DEF IInv, TypeOK, CommandSucceeds, CommandFails, Drafts, Reply, Go, Thread
<1>2. Given' = Given
  BY <1>1, GivenKept DEF Answer
<1> QED
  BY <1>1, <1>2, BeforeDraftRefines

\* Leaving the backend spends the approval that was consumed, with its drafts.
LEMMA LeaveRefines ==
  ASSUME IInv, NEW r \in Requests, thread[r].stage = "drafting",
         BackendDenies(r) \/ CommandSucceeds(r) \/ CommandFails(r)
  PROVE  OneShot!Spend(approvals[thread[r].pid].by)
<1> DEFINE p == thread[r].pid
           a == approvals[p].by
<1>1. /\ thread \in [Requests -> Thread] /\ approvals \in [Pids -> Record \cup {NoRecord}]
      /\ p \in Pids /\ thread[r].kind = "execute"
  BY DEF IInv, TypeOK, LockHeld, Thread
<1>2. /\ approvals[p] = [by |-> a, used |-> TRUE] /\ a \in Requests /\ approvals[p] # NoRecord
  BY <1>1 DEF IInv, DraftsCounted, Record
<1>3. /\ answer[a] = "APPROVED" /\ thread[a].pid = p /\ thread[a].stage = "done"
      /\ \A q \in Pids : approvals[q] = [by |-> a, used |-> TRUE] => q = p
  <2>1. [by |-> a, used |-> TRUE] # NoRecord /\ [by |-> a, used |-> TRUE].by = a
        /\ [by |-> a, used |-> TRUE].used
    BY <1>2, RecordIsRecord
  <2>2. answer[a] = "APPROVED" /\ thread[a].pid = p
    BY <1>1, <1>2, <2>1 DEF IInv, RecordsOwned
  <2>3. thread[a].stage = "done"
    BY <1>2, <2>2 DEF IInv, AnswersStand
  <2>4. ASSUME NEW q \in Pids, approvals[q] = [by |-> a, used |-> TRUE] PROVE q = p
    BY <2>1, <2>2, <2>4 DEF IInv, RecordsOwned
  <2> QED
    BY <2>2, <2>3, <2>4
<1>4. PICK x \in Answer \ {"APPROVED"} : Reply(r, x)
  BY DEF BackendDenies, CommandSucceeds, CommandFails, Answer
<1>5. /\ thread'[r].stage = "done" /\ approvals' = approvals
      /\ \A q \in Requests \ {r} : thread'[q] = thread[q] /\ thread[q].stage # "drafting"
      /\ \A q \in Requests : thread'[q].pid = thread[q].pid
      /\ \A q \in Pids \ {p} : drafts'[q] = drafts[q]
  <2>1. approvals' = approvals /\ \A q \in Pids \ {p} : drafts'[q] = drafts[q]
    BY DEF IInv, TypeOK, BackendDenies, CommandSucceeds, CommandFails, Drafts
  <2>2. \A q \in Requests \ {r} : thread[q].stage # "drafting"
    BY DEF IInv, LockHeld
  <2>3. thread' = [thread EXCEPT ![r].stage = "done"]
    BY <1>4 DEF Reply, Go
  <2>4. /\ thread'[r].stage = "done" /\ thread'[r].pid = thread[r].pid
        /\ \A q \in Requests \ {r} : thread'[q] = thread[q]
    BY <1>1, <2>3 DEF Thread
  <2> QED
    BY <2>1, <2>2, <2>4
<1>6. Given' = Given
  BY <1>4, GivenKept DEF Reply
<1>7. a \in Given \ Spent
  <2>1. Drafting(p)
    BY <1>1 DEF Drafting, At
  <2> QED
    BY <1>2, <1>3, <2>1, SpentFacts DEF Given
<1>8. /\ ~Drafting(p)' /\ \A q \in Pids \ {p} : Drafting(q)' <=> Drafting(q)
  BY <1>5 DEF Drafting, At
<1>9. Spent' = Spent \cup {a}
  <2>1. ASSUME NEW b \in Requests PROVE b \in Spent' <=> b \in Spent \/ b = a
    <3>1. CASE b = a
      BY <1>1, <1>2, <1>5, <1>8, <3>1 DEF Spent
    <3>2. CASE b # a
      <4>1. \A q \in Pids : approvals[q] = [by |-> b, used |-> TRUE] => q # p
        BY <1>2, <3>2
      <4> QED
        BY <1>5, <1>8, <3>2, <4>1 DEF Spent
    <3> QED
      BY <3>1, <3>2
  <2>2. Spent \subseteq Requests /\ Spent' \subseteq Requests
    BY DEF Spent
  <2> QED
    BY <1>2, <2>1, <2>2
<1>10. Performed' \in {Performed, Performed \cup {a}}
  <2>1. ASSUME NEW b \in Spent PROVE b \in Performed' <=> b \in Performed
    <3>1. /\ b \in Requests /\ thread[b].pid \in Pids
          /\ approvals[thread[b].pid] = [by |-> b, used |-> TRUE] /\ b # a
      BY <1>7, SpentFacts DEF Spent
    <3>2. thread[b].pid # p
      BY <1>2, <3>1
    <3>3. thread'[b].pid = thread[b].pid /\ drafts'[thread[b].pid] = drafts[thread[b].pid]
      BY <1>5, <3>1, <3>2
    <3> QED
      BY <1>9, <3>3 DEF Performed
  <2> QED
    BY <1>9, <2>1 DEF Performed
<1> QED
  BY <1>6, <1>7, <1>9, <1>10 DEF OneShot!Spend

\* Every step of the threads is one of OneShotApproval or a stutter.
LEMMA StepRefines ==
  ASSUME IInv, [Next]_vars
  PROVE  [OneShot!Next]_<<Given, Spent, Performed>>
<1>1. ASSUME NEW r \in Requests, Serve(r)
      PROVE  [OneShot!Next]_<<Given, Spent, Performed>>
  <2>1. CASE \/ LookUp(r) \/ ProposeRefused(r) \/ ProposeForReview(r) \/ ProposeRead(r)
             \/ ApproveRefused(r) \/ Approve(r) \/ ApproveRollsBack(r) \/ ExecuteRefused(r)
    BY <2>1, ServeBeforeDraftRefines
  <2>2. CASE ApproveCommits(r)
    BY <2>2, CommitRefines DEF OneShot!Next
  <2>3. CASE Consume(r)
    BY <2>3, ConsumeRefines
  <2>4. CASE CommandRateLimited(r)
    BY <2>4, RateLimitedRefines
  <2>5. CASE BackendDenies(r) \/ CommandSucceeds(r) \/ CommandFails(r)
    <3>1. thread[r].stage \in {"reading", "drafting"}
          /\ (BackendDenies(r) => thread[r].stage = "drafting")
      BY <2>5 DEF BackendDenies, CommandSucceeds, CommandFails, Running, At
    <3>2. CASE thread[r].stage = "reading"
      BY <2>5, <3>1, <3>2, ReadRefines
    <3>3. CASE thread[r].stage = "drafting"
      <4>1. approvals[thread[r].pid].by \in Requests
        BY <3>3 DEF IInv, TypeOK, DraftsCounted, Thread, Record
      <4> QED
        BY <2>5, <3>3, <4>1, LeaveRefines DEF OneShot!Next
    <3> QED
      BY <3>1, <3>2, <3>3
  <2> QED
    BY <1>1, <2>1, <2>2, <2>3, <2>4, <2>5 DEF Serve
<1>2. ASSUME NEW r \in Requests, NEW kind \in Kind, NEW p \in Pids, Send(r, kind, p)
      PROVE  UNCHANGED <<Given, Spent, Performed>>
  BY <1>2, SendRefines
<1>3. CASE UNCHANGED vars
  BY <1>3 DEF vars, Given, Spent, Performed, Drafting, At
<1> QED
  BY <1>1, <1>2, <1>3 DEF Next

\* No approval is given, spent or performed at the start.
LEMMA InitRefines == Init => OneShot!Init
BY RecordIsRecord DEF Init, OneShot!Init, Given, Spent, Performed

\* The broker's threads implement OneShotApproval: an approval that was answered
\* APPROVED goes to the backend at most once, and only then, and with it, a
\* draft can come into being, whatever threads look up, wait, retry or fail.
THEOREM Refinement == Spec => ImplementsOneShot
<1>1. IInv /\ [Next]_vars => [OneShot!Next]_<<Given, Spent, Performed>>
  BY StepRefines
<1> QED
  BY <1>1, InitRefines, InductiveInvariant, PTL DEF Spec, ImplementsOneShot, OneShot!Spec
=============================================================================
