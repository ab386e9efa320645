# A verification project for the VMGA broker

VMGA puts a broker between a mail agent and a mailbox. The agent proposes actions; policy allows, denies or sends them
to review; an operator approves a proposal with an unforgeable token; the broker consumes the approval and hands the
action to a Gmail backend; everything leaves evidence in a ledger. These TLA+ modules model that system as it is in
`src/src/vmga/`, TLC checks them on small instances, and TLAPS proves for every value of the constants each invariant,
action property and refinement that the runs check; liveness alone is only model-checked. Paths below are relative to
`src/`.

## Inventory

| Component | State it keeps | Operations | What is hard | What makes it correct |
|---|---|---|---|---|
| Approval gate, `src/vmga/vmga_adapter.py` (`VMGAGmailAdapter`) | `pending_proposals`, `approvals`, `lockdown_active`, `denial_counts`, `_failed_token_attempts`, used nonces; all in memory under one lock | `propose_action`, `approve_proposal`, `execute_approved`, `reset_lockdown`, construction | memory and tables change one after the other; a handler can fail or die half way; roll back is in memory only | an approval is spent at most once, is durable when acknowledged, leaves evidence before its effect; lockdown and rate limits survive restarts |
| SQLite store, `src/vmga/sqlite_state.py` | six tables | one transaction per table of a save; `consume_approval_for_execution`; loading | a save is four transactions; a stale memory rewrites a table | the row decides who consumes |
| JSON store (`VMGAStateStore` in the adapter file) | a file per table | temporary file, fsync, rename; loading, failing closed or not | no consume transaction; errors after a rename; unreadable files count as empty | as for SQLite: at most once, acknowledged is durable, lockdown persists |
| Evidence chain, `ledger.py`, `evidence_integrity.py`, `_write_to_ledger` | active JSONL file, numbered backups, head checkpoint in SQLite | append, rotate, save head, verify, recover one record at start | crash between append and head; renames one by one; keys change | the head never runs ahead; "intact" means complete |
| Evidence lifecycle verifier, `evidence.py` | none | `verify_events` | events of one proposal come from several handlers and processes | the broker's own evidence passes |
| Request contract, `broker_contract.py` | none | `validate_broker_proposal_payload` | what passes here is hashed, judged and executed by code that assumes more | of what passes, only the unfit (see `Unfit`) fails where it is too late |
| Policy engine, `VMGAPolicy` in the adapter file, YAML | rules in force, read at start | `validate_rules`, `evaluate`, content risk | precedence of fourteen rules; lists that mean "everything" when empty; state that outlives the file it was decided under | effects were reviewed; a tighter file never gives more |
| Broker and executor, `broker.py`, `executor.py` | none of their own; a thread per request | propose, approve, execute, two read-only GETs | the executor reads an approval outside the lock; the lock is held over backend commands; clients time out | one request per approval reaches the backend; everyone is answered |
| Gmail backends, `backends/` | none | search, read, create draft | repetition after a rate limit, timeouts; checks that come after the consumption | bounded repetition; what is refused so late was unfit as proposed |
| Signature approval (Ed25519), in the adapter | used nonces | verify, prune, verify again at execution | a signature stays valid and can be presented again; the nonce is saved last and forgotten after a horizon | one signature gives one approval, spent once |
| Posture assessment, `posture.py` | none | `assess_posture` | it reads head and files without the lock while they change; many cases of settings | "intact" is a snapshot; "ready" is operative |
| Operator CLI, `cli.py` | none | starting a broker, verifying evidence, listing, approving | reads files a broker writes | as for the posture |
| Agent integrations, redaction, smoke test and release scripts | none | translation, formatting, I/O | a client that gave up | clients appear as requests |

How they interact: an agent or operator sends an HTTP request; a thread of `ThreadingHTTPServer` calls the broker,
which checks the contract and calls the adapter under its lock (`execute` through the executor, which looks at the
approval first). The adapter asks policy, writes its tables through the store and its evidence through the ledger,
whose head is again a row of the store, and calls the backend while it holds the lock. The posture self-check and
`vmga-verify-evidence` read head and files without that lock. Several broker processes may share one SQLite file.
`PROJECT.json` lists, line by line, what can go wrong there and is hard to test.

## Modules

| Module | Models | Read with |
|---|---|---|
| `ApprovalGate` | one adapter over SQLite in HMAC mode, strict: handlers as single actions with their faults | `MCApprovalGate`, `ApprovalGateProofs` |
| `OneShotApproval` | the promise: an approval is given, spent at most once, performed only by being spent | refined by `ApprovalGate` and `BrokerThreads` |
| `BrokerThreads` | the requests of one broker as threads, the lock, the unlocked look-up, backend commands and their repetition | `MCBrokerThreads`, `BrokerThreadsProofs` |
| `SharedStore` | several brokers over one database, transaction by transaction | `MCSharedStore`, `SharedStoreProofs` |
| `SignatureApproval` | approval by signature over SQLite: nonces in memory and in the table, key status, replayed signatures | `MCSignatureApproval`, `SignatureApprovalProofs` |
| `JsonStateStore` | the adapter over its JSON files: renames, unreadable files, time to live, consumption by saving | `MCJsonStateStore`, `JsonStateStoreProofs` |
| `RequestContract` | which kinds of values the contract lets through, and who can take them | `PolicyGate` |
| `MailPolicy` | `VMGAPolicy.evaluate` as an ordered list of rules, and the action catalogue without an order | `PolicyGateProofs` |
| `PolicyGate` | composes the two: requests, decisions, denials, lockdown and evidence, across policy files | `MCPolicyGate`, `PolicyGateProofs` |
| `EvidenceChain` | ledger files, rotation, head checkpoint, verifier and recovery; a write is one action | `MCEvidenceChain`, `EvidenceChainProofs` |
| `Posture` | settings with which a broker starts, the checks of `assess_posture`, the mode | `PostureWatch` |
| `PostureWatch` | the writer of `EvidenceChain`, file operation by file operation, and readers that look on | `MCPostureWatch`, `PostureWatchProofs` |

**ApprovalGate.** `mem` is the adapter's dictionaries, `disk` the tables. Since every handler holds the adapter lock, a
handler is an action; `BrokerThreads` is the module that justifies this. What can interrupt it is a choice inside the
action: `SaveTables(m, d, k)` is `_save_state` stopped after `k` of its four transactions, a ledger write is `"ok"`,
`"lost"` (no line) or `"unacked"` (line written, error returned), and `RestartFrom` is death and reload. A crash
between saving and logging is covered by the crash disjunct with `k = 4` and a lost line. `faults` is chosen once from
`FaultSets` and says which of these a behaviour contains. Time counts approval-token windows of 300 seconds. A token
is the window it was computed for: HMAC unforgeability is assumed, and a request that carries a wrong token or hash is
`ExecuteBadToken`. Policy is a free choice among review, deny and allow, so every policy table is covered. `spends`,
`grants`, `answers` and `proposed` are history. One call of the backend is `effect \in {0, 1}`; that the gog backend
may repeat its command inside that call is in `BrokerThreads`.

**BrokerThreads.** A request goes from `arrived` (executor not yet run) over `queued` (waiting for the lock) to
`committing` (approval inserted, not yet saved and logged) or `drafting` (approval consumed, command running, lock
held) to `done`. `reading` is the command of an allowed read, outside the lock. Refusals (lockdown, bad token, expiry,
rate limit) are free choices, as `ApprovalGate` has them in detail. Clients that time out need no action: the broker
does not notice them, and their retry is another request.

**SharedStore.** Each broker decides from its own `mem`; `job` says which transaction of its request comes next.
`BEGIN IMMEDIATE` takes `writer`; a broker that waits longer than the busy timeout answers an error
(`BusyTimeout`). A crash drops the transaction and the reload reads proposals and approvals one after the other.
`revived` counts the saves that made an approval unused again after it was spent.

**SignatureApproval.** A behaviour fixes what each nonce's signature says (proposal, key, window); it may then be
presented at any time, any number of times. `mem.nonces` and `disk.nonces` hold when a nonce was used; `SaveTables`
writes them last, `Pruned` forgets them after `Horizon`, at each verification and at each start. A window is 300
seconds, so that 600 seconds either side are two windows and a grace of 300 is one. Restarts choose a new status for
every key: `inactive` refuses approvals, `removed` executions too. Lockdown and failed attempts are the gate's and are
left out.

**JsonStateStore.** `SaveFiles(m, f, k)` is `_save_state` after `k` renames; it may raise with `k = 4`, when the last
directory fsync fails. `Loads` reads the files of which any subset cannot be read, or, failing closed, nothing at all.
`Execute` sets `used`, saves everything, and reaches the backend only if the save raised nothing. Tokens, failed
attempts and evidence are the gate's; which denial locks the adapter is left open.

**RequestContract, MailPolicy, PolicyGate.** A value is known by its kind (a clean line, an address, a list of mixed
values, ...), a mail by what policy looks at (action, topics of risk, length, domains). `Valid` is the contract,
`Assessable` and `Loggable` say which valid requests policy and the hash can take, `BackendTakes` what the backend
takes after the approval is consumed. `Applies` says of each of the fourteen rules of `evaluate` when it would apply
were it reached, `Order` in which order they are tried; `CatalogVerdict` is what `docs/action_catalog.md` and the
guards of the code say without any order. `PolicyGate` puts both together: `Decided` is what a proposal leaves in the
ledger, and a request that passes the contract but cannot be hashed changes state and leaves nothing, as in the code.
Faults of stores and ledger are the gate's. `asked` remembers under which file each proposal was decided.

**EvidenceChain, Posture, PostureWatch.** `files` holds records with their sequence, link, MAC and key; a MAC is the
number of the write that made it, which states that the key holder alone makes verifying MACs and that contents
differ. A write is one action with its interruptions: `j` of the `Backups + 1` file operations of a rotation, the
append, the head save. `Verdict` is `verify_integrity`, `OneAhead` is `recover_one_ahead`. `PostureWatch` takes the
write apart: `writer` is its phase and the number of file operations done, `before` the files it found, so that
`EvidenceChain` is implemented with `files` seen only while the writer is idle (`ImplementsChain`). `reader` probes for
the numbered files, builds the list of paths, reads one file after the other, and compares with the head: the posture
check reads the head first and knows one key, `vmga-verify-evidence` reads the head last and has all. A reader's report
is then the verdict that `Posture` counts among its checks. `path_isolation` stands for three checks of the same form;
`single_process_boundary`, which always passes, is left out.

## Runs

| Run | Instance | Shows |
|---|---|---|
| `gate_recovery` | 2 proposals, 2 approvals each, 3 windows; crashes, or ledger failures | `OneActionPerProposal`, `AckedApprovalsSurvive`, `DecidedStaysDecided`, `ApprovalLoggedBeforeEffect`, `LimitedNeverExecutes` |
| `gate_faults` | 1 proposal, 2 approvals, 2 windows, 1 agent; all faults together | `AtMostOncePerApproval`, `DurableApprovals`, `ThresholdLocks`, `SpentRowsAreUsed` (with the types, the inductive invariant), `DurableLockdownNeedsReset`, refinement of `OneShotApproval` |
| `threads` | 4 requests of any kind on 1 proposal, 1 repetition | `AckedApprovalCarriesPayload`, `DraftsBoundedByRetries`, every request answered, refinement of `OneShotApproval` |
| `shared_writers` | 2 brokers, 2 proposals, 2 crashes, 5 spends | `SecondConsumeNeedsStaleSave`, `OncePerProcess`, every request answered |
| `signatures` | 2 signatures for 1 proposal, 6 windows, 1 key; failing saves and ledger writes, or crashes and failing ledger writes | `ReplayDenied`, `AckedNonceKept`, `SignatureSpentOnce` |
| `json_store` | 2 proposals, 2 approvals each, 3 instants; failing saves and ledger writes, or crashes and unreadable files, or all together; failing closed or not | `AtMostOncePerApproval`, `OneActionPerProposal`, `AckedApprovalsSurvive`, `DurableLockdownNeedsReset`, `ExpiredNeverReturns` |
| `policy` | 13 requests, 4 files (one invalid), 2 proposals, 2 approvers, 4 events before the last handlers | `VerifierAcceptsEvidence`, `EffectsWereReviewed`, `LockdownMatchesEvidence`, `StricterNeverWidens`, `RefusedExactlyIfUnfit` |
| `chain_faults` | 4 writes, 2 backups, 2 keys; crashes, key changes, or all faults together | `HeadsFormChain`, `HeadBehindLedger`, `IntactMeansComplete`, `IntactUntilPruned`, `RecoveryExtendsIntact` |
| `posture` | 3 writes in single file operations, 2 backups, 2 keys; crashes, key changes, or all faults; 2 kinds of readers; 60 deployments that differ from the runbook's in up to three settings | `IntactReportIsSnapshot`, `QuietReadIsIntact`, `ReadyOnlyWhenOperative`, refinement of `EvidenceChain` |
| `doc_shared_store` | violation of `ConsumedOnce` | a broker with an old memory revives a used approval, which is consumed again |
| `doc_nonce_replay` | violation of `SignatureSpentOnce` | a failed save, an interrupted one and a restart let one signature approve and execute twice |
| `doc_decisions_recorded` | violation of `DecisionsRecorded` | a request whose `message_ids` cannot be sorted is decided without evidence |

Why the bounds suffice. `MaxGrants = 2` lets a proposal be approved again after a roll back, which is the only way to
a second approval. Three windows reach past a token's life (two windows) and past the lockout of two, so expiry, a
current and a previous window and an ended lockout all occur. The real lockout is twelve windows; two, the smallest
value above a token's age, is the hardest for `LimitedNeverExecutes`. Two proposals are needed where one handler's
save writes another proposal's state. Four writes with two backups prune once, and two
backups give a rotation three file operations, each of which can be its last; three writes in single operations do the
same between the looks of a reader, which sees up to three files. Signatures use an expiry of three windows, the
smallest for which `ReplayDenied` holds, and a clock that reaches past the horizon of a nonce used at once; two
signatures for one proposal are needed for a second approval that is not a replay. In `json_store` a time to live and
an expiry of one instant leave one instant after each. Four requests are a failed and a good approval and two
executions, over a proposal that was pending at the start. In `policy` one actor reaches a threshold of two by two
denials, which leaves the reset and a restart on each file; requests differ in each thing that contract, policy, hash
or backend look at, and the four files differ in rules, threshold, approvers and validity; one denies an action in
other letter case (`OtherCase`).
Every property is also checked against a changed definition (`mutants` in `PROJECT.json`) that TLC must refute.

Deadlock checking is off in `threads` and `shared_writers` only: when all requests are answered, or all proposals are
used up, the system stops. `MaxTime`, `MaxWrites`, `MaxGrants`, `MaxAccepts`, `MaxSpends`, `MaxCrashes` and `MaxEvents`
are bounds of the models, not of the code. Symmetry is used for keys and for proposals in runs without liveness.

**Fairness.** Weak fairness of `Serve` in `BrokerThreads` and `SharedStore`: threads run, subprocesses are killed after
`timeout_seconds`, transactions end or meet the busy timeout. Python's lock is not fair; weak fairness is still enough,
because each request takes the lock once and there are finitely many requests. No fairness is put on requests coming
in, on crashes or on the clock. The safety modules have none.

## What is proved

All theorems hold for every value of the constants that satisfies the assumptions of the module, unless said otherwise.

`ApprovalGateProofs`, for all proposals, agents, approvers, thresholds, expiries, fault sets and bounds:

- `TypeCorrect`, `AtMostOnce`, `ApprovalsDurable`, `ThresholdMeansLockdown`, `RowsAreUsed`, `OneAction`, `AckedSurvive`,
  `DecidedStays`, `LoggedBeforeEffect`: the invariants of the same content;
- `DurableLockdown`: only `reset_lockdown` ends a lockdown that is in the table;
- `LimitedTheorem`: with `Lockout >= 2`, an approval whose failed attempts reached the limit is never executed;
- `Refinement`: the gate implements `OneShotApproval`.

The inductive invariant `IInv` is the conjunction of the type invariant, `DurableApprovals`, `ThresholdLocks`,
`AtMostOncePerApproval` and `SpentRowsAreUsed`. At most one spend per approval is not inductive by itself: `Execute`
looks at a row, not at the history, so one must know that the row of a spent approval says it is used
(`SpentRowsAreUsed`), that memory agrees with the row (`DurableApprovals`, for roll backs and restarts replace memory),
and that an approval not yet given was not spent. Lemmas say what a partial save, a purge, a restart and a failed
attempt return; then there is one lemma per handler, `NextInv` joins them, and the theorems follow. The refinement
needs `AtMostOncePerApproval`: a step that consumes an approval must be its first.

What happens to a proposal needs more, `ProposalInv`: a proposal that waits for approval anywhere was proposed; one
that has an approval, or was spent, waits neither in memory nor in the table, and the row left of a spent one is the
one that was spent; while the process lives, each approval in memory and each side effect has its event. It is
inductive beside `IInv`, and its proof names four shapes of steps (`Quiet`, `Proposes`, `Approves`, `Executes`), shows
every handler to have one of them, and then looks at the shapes only. The conditions in the properties are those the
attempt to prove them needed, and no more: `Orderly` (crashes do not meet failing saves or ledger writes) for
`OneActionPerProposal`, because an approval rolled back in memory stays in the table and returns with a restart;
`Readable` (a restart can read its tables) for `AckedApprovalsSurvive` and `DecidedStaysDecided`, because an adapter
that cannot starts empty and locked. Every other mixture of faults is covered. For `LimitedNeverExecutes`, again where
`Orderly`, `AttemptInv` says that the failures counted against an approval came after it was given, and that where
memory no longer counts them, because a restart dropped them as old, its token is over. `Lockout = 1` breaks the
property in `gate_recovery`, so two windows are the least lockout for which it holds; the code's 3600 seconds are
twelve (`vmga_adapter.py:913`).

`JsonStateStoreProofs`: `TypeCorrect`, `AtMostOnce`, `OneAction`, `AckedSurvive`, `DurableLockdown` and
`ExpiredTheorem`. The inductive invariant adds to the first two that no grant is spent before it is given and that, in
memory and in the files alike, an approval that was spent says it is used: a failed consumption unmarks memory, a
restart brings back the files, so neither can be trusted alone. A success needs the save to have raised nothing, and
then both say so. `ProposalInv` is the gate's, with memory added to what survives: a save writes memory, so an
acknowledged approval must be in both. `ExpiredTheorem` needs the types only: each way into `mem.pending` is a proposal
or a file filtered by age.

`SignatureApprovalProofs`, with `Expiry >= 3` (900 seconds): `ReplaysDenied`, `AckedNoncesKept` and, for fault sets
that do not hold both crashes and failing saves, `SpentOnceTheorem`. `IInv` says that a nonce is used at most two
windows before its own (`UsedInTime`), that memory and table remember an acknowledged nonce until its signature is
late, and that without crashes memory remembers every accepted one. The heart is `PrunedType`: a nonce forgotten after
`Expiry + 1` windows is then more than two windows past its own. The assumption on `Expiry` is needed, as the run of
`signatures` with `Expiry = 2` shows by violating `ReplayDenied`; the one on faults is needed too, as
`doc_nonce_replay` shows. `SignatureInv` adds that a signature which left an approval behind, in memory, in the table
or spent, cannot be accepted again: its nonce is remembered or late, or, where a crash came before the nonce was saved,
its proposal waits no more (`TracedStaysOut`). And what is left of a spent one is used.

`BrokerThreadsProofs`, for any number of requests, proposals and repetitions: `TypeCorrect`, `PayloadTheorem`,
`DraftsTheorem`, and `Refinement`, that the threads implement `OneShotApproval`. The executor looks for the approval
without the lock; `AckedIsSeen` says why that is harmless: a client that knew of the approval sent its execute after
the answer, and an answered approval stays in memory, since only the request that commits it takes it out again
(`AnswersStand`, `RecordsOwned`, `CommitsItsOwn`), and that one holds the lock (`LockHeld`). In the refinement an
approval counts as given when its request was answered, and as spent when it is used and no request drafts for it any
more.

`SharedStoreProofs`, for any number of brokers, proposals, approvals and crashes: `StaleSaveTheorem`,
`OncePerProcessTheorem` and `ConsumedOnceTheorem`. The first needs that the row a transaction read is still there when
it writes (`TransactionAlone`), and that the consumptions of an approval whose row is unused do not outnumber the stale
saves (`UnusedWasRevived`). The proof does not go through if only saves over a used row count as stale: a broker that
has never seen the approval may first overwrite the used row with none, and another then with an unused one (TLC shows
it with three brokers); `revived` counts both. The second theorem bounds consumptions and brokers that may still
consume together (`SpendersUsedUp`): a consumption takes a broker out of that set for as long as its process lives. The
third says where the claim of the deployment runbook that `doc_shared_store` refutes does hold: with one broker, or
with brokers none of which takes proposals or approvals, an approval is consumed once. A spent approval is then used in
the table and, with one broker, in the memory it saves (`SpentIsUsed`); brokers that only execute save nothing
(`NothingSaved`).

`PolicyGateProofs`, for all mails and files: `JudgeIsCatalogVerdict`, that the ordered rules give the verdict of the
catalogue, which has no order; `StricterJudgesNoMilder`, that a tighter file never judges more mildly. The second is
proved of the catalogue and carried over by the first.

Further, for all actors, requests and files: `ReviewTheorem`, `StricterTheorem`, `RefusalTheorem`, `EvidenceTheorem`
and `LockdownTheorem`, one for each property of the run `policy`. The inductive invariant ties each pending proposal
and each approval to what was `asked` and to the events in the ledger: a pending proposal has its `received` event and
a loggable request, an approval its `approved` event behind it, a draft its approval. An event of an execution says
DENY exactly when `BackendTakes` does not hold of what was asked, and `ContractBindsBackend` that this is `Unfit` for
everything the contract lets through. The verifier looks for first occurrences, so the lemmas say how the first
occurrence of an event moves when the ledger grows.

`EvidenceChainProofs`, for any number of backups, keys and writes and any faults: `ChainTheorem`, `LedgerTheorem`,
`IntactTheorem`, `RecoveryTheorem` and `UntilPrunedTheorem`. What makes "intact" mean "complete" is that every record
there is was made by a write of its own (`MacsUnique`): the records read end at the head's MAC, so the last one is the
chain's; each names its predecessor's MAC, so by going down the two agree to the first, which has no predecessor.
Recovery verifies everything before the record it adopts, so that the same argument applies to it. `UntilPrunedTheorem`
is the converse, that a whole chain is called intact. Its invariant `Settled` says that, until something was pruned,
the files hold exactly the records of the chain; a crash may leave one record more, which recovery adopts in the same
step (`OneAheadRecovers`), or a rotation without its append, which changes no retained record. Crashes between two
renames are a fault of their own, under which the chain does break (see below).

`PostureWatchProofs`, likewise and for any set of deployments: `SnapshotTheorem`, `QuietTheorem`, `ReadyTheorem`, and
`ImplementationTheorem`, that the writer of single file operations implements `EvidenceChain`. `WatchIInv` says what
each phase of a write has done to the files it found, that records keep their own MACs in the files, in the chain and
in a reader's hands, and that the head a reader holds was the end of a prefix of the chain. A snapshot is then
`IntactTheorem`'s argument against that prefix. `QuietTheorem` needs to know how far an undisturbed reader has come:
`ReadAlone` says that it has counted the files there are, and put together the first of them in order; `Held` that
these hold the chain. The refinement uses that the files seen are those of `before`.

Induction over data is out of the prover's reach where it needs a theorem with an operator as its parameter. The lemmas
at the head of `EvidenceChainProofs` and `PolicyGateProofs` replace it: a set of naturals has a least element, and a
set of numbers of `1..n` that holds 1 and the successor of each of its members is all of `1..n` (`Upwards`,
`Downwards`). With the set of lengths at which a fact holds, this gives what `FlattenSeq` and the chain need.

The theorems assume of the constants what the modules' ASSUMEs say (`NoApproval` is no approval, bounds are numbers,
and so on), and beyond that only the conditions named above: `Expiry >= 3`, `Lockout >= 2`, the fault sets of
`SpentOnceTheorem` and the brokers of `ConsumedOnceTheorem`.

Only model-checked: `EveryRequestAnswered` of `threads` and of `shared_writers`, because liveness under fairness is out
of the prover's reach.

## Where the code and its documents part

Besides the three `doc_` runs, the models show these behaviours of the code; no run is spent on them.

The gate and its stores:

- an approval answered LOCKDOWN because its evidence could not be written is taken out of memory only
  (`vmga_adapter.py:1428`): a restart brings it back from the table and it executes (`docs/deployment_runbook.md:13`);
- lockdown is read when proposing only: an approved action executes during lockdown (`vmga_adapter.py:1585`,
  `docs/vmga_spec_v0.2.md:151`);
- a proposal answered DENY because it could not be saved stays in `pending_proposals` (`vmga_adapter.py:1253`) and can
  be approved and executed;
- the lockdown of a ledger failure is not saved (`vmga_adapter.py:1282`, `1434`), so a restart ends it;
- a crash between save and log leaves an executable approval without evidence (`vmga_adapter.py:1422`), which
  `evidence.verify_events` then reports; this is why `ApprovalLoggedBeforeEffect` excludes crashes;
- `execute_approved` answers SUCCESS when the evidence of the execution could not be written (`vmga_adapter.py:1641`);
- with a failed ledger write, a crash inside a later save and another approval, one proposal can run twice
  (`vmga_adapter.py:1431`, `1417`): `OneActionPerProposal` holds where crashes do not meet failing saves or ledger
  writes, and the proof shows that no other fault matters;
- a nonce is forgotten `approval_expiry_seconds + 300` seconds after its use, but a signature used 600 seconds before
  its window stays acceptable for 1200: with an expiry below 900 seconds (the default is 3600) the signature of an
  approval that was rolled back is accepted again (`vmga_adapter.py:1098`, `1153`); `Expiry = 2` breaks `ReplayDenied`;
- `load_all_state` promises lockdown "if any state file is corrupted" (`vmga_adapter.py:799`), but a pending or approvals
  file that does not parse loads as empty, also when failing closed (`745`, `761`); `JsonStateStore` has this behaviour;
- the JSON store drops proposals past `proposal_ttl_seconds` when it writes and reads its file, but the process that
  holds one still approves it (`vmga_adapter.py:1373`), and the SQLite store keeps it (`sqlite_state.py:84`).

Policy and contract:

- `approval_required` switches six actions; its keys for `download_attachment`, `mark_read` and `move` are read by
  nothing, and neither are `label_allowlist` (`docs/action_catalog.md:149`) and `content_analysis`;
- `high_risk_indicators` and the justification of drafts only choose the rule that is named when approval is needed
  anyway; nothing ever sets `suspicious_attachment`;
- an action in other letter case passes the validation of `allowed_actions` and `denied_actions`
  (`vmga_adapter.py:448`) but is compared as written (`526`, `529`): `denied_actions: ["SEND"]` denies nothing, and
  `allowed_actions: ["SEND"]` allows nothing;
- an empty `allowed_actions` allows every action, which is why `Stricter` has to exclude emptying it;
- what `propose` copies from the top level into the parameters (`broker.py:79`) is not bounded by the parameters the
  action may have;
- one address for `recipients` passes the contract (`broker_contract.py:148`), is split into characters, and is refused
  by the backend after its approval is consumed (`backends/gogcli.py:173`); so are a draft without recipients or words
  and an action that is no draft. `RefusedExactlyIfUnfit` says that nothing else is. A null `sender` passes the
  contract and raises in policy, before any state changes;
- an allowed kinetic action is answered ALLOW and never runs: the broker executes allowed reads only (`broker.py:97`).

Evidence and posture:

- a crash between two renames of a rotation leaves a gap in the numbered files, and the chain does not verify any more
  (`ledger.py:28`, `docs/evidence_integrity_design.md:243`);
- recovery of the chain needs a head (`evidence_integrity.py:246`) and one key for all retained records
  (`vmga_adapter.py:1023`): a crash around the very first record, or one together with a change of keys, is not
  recovered;
- the posture requires rotation to be ready, but the first pruned backup takes the genesis record with it, after which
  the chain verifies never again (`evidence_integrity.py:229`) and ready is out of reach;
- a write between the posture's reading of the head and of the files makes it report tampering with nothing damaged
  (`posture.py:87`, `docs/evidence_integrity_design.md:157`): only `QuietReadIsIntact` holds;
- the posture knows the key of its broker alone, so that after a key change it cannot verify what
  `vmga-verify-evidence` can;
- `vmga-operator posture --local` assumes HMAC approval (`cli.py:298`, `posture.py:31`) and is never ready.

## Not modelled

Text: redaction, evidence field checks, CLI output, command lines, and the regular expressions behind the kinds of
`RequestContract`. Torn ledger lines (reading them raises before anything modelled happens). Cryptography is assumed
unforgeable. Lockdown, rate-limit and nonce tables of brokers that share a database behave like the approvals table. The
JSON store's files for failed attempts, nonces and the evidence head are written and read like the others. The agent
integrations translate arguments to payloads, of which `RequestContract` takes all there are. The fake backend stores
what it is given; the smoke test and release scripts call modelled operations one after the other.

## Plan

1. Done: the gate, the stores, threads, signatures, contract and policy, the chain and its readers, and the proofs above.
2. Torn ledger lines (`ledger.py:43`) in `EvidenceChain`, with the theorems about it extended to them.
3. The write of the evidence of one proposal by several brokers, whose heads are not shared.
