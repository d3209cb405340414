# A TLA+ model of the Defiant agent harness

Defiant sits between an agent and its tools. Every proposed call is checked by a
policy, may be held for a human's approval, takes its estimated cost out of a
budget, is authorized by a sealed evidence record *before* it runs, and leaves a
terminal evidence record. All state is in local files; several processes (CLI,
MCP proxy, editor hooks) work on them, any of which can die between two writes.

This directory models the part of the program where those writes meet: the
budget ledger, the approvals, the evidence, the operation journal, the audit
that compares them, the control loop (`Harness`) that writes them in order, the
start of an owning runtime that publishes its authority, operator trust, the
locks, and the two gates (native hooks, MCP proxy) through which calls arrive.
Paths below are relative to `src/src/defiant_agent_harness/`, documents to `src/`.

## 1. Inventory

| component | state | operations | what makes it correct | module |
|---|---|---|---|---|
| budget ledger, `budgets/ledger.py` | balance, reservations, entries, reconciliation markers | grant, preflight, reserve, settle, release, their idempotent `ensure_*` forms, reconcile_reservation | money is conserved; a known result is paid for once; repeating a call is harmless | `BudgetLedger` |
| approval store, `approvals/store.py` | approvals with status, deadline, decider, outcome | create_prepared, decide, ensure_rejected, expire_one, begin_execution, mark/ensure_consumed, begin/mark_reconciled | a decision stands; an approval is spent by one execution | `ApprovalStore` |
| evidence store, `evidence/store.py` | append-only hash-chained records | append, append_idempotent, queries | an action ends once; what was acknowledged stays readable; a repeat records once | `EvidenceLog`, `EvidenceChain` |
| evidence head and witness, `evidence_head.py`, `evidence_witness.py` | record count and head hash; external signed copies | reconcile_for_authority, advance, create and assess a witness | truncation and replacement are noticed; a stop leaves a state that starts again | `EvidenceChain` |
| operation journal, `operation_journal.py` | the one active operation, or none | prepare, complete | what was prepared is finished exactly once, wherever a process died | `OperationJournal` |
| control loop, `orchestrator/harness.py` | nothing durable of its own; local variables between writes | run/handle_call, preflight_external_call, complete_external_call, resume, resume_external, reconcile_expired_approvals, reconcile_execution, reconcile_authorization, recover_operation | no effect without a sealed authorization; at most one effect; the stores agree | `ControlLoop` |
| state audit, `state_integrity.py` | none (reads all stores) | audit, require_safe | refuses contradictions and nothing that a crash can leave | `StateIntegrity`, and the part about each file in `AuthorityStores`, `EvidenceChain`, `OperatorTrust` |
| authority publication, `authority_publication*.py` | intent, checkpoint, continuity anchor, external witness | prepare, complete, advance, witness | a stop leaves a publication that is repeated exactly; published history does not fork | `AuthorityPublication` |
| profile and start-up, `authority_profile.py`, `build_harness`, the observation stores | enrolled and staged profile; one record per observation | enrol, stage, activate, record, verify | drift blocks authority; a start that stopped can be repeated | `AuthorityProfile`, `AuthorityStores`, `AuthorityStart` |
| operator identity and trust, `operator_identity.py`, `operator_trust_state.py` | enrolled keys and rotations | resolve, enrol, rotate, sign, verify | an accepted decision stays verifiable; nothing unsigned after enrolment | `OperatorTrust` |
| locks and files, `persistence.py` | authority lock (RLock, depth, OS lock), per-file `.lock` sentinels | acquire/release, fork hook, atomic_write_json | one owner; no lost update; a crash leaves nothing busy | `FileLocks` |
| hook gates, `hooks/` | executions by tool_use_id | pre_tool_use, post_tool_use | an allowed call is sealed under its own authorization | `HookGate` |
| MCP proxy, `mcp/proxy.py` | approvals by execution key | tools/call, retry of a held call, deduplication | an approval runs once; one live approval per call | `McpProxy` |
| upstream session, `mcp/session.py` | waiters and private ids shared by two threads | call_tool, reader, forward | private replies stay private; a call returns | `UpstreamSession` |
| tools, `tools/` | spent grants | authorize, execute | a grant runs one exact action once | `ControlLoop` (execute only) |
| contracts, money: `contracts.py`, `money.py` | none | validation, hashing | sealed values cannot change | `Contracts` (vocabulary only) |
| command line, `cli/` | none | callers of the above | - | actions of the modules above |
| policy, `policy/engine.py` | loaded rule packs | decide | the strictest matching rule wins | - |
| command center, adapters, parsers, limits, ACLs, exports | none that another part reads | translation, bounded parsing, read-only projection | - | - |

How they interact. Every entry point of `Harness` takes the authority
transaction lock (`_authority_entrypoint`; contention fails at once), finishes an
interrupted operation (`recover_operation`), expires what is due (most entry
points), demands a safe audit (`require_safe`), and only then does its own work.
Five kinds of multi-store change go through the journal: the complete record
of what is to be written is stored first, then the stages budget, approval and
evidence are applied (in an order that depends on the kind), each written so
that it recognizes its own earlier effect. Three changes do *not* go through the
journal: the reservation and authorization of an allowed call, the refusal of an
approved call whose policy became stricter, and `reconcile_execution`. The CLI's
approval of an MCP or hook call goes to the approval store without the lock.
Before any of this an owning runtime is started by `build_harness`: under the
same lock it resolves operator trust, finishes the journal, prepares a
write-ahead intent for its authority profile, records what it observed, and
completes the publication with a checkpoint and a continuity anchor.

What is hard: a crash between any two writes; recovery that crashes again; an
approval whose time runs out between two checks; post-tool reports that are late
or repeated; operators who assert an outcome while a report is under way; costs
above their reservation; one balance and one journal slot for all calls; two
proxies that look the same call up at once; a reply that races its timeout; a
pipe that is full; a fork that shares an open file and copies locks; keys that are enrolled while another process is
between its check and its write; older files put back under newer ones.
`PROJECT.json` lists each such hazard at its line, with the properties that
would notice it going wrong.

## 2. Modules

```
Contracts            decisions, outcomes, results
  BudgetLedger       budgets/ledger.py             BudgetLedgerSpec  (the ledger alone)
  ApprovalStore      approvals/store.py
  EvidenceLog        evidence/store.py
    OperationJournal operation_journal.py and the stages of _recover_operation
      StateIntegrity state_integrity.py, the cross-store audit
        ControlLoop  orchestrator/harness.py over the four stores
          ControlLoopProperties   INSTANCE ActionLifecycle
AuthorityConfig      what a start is configured with
  AuthorityProfile   authority_profile.py
  AuthorityPublication   intent, checkpoint, continuity anchor
    AuthorityStores  the observation stores and their audit
      AuthorityStart build_harness, rotation, witness, restored files
EvidenceChain        the log as lines on disk, its head and its witness
OperatorTrust        keys, signed decisions, signed rotations
FileLocks            persistence.py
HookGate, McpProxy   the two gates, over calls of the harness
UpstreamSession      the stdio session behind a proxy
```

A module `XProperties` states what `X` promises, `XProofs` (and `StoreProofs`
for the control loop's stores) proves it, and `MCX` instantiates it for TLC.
The modules in the lower half stand on the promise of the ones above: for a gate a
call of the harness is one step, because the authority lock makes it one for
everybody else (`FileLocks`) and because an action runs and ends at most once
(`ActionLifecycle`).

The store modules declare their variables and one operator per method. Where a
method checks before it writes, the checks are a `Can...` operator, so that
`OperationJournal` can ask whether a stage would be refused and `ControlLoop` can
model the exception.

**BudgetLedger.** `reservations[a]`, `entries[a]` (the rows of `entries` for one
action, in order), `reconciliations[a]`, `balance` (credits minus debits),
`held` (the sum that `_available` subtracts). An amount is a natural number of
the smallest unit. `after` of an entry is `balance_after_usd`. Zero amounts
follow the code: a zero reservation is not stored; a zero release is a no-op.

**ApprovalStore.** `approvals[a]` is the approval of an action or NULL (the
harness creates at most one per action; `action_id` is fresh for every call that
the adapters translate). `overdue[a]` stands for the clock: once the deadline has
passed it stays passed. `decide`, `ensure_rejected` and `begin_execution` refuse
an overdue approval, and `begin_execution` also writes `expired`, as the code
does.

**EvidenceLog.** `evidence[a]` is the subsequence of the log that belongs to `a`;
a record's `id` is its place in it, fixed when the record is prepared. The order
between different actions' records carries no meaning in the modelled code, so
it is not kept.

**OperationJournal.** `journal` is the active operation. `Route` gives each kind
its stages, `CanWrite` the checks of a stage, `WriteBudget`, `WriteApproval` and
`AppendOnce` the writes.

**StateIntegrity.** `Safe` is `safe_to_execute` of the cross-store audit: one
operator per critical issue of ledger, approvals and evidence, each with the exception that an
active operation explains the half-written state. Warnings do not block and are left out.

**ControlLoop.** `worker` is the process inside an entry point: `pc` is where it
stands between two durable writes, the other fields are the local variables it
still needs. Each action is one durable write with the reads and the checks the
code makes since the previous one; the authority lock makes those reads atomic
with respect to other entry points, and the model lets the actors without the
lock (`ExternalApprove`, `RunnerRuns`, `TimePasses`, `Crash`) step in between any
two of them. An exception is `Return` with the stores unchanged. `runner` and
`executed` are the world: what another runtime was told, and how often the
effect of an action happened. `Crash` loses `worker` and keeps everything else;
the operating system frees the authority lock.

| model | code |
|---|---|
| `Enter`, `Recover`, `Expire`, `RefuseUnsafe`, `Admit` | the preamble of every entry point |
| `HandleBlocked`, `HandleHold`, `HandleAllow` | `_handle` |
| `Authorize`, `Answer`, `Execute`, `ToolRaises`, `Complete` | `_execute`, `_authorize_external`, `_complete_known_result`, `ToolRegistry.execute` |
| `CompleteExternal` | `complete_external_call` |
| `ResumePending`, `ResumeApproved`, `Begin`, `BeginTooLate`, `Unreserve`, `RecordBlocked`, `Consume`, `Reject` | `resume`, `resume_external` |
| `ReconcileExecution`, `ChargeAsserted`, `RecordAsserted`, `CloseAsserted`, `ReconcileAuthorization` | the two reconciliation entry points |
| `Advance`, `RefuseRecovery` | `_recover_operation` |
| `ExternalApprove` | the branch of `cmd_decide` for `mcp_*` and `agent_hook` owners |

`worker.full` tells entry points that run the expiry pass from those that only
recover. The policy is any function: `HandleBlocked`, `HandleHold` and
`HandleAllow` are all possible for a fresh call, and `Begin` is told anew whether
the call is still allowed.

**ActionLifecycle** is the abstract specification: an action is authorized at
most once, runs at most once and only when authorized, and ends at most once; a
refused action was never authorized; a reported result is the result of a run;
only an operator's assertion may end an action without one.

**AuthorityProfile, AuthorityPublication, AuthorityStores.** A configuration
stands for the ruleset hash that binds it. `profile.history` is the chain of
generations, `pending` the staged rotation. A publication record is identified by
a stamp that stands for its hash: the timestamps in it make every record new, so
the stamp counts them. `pub` has the active intent and the completed checkpoint,
`cont` the anchor in the file beside it, `Continuity` how the two relate
(`verified`, `forward_recovery` when the anchor is one behind, `legacy_unavailable`,
or an error). `stores[s]` is the profile that store `s` was recorded for; what is
observed is a function of the profile. `StoresCritical` is what the audit
reports of these files, with the downgrading that an active intent brings.

**AuthorityStart.** `starter` is the start in progress. `Begin` is the preflight,
then there is one action per durable write in the order of `build_harness`: the intent
(`PrepareRecover` when the anchor is behind, `PrepareAgain` for the intent that is
already there, `PrepareNew`, `PrepareEnroll` at the first start),
`Resolve` (the profile is enrolled or activated), the stores, `Complete`, `Anchor`.
`Raise` is any refusal, `Stop` a process that dies, with or without the
sentinel of the file it was writing. `Rotate` and `CreateWitness` are the
operator's commands; `TakeBackup` and `Restore` put any subset of the files back
while nothing runs. `lineage` and `witnessed` remember what was ever anchored
and witnessed; nothing in the model reads them.

**EvidenceChain.** `log` is the sequence of physical lines, each whole,
`unterminated` (no newline) or `garbage`; a record's hash is the number of the write
that sealed it, so a rewritten record has another one. `proc` is the owning
process: `Operate` begins an audited operation of some records, journaled or not,
`Reconcile` brings a lagging head up, `WriteLine`, `FailLine` and `DieWriting` are the
append and its two ways of being cut off, `AdvanceHead` moves the head. The
witness is the newest one signed; a profile may require it, with a bound
`MaxLag` on the records it does not yet cover.

**HookGate.** A hook event is a process of its own: `hooks[c]` is the one for call
`c`, `calls[c]` how far the runtime is with the call, `executions` the file that
remembers which authorization a tool_use_id was allowed by. Calls without an id
get one derived from session and content, so identical ones share it. The
actions are the reads and writes of `pre_tool_use` and `post_tool_use` in their
order; `Fail` ends a process between any two. `unmarked` remembers the authorizations
whose process failed after `complete_external_call` and before `mark_completed`;
nothing in the model reads it.

**McpProxy.** `approvals` are those of one execution owner, `proxies[p]` what each
proxy is doing, `lock` the one that is inside the harness waiting for the upstream
tool. `Find` reads without the lock, `Hold`, `Resume`, `Complete` run under it. `Safe`
is the one clause of the audit these steps can touch: a terminal approval with a
live reservation. A resume ends in one of four ways: `Resume` begins the execution;
`ResumeBlocked` and `ResumeRefused` close approval and reservation together, in a
journaled operation or in the expiry pass; `ResumeOverdue` is `begin_execution` finding the
approval overdue although the expiry pass did not, which writes it `expired` (`late`) and
leaves its reservation. `ListDuplicates` takes the list of duplicates once;
`RejectDuplicate` then rejects one after the other, and `DecideRefused` is the
`ApprovalError` of the first that has changed since, which ends the proxy.

**UpstreamSession.** The proxy's thread (`caller`), the reader thread and the
server. The two threads share `pending` and `privateIds` under a lock neither holds
while it puts into or gets from a waiter's queue, so each critical section is one
action. Two pipes join the proxy to the server: `input` and `output` hold a bounded
number of lines, `writing` is the line the server is about to write. `Write` waits
for room in `input`, and a timeout does not reach it; the server waits for room in
`output` (`Flush`) and reads nothing meanwhile. The server may answer a call late,
twice or never, send other lines, stop reading, or end; the client may read, leave
a line unread (`Emit` is not taken) or close its end (`EmitFails`).

**FileLocks.** `thread[t]` is where a thread stands in `acquire` and in an update of
a store file, `flock` whose open file the
kernel's lock belongs to, `copies` which processes have that file open (a fork
copies it), `closing` the children that have not yet run `_authority_after_fork_child`,
`sentinel` who created the `.lock` file. A lock object takes its RLock from the
dictionary of its process when it is built and keeps it: `dicts[p]` are the dictionaries
from which the lock objects of `p` come, each named by the process that filled it, and
`rlock[p][d]` says who has the RLock of dictionary `d` in `p`. A fork copies both
(`Inherit`), the RLocks in the state they are in: one that a thread had taken belongs in the
child to the thread of the same identity, which may not exist there (`inherited`).
`_authority_after_fork_child` only adds a new dictionary, from which later lock objects
come. `RootRefused` is `prepare_storage_root` raising after the RLock was taken (`leaked`).

**OperatorTrust.** `trust` is the chain of rotations in `operator_trust.json`. A
signature is the pin (operator and key) it was made with. `Runtime(p)` resolves trust
under the lock and then decides, executes, recovers and reconciles. `Command(p)` is
what the operator starts: such a runtime, `authority-profile-rotate`, which takes the
lock too, and `dah approve` and `operator-trust-rotate`, which take only the lock of
the file they write, so that their check and their write are two steps.

## 3. What the runs check

| run | question | size |
|---|---|---|
| `ledger` | any caller, any order, any repetition, two actions and a balance of 2: `FundsConserved`, `EstimateAccounted`, `SettledOnce` | 145 546 states |
| `one_action` | every path of one action, two operators, three kinds of owner, overruns, two crashes: the gate, the effect at most once, one terminal record, evidence = charge, nothing held after the end, assertions agree, decisions stand | 34 272 |
| `two_actions` | two actions, one balance, one journal slot: the only reasons for a negative balance, for a critical audit, for a refused recovery | 63 218 |
| `progress` | refinement of `ActionLifecycle`; the journal drains; expired approvals give their money back | 4 538 |
| `publication` | starts of three configurations, stopped, repeated, rotated, witnessed, with files put back: the audit explains what a stop left (`AuditExplains`), only the prepared intent is completed (`ReplayExact`), history does not fork (`HistoryDoesNotFork`), a stopped start can be repeated but for two windows (`StuckOnlyKnown`) | 1.2 million |
| `restart` | the same with a required witness: `AlwaysStartable` is what the document says, and TLC refutes it | - |
| `evidence` | appends with torn lines, failed writes, kills, a lagging head and witness, a restored copy: `AcknowledgedKept`, `RecordedOnce`, `ChainDoesNotFork`, `StuckOnlyKnown` | 1.8 million |
| `hooks` | three native calls, with and without ids, failing hooks, repeated reports: `AllowedCanComplete`, `SealedForItsCall`, `StuckNameOnlyKnown` | 1.3 million |
| `proxy` | two proxies of one server that race, expire at any point, deduplicate, crash: `ApprovalRunsOnce`, `DuplicatesOnlyRaced`, `UnsafeOnlyNamed` | 1.8 million |
| `session` | a server that answers late, twice or never, and pipes that fill up: `PrivateRepliesKept`, `NobodyWaitsForEver` | 676 739 |
| `locks` | three processes of two threads that nest, fork, leak, crash: `AuthorityExclusive`, `NoLostUpdate`, `BusyOnlyIfOwned` | 854 949 |
| `trust` | two processes, keys enrolled at any time, decisions and rotations: `HistoryVerifies`, `UnsignedOnlyRaced`, `StuckOnlyKnown` | 248 thousand |

Every property of a passing run has a mutant in `PROJECT.json`: a plausible bug in
one mapped definition that makes TLC report exactly that property. Each module has
a `TypeOK`; it holds with the same constants, and only the one that is also proved
for the control loop is listed in its run.

A property called `...OnlyKnown`, `...OnlyRaced` or `...OnlyNamed` says that a bad state
is reached in no other way than the ones it names. What it names is what the code
really does: section 4 lists those cases.

Bounds, and why they are enough:

* `MaxEntries` (ledger run): four entries in all. A reservation, what ends it, and
  a wrong or repeated call after that need three; the fourth lets the second
  action come in between. `MaxGrants` 1: a grant only raises the balance.
* `MaxCrashes`: two with one action (a call crashes, and so does its recovery:
  after that the state is again one where an operation is active and every
  earlier stage may or may not have been written); one with two actions.
* Amounts: 0 (the special case everywhere), one estimate that fits the balance
  once and not twice, a cost below it, a cost above everything available.
* Two operators, so that a second opinion can contradict the first; one where
  only the interaction of two actions is asked for.
* Records in the ledger run: one completion record and none, to tell a repeated
  settlement from another one.
* `publication`: a configuration with neither option, one with the optional stores,
  one with a witness, so that every rotation between the kinds happens; three
  generations (there and back again, or on to the third kind); seven records
  (three publications of two records each, and one more); one stop and one
  restore, each at any point and of any subset of the files.
* `evidence`: four records, so that a torn line, the operation that repeats it and
  one more operation fit; batches of two, so that a record is lost inside an
  operation; a lag of one, which a two-record batch exceeds; two faults, so that
  the recovery of a fault can fail too; one restore.
* `hooks`: three calls let an identical call run during and after another; one
  failure at any step; one repeated report. `proxy`: two proxies race, the third
  approval is the one after a duplicate was rejected; one crash.
* `session`: three calls (the second meets the late reply to the first, the third
  meets a pipe that the second filled), two replies
  to each (the second is the duplicate), two unrelated lines (one of them may be the
  bad line after which output fills up). Pipes of one line: a pipe is full or has
  room, and a line per side fills it.
* `locks`: a parent, a child and a third process, which is a grandchild or a stranger,
  two threads each, so that the fork finds a lock taken by the thread that the child
  does not have; depth 2 is the nested case; one leak; one crash. Once a store is
  written, at most two processes run and nothing leaks (`TwoWrite`, a constraint: the
  sentinel is one file for all processes, and neither forks nor the RLock touch it).
  Three writes: one that a crash cuts off, and two whose writers race. `trust`: two keys and two operators (a key
  given to the other operator, an added key), one rotation after enrolment, two
  processes, one crash.
* Symmetry in actions, operators, calls, processes and keys where only safety is
  checked. The runs with liveness use none.

The bounds, and systems that really come to rest (every call answered, a server
that exited, a directory that cannot be started any more), stop the runs with
`CHECK_DEADLOCK FALSE`; the control loop is checked for deadlock.

Fairness. `ControlLoop.FairSpec`: weak fairness of `WorkerStep`, since an entry point
is straight-line code that never waits for another process (locks fail instead of
blocking). Strong fairness of `Enter(TRUE)`: the harness stays in use, so that a
call which recovers and expires gets the lock again and again, though other
calls may hold it in between; nothing in the code runs in the background, and
without such calls nothing is ever recovered. No fairness is assumed of
operators, of other runtimes, of time or of crashes. `UpstreamSession.FairSessionSpec`: the
two threads are scheduled, and a timeout that has begun to run ends. Fairness of
`Write` says only that a write with room in the pipe is made: without room it is not
enabled, and no timeout ends it. The server owes nobody an answer and need not read;
the client need not read either (`Emits` is not among the fair steps). Where a property
needs one of the two it says so itself: `ClientReads`, `ServerReadsOn`.

The liveness properties name their exceptions. `JournalDrains` excepts an
operation that another actor has overtaken in one of three ways (`Overtaken`);
`ExpiryCompletes` excepts a harness that is stuck on one of these or on a
critical audit (`Stuck`). `RecoveryRefusedOnlyKnown` and `UnsafeOnlyKnown` say that
there are no other ways to get there. `NobodyWaitsForEver`: a call returns, or it is
blocked for good in the write to a server that runs and does not read
(`[]WriteBlocked`); and, if the client reads, the server's output is read until the
reader has ended or is stuck in `put`, because the server answered twice in the
window between a call's timeout and the removal of its waiter (`ReaderStuck`).
Its last part says when the first exception does not arise: if the client reads,
and the server reads as long as its own output is not full, a call returns unless
the reader has ended or is stuck. Without any one of these exceptions or assumptions TLC
finds a counterexample.

## 4. Where the code departs from its documents

`PROJECT.json` quotes the document for each but the inherited RLock and the blocked
write, which no document speaks of. Except where the table says that it was read off
the code, each is an exception that the named property needs; without it TLC
reports the case.

| property | what happens |
|---|---|
| `RecoveryRefusedOnlyKnown` | After `reconcile_authorization(.., not_executed)` a late post-tool report is still accepted: `complete_external_call` has its own list of terminal statuses, without `not_executed`. It journals a completion that recovery refuses for ever. |
| `RecoveryRefusedOnlyKnown` | A rejection interrupted by a crash and repeated after the deadline is refused by the clock at every attempt. |
| `RecoveryRefusedOnlyKnown` | `cmd_decide` approves without the authority lock while a rejection is journaled. |
| `RecoveryRefusedOnlyKnown` | An approval approved before its interrupted creation is repeated no longer equals the prepared one. |
| `UnsafeOnlyKnown` | `begin_execution` on an overdue approval writes `expired` alone; its reservation stays and nothing will return it. |
| `UnsafeOnlyKnown` | A crash between the reservation and the authorization record of an allowed call leaves a critical state that no entry point can leave. |
| `UnsafeOnlyKnown` | An overrun below zero is recorded, and the audit's `money()` then refuses the record. |
| (read off the code) | `resume` of an approval that someone else approved records its own caller as `approved_by`. |
| `AlwaysStartable` (run `restart`) | With a required publication witness, a stop between checkpoint and anchor leaves a directory that no configuration starts: the preflight wants the anchor exact, and `prepare`, which would make it so, comes later. |
| `StuckOnlyKnown` (publication) | A rotation that drops the optional stores cannot be completed or abandoned. |
| `AcknowledgedKept` | A last line without its newline is read as a record; the next append makes one unreadable line of the two. |
| `StuckOnlyKnown` (evidence) | A head that lags and a witness that lags too far: the start waits for the witness, the witness for the start. |
| `UnsafeOnlyNamed` | `_reject_duplicate_pending` rejects in the store alone: the reservation stays, the audit becomes critical. With signed trust the same call raises after the effect. |
| `UnsafeOnlyNamed` | `begin_execution` on an approval that fell due after the expiry pass, the case of `UnsafeOnlyKnown`: the proxy catches the error and answers, and the next call of every proxy ends at the audit. |
| `BusyOnlyIfOwned` | An error of `prepare_storage_root` leaves the RLock taken. |
| `BusyOnlyIfOwned` | A lock object that was built before a fork keeps its RLock; if a thread other than the forking one had it, the child's copy is busy for good. |
| `NobodyWaitsForEver` | The timeout of a call covers the wait for the reply and not the write: once the server stops reading its stdin, a call may wait for ever. |
| `StuckOnlyKnown` (trust) | Keys enrolled over unsigned decisions, or over a rotation signed with a key that is not among them, leave a directory that no start opens. |
| `UnsignedOnlyRaced` | `dah approve` enrols without the authority lock, between another process's check and its write. |

In the first four the journal has one slot, and every entry point recovers first: the
harness stays blocked until an operator edits the file.

Other things the models show about the design, which no document contradicts: once a
directory requires a publication witness, no rotation takes that away; a staged
rotation cannot be cancelled; a restore of publication and anchor together is
noticed only by an external witness, and not before the first one is signed;
a second `PostToolUse` for a call without an id seals the identical call that is
under way; reconciling an authorization leaves its name bound in
`hook_executions.json`; after a line it cannot read the session's reader ends while
the server keeps running: later calls fail by their timeout, until the server's stdout and then
its stdin are full and a call blocks in its write (`forward_raw`, which is not modelled,
writes at the same place).

## 5. What is proved

The proofs hold for every value of the constants: any sets of actions, operators,
calls, proxies, processes, threads, keys and approvals, any estimates, costs and
starting balance in Nat, and any of the bounds (`MaxCrashes`, `MaxRecords`,
`MaxReplies`, ...) that make the instances of section 3 finite. They rest on the
named assumptions of the modules that declare the constants and on nothing else:

* amounts are natural numbers (`BalanceAssumption`, `LoopAssumption`), and so are the
  bounds (`ProxyAssumption`, `ChainAssumption`, `SessionAssumption`, ...; `MaxApprovals`
  is at least 1, because a directory may begin with an approval of an earlier proxy,
  and `MaxGeneration` is, because enrolled trust has a first generation);
* NULL and the other sentinels are none of the values they stand for the absence of
  (`NullAssumption`, `MarkerAssumption`, `ApprovalAssumption`, `OperationAssumption`,
  `SentinelAssumption`, `AbsentAssumption`, `OutsideAssumption`, and clauses of
  `ConfigAssumption`, `SessionAssumption` and `LocksAssumption`);
* a ledger holds rows of finitely many actions (`BoundsAssumption`; its sums would mean
  nothing otherwise);
* some configuration does without a publication witness (`FirstStartAssumption`, used for
  `NotStuck` alone: a witness vouches for a publication, so where every configuration
  requires one no directory is ever started);
* a hook's key is allowed, held or delegated, at most one of them (`HookAssumption`);
* `LocksAssumption` also wants finitely many processes.

TLC evaluates all of them in the runs, and each inductive invariant below was first
checked by TLC as an invariant of the configuration that its component's run uses.

| module | theorem | property |
|---|---|---|
| `ControlLoopProofs` | `MoneyIsConserved`, `EstimatesAreAccounted` | `FundsConserved`, `EstimateAccounted` (ledger alone) |
| | `ResultsArePaidOnce` | `SettledOnce` (ledger alone) |
| | `TypeCorrect` | `TypeOK` |
| | `Gate`, `EffectOnce`, `Refused` | `GateBeforeEffect`, `EffectAtMostOnce`, `RefusedNeverRuns` |
| | `Implements` | `ImplementsLifecycle` (refinement of `ActionLifecycle`) |
| `StoreProofs` | `EndsOnce` | `OneTerminal` |
| | `NothingHeldAtTheEnd` | `ClosedHoldsNothing` |
| | `AssertionsAgree` | `AssertionAgrees` |
| | `OverdraftIsKnown` | `NegativeOnlyKnown` |
| | `DecisionsStand` | `DecisionStands` (action property) |
| | `RecoveryGetsThrough` | `RecoveryRefusedOnlyKnown` |
| | `PaidAsEvidenced` | `ChargeMatchesEvidence` |
| | `CriticalOnlyKnown` | `UnsafeOnlyKnown` |
| `AuthorityStartProofs` | `NoForks` | `HistoryDoesNotFork` |
| | `ReplayIsExact` | `ReplayExact` (action property) |
| | `AuditAlwaysExplains` | `AuditExplains` |
| | `NotStuck` | `StuckOnlyKnown` |
| `EvidenceChainProofs` | `RecordsAreKept` | `AcknowledgedKept` |
| | `IdsAreRecordedOnce` | `RecordedOnce` |
| | `ForksAreRestored` | `ChainDoesNotFork` |
| | `StartsUnlessLagging` | `StuckOnlyKnown` |
| `OperatorTrustProofs` | `HistoryStaysVerifiable` | `HistoryVerifies` |
| | `StartsUnlessKnown` | `StuckOnlyKnown` |
| | `UnsignedIsRaced` | `UnsignedOnlyRaced` (action property) |
| `HookGateProofs` | `AllowedCompletes` | `AllowedCanComplete` |
| | `SealsAreForTheirCalls` | `SealedForItsCall` |
| | `NamesAreFreed` | `StuckNameOnlyKnown` |
| `McpProxyProofs` | `RunsOnce` | `ApprovalRunsOnce` |
| | `OneLivePerProxy` | `DuplicatesOnlyRaced` |
| | `CriticalOnlyNamed` | `UnsafeOnlyNamed` |
| | `PrivateRepliesStayPrivate` | `PrivateRepliesKept` |
| `FileLocksProofs` | `OneOwner`, `UpdatesKept`, `BusyIsExplained` | `AuthorityExclusive`, `NoLostUpdate`, `BusyOnlyIfOwned` |

**The ledger** (`ControlLoopProofs`). `FundsConserved` compares sums, and a sum is a fold
over a set, which is a recursive function. That such a function exists and obeys its
recursion is shown for the one this module uses, by taking a minimal set for
which it would not (`WFMin` over the strict subsets of a finite set, and over Nat): an
induction stated without an operator parameter. From there `RowAdded` (one row more adds
its amount) and `SumChanges` are arithmetic, `Accounted` says of each operation what it
adds to the charges, the estimates and the totals, and `AccountsBalance` carries the sums
(`Balanced`) through any step that accounts for what it does. `SettledOnce` needs
only types: a debit that names a record is added where there is no debit yet.

**The control loop, types** (`ControlLoopProofs`). Every ledger operation keeps the
ledger's rows well-formed (`LatestIn` is the one fact about choosing a last
position). For the whole loop types are not inductive on their own: a worker that
writes a record reads its fields from local variables and from records it saw some
writes ago, so `ControlInv` adds what each location implies about them
(`WorkerInv`) and that a journaled assertion names its operator and outcome
(`JournalAssertion`).

**The lifecycle** (`ControlLoopProofs`). That a tool may run, or that a record may be
appended, was checked several writes earlier, perhaps by a process that is dead
by now. `LifecycleInv` therefore says what survives: a sealed authorization
exists wherever something ran or another runtime was told to run
(`RanSealed`); a refused action has none (`RefusedUnsealed`); an approval that is
still to be decided, or was refused, has none, and one that is to be decided
has not ended (`HeldUnsealed`); whoever stands before the authorization, the
execution or the last record of an assertion still has the action open
(`WorkerLifecycle`). For the journal: the prepared record is the last one of its
action or the next one (`Appended`, `Unappended`), and as long as it is the next
one the action has not ended, by the kind of the operation (`MayEnd`) or by the
stages passed so far (`StageReached`). `LifecycleStep` is the statement proved
for each action: it keeps `LifecycleInv` and is a step of the lifecycle or a
stutter; the theorems follow by temporal reasoning.

**The stores** (`StoreProofs`, on top of the two). Each property relates two stores
that are written one after the other, so `StoreInv` remembers what the first of two
writes was about. Per action (`ActionSound`): one terminal record; what is held was
reserved and not reconciled, and what was reserved and is no longer held was debited
or released (`LedgerSound`); the approval knows the amount held and carries the
outcome of the marker (`ApprovalSound`); a marker without an approval is in the
evidence or in the journal that will bring it there (`MarkerSound`). Across a crash
the journal carries the argument, by kind of operation (`CreateSound`, `DecideSound`,
`AssertSound`, `CompleteSound`): a decision under way still holds the amount it
was prepared with, a completion under way meets no assertion. `NegativeOnlyKnown` is a
conjunct because the cause of an overdraft lies in the past of the ledger.
`DecisionsStand` is proved from all three invariants, one action at a time.

**Recovery** (`StoreProofs`, one more layer). `RecoveryRefusedOnlyKnown` is not
inductive: it looks at every check of the operation at once, and a check holds
because of what the stores said when the operation was prepared. `RecoveryInv` says, by
kind, what a first or a repeated stage finds: the amount that was prepared, held or
already released (`DecisionRepeats`) or not yet taken and still affordable
(`CreateRepeats`); no marker, or the one this operation wrote (`AssertionRepeats`); no
disposition, or the debit this operation wrote, and an approval that is executing or
consumed by this record (`CompletionRepeats`). Two facts are needed outside of
operations, so that the next one may be prepared: what is held has not been
debited or released, what waits for a decision has its whole reservation
(`HeldSound`), and a worker that may run a tool has spent its approval
(`RunningSound`). The approval of a proxied call, which takes no lock, is the one step
that may fall between two stages.

**The audit** (`StoreProofs`, the last layer). `ChargeMatchesEvidence` and
`UnsafeOnlyKnown` compare ledger, approvals, evidence and journal at once, while each
step writes one of them. `AuditInv` says per action what the other stores must
contain. `LedgerAudit`: a debit without a terminal record belongs to a completion
in the journal, and its amount, balance and record id are the ones that completion is
going to append. `ApprovalAudit`: a rejection that still holds money is being
carried out, a consumed approval names a terminal record, a marker repeats the
operator and the amount of its approval. `AllowedAudit` and `MarkerAudit`: an action
that was never held for approval has evidence only from its authorization on, and an
assertion about it names that authorization. `JournalAudit` is the other half: what the
active operation has done by the stage the worker has reached, or owes when it is
repeated (`AssertAudit`, `CompleteAudit`). `Agrees` is what a record needs in
order to be appended; each of the five writers of evidence is shown to have it. An
assertion about an execution that is already closed is the subtle case: it charges
nothing because a terminal record whose approval is still executing can only say that
nothing ran (`ChargeAssertedAudits`). A result is debited once (`OneSettlement`) because a completion debits only where
there is no debit yet (`DebitRead`). `FinishAudits` shows that nothing depends on the
journal any more when its slot is emptied. The step from the invariant to
`SafeFor`, `audit_state_integrity`'s verdict, is `AuditMeans`: it uses all of
the layers below.

**The evidence chain** (`EvidenceChainProofs`). `LogSound` gives the chain its shape
(each line extends the one before, hashes grow, only the last line may be broken, ids
are given out once). `Advancing` and `IdsFresh` cover the gap between the line and
the head: the line is one past the head, or was lost behind an unterminated one, and
an id not yet written is new unless it is the journaled one. `Kept`, `HeadCovers` and
`HeadOnChain` say what log and head hold as long as neither was put back;
`CopySound` and `LogAloneComplete` what a copy that is put back can still contain:
a log restored without its head passes the audit only if nothing sealed is gone.
`WitnessSound`, `WitnessHeld` and `WitnessCovers` say the same for the witness, and
from them a fork below a required witness contradicts the chain that
holds the witness (`ForkUnwitnessed`).

**The start** (`AuthorityStartProofs`). A start writes the publication state, the profile,
five stores, the anchor and the witness, one file after the other, and any of the first
and the last may be put back. The invariant has three parts. What holds of any record,
copies included: `RecordsLinked` and `BackupSound` (a completed publication links to an
older one, a copy is a completed one). What the start in progress has checked or done:
`StarterSound` (past `preparing` there is an active intent of its own configuration and
of a generation that this configuration has or gets; past `resolving` the profile is the
intent's) and `RecordedSoFar`. What the files say together. For the history of checkpoints
`History`: unless an older one was put back, the anchor and the publication's checkpoint
are the newest of all (`AnchorNewest`, `PublicationNewest`), so the next one has a new
predecessor; with both put back, `NoSibling` compares the next one with the witness.
As long as nothing was put back, `FilesSound`: nothing is published, or a publication is
complete, or its intent is `Prepared` (profile and stores still as before) or `Applying`
(each store as before or the intent's, and the last one only after the others). The audit
and the preflight are functions of these files: `AuditExplains` and `StuckOnlyKnown` follow
from `FilesSound` by cases, the latter with the configuration that the intent, the profile
or `FirstStartAssumption` names.

**Operator trust** (`OperatorTrustProofs`). Rotations only add, so a set of keys that was
trusted stays trusted (`Trusted`), and it is enough to say that everything accepted
was signed by a trusted key (`AllSigned`, `JournalSigned`), that a process which is past
its trust check runs with trusted keys (`AllResolved`: it may still hold a policy that
a rotation has outdated), and that a call past its audit finds each execution decided
by one of its keys (`AllVouched`). The last one is what `UnsignedOnlyRaced` needs for
`complete_execution`, which looks at the approval and not at the signature.

**The hook gate** (`HookGateProofs`). Name, authorization and call are three records
written by different processes. `OpenedOnce` and `AllAuthorized` tie authorization and
call (an action is opened once, for one call, and that call keeps it), `AllNamed`
ties name and authorization, and `AllBound` says that until its report a call's name
is bound to its authorization, or the authorization is sealed already, which takes a
repeated report. `AllReports` and `OneMarks` carry this through a
report, whose process reads the name, seals and marks in three steps. A name stays
bound to a sealed authorization only if its own process is at the mark, or failed there
(`unmarked`): no step but `Fail` takes a process away from the mark without marking.

**The proxies** (`McpProxyProofs`). `AllSound` speaks about one approval (only what was
begun has run, only what was approved was begun), `Upstream` about the one proxy that
waits for the server with the lock in its hand. The same invariant says of an approval
that ended with its reservation live that it is one of the two kinds named. For duplicates, `Lookups` says what a
proxy may still believe of a lookup it made before it had the lock: nothing it
created itself is live and young. What others create meanwhile is
exactly the race that `DuplicatesOnlyRaced` excepts.

**The session** (`McpProxyProofs`). `RepliesCounted` counts a reply where it
is, about to be written or in the server's output (`OnItsWay`), in the reader's hand, in
the queue or forwarded, against
the number the server sent, so that a line of a forgotten id is a second one;
`Waiters` says that an id is forgotten only after that, and `ErrorsEnd` that the
one other way to stop waiting is the reader's end.

**The locks** (`FileLocksProofs`). That two threads do not both own the lock is not
inductive: it rests on the RLock within a process and on the kernel between
processes, and a fork breaks the link between the two. `IInv` adds `Ownership` (who
is anywhere in `acquire` has the RLock of the lock object it uses, and who owns the lock
is the one whose open file has the flock, so two owners are one: a process may have
several RLocks, and between their owners the kernel decides), `Holders` (that file is
open elsewhere only in children that have not closed
it yet, and if its own process still has it, its thread owns the lock:
this is why a crash or a child's close frees it), `RLocks` (an RLock is taken by a
thread in `acquire`, by a leak, or because the fork found it taken), `OwnIsNew` (the
dictionary a child makes for itself inherits nothing) and, for the store, `Covered` (the sentinel spans
read, replace and unlink, so what was read is still what is replaced).

Only model-checked: liveness, in `progress` and `session`. Fairness and ENABLED are
outside the proof system's reach.

## 6. What is left out

Not modelled:

* The policy engine: a pure function from an action to a decision over strings and
  patterns. The models let it answer anything, and answer differently at resume.
* Agent adapters, strict parsing, limits, contract validation: sequential
  translation and bounded copying. The control loop uses that an adapter's
  `action_id` is fresh.
* Command core and command center (a read-only projection), signed evidence exports
  (cryptography on one file), Windows ACLs and path identity (system calls).
* The HTTP session of the proxy: one synchronous request per call.
* Capability grants: issued, verified and spent within one call of one process.
* Operator-control starts (`execution_disabled`) and `ApprovalStore.create` and
  `expire_due`, which nothing in the program calls.

Abstracted:

* Signatures hold: a signature is the pin it was made with, a witness the head or
  checkpoint it names. That an attestation is bound to one approval is not in the
  model. Hashes are identities.
* In `ControlLoop` a crash inside one file write leaves the old or the new file; the
  sentinel it may also leave blocks writers until an operator removes it, which is
  modelled where it matters (`AuthorityStart`, `EvidenceChain`, `FileLocks`).
* The system a configuration describes does not change under it, so the
  observation of a store is the configuration's. States of versions before
  publication records existed are not initial states; states without links or
  without continuity are.
* Platform timeouts of hooks, after which the runtime goes on without an answer
  (docs/architecture.md:1305): the gate cannot act on them.
* A forked child does not return into its parent's lock block.
* A runtime configured for an old profile is `AuthorityStart`'s subject, not
  `OperatorTrust`'s. There, recovery of the journal runs before the audit, as in the
  code.
* The content of requests, payloads and policies; formatting; projections; malformed
  files and audit warnings.

## 7. Plan

Every invariant and every action property that the passing runs check is proved; what is
left there is liveness. Modelling could go on with what section 6 lists as not modelled.
