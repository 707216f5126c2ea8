# RepayGuard, verified: a TLA+ project beside `backend/app`

RepayGuard (履约智控 AI) runs the operations of a receivables servicer: cases and the
materials that prove them, outreach, loan dialogues and test calls, protection of
customers, repayment plans, receipts of payments and the commission they earn, and the
jobs, agents and connectors that work on all of it. Its backend is a FastAPI application
over PostgreSQL with any number of API processes and of worker processes. There is no
shared memory between them: everything that can go wrong goes wrong between two statements
of two transactions, or between a transaction and a call to somebody else. The modules
here model those steps.

Contents: [1 Inventory](#1-inventory) · [2 Modules](#2-modules-and-how-they-correspond-to-the-code)
· [3 Runs](#3-what-the-runs-check) · [4 Proofs](#4-what-is-proved)
· [5 Divergences](#5-where-code-and-documents-disagree)
· [6 Not modelled](#6-what-is-not-modelled-and-why) · [7 Plan](#7-plan)

To repeat everything, in this directory: `tlc -workers 2 -config X.cfg M` for each run of
the table in section 3, and `tlapm M.tla` for each of the proof modules in section 4.

## 1. Inventory

`PROJECT.json` lists every component with its sources, and 40 hazards each at its line.
Paths below are under `src/backend/app/`.

### Components with a model

| Component | State | Operations | Hard behaviour | Correct means |
|---|---|---|---|---|
| **Job queue and worker** (`job_queue.py`, `jobs.py`, `worker.py`, `main.py`) | `async_jobs` rows: status, attempt, lease owner and expiry, cancel request; `agent_runs` | enqueue, claim, heartbeat, recover, execute with a fenced terminal write, cancel, retry | leases expire under live workers; crashes; the fence is a SELECT before the UPDATE; API updates decided on unlocked reads | a lost job is found again; one worker per attempt; a finished job stays finished until retried; every job ends |
| **Payment ledger** (`financial_ledger.py`, `main.py`) | receipts, recovery and commission entries, reconciliation proposals, balances | webhook delivery, propose, review, legacy match, settle, collect | two deliveries of one event; refunds racing a sum; reviews of what changed after it was shown; two requests on one balance | money and evidence agree; refunds never exceed the payment; no balance spent twice; entries never change |
| **Case protection and activities** (`protection_workflow.py`, `domain.py`, `main.py`) | incidents, the case's blocked flag and status, activities, agent proposals | open an incident, propose and decide its release, create, pause and resume activities, confirm agent proposals | several incidents on a case; activity requests that read without locks | a case is blocked exactly while an incident is active; stop-contact is for ever; releases need two people |
| **Policy proposals** (`policy_workflow.py`) | package policy and version, proposals | propose, approve, reject | proposals made at once; approvals against a version | one approval per version, by somebody else |
| **Repayment plans** (`repayment_plans.py`) | plans, installments, allocations, case status | propose, decide, allocate payments, take refunds back | read-modify-write of `paid_cents`; protection and policy changes in between; refunds that reopen a plan | one plan per case; paid is what was allocated; completed means paid; nothing takes effect on a protected case |
| **Loan sessions and SIP dispatch** (`loan_collection.py`, `loan_policy.py`, `loan_routes.py`, `loan_sip_dispatch.py`) | policy, profile, sessions with the versions they froze, promises, dispatches and their jobs | save policy and profile, start, record event, reconcile, reserve, dispatch, stop | durable intent, then HTTP, then commit, in a job whose lease may be lost, beside stops and changed terms | a dispatch calls at most once and never after it was stopped, only under the terms and authority that stand |
| **Contact attempts** (`contact_orchestration.py`, `telephony.py`) | attempts, telephony events | queue, hand over, cancel, retry, webhook | reports late, twice, out of order; the daily cap | the cap holds; no step back; what was decided stands; a call that ended is known to have ended |
| **Connectors** (`customer_connectors.py`, `customer_sync.py`) | connector with cursor and active job, events taken in | configure, test, enable, take over, pull, schedule, retry | crash in the middle of a page; a worker that lost its lease goes on; tests of older configurations | pages in order and whole; only under a tested configuration; a steady connector catches up |
| **Materials and acceptances** (`customer_materials.py`, `material_*.py`, `case_acceptance.py`) | materials, series, associations, acceptances | store, append, associate, accept, decide | the material, the report and the association change under a decision, and change back | histories are chains; what is shown as accepted was decided by somebody else on evidence that stands |
| **Membership and tenant lifecycle** (`membership_governance.py`, `tenant_lifecycle_routes.py`) | memberships, stage, plan, proposals | propose, decide, provision | counts without locks; decisions that overlap | changes are reviewed; closed stays closed; an administrator remains |
| **Asset imports** (`asset_imports.py`) | batches, packages, rules, cases | preview, commit | a batch compared with the tenant days ago | what enters is what was reviewed, whole, and agrees with what is there |
| **Integrations** (`main.py`) | service configurations, the tenant's gate | save, test, self-test, enable | a test that waits for the provider while rows change | production calls rest on a self-test of the present settings |
| **Agent gateway** (`agent_gateway.py`, `harness_runtime.py`) | sessions with checkpoints, dialogue, harness processes | message, turn, restart, reconfigure | several hosts and threads; a process that missed turns | a process that is asked without the dialogue has heard it |
| **Model replays** (`model_replay.py`, `model_gateway.py`) | replays, the day's spending | queue, run, reconfigure | a sum before a call, written after it | only what was reviewed is called, within the budget |
| **Secret store** (`secret_store.py`) | envelopes, key versions, keyrings of processes | store, retire, re-wrap, rotate | rotation beside use, failure and restart | a credential in use can be opened |
| **Voice combinations** (`voice_combination_routes.py`) | combinations, reports, bindings | save, check, measure, enable, bind | minutes between the question and the answer | a verdict counts for what it measured |
| **SIP laboratory** (`sip_lab_voice.py`, `sip_lab_local_voice.py`, `sip_lab_bridge.py`) | client, host and worker of a dialogue; what a call makes in Asterisk, and its journal | a turn, an interruption, a stop to be confirmed; set up, serve, clean up, recover | audio, cancellations and completions that cross; a bridge killed anywhere | nobody answers what was not heard; nothing made in Asterisk is forgotten |

### Components without a model

The synthetic dialogue and call receipts, the evidence workspace, knowledge and strategy
experiments, pilots, catalogue queries, identity, audit, schema and startup, the web
console, the demo worker and deployment are in `PROJECT.json` with the reason each is left
out; section 6 groups the reasons.

### How they interact

```
 API requests ──enqueue──▶ JobQueue ◀──lease── workers ──handlers──▶ AgentTurns, ModelReplays,
      │                                                              ConnectorSync, LoanCalls
      ▼
 PaymentLedger ──entries, same transaction──▶ RepaymentPlans ──▶ LoanCalls (promises)
                                                │  ▲  ▲                │ preflight
                                 case status ◀──┘  │  └── CaseProtection ◀── activities,
                                                   │        (the case row)    ContactAttempts
                                                   └───── PolicyProposals (the package row)
 AssetImports ──cases──▶ all        CustomerEvidence ──reads──▶ case reports
 TenantGovernance, ServiceGate, SecretRotation ──gates──▶ API requests and handlers
```

Calls are within one transaction; everything else is a shared row. The case row is shared
by protection, plans, activities, contact attempts and loan calls, the package row by
policy and plans, the job row by workers and API, the tenant row by loan calls and voice
combinations.

## 2. Modules, and how they correspond to the code

| Module | What it is |
|---|---|
| `JobQueue` | the queue and its workers |
| `AttemptTickets` | abstract: a job is entered at most `MaxAttempts` times, each time with a fresh number; implemented by `JobQueue` |
| `PaymentLedger` | receipts, reconciliation, ledgers, commission |
| `CaseProtection` | incidents, activities, agent proposals |
| `PolicyProposals` | settlement policy of a package |
| `RepaymentPlans` | plans of a case; takes `PolicyProposals` in by `INSTANCE` |
| `MakerChecker` | abstract: nothing takes effect without a maker and another checker; implemented by `CaseProtection`, `PolicyProposals` and `RepaymentPlans` |
| `LoanCalls` | loan policy, profile, sessions, promises, dispatches and the jobs that call |
| `OneShot` | abstract: an intent is acted on at most once and never after it is withdrawn; implemented by `LoanCalls` |
| `ContactAttempts` | attempts of a case, and the provider that reports on its calls |
| `ConnectorSync` | one connector, its administrators and the workers that pull its feed |
| `PagedIntake` | abstract: a feed taken in page by page, each event once; implemented by `ConnectorSync` |
| `MaterialVersions`, `CustomerEvidence` | materials and their histories; associations and acceptances on top of them |
| `TenantGovernance` | members, stage and plan of a tenant |
| `AssetImports` | previews and commits of files of assets |
| `VoiceCombinations` | combinations, checks, comparisons, activations |
| `ServiceGate` | services of a tenant and the gate before production calls |
| `AgentTurns` | turns of an agent session over hosts, runners and harness processes |
| `ModelReplays` | replays of a day and its budget |
| `SecretRotation` | envelopes and the rotation of master keys |
| `VoiceTurns`, `MediaBridge` | the two halves of a call of the laboratory |
| `Sums`, `FiniteSums` | sums of cents over finite sets, and the lemmas about them |
| `…Proofs` | theorems (section 4) |
| `MC…` | small instances for TLC |

`PROJECT.json` `"map"` names the source lines of every definition.

**Granularity.** One action is one stretch of a transaction with no point at which another
transaction could be noticed: a statement under `READ COMMITTED`, or a run of statements
under row locks that every competitor takes as well. A request that reads, decides and
writes without a lock is two actions (or more, when several reads matter), and carries
what it read from one to the other. A request that holds a lock keeps it from its reading
action to its committing action; `Busy`, `…Free` or `…Unlocked` in the guards of the
others is the wait. What SQLAlchemy flushes matters: an UPDATE by primary key writes
exactly the columns whose value differs from the row that was loaded (`Flush` in
`JobQueue` and `ServiceGate`), and a session that has loaded a row keeps it for later
queries (`RepaymentPlans`, the case row in `PostOpens`). A call to a provider, a model
host or Asterisk is a step of its own, with no lock held unless the code holds one.

**JobQueue.** `jobs[j]` is the row; a lease is the number of ticks left before
`lease_expires_at`, and `Tick(j)` may happen at any moment, so a lease may expire between
any two steps of its worker. `workers[w]` is the control state of `run_once` and
`execute_claimed_job`: poll → claim → begin → handler → (provider) → ok/err → write.
`Begin` asks for owner and status only, as `jobs.py` does; `CheckFence` is the SELECT
before the terminal write and `WriteSuccess`/`WriteFailure` the UPDATE and commit after
it. An agent turn commits its run (`CommitRun`) before it calls the provider. `Crash`
rolls back and leaves the lease; `Restart` brings the worker back under the same id.
`LoadForCancel`/`Cancel` and `LoadForRetry`/`Retry` are the API requests, as an unlocked
read and an update.

**PaymentLedger.** An event id stands for the payload its provider signs. A delivery is
look-up (`hooks`), flush (owns the unique key; a refund locks the original entry), and
commit, with reconciliation failing on its own (savepoint) and the receipt kept. Proposals
are versioned, and a reviewer acts from a *screen* that shows case and version and may be
old. Commission requests lock the history rows they find, read the balance, insert, and
commit. `LegacyMatch` turns the one-step endpoint on.

**CaseProtection.** Incidents are opened and decided in two steps each under the row lock
of the case. Activities and agent proposals are created, steered and confirmed by requests
that read and later commit without the lock; creation is two reads (preflight, count) and
a commit. `Overlap` says whether such a request may be in flight together with a
protection request.

**PolicyProposals, RepaymentPlans.** Creating a policy proposal is three statements, a
decision holds the locks of proposal and package. Proposing a plan locks case and package,
deciding plan, case and package, posting a ledger entry the plan; `Protect` and `Release`
are the commits of `CaseProtection`. A schedule is its amounts.

**LoanCalls.** Every operation on policy, sessions and dispatches takes the row of the
tenant and then that of the case; an operation that reads nothing before its last lock is
one action. The dispatching job is many: it reads the dispatch (`JobStarts`), decides and
commits the durable intent (`JobDecides`), takes its locks again (`JobRelocks`), checks
everything once more (`JobRechecks`), calls (`Posts`), and ends behind a fence (`Fence`,
`Commits`). A stop that reaches a dispatch writes it and queues a job that deletes the
channel. A grant, a due date, a day and a lease end at any moment.

**ContactAttempts.** Queueing writes the case row before it counts the attempts of the
day; handing over and cancelling lock the attempt; a webhook looks for its event without a
lock and then inserts it beside one conditional UPDATE. The provider is external: it emits
stages of a call in order and delivers them in any order, any number of times.

**ConnectorSync.** A pull locks the connector, reads a page under the lock, and loses the
lock with the first event it commits; before each further event it looks at the row again
(`check`), and a conditional UPDATE moves the cursor. Two workers may be inside one job.
Submission, scheduling, retry and cancellation of pulls, tests that wait for the customer,
takeover by another administrator and reconfiguration happen meanwhile.

**MaterialVersions, CustomerEvidence.** A material is replaced by appending to its series;
the questions whether the new one has a history are plain reads. Associations and
acceptances are bound to a digest of the evidence as it was proposed; a digest is the
state it is computed from. A decision locks the row it decides on, and nothing below it.

**TenantGovernance, AssetImports.** A proposal is checked and then inserted; a decision on
a member locks proposal and member but counts seats and administrators without a lock, a
decision on the stage locks neither lifecycle nor plan. A file of assets is previewed (read,
then inserted) and committed by somebody else; commits of a tenant take turns.

**VoiceCombinations.** Every step on the database starts with the lock on the tenant and
ends with a commit; the host is asked in between. What the host measures is a
configuration: the models selected by a version of the combination at the revision the
host has of them.

**ServiceGate.** A request reads rows, then the state, then writes the columns it changed;
a connection test marks the row it finds after the provider has answered. `Savers` are the
requests that save configurations: one, since two concurrent saves would produce the same
version number (section 5).

**AgentTurns.** A turn is a job claimed by a runner of a host. The host's runtime manager
keeps a process for the session, which remembers the turns it was asked itself; the
checkpoint counts the turns and names the generation of the process that answered last.
Everything a turn writes is committed with its job if the lease is still held.

**ModelReplays.** A replay is queued for the configuration that was reviewed and runs as a
job of one attempt; it compares the configuration, and the recorded spending of the day
plus the most a call may cost with the limit, without a lock, and what the call cost is
committed when it is over.

**SecretRotation.** Requests of several processes store a new envelope under the key their
process was started with and retire the one they read; the operator introduces a key,
restarts processes one by one, re-wraps what is not locked, and drops old keys when every
process has been restarted and nothing is pending.

**VoiceTurns.** The media loop of the call, the reader of the client, the session task of
the host and the worker of a turn, with the messages between them. An epoch of the client
is whether a turn is stale; `heard` is auxiliary. **MediaBridge** is the program that sets
calls up and cleans them up, its journal, and what exists in Asterisk: a request is
answered, fails, or is carried out and its answer lost; a request that failed is not
carried out later (the one assumption about Asterisk).

## 3. What the runs check

TLC explores every reachable state of each instance. Most runs hold several components
*each on its own*: a variable `part` (`component` in `MCServices`, `half` in `MCVoiceLab`), chosen in the initial
state, says which of them moves; the others stay as they begin. Their properties and bounds
are independent, and no interleaving of two parts is claimed. What one part means to another is stated where it
acts (protection in `RepaymentPlans` and `LoanCalls`, for instance).

| Run (module, configuration) | Properties | Instance and bounds, and why they are enough |
|---|---|---|
| `services` (`MCServices`, `Services.cfg`) | `TypeOK`, `LeasesExclude`, `OnlyRetryReopens`, `ReadyAsTested`, `ProcessesKnowTheDialogue`, `ReplaysAreBounded`, `NothingIsLost` | one agent job (rows are independent), 2 workers (a stale one and its successor), 2 API requests, 2 attempts (one to lose, one to exhaust the budget), leases of one tick, 1 crash; 2 services, 2 requests, 3 saved configurations (one more than a report can name); a session of 3 turns on 1 host with 1 runner, 2 attempts a turn, 3 configurations, 2 restarts; 4 replays of at most 2 units against a limit of 3, two at once (so that two are admitted side by side); 2 processes, 2 services, 3 envelopes, 3 keys (two rotations) |
| `settling` (`MCSettling`, `Settling.cfg`) | `AttemptsAreTrue`, `TicketsSpec`, `EventuallyTerminal`, `LeaseNeverStrands`, `DecisionsStand`, `CallsSettle` | as above with leases of 2 ticks and one API request; 2 contact attempts at a daily limit of 1 on 2 days, one of them by phone, 2 callers, one of which may die, calls of 2 seconds |
| `ledger` (`MCLedger`, `Ledger.cfg`) | `LedgerMatchesReceipts`, `RefundsFollowPayment`, `BalancesCovered`, `ApprovedAsShown`, `EntriesAreImmutable` | a payment of 5 whose case the provider does not name and refunds of 2 and 4, which fit one by one and not together; the second names another case; 2 deliveries at once, a maker and a checker, versions up to 4 (reject and resubmit twice), a rate of 35 % so that every amount rounds; and a payment and a refund with the legacy match and 2 requests on a balance |
| `cases` (`MCCases`, `Cases.cfg`) | `BlockedIffProtected`, `StopContactIsForever`, `NothingRunsOnProtected`, `MoneyIsAllocated`, `PlanSettlesCase`, `OneApprovalPerVersion`, `ReleaseIsReviewed`, `NothingActivatesProtected`, `DecisionsAreReviewed` | two incidents and a stop-contact on one case and a signed case beside it, 2 people, 2 requests, versions up to 3 (a rejection and a second proposal); 2 plans of 2 installments (one admissible only under the new policy), a payment that exceeds the plan and one that does not, 2 refunds that take the first back, one protection, one policy change; 3 policy proposals (two at one version and one after) |
| `loan_calls` (`MCLoanCalls`, `LoanCalls.cfg`) | `CallsAreAuthorized`, `OneAtATime`, `CallsFireOnce` | 2 sessions (one after the other), 2 workers (a stale one and its successor), a claim of 3 with a promise of 2 and entries of 1, 2 and −1 (partly paid, kept, taken back), limit and quota of 1, 2 attempts of a job, 2 changes from outside (one to interfere and one to undo or to lose a lease) |
| `connector_sync` (`MCConnectorSync`, `ConnectorSync.cfg`) | `TestedIntake`, `ReadsInOrder`, `CatchesUp` | a page of 2 events (to be stopped in the middle of) and one of 1 after it, 2 mappings, 2 administrators, 2 jobs, 2 workers, 1 test request, 3 attempts, 2 changes |
| `verdicts` (`MCVerdicts`, `Verdicts.cfg`) | `AcceptanceIsOfHistory`, `VerdictsHold` | 2 materials (one replaces the other), 2 reviewers and a third creator, 2 states of the report (there and back), 2 requests under way, 3 changes; 4 contents that 2 requests append to each other at once; 2 combinations, 2 saves, 2 comparisons, 2 revisions of the host |
| `proposals` (`MCProposals`, `Proposals.cfg`) | `TenantsAreReviewed`, `ImportedAsReviewed` | 3 users, two of them administrators, 2 clerks, 3 proposals; 5 files that share cases, packages and a rule and disagree about them, 3 batches, 2 people |
| `lab` (`MCVoiceLab`, `VoiceLab.cfg`) | `CallerIsHeard`, `CallsAreAccounted`, `GateOpens` | 3 turns a call (a proposal, its confirmation, one between), replies of 2 blocks, a queue of 1 (full at once); 3 phones against a daily limit of 2 |
| `jobqueue_fencing` (`JobQueue`) | `TerminalWriteIsFenced` — violated | 2 workers, no crash, no API: a stall is enough |
| `protection_overlap` (`MCCaseProtection`) | `NothingRunsOnProtected` — violated | one desk and one activity request that overlap |
| `last_admin` (`MCTenantGovernance`) | `AdminRemains` — violated | 2 administrators, 2 proposals, 2 requests |

**What the properties add up to.** *Queue:* whatever stale worker, API update or crash
lands on a row, a running row keeps what recovery searches for; attempt numbers are a
fencing token, and every job ends. *Ledger:* an entry exists exactly for a matched receipt
and on its case; refunds booked never exceed their payment; commission rounds within a
cent per entry; an approval books what its reviewer saw. *Cases:* the flag that stops all
outreach follows the incidents, releases go through two people; one plan in progress or in
force per case, no lost update in the allocation, statuses that follow the money.
*Calls:* a call goes out at most once and only under what stands the moment it does;
reports of calls in any order leave the truth. *Feeds and evidence:* each event once, in
order, under a tested configuration; verdicts count for what they were about. *Tenants:*
what changes was proposed by one and decided by another. *Platform:* gates rest on tests
of what is there, budgets hold up to the calls side by side, credentials stay readable.

**Symmetry** is used for interchangeable workers, requests, people and ids in runs of
safety properties only (invariants, action properties, and the refinements of
`MakerChecker` and `OneShot`, which treat them alike); the runs with liveness
(`settling`, `connector_sync`, `lab`) have none.

**Deadlock** is checked where something can always happen: in `settling` a worker has a
next step and a call can be reported again, in `lab` a call can begin or end, in
`jobqueue_fencing` the worker polls. The other modules describe requests, bounded in
number or by the changes they count, and these end: `CHECK_DEADLOCK FALSE`.

**Fairness**, and why the code justifies it:

- `settling`, queue: a worker process keeps running its loop and is restarted by its
  supervisor (`docker-compose.yml` restarts it; `worker.py` loops until a signal and polls
  at least every `poll_seconds`), time passes, and an API request that has read finishes.
  A heartbeat may always be late, nobody has to retry or cancel, a handler may always fail.
- `settling`, contacts: an admitted request commits or dies; the provider delivers the end
  of a call again and again until one delivery is answered (strong fairness: a delivery is
  possible only while no other request is in the way).
- `connector_sync`: workers poll and work, leases that were lost run out and are recovered,
  the schedule comes round, and somebody retries a pull that failed (the operator: this is
  part of the claim, since the code does not retry a pull by itself).
- `lab`: the reader, the session task and the worker thread run as long as they can; the
  caller, the network and the models owe nothing.

**Mutants.** For each property of each passing run `PROJECT.json` names a plausible mistake
in a modelled definition (the `…_NoLock`, `…_AnyVersion` etc. beside it) under which the
property fails on the same instance.

## 4. What is proved

| Module | Theorem | States, for every value of the constants |
|---|---|---|
| `PlatformProofs` | `TypeCorrect` | `TypeOK`; in particular no attempt beyond `max_attempts` |
| | `RunningStaysLeased`, `AttemptsExclusive`, `FenceExclusive`, `LeasesAreExclusive` | the parts of `LeasesExclude`, and all of it |
| | `FinishedStaysFinished` | `OnlyRetryReopens` |
| | `ImplementsTickets`, `QueueImplementsTickets` | `TicketsSpec`: the queue implements `AttemptTickets`, alone and beside the contacts |
| | `AttemptsStayTrue` | `AttemptsAreTrue`: the limit of a day, and the furthest stage reported |
| | `DecisionsAreKept` | `DecisionsStand` |
| | `ReadyMeansTested`, `ReadyServicesAreTested` | `ReadyAsTested`: of the gate alone, and of the specification of the run `services` |
| | `NothingIsEverLost`, `CredentialsAreKept` | `NothingIsLost`: of the envelopes alone, and of that specification |
| | `SpendingStaysBounded`, `ReplaysStayBounded` | `ReplaysAreBounded`: of the replays alone, and of that specification |
| | `ProcessesRemember`, `SessionsRemember` | `ProcessesKnowTheDialogue`, for one runner: of a session alone, and of that specification |
| `PaymentLedgerProofs` | `TypeCorrect` | `TypeOK` |
| | `EntriesAreForever` | no step changes or removes a recovery entry (`KeepsEntries`) |
| | `RefundsStayWithPayments` | a booked refund is on the case of its payment, which is booked (`RefundsAreBooked`) |
| | `RefundsNeverExceed` | `RefundsFollowPayment`: and refunds never add up to more than the payment |
| | `RoundingStaysBounded` | commission accrued is the rate of what was recovered, up to half a cent an entry (`RoundingBounded`) |
| | `NoBalanceIsSpentTwice` | `BalancesCovered` |
| | `MoneyHasEvidence` | `LedgerMatchesReceipts`, without the legacy match |
| | `ApprovedWasShown` | `ApprovesAsShown`, without the legacy match |
| `IncomingProofs` | `MatchedIsBooked`, `RefundsStayWithin`, `SpentOnce`, `ShownIsBooked`, `BookedStaysBooked` | the five properties of the run `ledger`, of its specification |
| | `IntakeIsTested` | `TestedIntake` |
| | `FeedIsReadInOrder` | `ReadsInOrder`: the connector implements `PagedIntake` |
| | `CallersAreHeard` | `CallerIsHeard`: nothing rests on a reply that was not heard, nothing is played that was spoken over |
| | `CallsStayAccounted` | `CallsAreAccounted`: what calls make in Asterisk is in the journal, calls are served alone |
| `RepaymentPlansProofs` | `EachVersionApprovedOnce` | `OneApprovalPerVersion` |
| | `PolicyTakesTwo` | `PolicyIsReviewed`: policy proposals implement `MakerChecker` |
| | `Invariance` | the inductive invariant of the plans |
| | `PaidIsWhatPaymentsLeft` | `PaidIsAllocated`, `NetShareCovered`, `CompletedWhenPaid`: what an installment shows as paid is what the ledger holds for it |
| | `OnePlanSettles` | `OnePlanPerCase`, `SettledMeansPaid` |
| | `NothingStartsProtected` | `NothingActivatesProtected` |
| | `PlansTakeTwo` | `PlansAreReviewed`: plans implement `MakerChecker` |
| `CasesProofs` | `Invariance`, `TypeCorrect` | the inductive invariant of `CaseProtection`, and `TypeOK` |
| | `BlockedWhileProtected`, `HoldsAreForever`, `ReleaseTakesTwo` | `BlockedIffProtected`, `StopContactIsForever`, `ReleaseIsReviewed` |
| | `NothingReachesProtected` | `NothingRunsOnProtected`, while requests of the two kinds do not overlap |
| | `PaymentsStayAllocated`, `SettledByItsPlan`, `NoPlanStartsProtected`, `EachVersionIsOneApproval`, `DecisionsTakeTwo`, `CasesAreProtected` | `MoneyIsAllocated`, `PlanSettlesCase`, `NothingActivatesProtected`, `OneApprovalPerVersion`, `DecisionsAreReviewed` and the three of protection, of the specification of the run `cases` |
| `LoanCallsProofs` | `Invariance` | the inductive invariant |
| | `OnlyAuthorizedCalls` | `CallsAreAuthorized` |
| | `OneConversation` | `OneAtATime` |
| | `ImplementsOneShot` | `CallsFireOnce`: dispatches implement `OneShot` |
| `ReviewProofs` | `TenantsChangeAsReviewed` | `TenantsAreReviewed`: members change as approved, a closed tenant stays closed |
| | `ImportsAreReviewed` | `ImportedAsReviewed` |
| | `AcceptancesStand` | `AcceptanceIsOfHistory`: what is accepted stands, and histories are chains |
| | `VerdictsAreHeld` | `VerdictsHold`: no later verdict against what is enabled, one test at a time |
| `FiniteSums` | (lemmas) | sums over finite sets, as the models take them: with one element more, with one value changed, of a part, compared |

**Assumptions.** Each component names what it assumes of its constants (`…Assumption`):
what belongs to what, which numbers are naturals or positive, and that `None` is none of
the values it stands in for; `NoneIsNoRow` (`NoneIsNoRecord` in `RepaymentPlans` and `VoiceTurns`, `NoneIsNoVersion` in
`MaterialVersions`, `NullIsNoRow` in `ConnectorSync`, `RowsAssumption` in
`TenantGovernance`), that it is no record of a table either. The modules that TLC runs assume all of them of their
instances, so every run evaluates them. Six say more:

- `GateAssumption` lets one request at a time save configurations: two that save at once
  produce the same version (section 5).
- `MoneyHasEvidence` and `ApprovedWasShown` assume that the one-step endpoint is off: with
  it on, a receipt matched in one step can be rejected later (section 5).
- `NoBalanceIsSpentTwice` assumes `HistoryAssumption`, a tenant that has commission entries:
  the first two requests of a tenant find no rows to lock (section 5).
- `NothingReachesProtected` assumes `~ Overlap`, that requests on activities and requests on
  incidents of a case take turns; the run `protection_overlap` shows that it is needed. The
  other theorems about `CaseProtection` hold with both side by side.
- `ReplaysAssumption` makes the replays of a day finitely many, so that their sum is one;
  `TurnsAssumption` says the same of hosts and runners, whose number bounds the processes.
- `ProcessesRemember` assumes `OneRunner`: with two, a process can be asked without turns
  that another answered (section 5).

**The arguments.** None of the invariants is inductive alone. What has to be added is,
each time, what a request that is under way still knows.

- *Job queue.* Updates by primary key write what was true of an older row:
  `Inv == TypeOK /\ SnapshotsAreOld /\ RunningIsLeased /\ OwnersAreCurrent /\
  AttemptsAreExclusive`. `SnapshotsAreOld` says what a pending update was decided on: a
  terminal write on a row it saw running, a cancel on one queued or running, a retry on one
  failed. With it, a flush either changes the status away from running or leaves status,
  owner and lease as they are (lemmas `FinishedRow`, `FlushedRow`, `HarmlessRow`).
  `OwnersAreCurrent` says that a worker inside a job whose row still names it holds the
  row's attempt; it is what makes `Begin`, which takes the attempt over from the row after
  checking only the owner, keep attempts exclusive. For the refinement a claim maps to
  `Enter`, every return to the loop or crash inside a job to `Leave`, everything else to a
  stutter.
- *Contact attempts.* A report may be refused because the row has moved on, or because the
  row bears a later time; neither may hide a later stage. `ContactsInv` says that the state
  of a row was itself reported, with the time of the row (`StagesShown`), and that among the
  stages the provider knows of a call later ones bear no earlier times (`CallsProceed`): so
  what is refused for its time is of an earlier stage. For the limit of a day it keeps what
  the one request that creates has counted (`RequestsRead`): while it holds the case, the
  attempts of the day become only fewer.
- *Payment ledger.* The invariant relates receipts, entries and reviews through the
  deliveries under way and the screens of the reviewers: an entry needs a receipt and a
  refund's entry that of its payment (`EvidenceFirst`, `RefundsAreBooked`); of the
  deliveries of one event that found nothing one owns the key (`DeliversAlone`); and
  what a screen shows is what the review said at that version (`ScreensAreTrue`), since
  versions only grow. `LedgerMatchesReceipts` is then kept by every step except the
  one-step match. The sums need two more facts that locks keep true: a delivery that found
  room for a refund still has it when it commits, since it holds the original entry
  (`Room`); and a commission request that found its amount covered still does, since
  requests on the history exclude each other. Each accrual is half a cent off at most, and
  the sum of the differences is bounded by the number of entries.
- *Sums.* `MapThenSumSet` is a function on subsets defined by recursion, and the provers
  cannot instantiate an induction theorem. `FiniteSums` shows instead, with a smallest
  subset for which it would fail, that such a function exists, that there is one, and that
  its value does not depend on the element it chooses first.
- *Policy proposals.* `PolicyInv == TypeOK /\ OneDecides /\ OneHolder /\
  PolicyReadsAreCurrent /\ PolicyReviewers /\ OneApprovalPerVersion`: one request decides at
  a time and holds the package, so the version it read is the version it adds one to; a
  request that creates holds nothing, and its proposal may be at an older version.
- *Repayment plans.* Requests hold one of three locks: of the case and its package
  (`ContextAlone`), of the plan (`PlansAlone`), or of a ledger entry (`EventsAlone`), and
  `DesksSound` says what each of them has read, which is still so. A payment fills the
  installments in order, so each takes the least of what is left and its room, and together
  they take the least of the payment and all of the room (`FillTotals`). `PlanNet` says that
  what an installment shows as paid is the sum over the payments of what refunds left of
  each; a refund therefore finds what it takes back. A payment reads the case without a
  lock: `SettledMeansPaid` holds because it settles the case only as it completes the plan,
  and because a refund reads the case under the lock of the plan.
- *Case protection.* A decision reads whether another incident on the case is active and
  writes the case two statements later: `Inv == TypeOK /\ CaseIsLocked /\ ReadsAreCurrent
  /\ ProposalsAreSound /\ NamesExist /\ BlockedIffProtected`. `CaseIsLocked`: one request
  at a time is at work on the incidents of a case. `ReadsAreCurrent`: what it has read is
  still so. `ProposalsAreSound` gives proposals a proposer and keeps stop-contact out of
  the workflow. `Quiet` adds, for `NothingReachesProtected`, that a request on activities
  has read an unblocked case, and that a request that opens an incident has found every
  activity that works on the case (`HitsAreAll`).
- *Loan calls.* A job that dispatches has read a dispatch, a session and the terms in
  several transactions, and other workers and stops change all of them in between. The
  invariant says what the rows look like (`Types`, `RowsAreKnown`, `JobsAreReserved`,
  `UnsentIsSilent`), that the locks of a job exclude others (`LocksExclude`,
  `SendersAreAlone`), and that therefore what a job holds in its hands agrees with the rows
  as far as it is locked (`WorkersAreSound`); a conversation that is over has no dispatch
  left that could call (`OverIsStopped`), and one that goes on is under today's terms
  (`RunningIsCurrent`). In the refinement reserving a dispatch arms an intent, posting acts
  on it, and a stop withdraws every intent of the session at once.
- *One conversation.* `Duties` adds what a case waits for. Every step except the start of a
  session only shrinks it, and a start checks that it is nothing. The exception would be a
  promise that was kept and is open again: without refunds what was recovered only grows, so
  a promise that was kept stays kept (`PromiseStands`, which needs the sum of the ledger to
  be monotone), and one that was broken was late, and stays late.
- *Secret rotation.* `SecretsInv == SecretsTypeOK /\ ConfiguredIsActive /\ CarriesItsOwn /\
  WritesAnew /\ KeysAreThere`: a request carries the envelope its own service referred to
  and writes one nobody else writes, and every key that an active envelope or a request may
  use is in the keyring of the deployment. Keys are dropped only when nothing is pending and
  every process has been restarted, and then nobody can write under an old key.
- *Service gate.* Every row, report and snapshot that is written or carried somewhere is
  *known*: a version names at most one set of settings, and nothing carried names a version
  that is not there yet. Since one request saves, a report that carries the present
  versions is of the present settings.
- *Replays.* A sum that was read is old when the call is made, so the limit may be exceeded.
  By how much, the invariant `SpendLeavesRoom` says: what is recorded, and the most that
  every call in evaluation may record, exceed the limit by at most one call for each worker
  but one. Whoever is admitted found room for itself, beside fewer others than there are
  workers; a call that completes records what was counted for it already, or less.
- *Agent sessions.* The manager asks a process without the dialogue when its generation is
  the one of the checkpoint. `TurnsInv` says why that is enough: a kept process of that
  generation has heard every committed turn (`KeptKnows`). A new process gets a generation
  the checkpoint has not reached, and the checkpoint reaches it only with an answer of that
  process, which by then was given the dialogue. What the runner carries through a turn is
  still true when it uses it (`Carried`), since with one runner nobody else commits a turn or
  replaces the process meanwhile.
- *Connectors.* Versions first: a pull starts with a version that passed its test, its job
  keeps that version while a worker has it in hand (`InHand`), and so every event is taken in
  under a version that passed (`VersionsPassed`). Then workers that lag behind: they may hold
  any page before the cursor, but every event of such a page was taken in before the cursor
  left it (`PagesBehind`), and each has taken in the events of its page up to where it is
  (`HasTaken`). So whatever a late worker does, it takes in an event of the page at the
  cursor or nothing, and the cursor moves only off a page whose events are all held; the
  step maps to `Take`, `Advance` or a stutter of `PagedIntake`.
- *Tenants.* A decision locks the row of the member only where there is one. `TenantInv` says
  that one that found a row still has it as the proposal expects it, one that found none
  inserts, and of two that meet on one member both insert (`MembersAlone`), of which the
  unique key refuses the second. The stage has no lock at all. Decisions under way are all of
  one version, and the present one is that or the next, since nobody proposes while a
  proposal is pending (`NothingLater`): so versions never fall although writers overwrite
  each other, and a stage that was closed is overwritten only by a decision that read an
  earlier version.
- *Imports.* Between the check of a commit and its writes only previews are inserted, which
  change no batch (`Committing`, `CommitsAlone`). The rows of a batch do not contradict each
  other (`Coherent`), so any of them speaks for all that bear its name, and what was there
  before agrees with them or has another name (`RowsStand`).
- *Histories.* An append writes what it read, behind an UPDATE that asks whether the series
  is still as it was and unique keys that ask whether the material is new to it. `Chains`
  says of each history that it has one material for every version, made from the one before,
  and that its last is the head of the series; the lemma `AppendsKeepChains` is about one
  append to any two tables and holds for the materials of a case and for the histories that
  several people replace at once.
- *Acceptances.* A decision holds the row it decides on and compares what is below with a
  digest, and what is below may change before it commits and change back. So `Rests` does
  not say that the evidence of an accepted record stands, but that it would pass whenever it
  were again as it was seen; what is shown as accepted is seen so now. That the reviewer had
  no part in the association must survive a new proposal by that very person: it is said of
  the version that was seen only (`Apart`), and versions grow with every proposal and every
  decision.
- *Combinations.* `VoicesInv` relates a combination to the tests that ran on it.
  `Exclusive`: a test in its time holds its combination. `Enabled`: what was tested after the
  test a combination is enabled on runs and holds it, or passed with the same models, or
  with others that the connection names now, and then the combination is not fresh.
  `Reserves` and `Disjoint`: every run has its reports to itself, so the end of one
  cannot rewrite what another measured.
- *A dialogue of the laboratory.* `TalkInv` follows one reply. A block of it is still to be
  spoken by the worker, in the queue of the host, on the line, waiting to be played, or
  played, and while the caller has not spoken up these add up to the whole reply (`Comes`,
  `Balance`): so a client that has played all it has after a completion has played the
  reply. Client and host agree on the turn that is under way (`Flows`): its request is on
  the line, or its worker speaks, or its verdict is the last thing on the line back. The
  dialogue may rest on a reply that was not heard only between its completion and the next
  word of the client: that word is not taken to mean that it was heard unless it was, or
  comes after a report that it was not (`Trusted`), and as long as neither has been sent the
  client still has the completion to learn, the report to make, or the rest to play
  (`Believes`). While a worker thinks, and when the host is free, nothing rests on what was
  not heard (`EngineSound`).
- *The bridge.* `BridgeInv` adds to what the journal knows where the program is: idle, with
  nothing made in Asterisk (`MadeByTheCall`), in a call, with nothing of another, or cleaning
  up, with what a cleanup without failure has deleted so far (`Deleted`). A recovery at the
  start may find what several calls left; it goes through the journal, and serves nobody
  before it is through.
- *Instances.* The specifications of the runs hold several components, and two instances of
  one with different constants. `CasesProofs`, `IncomingProofs`, `PlatformProofs` and
  `ReviewProofs` show that a step of one part leaves the variables of the others alone;
  the first takes theorems over from an instance of `RepaymentPlansProofs`, the second from
  two of `PaymentLedgerProofs`. A module of proofs may extend several modules for TLC, where
  their names do not meet: `PlatformProofs` has `MCSettling` and `MCServices` (which share
  the queue), `IncomingProofs` has `MCLedger`, `MCConnectorSync` and `MCVoiceLab`,
  `ReviewProofs` has `MCProposals` and `MCVerdicts`.

**What the proofs leave to TLC.** Liveness (`EventuallyTerminal`, `LeaseNeverStrands`,
`CallsSettle`, `CatchesUp`, `GateOpens`), which depends on fairness and is out of the
prover's reach, as is ENABLED; deadlock is checked by TLC for the same reason. Every
invariant and every action property of a passing run is a theorem.

## 5. Where code and documents disagree

Three runs show what a document denies:

1. **Fencing is not atomic** (`jobqueue_fencing`). Owner, attempt and lease are checked by
   a SELECT without a lock (`jobs.py:377`), and the terminal status is written by primary
   key. A worker that stalls in between, past its lease, overwrites the row of its
   successor; `RELEASE_v0.5.0.md:14` and `docs/architecture.md:75` say it cannot.
2. **An activity can run on a protected case** (`protection_overlap`). An activity
   committed between the query and the commit of `open_protection_incident` is not blocked
   (`protection_workflow.py:175`); `RELEASE_v0.11.0.md:6`.
3. **A tenant can lose its last administrator** (`last_admin`). Two administrators who
   approve each other's demotion at the same time each still count two
   (`membership_governance.py:126`); `RELEASE_v1.2.0.md:11`.

What the models also show, without a run of its own. The properties of the passing runs
are stated so that they say what does hold beside these:

- *Queue.* A cancel request on a row that recovery requeues meanwhile is erased by the next
  claim (`main.py:1333`, `job_queue.py:105`); an `agent_runs` row committed after its job's
  recovery stays open (`jobs.py:242`); a second retry that read the job as failed can
  requeue it after its last attempt was claimed, and leave it queued with none left. That is
  why `settling` has one API request.
- *Ledger.* The legacy match posts a receipt whose proposal is pending, and rejecting the
  proposal later marks the receipt rejected while its entry stays (`financial_ledger.py:699`,
  against `RELEASE_v0.10.0.md:14`); two first commission requests of a tenant find no rows
  to lock (`financial_ledger.py:851`).
- *Policy.* Of two proposals pending at one version the one not approved can be neither
  decided nor replaced (`policy_workflow.py:176`).
- *Plans.* A plan paid off under protection leaves its case open when the protection is
  released (`repayment_plans.py:391`, against `RELEASE_v0.12.0.md:10`); the order of two
  refunds decides whether a completed plan is reopened (`repayment_plans.py:476`).
- *Loans.* A refund can leave a case with two obligations, because a promise it reopens was
  kept when the next conversation began; a paused session's dispatch may stay prepared.
- *Contacts.* Two retries of one attempt both succeed.
- *Connectors.* A worker may take in one more event after the connector was disabled; a
  mapping that changes in the middle of a page makes every replay of that page answer 409
  (`CatchesUp` says so in its premise).
- *Materials.* While one request appends a material to a history, another may append to that
  material: both commit, and it is then in the middle of one history and at the root of
  another (`material_versions.py:89`), against `evidence-workspace.md:5`, where a race of
  versions answers with a conflict. Each history stays a chain, which is what the run checks.
- *Tenants.* Two approvals can exceed the seats of the plan; overlapping decisions on the
  stage overwrite each other; a suspended tenant without a `tenant_plans` row keeps the
  default, active one.
- *Imports.* The mandate is not compared with the day again at the commit, so a case can
  enter after its mandate ended; a preview repeated at once fails on the unique key.
- *Services.* A connection test begun on one version marks a newly saved one as connected
  (`docs/product-functional-spec.md:163`); two concurrent saves produce one version.
- *Agents.* With two hosts, or two runners of one host while the configuration changes, a
  process can be asked a question without turns that another answered
  (`docs/product-functional-spec.md:147`, `RELEASE_v0.4.0.md:15`): the run has one host with
  one runner. A turn whose lease was lost stays in the memory of its process.
- *Replays.* The provider may charge more than was reserved, so that the limit of a day is
  exceeded by the calls that were under way (`docs/configuration.md:84`).
- *Secrets.* Two concurrent saves of a service leave an envelope active to which nothing
  refers (`RELEASE_v0.6.0.md:10`).
- *Combinations.* A busy host makes an activity's test fail and disables the combination; a
  connection check whose process dies stays `checking` until the next.
- *Laboratory.* A cancellation that crosses a completion ends the call
  (`docs/linphone-sip-lab.md:742`).

## 6. What is not modelled, and why

- *Whole components* (`PROJECT.json` has each): the catalogue, work queue, trends and
  scorecards read and decide nothing; the evidence workspace is a read model beside one
  advice call that spends model tokens and rolls their record back with a conflict;
  knowledge and strategy experiments and pilot evidence are the two-person workflow of
  `MakerChecker` once more, without effect elsewhere; identity and tenancy are assumptions
  of every action; audit is append-only; the synthetic loan dialogue is a pure function
  outside the application; schema, migrations, seed and deployment run once; the console and
  the demo worker are clients.
- *Within modelled components*: tenants (every query is scoped to one, so one is modelled);
  authentication and roles (an actor of a modelled action has the role); audit and
  monitoring rows; lists; wording of errors. A refused request changes nothing and has no
  action. The AWS backend of the secret store writes outside the transaction and is left
  out, as are the PostgreSQL wake-up of workers (polling is the recovery path), webhook
  signatures (a delivery is one that verified), contact windows (a window that closes acts
  like protection), and the SIP, RTP and audio layers of the laboratory.
- *Entitlements*: the seat check and the status of the plan are in `TenantGovernance`; the
  other quotas are the same count without a lock before an insert.
- *Deadlocks of row locks taken in opposite orders* (`financial_ledger.py:576`): PostgreSQL
  aborts one of the two, which rolls back; the modules let a request die at any wait.
- *Wall-clock time*: dates are data, leases, grants, days and due dates end at any moment.
- *Arithmetic*: cents are integers; Python integers do not overflow, and column widths are
  far from the amount limits of the schemas.
- *Asterisk, model hosts, providers, harness processes*: external; each is what the code
  assumes of it, with failures and lost answers.

## 7. Plan

Done, in this order: the queue (`JobQueue`, `AttemptTickets`); money (`PaymentLedger`);
who may be contacted (`CaseProtection`, `MakerChecker`); plans and policies; loan calls
(`LoanCalls`, `OneShot`); contacts; connectors (`PagedIntake`); materials and evidence;
tenants and imports; combinations and the laboratory; services, agents, replays, secrets.

Left, in order of worth:

1. The evidence workspace's one path that spends before it checks.
2. Provider acceptance records beside `ServiceGate`, and the pilot's evidence as another
   instance of `MakerChecker`.
3. The dialogue and the bridge of the laboratory as one call, in which the bridge ends what
   the dialogue ends.
4. Handlers inside `JobQueue`'s lease as one specification instead of modules that each
   keep an abstract lease.
