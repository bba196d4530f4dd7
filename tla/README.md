# A TLA+ verification of ponygirls

ponygirls is a set of tools around coding agents: Scala services that archive and search what agents write
(`chronicle`, `haystack`, `manure`, over the libraries of `shared`), a TypeScript collector that feeds Chronicle from
every workstation, extensions of the Pi agent (`nix/pkg/pi-extensions`: background tasks, subagents, goals, notices),
and packaging. This directory models the parts whose correctness depends on concurrency, crashes, leases and lost
messages. TLC checks small instances of the models; TLAPS proves the central properties for every instance.

## 1. Inventory

| Part | State it keeps | Operations | What makes it hard | What makes it correct |
|---|---|---|---|---|
| **Fenced retrieval index**, `shared/retrieval-postgres/.../PostgresRetrieval.scala` | the `pony_retrieval_*` tables: sources with epoch and target profile, head chunks, jobs with fence, attempts and lease, accepted vectors, generations, published chunks | `put`, `remove`, `claim`, `renew`, `accepted`, `accept`, `publish`, `fail`, `migrateModelIdentities`, `search` | leases lapse under slow provider calls; sources are rewritten meanwhile; replies are lost | one holder per source; publications whole and of one embedding space; no stranded source; no mixed answer |
| **Indexing worker**, `IndexingWorker.scala` | one claim per fiber | `once`, `process` with its heartbeat, `run` | crash between any two transactions; the provider is not deterministic | a repeated call never spoils a job; every job ends |
| **Admission gate**, `shared/service-runtime/.../Admission.scala` | `Ref(closed, count)`, semaphore, `Deferred` | `reserve`, `run`, `release`, `close` | cancellation and time-out race the grant; closing races waiters | capacity conserved; quiet after close; close returns |
| Blocking gate, JDBC engine, migrations, same directory | monitor and semaphore; a connection; a ledger | `transaction`, `close`, `applyAll` | the same races; a failing rollback; two processes starting | same promises as the gate; all or nothing |
| **Collector daemon and spool**, `chronicle/collector/src` | SQLite: heads, observations, pending requests, origins, reports | `runOnce`, `retry`, `drop`, restart | uploads that time out and are executed later; crash before the acknowledgement; rotated secrets | the spool knows what the server holds; no conflict; nothing leaves under another policy; every quiet file is archived |
| **Archive ingest**, `chronicle/server` `Database.scala`, `Auth.scala` | sources, revisions, receipts, tombstones | `ingest`, `Purge` | replays, concurrent purge | one revision per request, receipts final |
| Chronicle index jobs, `Database.scala` 61-72 and 184-320, `ReindexCohort`, `OwnerReindex`, `RetryFailedJobs` | jobs, generations, cohorts, owner targets | `claim`, `publishGeneration`, `fail`, `retry` | target changes under running jobs | fencing across target epochs; cohort counts |
| Collector progress, `progress.ts`, `CollectorProgress.scala` | a sequence on both sides | `report`, `update` | reordered reports | the server never goes back |
| Haystack items, `PostgresItemRepository.scala` | items, revisions, write requests | `commit` | a write races its own retry | one outcome per request identity |
| **Subagent supervisor and scheduler**, `ponygirls-subagents/src/supervisor.ts`, `scheduler.ts` | a tree of agents with queues of runs, runnable and resident leases, a journal | `spawn`, `sendMessage`, `wait`, `interrupt`, `close`, `recover`, and what workers report | one call pumps every agent before it returns; sections queue on a promise chain; code resumes after an await in another run's time; crash between two appends | leases exclusive and accounted for; one outcome per run; owners join descendants; no lost wake-up; every started run ends |
| **Background tasks**, `ponygirls-bg-tasks/supervisor.py` | a runtime per process group, a registry on disk, the owner's connection | `spawn`, `terminate`, `clear`, `shutdown`, `detach`, and the children it reaps | groups outlive leaders and SIGKILL; commits fail half-way; the owner is replaced; the supervisor is killed | an outcome is final and true; no signal strays; every request is answered |
| Subagent notices, `notice-delivery.ts`; task notices, `delivery.ts` | a cursor; events, receipts, guards | `changed`, `attach`; submit, acknowledge, retry | detach inside a retry; a notice handed over is not a notice answered | no skipped notice; every completion is finally answered |
| Web transport, `chronicle/web/src/transport/manager.ts` | channels, generation, pending requests | open, ping, request, retry | replies of superseded sockets | a reply belongs to its generation |

The interactions: a service calls `put` and `remove` of the index inside its own transaction; every transaction passes
the admission gate; workers of any process share the index only through the tables; the collector talks to the server
only by `POST /api/ingest`; Chronicle's ingest queues the job that its indexer claims. The two supervisors of the agent
extensions share no state: each serves one session, the subagents' inside the agent's process, the tasks' in a process
of its own that outlives a reload of the extension.

Parts left out for good: parsers, redaction and discovery (pure functions of one file, whose results are constants of
`Collector`), formatting and views, generated codecs, the sandbox scripts and packaging (I/O). `PROJECT.json` lists every part with its status.

## 2. Modules

| Module | What it is |
|---|---|
| `Retrieval` | the index and its workers, translated from the source |
| `RetrievalAbs` | what the index promises: per source one written and one shown text |
| `RetrievalRefinement` | the refinement mapping from the tables to the two texts |
| `RetrievalProofs` | TLAPS proofs of type correctness and fencing |
| `RetrievalIndexProofs` | proofs about what is published, found and owed, and that stored batches are never contradicted |
| `RetrievalRefinementProofs` | proof that the tables implement `RetrievalAbs` |
| `MCRetrieval` | small instances; three configurations |
| `Admission`, `AdmissionProofs` | the gate, and the proofs of its three safety properties |
| `Collector` | file system, daemon, spool, network and archive together |
| `CollectorProofs` | proofs of the safety properties of daemon, spool and archive |
| `MCCollector` | small instances; two configurations |
| `Subagents` | the subagent supervisor with its scheduler, workers and journal; five configurations |
| `SubagentsProofs` | proof of its invariant, and from it of its type invariant and five safety properties |
| `Folding` | what holds of a loop, for the loops of `SubagentsProofs` |
| `BgTasks` | the background task supervisor with its processes, its disk and its owner |
| `BgTasksProofs` | proofs of all its properties |

### Retrieval

Each library call runs in one transaction that locks its source row first, so a call is one action. What interleaves is
what happens between the calls of a worker. A worker is a record: its place in `process` (`check` before `accepted`,
`embed` before the provider call, `accept`, `publish`, `failing` before `fail`), its claim, the first ordinal of its
batch and the vectors it holds. `Renew` is the heartbeat, which races the work. `WorkerError` is any failure or
cancellation and leads to `fail`; `WorkerCrash` is the death of the process, after which nothing runs. `Publish(w, TRUE)`
is a commit whose reply is lost.

Data are abstracted to what the properties tell apart: a digest is its preimage; a vector is a record of the text it was
made of, its embedding space and a nonce (two calls for one text may differ); audience and archived flag are the one bit
`shown`; a semantic query's legs return any at most `candidatesPerLeg` of their candidate rows (`SemanticAnswers`), since
the vector index is approximate and a ranking is not modelled; an expiry is never, in the future or past; a lease counts ticks. `claim` returns after its sweep without a
claim when nothing is claimable. `locked` are the rows that `SKIP LOCKED` passes over. `put` with a conflict
(a version reused for other content) aborts and is no step.

### Admission

The three concurrent objects are accessed in separate steps, so a caller's path is `waiting`, `permitted`, `working`,
`leaving`, and `signalling` for the one that must complete the `Deferred`. `GiveUp` is both the time-out and the
cancellation of a waiter; `ReturnPermit` from `permitted` is the caller that finds the gate closed or is cancelled.

### Collector

The daemon's `pc` follows `runOnce`: `sweep` (drop what another policy encoded), `scan`, `enqueue`, `upload`, `sending`.
Every spool transaction is a step and a crash may come between any two. A sent request stays on the wire for ever, so it
may be executed late, repeatedly and out of order; the answer reaches the daemon only while it waits on that very
request. A digest is the one of the transcript as the policy redacts it (`Redacted`), so a policy change may change the
digest of an unchanged file. Files of one `KeyOf` are copies of one session. `Usable` contents are those that pass the
limits, the exclusions and the parser and end in a complete line.

### Subagents

JavaScript runs a handler's synchronous part without interruption, and in this supervisor that part is long: a released
lease pumps every agent (`PumpRunnable`), a pump dispatches runs, a published outcome dispatches the next run and resumes
owners up the tree. So `sup` is the heap, every method is an operator from heap to heap under the method's name, and an
action is one synchronous part. What interleaves is what the code awaits:

- `serialized` is a promise chain. `chain` names the section that holds it across an await (a startup, a reload,
  an interrupt, a close, recovery); `jobs` are the sections a handler detached, run in order. A command that came earlier may run before them,
  so any command may, except for agents whose next event was caused by a later section (`after`).
- `childWait` does not use the chain. A wait passes `waiting`, `resuming` (its promise is resolved), `queued` for a lease,
  `granted`; ready continuations run before anything else (`Ready`).
- `awaitIdle` of `close` polls beside the chain; its last section retires the subtree.

`journal` holds the facts appended so far and `tail` those of the last step, in order; `Crash` keeps any prefix of `tail`.
`Replay` is `replayJournal`; of several lost runs of an agent it keeps the one started last. `Recover` is `recover`, with
the choice which lost runs cannot be confirmed and which of these are barred from replacement (`quarantined`).
`DispatchPending` is enabled only after a crash: nothing but its tests calls it, to resume what a restart left. A lease is a
number, an agent's lease its `runnableLease`. Abstracted: an agent's worker is there or not, a checkpoint is one pending
section, an event of a worker is its settlement, its exit or its `wait_agent`. Left out: gates and reviewers (their phases
never lock an agent here), messages that are no tasks, workspaces, billing, external tools, storage faults, explicit
eviction (`evictWorker`), creation reservations, `setLimits` and `shutdown`.

A startup has two awaits. `chain` is `startup` while the worker is launched, with no run active, and `initialize` from
`Launched`, which makes the current run active (2591), to `Started`, which publishes `generation.started` (2608). In
between a run may be prompted and the journal knows nothing of it; waits, interrupts, other agents' releases and a crash
come in between as well. `LaunchFailed` and `InitializeFailed` are the two ways to fail; `LoseStartup` is `startupFailed`.

An interrupt or a close is a walk over a subtree with an await at every agent (4298-4303). `walks` has where each one
is; `InterruptNext` goes on to the next agent, with the tests of 4310 made then and not at the beginning, and
`InterruptOver` ends it. A walk that an interrupt or a close began keeps the chain, one that `finalizeGeneration`
detached does not. Abstracted: two detached walks at the same place are one; a close visits its members in order of
creation, each once (the code also walks down from every member, which repeats what is idempotent).

### BgTasks

The supervisor is one event loop, and a request, an observation of a child or a deadline is one step. `sup` is its memory
(`mem`, the runtimes, the owner's connection) together with `disk`, because a step may commit several times. `Commit` is
`TaskRegistry.mutate`: it succeeds, fails without effect (`lost`) or fails after the rename (`torn`), so that the disk has
what memory has not. `Spawned` follows `_spawn` through its four steps and stops at any, a launch that fails and cannot
write so in its log (`launch_log`) included; `ClearSteps` and `ClearedDir`
follow the registry and the log directory through `clear` and stop at any. `Exit`, `Fork` and `KinExits` are the task's
processes; a group that no supervisor owns stands still. A leader ends in one of `Ends`: a command in `Failing` with any
exit code or by a signal, which may be somebody else's, the others with code 0. `ReadPty` is the end of the terminal and
`LogFails` a log that cannot be written, synced or closed, whether output arrives, the loop syncs or `_finalize` closes
it. `Observed` is the order of the loop: children are looked at before deadlines, and a deadline acts on what was seen;
an outcome whose commit has just failed again holds no deadline up. `Crash` is a kill; `Open` is `TaskRegistry.open` in the next
process.

`CheckGroup` takes `waitpid(-pgid)` without children for an empty group, as the code does: the supervisor is the
subreaper of its groups. The extension's README (Limitations) names what escapes this, a member whose parent left the
group; the model has no such member, so `EndedMeansGone` is about commands that stay within that limit.

Abstracted: all commits of one step go the same way; a kill inside `spawn` or `clear` is the failed step followed by
`Crash`; deadlines fire in any order and the teardown budget may run out at any time; reaping is done task by task, which
commutes; a registry that cannot be opened is a stutter. `stray` remembers a signal that was sent to the number of a
settled group.

## 3. What the runs show

| Run | Instance | Properties |
|---|---|---|
| `retrieval_fence` | 1 source, 2 workers, 2 versions, texts of 0 and 2 chunks in batches of 1, 2 nonces, lease of 2 ticks, 2 attempts, 2 epochs, eligible and not | `TypeOK`, `OneHolder`, `AcceptNeverConflicts`, `LiveClaimsAreNotStolen` |
| `retrieval_publish` | 1 source, 1 worker, a legacy profile and its canonical one, 3 epochs, fair | `PublishedIsWhole`, `NotStranded`, `LiveClaimsAreNotStolen` (against the migration), `ImplementsAbstract`, `EventuallySettled` |
| `retrieval_search` | 2 sources, 2 incompatible profiles, shown and private, 1 candidate per leg | `SemanticSearchSound` |
| `admission` | 4 callers, 2 permits, 1 queue place, fair | `TypeOK`, `CapacityIsConserved`, `ClosedIsQuiet`, `CloseReturns` |
| `collector_upload` | 2 copies of one session, 2 contents, 2 policies, 2 attempts, 3 requests, 4 disturbances | `TypeOK`, `HeadFollowsArchive`, `NeverConflicts`, `OneRequestPerSource`, `TombstonesAreFinal` |
| `collector_live` | 1 file of a named profile, 3 contents (one torn), 2 policies, 3 admission settings, 3 disturbances, fair | `OnlyAdmittedBytesLeave`, `EventuallyArchived` |
| `subagents` | 3 agents in any tree, 2 runs each, 2 leases, the first may wait, the second is sent a task, one interrupt, close or failure (1,325,271 states) | `LeasesExclusive`, `NoIdleCapacity`, `OneGenerationAtATime`, `OwnerJoinsDescendants`, `JournalCarriesRuns` |
| `subagents_recovery` | 2 agents, 2 runs each, 1 lease, 1 resident worker, one trouble, one crash, fair (65,784 states) | `TypeOK`, `OutcomeIsFinal`, `JournalCarriesRuns`, `QuarantineHolds`, `StartedRunsEnd`, `QueueDrains` |
| `bg_tasks` | 2 tasks (one forks, one may fail or be killed by others), 1 terminate, 1 fault, 1 kill (1,968,644 states) | `EndedMeansGone`, `SignalsStayHome`, `UnfinishedIsOwned`, `RecordsMatchArtifacts`, `HandoffLosesNoReply`, `TerminateIsAnswered`, `SpawnIsAnswered`, `OutcomeIsFinal` |
| `subagents_leak` | as `subagents`, but tasks are for the first agent, only the second spawns agents (`MayNest`), 2 troubles | `LeasesAccounted`, **violated** |
| `subagents_stranded` | 2 agents, 1 lease, 1 failed launch | `RunsAreOwned`, **violated** |
| `subagents_overrun` | 2 agents, 1 lease | `RunsHoldLeases`, **violated** |

All but the last three pass. Each property of a passing run has a mutant: a plausible slip in the code it is about (an
unfenced check, a missing tombstone, an off-by-one in the count) that makes TLC find the property violated.

**Findings.** The three violated properties state what the subagent supervisor's own comments say; line numbers are of
`supervisor.ts`.

1. `RunsAreOwned`: "each task run has exactly one terminal outcome" (10-11). When `initialize` fails, `continueStartup`
   releases the lease (2597) while the dying worker is still bound. The release pumps this very agent, `pumpQueue` sends
   its queued task to that worker and makes it the current run; `startupFailed(rt, rt.record.currentTaskRunId)` (1412)
   then fails that task. The run whose startup failed has no outcome and nothing left to give it one. The run that
   `continueStartup` forgets may also be a queued one that another agent's release sent to the worker during the launch:
   it is started and never settled. That takes two leases and three runs of one agent, and two properties stop short of
   it: `OwnerJoinsDescendants` speaks of the last run that a descendant started, for a forgotten one is left open when its
   owner's outcome is published; `StartedRunsEnd` excepts a run that nothing owns and whose agent is at a later one. At a
   later restart `replayJournal`, which keeps one lost run of an agent, the one started last, has several to choose from;
   so `JournalCarriesRuns` says that the running run is among the lost and not that it is the one kept.

   A crash in the same await loses a run as well. A run that a spawn launched directly is active from 2591, and no
   `task.queued` and no `generation.started` tell of it before 2608; `replayJournal` finds it neither lost nor queued and
   `recover` gives it no outcome, although `docs/ponygirls-subagents.md` 387-388 of the extension promises that "each lost
   run gets exactly one terminal outcome". A parked run, which has its `task.queued`, is queued again, although its
   prompt may have been under way. `JournalCarriesRuns` states both as its one exception, so a run that is active outside
   this await and missing from the journal violates it.
2. `LeasesAccounted`: the lease is "reacquired before the result returns" (3131-3132). After its await `childWait` asks
   whether a run is active (3151), not which. If the waiting run was interrupted and the next one has begun with a lease
   of its own, that lease is overwritten and never released: capacity shrinks for good.
3. `RunsHoldLeases`: "runnable capacity gates process launch" (2437). A parked start is granted a lease and its section
   is detached; the agent is interrupted before the section runs and sent a task, which uses the lease
   (`rt.runnableLease ?? ...`, 3558). The section finds nothing parked and releases the lease of the running task (1404).

`LeasesExclusive` and the other properties were chosen to be true of the code as it is; where one of these three limits
what a property can say, the property names the exception (`OwnerJoinsDescendants`, `StartedRunsEnd`,
`JournalCarriesRuns`) beside its definition. `NoIdleCapacity` and `OwnerJoinsDescendants` are about a supervisor that has not crashed: `recover` ends lost runs in
order of creation, owners first, and queued work of a restart waits for an explicit resume. Two smaller
observations: after a crash that left only accepted tasks `needsRecovery` (1238) is false, so the tasks are not
held for an explicit resume as `docs/ponygirls-subagents.md` 399-400 says, and `joinInterrupted` does not survive a crash.
In `supervisor.py` the comment at `_runtime_of` (1515) names one way to an unfinished record without a process; an outcome
that a shutdown gave up because of a storage failure is another, and `UnfinishedIsOwned` admits both.

**Bounds.** Jobs, claims and generations belong to one source and calls on different sources touch disjoint rows, so one
source shows every interleaving of the fence; search needs two. Two attempts give a first, a last and an exhausted one;
two batches give a job of which one half is stored; two ticks separate a live, an ageing and a lapsed lease; three epochs
allow write, removal and restore, and a rewrite of a published text. At the gate four callers make one working pair, one
waiter and one that is refused. For the collector a disturbance is an edit, a crash, a policy change or a failed
discovery; four of them make a lost reply, a crash and an edit under the next policy. Three requests make a request, its
successor and one after a drop; `Enqueue` waits when the bound is reached. Among subagents three agents make an owner, a
child and a grandchild or a competitor; two runs make a running and a queued one; one lease and one resident place make
every agent depend on another's release. The five properties of `subagents` were also checked by hand with two agents of
three runs each that both wait and both get tasks (1,007,656 states).

`StartedRunsEnd` deserves a word, for its exception needs more than `subagents_recovery` has: a run is forgotten only
with two leases and three runs, and a third agent whose release dispatches. It was therefore also checked by hand, as
`[]<>` of "every started run has ended, was forgotten, or belongs to a closed agent", with three agents without nesting,
three runs of the third, two leases, three residents and one trouble (360,000 states): it passes there, and without the
exception it is violated. What the run in the project adds is the crash, and the waiting for one another's places.

Two background tasks make one that closes while the other is spawned or
cleared; with one fault and one kill every durable step is the one that fails and the last one before a restart.

**Symmetry** is used for the workers and sources of the safety runs only; the liveness runs use none.

**Deadlock** is not checked: a bounded number of epochs, disturbances or requests lets the models stop, and a closed gate
with nobody inside is at rest.

**Fairness.** `Retrieval`: the clock runs on the lease of a job that nobody can renew; `run` polls for ever, so a claim
that is possible is made, in a moment when no row is locked; calls of a worker and of the provider end, for they have
time-outs. Nothing is assumed of the heartbeat, of success, or of the application. `Admission`: a caller inside `run`
goes on (waits are bounded by `queueTimeout`, work by the statement time-outs) and `close` wakes up once the `Deferred` is
complete. `Collector`: the service manager restarts the daemon, the daemon goes on, time passes and
`AbortSignal.timeout` ends every upload; no answer of the server is assumed. That suffices because a request that is
never answered stops after `maxAttempts` and is then reported as such. `Subagents`: the sections of the chain run (launch,
checkpoint and the join of `close` have time-outs), `wait_agent` has a time-out and a resolved promise continues, and a
worker that is let run again and again ends its run. Each condition is written out instead of using `WF`, since an action
is enabled exactly when its section is next. Nothing is assumed of commands, of success or of the absence of crashes.
`BgTasks` assumes nothing: that requests are answered is stated as an invariant, that a deadline is set or an observation
is at hand whenever an answer is owed.

## 4. What is proved

TLAPS proves these for every value of the constants that the assumptions of the modules allow.

**AdmissionProofs.** `TypeCorrect`, `CapacityConserved` and `ClosedQuiet` follow from the inductive invariant
`GateInv == TypeOK /\ CapacityIsConserved /\ DrainedIsEmpty`. `ClosedIsQuiet` is not inductive: it needs that a completed
`Deferred`, and a caller about to complete it, imply a closed gate with count 0, after which nobody can reserve. The
counting rests on two lemmas: a move of one caller changes a set of places by that caller only (`MoveChangesOne`), and so
changes its cardinality by one or not at all (`MoveCounts`). Assumptions: finitely many callers, at least one permit.

**RetrievalProofs.** `TypeCorrect` (with the extra conjunct that a source that was ever written has a version) has one
lemma per action. `Fenced` is `OneHolder`; it follows from `FenceInvariant`: a claim is never ahead of its source's epoch
(`ClaimsAreNotAhead`) nor of its job's fence (`FencesBoundClaims`), and no two workers have the same fence of the same job
(`FencesAreUnique`). The bound on epochs is needed because `put` creates the job of the next epoch with fence 0, which
must not be the job of any claim. All steps but `Claim` hand out no claim and lower neither an epoch nor a fence
(`GrowthKeepsFences`); `Claim` hands out a fence that is above all others. The assumption is `RetrievalAssumption`.

**RetrievalIndexProofs.** Every step is first sorted into one of five kinds (`StepKinds`): quiet, a rewrite, a removal,
a migration, the commit of a publication. The properties are then proved kind by kind and not action by action.
`LiveClaimsKept` needs the kinds alone: a quiet step gives a live lease up only by ending it (`JobMoves`), and the
migration refuses a profile with a live lease. The other four need `IndexInv`. `PublishedIsWhole` is not inductive, for
publish copies what `accept` stored: one has to know that the vectors a worker holds are those of its claim's text in
its claim's space (`EmbeddedFits`), that the stored ones are those of the current text and target (`StoredFits`), and
that the head chunks are the source's content (`HeadIsWritten`). `NotStranded` needs that the job of the current epoch
follows the head (`JobFollowsHead`). `SearchIsSound` is a consequence: where every visible source is published in one
space, every candidate of a leg is a published row in that space and every published row a candidate,
whatever the candidate window, `candidatesPerLeg`, lets through.

In the same module, `AcceptNeverConflicts` says of a holder only; the invariant `AcceptInv` must speak of a claim
that is not revoked but may be unable to use its source for a while (`NotRevoked`), for such a claim may become good
again. Batches start at multiples of the batch size (`BatchesAligned`), are stored whole or not at all (`WholeBatches`),
and the one being embedded is not stored (`BatchIsNew`). That another worker cannot have stored it meanwhile is `Fenced`.

**RetrievalRefinementProofs.** `Refinement` is `Spec => ImplementsAbstract`, which includes the abstract specification's
initial condition and steps (it has no fairness). A rewrite is an abstract write, a removal a withdrawal, a commit a
publication of the text written last, a migration a relabelling, and a quiet step a stutter. That a commit shows exactly
the written text is where `IndexInv` is used.

**CollectorProofs.** Spool, wire and archive are treated as one ledger, and the steps sorted by what they do to it: leave
it, reschedule, enqueue, drop, send, execute, acknowledge. `LedgerInv` says what ties the two sides together while a
message may be delivered at any time, any number of times: a request that is on the wire and not executed is the next
revision for both sides, the only one of its source and still queued unless dropped (`UnexecutedIsNext`); a queued one
that was executed is the archived revision (`ExecutedIsArchived`). With `OneRequestPerSource` this gives
`HeadFollowsArchive` and that no send can meet a conflict. The daemon's locals follow through the cycle: digests are of
the policy they are filed under, and of the cycle's policy once the sweep is over (`DigestsFollowPolicy`, from which
`OnlyAdmittedBytesLeave` follows); what is still to be uploaded may be (`UploadsAreReady`); an answer is about the request
being sent (`RepliesAreTrue`). Assumptions: `CollectorAssumption`; neither files nor sources need be finite.

**BgTasksProofs.** All eight properties of the run, for any number of tasks, faults and kills. The handlers are operators
on the supervisor's memory, so there is a lemma for each handler (what it touches, what it leaves well) and one for each
action. The invariant is per task: what the runtime believes is true of the processes, deadlines are set where the stage
needs one, and a waiting terminate has one or a settled group (`RuntimeOK`); the record is true and has its log, in memory
and on disk alike (`RecordOK`); an outcome in memory is on disk or being cleared there (`TaskOK`, without which a torn
commit and a restart could replace an outcome); nothing is known of a task that still waits for its launch (`FreshTask`,
`QueueOK`); and a record that is being cleared in memory is so on disk, or gone there together with its log
(`ClearingOK`), which is why `clear` may go on without a second commit of its intent. The records of other tasks come in because a commit writes the whole registry: after a lost commit the next
one of any task writes them again, so `Touches` admits that the disk gets what memory has. `TerminatesAreAnswered` and
`SpawnsAreAnswered` also need that an observation acts (`ObservationsAct`): a handler that finds something to do does
change the memory.

**Folding and SubagentsProofs.** The supervisor's handlers are operators from heaps to heaps, and its loops (`ForEach`,
`SettleQueued`, `ResumeOwners`, `Keep`, the loops of `recover`) are recursive functions. The provers cannot instantiate
an induction theorem that takes an operator; `Folding` has the loop's step and the property as constants instead, proves
by the least counterexample that a property which every step carries on holds at the end (`FoldKeeps`), and is
instantiated once per loop. The invariant `SupInv` ties the heap to the facts that are written, agent by agent (`RunOK`):
which lives, runs, outcomes and generations the journal has (`LifeOK`, `RunsOK`, `GenOK`), that a queued run is accepted
and neither started nor ended (`QueueOK`), that the run an agent holds is the last one started, not ended, and settled
only when the agent joins its descendants (`HeldOK`; between its activation and the worker's answer to
`initialize` it may be a first run that no fact says was started), and that these are exclusive (`OnePhase`). A handler appends several
facts before its step ends, and a crash may keep any prefix of them, so a heap in the middle of a handler is `Fine` when
it agrees with the facts so far and every prefix of them is a journal (`Unbroken`, `JournalOK`). There is one lemma per
operator (it keeps a heap `Fine`, and which fields it leaves alone), one per action, and for the restart the lemma
that `Replay` makes a fine heap of any such journal (`ReplayFine`). A supervisor that has yet to recover is exactly
what the journal makes it (`Recovering`); any other has nothing left to recover. From `SupInvariant` follow `TypeOK`,
`LeasesExclusive`, `OneGenerationAtATime`, `QuarantineHolds`, `OutcomeIsFinal` and `JournalCarriesRuns`, for any numbers of
agents, runs, leases, residents, troubles and crashes. The assumption is `SubagentsAssumption`.

The inductive invariants `IndexInv`, `AcceptInv`, `CollectorInv`, `SupervisorInv` and the parts of `SupInv` also pass TLC on the instances of section 3.

**Only model-checked.** Liveness (`EventuallySettled`, `CloseReturns`, `EventuallyArchived`, `StartedRunsEnd`,
`QueueDrains`) and statements about `ENABLED`, which are out of the prover's reach. Of `Subagents` two safety properties:
`NoIdleCapacity`, which speaks of what a pump has tried for every agent, and `OwnerJoinsDescendants`, which speaks of the
order of the facts of a whole tree within one step; `SupInv` says nothing of one agent's runs in terms of another's,
which both would need. That `BgTasks`' requests are finally answered is not a theorem either: what is proved is that
something the loop wakes for is always at hand.

## 5. Limits

- `Retrieval`: which rows the candidate window of a semantic query lets through, so that nothing is said of recall (an
  answer may miss rows that were published, as the library's README says of the approximate index); ranking, lexical search, attributes and text encodings; all workers use one batch size.
- `Collector`: one endpoint; progress reports, diagnostics and counters; the order of files within a scan is any order;
  `mtime` is no part of the observed fingerprint, which only makes a file quiet sooner. `EventuallyArchived` is checked for
  one file: with several, `maxScanBytes` may starve the later ones, as the hazard list says.
- `Subagents`: `MayWait` and `MayGetTasks` keep the instances small; `StartedRunsEnd` and `QueueDrains` are checked with
  two agents. A crash ends the workers with the supervisor.
- `BgTasks`: the socket mode of the control connection only; in TLC's run two tasks, one fault and one kill per
  behaviour, which the proofs do not bound.
- The mutants stand in the modules next to the definitions they change and are used by no action.

Hazards known and not covered by a property, besides those in `PROJECT.json`: a Failed retrieval job is terminal for its
epoch (`PostgresRetrieval.scala` 204, intended); workers with different batch sizes share a job (`IndexingWorker.scala`
18); the heads of the spool are not bound to the endpoint (`collector.ts` 19); an unchanging prefix of files larger than
`maxScanBytes` starves the rest (`collector.ts` 136); a progress report is acknowledged late (`spool.ts` 169); the lease
of a Chronicle job runs out during a large publication (`Database.scala` 306); a subagent notice fails three times
(`notice-delivery.ts` 89); a reply of a superseded socket arrives (`manager.ts` 172).

**Not modelled.** Most of the repository's lines are generated codecs, user interfaces, queries, configuration and
packaging, which have no state worth a model. What has, and is still left out: Chronicle's index jobs and Haystack's
commits (transactions over SQL that follow the pattern of `Retrieval`), the notices of both extensions, the gates and
reviewers of subagents, the JDBC gate and engine, and the web transport. They come next, in this order:

## 6. Plan

1. Gated runs of subagents: candidate, review and repair, on top of `Subagents`.
2. Notices: the background tasks' events and receipts over `BgTasks`' outcomes, and the subagents' cursor pump.
3. The Chronicle index jobs with owner targets and cohorts, composed with `Collector`'s archive; collector progress.
4. An abstract gate, implemented by `Admission` and by a model of `BlockingJdbcDatabase`; the transaction engine and
   `Migration.applyAll` with two processes starting.
5. Haystack's commit and replay, over the promise of `RetrievalAbs`; the web transport.
6. Proofs of `NoIdleCapacity` and `OwnerJoinsDescendants`, from an invariant that relates the agents of a tree.
