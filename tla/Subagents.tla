------------------------------ MODULE Subagents ------------------------------
(***************************************************************************)
(* The supervisor of Pi subagents: a tree of agents, each with a queue of  *)
(* task runs, sharing runnable leases and resident worker processes, and a *)
(* journal from which a restarted supervisor rebuilds them.                *)
(*                                                                         *)
(* JavaScript is single threaded, so a handler's synchronous part is one   *)
(* step, and `sup' is the heap it works on: releasing a lease pumps every  *)
(* agent, publishing an outcome dispatches the next run and resumes the    *)
(* owners that waited for it, all before control returns.  Handlers are    *)
(* operators from heaps to heaps.  Commands and worker events queue on one *)
(* promise chain (serialized); a launch or an interrupt keeps it busy.     *)
(* Sections a handler detaches (jobs) run in order; a command or an event  *)
(* that was on the chain before them runs first, so any may, except what a *)
(* later section caused (after).  wait_agent does not use the chain, and   *)
(* promise continuations that are ready (Ready) run before anything else.  *)
(*                                                                         *)
(* Agents are numbered in order of creation, runs of an agent in order of  *)
(* acceptance.  Gated runs and reviewers, storage faults, billing and      *)
(* external tools are left out.                                            *)
(***************************************************************************)
EXTENDS Naturals, Sequences, FiniteSets, SequencesExt

CONSTANTS
  MaxAgents,           \* bound: agents ever created
  MaxRuns,             \* bound: task runs of one agent
  maxRunnable,         \* SchedulerLimits
  maxResidentWorkers,  \* SchedulerLimits
  MayNest,             \* agents whose grants let them spawn
  MayWait,             \* agents that call wait_agent
  MayGetTasks,         \* agents that are sent further tasks
  MaxTrouble,          \* bound: interrupts, closes, worker exits and failed launches
  MaxCrashes           \* bound: supervisor crashes

ASSUME SubagentsAssumption ==
  /\ {MayNest, MayWait, MayGetTasks} \subseteq SUBSET Nat
  /\ MaxAgents \in Nat \ {0} /\ MaxRuns \in Nat \ {0} /\ MaxTrouble \in Nat /\ MaxCrashes \in Nat
  /\ maxRunnable \in Nat \ {0} /\ maxResidentWorkers \in Nat \ {0}

Agents == 1 .. MaxAgents
Runs == 1 .. MaxRuns
Outcomes == {"succeeded", "failed", "interrupted", "uncertain"}
NoJoin == <<0, "none">>
Idle == <<"idle", 0>>

VARIABLES
  sup,       \* the supervisor's heap
  journal,   \* durable facts
  tail,      \* facts appended by the last step, in order
  trouble, crashes

vars == <<sup, journal, tail, trouble, crashes>>

Each(x) == [a \in Agents |-> x]

(* An operator whose comment starts with "Mutant" is a plausible slip in the definition below  *)
(* it; nothing here uses it.                                                                   *)

(* newRuntime of every agent, in a supervisor that owns nothing yet. *)
NewHeap ==
  [parent |-> Each(0), life |-> Each("absent"), made |-> Each(0), cur |-> Each(0), gen |-> Each(0),
   active |-> Each(0), intr |-> Each(FALSE), queue |-> Each(<<>>), parked |-> Each(FALSE),
   join |-> Each(NoJoin), joinInterrupted |-> Each(FALSE), done |-> Each([n \in Runs |-> "none"]),
   worker |-> Each(FALSE), ckpt |-> Each(FALSE), resident |-> Each(FALSE), lease |-> Each(0),
   wait |-> Each("none"), grant |-> Each(0), held |-> Each(FALSE), quarantined |-> Each(FALSE),
   lost |-> Each(0), pendingSettle |-> Each(NoJoin), jobs |-> <<>>, after |-> Each(0), leases |-> {},
   closes |-> {}, waiters |-> <<>>, chain |-> Idle, walks |-> {}, suspended |-> FALSE, log |-> <<>>]

-----------------------------------------------------------------------------
(* The journal and the tree *)

Append1(m, fact) == [m EXCEPT !.log = Append(@, fact)]

(* detached: the section joins the chain; a second load of an agent finds nothing left to do. *)
Detach(m, job) == IF job \in Range(m.jobs) THEN m ELSE [m EXCEPT !.jobs = Append(@, job)]
TakeJob(m) == [m EXCEPT !.jobs = Tail(@), !.after = [a \in Agents |-> IF @[a] = 0 THEN 0 ELSE @[a] - 1]]

Ancestors(m, a) ==
  LET anc[d \in 0 .. MaxAgents] ==
        IF d = 0 \/ m.parent[d] = 0 THEN {} ELSE {m.parent[d]} \cup anc[m.parent[d]]
  IN anc[a]
Tree(m) == {d \in Agents : m.life[d] # "absent"}
Descendants(m, a) == {d \in Tree(m) : a \in Ancestors(m, d)}
Subtree(m, a) == {d \in Tree(m) : d = a \/ a \in Ancestors(m, d)}

(* Mutant: running descendants are not joined. *)
ActiveDescendantsNotRunning(m, a) == {d \in Descendants(m, a) : m.parked[d] \/ m.join[d] # NoJoin}

ActiveDescendants(m, a) ==
  {d \in Descendants(m, a) : m.active[d] # 0 \/ m.parked[d] \/ m.join[d] # NoJoin}

(* Op(heap, agent) for every agent of the set, in order of creation. *)
ForEach(m, set, Op(_, _)) ==
  LET f[k \in 0 .. MaxAgents] ==
        IF k = 0 THEN m ELSE IF k \in set THEN Op(f[k - 1], k) ELSE f[k - 1]
  IN f[MaxAgents]

(* Array.filter: the elements of s in S, in their order (a fold, to be reasoned about as ForEach is). *)
Keep(s, S) ==
  LET f[k \in 0 .. Len(s)] ==
        IF k = 0 THEN <<>> ELSE IF s[k] \in S THEN Append(f[k - 1], s[k]) ELSE f[k - 1]
  IN f[Len(s)]

-----------------------------------------------------------------------------
(* AdmissionScheduler: runnable leases and their queue *)

HasRunnableCapacity(m) == m.waiters = <<>> /\ Cardinality(m.leases) < maxRunnable
NewLease(m) == CHOOSE i \in 1 .. maxRunnable : i \notin m.leases

(* tryAcquireRunnable, where there is capacity. *)
Acquire(m, a) == [m EXCEPT !.lease[a] = NewLease(m), !.leases = @ \cup {NewLease(m)}]

(* release: the ticket's slot goes to the first waiter, whose promise is then resolved. *)
ReleaseLease(m, l) ==
  LET freed == [m EXCEPT !.leases = @ \ {l}]
  IN IF l \notin m.leases \/ m.waiters = <<>> \/ Cardinality(freed.leases) >= maxRunnable THEN freed
     ELSE LET w == Head(m.waiters)
          IN [freed EXCEPT !.waiters = Tail(@), !.leases = @ \cup {NewLease(freed)},
                           !.wait[w] = "granted", !.grant[w] = NewLease(freed)]

(* acquireRunnableQueued: at once, or by joining the queue. *)
AcquireQueued(m, a) ==
  IF HasRunnableCapacity(m)
  THEN [m EXCEPT !.wait[a] = "granted", !.grant[a] = NewLease(m), !.leases = @ \cup {NewLease(m)}]
  ELSE [m EXCEPT !.wait[a] = "queued", !.waiters = Append(@, a)]

(* leaseWaitCancel: a queued waiter leaves; one already granted is past cancelling. *)
CancelLeaseWait(m, a) ==
  IF m.wait[a] = "queued"
  THEN [m EXCEPT !.wait[a] = "none", !.waiters = Keep(@, Agents \ {a})] ELSE m

-----------------------------------------------------------------------------
(* Dispatch *)

(* Mutant: an owner that joins its descendants is not locked. *)
PhaseLockedBySettlement(m, a) == m.pendingSettle[a] # NoJoin

PhaseLocked(m, a) == m.join[a] # NoJoin \/ m.pendingSettle[a] # NoJoin

(* Mutant: generation.started is not published. *)
DispatchUnpublished(m, a) ==
  [m EXCEPT !.queue[a] = Tail(@), !.cur[a] = Head(m.queue[a]), !.active[a] = Head(m.queue[a]), !.gen[a] = @ + 1]

Dispatch(m, a) ==
  LET n == Head(m.queue[a])
  IN Append1([m EXCEPT !.queue[a] = Tail(@), !.cur[a] = n, !.active[a] = n, !.intr[a] = FALSE,
                       !.gen[a] = @ + 1, !.after[a] = Len(m.jobs)],
             <<"started", a, n, m.gen[a] + 1>>)

(* Mutant: an unloaded agent is not loaded for its queue. *)
PumpQueueLoaded(m, a) ==
  IF \/ m.active[a] # 0 \/ m.held[a] \/ m.life[a] # "open" \/ m.quarantined[a] \/ PhaseLocked(m, a)
     \/ m.suspended \/ m.lost[a] # 0 \/ m.parked[a] \/ m.queue[a] = <<>> \/ ~m.worker[a]
  THEN m
  ELSE IF m.lease[a] # 0 THEN Dispatch(m, a)
  ELSE IF HasRunnableCapacity(m) THEN Dispatch(Acquire(m, a), a) ELSE m

(* pumpQueue: the next accepted run of a loaded idle agent, or a load for it. *)
PumpQueue(m, a) ==
  IF \/ m.active[a] # 0 \/ m.held[a] \/ m.life[a] # "open" \/ m.quarantined[a] \/ PhaseLocked(m, a)
     \/ m.suspended \/ m.lost[a] # 0 \/ m.parked[a] \/ m.queue[a] = <<>>
  THEN m
  ELSE IF ~m.worker[a] THEN Detach(m, <<"load", a>>)
  ELSE IF m.lease[a] # 0 THEN Dispatch(m, a)
  ELSE IF HasRunnableCapacity(m) THEN Dispatch(Acquire(m, a), a) ELSE m

(* pumpRunnable: every branch needs capacity, so the scan may end where it runs out. *)
PumpAgent(m, a) ==
  IF ~HasRunnableCapacity(m) \/ m.life[a] # "open" \/ m.quarantined[a] THEN m
  ELSE IF m.parked[a] /\ m.active[a] = 0 /\ ~m.worker[a] /\ m.lease[a] = 0
       THEN Detach(Acquire(m, a), <<"start", a>>)
  ELSE PumpQueue(m, a)

PumpRunnable(m) == IF m.suspended THEN m ELSE ForEach(m, Agents, PumpAgent)

(* Mutants: freed capacity starts nothing; the agent keeps the ticket it released. *)
ReleaseTicketQuietly(m, l) == IF l = 0 THEN m ELSE ReleaseLease(m, l)

ReleaseTicket(m, l) == IF l = 0 THEN m ELSE PumpRunnable(ReleaseLease(m, l))
ReleaseRunnableKeeping(m, a) == ReleaseTicket(m, m.lease[a])
ReleaseRunnable(m, a) == ReleaseTicket([m EXCEPT !.lease[a] = 0], m.lease[a])
ReleaseResident(m, a) ==
  IF m.resident[a] THEN PumpRunnable([m EXCEPT !.resident[a] = FALSE]) ELSE m

(* evictOneIdle: settled agents first. *)
Residents(m) == {a \in Agents : m.resident[a]}
Evictable(m) ==
  {a \in Residents(m) : m.worker[a] /\ m.active[a] = 0 /\ ~m.parked[a] /\ ~m.ckpt[a] /\ m.queue[a] = <<>>}
Victim(m) ==
  LET settled == {a \in Evictable(m) : m.join[a] = NoJoin}
      from == IF settled # {} THEN settled ELSE Evictable(m)
  IN CHOOSE a \in from : \A b \in from : a <= b
Unload(m, a) == ReleaseResident(ReleaseRunnable([m EXCEPT !.worker[a] = FALSE], a), a)
(* Mutant: one resident worker too many. *)
ResidentCapacityOffByOne(m) == Cardinality(Residents(m)) <= maxResidentWorkers

ResidentCapacity(m) == Cardinality(Residents(m)) < maxResidentWorkers
CanReside(m) == ResidentCapacity(m) \/ Evictable(m) # {}
AcquireResident(m, a) ==
  [IF ResidentCapacity(m) THEN m ELSE Unload(m, Victim(m)) EXCEPT !.resident[a] = TRUE]

-----------------------------------------------------------------------------
(* Settlement *)

IsTerminal(m, a, n) == m.done[a][n] # "none"

(* Mutant: the run stays in the queue. *)
PublishKeepingQueue(m, a, n, o) ==
  IF IsTerminal(m, a, n) THEN m
  ELSE PumpQueue(Append1([m EXCEPT !.done[a][n] = o], <<"terminal", a, n, o>>), a)

(* settleTaskTerminal without its last line: the outcome, once, then the next run. *)
Publish(m, a, n, o) ==
  IF IsTerminal(m, a, n) THEN m
  ELSE PumpQueue(Append1([m EXCEPT !.done[a][n] = o, !.queue[a] = Keep(@, Runs \ {n})],
                         <<"terminal", a, n, o>>), a)

(* The continuation that finalizeGeneration installs in afterDescendants. *)
Continue(m, a) ==
  LET n == m.join[a][1]
      o == IF m.joinInterrupted[a] /\ m.join[a][2] = "succeeded" THEN "interrupted" ELSE m.join[a][2]
  IN Publish([m EXCEPT !.join[a] = NoJoin, !.joinInterrupted[a] = FALSE], a, n, o)

(* resumeOwnerAfterDescendant: nearest owner first. *)
ResumeOwner(m, owners, p) ==
  IF p \in owners /\ m.join[p] # NoJoin /\ ActiveDescendants(m, p) = {} THEN Continue(m, p) ELSE m

ResumeOwners(m, a) ==
  LET up[k \in 0 .. MaxAgents] ==
        IF k = 0 THEN m ELSE ResumeOwner(up[k - 1], Ancestors(m, a) \cap Agents, MaxAgents + 1 - k)
  IN up[MaxAgents]

SettleTerminal(m, a, n, o) ==
  IF IsTerminal(m, a, n) THEN m ELSE ResumeOwners(Publish(m, a, n, o), a)

SettleQueued(m, a, o) ==
  LET f[k \in 0 .. MaxRuns] ==
        IF k = 0 THEN m
        ELSE IF k \in Range(m.queue[a]) THEN SettleTerminal(f[k - 1], a, k, o) ELSE f[k - 1]
  IN f[MaxRuns]

(* interruptSubtree of one agent: its run is marked, its waits end, a parked start is over. *)
InterruptOne(m, a) ==
  LET marked == [m EXCEPT !.intr[a] = m.active[a] # 0, !.joinInterrupted[a] = @ \/ m.join[a] # NoJoin,
                          !.after[a] = IF m.wait[a] = "none" THEN @ ELSE Len(m.jobs)]
      woken == CancelLeaseWait([marked EXCEPT !.wait[a] = IF @ = "waiting" THEN "resuming" ELSE @], a)
  IN IF ~m.parked[a] THEN woken
     ELSE SettleTerminal(ReleaseResident([woken EXCEPT !.parked[a] = FALSE], a), a, m.cur[a], "interrupted")

(* interruptSubtree, the rest.  A walk <<by, w>> waits at agent w[1], whose jobs and worker it   *)
(* has told to stop, and will then look at the children of w[1] and at the rest of w, stopping *)
(* at the first that runs or is parked.  A close stops at every agent of its subtree; a walk   *)
(* that finalizeGeneration detached does not keep the chain (twins of it count as one).        *)
InOrder(S) == Keep([n \in Agents |-> n], S)
Stoppable(m, d) == m.active[d] # 0 \/ m.parked[d]
Onward(m, walk) ==
  LET ahead == InOrder({d \in Tree(m) : m.parent[d] = walk[2][1]}) \o Tail(walk[2])
  IN IF walk[1] = "close" THEN Tail(walk[2])
     ELSE SubSeq(ahead, SelectInSeq(ahead \o <<0>>, LAMBDA d : d = 0 \/ Stoppable(m, d)), Len(ahead))

(* The next agent of the walk, and its end. *)
WalkOn(m, walk) ==
  InterruptOne([m EXCEPT !.walks = (@ \ {walk}) \cup {<<walk[1], Onward(m, walk)>>}], Onward(m, walk)[1])
WalkEnds(m, walk) ==
  [m EXCEPT !.walks = @ \ {walk},
            !.chain = IF walk[1] # "detached" /\ @[1] \in {"interrupt", "close"} THEN Idle ELSE @,
            !.closes = IF walk[1] = "close" THEN @ \cup {m.chain[2]} ELSE @]

(* finalizeGeneration: the barrier is installed before the lease is released, since that   *)
(* pumps this agent too; descendants are interrupted and joined before the outcome is out. *)
Finalize(m, a, status) ==
  IF m.active[a] = 0 THEN m
  ELSE LET n == m.active[a]
           o == IF m.intr[a] /\ status # "uncertain" THEN "interrupted" ELSE status
           m1 == Append1([m EXCEPT !.active[a] = 0, !.intr[a] = FALSE, !.ckpt[a] = m.worker[a], !.join[a] = <<n, o>>,
                                   !.after[a] = Len(m.jobs)],
                         <<"settled", a, n, o>>)
           m2 == ReleaseRunnable(m1, a)
           below == ActiveDescendants(m2, a)
       IN IF below # {}
          THEN ForEach([m2 EXCEPT !.walks = @ \cup {<<"detached", <<d>>>> : d \in below}], below, InterruptOne)
          ELSE ResumeOwners(Continue(m2, a), a)

-----------------------------------------------------------------------------
(* Steps *)

(* Ready: agents whose wait_agent has a resolved promise to act on. *)
Ready == {a \in Agents : sup.wait[a] \in {"resuming", "granted"}}
Free == Ready = {} /\ sup.chain = Idle
NextJob(job) == Free /\ sup.jobs # <<>> /\ Head(sup.jobs) = job

(* A step leaves heap m; what it appended is the new tail. *)
Step(m) ==
  /\ sup' = [m EXCEPT !.log = <<>>]
  /\ tail' = m.log
  /\ journal' = journal \cup Range(tail)

Calm == UNCHANGED <<trouble, crashes>>
Troubled == trouble < MaxTrouble /\ trouble' = trouble + 1 /\ UNCHANGED crashes

Running(a) == sup.active[a] # 0 /\ sup.worker[a] /\ ~sup.ckpt[a] /\ sup.chain[2] # a
CanCall(a) == Running(a) /\ ~sup.intr[a] /\ sup.wait[a] = "none"
NextAgent == CHOOSE a \in Agents : sup.life[a] = "absent" /\ \A b \in 1 .. a - 1 : sup.life[b] # "absent"

(* spawn and startWorker: launched with a lease, or parked without one. *)
Spawn(p) ==
  LET a == NextAgent
      born == Append1([AcquireResident(sup, a) EXCEPT
                         !.parent[a] = p, !.life[a] = "open", !.made[a] = 1, !.cur[a] = 1, !.gen[a] = 1],
                      <<"spawned", a, p>>)
  IN /\ Free /\ \E x \in Agents : sup.life[x] = "absent"
     /\ p = 0 \/ (p \in Agents \cap MayNest /\ CanCall(p) /\ sup.after[p] = 0 /\ sup.life[p] = "open")
     /\ CanReside(sup)
     /\ Step(IF HasRunnableCapacity(born)
             THEN [Acquire(born, a) EXCEPT !.worker[a] = TRUE, !.chain = <<"startup", a>>]
             ELSE Append1([born EXCEPT !.parked[a] = TRUE], <<"accepted", a, 1>>))
     /\ Calm

(* The section pumpRunnable detached for a parked start. *)
StartParked(a) ==
  /\ NextJob(<<"start", a>>)
  /\ LET m == TakeJob(sup)
     IN Step(IF ~m.parked[a] \/ m.life[a] # "open" THEN ReleaseRunnable(m, a)
             ELSE [m EXCEPT !.parked[a] = FALSE, !.worker[a] = TRUE, !.chain = <<"startup", a>>])
  /\ Calm

(* continueStartup after launchWorker: the current run is active from here, the worker is    *)
(* told to initialize, and nothing is journalled before it has answered.                     *)
Launched(a) ==
  /\ Ready = {} /\ sup.chain = <<"startup", a>>
  /\ Step([sup EXCEPT !.chain = <<"initialize", a>>, !.active[a] = sup.cur[a], !.intr[a] = FALSE])
  /\ Calm

(* The worker has answered initialize. *)
Started(a) ==
  /\ Ready = {} /\ sup.chain = <<"initialize", a>>
  /\ Step(Append1([sup EXCEPT !.chain = Idle, !.after[a] = Len(sup.jobs)],
                  <<"started", a, sup.cur[a], sup.gen[a]>>))
  /\ Calm

(* startupFailed ends the current run; a spawn names its first, and nothing is queued for an   *)
(* agent before its spawn is over.                                                             *)
LoseStartup(m, a) ==
  LET ended == [ReleaseResident(ReleaseRunnable([m EXCEPT !.worker[a] = FALSE], a), a) EXCEPT !.active[a] = 0]
  IN SettleTerminal(ended, a, ended.cur[a], "failed")

LaunchFailed(a) ==
  /\ Ready = {} /\ sup.chain = <<"startup", a>> /\ Troubled
  /\ Step(LoseStartup(ReleaseRunnable([sup EXCEPT !.chain = Idle, !.worker[a] = FALSE], a), a))

(* An initialize that failed forgets the run and releases the lease while the worker is still  *)
(* bound, so the pump may dispatch to it.                                                      *)
InitializeFailed(a) ==
  /\ Ready = {} /\ sup.chain = <<"initialize", a>> /\ Troubled
  /\ Step(LoseStartup(ReleaseRunnable([sup EXCEPT !.chain = Idle, !.active[a] = 0], a), a))

(* reloadAgent up to its launch, for a task (load) or for dispatchPending (resume). *)
Reload(m, a, why) ==
  [AcquireResident(m, a) EXCEPT !.worker[a] = TRUE, !.chain = <<why, a>>]

(* Mutant: a quarantined agent is reloaded. *)
MayReloadQuarantined(m, a) == m.life[a] = "open" /\ m.lost[a] = 0

MayReload(m, a) == m.life[a] = "open" /\ ~m.quarantined[a] /\ m.lost[a] = 0

(* loadForQueue: without resident capacity the work stays queued. *)
LoadForQueue(m, a) ==
  IF m.worker[a] \/ m.queue[a] = <<>> THEN PumpQueue(m, a)
  ELSE IF ~MayReload(m, a) THEN SettleQueued(m, a, "failed")
  ELSE IF CanReside(m) THEN Reload(m, a, "load") ELSE m

Load(a) == NextJob(<<"load", a>>) /\ Step(LoadForQueue(TakeJob(sup), a)) /\ Calm

Reloaded(a) ==
  /\ Ready = {} /\ sup.chain \in {<<"load", a>>, <<"resume", a>>}
  /\ Step(PumpQueue([sup EXCEPT !.chain = Idle], a))
  /\ Calm

ReloadFailed(a) ==
  /\ Ready = {} /\ sup.chain \in {<<"load", a>>, <<"resume", a>>} /\ Troubled
  /\ LET down == ReleaseResident([sup EXCEPT !.chain = Idle, !.worker[a] = FALSE], a)
     IN Step(IF sup.chain[1] = "load" THEN SettleQueued(down, a, "failed") ELSE down)

(* sendMessage mode=task, by the governing session or a relative. *)
SendTask(a) ==
  LET n == sup.made[a] + 1
      taken == Append1([sup EXCEPT !.made[a] = n, !.queue[a] = Append(@, n), !.held[a] = FALSE],
                       <<"accepted", a, n>>)
  IN /\ Free /\ sup.life[a] = "open" /\ a \in MayGetTasks /\ n \in Runs
     /\ sup.lost[a] = 0 /\ ~sup.quarantined[a]
     /\ Step(IF sup.active[a] # 0 \/ sup.parked[a] \/ PhaseLocked(sup, a) THEN taken
             ELSE LoadForQueue(taken, a))
     /\ Calm

(* dispatchPending: the chosen run goes first, even if the reload is refused.  Its callers *)
(* resume what a restart left.                                                             *)
DispatchPending(a, n) ==
  /\ Free /\ crashes > 0 /\ ~sup.parked[a]
  /\ sup.active[a] = 0 /\ n \in Range(sup.queue[a])
  /\ LET m == [sup EXCEPT !.held[a] = FALSE, !.queue[a] = <<n>> \o Keep(@, Runs \ {n})]
     IN Step(IF m.worker[a] THEN PumpQueue(m, a)
             ELSE IF MayReload(m, a) /\ CanReside(m) THEN Reload(m, a, "resume") ELSE m)
  /\ Calm

(* The worker's settled event, or a delivery that failed. *)
Settled(a, status) ==
  /\ Free /\ sup.active[a] # 0 /\ sup.after[a] = 0
  /\ sup.wait[a] = "none" \/ sup.intr[a]
  /\ status = "failed" \/ Running(a)
  /\ Step(Finalize(sup, a, status))
  /\ Calm

(* onWorkerExit *)
WorkerExit(a) ==
  /\ Free /\ sup.worker[a] /\ Troubled
  /\ LET gone == [sup EXCEPT !.worker[a] = FALSE, !.wait[a] = IF @ = "waiting" THEN "resuming" ELSE @]
     IN \E status \in {"failed", "uncertain"} :
          Step(ReleaseResident(Finalize(CancelLeaseWait(gone, a), a, status), a))

(* captureCheckpoint is over, well or not. *)
Checkpointed(a) ==
  /\ Free /\ sup.ckpt[a] /\ sup.after[a] = 0
  /\ Step(PumpRunnable([sup EXCEPT !.ckpt[a] = FALSE]))
  /\ Calm

(* childWait up to its await; it is not on the chain. *)
WaitAgent(a) ==
  /\ Ready = {} /\ a \in MayWait /\ CanCall(a)
  /\ Step(ReleaseRunnable([sup EXCEPT !.wait[a] = "waiting"], a))
  /\ Calm

(* Its wait ends by a time-out, an event or an interrupt; then it wants its lease back. *)
WaitEnds(a) ==
  /\ sup.wait[a] = "resuming" \/ (Ready = {} /\ sup.wait[a] = "waiting")
  /\ Step(AcquireQueued(sup, a))
  /\ Calm

(* The continuation of `await ticket'. *)
LeaseGranted(a) ==
  /\ sup.wait[a] = "granted"
  /\ LET m == [sup EXCEPT !.wait[a] = "none", !.grant[a] = 0]
     IN Step(IF sup.active[a] # 0 /\ sup.life[a] = "open" THEN [m EXCEPT !.lease[a] = sup.grant[a]]
             ELSE ReleaseTicket(m, sup.grant[a]))
  /\ Calm

Interrupt(a) ==
  /\ Free /\ sup.life[a] # "absent" /\ Troubled
  /\ Stoppable(sup, a) \/ sup.join[a] # NoJoin \/ ActiveDescendants(sup, a) # {}
  /\ Step(InterruptOne([sup EXCEPT !.chain = <<"interrupt", 0>>, !.walks = @ \cup {<<"interrupt", <<a>>>>}], a))

(* close, first section: the whole subtree is closed, then interrupted. *)
Close(a) ==
  /\ Free /\ sup.life[a] = "open" /\ Troubled
  /\ LET closed == [sup EXCEPT !.chain = <<"close", a>>,
                      !.walks = @ \cup {<<"close", InOrder(Subtree(sup, a))>>},
                      !.life = [d \in Agents |-> IF d \in Subtree(sup, a) /\ @[d] = "open" THEN "closing" ELSE @[d]]]
     IN Step(InterruptOne(closed, a))

(* The workers' answers to interrupt, and the ends of cancelled jobs, have time-outs. *)
InterruptNext(walk, a) ==
  /\ Onward(sup, walk) # <<>> /\ a = Onward(sup, walk)[1]
  /\ Step(WalkOn(sup, walk))
  /\ Calm
InterruptOver(walk) ==
  /\ Onward(sup, walk) = <<>>
  /\ Step(WalkEnds(sup, walk))
  /\ Calm

Retire(m, a) ==
  IF m.life[a] = "closed" THEN m
  ELSE LET n == m.active[a]
           down == [m EXCEPT !.life[a] = "closing", !.worker[a] = FALSE, !.parked[a] = FALSE, !.active[a] = 0]
           ended == IF n = 0 THEN down
                    ELSE SettleTerminal(Append1(down, <<"settled", a, n, "interrupted">>), a, n, "interrupted")
           bare == ReleaseResident(ReleaseRunnable(SettleQueued(ended, a, "interrupted"), a), a)
       IN Append1([bare EXCEPT !.life[a] = "closed"], <<"closed", a>>)

(* awaitIdle found the subtree stopped, or gave up; it is not on the chain. *)
AwaitIdle(a) ==
  /\ Ready = {} /\ a \in sup.closes
  /\ Step(Detach([sup EXCEPT !.closes = @ \ {a}], <<"retire", a>>))
  /\ Calm

(* close, last section *)
RetireSubtree(a) ==
  /\ NextJob(<<"retire", a>>)
  /\ Step(ForEach(TakeJob(sup), Subtree(sup, a), Retire))
  /\ Calm

-----------------------------------------------------------------------------
(* Restart *)

(* What the facts J say of agent a and its run n. *)
Is(J, kind, a) == \E f \in J : f[1] = kind /\ f[2] = a
Has(J, kind, a, n) == \E f \in J : f[1] = kind /\ f[2] = a /\ f[3] = n
Outcome(J, kind, a, n) == (CHOOSE f \in J : f[1] = kind /\ f[2] = a /\ f[3] = n)[4]
Accepted(J, a, n) == Has(J, "accepted", a, n) \/ (n = 1 /\ Is(J, "spawned", a))
Starts(J, a) == {f \in J : f[1] = "started" /\ f[2] = a}
LatestOf(S) == CHOOSE f \in S : \A g \in S : g[4] <= f[4]
LastStart(J, a) ==
  IF Starts(J, a) # {} THEN LatestOf(Starts(J, a))
  ELSE IF Is(J, "spawned", a) THEN <<"started", a, 1, 1>> ELSE <<"started", a, 0, 0>>
LostRuns(J, a) ==
  {n \in Runs : ~Is(J, "closed", a) /\ Has(J, "started", a, n) /\ ~Has(J, "settled", a, n) /\ ~Has(J, "terminal", a, n)}
Unfinished(J, a) ==
  LET n == LastStart(J, a)[3]
  IN IF Is(J, "closed", a) \/ LostRuns(J, a) # {} \/ n = 0 \/ Has(J, "terminal", a, n) \/ ~Has(J, "settled", a, n)
     THEN NoJoin ELSE <<n, Outcome(J, "settled", a, n)>>

(* replayJournal *)
Replay(J) ==
  [NewHeap EXCEPT
     !.parent = [a \in Agents |-> IF Is(J, "spawned", a) THEN (CHOOSE f \in J : f[1] = "spawned" /\ f[2] = a)[3] ELSE 0],
     !.life = [a \in Agents |->
        IF ~Is(J, "spawned", a) THEN "absent" ELSE IF Is(J, "closed", a) THEN "closed" ELSE "open"],
     !.made = [a \in Agents |-> Cardinality({n \in Runs : Accepted(J, a, n)})],
     !.cur = [a \in Agents |-> LastStart(J, a)[3]],
     !.gen = [a \in Agents |-> LastStart(J, a)[4]],
     !.queue = [a \in Agents |-> Keep([n \in Runs |-> n],
        {n \in Runs : Has(J, "accepted", a, n) /\ ~Has(J, "started", a, n) /\ ~Has(J, "terminal", a, n)})],
     !.done = [a \in Agents |-> [n \in Runs |->
        IF Has(J, "terminal", a, n) THEN Outcome(J, "terminal", a, n) ELSE "none"]],
     !.quarantined = [a \in Agents |-> Is(J, "quarantined", a)],
     !.lost = [a \in Agents |->
        IF LostRuns(J, a) = {} THEN 0 ELSE LatestOf({f \in Starts(J, a) : f[3] \in LostRuns(J, a)})[3]],
     !.pendingSettle = [a \in Agents |-> Unfinished(J, a)]]

(* Mutant: outcomes left unpublished do not call for recovery. *)
NeedsRecoveryOfLost(m) == \E a \in Agents : m.lost[a] # 0

NeedsRecovery(m) == \E a \in Agents : m.lost[a] # 0 \/ m.pendingSettle[a] # NoJoin

(* The process dies, perhaps between two appends of its last step; its workers die with it. *)
Crash ==
  /\ crashes < MaxCrashes
  /\ crashes' = crashes + 1 /\ UNCHANGED trouble
  /\ \E k \in 0 .. Len(tail) :
       LET J == journal \cup Range(SubSeq(tail, 1, k))
           m == Replay(J)
       IN /\ journal' = J /\ tail' = <<>>
          /\ sup' = IF NeedsRecovery(m) THEN [m EXCEPT !.chain = <<"recover", 0>>] ELSE m

(* reconcileLostRun: uncertain where effects or ownership are unconfirmed; quarantined, too,   *)
(* where a writer's workspace or the ownership is concerned.                                   *)
ReconcileLostRun(m, a, suspect, barred) ==
  LET n == m.lost[a]
      o == IF suspect THEN "uncertain" ELSE "interrupted"
      m1 == IF barred THEN Append1([m EXCEPT !.quarantined[a] = TRUE], <<"quarantined", a>>) ELSE m
  IN IF n = 0 THEN m
     ELSE [SettleTerminal(Append1(m1, <<"settled", a, n, o>>), a, n, o) EXCEPT !.lost[a] = 0]

HoldQueued(m, a) == [m EXCEPT !.held[a] = m.queue[a] # <<>>]

(* recover, suspended throughout. *)
Recovery(m, suspects, barred) ==
  LET open == {a \in Agents : m.life[a] = "open"}
      Lost(h, a) == ReconcileLostRun(h, a, a \in suspects, a \in barred)
      m1 == ForEach(ForEach([m EXCEPT !.suspended = TRUE], open, Lost), open, HoldQueued)
      Pending(h, a) == [SettleTerminal(h, a, h.pendingSettle[a][1], h.pendingSettle[a][2])
                           EXCEPT !.pendingSettle[a] = NoJoin]
      m2 == ForEach(m1, {a \in Agents : m1.pendingSettle[a] # NoJoin}, Pending)
  IN PumpRunnable([m2 EXCEPT !.suspended = FALSE, !.chain = Idle])

Recover ==
  /\ sup.chain = <<"recover", 0>>
  /\ \E suspects \in SUBSET {a \in Agents : sup.lost[a] # 0} : \E barred \in SUBSET suspects :
       Step(Recovery(sup, suspects, barred))
  /\ Calm

-----------------------------------------------------------------------------
Init == /\ sup = NewHeap /\ journal = {} /\ tail = <<>> /\ trouble = 0 /\ crashes = 0

Next ==
  \/ \E p \in 0 .. MaxAgents : Spawn(p)
  \/ \E a \in Agents :
       \/ StartParked(a) \/ Launched(a) \/ LaunchFailed(a) \/ Started(a) \/ InitializeFailed(a)
       \/ Load(a) \/ Reloaded(a) \/ ReloadFailed(a) \/ SendTask(a)
       \/ \E n \in Runs : DispatchPending(a, n)
       \/ \E status \in {"succeeded", "failed"} : Settled(a, status)
       \/ WorkerExit(a) \/ Checkpointed(a)
       \/ WaitAgent(a) \/ WaitEnds(a) \/ LeaseGranted(a)
       \/ Interrupt(a) \/ Close(a) \/ AwaitIdle(a) \/ RetireSubtree(a)
       \/ \E walk \in sup.walks : InterruptNext(walk, a)
  \/ \E walk \in sup.walks : InterruptOver(walk)
  \/ Crash \/ Recover

Spec == Init /\ [][Next]_vars

(* Fairness, with what enables each action written out.  The sections of the chain run, one    *)
(* after the other, whatever promises are resolved in between: launches, checkpoints, walks    *)
(* and the join of close have time-outs.  wait_agent has a time-out, and a promise that is     *)
(* resolved continues.  A worker that is let run often enough ends its run.                    *)
Section ==
  \/ Recover
  \/ \E a \in Agents : \/ StartParked(a) \/ Launched(a) \/ Started(a) \/ Load(a) \/ Reloaded(a)
                       \/ Checkpointed(a) \/ AwaitIdle(a) \/ RetireSubtree(a)
  \/ \E walk \in sup.walks : walk[1] # "detached" /\ (InterruptOver(walk) \/ \E a \in Agents : InterruptNext(walk, a))
SectionReady ==
  \/ Ready = {} /\ sup.chain # Idle
  \/ Free /\ (sup.jobs # <<>> \/ \E a \in Agents : sup.ckpt[a])
  \/ Ready = {} /\ sup.closes # {}
Fairness ==
  /\ <>[]~SectionReady \/ []<><<Section>>_vars
  /\ \A a \in Agents :
       /\ []<>(sup.wait[a] \in {"none", "queued"}) \/ []<><<WaitEnds(a) \/ LeaseGranted(a)>>_vars
       /\ <>[]~(Free /\ sup.active[a] # 0 /\ sup.after[a] = 0 /\ (sup.wait[a] = "none" \/ sup.intr[a]))
            \/ []<><<\E status \in {"succeeded", "failed"} : Settled(a, status)>>_vars
FairSpec == Spec /\ Fairness

-----------------------------------------------------------------------------
(* Properties *)

Facts == journal \cup Range(tail)
Ended(a, n) == \E o \in Outcomes : <<"terminal", a, n, o>> \in Facts
HasStarted(a, n) == \E g \in 1 .. MaxRuns + 1 : <<"started", a, n, g>> \in journal
InQueue(m, a) == Range(m.queue[a])

(* Type invariant: the heap is well formed, leases are within maxRunnable and residents within *)
(* maxResidentWorkers.                                                                         *)
TypeOK ==
  /\ sup.parent \in [Agents -> 0 .. MaxAgents] /\ \A a \in Agents : sup.parent[a] < a
  /\ sup.life \in [Agents -> {"absent", "open", "closing", "closed"}]
  /\ {sup.made, sup.cur, sup.active, sup.lost} \subseteq [Agents -> 0 .. MaxRuns]
  /\ sup.gen \in [Agents -> 0 .. MaxRuns + 1]
  /\ {sup.intr, sup.parked, sup.joinInterrupted, sup.worker, sup.ckpt, sup.resident, sup.held,
      sup.quarantined} \subseteq [Agents -> BOOLEAN]
  /\ sup.after \in [Agents -> Nat]
  /\ {sup.lease, sup.grant} \subseteq [Agents -> 0 .. maxRunnable]
  /\ \A a \in Agents : InQueue(sup, a) \subseteq Runs /\ IsInjective(sup.queue[a])
  /\ Range(sup.jobs) \subseteq {"start", "load", "retire"} \X Agents
  /\ {sup.join, sup.pendingSettle} \subseteq [Agents -> {NoJoin} \cup (Runs \X Outcomes)]
  /\ sup.done \in [Agents -> [Runs -> Outcomes \cup {"none"}]]
  /\ sup.wait \in [Agents -> {"none", "waiting", "resuming", "queued", "granted"}]
  /\ sup.leases \subseteq 1 .. maxRunnable
  /\ Cardinality(Residents(sup)) <= maxResidentWorkers

(* Every runnable lease the scheduler counts is one that some agent holds or is being handed. *)
LeasesAccounted == sup.leases = ({sup.lease[a] : a \in Agents} \cup {sup.grant[a] : a \in Agents}) \ {0}

(* A lease that an agent holds or is being handed is counted, and is nobody else's. *)
LeasesExclusive ==
  \A a \in Agents : \A l \in {sup.lease[a], sup.grant[a]} \ {0} :
     l \in sup.leases /\ \A b \in Agents \ {a} : l \notin {sup.lease[b], sup.grant[b]}

(* An agent that is let run, neither waiting in wait_agent nor being interrupted, holds a      *)
(* runnable lease: maxRunnable bounds the agents that run.                                     *)
RunsHoldLeases ==
  \A a \in Agents : (sup.active[a] # 0 /\ sup.wait[a] = "none" /\ ~sup.intr[a]) => sup.lease[a] # 0

(* No wake-up is lost: with a free runnable lease and nothing left to do on the chain, no open *)
(* agent is parked, and accepted work waits only for its own agent, for an explicit resume or  *)
(* for resident capacity.  The supervisor has not crashed: a restarted one that has nothing to *)
(* recover leaves what was queued to an explicit resume.                                       *)
NoIdleCapacity ==
  (crashes = 0 /\ Free /\ sup.jobs = <<>> /\ HasRunnableCapacity(sup)) =>
    \A a \in Agents : (sup.life[a] = "open" /\ ~sup.quarantined[a]) =>
       /\ ~sup.parked[a]
       /\ sup.queue[a] # <<>> =>
            \/ sup.active[a] # 0 \/ PhaseLocked(sup, a) \/ sup.held[a]
            \/ (~sup.worker[a] /\ ~CanReside(sup))

(* finalizeGeneration's own check: an agent that still joins its descendants has no run. *)
OneGenerationAtATime == \A a \in Agents : sup.join[a] # NoJoin => sup.active[a] = 0 /\ ~sup.parked[a]

(* Each task run has one terminal outcome, in every restart, and a run that has it is over: it *)
(* is not queued, parked, running or being settled.                                            *)
OutcomeIsFinal ==
  /\ \A f, g \in Facts : (f[1] = "terminal" /\ g[1] = "terminal" /\ f[2] = g[2] /\ f[3] = g[3]) => f = g
  /\ \A a \in Agents : \A n \in Runs : Ended(a, n) =>
       /\ n \notin InQueue(sup, a) \cup {sup.active[a], sup.join[a][1], sup.pendingSettle[a][1], sup.lost[a]}
       /\ ~(sup.parked[a] /\ sup.cur[a] = n)

(* Structured ownership, in the order of the journal: when the terminal outcome of a run is    *)
(* written, the last run that a descendant of its agent has started is settled or ended.       *)
(* Earlier ones are, too, but for a run that a failed initialize forgot.  The agent is open    *)
(* and the supervisor has not crashed: close retires owners first, and so does recover.        *)
OwnerJoinsDescendants ==
  crashes = 0 => \A i \in DOMAIN tail :
     LET J == journal \cup Range(SubSeq(tail, 1, i - 1))
     IN (tail[i][1] = "terminal" /\ sup.life[tail[i][2]] = "open" /\ Has(J, "started", tail[i][2], tail[i][3])) =>
          \A d \in Descendants(sup, tail[i][2]) :
             LET n == LastStart(J, d)[3]
             IN Has(J, "started", d, n) => Has(J, "settled", d, n) \/ Has(J, "terminal", d, n)

(* Every accepted run is finished, queued, parked, being launched, running or being settled. *)
RunIsOwned(a, n) ==
  \/ sup.done[a][n] # "none" \/ sup.active[a] = n \/ sup.join[a][1] = n
  \/ sup.lost[a] = n \/ sup.pendingSettle[a][1] = n \/ n \in InQueue(sup, a)
  \/ (sup.cur[a] = n /\ (sup.parked[a] \/ sup.chain = <<"startup", a>>))
RunsAreOwned == \A a \in Agents : \A n \in 1 .. sup.made[a] : RunIsOwned(a, n)

(* The journal carries the runs: a restart at any moment finds outcomes and queues as they are, *)
(* a running run among the lost, and an outcome that waits for descendants as one still to      *)
(* publish, unless a run is lost (replayJournal looks for one or the other).  A run whose       *)
(* worker has not answered initialize is the exception: it may be running, and a restart finds  *)
(* it among the lost only if it was dispatched before, else queued again if it was parked.      *)
JournalCarriesRuns ==
  LET m == Replay(Facts)
  IN \A a \in Agents :
       LET n == sup.active[a]
       IN /\ m.done[a] = sup.done[a] /\ m.made[a] = sup.made[a]
          /\ sup.life[a] \in {"open", "closing"} =>
               /\ m.life[a] = "open"
               /\ InQueue(sup, a) \subseteq InQueue(m, a)
               /\ sup.parked[a] => sup.cur[a] \in InQueue(m, a)
               /\ n # 0 => \/ n \in LostRuns(Facts, a)
                           \/ sup.chain = <<"initialize", a>> /\ (Has(Facts, "accepted", a, n) => n \in InQueue(m, a))
               /\ sup.join[a] # NoJoin => m.pendingSettle[a] = sup.join[a] \/ m.lost[a] # 0

(* A quarantined agent gets no worker and no run. *)
QuarantineHolds == \A a \in Agents : sup.quarantined[a] => sup.active[a] = 0 /\ ~sup.worker[a]

(* A run that was started ends, through crashes of the supervisor too, unless a failed         *)
(* initialize forgot it and its agent moved on to a later run (finding 1), or its agent was    *)
(* closed before a restart.                                                                    *)
StartedRunsEnd ==
  \A a \in Agents : \A n \in Runs :
     HasStarted(a, n) ~> \/ Ended(a, n) \/ (~RunIsOwned(a, n) /\ sup.cur[a] > n)
                         \/ (crashes > 0 /\ sup.life[a] = "closed")

(* Queued work is dispatched or ended; after a restart it may wait for an explicit resume. *)
QueueDrains ==
  \A a \in Agents : \A n \in Runs :
     n \in InQueue(sup, a) ~> (n \notin InQueue(sup, a) \/ crashes > 0)
=============================================================================
