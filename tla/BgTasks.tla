------------------------------- MODULE BgTasks -------------------------------
(***************************************************************************)
(* The supervisor of background shell tasks: one process group per task,   *)
(* a durable registry of outcomes, and the owner that starts, terminates   *)
(* and clears tasks over a control socket it may hand over.                *)
(*                                                                         *)
(* The supervisor is one event loop: a request, an observation of a child, *)
(* or a deadline is one step.  Each iteration observes children before it  *)
(* looks at deadlines (Observed).  `sup' is its memory together with what  *)
(* the disk holds, since one step may commit several times; handlers are   *)
(* operators on it.  A commit rewrites the whole registry; it may fail     *)
(* without effect (lost) or after the rename (torn).                       *)
(*                                                                         *)
(* Left out: output bytes and reads, phases and labels shown to a reader,  *)
(* signals sent on request, and notices of outcomes with their receipts.   *)
(***************************************************************************)
EXTENDS Naturals, Sequences, FiniteSets

CONSTANTS
  MaxTasks,    \* bound: tasks ever spawned
  Forking,     \* the tasks whose command starts further processes in its group
  Failing,     \* the tasks whose command may fail, or be killed by others
  MaxStops,    \* bound: terminate requests
  MaxFaults,   \* bound: commits, deletions and outputs that fail
  MaxCrashes   \* bound: kills of the supervisor

Tasks == 1 .. MaxTasks

ASSUME BgTasksAssumption ==
  /\ MaxTasks \in Nat /\ Forking \subseteq Tasks /\ Failing \subseteq Tasks
  /\ MaxStops \in Nat /\ MaxFaults \in Nat /\ MaxCrashes \in Nat

VARIABLES
  sup,    \* the supervisor: see NewSupervisor
  dir,    \* where each task's log directory is
  proc,   \* each task's processes
  used,   \* how many identifiers were handed out
  stops, faults, crashes

vars == <<sup, dir, proc, used, stops, faults, crashes>>

Stages == {"none", "grace", "term", "kill", "unconfirmed"}
Commits == {"ok", "lost", "torn"}
(* ExitEvidence: how the leader of a group ended. *)
Ends == {"exit", "exit_nonzero", "signaled"}
Reasons == Ends \cup {"running", "terminated", "launch_failed", "descendants_remaining",
            "output_failed", "output_drain_timeout", "session_shutdown", "owner_lost", "supervisor_lost",
            "cleanup_unconfirmed"}

(* TaskRecord: why a task ended, and whether its removal is committed. *)
NoRecord == [reason |-> "absent", clearing |-> FALSE]
Record(reason) == [reason |-> reason, clearing |-> FALSE]
Finalized(r) == r.reason \in Reasons \ {"running"}

(* TaskRuntime: sealed once the leader is reaped, settled once the group is empty; a timer or  *)
(* drain is a deadline that is set.  `owned' stands for membership in runtimes.                *)
NoRuntime ==
  [owned |-> FALSE, sealed |-> FALSE, settled |-> FALSE, pty |-> "open", drain |-> FALSE,
   outputFailed |-> FALSE, terminate |-> FALSE, kin |-> FALSE, stage |-> "none", timer |-> FALSE,
   waiters |-> 0, pending |-> "none"]

(* A supervisor that opened the registry r: no owner is connected, and one must come in time. *)
NewSupervisor(r) ==
  [up |-> TRUE, mem |-> r, disk |-> r, rt |-> [t \in Tasks |-> NoRuntime], deferred |-> <<>>,
   conn |-> "none", lease |-> TRUE, shutting |-> "none", storageFailed |-> FALSE, stray |-> FALSE]

(* The process is gone; what it last said of the tasks is kept in mem. *)
Halt(m) == [NewSupervisor(m.mem) EXCEPT !.up = FALSE, !.disk = m.disk, !.lease = FALSE]

(* An operator whose comment starts with "Mutant" is a plausible slip in the definition below  *)
(* it; nothing here uses it.                                                                   *)

-----------------------------------------------------------------------------
(* TaskRegistry *)

(* Mutant: memory changes before the commit. *)
CommitMemoryFirst(m, t, r, how) ==
  [m EXCEPT !.mem[t] = r, !.disk = IF how = "lost" THEN @ ELSE [m.mem EXCEPT ![t] = r],
            !.storageFailed = @ \/ how # "ok"]

(* mutate, and what every caller but clear does with a StorageError. *)
Commit(m, t, r, how) ==
  [m EXCEPT !.mem[t] = IF how = "ok" THEN r ELSE @,
            !.disk = IF how = "lost" THEN @ ELSE [m.mem EXCEPT ![t] = r],
            !.storageFailed = @ \/ how # "ok"]

(* _mark_record: a phase, or evidence of an exit. *)
MarkRecord(m, t, how) == Commit(m, t, m.mem[t], how)

Owned(m) == {t \in Tasks : m.rt[t].owned}

-----------------------------------------------------------------------------
(* Stopping a group *)

(* killpg, or a pidfd of a child found by its group: once the group is settled its number may  *)
(* name another.                                                                               *)
Reached(m, t) == [m EXCEPT !.stray = @ \/ m.rt[t].settled]
SignalCandidates(m, t) == IF m.rt[t].settled THEN m ELSE Reached(m, t)
(* Mutant: by number whatever happened to the leader. *)
SignalGroupByNumber(m, t) == Reached(m, t)

SignalGroup(m, t) == IF ~m.rt[t].sealed THEN Reached(m, t) ELSE SignalCandidates(m, t)

SetStage(m, t, stage) ==
  [m EXCEPT !.rt[t].stage = stage, !.rt[t].timer = stage \in {"grace", "term", "kill"}]

RequestTerminate(m, t, how) ==
  LET asked == [m EXCEPT !.rt[t].terminate = @ \/ m.shutting = "none"]
  IN CASE m.rt[t].stage = "unconfirmed" -> SignalGroup(MarkRecord(SetStage(asked, t, "kill"), t, how), t)
       [] m.rt[t].stage \in {"none", "grace"} -> SignalGroup(MarkRecord(SetStage(asked, t, "term"), t, how), t)
       [] OTHER -> asked

-----------------------------------------------------------------------------
(* Outcomes *)

DecideOutcome(m, t, confirmed) ==
  LET r == m.rt[t]
  IN IF ~confirmed THEN "cleanup_unconfirmed"
     ELSE IF m.shutting = "owner_lost" THEN "owner_lost"
     ELSE IF m.shutting = "graceful" THEN "session_shutdown"
     ELSE IF r.terminate THEN "terminated"
     ELSE IF r.outputFailed THEN "output_failed"
     ELSE IF r.kin THEN "descendants_remaining"
     ELSE IF r.pty = "timedout" THEN "output_drain_timeout"
     ELSE proc[t].leader

(* _commit_outcome: an outcome that is not durable is kept and tried again, or given up by a   *)
(* supervisor that shuts down; then all who wait are answered.                                 *)
CommitOutcome(m, t, how) ==
  LET done == Commit(m, t, Record(m.rt[t].pending), how)
  IN IF how # "ok" /\ m.shutting = "none" THEN done ELSE [done EXCEPT !.rt[t] = NoRuntime]

Finalize(m, t, confirmed, how) ==
  CommitOutcome([m EXCEPT !.rt[t].pending = DecideOutcome(m, t, confirmed)], t, how)

(* Mutant: the leader's exit and the end of output are taken for the end of the task. *)
MaybeFinalizeUnsettled(m, t, how) ==
  IF m.rt[t].pending # "none" THEN CommitOutcome(m, t, how)
  ELSE IF m.rt[t].sealed /\ m.rt[t].pty # "open" THEN Finalize(m, t, TRUE, how) ELSE m

MaybeFinalize(m, t, how) ==
  IF m.rt[t].pending # "none" THEN CommitOutcome(m, t, how)
  ELSE IF m.rt[t].settled /\ m.rt[t].pty # "open" THEN Finalize(m, t, TRUE, how) ELSE m

(* _begin_shutdown: every task is told to stop; they share the registry and nothing else. *)
BeginShutdown(m, kind, how) ==
  LET shut == [m EXCEPT !.shutting = kind, !.deferred = <<>>]
      Stop(t) == RequestTerminate(shut, t, how)
  IN [shut EXCEPT !.rt = [t \in Tasks |-> IF t \in Owned(m) THEN Stop(t).rt[t] ELSE m.rt[t]],
                  !.disk = IF \E t \in Owned(m) : Stop(t).disk = m.mem THEN m.mem ELSE m.disk,
                  !.storageFailed = @ \/ \E t \in Owned(m) : Stop(t).storageFailed,
                  !.stray = @ \/ \E t \in Owned(m) : Stop(t).stray]

OwnerLost(m, how) ==
  LET free == [m EXCEPT !.lease = FALSE]
  IN IF m.shutting = "owner_lost" THEN free ELSE BeginShutdown(free, "owner_lost", how)

-----------------------------------------------------------------------------
(* Launching *)

Closing(m) == {t \in Owned(m) : m.rt[t].sealed /\ ~m.rt[t].settled}
Unconfirmed(m) == {t \in Closing(m) : m.rt[t].stage = "unconfirmed"}

(* _spawn: the log, the record, the process, then the record again; `end' is where it stops.   *)
(* A process that does not start says so in its log, if that can be written.                   *)
Spawned(m, t, end, how) ==
  LET admitted == Commit(m, t, Record("running"), IF end = "admit" THEN how ELSE "ok")
      launched == [admitted EXCEPT !.rt[t] = [NoRuntime EXCEPT !.owned = TRUE]]
      marked == MarkRecord(launched, t, how)
  IN CASE end = "log" -> [m EXCEPT !.storageFailed = TRUE]
       [] end = "admit" -> admitted
       [] end = "launch" -> Commit(admitted, t, Record("launch_failed"), how)
       [] end = "launch_log" -> [Commit(admitted, t, Record("launch_failed"), "ok") EXCEPT !.storageFailed = TRUE]
       [] end = "run" -> IF how = "ok" THEN marked ELSE RequestTerminate(marked, t, "ok")

SpawnStops == {"log", "admit", "launch", "launch_log", "run"}
(* How many faults a way to end costs; a failed launch is none of the store's. *)
SpawnFaults(end, how) == IF how # "ok" THEN 1 ELSE 0
SpawnEnds(end, how) == (end \in {"log", "launch_log"} => how = "lost") /\ (end = "admit" => how # "ok")

(* What _spawn of a task leaves outside the registry. *)
Launch(t, end) ==
  /\ proc' = IF end = "run" THEN [proc EXCEPT ![t].leader = "live"] ELSE proc
  /\ \E d \in (IF end = "log" THEN {"none", "tasks"} ELSE {"tasks"}) : dir' = [dir EXCEPT ![t] = d]

-----------------------------------------------------------------------------
(* Steps *)

Up == sup.up
Fault(n) == faults + n <= MaxFaults /\ faults' = faults + n

(* A step whose commits go one way: well, or as a fault that makes a difference. *)
Do(Op(_)) ==
  \E how \in Commits :
    /\ Fault(IF how = "ok" THEN 0 ELSE 1)
    /\ how = "ok" \/ Op(how) # Op("ok")
    /\ sup' = Op(how)

(* Deferred launches follow the observation that lets them go at once. *)
Turn == Up /\ (sup.deferred = <<>> \/ Closing(sup) # {})
Served == Turn /\ sup.conn = "open"
Rest == UNCHANGED <<dir, proc, used, stops, crashes>>

Spawn(t) ==
  /\ Served /\ t = used + 1 /\ sup.shutting = "none" /\ ~sup.storageFailed /\ Unconfirmed(sup) = {}
  /\ used' = t
  /\ \/ /\ Closing(sup) # {}
        /\ sup' = [sup EXCEPT !.deferred = Append(@, t)]
        /\ UNCHANGED <<dir, proc, faults>>
     \/ /\ Closing(sup) = {}
        /\ \E end \in SpawnStops, how \in Commits :
             /\ SpawnEnds(end, how) /\ Fault(SpawnFaults(end, how))
             /\ sup' = Spawned(sup, t, end, how)
             /\ Launch(t, end)
  /\ UNCHANGED <<stops, crashes>>

(* Mutant: a terminate is taken after the handover was granted. *)
TerminateLate(t) ==
  /\ Turn /\ sup.conn # "none" /\ sup.rt[t].owned /\ stops < MaxStops
  /\ stops' = stops + 1
  /\ LET Ask(how) == RequestTerminate([sup EXCEPT !.rt[t].waiters = @ + 1, !.rt[t].terminate = TRUE], t, how)
     IN Do(Ask)
  /\ UNCHANGED <<dir, proc, used, crashes>>

Terminate(t) ==
  /\ Served /\ sup.rt[t].owned /\ stops < MaxStops
  /\ stops' = stops + 1
  /\ LET Ask(how) == RequestTerminate([sup EXCEPT !.rt[t].waiters = @ + 1, !.rt[t].terminate = TRUE], t, how)
     IN Do(Ask)
  /\ UNCHANGED <<dir, proc, used, crashes>>

(* The durable steps of clear and _finish_clear: the intent, the log's move out of tasks/, its *)
(* deletion, the record.  A failure leaves those before it; clear does not disable launches.   *)
ClearSteps(m, t, end, how) ==
  LET kept == IF m.mem[t].clearing THEN m
              ELSE [m EXCEPT !.mem[t].clearing = TRUE, !.disk = [m.mem EXCEPT ![t].clearing = TRUE]]
  IN CASE end = "intent" -> [Commit(m, t, [m.mem[t] EXCEPT !.clearing = TRUE], how)
                                EXCEPT !.storageFailed = m.storageFailed]
       [] end \in {"move", "delete"} -> kept
       [] end = "drop" -> [Commit(kept, t, NoRecord, how) EXCEPT !.storageFailed = m.storageFailed]
(* Mutant: the record is dropped before the log is deleted. *)
ClearedDirLate(t, end) == [dir EXCEPT ![t] = IF end \in {"intent", "move"} THEN @ ELSE "clearing"]

ClearedDir(t, end) ==
  [dir EXCEPT ![t] = CASE end \in {"intent", "move"} -> @ [] end = "delete" /\ @ # "none" -> "clearing" [] OTHER -> "none"]

Clear(t) ==
  /\ Served /\ Finalized(sup.mem[t])
  /\ \E end \in {"intent", "move", "delete", "drop"}, how \in Commits :
       /\ end = "intent" => ~sup.mem[t].clearing /\ how # "ok"
       /\ end \in {"move", "delete"} => how = "lost"
       /\ Fault(IF how = "ok" THEN 0 ELSE 1)
       /\ sup' = ClearSteps(sup, t, end, how)
       /\ dir' = ClearedDir(t, end)
  /\ UNCHANGED <<proc, used, stops, crashes>>

(* _op_shutdown, or a signal to the supervisor. *)
Shutdown ==
  /\ Turn /\ sup.shutting = "none"
  /\ LET Begin(how) == BeginShutdown(sup, "graceful", how) IN Do(Begin)
  /\ Rest

-----------------------------------------------------------------------------
(* The owner *)

Accept ==
  /\ Turn /\ sup.conn = "none" /\ sup.shutting = "none"
  /\ sup' = [sup EXCEPT !.conn = "open", !.lease = FALSE]
  /\ UNCHANGED faults /\ Rest

(* Replies still owed would be lost with the connection. *)
Detach ==
  /\ Served /\ sup.shutting = "none" /\ sup.deferred = <<>>
  /\ \A t \in Tasks : sup.rt[t].waiters = 0
  /\ sup' = [sup EXCEPT !.conn = "leaving", !.lease = TRUE]
  /\ UNCHANGED faults /\ Rest

ControlEof ==
  /\ Turn /\ sup.conn # "none"
  /\ LET closed == [sup EXCEPT !.conn = "none"]
         Hangup(how) == IF sup.conn = "open" /\ sup.shutting = "none" THEN OwnerLost(closed, how) ELSE closed
     IN Do(Hangup)
  /\ Rest

(* The owner's pidfd fires, or no owner came back in time. *)
OwnerGone ==
  /\ Turn /\ (sup.shutting # "owner_lost" \/ sup.lease)
  /\ LET Lose(how) == OwnerLost(sup, how) IN Do(Lose)
  /\ Rest

-----------------------------------------------------------------------------
(* Processes, while somebody looks at them, and their output *)

Exit(t) ==
  /\ sup.rt[t].owned /\ proc[t].leader = "live"
  /\ \E end \in Ends : (t \notin Failing => end = "exit") /\ proc' = [proc EXCEPT ![t].leader = end]
  /\ UNCHANGED <<sup, dir, used, stops, faults, crashes>>

Fork(t) ==
  /\ sup.rt[t].owned /\ proc[t].leader = "live" /\ ~proc[t].kin /\ t \in Forking
  /\ proc' = [proc EXCEPT ![t].kin = TRUE]
  /\ UNCHANGED <<sup, dir, used, stops, faults, crashes>>

KinExits(t) ==
  /\ sup.rt[t].owned /\ proc[t].kin
  /\ proc' = [proc EXCEPT ![t].kin = FALSE]
  /\ UNCHANGED <<sup, dir, used, stops, faults, crashes>>

(* _read_pty: the terminal has no writer left, or cannot be read. *)
ReadPty(t) ==
  /\ Turn /\ sup.rt[t].owned /\ sup.rt[t].pty = "open"
  /\ \/ sup' = [sup EXCEPT !.rt[t].pty = "eof"] /\ UNCHANGED faults
     \/ sup' = [sup EXCEPT !.rt[t].pty = "eof", !.rt[t].outputFailed = TRUE] /\ Fault(1)
  /\ Rest

(* A log cannot be written or synced: in _append, in _sync_logs, or in _finalize before it     *)
(* decides the outcome.  One that fails to close there does not disable launches.              *)
LogFails(t) ==
  /\ Turn /\ sup.rt[t].owned /\ ~sup.rt[t].outputFailed /\ sup.rt[t].pending = "none" /\ Fault(1)
  /\ \/ sup' = [sup EXCEPT !.rt[t].outputFailed = TRUE, !.storageFailed = TRUE]
     \/ sup.rt[t].pty # "open" /\ sup' = [sup EXCEPT !.rt[t].outputFailed = TRUE]
  /\ Rest

(* waitpid(-pgid): nothing is left, or what is left gets a grace period and then signals. *)
CheckGroup(m, t) ==
  IF ~proc[t].kin
  THEN [m EXCEPT !.rt[t].settled = TRUE, !.rt[t].timer = FALSE, !.rt[t].drain = m.rt[t].pty = "open"]
  ELSE CASE m.rt[t].stage = "none" ->
              IF m.rt[t].terminate \/ m.shutting # "none" THEN SignalCandidates(SetStage(m, t, "term"), t)
              ELSE SetStage(m, t, "grace")
         [] m.rt[t].stage \in {"term", "kill"} -> SignalCandidates(m, t)
         [] OTHER -> m

(* _reap_children for one task: the leader, then its group, then its outcome. *)
ReapTask(m, t, how) ==
  LET sealed == IF m.rt[t].sealed \/ proc[t].leader = "live" THEN m
                ELSE MarkRecord([m EXCEPT !.rt[t].sealed = TRUE], t, how)
      checked == IF sealed.rt[t].sealed /\ ~sealed.rt[t].settled THEN CheckGroup(sealed, t) ELSE sealed
  IN MaybeFinalize(checked, t, how)

(* Mutant: launches wait for a group that will not settle. *)
DeferredDueSettled(m) == m.deferred # <<>> /\ Closing(m) = {}

DeferredDue(m) == m.deferred # <<>> /\ (Closing(m) = {} \/ Unconfirmed(m) # {})

Observes(t) == sup.rt[t].owned /\ ReapTask(sup, t, "ok") # sup
(* Every child was observed, and an outcome that is pending has failed to commit once more. *)
Observed == \A t \in Tasks : Observes(t) => sup.rt[t].pending # "none" /\ sup.shutting = "none"

Reap(t) ==
  /\ Up /\ Observes(t)
  /\ LET Observe(how) == ReapTask(sup, t, how) IN Do(Observe)
  /\ Rest

(* The end of _reap_children; nothing is handled between it and the observations. *)
RunDeferred ==
  /\ Up /\ DeferredDue(sup)
  /\ LET t == Head(sup.deferred)
         m == [sup EXCEPT !.deferred = Tail(@)]
     IN IF Unconfirmed(sup) # {} \/ sup.shutting # "none"
        THEN sup' = [sup EXCEPT !.deferred = <<>>] /\ UNCHANGED <<dir, proc, faults>>
        ELSE \E end \in SpawnStops, how \in Commits :
               /\ SpawnEnds(end, how) /\ Fault(SpawnFaults(end, how))
               /\ sup' = Spawned(m, t, end, how)
               /\ Launch(t, end)
  /\ UNCHANGED <<used, stops, crashes>>

-----------------------------------------------------------------------------
(* Deadlines *)

(* Mutant: a termination that could not be confirmed is not answered. *)
StageSpentSilently(m, t, how) == IF m.shutting # "none" THEN Finalize(m, t, FALSE, how) ELSE MarkRecord(m, t, how)

(* The last stage is over: the group is given up, or stays owned and all who wait are told. *)
StageSpent(m, t, how) ==
  IF m.shutting # "none" THEN Finalize(m, t, FALSE, how)
  ELSE [MarkRecord(m, t, how) EXCEPT !.rt[t].waiters = 0]

StageDue(t) ==
  /\ Turn /\ Observed /\ sup.rt[t].timer
  /\ LET Advance(how) ==
           CASE sup.rt[t].stage = "grace" ->
                  SignalCandidates([SetStage(sup, t, "term") EXCEPT !.rt[t].kin = TRUE], t)
             [] sup.rt[t].stage = "term" -> SignalGroup(SetStage(sup, t, "kill"), t)
             [] sup.rt[t].stage = "kill" -> StageSpent(SetStage(sup, t, "unconfirmed"), t, how)
     IN Do(Advance)
  /\ Rest

DrainDue(t) ==
  /\ Turn /\ Observed /\ sup.rt[t].drain /\ sup.rt[t].pty = "open"
  /\ sup' = [sup EXCEPT !.rt[t].pty = "timedout"]
  /\ UNCHANGED faults /\ Rest

(* What the loop over the runtimes has made of the records when it comes to the last one. *)
Abandoned(m, how) ==
  [m EXCEPT !.mem = [t \in Tasks |-> IF t \in Owned(m) THEN Finalize(m, t, FALSE, how).mem[t] ELSE m.mem[t]]]

(* _maybe_finish_teardown: nothing is left, or the time is up.  Runtimes are kept in the order *)
(* of their tasks.                                                                             *)
FinishTeardown ==
  /\ Turn /\ Observed /\ sup.shutting # "none"
  /\ \/ Owned(sup) = {} /\ sup' = Halt(sup) /\ UNCHANGED faults
     \/ \E last \in Owned(sup) :
          /\ \A t \in Owned(sup) : t <= last
          /\ LET AbandonAll(how) == Halt(Finalize(Abandoned(sup, how), last, FALSE, how)) IN Do(AbandonAll)
  /\ Rest

-----------------------------------------------------------------------------
(* Restart *)

Crash ==
  /\ Up /\ crashes < MaxCrashes /\ crashes' = crashes + 1
  /\ sup' = Halt(sup)
  /\ UNCHANGED <<dir, proc, used, stops, faults>>

(* Mutant: unfinished records are left as they are. *)
ReconcileNone(r) == r

Reconcile(r) == [t \in Tasks |-> IF r[t].reason = "running" THEN Record("supervisor_lost") ELSE r[t]]

(* TaskRegistry.open: committed clears are finished, or stay; then what is unfinished is dead. *)
Open ==
  /\ ~Up
  /\ \E end \in {"move", "delete", "drop"} :
       LET cleared == {t \in Tasks : sup.disk[t].clearing}
           left == [t \in Tasks |-> IF t \in cleared /\ end = "drop" THEN NoRecord ELSE sup.disk[t]]
       IN /\ Fault(IF end = "drop" THEN 0 ELSE 1) /\ (end # "drop" => cleared # {})
          /\ dir' = [t \in Tasks |-> IF t \in cleared THEN ClearedDir(t, end)[t] ELSE dir[t]]
          /\ sup' = NewSupervisor(Reconcile(left))
  /\ UNCHANGED <<proc, used, stops, crashes>>

-----------------------------------------------------------------------------
Init ==
  /\ sup = NewSupervisor([t \in Tasks |-> NoRecord])
  /\ dir = [t \in Tasks |-> "none"] /\ proc = [t \in Tasks |-> [leader |-> "none", kin |-> FALSE]]
  /\ used = 0 /\ stops = 0 /\ faults = 0 /\ crashes = 0

Next ==
  \/ \E t \in Tasks :
       \/ Spawn(t) \/ Terminate(t) \/ Clear(t)
       \/ Exit(t) \/ Fork(t) \/ KinExits(t)
       \/ ReadPty(t) \/ LogFails(t) \/ Reap(t) \/ StageDue(t) \/ DrainDue(t)
  \/ RunDeferred \/ Accept \/ Detach \/ ControlEof \/ OwnerGone
  \/ Shutdown \/ FinishTeardown \/ Crash \/ Open

Spec == Init /\ [][Next]_vars

-----------------------------------------------------------------------------
(* Properties *)

(* An outcome that the supervisor reported stays, through failed commits, kills and restarts,  *)
(* until the task is cleared.                                                                  *)
OutcomeIsFinal ==
  [][\A t \in Tasks : Finalized(sup.mem[t]) => sup'.mem[t].reason \in {sup.mem[t].reason, "absent"}]_vars

(* A recorded outcome that claims the end was observed means that the task's group is empty,   *)
(* and when it claims how the leader ended, that is how it ended.                              *)
Unobserved == {"absent", "running", "launch_failed", "supervisor_lost", "cleanup_unconfirmed"}
EndedMeansGone ==
  \A t \in Tasks : sup.disk[t].reason \notin Unobserved =>
     /\ proc[t].leader \in Ends /\ ~proc[t].kin
     /\ sup.disk[t].reason \in Ends => sup.disk[t].reason = proc[t].leader

(* No signal goes to the number of a group that has settled. *)
SignalsStayHome == ~sup.stray

(* _runtime_of: a record that is unfinished has a process of this supervisor, unless the store *)
(* failed: at a launch that failed too, or at an outcome that the shutdown then gave up.       *)
UnfinishedIsOwned ==
  \A t \in Tasks : (Up /\ sup.mem[t].reason = "running" /\ ~sup.rt[t].owned) =>
     sup.storageFailed /\ (proc[t].leader = "none" \/ sup.shutting # "none")

(* Whatever fails or is killed during a clear, a task that is listed has its log, and a log    *)
(* that is half removed has a record by which a restart goes on.                               *)
RecordsMatchArtifacts ==
  \A t \in Tasks :
     /\ (sup.disk[t] # NoRecord /\ ~sup.disk[t].clearing) => dir[t] = "tasks"
     /\ dir[t] = "clearing" => sup.disk[t].clearing

(* While tasks run on without an owner, no reply is owed to the one that left. *)
HandoffLosesNoReply ==
  (Up /\ sup.shutting = "none" /\ sup.conn # "open") =>
     sup.deferred = <<>> /\ \A t \in Tasks : sup.rt[t].waiters = 0

(* Something that the loop wakes for will move the task on: a deadline, or an observation. *)
Moves(t) == sup.rt[t].timer \/ (sup.rt[t].drain /\ sup.rt[t].pty = "open") \/ Observes(t)

(* No terminate waits for ever, whether or not the group stops: while one is unanswered, its   *)
(* task has a deadline set or an observation to act on.                                        *)
TerminateIsAnswered == \A t \in Tasks : sup.rt[t].waiters > 0 => Moves(t)

(* No spawn waits for ever for a closing group: it is due, or some closing group has a         *)
(* deadline set or an observation to act on.                                                   *)
SpawnIsAnswered == sup.deferred # <<>> => DeferredDue(sup) \/ \E t \in Closing(sup) : Moves(t)
=============================================================================
