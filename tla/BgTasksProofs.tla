--------------------------- MODULE BgTasksProofs ---------------------------
(***************************************************************************)
(* The supervisor of background tasks, for any number of tasks, terminate  *)
(* requests, storage faults and kills.  The handlers are operators on the  *)
(* supervisor's memory m, so each has a lemma of its own about m; an       *)
(* action then applies one of them to sup.                                 *)
(***************************************************************************)
EXTENDS BgTasks, TLAPS

-----------------------------------------------------------------------------
(* Types *)

RecordType == [reason: Reasons \cup {"absent"}, clearing: BOOLEAN]
RuntimeType ==
  [owned: BOOLEAN, sealed: BOOLEAN, settled: BOOLEAN, pty: {"open", "eof", "timedout"},
   drain: BOOLEAN, outputFailed: BOOLEAN, terminate: BOOLEAN, kin: BOOLEAN, stage: Stages,
   timer: BOOLEAN, waiters: Nat, pending: Reasons \cup {"none"}]
MemoryType ==
  [up: BOOLEAN, mem: [Tasks -> RecordType], disk: [Tasks -> RecordType],
   rt: [Tasks -> RuntimeType], deferred: Seq(Tasks), conn: {"none", "open", "leaving"},
   lease: BOOLEAN, shutting: {"none", "graceful", "owner_lost"}, storageFailed: BOOLEAN,
   stray: BOOLEAN]
ProcType == [leader: {"none", "live"} \cup Ends, kin: BOOLEAN]
DirType == {"none", "tasks", "clearing"}

-----------------------------------------------------------------------------
(* The inductive invariant: m is the memory, p the processes and d the log directory of t *)

\* An outcome that claims the end was observed is true of the processes.
TrueOutcome(reason, p) ==
  reason \notin Unobserved =>
    /\ p.leader \in Ends /\ ~p.kin
    /\ reason \in Ends => reason = p.leader

\* A runtime has seen of the group what happened to it, a stage before the last has
\* its deadline, and a terminate that waits will be answered.
RuntimeOK(r, p) ==
  /\ ~r.owned => r = NoRuntime
  /\ r.owned => p.leader \in {"live"} \cup Ends
  /\ r.settled => r.sealed /\ ~p.kin
  /\ r.sealed => p.leader \in Ends
  /\ r.stage \in {"grace", "term", "kill"} => r.timer \/ r.settled
  /\ r.timer => r.stage \in {"grace", "term", "kill"}
  /\ r.settled /\ r.pty = "open" => r.drain
  /\ r.waiters > 0 => r.timer \/ r.settled
  /\ r.pending # "none" => r.pending # "running" /\ TrueOutcome(r.pending, p)

\* A record, in memory or on disk, is true, and has the log that it promises.
RecordOK(c, p, d) ==
  /\ TrueOutcome(c.reason, p)
  /\ c # NoRecord /\ ~c.clearing => d = "tasks"
  /\ d = "clearing" => c.clearing
  /\ c.clearing => c.reason # "running"

\* A clear c that memory knows of is on disk, as s, or is over there.
ClearingOK(c, s, d) == c.clearing => s.clearing \/ (s = NoRecord /\ d = "none")

\* The task of a runtime is unfinished; an outcome in memory is also on disk, unless
\* it is being cleared; an unfinished task without runtime is a failure of the store.
TaskOK(m, p, d, t) ==
  /\ RuntimeOK(m.rt[t], p) /\ RecordOK(m.mem[t], p, d) /\ RecordOK(m.disk[t], p, d)
  /\ m.rt[t].owned => m.mem[t] = Record("running")
  /\ Finalized(m.mem[t]) => m.disk[t].reason \in {m.mem[t].reason, "absent"}
  /\ ClearingOK(m.mem[t], m.disk[t], d)
  /\ m.up /\ m.mem[t].reason = "running" /\ ~m.rt[t].owned =>
       m.storageFailed /\ (p.leader = "none" \/ m.shutting # "none")

\* Nothing is known of a task that was not launched yet.
FreshTask(m, p, d, t) ==
  /\ m.rt[t] = NoRuntime /\ m.mem[t] = NoRecord /\ m.disk[t] = NoRecord
  /\ p = [leader |-> "none", kin |-> FALSE] /\ d = "none"

\* The queue of launches holds each of its tasks once.
Waits(m, t) == \E i \in 1..Len(m.deferred) : m.deferred[i] = t
QueueOK(m, n) ==
  /\ \A i, j \in 1..Len(m.deferred) : m.deferred[i] = m.deferred[j] => i = j
  /\ \A i \in 1..Len(m.deferred) : m.deferred[i] <= n

\* HandoffLosesNoReply of a memory.
HandoffOK(m) ==
  m.up /\ m.shutting = "none" /\ m.conn # "open" =>
    m.deferred = <<>> /\ \A t \in Tasks : m.rt[t].waiters = 0

TypesOK ==
  /\ sup \in MemoryType /\ proc \in [Tasks -> ProcType] /\ dir \in [Tasks -> DirType]
  /\ used \in 0..MaxTasks

\* Of a memory m with the processes p, the log directories d and n identifiers handed out.
TasksInv(m, p, d, n) ==
  /\ \A t \in Tasks : TaskOK(m, p[t], d[t], t)
  /\ \A t \in Tasks : t > n \/ Waits(m, t) => FreshTask(m, p[t], d[t], t)
  /\ QueueOK(m, n) /\ ~m.stray

MemoryInv(m, p, d, n) == TasksInv(m, p, d, n) /\ HandoffOK(m)

SupervisorInv == MemoryInv(sup, proc, dir, used)

-----------------------------------------------------------------------------
(* Handlers that touch one task *)

\* n differs from m in what concerns t; the records of others may be written again.
Touches(m, n, t) ==
  /\ n.up = m.up /\ n.shutting = m.shutting /\ n.deferred = m.deferred /\ n.conn = m.conn
  /\ n.stray = m.stray
  /\ \A u \in Tasks : u # t => /\ n.rt[u] = m.rt[u] /\ n.mem[u] = m.mem[u]
                               /\ n.disk[u] = m.disk[u] \/ n.disk[u] = m.mem[u]
  /\ m.storageFailed => n.storageFailed

\* A record that is written as it is, or that is not being cleared, keeps to ClearingOK.
LEMMA ClearingIs ==
  /\ \A c, d : ClearingOK(c, c, d)
  /\ \A c, s, d : c.clearing = FALSE => ClearingOK(c, s, d)
  BY DEF ClearingOK

\* What holds of the other tasks still does.
LEMMA OthersStayOK ==
  ASSUME NEW m \in MemoryType, NEW n \in MemoryType, NEW t \in Tasks, Touches(m, n, t),
         NEW u \in Tasks, u # t, NEW p, NEW d
  PROVE  /\ TaskOK(m, p, d, u) => TaskOK(n, p, d, u)
         /\ FreshTask(m, p, d, u) => FreshTask(n, p, d, u)
  <1>1. /\ n.up = m.up /\ n.shutting = m.shutting
        /\ m.storageFailed => n.storageFailed
        /\ n.rt[u] = m.rt[u] /\ n.mem[u] = m.mem[u]
        /\ n.disk[u] = m.disk[u] \/ n.disk[u] = m.mem[u]
    BY DEF Touches
  <1>2. ASSUME TaskOK(m, p, d, u) PROVE TaskOK(n, p, d, u)
    BY <1>1, <1>2, ClearingIs DEF TaskOK
  <1>3. FreshTask(m, p, d, u) => FreshTask(n, p, d, u)
    BY <1>1 DEF FreshTask
  <1> QED
    BY <1>2, <1>3

\* A commit that goes well reaches memory and disk, a lost one neither, a torn one
\* only the disk.
LEMMA CommitTouches ==
  ASSUME NEW m \in MemoryType, NEW t \in Tasks, NEW c \in RecordType, NEW how \in Commits
  PROVE  LET n == Commit(m, t, c, how) IN
         /\ n \in MemoryType /\ Touches(m, n, t) /\ n.rt = m.rt
         /\ \/ how = "ok" /\ n.mem[t] = c /\ n.disk[t] = c
            \/ how # "ok" /\ n.mem[t] = m.mem[t] /\ n.storageFailed
               /\ (n.disk[t] = m.disk[t] \/ n.disk[t] = c)
         /\ (how # "ok" \/ c = m.mem[t]) => n.mem = m.mem
  <1> DEFINE mem == IF how = "ok" THEN [m.mem EXCEPT ![t] = c] ELSE m.mem
             disk == IF how = "lost" THEN m.disk ELSE [m.mem EXCEPT ![t] = c]
             failed == m.storageFailed \/ how # "ok"
             n == [m EXCEPT !.mem = mem, !.disk = disk, !.storageFailed = failed]
  <1>1. m.mem \in [Tasks -> RecordType] /\ m.disk \in [Tasks -> RecordType]
    BY DEF MemoryType
  <1>2. Commit(m, t, c, how) = n
    <2>1. [m.mem EXCEPT ![t] = IF how = "ok" THEN c ELSE m.mem[t]] = mem
      BY <1>1
    <2> QED
      BY <2>1 DEF Commit, MemoryType
  <1>3. mem \in [Tasks -> RecordType] /\ disk \in [Tasks -> RecordType] /\ failed \in BOOLEAN
    BY <1>1 DEF MemoryType
  <1>4. /\ how = "ok" => mem[t] = c /\ disk[t] = c
        /\ how # "ok" => mem = m.mem /\ failed /\ (disk = m.disk \/ disk[t] = c)
        /\ \A u \in Tasks : u # t => mem[u] = m.mem[u] /\ (disk[u] = m.disk[u] \/ disk[u] = m.mem[u])
        /\ m.storageFailed => failed
    BY <1>1
  <1> HIDE DEF mem, disk, failed
  <1>5. /\ n \in MemoryType /\ n.mem = mem /\ n.disk = disk /\ n.storageFailed = failed
        /\ n.rt = m.rt /\ n.up = m.up /\ n.shutting = m.shutting /\ n.deferred = m.deferred
        /\ n.conn = m.conn /\ n.stray = m.stray
    BY <1>3 DEF MemoryType
  <1> HIDE DEF n
  <1>6. Touches(m, n, t)
    BY <1>4, <1>5 DEF Touches
  <1>7. (how # "ok" \/ c = m.mem[t]) => n.mem = m.mem
    BY <1>1, <1>5 DEF mem
  <1> QED
    BY <1>2, <1>4, <1>5, <1>6, <1>7

\* A phase is written without touching any outcome.
LEMMA MarkTouches ==
  ASSUME NEW m \in MemoryType, NEW t \in Tasks, NEW how \in Commits
  PROVE  LET n == MarkRecord(m, t, how) IN
         /\ n \in MemoryType /\ Touches(m, n, t) /\ n.rt = m.rt /\ n.mem = m.mem
         /\ n.disk[t] = m.disk[t] \/ n.disk[t] = m.mem[t]
  <1>1. m.mem[t] \in RecordType
    BY DEF MemoryType
  <1> QED
    BY <1>1, CommitTouches DEF MarkRecord

\* A change of t's runtime alone.
LEMMA RuntimeTouches ==
  ASSUME NEW m \in MemoryType, NEW t \in Tasks, NEW r \in RuntimeType
  PROVE  LET n == [m EXCEPT !.rt[t] = r] IN
         /\ n \in MemoryType /\ Touches(m, n, t) /\ n.rt = [m.rt EXCEPT ![t] = r] /\ n.rt[t] = r
         /\ n.mem = m.mem /\ n.disk = m.disk /\ n.storageFailed = m.storageFailed
  <1> DEFINE rt == [m.rt EXCEPT ![t] = r]
             n == [m EXCEPT !.rt = rt]
  <1>1. m.rt \in [Tasks -> RuntimeType]
    BY DEF MemoryType
  <1>2. rt \in [Tasks -> RuntimeType] /\ rt[t] = r /\ \A u \in Tasks : u # t => rt[u] = m.rt[u]
    BY <1>1
  <1>3. [m EXCEPT !.rt[t] = r] = n
    BY DEF MemoryType
  <1> HIDE DEF rt
  <1>4. /\ n \in MemoryType /\ n.rt = rt /\ n.mem = m.mem /\ n.disk = m.disk
        /\ n.storageFailed = m.storageFailed /\ n.up = m.up /\ n.shutting = m.shutting
        /\ n.deferred = m.deferred /\ n.conn = m.conn /\ n.stray = m.stray
    BY <1>2 DEF MemoryType
  <1> HIDE DEF n
  <1>5. Touches(m, n, t)
    BY <1>2, <1>4 DEF Touches
  <1> QED
    BY <1>2, <1>3, <1>4, <1>5 DEF rt

\* Changes of the same task compose.
LEMMA TouchesCompose ==
  ASSUME NEW k \in MemoryType, NEW m \in MemoryType, NEW n \in MemoryType, NEW t \in Tasks,
         Touches(k, m, t), Touches(m, n, t)
  PROVE  Touches(k, n, t)
  BY DEF Touches

\* A group's number is used only while the group is there.
LEMMA NoSignalStrays ==
  ASSUME NEW m \in MemoryType, NEW t \in Tasks, m.rt[t].settled => m.rt[t].sealed
  PROVE  SignalGroup(m, t) = m /\ SignalCandidates(m, t) = m
  <1>1. ASSUME ~m.rt[t].settled PROVE Reached(m, t) = m
    <2>1. (m.stray \/ m.rt[t].settled) = m.stray
      BY <1>1 DEF MemoryType
    <2>2. [m EXCEPT !.stray = m.stray] = m
      BY DEF MemoryType
    <2> QED
      BY <2>1, <2>2 DEF Reached
  <1>2. SignalCandidates(m, t) = m
    BY <1>1 DEF SignalCandidates
  <1> QED
    BY <1>1, <1>2 DEF SignalGroup

\* A stage is entered with its deadline, if it has one.
LEMMA StageTouches ==
  ASSUME NEW m \in MemoryType, NEW t \in Tasks, NEW stage \in Stages
  PROVE  LET n == SetStage(m, t, stage)
             r == m.rt[t]
             s == n.rt[t]
         IN /\ n \in MemoryType /\ Touches(m, n, t) /\ n.mem = m.mem /\ n.disk = m.disk
            /\ n.storageFailed = m.storageFailed
            /\ s.owned = r.owned /\ s.sealed = r.sealed /\ s.settled = r.settled /\ s.pty = r.pty
            /\ s.drain = r.drain /\ s.waiters = r.waiters /\ s.pending = r.pending
            /\ s.terminate = r.terminate /\ s.kin = r.kin /\ s.outputFailed = r.outputFailed
            /\ s.stage = stage
            /\ IF stage \in {"grace", "term", "kill"} THEN s.timer ELSE ~s.timer
  <1> DEFINE timer == stage \in {"grace", "term", "kill"}
             s == [m.rt[t] EXCEPT !.stage = stage, !.timer = timer]
             n == [m EXCEPT !.rt[t] = s]
  <1>1. m.rt[t] \in RuntimeType /\ m.rt \in [Tasks -> RuntimeType]
    BY DEF MemoryType
  <1>2. timer \in BOOLEAN
    OBVIOUS
  <1>3. SetStage(m, t, stage) = n
    <2> HIDE DEF timer
    <2>1. SetStage(m, t, stage) = [m EXCEPT !.rt[t].stage = stage, !.rt[t].timer = timer]
      BY DEF SetStage, timer
    <2>2. [m.rt EXCEPT ![t].stage = stage, ![t].timer = timer] = [m.rt EXCEPT ![t] = s]
      BY <1>1 DEF RuntimeType
    <2> QED
      BY <2>1, <2>2 DEF MemoryType
  <1> HIDE DEF timer
  <1>4. /\ s \in RuntimeType /\ s.owned = m.rt[t].owned /\ s.sealed = m.rt[t].sealed
        /\ s.settled = m.rt[t].settled /\ s.pty = m.rt[t].pty
        /\ s.drain = m.rt[t].drain /\ s.waiters = m.rt[t].waiters /\ s.pending = m.rt[t].pending
        /\ s.terminate = m.rt[t].terminate /\ s.kin = m.rt[t].kin
        /\ s.outputFailed = m.rt[t].outputFailed
        /\ s.stage = stage /\ s.timer = timer
    BY <1>1, <1>2 DEF RuntimeType
  <1> HIDE DEF s
  <1>5. /\ n \in MemoryType /\ Touches(m, n, t) /\ n.rt[t] = s /\ n.mem = m.mem /\ n.disk = m.disk
        /\ n.storageFailed = m.storageFailed
    BY <1>4, RuntimeTouches
  <1> HIDE DEF n
  <1> QED
    BY <1>3, <1>4, <1>5 DEF timer

\* What _request_terminate makes of a runtime: the group is being stopped.
Stopping(r, s) ==
  /\ s.owned = r.owned /\ s.sealed = r.sealed /\ s.settled = r.settled /\ s.pty = r.pty
  /\ s.drain = r.drain /\ s.waiters = r.waiters /\ s.pending = r.pending
  /\ s.stage \in {"term", "kill"}
  /\ s.timer \/ (s.stage = r.stage /\ s.timer = r.timer)

\* _request_terminate touches the one task, and its group is being stopped.
LEMMA TerminateTouches ==
  ASSUME NEW m \in MemoryType, NEW t \in Tasks, NEW how \in Commits,
         m.rt[t].settled => m.rt[t].sealed
  PROVE  LET n == RequestTerminate(m, t, how) IN
         /\ n \in MemoryType /\ Touches(m, n, t) /\ n.mem = m.mem
         /\ n.disk = m.disk \/ n.disk = m.mem
         /\ Stopping(m.rt[t], n.rt[t])
  <1> DEFINE terminate == m.rt[t].terminate \/ m.shutting = "none"
             s == [m.rt[t] EXCEPT !.terminate = terminate]
             asked == [m EXCEPT !.rt[t] = s]
  <1>1. m.rt[t] \in RuntimeType /\ m.rt \in [Tasks -> RuntimeType]
    BY DEF MemoryType
  <1>2. terminate \in BOOLEAN
    OBVIOUS
  <1>3. [m EXCEPT !.rt[t].terminate = m.rt[t].terminate \/ m.shutting = "none"] = asked
    BY <1>1 DEF MemoryType
  <1>4. RequestTerminate(m, t, how) =
          CASE m.rt[t].stage = "unconfirmed" -> SignalGroup(MarkRecord(SetStage(asked, t, "kill"), t, how), t)
            [] m.rt[t].stage \in {"none", "grace"} -> SignalGroup(MarkRecord(SetStage(asked, t, "term"), t, how), t)
            [] OTHER -> asked
    BY <1>3 DEF RequestTerminate
  <1> HIDE DEF terminate
  <1>5. /\ s \in RuntimeType /\ s.owned = m.rt[t].owned /\ s.sealed = m.rt[t].sealed
        /\ s.settled = m.rt[t].settled /\ s.pty = m.rt[t].pty
        /\ s.drain = m.rt[t].drain /\ s.waiters = m.rt[t].waiters /\ s.pending = m.rt[t].pending
        /\ s.stage = m.rt[t].stage /\ s.timer = m.rt[t].timer
    BY <1>1, <1>2 DEF RuntimeType
  <1> HIDE DEF s
  <1>6. /\ asked \in MemoryType /\ Touches(m, asked, t) /\ asked.rt[t] = s /\ asked.mem = m.mem
        /\ asked.disk = m.disk
    BY <1>5, RuntimeTouches
  <1> HIDE DEF asked
  <1>7. ASSUME NEW stage \in {"term", "kill"}
        PROVE  LET n == SignalGroup(MarkRecord(SetStage(asked, t, stage), t, how), t) IN
               /\ n \in MemoryType /\ Touches(m, n, t) /\ n.mem = m.mem
               /\ n.disk = m.disk \/ n.disk = m.mem
               /\ Stopping(m.rt[t], n.rt[t])
    <2> DEFINE staged == SetStage(asked, t, stage)
               n == MarkRecord(staged, t, how)
    <2>1. /\ staged \in MemoryType /\ Touches(asked, staged, t) /\ staged.mem = m.mem
          /\ staged.disk = m.disk /\ Stopping(m.rt[t], staged.rt[t]) /\ staged.rt[t].settled = s.settled
          /\ staged.rt[t].sealed = s.sealed
      <3>1. stage \in Stages /\ stage \in {"grace", "term", "kill"}
        BY DEF Stages
      <3>2. LET w == staged.rt[t] IN
            /\ staged \in MemoryType /\ Touches(asked, staged, t) /\ staged.mem = asked.mem
            /\ staged.disk = asked.disk
            /\ w.owned = s.owned /\ w.sealed = s.sealed /\ w.settled = s.settled /\ w.pty = s.pty
            /\ w.drain = s.drain /\ w.waiters = s.waiters /\ w.pending = s.pending
            /\ w.stage = stage /\ w.timer
        BY <1>6, <3>1, StageTouches
      <3> HIDE DEF staged
      <3> QED
        BY <1>5, <1>6, <3>2 DEF Stopping
    <2> HIDE DEF staged
    <2>2. /\ n \in MemoryType /\ Touches(staged, n, t) /\ n.rt = staged.rt /\ n.mem = staged.mem
      BY <2>1, MarkTouches
    <2>3. n.disk = m.disk \/ n.disk = m.mem
      <3>1. staged.mem \in [Tasks -> RecordType]
        BY <2>1 DEF MemoryType
      <3>2. [staged.mem EXCEPT ![t] = staged.mem[t]] = staged.mem
        BY <3>1
      <3>3. n.disk = staged.disk \/ n.disk = [staged.mem EXCEPT ![t] = staged.mem[t]]
        BY <2>1 DEF MarkRecord, Commit, MemoryType
      <3> QED
        BY <2>1, <3>2, <3>3
    <2> HIDE DEF n
    <2>4. SignalGroup(n, t) = n
      BY <1>5, <2>1, <2>2, NoSignalStrays
    <2>5. Touches(m, n, t)
      BY <1>6, <2>1, <2>2, TouchesCompose
    <2> QED
      BY <2>1, <2>2, <2>3, <2>4, <2>5 DEF n, staged
  <1>8. CASE m.rt[t].stage \in {"term", "kill"}
    <2>1. RequestTerminate(m, t, how) = asked
      BY <1>4, <1>8
    <2> QED
      BY <1>5, <1>6, <1>8, <2>1 DEF Stopping
  <1>9. CASE m.rt[t].stage = "unconfirmed"
    <2>1. RequestTerminate(m, t, how) = SignalGroup(MarkRecord(SetStage(asked, t, "kill"), t, how), t)
      BY <1>4, <1>9
    <2> QED
      BY <1>7, <2>1
  <1>10. CASE m.rt[t].stage \in {"none", "grace"}
    <2>1. RequestTerminate(m, t, how) = SignalGroup(MarkRecord(SetStage(asked, t, "term"), t, how), t)
      BY <1>4, <1>10
    <2> QED
      BY <1>7, <2>1
  <1>11. m.rt[t].stage \in Stages
    BY <1>1 DEF RuntimeType
  <1> QED
    BY <1>8, <1>9, <1>10, <1>11 DEF Stages

\* A handler that touches one task, and leaves that one well, leaves all well.
LEMMA OneTaskStep ==
  ASSUME NEW m \in MemoryType, NEW n \in MemoryType, NEW t \in Tasks,
         NEW p, NEW q, NEW d, NEW e, NEW k \in Nat, NEW l \in Nat, k <= l,
         MemoryInv(m, p, d, k), Touches(m, n, t),
         \A u \in Tasks : u # t => q[u] = p[u] /\ e[u] = d[u],
         TaskOK(n, q[t], e[t], t),
         t > l \/ Waits(m, t) => FreshTask(n, q[t], e[t], t),
         n.up /\ n.shutting = "none" /\ n.conn # "open" => n.rt[t].waiters = 0
  PROVE  MemoryInv(n, q, e, l)
  <1>1. /\ n.up = m.up /\ n.shutting = m.shutting /\ n.deferred = m.deferred /\ n.conn = m.conn
        /\ n.stray = m.stray /\ \A u \in Tasks : u # t => n.rt[u] = m.rt[u]
    BY DEF Touches
  <1>2. ASSUME NEW u \in Tasks PROVE TaskOK(n, q[u], e[u], u)
    <2>1. CASE u = t
      BY <2>1
    <2>2. CASE u # t
      <3>1. TaskOK(m, p[u], d[u], u)
        BY DEF MemoryInv, TasksInv
      <3>2. TaskOK(n, p[u], d[u], u)
        BY <2>2, <3>1, OthersStayOK
      <3> QED
        BY <2>2, <3>2
    <2> QED
      BY <2>1, <2>2
  <1>3. ASSUME NEW u \in Tasks, u > l \/ Waits(n, u) PROVE FreshTask(n, q[u], e[u], u)
    <2>1. u \in Nat /\ (u > k \/ Waits(m, u)) /\ (u > l \/ Waits(m, u))
      BY <1>1, <1>3, BgTasksAssumption DEF Waits, Tasks
    <2>2. CASE u = t
      BY <2>1, <2>2
    <2>3. CASE u # t
      <3>1. FreshTask(m, p[u], d[u], u)
        BY <2>1 DEF MemoryInv, TasksInv
      <3>2. FreshTask(n, p[u], d[u], u)
        BY <2>3, <3>1, OthersStayOK
      <3> QED
        BY <2>3, <3>2
    <2> QED
      BY <2>2, <2>3
  <1>4. QueueOK(n, l)
    <2>1. QueueOK(m, k) /\ m.deferred \in Seq(Tasks)
      BY DEF MemoryInv, TasksInv, MemoryType
    <2>2. \A i \in 1..Len(m.deferred) : m.deferred[i] \in Nat
      BY <2>1, BgTasksAssumption DEF Tasks
    <2> QED
      BY <1>1, <2>1, <2>2 DEF QueueOK
  <1>5. HandoffOK(n)
    <2>1. HandoffOK(m)
      BY DEF MemoryInv, TasksInv
    <2> QED
      BY <1>1, <2>1 DEF HandoffOK
  <1>6. ~n.stray
    BY <1>1 DEF MemoryInv, TasksInv
  <1> QED
    BY <1>2, <1>3, <1>4, <1>5, <1>6 DEF MemoryInv, TasksInv

\* A task that is owned was launched.
LEMMA OwnedIsKnown ==
  ASSUME NEW m \in MemoryType, NEW t \in Tasks, NEW p, NEW d, NEW k \in Nat,
         MemoryInv(m, p, d, k), m.rt[t].owned
  PROVE  ~(t > k) /\ ~Waits(m, t)
  <1>1. ~FreshTask(m, p[t], d[t], t)
    BY DEF FreshTask, NoRuntime
  <1> QED
    BY <1>1 DEF MemoryInv, TasksInv

\* A handler that leaves the task's outcome alone only has to keep the runtime well.
LEMMA RuntimeStep ==
  ASSUME NEW m \in MemoryType, NEW n \in MemoryType, NEW t \in Tasks, NEW p, NEW d,
         TaskOK(m, p, d, t), Touches(m, n, t), n.mem[t] = m.mem[t],
         n.disk[t] = m.disk[t] \/ n.disk[t] = m.mem[t],
         n.rt[t].owned = m.rt[t].owned, RuntimeOK(n.rt[t], p)
  PROVE  TaskOK(n, p, d, t)
  <1>1. /\ n.up = m.up /\ n.shutting = m.shutting
        /\ m.storageFailed => n.storageFailed
    BY DEF Touches
  <1>2. RecordOK(n.mem[t], p, d) /\ RecordOK(n.disk[t], p, d)
    BY DEF TaskOK
  <1>3. /\ n.rt[t].owned => n.mem[t] = Record("running")
        /\ Finalized(n.mem[t]) => n.disk[t].reason \in {n.mem[t].reason, "absent"}
    BY DEF TaskOK
  <1>4. n.up /\ n.mem[t].reason = "running" /\ ~n.rt[t].owned =>
          n.storageFailed /\ (p.leader = "none" \/ n.shutting # "none")
    BY <1>1 DEF TaskOK
  <1> QED
    BY <1>2, <1>3, <1>4, ClearingIs DEF TaskOK

-----------------------------------------------------------------------------
(* Outcomes *)

\* n is well of t, and owes no reply that m did not.
LeavesWell(m, n, p, d, t) ==
  /\ n \in MemoryType /\ Touches(m, n, t) /\ TaskOK(n, p, d, t)
  /\ m.rt[t].waiters = 0 => n.rt[t].waiters = 0

\* The task has no runtime any more.
LEMMA NoRuntimeWell ==
  /\ NoRuntime \in RuntimeType /\ ~NoRuntime.owned /\ NoRuntime.waiters = 0
  /\ \A p : RuntimeOK(NoRuntime, p)
  <1>1. /\ NoRuntime \in RuntimeType /\ ~NoRuntime.owned /\ NoRuntime.waiters = 0
    BY DEF NoRuntime, RuntimeType, Stages
  <1>2. ASSUME NEW p PROVE RuntimeOK(NoRuntime, p)
    BY DEF NoRuntime, RuntimeOK
  <1> QED
    BY <1>1, <1>2

\* A true outcome of an owned task is committed: then the runtime goes; or it is not, and
\* stays pending, unless the supervisor shuts down.
LEMMA CommitOutcomeWell ==
  ASSUME NEW m \in MemoryType, NEW t \in Tasks, NEW p, NEW d, NEW how \in Commits,
         m.mem[t] = Record("running"), RecordOK(m.mem[t], p, d), RecordOK(m.disk[t], p, d),
         m.rt[t].owned, m.rt[t].pending \notin {"none", "running"},
         TrueOutcome(m.rt[t].pending, p),
         m.shutting = "none" => RuntimeOK(m.rt[t], p)
  PROVE  LeavesWell(m, CommitOutcome(m, t, how), p, d, t)
  <1>1. m.rt[t] \in RuntimeType /\ m.rt[t].pending \in Reasons
    BY DEF MemoryType, RuntimeType
  <1>c. PICK c \in RecordType : c = Record(m.rt[t].pending)
    BY <1>1 DEF Record, RecordType
  <1> DEFINE done == Commit(m, t, c, how)
  <1>2. c \in RecordType /\ c.reason = m.rt[t].pending /\ c.clearing = FALSE /\ c # NoRecord
    BY <1>1, <1>c DEF Record, RecordType, NoRecord, Reasons, Ends
  <1>3. RecordOK(c, p, d)
    <2>1. Record("running") # NoRecord /\ Record("running").clearing = FALSE
      BY DEF Record, NoRecord
    <2>2. d = "tasks"
      BY <2>1 DEF RecordOK
    <2> QED
      BY <1>2, <2>2 DEF RecordOK
  <1>4. /\ done \in MemoryType /\ Touches(m, done, t) /\ done.rt = m.rt
        /\ \/ how = "ok" /\ done.mem[t] = c /\ done.disk[t] = c
           \/ how # "ok" /\ done.mem[t] = m.mem[t] /\ done.storageFailed
              /\ (done.disk[t] = m.disk[t] \/ done.disk[t] = c)
    BY CommitTouches
  <1> HIDE DEF done
  <1>5. RecordOK(done.mem[t], p, d) /\ RecordOK(done.disk[t], p, d)
    BY <1>3, <1>4
  <1>6. ~Finalized(Record("running")) /\ Record("running").reason = "running"
    BY DEF Finalized, Record
  <1>11. ClearingOK(done.mem[t], done.disk[t], d)
    <2>1. Record("running").clearing = FALSE
      BY DEF Record
    <2> QED
      BY <1>2, <1>4, <2>1, ClearingIs
  <1>7. Finalized(done.mem[t]) => done.disk[t].reason \in {done.mem[t].reason, "absent"}
    BY <1>4, <1>6
  <1>8. done.shutting = m.shutting /\ done.up = m.up
    BY <1>4 DEF Touches
  <1>9. CASE how # "ok" /\ m.shutting = "none"
    <2>1. CommitOutcome(m, t, how) = done
      BY <1>c, <1>9 DEF CommitOutcome, done
    <2>2. TaskOK(done, p, d, t)
      BY <1>4, <1>5, <1>7, <1>9, <1>11 DEF TaskOK
    <2> QED
      BY <1>4, <2>1, <2>2 DEF LeavesWell
  <1>10. CASE ~(how # "ok" /\ m.shutting = "none")
    <2> DEFINE n == [done EXCEPT !.rt[t] = NoRuntime]
    <2>1. CommitOutcome(m, t, how) = n
      BY <1>c, <1>10 DEF CommitOutcome, done
    <2>2. /\ n \in MemoryType /\ Touches(done, n, t) /\ n.rt[t] = NoRuntime
          /\ n.mem = done.mem /\ n.disk = done.disk /\ n.storageFailed = done.storageFailed
      BY <1>4, NoRuntimeWell, RuntimeTouches
    <2> HIDE DEF n
    <2>3. n.up = m.up /\ n.shutting = m.shutting
      BY <1>8, <2>2 DEF Touches
    <2>4. n.mem[t].reason = "running" => n.storageFailed /\ n.shutting # "none"
      BY <1>2, <1>4, <1>10, <2>2, <2>3
    <2>5. TaskOK(n, p, d, t)
      BY <1>5, <1>7, <1>11, <2>2, <2>4, NoRuntimeWell DEF TaskOK
    <2>6. Touches(m, n, t)
      BY <1>4, <2>2, TouchesCompose
    <2> QED
      BY <2>1, <2>2, <2>5, <2>6, NoRuntimeWell DEF LeavesWell
  <1> QED
    BY <1>9, <1>10

\* An outcome is claimed to have been observed only of a group that settled.
LEMMA DecidedOutcomeIsTrue ==
  ASSUME NEW m \in MemoryType, NEW t \in Tasks, NEW p, NEW confirmed \in BOOLEAN,
         confirmed => p.leader = proc[t].leader /\ p.leader \in Ends /\ ~p.kin
  PROVE  LET reason == DecideOutcome(m, t, confirmed) IN
         /\ reason \in Reasons \ {"running"} /\ TrueOutcome(reason, p)
  <1> DEFINE reason == DecideOutcome(m, t, confirmed)
  <1>1. CASE ~confirmed
    <2>1. reason = "cleanup_unconfirmed"
      BY <1>1 DEF DecideOutcome
    <2> QED
      BY <2>1 DEF Reasons, TrueOutcome, Unobserved
  <1>2. CASE confirmed
    <2>1. \/ reason \in {"owner_lost", "session_shutdown", "terminated", "output_failed",
                         "descendants_remaining", "output_drain_timeout"}
          \/ reason = p.leader
      BY <1>2 DEF DecideOutcome
    <2> QED
      BY <1>2, <2>1 DEF Reasons, Ends, TrueOutcome
  <1> QED
    BY <1>1, <1>2

\* _finalize of an owned task; when it is not sure that the group ended, the supervisor
\* shuts down.
LEMMA FinalizeWell ==
  ASSUME NEW m \in MemoryType, NEW t \in Tasks, NEW p, NEW d, NEW how \in Commits,
         NEW confirmed \in BOOLEAN,
         m.mem[t] = Record("running"), RecordOK(m.mem[t], p, d), RecordOK(m.disk[t], p, d),
         m.rt[t].owned, confirmed => p.leader = proc[t].leader /\ p.leader \in Ends /\ ~p.kin,
         m.shutting = "none" => RuntimeOK(m.rt[t], p)
  PROVE  LeavesWell(m, Finalize(m, t, confirmed, how), p, d, t)
  <1> DEFINE reason == DecideOutcome(m, t, confirmed)
             s == [m.rt[t] EXCEPT !.pending = reason]
             n == [m EXCEPT !.rt[t] = s]
  <1>1. reason \in Reasons \ {"running"} /\ TrueOutcome(reason, p)
    BY DecidedOutcomeIsTrue
  <1>2. m.rt[t] \in RuntimeType /\ m.rt \in [Tasks -> RuntimeType]
    BY DEF MemoryType
  <1>3. Finalize(m, t, confirmed, how) = CommitOutcome(n, t, how)
    <2>1. [m EXCEPT !.rt[t].pending = reason] = n
      BY <1>2 DEF MemoryType
    <2> QED
      BY <2>1 DEF Finalize
  <1> HIDE DEF reason
  <1>4. /\ s \in RuntimeType /\ s.pending = reason /\ s.owned = m.rt[t].owned
        /\ s.waiters = m.rt[t].waiters /\ s.sealed = m.rt[t].sealed /\ s.settled = m.rt[t].settled
        /\ s.stage = m.rt[t].stage /\ s.timer = m.rt[t].timer /\ s.pty = m.rt[t].pty
        /\ s.drain = m.rt[t].drain
    BY <1>1, <1>2 DEF RuntimeType
  <1> HIDE DEF s
  <1>5. /\ n \in MemoryType /\ Touches(m, n, t) /\ n.rt[t] = s /\ n.mem = m.mem /\ n.disk = m.disk
    BY <1>4, RuntimeTouches
  <1> HIDE DEF n
  <1>6. n.shutting = m.shutting
    BY <1>5 DEF Touches
  <1>7. m.shutting = "none" => RuntimeOK(s, p)
    BY <1>1, <1>4 DEF RuntimeOK
  <1>8. reason \notin {"none", "running"}
    BY <1>1 DEF Reasons, Ends
  <1>9. LeavesWell(n, CommitOutcome(n, t, how), p, d, t)
    BY <1>1, <1>4, <1>5, <1>6, <1>7, <1>8, CommitOutcomeWell
  <1>10. Touches(m, CommitOutcome(n, t, how), t)
    BY <1>5, <1>9, TouchesCompose DEF LeavesWell
  <1> QED
    BY <1>3, <1>4, <1>5, <1>9, <1>10 DEF LeavesWell

\* _maybe_finalize of an owned task.
LEMMA MaybeFinalizeWell ==
  ASSUME NEW m \in MemoryType, NEW t \in Tasks, NEW p, NEW d, NEW how \in Commits,
         TaskOK(m, p, d, t), m.rt[t].owned, p = proc[t]
  PROVE  LeavesWell(m, MaybeFinalize(m, t, how), p, d, t)
  <1>1. /\ RuntimeOK(m.rt[t], p) /\ RecordOK(m.mem[t], p, d) /\ RecordOK(m.disk[t], p, d)
        /\ m.mem[t] = Record("running")
    BY DEF TaskOK
  <1>2. CASE m.rt[t].pending # "none"
    <2>1. m.rt[t].pending # "running" /\ TrueOutcome(m.rt[t].pending, p)
      BY <1>1, <1>2 DEF RuntimeOK
    <2>2. MaybeFinalize(m, t, how) = CommitOutcome(m, t, how)
      BY <1>2 DEF MaybeFinalize
    <2> QED
      BY <1>1, <1>2, <2>1, <2>2, CommitOutcomeWell
  <1>3. CASE m.rt[t].pending = "none" /\ m.rt[t].settled /\ m.rt[t].pty # "open"
    <2>1. p.leader = proc[t].leader /\ p.leader \in Ends /\ ~p.kin
      BY <1>1, <1>3 DEF RuntimeOK
    <2>2. PICK confirmed \in BOOLEAN : confirmed
      OBVIOUS
    <2>3. confirmed = TRUE
      BY <2>2
    <2>4. MaybeFinalize(m, t, how) = Finalize(m, t, confirmed, how)
      BY <1>3, <2>3 DEF MaybeFinalize
    <2>5. LeavesWell(m, Finalize(m, t, confirmed, how), p, d, t)
      BY <1>1, <2>1, FinalizeWell
    <2> QED
      BY <2>4, <2>5
  <1>4. CASE m.rt[t].pending = "none" /\ ~(m.rt[t].settled /\ m.rt[t].pty # "open")
    <2>1. MaybeFinalize(m, t, how) = m
      BY <1>4 DEF MaybeFinalize
    <2>2. Touches(m, m, t)
      BY DEF Touches
    <2> QED
      BY <2>1, <2>2 DEF LeavesWell
  <1> QED
    BY <1>2, <1>3, <1>4

-----------------------------------------------------------------------------
(* Observations and deadlines *)

\* A new runtime of an owned task that is well.
LEMMA NewRuntimeWell ==
  ASSUME NEW m \in MemoryType, NEW n \in MemoryType, NEW t \in Tasks, NEW p, NEW d,
         TaskOK(m, p, d, t), Touches(m, n, t), n.mem = m.mem, n.disk = m.disk,
         n.rt[t].owned = m.rt[t].owned, RuntimeOK(n.rt[t], p),
         m.rt[t].waiters = 0 => n.rt[t].waiters = 0
  PROVE  LeavesWell(m, n, p, d, t)
  BY RuntimeStep DEF LeavesWell

\* Handlers that leave a task well compose.
LEMMA WellCompose ==
  ASSUME NEW k \in MemoryType, NEW m, NEW n, NEW t \in Tasks, NEW p, NEW d,
         LeavesWell(k, m, p, d, t), LeavesWell(m, n, p, d, t)
  PROVE  LeavesWell(k, n, p, d, t)
  <1>1. m \in MemoryType /\ n \in MemoryType /\ Touches(k, m, t) /\ Touches(m, n, t)
    BY DEF LeavesWell
  <1>2. Touches(k, n, t)
    BY <1>1, TouchesCompose
  <1> QED
    BY <1>1, <1>2 DEF LeavesWell

\* A phase is written.
LEMMA MarkWell ==
  ASSUME NEW m \in MemoryType, NEW t \in Tasks, NEW p, NEW d, NEW how \in Commits,
         TaskOK(m, p, d, t)
  PROVE  LeavesWell(m, MarkRecord(m, t, how), p, d, t) /\ MarkRecord(m, t, how).rt = m.rt
  <1> DEFINE n == MarkRecord(m, t, how)
  <1>1. /\ n \in MemoryType /\ Touches(m, n, t) /\ n.rt = m.rt /\ n.mem = m.mem
        /\ n.disk[t] = m.disk[t] \/ n.disk[t] = m.mem[t]
    BY MarkTouches
  <1> HIDE DEF n
  <1>2. RuntimeOK(n.rt[t], p)
    BY <1>1 DEF TaskOK
  <1>3. TaskOK(n, p, d, t)
    BY <1>1, <1>2, RuntimeStep
  <1> QED
    BY <1>1, <1>3 DEF LeavesWell, n

\* A stage with a deadline is entered.
LEMMA StageWell ==
  ASSUME NEW m \in MemoryType, NEW t \in Tasks, NEW p, NEW d, TaskOK(m, p, d, t), m.rt[t].owned,
         NEW stage \in {"grace", "term", "kill"}
  PROVE  LET n == SetStage(m, t, stage) IN
         /\ LeavesWell(m, n, p, d, t) /\ n.rt[t] \in RuntimeType /\ n.rt[t].owned
         /\ n.rt[t].settled => n.rt[t].sealed
  <1> DEFINE n == SetStage(m, t, stage)
  <1>1. stage \in Stages /\ stage \in {"grace", "term", "kill"}
    BY DEF Stages
  <1>2. LET r == m.rt[t]
            s == n.rt[t]
        IN /\ n \in MemoryType /\ Touches(m, n, t) /\ n.mem = m.mem /\ n.disk = m.disk
           /\ s.owned = r.owned /\ s.sealed = r.sealed /\ s.settled = r.settled /\ s.pty = r.pty
           /\ s.drain = r.drain /\ s.waiters = r.waiters /\ s.pending = r.pending
           /\ s.stage = stage /\ s.timer
    BY ONLY <1>1, m \in MemoryType, t \in Tasks, StageTouches
  <1> HIDE DEF n
  <1>4. RuntimeOK(m.rt[t], p)
    BY DEF TaskOK
  <1>5. RuntimeOK(n.rt[t], p)
    BY <1>1, <1>2, <1>4 DEF RuntimeOK
  <1>6. TaskOK(n, p, d, t)
    BY <1>2, <1>5, RuntimeStep
  <1>7. n.rt[t] \in RuntimeType
    BY <1>2 DEF MemoryType
  <1>8. n.rt[t].settled => n.rt[t].sealed
    BY <1>5 DEF RuntimeOK
  <1> QED
    BY <1>2, <1>6, <1>7, <1>8 DEF LeavesWell, n

\* What waitpid says of a group whose leader is gone.
LEMMA CheckGroupWell ==
  ASSUME proc \in [Tasks -> ProcType],
         NEW m \in MemoryType, NEW t \in Tasks, NEW d, TaskOK(m, proc[t], d, t),
         m.rt[t].owned, m.rt[t].sealed, ~m.rt[t].settled
  PROVE  LeavesWell(m, CheckGroup(m, t), proc[t], d, t) /\ CheckGroup(m, t).rt[t].owned
  <1>1. RuntimeOK(m.rt[t], proc[t]) /\ m.rt[t] \in RuntimeType /\ m.rt \in [Tasks -> RuntimeType]
    BY DEF TaskOK, MemoryType
  <1>2. LeavesWell(m, m, proc[t], d, t)
    BY DEF LeavesWell, Touches
  <1>3. CASE ~proc[t].kin
    <2> DEFINE drain == m.rt[t].pty = "open"
    <2>1. PICK yes \in BOOLEAN, no \in BOOLEAN : yes = TRUE /\ no = FALSE
      OBVIOUS
    <2> DEFINE s == [m.rt[t] EXCEPT !.settled = yes, !.timer = no, !.drain = drain]
    <2>2. CheckGroup(m, t) = [m EXCEPT !.rt[t] = s]
      <3>1. CheckGroup(m, t) = [m EXCEPT !.rt[t].settled = yes, !.rt[t].timer = no, !.rt[t].drain = drain]
        BY <1>3, <2>1 DEF CheckGroup
      <3> HIDE DEF drain
      <3>2. [m.rt EXCEPT ![t].settled = yes, ![t].timer = no, ![t].drain = drain] = [m.rt EXCEPT ![t] = s]
        BY <1>1 DEF RuntimeType
      <3> QED
        BY <3>1, <3>2 DEF MemoryType
    <2>3. drain \in BOOLEAN /\ (m.rt[t].pty = "open" => drain)
      OBVIOUS
    <2> HIDE DEF drain
    <2>4. /\ s \in RuntimeType /\ s.owned = m.rt[t].owned /\ s.sealed = m.rt[t].sealed
          /\ s.settled = yes /\ s.timer = no /\ s.pty = m.rt[t].pty /\ s.drain = drain
          /\ s.waiters = m.rt[t].waiters /\ s.stage = m.rt[t].stage /\ s.pending = m.rt[t].pending
      BY <1>1, <2>1, <2>3 DEF RuntimeType
    <2> HIDE DEF s
    <2>5. RuntimeOK(s, proc[t])
      BY <1>1, <1>3, <2>1, <2>3, <2>4 DEF RuntimeOK
    <2>6. PICK n \in MemoryType : n = [m EXCEPT !.rt[t] = s]
      BY <2>4, RuntimeTouches
    <2>7. Touches(m, n, t) /\ n.mem = m.mem /\ n.disk = m.disk /\ n.rt[t] = s
      BY <2>4, <2>6, RuntimeTouches
    <2>8. LeavesWell(m, n, proc[t], d, t)
      BY <2>4, <2>5, <2>7, NewRuntimeWell
    <2> QED
      BY <2>2, <2>4, <2>6, <2>7, <2>8
  <1>4. CASE proc[t].kin /\ m.rt[t].stage = "none"
    <2>1. \E stage \in {"grace", "term"} :
            \/ CheckGroup(m, t) = SetStage(m, t, stage)
            \/ CheckGroup(m, t) = SignalCandidates(SetStage(m, t, stage), t)
      BY <1>4 DEF CheckGroup
    <2>2. PICK stage \in {"grace", "term"} :
            \/ CheckGroup(m, t) = SetStage(m, t, stage)
            \/ CheckGroup(m, t) = SignalCandidates(SetStage(m, t, stage), t)
      BY <2>1
    <2>3. LET n == SetStage(m, t, stage) IN
          /\ LeavesWell(m, n, proc[t], d, t) /\ n.rt[t].owned
          /\ n.rt[t].settled => n.rt[t].sealed
      BY StageWell
    <2>4. SignalCandidates(SetStage(m, t, stage), t) = SetStage(m, t, stage)
      BY <2>3, NoSignalStrays DEF LeavesWell
    <2> QED
      BY <2>2, <2>3, <2>4
  <1>5. CASE proc[t].kin /\ m.rt[t].stage # "none"
    <2>1. SignalCandidates(m, t) = m
      BY NoSignalStrays
    <2>2. CheckGroup(m, t) = m
      BY <1>5, <2>1 DEF CheckGroup
    <2> QED
      BY <1>2, <2>2
  <1> QED
    BY <1>3, <1>4, <1>5

\* _reap_children for one task.
LEMMA ReapWell ==
  ASSUME proc \in [Tasks -> ProcType],
         NEW m \in MemoryType, NEW t \in Tasks, NEW d, NEW how \in Commits,
         TaskOK(m, proc[t], d, t), m.rt[t].owned
  PROVE  LeavesWell(m, ReapTask(m, t, how), proc[t], d, t)
  <1>1. RuntimeOK(m.rt[t], proc[t]) /\ m.rt[t] \in RuntimeType /\ m.rt \in [Tasks -> RuntimeType]
    BY DEF TaskOK, MemoryType
  <1> DEFINE Sealed == IF m.rt[t].sealed \/ proc[t].leader = "live" THEN m
                       ELSE MarkRecord([m EXCEPT !.rt[t].sealed = TRUE], t, how)
             Checked(k) == IF k.rt[t].sealed /\ ~k.rt[t].settled THEN CheckGroup(k, t) ELSE k
  <1>2. ReapTask(m, t, how) = MaybeFinalize(Checked(Sealed), t, how)
    BY DEF ReapTask
  <1>3. LeavesWell(m, Sealed, proc[t], d, t) /\ Sealed.rt[t].owned
    <2>1. CASE m.rt[t].sealed \/ proc[t].leader = "live"
      BY <2>1 DEF LeavesWell, Touches
    <2>2. CASE ~(m.rt[t].sealed \/ proc[t].leader = "live")
      <3>1. PICK yes \in BOOLEAN : yes = TRUE
        OBVIOUS
      <3> DEFINE s == [m.rt[t] EXCEPT !.sealed = yes]
                 n == [m EXCEPT !.rt[t] = s]
      <3>2. Sealed = MarkRecord(n, t, how)
        <4>1. [m EXCEPT !.rt[t].sealed = TRUE] = n
          BY <1>1, <3>1 DEF MemoryType
        <4> QED
          BY <2>2, <4>1
      <3>3. /\ s \in RuntimeType /\ s.owned = m.rt[t].owned /\ s.sealed = yes
            /\ s.settled = m.rt[t].settled /\ s.timer = m.rt[t].timer /\ s.pty = m.rt[t].pty
            /\ s.drain = m.rt[t].drain /\ s.waiters = m.rt[t].waiters /\ s.stage = m.rt[t].stage
            /\ s.pending = m.rt[t].pending
        BY <1>1 DEF RuntimeType
      <3> HIDE DEF s
      <3>4. proc[t].leader \in Ends
        BY <1>1, <2>2 DEF RuntimeOK
      <3>5. RuntimeOK(s, proc[t])
        BY <1>1, <3>1, <3>3, <3>4 DEF RuntimeOK
      <3>6. /\ n \in MemoryType /\ Touches(m, n, t) /\ n.mem = m.mem /\ n.disk = m.disk
            /\ n.rt[t] = s
        BY <3>3, RuntimeTouches
      <3> HIDE DEF n
      <3>8. LeavesWell(m, n, proc[t], d, t)
        BY <3>3, <3>5, <3>6, NewRuntimeWell
      <3>7. LeavesWell(n, MarkRecord(n, t, how), proc[t], d, t) /\ MarkRecord(n, t, how).rt = n.rt
        BY <3>8, MarkWell DEF LeavesWell
      <3> HIDE DEF Sealed
      <3> QED
        BY <3>2, <3>3, <3>6, <3>7, <3>8, WellCompose
    <2> QED
      BY <2>1, <2>2
  <1> HIDE DEF Sealed
  <1>4. PICK k : k = Sealed
    OBVIOUS
  <1>5. LeavesWell(k, Checked(k), proc[t], d, t) /\ Checked(k).rt[t].owned
    <2>1. CASE k.rt[t].sealed /\ ~k.rt[t].settled
      BY <1>3, <1>4, <2>1, CheckGroupWell DEF LeavesWell
    <2>2. CASE ~(k.rt[t].sealed /\ ~k.rt[t].settled)
      BY <1>3, <1>4, <2>2 DEF LeavesWell, Touches
    <2> QED
      BY <2>1, <2>2
  <1> HIDE DEF Checked
  <1>6. PICK n : n = Checked(k)
    OBVIOUS
  <1>7. LeavesWell(n, MaybeFinalize(n, t, how), proc[t], d, t)
    BY <1>5, <1>6, MaybeFinalizeWell DEF LeavesWell
  <1>8. LeavesWell(m, n, proc[t], d, t)
    BY <1>3, <1>4, <1>5, <1>6, WellCompose
  <1>9. LeavesWell(m, MaybeFinalize(n, t, how), proc[t], d, t)
    BY <1>7, <1>8, WellCompose
  <1> QED
    BY <1>2, <1>4, <1>6, <1>9

\* A terminate is asked for: the group is being stopped, whether or not somebody waits.
LEMMA StoppingIsOK ==
  ASSUME NEW r \in RuntimeType, NEW s \in RuntimeType, NEW p, NEW t, RuntimeOK(r, p),
         s.owned = r.owned, s.sealed = r.sealed, s.settled = r.settled, s.pty = r.pty,
         s.drain = r.drain, s.pending = r.pending, s.stage \in {"term", "kill"},
         s.timer \/ (s.stage = r.stage /\ s.timer = r.timer), s.owned
  PROVE  RuntimeOK(s, p)
  BY DEF RuntimeOK

\* _op_terminate.
LEMMA TerminateWell ==
  ASSUME NEW m \in MemoryType, NEW t \in Tasks, NEW p, NEW d, NEW how \in Commits,
         TaskOK(m, p, d, t), m.rt[t].owned
  PROVE  LET n == RequestTerminate([m EXCEPT !.rt[t].waiters = @ + 1, !.rt[t].terminate = TRUE], t, how)
         IN n \in MemoryType /\ Touches(m, n, t) /\ TaskOK(n, p, d, t)
  <1>1. RuntimeOK(m.rt[t], p) /\ m.rt[t] \in RuntimeType /\ m.rt \in [Tasks -> RuntimeType]
    BY DEF TaskOK, MemoryType
  <1>2. PICK yes \in BOOLEAN : yes = TRUE
    OBVIOUS
  <1> DEFINE w == m.rt[t].waiters + 1
             s == [m.rt[t] EXCEPT !.waiters = w, !.terminate = yes]
             k == [m EXCEPT !.rt[t] = s]
             n == RequestTerminate(k, t, how)
  <1>3. w \in Nat
    BY <1>1 DEF RuntimeType
  <1>4. [m EXCEPT !.rt[t].waiters = @ + 1, !.rt[t].terminate = TRUE] = k
    <2>1. [m EXCEPT !.rt[t].waiters = @ + 1, !.rt[t].terminate = TRUE] =
          [m EXCEPT !.rt[t].waiters = w, !.rt[t].terminate = yes]
      BY <1>1, <1>2 DEF MemoryType
    <2> HIDE DEF w
    <2>2. [m.rt EXCEPT ![t].waiters = w, ![t].terminate = yes] = [m.rt EXCEPT ![t] = s]
      BY <1>1 DEF RuntimeType
    <2> QED
      BY <2>1, <2>2 DEF MemoryType
  <1> HIDE DEF w
  <1>5. /\ s \in RuntimeType /\ s.owned = m.rt[t].owned /\ s.sealed = m.rt[t].sealed
        /\ s.settled = m.rt[t].settled /\ s.timer = m.rt[t].timer /\ s.pty = m.rt[t].pty
        /\ s.drain = m.rt[t].drain /\ s.stage = m.rt[t].stage
        /\ s.pending = m.rt[t].pending
    BY <1>1, <1>3 DEF RuntimeType
  <1> HIDE DEF s
  <1>6. /\ k \in MemoryType /\ Touches(m, k, t) /\ k.rt[t] = s /\ k.mem = m.mem /\ k.disk = m.disk
    BY <1>5, RuntimeTouches
  <1> HIDE DEF k
  <1>7. s.settled => s.sealed
    BY <1>1, <1>5 DEF RuntimeOK
  <1>8. /\ n \in MemoryType /\ Touches(k, n, t) /\ n.mem = k.mem
        /\ n.disk = k.disk \/ n.disk = k.mem
        /\ Stopping(k.rt[t], n.rt[t])
    BY <1>6, <1>7, TerminateTouches
  <1> HIDE DEF n
  <1>9. RuntimeOK(n.rt[t], p)
    <2>1. n.rt[t] \in RuntimeType
      BY <1>8 DEF MemoryType
    <2>2. Stopping(s, n.rt[t])
      BY <1>6, <1>8
    <2>3. LET r == n.rt[t] IN
          /\ r.owned = m.rt[t].owned /\ r.sealed = m.rt[t].sealed /\ r.settled = m.rt[t].settled
          /\ r.pty = m.rt[t].pty /\ r.drain = m.rt[t].drain /\ r.pending = m.rt[t].pending
          /\ r.stage \in {"term", "kill"} /\ r.owned
          /\ r.timer \/ (r.stage = m.rt[t].stage /\ r.timer = m.rt[t].timer)
      BY ONLY m.rt[t].owned, <1>5, <2>2 DEF Stopping
    <2> QED
      BY ONLY <1>1, <2>1, <2>3, StoppingIsOK
  <1>10. Touches(m, n, t)
    BY <1>6, <1>8, TouchesCompose
  <1>11. n.rt[t].owned = m.rt[t].owned
    BY <1>5, <1>6, <1>8 DEF Stopping
  <1>12. TaskOK(n, p, d, t)
    BY <1>6, <1>8, <1>9, <1>10, <1>11, RuntimeStep
  <1> QED
    BY <1>4, <1>8, <1>10, <1>12 DEF n

\* The last stage is over.
LEMMA StageSpentWell ==
  ASSUME NEW m \in MemoryType, NEW t \in Tasks, NEW p, NEW d, NEW how \in Commits,
         TaskOK(m, p, d, t), m.rt[t].owned
  PROVE  LeavesWell(m, StageSpent(SetStage(m, t, "unconfirmed"), t, how), p, d, t)
  <1>0. PICK last \in Stages : last = "unconfirmed"
    BY DEF Stages
  <1> DEFINE k == SetStage(m, t, last)
  <1>1. RuntimeOK(m.rt[t], p) /\ RecordOK(m.mem[t], p, d) /\ RecordOK(m.disk[t], p, d)
        /\ m.mem[t] = Record("running")
    BY DEF TaskOK
  <1>2. last \notin {"grace", "term", "kill"}
    BY <1>0
  <1>3. LET r == m.rt[t]
            s == k.rt[t]
        IN /\ k \in MemoryType /\ Touches(m, k, t) /\ k.mem = m.mem /\ k.disk = m.disk
           /\ s.owned = r.owned /\ s.sealed = r.sealed /\ s.settled = r.settled /\ s.pty = r.pty
           /\ s.drain = r.drain /\ s.waiters = r.waiters /\ s.pending = r.pending
           /\ s.stage = last /\ ~s.timer
    BY ONLY <1>2, last \in Stages, m \in MemoryType, t \in Tasks, StageTouches
  <1> HIDE DEF k
  <1>4. k.shutting = m.shutting
    BY <1>3 DEF Touches
  <1>5. CASE m.shutting # "none"
    <2>1. PICK no \in BOOLEAN : no = FALSE
      OBVIOUS
    <2>2. StageSpent(k, t, how) = Finalize(k, t, no, how)
      BY <1>4, <1>5, <2>1 DEF StageSpent
    <2>3. k.rt[t].owned /\ k.mem[t] = Record("running") /\ k.shutting # "none"
          /\ RecordOK(k.mem[t], p, d) /\ RecordOK(k.disk[t], p, d)
      BY <1>1, <1>3, <1>4, <1>5
    <2>4. LeavesWell(k, Finalize(k, t, no, how), p, d, t)
      BY <1>3, <2>1, <2>3, FinalizeWell
    <2>5. PICK n : n = Finalize(k, t, no, how)
      OBVIOUS
    <2>6. Touches(m, n, t)
      BY <1>3, <2>4, <2>5, TouchesCompose DEF LeavesWell
    <2>7. LeavesWell(m, n, p, d, t)
      BY <1>3, <2>4, <2>5, <2>6 DEF LeavesWell
    <2> QED
      BY <1>0, <2>2, <2>5, <2>7 DEF k
  <1>6. CASE m.shutting = "none"
    <2> DEFINE j == MarkRecord(k, t, how)
               s == [j.rt[t] EXCEPT !.waiters = 0]
               n == [j EXCEPT !.rt[t] = s]
    <2>1. /\ j \in MemoryType /\ Touches(k, j, t) /\ j.rt = k.rt /\ j.mem = k.mem
          /\ j.disk[t] = k.disk[t] \/ j.disk[t] = k.mem[t]
      BY <1>3, MarkTouches
    <2>2. StageSpent(k, t, how) = [j EXCEPT !.rt[t].waiters = 0]
      BY <1>4, <1>6 DEF StageSpent
    <2> HIDE DEF j
    <2>3. j.rt[t] \in RuntimeType /\ j.rt \in [Tasks -> RuntimeType]
      BY <2>1 DEF MemoryType
    <2>4. [j EXCEPT !.rt[t].waiters = 0] = n
      BY <2>1, <2>3 DEF MemoryType
    <2>a. LET r == j.rt[t] IN
          /\ s \in RuntimeType /\ s.owned = r.owned /\ s.sealed = r.sealed /\ s.settled = r.settled
          /\ s.timer = r.timer /\ s.pty = r.pty /\ s.drain = r.drain /\ s.stage = r.stage
          /\ s.waiters = 0 /\ s.pending = r.pending
      BY <2>3 DEF RuntimeType
    <2> HIDE DEF s
    <2>5. /\ s \in RuntimeType /\ s.owned = m.rt[t].owned /\ s.sealed = m.rt[t].sealed
          /\ s.settled = m.rt[t].settled /\ s.timer = j.rt[t].timer /\ s.pty = m.rt[t].pty
          /\ s.drain = m.rt[t].drain /\ s.stage = last /\ s.waiters = 0
          /\ s.pending = m.rt[t].pending
      BY <1>3, <2>1, <2>a
    <2>6. ~s.timer
      BY <1>3, <2>1, <2>5
    <2>7. RuntimeOK(s, p)
      BY <1>0, <1>1, <2>5, <2>6 DEF RuntimeOK
    <2>8. /\ n \in MemoryType /\ Touches(j, n, t) /\ n.mem = j.mem /\ n.disk = j.disk
          /\ n.rt[t] = s
      BY <2>1, <2>5, RuntimeTouches
    <2> HIDE DEF n
    <2>9. Touches(m, n, t)
      <3>1. Touches(m, j, t)
        BY <1>3, <2>1, TouchesCompose
      <3> QED
        BY <2>1, <2>8, <3>1, TouchesCompose
    <2>10. TaskOK(n, p, d, t)
      BY <1>3, <2>1, <2>5, <2>7, <2>8, <2>9, RuntimeStep
    <2> QED
      BY <1>0, <2>2, <2>4, <2>5, <2>8, <2>9, <2>10 DEF LeavesWell, k
  <1> QED
    BY <1>5, <1>6

\* A grace period is over, and its group gets a signal; then a harder one.
LEMMA StageStepWell ==
  ASSUME NEW m \in MemoryType, NEW t \in Tasks, NEW p, NEW d, TaskOK(m, p, d, t), m.rt[t].owned
  PROVE  /\ LeavesWell(m, SignalCandidates([SetStage(m, t, "term") EXCEPT !.rt[t].kin = TRUE], t), p, d, t)
         /\ LeavesWell(m, SignalGroup(SetStage(m, t, "kill"), t), p, d, t)
  <1>1. ASSUME NEW stage \in {"grace", "term", "kill"}
        PROVE  LET n == SetStage(m, t, stage) IN
               /\ LeavesWell(m, n, p, d, t) /\ n.rt[t] \in RuntimeType /\ n.rt[t].owned
               /\ n.rt[t].settled => n.rt[t].sealed
    BY StageWell
  <1>2. LeavesWell(m, SignalGroup(SetStage(m, t, "kill"), t), p, d, t)
    <2>1. PICK stage \in {"grace", "term", "kill"} : stage = "kill"
      OBVIOUS
    <2>2. SignalGroup(SetStage(m, t, stage), t) = SetStage(m, t, stage)
      BY <1>1, NoSignalStrays DEF LeavesWell
    <2> QED
      BY <1>1, <2>1, <2>2
  <1>3. LeavesWell(m, SignalCandidates([SetStage(m, t, "term") EXCEPT !.rt[t].kin = TRUE], t), p, d, t)
    <2>1. PICK stage \in {"grace", "term", "kill"}, yes \in BOOLEAN : stage = "term" /\ yes = TRUE
      OBVIOUS
    <2>2. PICK k : k = SetStage(m, t, stage)
      OBVIOUS
    <2>3. LeavesWell(m, k, p, d, t) /\ k.rt[t].owned
      BY <1>1, <2>2
    <2> DEFINE s == [k.rt[t] EXCEPT !.kin = yes]
               n == [k EXCEPT !.rt[t] = s]
    <2>4. k \in MemoryType /\ TaskOK(k, p, d, t) /\ RuntimeOK(k.rt[t], p)
      BY <2>3 DEF LeavesWell, TaskOK
    <2>5. k.rt[t] \in RuntimeType /\ k.rt \in [Tasks -> RuntimeType]
      BY <2>4 DEF MemoryType
    <2>6. [k EXCEPT !.rt[t].kin = yes] = n
      BY <2>4, <2>5 DEF MemoryType
    <2>7. LET r == k.rt[t] IN
          /\ s \in RuntimeType /\ s.owned = r.owned /\ s.sealed = r.sealed /\ s.settled = r.settled
          /\ s.timer = r.timer /\ s.pty = r.pty /\ s.drain = r.drain /\ s.stage = r.stage
          /\ s.waiters = r.waiters /\ s.pending = r.pending
      BY <2>5 DEF RuntimeType
    <2> HIDE DEF s
    <2>8. RuntimeOK(s, p)
      BY <2>3, <2>4, <2>7 DEF RuntimeOK
    <2>9. /\ n \in MemoryType /\ Touches(k, n, t) /\ n.mem = k.mem /\ n.disk = k.disk
          /\ n.rt[t] = s
      BY <2>4, <2>7, RuntimeTouches
    <2> HIDE DEF n
    <2>10. LeavesWell(k, n, p, d, t)
      BY <2>4, <2>7, <2>8, <2>9, NewRuntimeWell
    <2>11. s.settled => s.sealed
      BY <2>8 DEF RuntimeOK
    <2>12. SignalCandidates(n, t) = n
      BY <2>9, <2>11, NoSignalStrays
    <2>13. LeavesWell(m, n, p, d, t)
      BY <2>3, <2>10, WellCompose
    <2> QED
      BY <2>1, <2>2, <2>6, <2>12, <2>13
  <1> QED
    BY <1>2, <1>3

-----------------------------------------------------------------------------
(* Shutting down *)

\* Every owned task is told to stop, and nobody waits for a launch any more.
LEMMA BeginShutdownWell ==
  ASSUME NEW m \in MemoryType, NEW p, NEW d, NEW k \in Nat, TasksInv(m, p, d, k),
         NEW kind \in {"graceful", "owner_lost"}, NEW how \in Commits
  PROVE  LET n == BeginShutdown(m, kind, how) IN
         n \in MemoryType /\ MemoryInv(n, p, d, k) /\ n.mem = m.mem
  <1> DEFINE shut == [m EXCEPT !.shutting = kind, !.deferred = <<>>]
             Stop(t) == RequestTerminate(shut, t, how)
             rt == [t \in Tasks |-> IF t \in Owned(m) THEN Stop(t).rt[t] ELSE m.rt[t]]
             disk == IF \E t \in Owned(m) : Stop(t).disk = m.mem THEN m.mem ELSE m.disk
             failed == m.storageFailed \/ \E t \in Owned(m) : Stop(t).storageFailed
             stray == m.stray \/ \E t \in Owned(m) : Stop(t).stray
             n == [shut EXCEPT !.rt = rt, !.disk = disk, !.storageFailed = failed, !.stray = stray]
  <1>1. /\ shut \in MemoryType /\ shut.rt = m.rt /\ shut.mem = m.mem /\ shut.disk = m.disk
        /\ shut.shutting = kind /\ shut.deferred = <<>> /\ shut.up = m.up /\ shut.conn = m.conn
        /\ shut.stray = m.stray /\ shut.storageFailed = m.storageFailed
    <2>1. <<>> \in Seq(Tasks)
      OBVIOUS
    <2> QED
      BY <2>1 DEF MemoryType
  <1>2. BeginShutdown(m, kind, how) = n
    <2>1. n = [shut EXCEPT !.rt = rt, !.disk = disk,
                 !.storageFailed = shut.storageFailed \/ \E t \in Owned(m) : Stop(t).storageFailed,
                 !.stray = shut.stray \/ \E t \in Owned(m) : Stop(t).stray]
      <3> HIDE DEF shut, Stop
      <3> QED
        BY <1>1
    <2> QED
      BY <2>1 DEF BeginShutdown
  <1> HIDE DEF shut
  <1>3. ASSUME NEW t \in Tasks, t \in Owned(m)
        PROVE  /\ Stop(t) \in MemoryType /\ Stop(t).disk \in {m.disk, m.mem} /\ ~Stop(t).stray
               /\ Stop(t).rt[t] \in RuntimeType /\ Stop(t).rt[t].owned
               /\ RuntimeOK(Stop(t).rt[t], p[t])
    <2>1. m.rt[t].owned /\ RuntimeOK(m.rt[t], p[t]) /\ m.rt[t] \in RuntimeType /\ ~m.stray
      BY <1>3 DEF Owned, TasksInv, TaskOK, MemoryType
    <2>2. m.rt[t].settled => m.rt[t].sealed
      BY <2>1 DEF RuntimeOK
    <2>3. /\ Stop(t) \in MemoryType /\ Touches(shut, Stop(t), t)
          /\ Stop(t).disk = shut.disk \/ Stop(t).disk = shut.mem
          /\ Stopping(shut.rt[t], Stop(t).rt[t])
      BY <1>1, <2>2, TerminateTouches
    <2> HIDE DEF Stop
    <2>4. Stop(t).rt[t] \in RuntimeType
      BY <2>3 DEF MemoryType
    <2>5. RuntimeOK(Stop(t).rt[t], p[t])
      BY <1>1, <2>1, <2>3, <2>4, StoppingIsOK DEF Stopping
    <2>6. Stop(t).stray = m.stray
      BY <1>1, <2>3 DEF Touches
    <2>7. Stop(t).rt[t].owned
      BY <1>1, <2>1, <2>3 DEF Stopping
    <2> QED
      BY <1>1, <2>1, <2>3, <2>4, <2>5, <2>6, <2>7
  <1> HIDE DEF Stop
  <1>4. ~m.stray /\ \A t \in Tasks : TaskOK(m, p[t], d[t], t) /\ m.rt[t] \in RuntimeType
    BY DEF MemoryInv, TasksInv, MemoryType
  <1>5. rt \in [Tasks -> RuntimeType]
    BY <1>3, <1>4
  <1>6. ASSUME NEW t \in Tasks
        PROVE  /\ rt[t].owned = m.rt[t].owned /\ RuntimeOK(rt[t], p[t])
               /\ ~m.rt[t].owned => rt[t] = m.rt[t]
    <2>1. CASE t \in Owned(m)
      <3>1. rt[t] = Stop(t).rt[t] /\ m.rt[t].owned = TRUE
        BY <1>4, <2>1 DEF Owned, RuntimeType
      <3>2. Stop(t).rt[t].owned = TRUE
        BY <1>3, <2>1 DEF RuntimeType
      <3> HIDE DEF rt
      <3> QED
        BY <1>3, <2>1, <3>1, <3>2
    <2>2. CASE t \notin Owned(m)
      <3>1. rt[t] = m.rt[t]
        BY <2>2
      <3> HIDE DEF rt
      <3> QED
        BY <1>4, <3>1 DEF TaskOK
    <2> QED
      BY <2>1, <2>2
  <1>7. disk = m.disk \/ disk = m.mem
    OBVIOUS
  <1>8. disk \in [Tasks -> RecordType]
    BY <1>7 DEF MemoryType
  <1>9. failed \in BOOLEAN /\ (m.storageFailed => failed)
    OBVIOUS
  <1>10. stray = FALSE
    <2>1. \A t \in Owned(m) : ~Stop(t).stray
      BY <1>3 DEF Owned
    <2> QED
      BY <1>4, <2>1
  <1> HIDE DEF rt, disk, failed, stray
  <1>11. /\ n \in MemoryType /\ n.rt = rt /\ n.mem = m.mem /\ n.disk = disk
         /\ n.shutting = kind /\ n.deferred = <<>> /\ n.up = m.up
         /\ n.stray = stray /\ n.storageFailed = failed
    <2>1. stray \in BOOLEAN
      BY <1>10
    <2> QED
      BY <1>1, <1>5, <1>8, <1>9, <2>1 DEF MemoryType
  <1> HIDE DEF n
  <1>12. ASSUME NEW t \in Tasks PROVE TaskOK(n, p[t], d[t], t)
    <2>1. n.rt[t].owned = m.rt[t].owned /\ RuntimeOK(n.rt[t], p[t]) /\ n.mem[t] = m.mem[t]
      BY <1>6, <1>11
    <2>2. n.disk[t] = m.disk[t] \/ n.disk[t] = m.mem[t]
      BY <1>7, <1>11
    <2>3. TaskOK(m, p[t], d[t], t)
      BY <1>4
    <2>4. n.up = m.up /\ n.shutting # "none" /\ (m.storageFailed => n.storageFailed)
      BY <1>9, <1>11
    <2> QED
      BY <2>1, <2>2, <2>3, <2>4, ClearingIs DEF TaskOK
  <1>13. ASSUME NEW t \in Tasks, t > k \/ Waits(n, t) PROVE FreshTask(n, p[t], d[t], t)
    <2>1. t > k
      BY <1>11, <1>13 DEF Waits
    <2>2. FreshTask(m, p[t], d[t], t)
      BY <2>1 DEF MemoryInv, TasksInv
    <2>3. ~m.rt[t].owned
      BY <2>2, NoRuntimeWell DEF FreshTask
    <2>4. n.rt[t] = m.rt[t] /\ n.mem[t] = m.mem[t] /\ (n.disk[t] = m.disk[t] \/ n.disk[t] = m.mem[t])
      BY <1>6, <1>7, <1>11, <2>3
    <2> QED
      BY <2>2, <2>4 DEF FreshTask
  <1>14. QueueOK(n, k) /\ HandoffOK(n) /\ ~n.stray
    BY <1>10, <1>11 DEF QueueOK, HandoffOK
  <1>15. MemoryInv(n, p, d, k)
    BY <1>12, <1>13, <1>14 DEF MemoryInv, TasksInv
  <1> QED
    BY <1>2, <1>11, <1>15

\* Without an owner, every owned task is told to stop, unless that was done before.
LEMMA OwnerLostWell ==
  ASSUME NEW m \in MemoryType, NEW p, NEW d, NEW k \in Nat, TasksInv(m, p, d, k), NEW how \in Commits
  PROVE  LET n == OwnerLost(m, how) IN
         n \in MemoryType /\ MemoryInv(n, p, d, k) /\ n.mem = m.mem
  <1>1. PICK no \in BOOLEAN : no = FALSE
    OBVIOUS
  <1> DEFINE free == [m EXCEPT !.lease = no]
  <1>2. /\ free \in MemoryType /\ free.rt = m.rt /\ free.mem = m.mem /\ free.disk = m.disk
        /\ free.shutting = m.shutting /\ free.deferred = m.deferred /\ free.up = m.up
        /\ free.conn = m.conn /\ free.stray = m.stray /\ free.storageFailed = m.storageFailed
    BY DEF MemoryType
  <1>3. OwnerLost(m, how) = IF m.shutting = "owner_lost" THEN free ELSE BeginShutdown(free, "owner_lost", how)
    BY <1>1 DEF OwnerLost
  <1> HIDE DEF free
  <1>4. TasksInv(free, p, d, k)
    BY <1>2 DEF TasksInv, TaskOK, FreshTask, Waits, QueueOK
  <1>5. CASE m.shutting = "owner_lost"
    BY <1>2, <1>3, <1>4, <1>5 DEF MemoryInv, HandoffOK
  <1>6. CASE m.shutting # "owner_lost"
    <2>1. PICK kind \in {"graceful", "owner_lost"} : kind = "owner_lost"
      OBVIOUS
    <2>2. LET n == BeginShutdown(free, kind, how) IN
          n \in MemoryType /\ MemoryInv(n, p, d, k) /\ n.mem = free.mem
      BY <1>2, <1>4, BeginShutdownWell
    <2> QED
      BY <1>2, <1>3, <1>6, <2>1, <2>2
  <1> QED
    BY <1>5, <1>6

\* A supervisor without runtimes knows of the tasks what its records say.
RecordsOK(m, p, d, t) ==
  /\ RecordOK(m.mem[t], p, d) /\ RecordOK(m.disk[t], p, d)
  /\ Finalized(m.mem[t]) => m.disk[t].reason \in {m.mem[t].reason, "absent"}
  /\ ClearingOK(m.mem[t], m.disk[t], d)

\* What a supervisor that opened the registry r has in memory.
LEMMA NewSupervisorType ==
  ASSUME NEW r \in [Tasks -> RecordType]
  PROVE  LET n == NewSupervisor(r) IN
         /\ n \in MemoryType /\ n.mem = r /\ n.disk = r /\ n.deferred = <<>> /\ n.stray = FALSE
         /\ n.conn = "none" /\ n.rt = [t \in Tasks |-> NoRuntime] /\ n.up
  <1> DEFINE rt == [t \in Tasks |-> NoRuntime]
  <1>1. rt \in [Tasks -> RuntimeType] /\ <<>> \in Seq(Tasks)
    BY NoRuntimeWell
  <1> HIDE DEF rt
  <1>2. NewSupervisor(r) = [up |-> TRUE, mem |-> r, disk |-> r, rt |-> rt, deferred |-> <<>>,
                            conn |-> "none", lease |-> TRUE, shutting |-> "none",
                            storageFailed |-> FALSE, stray |-> FALSE]
    BY DEF NewSupervisor, rt
  <1>3. NewSupervisor(r) \in MemoryType
    BY <1>1, <1>2 DEF MemoryType
  <1> QED
    BY <1>2, <1>3 DEF rt

\* What was last said of the tasks is kept.
LEMMA HaltKeepsRecords ==
  ASSUME NEW m \in MemoryType
  PROVE  Halt(m).mem = m.mem
  BY DEF Halt, NewSupervisor

\* Whatever the supervisor was at when it ended, its records are well.
LEMMA HaltWell ==
  ASSUME NEW m \in MemoryType, NEW p, NEW d, NEW k \in Nat,
         \A t \in Tasks : RecordsOK(m, p[t], d[t], t),
         \A t \in Tasks : t > k => /\ m.mem[t] = NoRecord /\ m.disk[t] = NoRecord
                                   /\ p[t] = [leader |-> "none", kin |-> FALSE] /\ d[t] = "none"
  PROVE  Halt(m) \in MemoryType /\ MemoryInv(Halt(m), p, d, k)
  <1> DEFINE n == Halt(m)
             f == NewSupervisor(m.mem)
  <1>1. PICK no \in BOOLEAN : no = FALSE
    OBVIOUS
  <1>2. /\ f \in MemoryType /\ f.mem = m.mem /\ f.deferred = <<>> /\ f.stray = FALSE
        /\ f.rt = [t \in Tasks |-> NoRuntime]
    <2>1. m.mem \in [Tasks -> RecordType]
      BY DEF MemoryType
    <2> QED
      BY <2>1, NewSupervisorType
  <1>3. n = [f EXCEPT !.up = no, !.disk = m.disk, !.lease = no]
    BY <1>1 DEF Halt
  <1> HIDE DEF f, n
  <1>4. /\ n \in MemoryType /\ n.up = no /\ n.mem = m.mem /\ n.disk = m.disk /\ n.deferred = <<>>
        /\ n.stray = FALSE /\ n.rt = f.rt
    <2>1. m.disk \in [Tasks -> RecordType]
      BY DEF MemoryType
    <2> QED
      BY <1>2, <1>3, <2>1 DEF MemoryType
  <1>5. ASSUME NEW t \in Tasks PROVE TaskOK(n, p[t], d[t], t)
    <2>1. n.rt[t] = NoRuntime /\ RuntimeOK(n.rt[t], p[t]) /\ ~n.rt[t].owned
      BY <1>2, <1>4, NoRuntimeWell
    <2>2. RecordsOK(m, p[t], d[t], t) /\ n.mem[t] = m.mem[t] /\ n.disk[t] = m.disk[t] /\ ~n.up
      BY <1>1, <1>4
    <2> QED
      BY <2>1, <2>2 DEF TaskOK, RecordsOK
  <1>6. ASSUME NEW t \in Tasks, t > k \/ Waits(n, t) PROVE FreshTask(n, p[t], d[t], t)
    <2>1. t > k
      BY <1>4, <1>6 DEF Waits
    <2>2. n.rt[t] = NoRuntime /\ n.mem[t] = m.mem[t] /\ n.disk[t] = m.disk[t]
      BY <1>2, <1>4
    <2> QED
      BY <2>1, <2>2 DEF FreshTask
  <1>7. QueueOK(n, k) /\ HandoffOK(n) /\ ~n.stray
    BY <1>1, <1>4 DEF QueueOK, HandoffOK
  <1> QED
    BY <1>4, <1>5, <1>6, <1>7 DEF MemoryInv, TasksInv, n

\* What _finalize writes when it gives a task up during a shutdown.
LEMMA GivenUp ==
  ASSUME NEW m \in MemoryType, NEW t \in Tasks, NEW how \in Commits, m.shutting # "none",
         NEW no \in BOOLEAN, ~no, NEW c \in RecordType, c = Record("cleanup_unconfirmed")
  PROVE  LET n == Finalize(m, t, no, how) IN
         /\ n \in MemoryType
         /\ \A u \in Tasks : /\ n.mem[u] = IF u = t /\ how = "ok" THEN c ELSE m.mem[u]
                             /\ n.disk[u] = IF how = "lost" THEN m.disk[u]
                                             ELSE IF u = t THEN c ELSE m.mem[u]
  <1>1. DecideOutcome(m, t, no) = "cleanup_unconfirmed"
    BY DEF DecideOutcome
  <1>3. PICK reason \in Reasons : reason = "cleanup_unconfirmed"
    BY DEF Reasons
  <1> DEFINE s == [m.rt[t] EXCEPT !.pending = reason]
             k == [m EXCEPT !.rt[t] = s]
             done == Commit(k, t, c, how)
             n == [done EXCEPT !.rt[t] = NoRuntime]
  <1>4. m.rt[t] \in RuntimeType /\ m.rt \in [Tasks -> RuntimeType]
    BY DEF MemoryType
  <1>5. Finalize(m, t, no, how) = CommitOutcome(k, t, how)
    <2>1. [m EXCEPT !.rt[t].pending = reason] = k
      BY <1>4 DEF MemoryType
    <2> QED
      BY <1>1, <1>3, <2>1 DEF Finalize
  <1>6. s \in RuntimeType /\ s.pending = reason
    BY <1>4 DEF RuntimeType
  <1> HIDE DEF s
  <1>7. k \in MemoryType /\ k.mem = m.mem /\ k.disk = m.disk /\ k.rt[t] = s /\ Touches(m, k, t)
    BY <1>6, RuntimeTouches
  <1> HIDE DEF k
  <1>8. k.shutting # "none"
    BY <1>7 DEF Touches
  <1>9. Record(k.rt[t].pending) = c
    BY <1>3, <1>6, <1>7
  <1>10. CommitOutcome(k, t, how) = n
    BY <1>8, <1>9 DEF CommitOutcome
  <1>11. done \in MemoryType
    BY <1>7, CommitTouches
  <1>12. /\ done.mem = [k.mem EXCEPT ![t] = IF how = "ok" THEN c ELSE k.mem[t]]
         /\ done.disk = IF how = "lost" THEN k.disk ELSE [k.mem EXCEPT ![t] = c]
    BY <1>7 DEF Commit, MemoryType
  <1> HIDE DEF done
  <1>13. n \in MemoryType /\ n.mem = done.mem /\ n.disk = done.disk
    BY <1>11, NoRuntimeWell, RuntimeTouches
  <1> HIDE DEF n
  <1>14. m.mem \in [Tasks -> RecordType]
    BY DEF MemoryType
  <1>15. \A u \in Tasks : /\ n.mem[u] = IF u = t /\ how = "ok" THEN c ELSE m.mem[u]
                          /\ n.disk[u] = IF how = "lost" THEN m.disk[u]
                                          ELSE IF u = t THEN c ELSE m.mem[u]
    BY <1>7, <1>12, <1>13, <1>14
  <1> QED
    BY <1>5, <1>10, <1>13, <1>15

\* The supervisor gives up what it still owns: one commit after the other, all of which go
\* the same way, of which the last decides what the disk holds.
LEMMA AbandonWell ==
  ASSUME NEW m \in MemoryType, NEW p, NEW d, NEW k \in Nat, MemoryInv(m, p, d, k),
         m.shutting # "none", NEW last \in Tasks, m.rt[last].owned, NEW how \in Commits
  PROVE  LET n == Halt(Finalize(Abandoned(m, how), last, FALSE, how)) IN
         /\ n \in MemoryType /\ MemoryInv(n, p, d, k)
         /\ \A t \in Tasks : ~m.rt[t].owned => n.mem[t] = m.mem[t]
  <1>1. PICK c \in RecordType : c = Record("cleanup_unconfirmed")
    BY DEF Record, RecordType, Reasons
  <1>0. PICK no \in BOOLEAN : no = FALSE
    OBVIOUS
  <1> DEFINE mem == [t \in Tasks |-> IF t \in Owned(m) THEN Finalize(m, t, no, how).mem[t] ELSE m.mem[t]]
             a == [m EXCEPT !.mem = mem]
             n == Finalize(a, last, no, how)
  <1>n. ~no
    BY <1>0
  <1>2. ASSUME NEW t \in Tasks
        PROVE  mem[t] = IF m.rt[t].owned /\ how = "ok" THEN c ELSE m.mem[t]
    <2>1. Finalize(m, t, no, how).mem[t] = IF how = "ok" THEN c ELSE m.mem[t]
      BY <1>n, <1>1, GivenUp
    <2> QED
      BY <2>1 DEF Owned
  <1>3. mem \in [Tasks -> RecordType]
    <2>1. \A t \in Tasks : mem[t] \in RecordType
      BY <1>2 DEF MemoryType
    <2> QED
      BY <2>1
  <1>4. Abandoned(m, how) = a
    BY <1>0 DEF Abandoned
  <1> HIDE DEF mem
  <1>5. a \in MemoryType /\ a.mem = mem /\ a.disk = m.disk /\ a.shutting = m.shutting
    BY <1>3 DEF MemoryType
  <1> HIDE DEF a
  <1>6. /\ n \in MemoryType
        /\ \A u \in Tasks : /\ n.mem[u] = IF u = last /\ how = "ok" THEN c ELSE a.mem[u]
                            /\ n.disk[u] = IF how = "lost" THEN a.disk[u]
                                            ELSE IF u = last THEN c ELSE a.mem[u]
    BY <1>n, <1>1, <1>5, GivenUp
  <1> HIDE DEF n
  <1>7. ASSUME NEW t \in Tasks
        PROVE  /\ n.mem[t] = IF m.rt[t].owned /\ how = "ok" THEN c ELSE m.mem[t]
               /\ \/ n.disk[t] = m.disk[t] /\ how = "lost"
                  \/ n.disk[t] = n.mem[t]
                  \/ n.disk[t] = c /\ m.rt[t].owned /\ how # "ok"
    <2>1. n.mem[t] = IF t = last /\ how = "ok" THEN c ELSE mem[t]
      BY <1>5, <1>6
    <2>2. n.disk[t] = IF how = "lost" THEN m.disk[t] ELSE IF t = last THEN c ELSE mem[t]
      BY <1>5, <1>6
    <2> QED
      BY <1>2, <2>1, <2>2
  <1>8. ASSUME NEW t \in Tasks PROVE RecordsOK(n, p[t], d[t], t)
    <2>1. TaskOK(m, p[t], d[t], t)
      BY DEF MemoryInv, TasksInv
    <2>2. CASE m.rt[t].owned
      <3>1. m.mem[t] = Record("running") /\ RecordOK(m.mem[t], p[t], d[t])
            /\ RecordOK(m.disk[t], p[t], d[t])
        BY <2>1, <2>2 DEF TaskOK
      <3>2. d[t] = "tasks"
        BY <3>1 DEF RecordOK, Record, NoRecord
      <3>3. RecordOK(c, p[t], d[t])
        BY <1>1, <3>2 DEF RecordOK, Record, TrueOutcome, Unobserved
      <3>4. ~Finalized(m.mem[t])
        BY <3>1 DEF Finalized, Record
      <3>5. ClearingOK(n.mem[t], n.disk[t], d[t])
        <4>1. c.clearing = FALSE /\ Record("running").clearing = FALSE
          BY <1>1 DEF Record
        <4> QED
          BY <1>7, <3>1, <4>1, ClearingIs
      <3> QED
        BY <1>7, <2>2, <3>1, <3>3, <3>4, <3>5 DEF RecordsOK
    <2>3. CASE ~m.rt[t].owned
      BY <1>7, <2>1, <2>3, ClearingIs DEF RecordsOK, TaskOK
    <2> QED
      BY <2>2, <2>3
  <1>9. ASSUME NEW t \in Tasks, t > k
        PROVE  /\ n.mem[t] = NoRecord /\ n.disk[t] = NoRecord
               /\ p[t] = [leader |-> "none", kin |-> FALSE] /\ d[t] = "none"
    <2>1. FreshTask(m, p[t], d[t], t)
      BY <1>9 DEF MemoryInv, TasksInv
    <2>2. ~m.rt[t].owned
      BY <2>1, NoRuntimeWell DEF FreshTask
    <2> QED
      BY <1>7, <2>1, <2>2 DEF FreshTask
  <1>10. Halt(n) \in MemoryType /\ MemoryInv(Halt(n), p, d, k)
    BY <1>6, <1>8, <1>9, HaltWell
  <1>11. Halt(n).mem = n.mem
    BY <1>6, HaltKeepsRecords
  <1> QED
    BY <1>0, <1>4, <1>7, <1>10, <1>11 DEF n

-----------------------------------------------------------------------------
(* Launching and clearing *)

\* The store is noted to have failed, and nothing else changes.
LEMMA StoreFailedTouches ==
  ASSUME NEW m \in MemoryType, NEW t \in Tasks
  PROVE  LET n == [m EXCEPT !.storageFailed = TRUE] IN
         /\ n \in MemoryType /\ Touches(m, n, t) /\ n.rt = m.rt /\ n.mem = m.mem /\ n.disk = m.disk
         /\ n.storageFailed
  <1> DEFINE n == [m EXCEPT !.storageFailed = TRUE]
  <1>1. /\ n \in MemoryType /\ n.rt = m.rt /\ n.mem = m.mem /\ n.disk = m.disk /\ n.up = m.up
        /\ n.shutting = m.shutting /\ n.deferred = m.deferred /\ n.conn = m.conn /\ n.stray = m.stray
        /\ n.storageFailed = TRUE
    BY DEF MemoryType
  <1> HIDE DEF n
  <1>2. Touches(m, n, t)
    BY <1>1 DEF Touches
  <1> QED
    BY <1>1, <1>2 DEF n

\* What a launch that stops at `end' makes of the processes p, q after it, and of the log.
LaunchedTo(end, p, q, e) ==
  /\ end = "run" => q.leader = "live"
  /\ end # "run" => q = p
  /\ e \in {"none", "tasks"} /\ (end # "log" => e = "tasks")

\* n is well of t, and owes nobody a reply about it.
LeavesUnasked(m, n, q, e, t) ==
  /\ n \in MemoryType /\ Touches(m, n, t) /\ TaskOK(n, q, e, t) /\ n.rt[t].waiters = 0

\* A launch stops at the log, at its record, at the process, or runs.
LEMMA SpawnedWell ==
  ASSUME NEW m \in MemoryType, NEW t \in Tasks, NEW p, NEW q, NEW d, NEW e, FreshTask(m, p, d, t),
         NEW end \in SpawnStops, NEW how \in Commits, SpawnEnds(end, how), LaunchedTo(end, p, q, e)
  PROVE  LeavesUnasked(m, Spawned(m, t, end, how), q, e, t)
  <1>1. /\ m.rt[t] = NoRuntime /\ m.mem[t] = NoRecord /\ m.disk[t] = NoRecord
        /\ p.leader = "none" /\ p.kin = FALSE
    BY DEF FreshTask
  <1>0. /\ end = "run" => q.leader = "live"
        /\ end # "run" => q = p
        /\ e \in {"none", "tasks"} /\ (end # "log" => e = "tasks")
    BY DEF LaunchedTo
  <1>2. PICK run \in RecordType, failed \in RecordType :
          run = Record("running") /\ failed = Record("launch_failed")
    BY DEF Record, RecordType, Reasons
  <1>3. /\ RecordOK(NoRecord, q, e) /\ NoRecord.reason = "absent" /\ ~Finalized(NoRecord)
        /\ end # "log" => RecordOK(run, q, e) /\ RecordOK(failed, q, e)
        /\ run.reason = "running" /\ failed.reason = "launch_failed" /\ ~Finalized(run)
        /\ \A c : ClearingOK(NoRecord, c, e) /\ ClearingOK(run, c, e) /\ ClearingOK(failed, c, e)
    BY <1>0, <1>2 DEF RecordOK, TrueOutcome, Unobserved, NoRecord, Record, Finalized, Reasons, Ends, ClearingOK
  <1>4. NoRuntime \in RuntimeType /\ ~NoRuntime.owned /\ NoRuntime.waiters = 0 /\ RuntimeOK(NoRuntime, q)
    BY NoRuntimeWell
  <1>5. CASE end = "log"
    <2> DEFINE n == [m EXCEPT !.storageFailed = TRUE]
    <2>1. Spawned(m, t, end, how) = n
      BY <1>5 DEF Spawned
    <2>2. /\ n \in MemoryType /\ Touches(m, n, t) /\ n.rt = m.rt /\ n.mem = m.mem /\ n.disk = m.disk
      BY StoreFailedTouches
    <2> HIDE DEF n
    <2>3. TaskOK(n, q, e, t)
      BY <1>1, <1>3, <1>4, <2>2 DEF TaskOK
    <2> QED
      BY <1>1, <1>4, <2>1, <2>2, <2>3 DEF LeavesUnasked
  <1>6. CASE end = "admit"
    <2> DEFINE n == Commit(m, t, run, how)
    <2>1. Spawned(m, t, end, how) = n
      BY <1>2, <1>6 DEF Spawned
    <2>2. how # "ok"
      BY <1>6 DEF SpawnEnds
    <2>3. /\ n \in MemoryType /\ Touches(m, n, t) /\ n.rt = m.rt /\ n.mem[t] = m.mem[t]
          /\ n.disk[t] = m.disk[t] \/ n.disk[t] = run
      BY <2>2, CommitTouches
    <2> HIDE DEF n
    <2>4. TaskOK(n, q, e, t)
      BY <1>1, <1>3, <1>4, <1>6, <2>3 DEF TaskOK
    <2> QED
      BY <1>1, <1>4, <2>1, <2>3, <2>4 DEF LeavesUnasked
  <1>7. ASSUME end # "log", end # "admit"
        PROVE  \E a \in MemoryType :
                 /\ a = Commit(m, t, Record("running"), "ok")
                 /\ Touches(m, a, t) /\ a.rt = m.rt /\ a.mem[t] = run /\ a.disk[t] = run
    <2>1. PICK ok \in Commits : ok = "ok"
      BY DEF Commits
    <2>2. PICK a : a = Commit(m, t, run, ok)
      OBVIOUS
    <2>3. a \in MemoryType /\ Touches(m, a, t) /\ a.rt = m.rt /\ a.mem[t] = run /\ a.disk[t] = run
      BY <2>1, <2>2, CommitTouches
    <2>4. a = Commit(m, t, Record("running"), "ok")
      BY <1>2, <2>1, <2>2
    <2> QED
      BY <2>3, <2>4
  <1>8. CASE end = "launch"
    <2>1. PICK a \in MemoryType :
            /\ a = Commit(m, t, Record("running"), "ok")
            /\ Touches(m, a, t) /\ a.rt = m.rt /\ a.mem[t] = run /\ a.disk[t] = run
      BY <1>7, <1>8
    <2>2. PICK n : n = Commit(a, t, failed, how)
      OBVIOUS
    <2>3. Spawned(m, t, end, how) = n
      BY <1>2, <1>8, <2>1, <2>2 DEF Spawned
    <2>4. /\ n \in MemoryType /\ Touches(a, n, t) /\ n.rt = a.rt
          /\ \/ how = "ok" /\ n.mem[t] = failed /\ n.disk[t] = failed
             \/ how # "ok" /\ n.mem[t] = a.mem[t] /\ n.storageFailed
                /\ (n.disk[t] = a.disk[t] \/ n.disk[t] = failed)
      BY <2>2, CommitTouches
    <2>5. q.leader = "none"
      BY <1>0, <1>1, <1>8
    <2>6. TaskOK(n, q, e, t)
      BY <1>1, <1>3, <1>4, <1>8, <2>1, <2>4, <2>5 DEF TaskOK
    <2>7. Touches(m, n, t)
      BY <2>1, <2>4, TouchesCompose
    <2> QED
      BY <1>1, <1>4, <2>1, <2>3, <2>4, <2>6, <2>7 DEF LeavesUnasked
  <1>10. CASE end = "launch_log"
    <2>1. PICK a \in MemoryType :
            /\ a = Commit(m, t, Record("running"), "ok")
            /\ Touches(m, a, t) /\ a.rt = m.rt /\ a.mem[t] = run /\ a.disk[t] = run
      BY <1>7, <1>10
    <2>2. PICK ok \in Commits : ok = "ok"
      BY DEF Commits
    <2>3. PICK k : k = Commit(a, t, failed, ok)
      OBVIOUS
    <2>4. k \in MemoryType /\ Touches(a, k, t) /\ k.rt = a.rt /\ k.mem[t] = failed /\ k.disk[t] = failed
      BY <2>2, <2>3, CommitTouches
    <2> DEFINE n == [k EXCEPT !.storageFailed = TRUE]
    <2>5. Spawned(m, t, end, how) = n
      BY <1>2, <1>10, <2>1, <2>2, <2>3 DEF Spawned
    <2>6. n \in MemoryType /\ Touches(k, n, t) /\ n.rt = k.rt /\ n.mem = k.mem /\ n.disk = k.disk
      BY <2>4, StoreFailedTouches
    <2> HIDE DEF n
    <2>7. TaskOK(n, q, e, t)
      BY <1>1, <1>3, <1>4, <1>10, <2>1, <2>4, <2>6 DEF TaskOK
    <2>8. Touches(m, n, t)
      BY <2>1, <2>4, <2>6, TouchesCompose
    <2> QED
      BY <1>1, <1>4, <2>1, <2>4, <2>5, <2>6, <2>7, <2>8 DEF LeavesUnasked
  <1>9. CASE end = "run"
    <2>1. PICK a \in MemoryType :
            /\ a = Commit(m, t, Record("running"), "ok")
            /\ Touches(m, a, t) /\ a.rt = m.rt /\ a.mem[t] = run /\ a.disk[t] = run
      BY <1>7, <1>9
    <2> DEFINE s == [NoRuntime EXCEPT !.owned = TRUE]
    <2>2. /\ s \in RuntimeType /\ s.owned = TRUE /\ s.waiters = 0 /\ RuntimeOK(s, q)
          /\ s.settled = FALSE
      <3>1. s \in RuntimeType
        BY DEF NoRuntime, RuntimeType, Stages
      <3>2. /\ s.owned = TRUE /\ s.waiters = 0 /\ s.settled = FALSE /\ s.sealed = FALSE
            /\ s.stage = "none" /\ s.timer = FALSE /\ s.pending = "none" /\ s.pty = "open"
        BY DEF NoRuntime
      <3> HIDE DEF s
      <3>3. RuntimeOK(s, q)
        BY <1>0, <1>9, <3>2 DEF RuntimeOK
      <3> QED
        BY <3>1, <3>2, <3>3
    <2> HIDE DEF s
    <2>3. PICK l : l = [a EXCEPT !.rt[t] = s]
      OBVIOUS
    <2>4. /\ l \in MemoryType /\ Touches(a, l, t) /\ l.rt[t] = s /\ l.mem = a.mem /\ l.disk = a.disk
      BY <2>2, <2>3, RuntimeTouches
    <2>5. PICK k : k = MarkRecord(l, t, how)
      OBVIOUS
    <2>6. Spawned(m, t, end, how) = IF how = "ok" THEN k ELSE RequestTerminate(k, t, "ok")
      BY <1>9, <2>1, <2>3, <2>5 DEF Spawned, s
    <2>7. TaskOK(l, q, e, t)
      BY <1>3, <1>9, <1>2, <2>1, <2>2, <2>4 DEF TaskOK
    <2>8. LeavesWell(l, k, q, e, t) /\ k.rt = l.rt
      BY <2>4, <2>5, <2>7, MarkWell
    <2>9. k \in MemoryType /\ Touches(m, k, t) /\ TaskOK(k, q, e, t)
      <3>1. k \in MemoryType /\ Touches(l, k, t) /\ TaskOK(k, q, e, t)
        BY <2>8 DEF LeavesWell
      <3>2. Touches(m, l, t)
        BY <2>1, <2>4, TouchesCompose
      <3> QED
        BY <2>4, <3>1, <3>2, TouchesCompose
    <2>10. CASE how = "ok"
      BY <2>2, <2>4, <2>6, <2>8, <2>9, <2>10 DEF LeavesUnasked
    <2>11. CASE how # "ok"
      <3>1. PICK ok \in Commits : ok = "ok"
        BY DEF Commits
      <3>2. PICK n : n = RequestTerminate(k, t, ok)
        OBVIOUS
      <3>3. ~k.rt[t].settled
        BY <2>2, <2>4, <2>8
      <3>4. /\ n \in MemoryType /\ Touches(k, n, t) /\ n.mem = k.mem
            /\ n.disk = k.disk \/ n.disk = k.mem
            /\ Stopping(k.rt[t], n.rt[t])
        BY <2>9, <3>2, <3>3, TerminateTouches
      <3>5. n.rt[t] \in RuntimeType
        BY <3>4 DEF MemoryType
      <3>6. RuntimeOK(n.rt[t], q)
        BY <2>2, <2>4, <2>8, <3>4, <3>5, StoppingIsOK DEF Stopping
      <3>7. n.rt[t].owned = k.rt[t].owned /\ n.rt[t].waiters = k.rt[t].waiters
        BY <3>4 DEF Stopping
      <3>8. TaskOK(n, q, e, t)
        BY <2>9, <3>4, <3>6, <3>7, RuntimeStep
      <3>9. Touches(m, n, t)
        BY <2>9, <3>4, TouchesCompose
      <3> QED
        BY <2>2, <2>4, <2>6, <2>8, <2>11, <3>1, <3>2, <3>4, <3>7, <3>8, <3>9 DEF LeavesUnasked
    <2> QED
      BY <2>10, <2>11
  <1> QED
    BY <1>5, <1>6, <1>8, <1>9, <1>10 DEF SpawnStops

\* Where a clear that stops at `end' leaves a log directory that was at d.
ClearedTo(end, d, e) ==
  /\ end \in {"intent", "move"} => e = d
  /\ end = "delete" => e = IF d = "none" THEN "none" ELSE "clearing"
  /\ end = "drop" => e = "none"

\* ClearedDir moves the directory of the task, and no other.
LEMMA ClearedDirMoves ==
  ASSUME dir \in [Tasks -> DirType], NEW t \in Tasks, NEW end \in {"intent", "move", "delete", "drop"}
  PROVE  LET e == ClearedDir(t, end) IN
         /\ e \in [Tasks -> DirType] /\ ClearedTo(end, dir[t], e[t])
         /\ \A u \in Tasks : u # t => e[u] = dir[u]
  BY DEF ClearedDir, ClearedTo, DirType

\* A commit that clear makes does not disable launches.
LEMMA ClearCommitTouches ==
  ASSUME NEW m \in MemoryType, NEW t \in Tasks, NEW c \in RecordType, NEW how \in Commits
  PROVE  LET n == [Commit(m, t, c, how) EXCEPT !.storageFailed = m.storageFailed] IN
         /\ n \in MemoryType /\ Touches(m, n, t) /\ n.rt = m.rt
         /\ \/ how = "ok" /\ n.mem[t] = c /\ n.disk[t] = c
            \/ how # "ok" /\ n.mem[t] = m.mem[t] /\ (n.disk[t] = m.disk[t] \/ n.disk[t] = c)
         /\ n.storageFailed = m.storageFailed
  <1>1. PICK k : k = Commit(m, t, c, how)
    OBVIOUS
  <1>2. /\ k \in MemoryType /\ Touches(m, k, t) /\ k.rt = m.rt
        /\ \/ how = "ok" /\ k.mem[t] = c /\ k.disk[t] = c
           \/ how # "ok" /\ k.mem[t] = m.mem[t] /\ (k.disk[t] = m.disk[t] \/ k.disk[t] = c)
    BY <1>1, CommitTouches
  <1>3. PICK b \in BOOLEAN : b = m.storageFailed
    BY DEF MemoryType
  <1> DEFINE n == [k EXCEPT !.storageFailed = b]
  <1>4. /\ n \in MemoryType /\ n.rt = k.rt /\ n.mem = k.mem /\ n.disk = k.disk /\ n.up = k.up
        /\ n.shutting = k.shutting /\ n.deferred = k.deferred /\ n.conn = k.conn /\ n.stray = k.stray
        /\ n.storageFailed = b
    BY <1>2 DEF MemoryType
  <1> HIDE DEF n
  <1>5. Touches(m, n, t)
    BY <1>2, <1>3, <1>4 DEF Touches
  <1> QED
    BY <1>1, <1>2, <1>3, <1>4, <1>5 DEF n

\* n is well of t, whose outcome is what it was, or gone.
LeavesCleared(m, n, p, e, t) ==
  /\ n \in MemoryType /\ Touches(m, n, t) /\ TaskOK(n, p, e, t)
  /\ n.mem[t].reason \in {m.mem[t].reason, "absent"}

\* A clear of a finalized task leaves those of its steps that come before the failure.
LEMMA ClearWell ==
  ASSUME NEW m \in MemoryType, NEW t \in Tasks, NEW p, NEW d, NEW e, TaskOK(m, p, d, t),
         Finalized(m.mem[t]), NEW end \in {"intent", "move", "delete", "drop"}, NEW how \in Commits,
         end = "intent" => how # "ok", ClearedTo(end, d, e)
  PROVE  LeavesCleared(m, ClearSteps(m, t, end, how), p, e, t)
  <1>1. /\ RuntimeOK(m.rt[t], p) /\ RecordOK(m.mem[t], p, d) /\ RecordOK(m.disk[t], p, d)
        /\ ~m.rt[t].owned /\ m.disk[t].reason \in {m.mem[t].reason, "absent"}
        /\ m.mem[t].reason # "running" /\ m.mem[t].reason \in Reasons
        /\ ClearingOK(m.mem[t], m.disk[t], d)
    BY DEF TaskOK, Finalized, Record
  <1>2. m.mem \in [Tasks -> RecordType] /\ m.mem[t] \in RecordType /\ NoRecord \in RecordType
    BY DEF MemoryType, RecordType, NoRecord
  <1> DEFINE c == [m.mem[t] EXCEPT !.clearing = TRUE]
  <1>3. c \in RecordType /\ c.reason = m.mem[t].reason /\ c.clearing = TRUE
    BY <1>2 DEF RecordType
  <1> HIDE DEF c
  <1>4. RecordOK(c, p, e) /\ RecordOK(c, p, d)
    BY <1>1, <1>3 DEF RecordOK
  <1>5. ASSUME NEW n \in MemoryType, Touches(m, n, t), n.rt = m.rt, n.mem[t].reason # "running",
               RecordOK(n.mem[t], p, e), RecordOK(n.disk[t], p, e),
               Finalized(n.mem[t]) => n.disk[t].reason \in {n.mem[t].reason, "absent"},
               ClearingOK(n.mem[t], n.disk[t], e)
        PROVE  TaskOK(n, p, e, t)
    BY <1>1, <1>5 DEF TaskOK
  <1>6. CASE end = "intent"
    <2>1. PICK n : n = [Commit(m, t, c, how) EXCEPT !.storageFailed = m.storageFailed]
      OBVIOUS
    <2>2. ClearSteps(m, t, end, how) = n
      BY <1>6, <2>1 DEF ClearSteps, c
    <2>3. /\ n \in MemoryType /\ Touches(m, n, t) /\ n.rt = m.rt
          /\ n.mem[t] = m.mem[t] /\ (n.disk[t] = m.disk[t] \/ n.disk[t] = c)
      BY <1>3, <1>6, <2>1, ClearCommitTouches
    <2>4. e = d
      BY <1>6 DEF ClearedTo
    <2>6. ClearingOK(m.mem[t], c, e)
      BY <1>3 DEF ClearingOK
    <2>5. TaskOK(n, p, e, t)
      BY <1>1, <1>3, <1>4, <1>5, <2>3, <2>4, <2>6
    <2> QED
      BY <2>2, <2>3, <2>5 DEF LeavesCleared
  <1> DEFINE mem == [m.mem EXCEPT ![t] = c]
             marked == [m EXCEPT !.mem = mem, !.disk = mem]
  <1>7. [m EXCEPT !.mem[t].clearing = TRUE, !.disk = [m.mem EXCEPT ![t].clearing = TRUE]] = marked
    <2>1. [m.mem EXCEPT ![t].clearing = TRUE] = mem
      BY <1>2 DEF c
    <2> QED
      BY <2>1 DEF MemoryType
  <1>8. mem \in [Tasks -> RecordType] /\ mem[t] = c /\ \A u \in Tasks : u # t => mem[u] = m.mem[u]
    BY <1>2, <1>3
  <1> HIDE DEF mem
  <1> DEFINE kept == IF m.mem[t].clearing THEN m ELSE marked
  <1>12. ClearSteps(m, t, end, how) =
           CASE end = "intent" -> [Commit(m, t, [m.mem[t] EXCEPT !.clearing = TRUE], how)
                                     EXCEPT !.storageFailed = m.storageFailed]
             [] end \in {"move", "delete"} -> kept
             [] end = "drop" -> [Commit(kept, t, NoRecord, how) EXCEPT !.storageFailed = m.storageFailed]
    BY <1>7 DEF ClearSteps
  <1>9. /\ kept \in MemoryType /\ kept.mem[t] = c /\ RecordOK(kept.disk[t], p, e) /\ ClearingOK(c, kept.disk[t], e)
        /\ kept.disk[t].reason \in {c.reason, "absent"} /\ kept.rt = m.rt
        /\ \A u \in Tasks : u # t => kept.mem[u] = m.mem[u] /\ kept.disk[u] \in {m.disk[u], m.mem[u]}
        /\ kept.up = m.up /\ kept.shutting = m.shutting /\ kept.deferred = m.deferred
        /\ kept.conn = m.conn /\ kept.stray = m.stray /\ kept.storageFailed = m.storageFailed
    <2>1. CASE ~m.mem[t].clearing
      <3>1. /\ marked \in MemoryType /\ marked.mem = mem /\ marked.disk = mem /\ marked.rt = m.rt
            /\ marked.up = m.up /\ marked.shutting = m.shutting /\ marked.deferred = m.deferred
            /\ marked.conn = m.conn /\ marked.stray = m.stray /\ marked.storageFailed = m.storageFailed
        BY <1>8 DEF MemoryType
      <3> HIDE DEF marked
      <3>2. ClearingOK(c, c, e)
        BY DEF ClearingOK
      <3> QED
        BY <1>3, <1>4, <1>8, <2>1, <3>1, <3>2
    <2>2. CASE m.mem[t].clearing
      <3>1. c = m.mem[t]
        BY <1>2, <2>2 DEF c, RecordType
      <3>2. m.disk[t].clearing \/ (m.disk[t] = NoRecord /\ d = "none")
        BY <1>1, <2>2 DEF ClearingOK
      <3>3. CASE m.disk[t].clearing
        <4>1. RecordOK(m.disk[t], p, e) /\ ClearingOK(c, m.disk[t], e)
          BY <1>1, <3>3 DEF RecordOK, ClearingOK
        <4> QED
          BY <1>1, <2>2, <3>1, <4>1
      <3>4. CASE m.disk[t] = NoRecord /\ d = "none"
        <4>1. e = "none"
          BY <3>4 DEF ClearedTo
        <4>2. RecordOK(NoRecord, p, e) /\ ClearingOK(c, NoRecord, e)
          BY <4>1 DEF RecordOK, ClearingOK, NoRecord, TrueOutcome, Unobserved
        <4> QED
          BY <1>1, <2>2, <3>1, <3>4, <4>2
      <3> QED
        BY <3>2, <3>3, <3>4
    <2> QED
      BY <2>1, <2>2
  <1> HIDE DEF kept
  <1>10. CASE end \in {"move", "delete"}
    <2>1. ClearSteps(m, t, end, how) = kept
      BY <1>10, <1>12
    <2>2. Touches(m, kept, t)
      BY <1>9 DEF Touches
    <2>3. TaskOK(kept, p, e, t)
      BY <1>1, <1>3, <1>4, <1>5, <1>9, <2>2
    <2> QED
      BY <1>3, <1>9, <2>1, <2>2, <2>3 DEF LeavesCleared
  <1>11. CASE end = "drop"
    <2>1. ClearSteps(m, t, end, how) =
            [Commit(kept, t, NoRecord, how) EXCEPT !.storageFailed = m.storageFailed]
      BY <1>11, <1>12
    <2>2. PICK n : n = [Commit(kept, t, NoRecord, how) EXCEPT !.storageFailed = kept.storageFailed]
      OBVIOUS
    <2>3. /\ n \in MemoryType /\ Touches(kept, n, t) /\ n.rt = m.rt
          /\ \/ n.mem[t] = NoRecord /\ n.disk[t] = NoRecord
             \/ n.mem[t] = c /\ (n.disk[t] = kept.disk[t] \/ n.disk[t] = NoRecord)
      BY <1>2, <1>9, <2>2, ClearCommitTouches
    <2>4. e = "none"
      BY <1>11 DEF ClearedTo
    <2>5. RecordOK(NoRecord, p, e) /\ NoRecord.reason = "absent"
      BY <2>4 DEF RecordOK, NoRecord, TrueOutcome, Unobserved
    <2>6. Touches(m, kept, t)
      BY <1>9 DEF Touches
    <2>10. ClearingOK(NoRecord, NoRecord, e) /\ ClearingOK(c, NoRecord, e)
      BY <2>4 DEF ClearingOK, NoRecord
    <2>7. Touches(m, n, t)
      BY <1>9, <2>3, <2>6, TouchesCompose
    <2>8. ~Finalized(NoRecord)
      BY <2>5 DEF Finalized, Reasons, Ends
    <2>9. TaskOK(n, p, e, t)
      BY <1>1, <1>3, <1>4, <1>5, <1>9, <2>3, <2>5, <2>7, <2>8, <2>10
    <2> QED
      BY <1>3, <1>9, <2>1, <2>2, <2>3, <2>5, <2>7, <2>9 DEF LeavesCleared
  <1> QED
    BY <1>6, <1>10, <1>11

\* TaskRegistry.open finishes the clears it finds, and what is unfinished is dead.
LEMMA OpenWell ==
  ASSUME NEW m \in MemoryType, NEW p, NEW d, NEW e, NEW k \in Nat, MemoryInv(m, p, d, k),
         NEW end \in {"move", "delete", "drop"},
         NEW left, left = [t \in Tasks |-> IF m.disk[t].clearing /\ end = "drop" THEN NoRecord ELSE m.disk[t]],
         \A t \in Tasks : IF m.disk[t].clearing THEN ClearedTo(end, d[t], e[t]) ELSE e[t] = d[t]
  PROVE  LET n == NewSupervisor(Reconcile(left)) IN
         /\ n \in MemoryType /\ MemoryInv(n, p, e, k)
         /\ \A t \in Tasks : m.disk[t].reason # "running" =>
               n.mem[t].reason \in {m.disk[t].reason, "absent"}
  <1>1. ASSUME NEW t \in Tasks
        PROVE  /\ Reconcile(left)[t] \in RecordType /\ RecordOK(Reconcile(left)[t], p[t], e[t])
               /\ Reconcile(left)[t].reason # "running"
               /\ t > k => Reconcile(left)[t] = NoRecord /\ e[t] = d[t]
               /\ m.disk[t].reason # "running" => Reconcile(left)[t].reason \in {m.disk[t].reason, "absent"}
    <2>1. m.disk[t] \in RecordType /\ NoRecord \in RecordType /\ Record("supervisor_lost") \in RecordType
      BY DEF MemoryType, RecordType, NoRecord, Record, Reasons
    <2>2. RecordOK(m.disk[t], p[t], d[t])
      BY DEF MemoryInv, TasksInv, TaskOK
    <2>3. t > k => m.disk[t] = NoRecord
      BY DEF MemoryInv, TasksInv, FreshTask
    <2>4. Reconcile(left)[t] = IF left[t].reason = "running" THEN Record("supervisor_lost") ELSE left[t]
      BY DEF Reconcile
    <2>5. left[t] = IF m.disk[t].clearing /\ end = "drop" THEN NoRecord ELSE m.disk[t]
      OBVIOUS
    <2>6. NoRecord.reason = "absent" /\ NoRecord.clearing = FALSE
      BY DEF NoRecord
    <2>7. CASE m.disk[t].clearing
      <3>1. m.disk[t].reason # "running" /\ ClearedTo(end, d[t], e[t])
        BY <2>2, <2>7 DEF RecordOK
      <3>2. left[t].reason # "running"
        BY <2>5, <2>6, <3>1
      <3>3. RecordOK(left[t], p[t], e[t])
        BY <2>2, <2>5, <2>6, <2>7, <3>1 DEF RecordOK, ClearedTo, TrueOutcome, Unobserved
      <3>4. ~(t > k)
        BY <2>3, <2>6, <2>7
      <3> QED
        BY <2>1, <2>4, <2>5, <2>6, <3>2, <3>3, <3>4
    <2>8. CASE ~m.disk[t].clearing
      <3>1. left[t] = m.disk[t] /\ e[t] = d[t]
        BY <2>5, <2>8
      <3>2. CASE m.disk[t].reason = "running"
        <4>1. d[t] = "tasks"
          BY <2>2, <2>6, <2>8, <3>2 DEF RecordOK
        <4>2. RecordOK(Record("supervisor_lost"), p[t], d[t])
          BY <4>1 DEF RecordOK, Record, TrueOutcome, Unobserved
        <4>3. Record("supervisor_lost").reason # "running"
          BY DEF Record
        <4> QED
          BY <2>1, <2>3, <2>4, <2>6, <3>1, <3>2, <4>2, <4>3
      <3>3. CASE m.disk[t].reason # "running"
        BY <2>1, <2>2, <2>3, <2>4, <3>1, <3>3
      <3> QED
        BY <3>2, <3>3
    <2> QED
      BY <2>7, <2>8
  <1>2. PICK r : r = Reconcile(left)
    OBVIOUS
  <1>3. r \in [Tasks -> RecordType]
    BY <1>1, <1>2 DEF Reconcile
  <1>4. PICK n : n = NewSupervisor(r)
    OBVIOUS
  <1>5. /\ n \in MemoryType /\ n.mem = r /\ n.disk = r /\ n.deferred = <<>> /\ n.stray = FALSE
        /\ n.rt = [t \in Tasks |-> NoRuntime]
    BY <1>3, <1>4, NewSupervisorType
  <1>6. ASSUME NEW t \in Tasks PROVE TaskOK(n, p[t], e[t], t)
    <2>1. n.rt[t] = NoRuntime /\ RuntimeOK(n.rt[t], p[t]) /\ ~n.rt[t].owned
      BY <1>5, NoRuntimeWell
    <2>2. RecordOK(r[t], p[t], e[t]) /\ r[t].reason # "running"
      BY <1>1, <1>2
    <2> QED
      BY <1>5, <2>1, <2>2, ClearingIs DEF TaskOK
  <1>7. ASSUME NEW t \in Tasks, t > k \/ Waits(n, t) PROVE FreshTask(n, p[t], e[t], t)
    <2>1. t > k
      BY <1>5, <1>7 DEF Waits
    <2>2. n.rt[t] = NoRuntime /\ r[t] = NoRecord /\ e[t] = d[t]
      BY <1>1, <1>2, <1>5, <2>1
    <2>3. FreshTask(m, p[t], d[t], t)
      BY <2>1 DEF MemoryInv, TasksInv
    <2> QED
      BY <1>5, <2>2, <2>3 DEF FreshTask
  <1>8. QueueOK(n, k) /\ HandoffOK(n) /\ ~n.stray
    <2>1. \A t \in Tasks : n.rt[t].waiters = 0
      BY <1>5, NoRuntimeWell
    <2> QED
      BY <1>5, <2>1 DEF QueueOK, HandoffOK
  <1> QED
    BY <1>1, <1>2, <1>4, <1>5, <1>6, <1>7, <1>8 DEF MemoryInv, TasksInv

-----------------------------------------------------------------------------
(* The steps *)

\* No outcome in memory changes, unless its task is cleared.
OutcomesStay(m, n) ==
  \A t \in Tasks : Finalized(m.mem[t]) => n.mem[t].reason \in {m.mem[t].reason, "absent"}

\* The task that a handler touches is the only one whose outcome it could change.
LEMMA TouchedOutcome ==
  ASSUME NEW m \in MemoryType, NEW n \in MemoryType, NEW t \in Tasks, Touches(m, n, t),
         Finalized(m.mem[t]) => n.mem[t].reason \in {m.mem[t].reason, "absent"}
  PROVE  OutcomesStay(m, n)
  BY DEF OutcomesStay, Touches

\* A task that is owned has no outcome yet.
LEMMA OwnedHasNoOutcome ==
  ASSUME NEW m \in MemoryType, NEW t \in Tasks, NEW p, NEW d, TaskOK(m, p, d, t), m.rt[t].owned
  PROVE  ~Finalized(m.mem[t])
  BY DEF TaskOK, Finalized, Record

\* A handler that leaves the owned task t well is a step that keeps the invariant.
LEMMA HandlerKeeps ==
  ASSUME TypesOK, SupervisorInv, NEW t \in Tasks, sup.rt[t].owned,
         LeavesWell(sup, sup', proc[t], dir[t], t), proc' = proc, dir' = dir, used' = used
  PROVE  TypesOK' /\ SupervisorInv' /\ OutcomesStay(sup, sup')
  <1>1. /\ sup \in MemoryType /\ sup' \in MemoryType /\ Touches(sup, sup', t) /\ used \in Nat
        /\ TaskOK(sup', proc[t], dir[t], t)
        /\ sup.rt[t].waiters = 0 => sup'.rt[t].waiters = 0
    BY BgTasksAssumption DEF TypesOK, LeavesWell
  <1>2. MemoryInv(sup, proc, dir, used) /\ HandoffOK(sup)
    BY DEF SupervisorInv, MemoryInv
  <1>3. sup'.up /\ sup'.shutting = "none" /\ sup'.conn # "open" => sup'.rt[t].waiters = 0
    <2>1. sup'.up = sup.up /\ sup'.shutting = sup.shutting /\ sup'.conn = sup.conn
      BY <1>1 DEF Touches
    <2> QED
      BY <1>1, <1>2, <2>1 DEF HandoffOK
  <1>4. ~(t > used) /\ ~Waits(sup, t)
    BY <1>1, <1>2, OwnedIsKnown
  <1>5. MemoryInv(sup', proc, dir, used)
    BY <1>1, <1>2, <1>3, <1>4, OneTaskStep
  <1>6. OutcomesStay(sup, sup')
    <2>1. TaskOK(sup, proc[t], dir[t], t)
      BY <1>2 DEF MemoryInv, TasksInv
    <2> QED
      BY <1>1, <2>1, OwnedHasNoOutcome, TouchedOutcome
  <1> QED
    BY <1>1, <1>5, <1>6 DEF TypesOK, SupervisorInv

\* A change of the connection, the lease or the queue that owes nobody a reply.
LEMMA LinkKeeps ==
  ASSUME TypesOK, SupervisorInv, sup' \in MemoryType,
         sup'.rt = sup.rt, sup'.mem = sup.mem, sup'.disk = sup.disk, sup'.up = sup.up,
         sup'.shutting = sup.shutting, sup'.storageFailed = sup.storageFailed, sup'.stray = sup.stray,
         sup'.deferred = sup.deferred \/ sup'.deferred = <<>>,
         sup'.conn = sup.conn \/ HandoffOK(sup'),
         proc' = proc, dir' = dir, used' = used
  PROVE  TypesOK' /\ SupervisorInv' /\ OutcomesStay(sup, sup')
  <1>1. TasksInv(sup, proc, dir, used) /\ HandoffOK(sup)
    BY DEF SupervisorInv, MemoryInv
  <1>2. \A t \in Tasks : Waits(sup', t) => Waits(sup, t)
    BY DEF Waits
  <1>3. QueueOK(sup', used)
    BY <1>1 DEF TasksInv, QueueOK
  <1>4. ASSUME NEW t \in Tasks
        PROVE  /\ TaskOK(sup', proc[t], dir[t], t)
               /\ t > used \/ Waits(sup', t) => FreshTask(sup', proc[t], dir[t], t)
    BY <1>1, <1>2 DEF TasksInv, TaskOK, FreshTask
  <1>5. TasksInv(sup', proc, dir, used)
    BY <1>1, <1>3, <1>4 DEF TasksInv
  <1>6. HandoffOK(sup')
    BY <1>1 DEF HandoffOK
  <1> QED
    BY <1>5, <1>6 DEF TypesOK, SupervisorInv, MemoryInv, OutcomesStay

\* The supervisor only looks on while the processes of an owned task change.
LEMMA ProcessKeeps ==
  ASSUME TypesOK, SupervisorInv, NEW t \in Tasks, Exit(t) \/ Fork(t) \/ KinExits(t)
  PROVE  TypesOK' /\ SupervisorInv' /\ OutcomesStay(sup, sup')
  <1>1. /\ sup.rt[t].owned /\ sup' = sup /\ dir' = dir /\ used' = used
        /\ proc' \in [Tasks -> ProcType] /\ \A u \in Tasks : u # t => proc'[u] = proc[u]
        /\ \/ proc[t].leader = "live" /\ proc'[t].leader \in {"live"} \cup Ends
           \/ proc'[t].leader = proc[t].leader /\ ~proc'[t].kin
    <2>1. PICK p \in ProcType :
            /\ proc' = [proc EXCEPT ![t] = p]
            /\ \/ proc[t].leader = "live" /\ p.leader \in {"live"} \cup Ends
               \/ p.leader = proc[t].leader /\ ~p.kin
      <3>1. PICK yes \in BOOLEAN, no \in BOOLEAN : yes = TRUE /\ no = FALSE
        OBVIOUS
      <3>2. proc[t] \in ProcType /\ proc \in [Tasks -> ProcType]
        BY DEF TypesOK
      <3>3. CASE Exit(t)
        <4>0. PICK end \in Ends : proc' = [proc EXCEPT ![t].leader = end]
          BY <3>3 DEF Exit
        <4> DEFINE q == [proc[t] EXCEPT !.leader = end]
        <4>1. q \in ProcType /\ q.leader = end
          BY <3>1, <3>2 DEF ProcType
        <4>2. proc' = [proc EXCEPT ![t] = q]
          BY <3>1, <3>2, <4>0
        <4> HIDE DEF q
        <4> QED
          BY <3>1, <3>3, <4>1, <4>2 DEF Exit
      <3>4. CASE Fork(t)
        <4> DEFINE q == [proc[t] EXCEPT !.kin = yes]
        <4>1. q \in ProcType /\ q.leader = proc[t].leader
          BY <3>1, <3>2 DEF ProcType
        <4>2. proc' = [proc EXCEPT ![t] = q]
          BY <3>1, <3>2, <3>4 DEF Fork
        <4> HIDE DEF q
        <4> QED
          BY <3>1, <3>4, <4>1, <4>2 DEF Fork
      <3>5. CASE KinExits(t)
        <4> DEFINE q == [proc[t] EXCEPT !.kin = no]
        <4>1. q \in ProcType /\ q.leader = proc[t].leader /\ q.kin = no
          BY <3>1, <3>2 DEF ProcType
        <4>2. proc' = [proc EXCEPT ![t] = q]
          BY <3>1, <3>2, <3>5 DEF KinExits
        <4> HIDE DEF q
        <4> QED
          BY <3>1, <3>5, <4>1, <4>2 DEF KinExits
      <3> QED
        BY <3>3, <3>4, <3>5
    <2>3. proc' \in [Tasks -> ProcType] /\ \A u \in Tasks : u # t => proc'[u] = proc[u]
      BY <2>1 DEF TypesOK
    <2>4. proc'[t] = p
      BY <2>1 DEF TypesOK
    <2>5. sup.rt[t].owned /\ sup' = sup /\ dir' = dir /\ used' = used
      BY DEF Exit, Fork, KinExits
    <2> QED
      BY <2>1, <2>3, <2>4, <2>5
  <1>2. sup \in MemoryType /\ used \in Nat /\ MemoryInv(sup, proc, dir, used)
    BY BgTasksAssumption DEF TypesOK, SupervisorInv
  <1>3. TaskOK(sup, proc[t], dir[t], t)
    BY <1>2 DEF MemoryInv, TasksInv
  <1>4. /\ RuntimeOK(sup.rt[t], proc[t]) /\ RecordOK(sup.mem[t], proc[t], dir[t])
        /\ RecordOK(sup.disk[t], proc[t], dir[t])
    BY <1>3 DEF TaskOK
  <1>5. \A reason : TrueOutcome(reason, proc[t]) => TrueOutcome(reason, proc'[t])
    BY <1>1 DEF TrueOutcome, Ends
  <1>6. RuntimeOK(sup.rt[t], proc'[t])
    BY <1>1, <1>4, <1>5 DEF RuntimeOK, Ends
  <1>7. RecordOK(sup.mem[t], proc'[t], dir[t]) /\ RecordOK(sup.disk[t], proc'[t], dir[t])
    BY <1>4, <1>5 DEF RecordOK
  <1>8. TaskOK(sup, proc'[t], dir[t], t)
    BY <1>1, <1>3, <1>6, <1>7 DEF TaskOK
  <1>9. Touches(sup, sup, t)
    BY DEF Touches
  <1>10. ~(t > used) /\ ~Waits(sup, t)
    BY <1>1, <1>2, OwnedIsKnown
  <1>11. sup.up /\ sup.shutting = "none" /\ sup.conn # "open" => sup.rt[t].waiters = 0
    BY <1>2 DEF MemoryInv, HandoffOK
  <1>12. MemoryInv(sup, proc', dir, used)
    BY <1>1, <1>2, <1>8, <1>9, <1>10, <1>11, OneTaskStep
  <1> QED
    BY <1>1, <1>12 DEF TypesOK, SupervisorInv, OutcomesStay

\* The end of a task's output, a deadline for it, or an error.
LEMMA OutputKeeps ==
  ASSUME TypesOK, SupervisorInv, NEW t \in Tasks, ReadPty(t) \/ LogFails(t) \/ DrainDue(t)
  PROVE  TypesOK' /\ SupervisorInv' /\ OutcomesStay(sup, sup')
  <1>1. sup \in MemoryType /\ TaskOK(sup, proc[t], dir[t], t) /\ RuntimeOK(sup.rt[t], proc[t])
    BY DEF TypesOK, SupervisorInv, MemoryInv, TasksInv, TaskOK
  <1>2. sup.rt[t] \in RuntimeType /\ sup.rt \in [Tasks -> RuntimeType]
    BY <1>1 DEF MemoryType
  <1>3. sup.rt[t].owned
    <2>1. ~NoRuntime.drain
      BY DEF NoRuntime
    <2> QED
      BY <1>1, <2>1 DEF ReadPty, LogFails, DrainDue, RuntimeOK
  <1>4. PICK pty \in {"open", "eof", "timedout"}, fails \in BOOLEAN, failed \in BOOLEAN :
          /\ pty = "open" => sup.rt[t].pty = "open"
          /\ sup.storageFailed => failed
          /\ sup' = [sup EXCEPT !.rt[t].pty = pty, !.rt[t].outputFailed = fails, !.storageFailed = failed]
    <2>1. PICK a \in BOOLEAN, b \in BOOLEAN, yes \in BOOLEAN :
            a = sup.rt[t].outputFailed /\ b = sup.storageFailed /\ yes = TRUE
      BY <1>1, <1>2 DEF MemoryType, RuntimeType
    <2>2. CASE sup' = [sup EXCEPT !.rt[t].pty = "eof"]
      <3>1. sup' = [sup EXCEPT !.rt[t].pty = "eof", !.rt[t].outputFailed = a, !.storageFailed = b]
        BY <1>1, <1>2, <2>1, <2>2, SMTT(20), ZenonT(60) DEF MemoryType, RuntimeType
      <3> QED
        BY <2>1, <3>1
    <2>3. CASE sup' = [sup EXCEPT !.rt[t].pty = "eof", !.rt[t].outputFailed = TRUE]
      <3>1. sup' = [sup EXCEPT !.rt[t].pty = "eof", !.rt[t].outputFailed = yes, !.storageFailed = b]
        BY <1>1, <1>2, <2>1, <2>3, SMTT(20), ZenonT(60) DEF MemoryType, RuntimeType
      <3> QED
        BY <2>1, <3>1
    <2>6. PICK now \in {"open", "eof", "timedout"} : now = sup.rt[t].pty
      BY <1>2 DEF RuntimeType
    <2>4. CASE sup' = [sup EXCEPT !.rt[t].outputFailed = TRUE, !.storageFailed = TRUE]
      <3>1. sup' = [sup EXCEPT !.rt[t].pty = now, !.rt[t].outputFailed = yes, !.storageFailed = yes]
        BY <1>1, <1>2, <2>1, <2>4, <2>6, SMTT(20), ZenonT(60) DEF MemoryType, RuntimeType
      <3> QED
        BY <2>1, <2>6, <3>1
    <2>7. CASE sup' = [sup EXCEPT !.rt[t].outputFailed = TRUE]
      <3>1. sup' = [sup EXCEPT !.rt[t].pty = now, !.rt[t].outputFailed = yes, !.storageFailed = b]
        BY <1>1, <1>2, <2>1, <2>6, <2>7, SMTT(20), ZenonT(60) DEF MemoryType, RuntimeType
      <3> QED
        BY <2>1, <2>6, <3>1
    <2>5. CASE sup' = [sup EXCEPT !.rt[t].pty = "timedout"]
      <3>1. sup' = [sup EXCEPT !.rt[t].pty = "timedout", !.rt[t].outputFailed = a, !.storageFailed = b]
        BY <1>1, <1>2, <2>1, <2>5, SMTT(20), ZenonT(60) DEF MemoryType, RuntimeType
      <3> QED
        BY <2>1, <3>1
    <2> QED
      BY <2>2, <2>3, <2>4, <2>5, <2>7 DEF ReadPty, LogFails, DrainDue
  <1> DEFINE s == [sup.rt[t] EXCEPT !.pty = pty, !.outputFailed = fails]
             k == [sup EXCEPT !.rt[t] = s]
  <1>5. sup' = [k EXCEPT !.storageFailed = failed]
    <2>1. [sup.rt EXCEPT ![t].pty = pty, ![t].outputFailed = fails] = [sup.rt EXCEPT ![t] = s]
      BY <1>2 DEF RuntimeType
    <2> QED
      BY <1>1, <1>4, <2>1 DEF MemoryType
  <1>6. LET r == sup.rt[t] IN
        /\ s \in RuntimeType /\ s.owned = r.owned /\ s.sealed = r.sealed /\ s.settled = r.settled
        /\ s.timer = r.timer /\ s.pty = pty /\ s.drain = r.drain /\ s.stage = r.stage
        /\ s.waiters = r.waiters /\ s.pending = r.pending
    BY <1>2 DEF RuntimeType
  <1> HIDE DEF s
  <1>7. RuntimeOK(s, proc[t])
    BY <1>1, <1>3, <1>4, <1>6 DEF RuntimeOK
  <1>8. /\ k \in MemoryType /\ Touches(sup, k, t) /\ k.rt[t] = s /\ k.mem = sup.mem /\ k.disk = sup.disk
        /\ k.storageFailed = sup.storageFailed
    BY <1>1, <1>6, RuntimeTouches
  <1> HIDE DEF k
  <1>9. /\ sup' \in MemoryType /\ sup'.rt = k.rt /\ sup'.mem = k.mem /\ sup'.disk = k.disk
        /\ sup'.up = k.up /\ sup'.shutting = k.shutting /\ sup'.deferred = k.deferred
        /\ sup'.conn = k.conn /\ sup'.stray = k.stray /\ sup'.storageFailed = failed
    BY <1>5, <1>8 DEF MemoryType
  <1>10. Touches(sup, sup', t)
    BY <1>4, <1>8, <1>9 DEF Touches
  <1>11. LeavesWell(sup, sup', proc[t], dir[t], t)
    <2>1. /\ sup'.mem = sup.mem /\ sup'.disk = sup.disk /\ sup'.rt[t] = s
      BY <1>8, <1>9
    <2> QED
      BY <1>1, <1>6, <1>7, <1>9, <1>10, <2>1, NewRuntimeWell
  <1>12. proc' = proc /\ dir' = dir /\ used' = used
    BY DEF ReadPty, LogFails, DrainDue, Rest
  <1> QED
    BY <1>3, <1>11, <1>12, HandlerKeeps

\* The pieces of the invariant that every step starts from.
LEMMA Parts ==
  ASSUME TypesOK, SupervisorInv
  PROVE  /\ sup \in MemoryType /\ used \in Nat /\ MemoryInv(sup, proc, dir, used)
         /\ TasksInv(sup, proc, dir, used) /\ HandoffOK(sup)
         /\ \A t \in Tasks : TaskOK(sup, proc[t], dir[t], t) /\ RuntimeOK(sup.rt[t], proc[t])
  BY BgTasksAssumption DEF TypesOK, SupervisorInv, MemoryInv, TasksInv, TaskOK

\* An observation of an owned task.
LEMMA ReapKeeps ==
  ASSUME TypesOK, SupervisorInv, NEW t \in Tasks, Reap(t)
  PROVE  TypesOK' /\ SupervisorInv' /\ OutcomesStay(sup, sup')
  <1>1. PICK how \in Commits : sup' = ReapTask(sup, t, how)
    BY DEF Reap, Do
  <1>2. sup.rt[t].owned /\ proc' = proc /\ dir' = dir /\ used' = used
    BY DEF Reap, Observes, Rest
  <1>3. proc \in [Tasks -> ProcType]
    BY DEF TypesOK
  <1>4. LeavesWell(sup, sup', proc[t], dir[t], t)
    BY <1>1, <1>2, <1>3, Parts, ReapWell
  <1> QED
    BY <1>2, <1>4, HandlerKeeps

\* A deadline of a task's stage.
LEMMA StageKeeps ==
  ASSUME TypesOK, SupervisorInv, NEW t \in Tasks, StageDue(t)
  PROVE  TypesOK' /\ SupervisorInv' /\ OutcomesStay(sup, sup')
  <1>1. PICK how \in Commits :
          sup' = CASE sup.rt[t].stage = "grace" ->
                        SignalCandidates([SetStage(sup, t, "term") EXCEPT !.rt[t].kin = TRUE], t)
                   [] sup.rt[t].stage = "term" -> SignalGroup(SetStage(sup, t, "kill"), t)
                   [] sup.rt[t].stage = "kill" -> StageSpent(SetStage(sup, t, "unconfirmed"), t, how)
    BY DEF StageDue, Do
  <1>2. sup.rt[t].timer /\ proc' = proc /\ dir' = dir /\ used' = used
    BY DEF StageDue, Rest
  <1>3. sup.rt[t].stage \in {"grace", "term", "kill"} /\ sup.rt[t].owned
    <2>1. ~NoRuntime.timer
      BY DEF NoRuntime
    <2> QED
      BY <1>2, <2>1, Parts DEF RuntimeOK
  <1>4. /\ LeavesWell(sup, SignalCandidates([SetStage(sup, t, "term") EXCEPT !.rt[t].kin = TRUE], t), proc[t], dir[t], t)
        /\ LeavesWell(sup, SignalGroup(SetStage(sup, t, "kill"), t), proc[t], dir[t], t)
    BY <1>3, Parts, StageStepWell
  <1>5. LeavesWell(sup, StageSpent(SetStage(sup, t, "unconfirmed"), t, how), proc[t], dir[t], t)
    BY <1>3, Parts, StageSpentWell
  <1>6. LeavesWell(sup, sup', proc[t], dir[t], t)
    BY <1>1, <1>3, <1>4, <1>5
  <1> QED
    BY <1>2, <1>3, <1>6, HandlerKeeps

\* A terminate request.
LEMMA TerminateKeeps ==
  ASSUME TypesOK, SupervisorInv, NEW t \in Tasks, Terminate(t)
  PROVE  TypesOK' /\ SupervisorInv' /\ OutcomesStay(sup, sup')
  <1>1. PICK how \in Commits :
          sup' = RequestTerminate([sup EXCEPT !.rt[t].waiters = @ + 1, !.rt[t].terminate = TRUE], t, how)
    BY DEF Terminate, Do
  <1>2. /\ sup.rt[t].owned /\ sup.conn = "open" /\ proc' = proc /\ dir' = dir /\ used' = used
    BY DEF Terminate, Served
  <1>3. sup' \in MemoryType /\ Touches(sup, sup', t) /\ TaskOK(sup', proc[t], dir[t], t)
    BY <1>1, <1>2, Parts, TerminateWell
  <1>4. sup'.conn = "open"
    BY <1>2, <1>3 DEF Touches
  <1>5. ~(t > used) /\ ~Waits(sup, t)
    BY <1>2, Parts, OwnedIsKnown
  <1>6. MemoryInv(sup', proc, dir, used)
    BY <1>3, <1>4, <1>5, Parts, OneTaskStep
  <1>7. OutcomesStay(sup, sup')
    BY <1>2, <1>3, Parts, OwnedHasNoOutcome, TouchedOutcome
  <1> QED
    BY <1>2, <1>3, <1>6, <1>7 DEF TypesOK, SupervisorInv

\* A clear request.
LEMMA ClearKeeps ==
  ASSUME TypesOK, SupervisorInv, NEW t \in Tasks, Clear(t)
  PROVE  TypesOK' /\ SupervisorInv' /\ OutcomesStay(sup, sup')
  <1>1. PICK end \in {"intent", "move", "delete", "drop"}, how \in Commits :
          /\ end = "intent" => how # "ok"
          /\ sup' = ClearSteps(sup, t, end, how) /\ dir' = ClearedDir(t, end)
    BY DEF Clear
  <1>2. Finalized(sup.mem[t]) /\ sup.conn = "open" /\ proc' = proc /\ used' = used
    BY DEF Clear, Served
  <1>3. /\ dir' \in [Tasks -> DirType] /\ ClearedTo(end, dir[t], dir'[t])
        /\ \A u \in Tasks : u # t => dir'[u] = dir[u]
    BY <1>1, ClearedDirMoves DEF TypesOK
  <1>4. /\ sup' \in MemoryType /\ Touches(sup, sup', t) /\ TaskOK(sup', proc[t], dir'[t], t)
        /\ sup'.mem[t].reason \in {sup.mem[t].reason, "absent"}
    <2>1. sup \in MemoryType /\ TaskOK(sup, proc[t], dir[t], t)
      BY Parts
    <2>2. LeavesCleared(sup, ClearSteps(sup, t, end, how), proc[t], dir'[t], t)
      <3>1. end = "intent" => how # "ok"
        BY <1>1
      <3> QED
        BY <1>2, <1>3, <2>1, <3>1, ClearWell
    <2> QED
      BY <1>1, <2>2 DEF LeavesCleared
  <1>5. sup'.conn = "open"
    BY <1>2, <1>4 DEF Touches
  <1>6. ~(t > used) /\ ~Waits(sup, t)
    <2>1. sup.mem[t] # NoRecord
      BY <1>2 DEF Finalized, NoRecord, Reasons, Ends
    <2> QED
      BY <2>1, Parts DEF TasksInv, FreshTask
  <1>7. MemoryInv(sup', proc, dir', used)
    BY <1>3, <1>4, <1>5, <1>6, Parts, OneTaskStep
  <1>8. OutcomesStay(sup, sup')
    BY <1>4, Parts, TouchedOutcome
  <1> QED
    BY <1>2, <1>3, <1>4, <1>7, <1>8 DEF TypesOK, SupervisorInv

\* The owner comes, leaves, hangs up or is lost; a shutdown is asked for.
LEMMA OwnerKeeps ==
  ASSUME TypesOK, SupervisorInv, Accept \/ Detach \/ ControlEof \/ OwnerGone \/ Shutdown
  PROVE  TypesOK' /\ SupervisorInv' /\ OutcomesStay(sup, sup')
  <1>1. proc' = proc /\ dir' = dir /\ used' = used
    BY DEF Accept, Detach, ControlEof, OwnerGone, Shutdown, Rest
  <1>2. ASSUME sup' \in MemoryType, MemoryInv(sup', proc, dir, used), sup'.mem = sup.mem
        PROVE  TypesOK' /\ SupervisorInv' /\ OutcomesStay(sup, sup')
    BY <1>1, <1>2 DEF TypesOK, SupervisorInv, OutcomesStay
  <1>3. CASE Accept
    <2>1. /\ sup' \in MemoryType /\ sup'.rt = sup.rt /\ sup'.mem = sup.mem /\ sup'.disk = sup.disk
          /\ sup'.up = sup.up /\ sup'.shutting = sup.shutting /\ sup'.stray = sup.stray
          /\ sup'.storageFailed = sup.storageFailed /\ sup'.deferred = sup.deferred
          /\ sup'.conn = "open"
      BY <1>3, Parts DEF Accept, MemoryType
    <2>2. HandoffOK(sup')
      BY <2>1 DEF HandoffOK
    <2> QED
      BY <1>1, <2>1, <2>2, LinkKeeps
  <1>4. CASE Detach
    <2>1. /\ sup' \in MemoryType /\ sup'.rt = sup.rt /\ sup'.mem = sup.mem /\ sup'.disk = sup.disk
          /\ sup'.up = sup.up /\ sup'.shutting = sup.shutting /\ sup'.stray = sup.stray
          /\ sup'.storageFailed = sup.storageFailed /\ sup'.deferred = sup.deferred
      BY <1>4, Parts DEF Detach, MemoryType
    <2>2. sup.deferred = <<>> /\ \A t \in Tasks : sup.rt[t].waiters = 0
      BY <1>4 DEF Detach
    <2>3. HandoffOK(sup')
      BY <2>1, <2>2 DEF HandoffOK
    <2> QED
      BY <1>1, <2>1, <2>3, LinkKeeps
  <1>5. CASE ControlEof
    <2> DEFINE closed == [sup EXCEPT !.conn = "none"]
    <2>1. PICK how \in Commits :
            sup' = IF sup.conn = "open" /\ sup.shutting = "none" THEN OwnerLost(closed, how) ELSE closed
      BY <1>5 DEF ControlEof, Do
    <2>2. /\ closed \in MemoryType /\ closed.rt = sup.rt /\ closed.mem = sup.mem /\ closed.disk = sup.disk
          /\ closed.up = sup.up /\ closed.shutting = sup.shutting /\ closed.stray = sup.stray
          /\ closed.storageFailed = sup.storageFailed /\ closed.deferred = sup.deferred
      BY Parts DEF MemoryType
    <2> HIDE DEF closed
    <2>3. CASE sup.conn = "open" /\ sup.shutting = "none"
      <3>1. TasksInv(closed, proc, dir, used)
        <4>1. TasksInv(sup, proc, dir, used)
          BY Parts
        <4> QED
          BY <2>2, <4>1 DEF TasksInv, TaskOK, FreshTask, Waits, QueueOK
      <3>2. LET n == OwnerLost(closed, how) IN
            n \in MemoryType /\ MemoryInv(n, proc, dir, used) /\ n.mem = closed.mem
        BY <2>2, <3>1, Parts, OwnerLostWell
      <3> QED
        BY <1>2, <2>1, <2>2, <2>3, <3>2
    <2>4. CASE ~(sup.conn = "open" /\ sup.shutting = "none")
      <3>1. sup' = closed
        BY <2>1, <2>4
      <3>2. HandoffOK(closed)
        BY <2>2, <2>4, Parts DEF HandoffOK
      <3> QED
        BY <1>1, <2>2, <3>1, <3>2, LinkKeeps
    <2> QED
      BY <2>3, <2>4
  <1>6. CASE OwnerGone
    <2>1. PICK how \in Commits : sup' = OwnerLost(sup, how)
      BY <1>6 DEF OwnerGone, Do
    <2>2. LET n == OwnerLost(sup, how) IN
          n \in MemoryType /\ MemoryInv(n, proc, dir, used) /\ n.mem = sup.mem
      BY Parts, OwnerLostWell
    <2> QED
      BY <1>2, <2>1, <2>2
  <1>7. CASE Shutdown
    <2>1. PICK how \in Commits : sup' = BeginShutdown(sup, "graceful", how)
      BY <1>7 DEF Shutdown, Do
    <2>2. PICK kind \in {"graceful", "owner_lost"} : kind = "graceful"
      OBVIOUS
    <2>3. LET n == BeginShutdown(sup, kind, how) IN
          n \in MemoryType /\ MemoryInv(n, proc, dir, used) /\ n.mem = sup.mem
      BY Parts, BeginShutdownWell
    <2> QED
      BY <1>2, <2>1, <2>2, <2>3
  <1> QED
    BY <1>3, <1>4, <1>5, <1>6, <1>7

\* What _spawn leaves of the processes and of the log.
LEMMA LaunchLeaves ==
  ASSUME TypesOK, NEW t \in Tasks, NEW end \in SpawnStops, Launch(t, end)
  PROVE  /\ proc' \in [Tasks -> ProcType] /\ dir' \in [Tasks -> DirType]
         /\ \A u \in Tasks : u # t => proc'[u] = proc[u] /\ dir'[u] = dir[u]
         /\ LaunchedTo(end, proc[t], proc'[t], dir'[t])
  <1>1. /\ proc' \in [Tasks -> ProcType] /\ \A u \in Tasks : u # t => proc'[u] = proc[u]
        /\ end = "run" => proc'[t].leader = "live"
        /\ end # "run" => proc'[t] = proc[t]
    <2>1. CASE end = "run"
      <3> DEFINE q == [proc[t] EXCEPT !.leader = "live"]
      <3>1. q \in ProcType /\ q.leader = "live"
        <4>1. proc[t] \in ProcType
          BY DEF TypesOK
        <4> QED
          BY <4>1 DEF ProcType
      <3>2. proc' = [proc EXCEPT ![t] = q]
        BY <2>1 DEF Launch, TypesOK
      <3> HIDE DEF q
      <3> QED
        BY <2>1, <3>1, <3>2 DEF TypesOK
    <2>2. CASE end # "run"
      BY <2>2 DEF Launch, TypesOK
    <2> QED
      BY <2>1, <2>2
  <1>2. /\ dir' \in [Tasks -> DirType] /\ \A u \in Tasks : u # t => dir'[u] = dir[u]
        /\ dir'[t] \in {"none", "tasks"} /\ (end # "log" => dir'[t] = "tasks")
    BY DEF Launch, TypesOK, DirType
  <1> QED
    BY <1>1, <1>2 DEF LaunchedTo

\* A launch of a task that nothing is known of, from the memory m.
LEMMA LaunchKeeps ==
  ASSUME TypesOK, NEW m \in MemoryType, NEW t \in Tasks, MemoryInv(m, proc, dir, used),
         FreshTask(m, proc[t], dir[t], t), ~Waits(m, t), ~(t > used'), used' \in 0..MaxTasks,
         used <= used',
         NEW end \in SpawnStops, NEW how \in Commits, SpawnEnds(end, how),
         sup' = Spawned(m, t, end, how), Launch(t, end)
  PROVE  TypesOK' /\ SupervisorInv' /\ OutcomesStay(m, sup')
  <1>1. /\ proc' \in [Tasks -> ProcType] /\ dir' \in [Tasks -> DirType]
        /\ \A u \in Tasks : u # t => proc'[u] = proc[u] /\ dir'[u] = dir[u]
        /\ LaunchedTo(end, proc[t], proc'[t], dir'[t])
    BY LaunchLeaves
  <1>2. /\ sup' \in MemoryType /\ Touches(m, sup', t) /\ TaskOK(sup', proc'[t], dir'[t], t)
        /\ sup'.rt[t].waiters = 0
    <2>1. LeavesUnasked(m, Spawned(m, t, end, how), proc'[t], dir'[t], t)
      BY <1>1, SpawnedWell
    <2> QED
      BY <2>1 DEF LeavesUnasked
  <1>3. used \in Nat /\ used' \in Nat
    BY BgTasksAssumption DEF TypesOK
  <1>4. MemoryInv(sup', proc', dir', used')
    BY <1>1, <1>2, <1>3, OneTaskStep
  <1>5. OutcomesStay(m, sup')
    <2>1. ~Finalized(m.mem[t])
      BY DEF FreshTask, Finalized, NoRecord, Reasons, Ends
    <2> QED
      BY <1>2, <2>1, TouchedOutcome
  <1> QED
    BY <1>1, <1>2, <1>4, <1>5 DEF TypesOK, SupervisorInv

\* A spawn request: it waits behind a group that closes, or is launched.
LEMMA SpawnKeeps ==
  ASSUME TypesOK, SupervisorInv, NEW t \in Tasks, Spawn(t)
  PROVE  TypesOK' /\ SupervisorInv' /\ OutcomesStay(sup, sup')
  <1>1. t = used + 1 /\ used' = t /\ sup.conn = "open"
    BY DEF Spawn, Served
  <1>2. /\ used \in Nat /\ used' \in Nat /\ t > used /\ ~(t > used') /\ used <= used'
        /\ used' \in 0..MaxTasks
    BY <1>1, Parts, BgTasksAssumption DEF Tasks
  <1>3. FreshTask(sup, proc[t], dir[t], t)
    BY <1>2, Parts DEF TasksInv
  <1>4. sup.deferred \in Seq(Tasks) /\ QueueOK(sup, used)
    BY Parts DEF TasksInv, MemoryType
  <1>5. ~Waits(sup, t)
    BY <1>1, <1>2, <1>4, BgTasksAssumption DEF Waits, QueueOK, Tasks
  <1>6. CASE /\ sup' = [sup EXCEPT !.deferred = Append(sup.deferred, t)]
             /\ dir' = dir /\ proc' = proc
    <2> DEFINE queue == Append(sup.deferred, t)
    <2>1. /\ queue \in Seq(Tasks) /\ Len(queue) = Len(sup.deferred) + 1 /\ queue[Len(queue)] = t
          /\ \A i \in 1..Len(sup.deferred) : queue[i] = sup.deferred[i]
          /\ Len(sup.deferred) \in Nat
      BY <1>4
    <2> HIDE DEF queue
    <2>2. /\ sup' \in MemoryType /\ sup'.rt = sup.rt /\ sup'.mem = sup.mem /\ sup'.disk = sup.disk
          /\ sup'.up = sup.up /\ sup'.shutting = sup.shutting /\ sup'.stray = sup.stray
          /\ sup'.storageFailed = sup.storageFailed /\ sup'.deferred = queue /\ sup'.conn = sup.conn
      <3>1. sup' = [sup EXCEPT !.deferred = queue]
        BY <1>6 DEF queue
      <3> QED
        BY <2>1, <3>1, Parts DEF MemoryType
    <2>3. \A u \in Tasks : Waits(sup', u) => u = t \/ Waits(sup, u)
      <3>1. ASSUME NEW u \in Tasks, NEW i \in 1..Len(queue), queue[i] = u
            PROVE  u = t \/ Waits(sup, u)
        <4>1. CASE i = Len(queue)
          BY <2>1, <3>1, <4>1
        <4>2. CASE i # Len(queue)
          <5>1. i \in 1..Len(sup.deferred)
            BY <2>1, <4>2
          <5> QED
            BY <2>1, <3>1, <5>1 DEF Waits
        <4> QED
          BY <4>1, <4>2
      <3> QED
        BY <2>2, <3>1 DEF Waits
    <2>4. QueueOK(sup', used')
      <3>1. ASSUME NEW i \in 1..Len(queue) PROVE queue[i] <= used'
        <4>1. CASE i = Len(queue)
          BY <1>1, <1>2, <2>1, <4>1
        <4>2. CASE i # Len(queue)
          <5>1. i \in 1..Len(sup.deferred)
            BY <2>1, <4>2
          <5>2. queue[i] <= used /\ queue[i] \in Nat
            <6>1. sup.deferred[i] <= used /\ sup.deferred[i] \in Tasks
              BY <1>4, <5>1 DEF QueueOK
            <6> QED
              BY <2>1, <5>1, <6>1, BgTasksAssumption DEF Tasks
          <5> QED
            BY <1>2, <5>2
        <4> QED
          BY <4>1, <4>2
      <3>2. ASSUME NEW i \in 1..Len(queue), NEW j \in 1..Len(queue), queue[i] = queue[j]
            PROVE  i = j
        <4>1. \A h \in 1..Len(sup.deferred) : queue[h] # t
          BY <1>5, <2>1 DEF Waits
        <4>2. \A h \in 1..Len(queue) : h = Len(queue) \/ h \in 1..Len(sup.deferred)
          BY <2>1
        <4>3. CASE i = Len(queue) \/ j = Len(queue)
          BY <2>1, <3>2, <4>1, <4>2, <4>3
        <4>4. CASE i # Len(queue) /\ j # Len(queue)
          <5>1. i \in 1..Len(sup.deferred) /\ j \in 1..Len(sup.deferred)
            BY <4>2, <4>4
          <5> QED
            BY <1>4, <2>1, <3>2, <5>1 DEF QueueOK
        <4> QED
          BY <4>3, <4>4
      <3> QED
        BY <2>2, <3>1, <3>2 DEF QueueOK
    <2>5. ASSUME NEW u \in Tasks
          PROVE  /\ TaskOK(sup', proc[u], dir[u], u)
                 /\ u > used' \/ Waits(sup', u) => FreshTask(sup', proc[u], dir[u], u)
      <3>1. TaskOK(sup', proc[u], dir[u], u)
        BY <2>2, Parts DEF TaskOK
      <3>2. ASSUME u > used' \/ Waits(sup', u) PROVE FreshTask(sup', proc[u], dir[u], u)
        <4>1. u > used \/ Waits(sup, u)
          BY <1>1, <1>2, <2>3, <3>2, BgTasksAssumption DEF Tasks
        <4>2. FreshTask(sup, proc[u], dir[u], u)
          BY <4>1, Parts DEF TasksInv
        <4> QED
          BY <2>2, <4>2 DEF FreshTask
      <3> QED
        BY <3>1, <3>2
    <2>6. ~sup'.stray /\ HandoffOK(sup')
      BY <1>1, <2>2, Parts DEF TasksInv, HandoffOK
    <2> QED
      BY <1>2, <1>6, <2>2, <2>4, <2>5, <2>6 DEF TypesOK, SupervisorInv, MemoryInv, TasksInv, OutcomesStay
  <1>7. CASE \E end \in SpawnStops, how \in Commits :
               SpawnEnds(end, how) /\ sup' = Spawned(sup, t, end, how) /\ Launch(t, end)
    BY <1>2, <1>3, <1>5, <1>7, Parts, LaunchKeeps
  <1> QED
    BY <1>6, <1>7 DEF Spawn

\* The first of the queue is launched, or all of it is turned away.
LEMMA RunDeferredKeeps ==
  ASSUME TypesOK, SupervisorInv, RunDeferred
  PROVE  TypesOK' /\ SupervisorInv' /\ OutcomesStay(sup, sup')
  <1>1. used' = used /\ sup.deferred # <<>> /\ sup.up
    BY DEF RunDeferred, DeferredDue, Up
  <1>2. CASE sup' = [sup EXCEPT !.deferred = <<>>] /\ dir' = dir /\ proc' = proc
    <2>1. /\ sup' \in MemoryType /\ sup'.rt = sup.rt /\ sup'.mem = sup.mem /\ sup'.disk = sup.disk
          /\ sup'.up = sup.up /\ sup'.shutting = sup.shutting /\ sup'.stray = sup.stray
          /\ sup'.storageFailed = sup.storageFailed /\ sup'.deferred = <<>> /\ sup'.conn = sup.conn
      <3>1. <<>> \in Seq(Tasks)
        OBVIOUS
      <3> QED
        BY <1>2, <3>1, Parts DEF MemoryType
    <2> QED
      BY <1>1, <1>2, <2>1, LinkKeeps
  <1> DEFINE t == Head(sup.deferred)
             queue == Tail(sup.deferred)
             m == [sup EXCEPT !.deferred = queue]
  <1>3. CASE sup.shutting = "none" /\ \E end \in SpawnStops, how \in Commits :
               SpawnEnds(end, how) /\ sup' = Spawned(m, t, end, how) /\ Launch(t, end)
    <2>1. sup.deferred \in Seq(Tasks) /\ QueueOK(sup, used) /\ used \in 0..MaxTasks
      BY Parts DEF TasksInv, MemoryType, TypesOK
    <2>2. /\ t \in Tasks /\ queue \in Seq(Tasks) /\ Len(queue) = Len(sup.deferred) - 1
          /\ Len(sup.deferred) \in Nat \ {0} /\ t = sup.deferred[1]
          /\ \A i \in 1..Len(queue) : queue[i] = sup.deferred[i + 1]
      BY <1>1, <2>1
    <2> HIDE DEF queue, t
    <2>3. /\ m \in MemoryType /\ m.rt = sup.rt /\ m.mem = sup.mem /\ m.disk = sup.disk
          /\ m.up = sup.up /\ m.shutting = sup.shutting /\ m.stray = sup.stray
          /\ m.storageFailed = sup.storageFailed /\ m.deferred = queue /\ m.conn = sup.conn
      BY <2>2, Parts DEF MemoryType
    <2> HIDE DEF m
    <2>4. Waits(sup, t) /\ ~(t > used) /\ FreshTask(sup, proc[t], dir[t], t)
      <3>1. 1 \in 1..Len(sup.deferred)
        BY <2>2
      <3>2. Waits(sup, t) /\ t <= used
        BY <2>1, <2>2, <3>1 DEF Waits, QueueOK
      <3>3. t \in Nat
        BY <2>2, BgTasksAssumption DEF Tasks
      <3> QED
        BY <2>1, <2>2, <3>2, <3>3, Parts DEF TasksInv
    <2>5. \A i \in 1..Len(queue) : i + 1 \in 1..Len(sup.deferred) /\ i + 1 # 1
      BY <2>2
    <2>6. ~Waits(m, t)
      <3>1. ASSUME NEW i \in 1..Len(queue) PROVE queue[i] # t
        <4>1. 1 \in 1..Len(sup.deferred) /\ i + 1 \in 1..Len(sup.deferred) /\ i + 1 # 1
          BY <2>2, <2>5
        <4>2. sup.deferred[i + 1] # sup.deferred[1]
          BY <2>1, <4>1 DEF QueueOK
        <4> QED
          BY <2>2, <4>2
      <3> QED
        BY <2>3, <3>1 DEF Waits
    <2>7. ASSUME NEW u \in Tasks, Waits(m, u) PROVE Waits(sup, u)
      BY <2>2, <2>3, <2>5, <2>7 DEF Waits
    <2>8. QueueOK(m, used)
      <3>1. ASSUME NEW i \in 1..Len(queue), NEW j \in 1..Len(queue), queue[i] = queue[j] PROVE i = j
        <4>1. i + 1 = j + 1
          BY <2>1, <2>2, <2>5, <3>1 DEF QueueOK
        <4> QED
          BY <4>1
      <3>2. \A i \in 1..Len(queue) : queue[i] <= used
        BY <2>1, <2>2, <2>5 DEF QueueOK
      <3> QED
        BY <2>3, <3>1, <3>2 DEF QueueOK
    <2>9. ASSUME NEW u \in Tasks
          PROVE  /\ TaskOK(m, proc[u], dir[u], u)
                 /\ u > used \/ Waits(m, u) => FreshTask(m, proc[u], dir[u], u)
      BY <2>3, <2>7, Parts DEF TasksInv, TaskOK, FreshTask
    <2>10. ~m.stray /\ HandoffOK(m)
      BY <1>1, <2>3, Parts DEF TasksInv, HandoffOK
    <2>11. MemoryInv(m, proc, dir, used) /\ FreshTask(m, proc[t], dir[t], t)
      BY <2>2, <2>3, <2>4, <2>8, <2>9, <2>10 DEF MemoryInv, TasksInv, FreshTask
    <2>12. ~(t > used') /\ used' \in 0..MaxTasks /\ used <= used'
      BY <1>1, <2>1, <2>4, BgTasksAssumption
    <2> QED
      BY <1>3, <2>2, <2>3, <2>6, <2>11, <2>12, LaunchKeeps DEF OutcomesStay
  <1> QED
    BY <1>2, <1>3 DEF RunDeferred

\* The supervisor ends, of itself or killed, and another opens the registry.
LEMMA RestartKeeps ==
  ASSUME TypesOK, SupervisorInv, FinishTeardown \/ Crash \/ Open
  PROVE  TypesOK' /\ SupervisorInv' /\ OutcomesStay(sup, sup')
  <1>1. proc' = proc /\ used' = used
    BY DEF FinishTeardown, Crash, Open, Rest
  <1>2. Halt(sup) \in MemoryType /\ MemoryInv(Halt(sup), proc, dir, used)
    <2>1. \A t \in Tasks : RecordsOK(sup, proc[t], dir[t], t)
      BY Parts DEF RecordsOK, TaskOK
    <2>2. \A t \in Tasks : t > used => /\ sup.mem[t] = NoRecord /\ sup.disk[t] = NoRecord
                                       /\ proc[t] = [leader |-> "none", kin |-> FALSE] /\ dir[t] = "none"
      BY Parts DEF TasksInv, FreshTask
    <2> QED
      BY <2>1, <2>2, Parts, HaltWell
  <1>3. CASE sup' = Halt(sup) /\ dir' = dir
    <2>1. sup'.mem = sup.mem
      BY <1>3, Parts, HaltKeepsRecords
    <2> QED
      BY <1>1, <1>2, <1>3, <2>1 DEF TypesOK, SupervisorInv, OutcomesStay
  <1>4. CASE FinishTeardown /\ sup' # Halt(sup)
    <2>1. PICK last \in Owned(sup), how \in Commits :
            sup' = Halt(Finalize(Abandoned(sup, how), last, FALSE, how))
      BY <1>4 DEF FinishTeardown, Do
    <2>2. last \in Tasks /\ sup.rt[last].owned /\ sup.shutting # "none" /\ dir' = dir
      BY <1>4 DEF FinishTeardown, Owned, Rest
    <2>3. /\ sup' \in MemoryType /\ MemoryInv(sup', proc, dir, used)
          /\ \A t \in Tasks : ~sup.rt[t].owned => sup'.mem[t] = sup.mem[t]
      <3>1. sup \in MemoryType /\ used \in Nat /\ MemoryInv(sup, proc, dir, used)
        BY Parts
      <3> DEFINE n == Halt(Finalize(Abandoned(sup, how), last, FALSE, how))
      <3>2. /\ n \in MemoryType /\ MemoryInv(n, proc, dir, used)
            /\ \A t \in Tasks : ~sup.rt[t].owned => n.mem[t] = sup.mem[t]
        BY ONLY <2>2, <3>1, how \in Commits, AbandonWell, ZenonT(60)
      <3> HIDE DEF n
      <3>3. sup' = n
        BY <2>1 DEF n
      <3> QED
        BY ONLY <3>2, <3>3
    <2>4. OutcomesStay(sup, sup')
      <3>1. ASSUME NEW t \in Tasks, Finalized(sup.mem[t]) PROVE ~sup.rt[t].owned
        BY <3>1, Parts, OwnedHasNoOutcome
      <3> QED
        BY <2>3, <3>1 DEF OutcomesStay
    <2> QED
      BY <1>1, <2>2, <2>3, <2>4 DEF TypesOK, SupervisorInv
  <1>5. CASE Open
    <2> DEFINE cleared == {t \in Tasks : sup.disk[t].clearing}
               Left(end) == [t \in Tasks |-> IF t \in cleared /\ end = "drop" THEN NoRecord ELSE sup.disk[t]]
    <2>1. PICK end \in {"move", "delete", "drop"} :
            /\ dir' = [t \in Tasks |-> IF t \in cleared THEN ClearedDir(t, end)[t] ELSE dir[t]]
            /\ sup' = NewSupervisor(Reconcile(Left(end)))
      BY <1>5 DEF Open
    <2>2. PICK left : left = [t \in Tasks |-> IF sup.disk[t].clearing /\ end = "drop" THEN NoRecord ELSE sup.disk[t]]
      OBVIOUS
    <2>3. sup' = NewSupervisor(Reconcile(left))
      BY <2>1, <2>2
    <2>4. ASSUME NEW t \in Tasks
          PROVE  /\ dir'[t] \in DirType
                 /\ IF sup.disk[t].clearing THEN ClearedTo(end, dir[t], dir'[t]) ELSE dir'[t] = dir[t]
      <3>1. ClearedDir(t, end) \in [Tasks -> DirType] /\ ClearedTo(end, dir[t], ClearedDir(t, end)[t])
        BY ClearedDirMoves DEF TypesOK
      <3>2. dir'[t] = IF sup.disk[t].clearing THEN ClearedDir(t, end)[t] ELSE dir[t]
        BY <2>1
      <3>3. dir[t] \in DirType
        BY DEF TypesOK
      <3> QED
        BY <3>1, <3>2, <3>3
    <2>5. dir' \in [Tasks -> DirType]
      BY <2>1, <2>4
    <2>6. /\ sup' \in MemoryType /\ MemoryInv(sup', proc, dir', used)
          /\ \A t \in Tasks : sup.disk[t].reason # "running" =>
                sup'.mem[t].reason \in {sup.disk[t].reason, "absent"}
      <3>1. sup \in MemoryType /\ used \in Nat /\ MemoryInv(sup, proc, dir, used)
        BY Parts
      <3> DEFINE n == NewSupervisor(Reconcile(left))
      <3>2. /\ n \in MemoryType /\ MemoryInv(n, proc, dir', used)
            /\ \A t \in Tasks : sup.disk[t].reason # "running" =>
                  n.mem[t].reason \in {sup.disk[t].reason, "absent"}
        BY ONLY end \in {"move", "delete", "drop"}, <2>2, <2>4, <3>1, OpenWell
      <3> HIDE DEF n
      <3>3. sup' = n
        BY <2>3 DEF n
      <3> QED
        BY ONLY <3>2, <3>3
    <2>7. OutcomesStay(sup, sup')
      <3>1. ASSUME NEW t \in Tasks, Finalized(sup.mem[t])
            PROVE  sup.disk[t].reason \in {sup.mem[t].reason, "absent"} /\ sup.disk[t].reason # "running"
        BY <3>1, Parts DEF TaskOK, Finalized
      <3> QED
        BY <2>6, <3>1 DEF OutcomesStay
    <2> QED
      BY <1>1, <2>5, <2>6, <2>7 DEF TypesOK, SupervisorInv
  <1>6. (FinishTeardown \/ Crash) => dir' = dir
    BY DEF FinishTeardown, Crash, Rest
  <1>7. Crash => sup' = Halt(sup)
    BY DEF Crash
  <1> QED
    BY <1>3, <1>4, <1>5, <1>6, <1>7

\* The supervisor starts with an empty registry.
LEMMA InitWell ==
  ASSUME Init
  PROVE  TypesOK /\ SupervisorInv
  <1> DEFINE r == [t \in Tasks |-> NoRecord]
  <1>1. r \in [Tasks -> RecordType] /\ \A t \in Tasks : r[t] = NoRecord
    BY DEF RecordType, NoRecord
  <1>2. sup = NewSupervisor(r)
    BY DEF Init
  <1> HIDE DEF r
  <1>3. /\ sup \in MemoryType /\ sup.mem = r /\ sup.disk = r /\ sup.deferred = <<>> /\ sup.stray = FALSE
        /\ sup.conn = "none" /\ sup.rt = [t \in Tasks |-> NoRuntime]
    BY <1>1, <1>2, NewSupervisorType
  <1>4. TypesOK
    BY <1>3, BgTasksAssumption DEF Init, TypesOK, ProcType, DirType
  <1>5. NoRecord.reason = "absent" /\ ~Finalized(NoRecord)
    BY DEF NoRecord, Finalized, Reasons, Ends
  <1>6. ASSUME NEW t \in Tasks
        PROVE  TaskOK(sup, proc[t], dir[t], t) /\ FreshTask(sup, proc[t], dir[t], t)
    <2>1. /\ sup.rt[t] = NoRuntime /\ sup.mem[t] = NoRecord /\ sup.disk[t] = NoRecord
          /\ proc[t] = [leader |-> "none", kin |-> FALSE] /\ dir[t] = "none"
      BY <1>1, <1>3 DEF Init
    <2>2. RecordOK(NoRecord, proc[t], dir[t])
      BY <1>5, <2>1 DEF RecordOK, TrueOutcome, Unobserved
    <2> QED
      BY <1>5, <2>1, <2>2, NoRuntimeWell, ClearingIs DEF TaskOK, FreshTask
  <1>7. QueueOK(sup, used) /\ HandoffOK(sup) /\ ~sup.stray
    <2>1. \A t \in Tasks : sup.rt[t].waiters = 0
      BY <1>3, NoRuntimeWell
    <2> QED
      BY <1>3, <2>1 DEF QueueOK, HandoffOK
  <1> QED
    BY <1>4, <1>6, <1>7 DEF SupervisorInv, MemoryInv, TasksInv

\* Every step of the supervisor, its owner and the processes keeps the invariant.
LEMMA NextKeeps ==
  ASSUME TypesOK, SupervisorInv, [Next]_vars
  PROVE  TypesOK' /\ SupervisorInv' /\ OutcomesStay(sup, sup')
  <1>1. CASE UNCHANGED vars
    <2>1. sup' = sup /\ proc' = proc /\ dir' = dir /\ used' = used
      BY <1>1 DEF vars
    <2> QED
      BY <2>1 DEF TypesOK, SupervisorInv, OutcomesStay
  <1>2. ASSUME NEW t \in Tasks,
               \/ Spawn(t) \/ Terminate(t) \/ Clear(t)
               \/ Exit(t) \/ Fork(t) \/ KinExits(t)
               \/ ReadPty(t) \/ LogFails(t) \/ Reap(t) \/ StageDue(t) \/ DrainDue(t)
        PROVE  TypesOK' /\ SupervisorInv' /\ OutcomesStay(sup, sup')
    BY <1>2, SpawnKeeps, TerminateKeeps, ClearKeeps, ProcessKeeps, OutputKeeps, ReapKeeps, StageKeeps
  <1>3. CASE RunDeferred \/ Accept \/ Detach \/ ControlEof \/ OwnerGone \/ Shutdown
             \/ FinishTeardown \/ Crash \/ Open
    BY <1>3, RunDeferredKeeps, OwnerKeeps, RestartKeeps
  <1> QED
    BY <1>1, <1>2, <1>3 DEF Next

\* SupervisorInv holds, with the types, in every state the supervisor can reach.
THEOREM SupervisorInvariant == Spec => [](TypesOK /\ SupervisorInv)
  <1>1. Init => TypesOK /\ SupervisorInv
    BY InitWell
  <1>2. TypesOK /\ SupervisorInv /\ [Next]_vars => (TypesOK /\ SupervisorInv)'
    BY NextKeeps
  <1> QED
    BY <1>1, <1>2, PTL DEF Spec

-----------------------------------------------------------------------------
(* What follows *)

\* An outcome that claims the end was observed is recorded only of a group that is gone,
\* and how the leader ended only as it did end.
THEOREM EndsAreTrue == Spec => []EndedMeansGone
  <1>1. TypesOK /\ SupervisorInv => EndedMeansGone
    BY Parts DEF EndedMeansGone, TaskOK, RecordOK, TrueOutcome
  <1> QED
    BY <1>1, SupervisorInvariant, PTL

\* No signal is sent to the number of a group that has settled.
THEOREM SignalsReachTheirGroup == Spec => []SignalsStayHome
  <1>1. TypesOK /\ SupervisorInv => SignalsStayHome
    BY Parts DEF SignalsStayHome, TasksInv
  <1> QED
    BY <1>1, SupervisorInvariant, PTL

\* An unfinished record without a process of this supervisor is a failure of the store.
THEOREM UnfinishedHasRuntime == Spec => []UnfinishedIsOwned
  <1>1. TypesOK /\ SupervisorInv => UnfinishedIsOwned
    BY Parts DEF UnfinishedIsOwned, TaskOK, Up
  <1> QED
    BY <1>1, SupervisorInvariant, PTL

\* Through failures and kills during a clear, records and logs tell the same story.
THEOREM RecordsHaveLogs == Spec => []RecordsMatchArtifacts
  <1>1. TypesOK /\ SupervisorInv => RecordsMatchArtifacts
    BY Parts DEF RecordsMatchArtifacts, TaskOK, RecordOK
  <1> QED
    BY <1>1, SupervisorInvariant, PTL

\* While tasks run on without an owner, no reply is owed to the one that left.
THEOREM HandoverIsClean == Spec => []HandoffLosesNoReply
  <1>1. TypesOK /\ SupervisorInv => HandoffLosesNoReply
    BY Parts DEF HandoffLosesNoReply, HandoffOK, Up
  <1> QED
    BY <1>1, SupervisorInvariant, PTL

\* No step changes an outcome in memory, except that a clear removes it.
THEOREM OutcomesAreFinal == Spec => OutcomeIsFinal
  <1>1. TypesOK /\ SupervisorInv /\ [Next]_vars =>
          [\A t \in Tasks : Finalized(sup.mem[t]) => sup'.mem[t].reason \in {sup.mem[t].reason, "absent"}]_vars
    BY NextKeeps DEF OutcomesStay
  <1> QED
    BY <1>1, SupervisorInvariant, PTL DEF Spec, OutcomeIsFinal

\* An outcome that is committed ends the task.
LEMMA CommittedOutcomeEnds ==
  ASSUME NEW k \in MemoryType, NEW t \in Tasks, k.rt[t].pending # "none",
         NEW ok \in Commits, ok = "ok"
  PROVE  CommitOutcome(k, t, ok).rt[t] = NoRuntime
  <1>1. k.rt[t] \in RuntimeType
    BY DEF MemoryType
  <1>2. PICK c \in RecordType : c = Record(k.rt[t].pending)
    BY <1>1 DEF RuntimeType, Record, RecordType
  <1>3. PICK done : done = Commit(k, t, c, ok)
    OBVIOUS
  <1>4. done \in MemoryType
    BY <1>3, CommitTouches
  <1>5. CommitOutcome(k, t, ok) = [done EXCEPT !.rt[t] = NoRuntime]
    BY <1>2, <1>3 DEF CommitOutcome
  <1>6. done.rt \in [Tasks -> RuntimeType]
    BY <1>4 DEF MemoryType
  <1>7. [done EXCEPT !.rt[t] = NoRuntime].rt[t] = NoRuntime
    BY <1>4, <1>6 DEF MemoryType
  <1> QED
    BY <1>5, <1>7

\* When nothing fails, _maybe_finalize ends the task or does nothing, and it ends one
\* whose group and output are over.
LEMMA FinalizeEnds ==
  ASSUME NEW m \in MemoryType, NEW t \in Tasks, NEW ok \in Commits, ok = "ok",
         m.rt[t].settled => proc[t].leader \in Ends
  PROVE  /\ MaybeFinalize(m, t, ok) = m \/ MaybeFinalize(m, t, ok).rt[t] = NoRuntime
         /\ m.rt[t].settled /\ m.rt[t].pty # "open" => MaybeFinalize(m, t, ok).rt[t] = NoRuntime
  <1>1. CASE m.rt[t].pending # "none"
    BY <1>1, CommittedOutcomeEnds DEF MaybeFinalize
  <1>2. CASE m.rt[t].pending = "none" /\ m.rt[t].settled /\ m.rt[t].pty # "open"
    <2>1. PICK yes \in BOOLEAN : yes = TRUE
      OBVIOUS
    <2> DEFINE reason == DecideOutcome(m, t, yes)
               s == [m.rt[t] EXCEPT !.pending = reason]
               k == [m EXCEPT !.rt[t] = s]
    <2>2. reason \in Reasons /\ reason # "none"
      <3>1. PICK p : p = [leader |-> proc[t].leader, kin |-> FALSE]
        OBVIOUS
      <3>2. p.leader = proc[t].leader /\ p.leader \in Ends /\ ~p.kin
        BY <1>2, <3>1
      <3>3. reason \in Reasons \ {"running"}
        BY <3>2, DecidedOutcomeIsTrue
      <3> QED
        BY <3>3 DEF Reasons, Ends
    <2>3. m.rt[t] \in RuntimeType /\ m.rt \in [Tasks -> RuntimeType]
      BY DEF MemoryType
    <2>4. MaybeFinalize(m, t, ok) = CommitOutcome(k, t, ok)
      <3>1. [m EXCEPT !.rt[t].pending = reason] = k
        BY <2>3 DEF MemoryType
      <3>2. MaybeFinalize(m, t, ok) = Finalize(m, t, yes, ok)
        BY <1>2, <2>1 DEF MaybeFinalize
      <3> QED
        BY <3>1, <3>2 DEF Finalize
    <2> HIDE DEF reason
    <2>5. s \in RuntimeType /\ s.pending = reason
      BY <2>2, <2>3 DEF RuntimeType
    <2> HIDE DEF s
    <2>6. k \in MemoryType /\ k.rt[t] = s
      BY <2>5, RuntimeTouches
    <2> HIDE DEF k
    <2>7. CommitOutcome(k, t, ok).rt[t] = NoRuntime
      BY <2>2, <2>5, <2>6, CommittedOutcomeEnds
    <2> QED
      BY <2>4, <2>7
  <1>3. CASE m.rt[t].pending = "none" /\ ~(m.rt[t].settled /\ m.rt[t].pty # "open")
    BY <1>3 DEF MaybeFinalize
  <1> QED
    BY <1>1, <1>2, <1>3

\* What is over, or not looked at yet, is an observation to act on.
LEMMA ObservationsAct ==
  ASSUME TypesOK, SupervisorInv, NEW t \in Tasks, sup.rt[t].owned, sup.rt[t].sealed,
         \/ sup.rt[t].settled /\ sup.rt[t].pty # "open"
         \/ ~sup.rt[t].settled /\ sup.rt[t].stage = "none"
  PROVE  Observes(t)
  <1>1. PICK ok \in Commits : ok = "ok"
    BY DEF Commits
  <1>2. ~NoRuntime.owned /\ sup \in MemoryType /\ TaskOK(sup, proc[t], dir[t], t)
    BY Parts, NoRuntimeWell
  <1>5. sup.rt[t].settled => proc[t].leader \in Ends
    BY <1>2 DEF TaskOK, RuntimeOK
  <1>3. CASE sup.rt[t].settled /\ sup.rt[t].pty # "open"
    <2>1. ReapTask(sup, t, ok) = MaybeFinalize(sup, t, ok)
      BY <1>3 DEF ReapTask
    <2>2. ReapTask(sup, t, ok).rt[t] = NoRuntime
      BY <1>1, <1>2, <1>3, <1>5, <2>1, FinalizeEnds
    <2>3. ReapTask(sup, t, ok) # sup
      BY <1>2, <2>2
    <2> QED
      BY <1>1, <2>3 DEF Observes
  <1>4. CASE ~sup.rt[t].settled /\ sup.rt[t].stage = "none"
    <2>1. PICK k : k = CheckGroup(sup, t)
      OBVIOUS
    <2>2. ReapTask(sup, t, ok) = MaybeFinalize(k, t, ok)
      BY <1>4, <2>1 DEF ReapTask
    <2>3. LeavesWell(sup, k, proc[t], dir[t], t) /\ k.rt[t].owned
      BY <1>2, <1>4, <2>1, CheckGroupWell DEF TypesOK
    <2>4. k.rt[t] # sup.rt[t]
      <3>1. CASE ~proc[t].kin
        <4>1. k = [sup EXCEPT !.rt[t].settled = TRUE, !.rt[t].timer = FALSE,
                              !.rt[t].drain = sup.rt[t].pty = "open"]
          BY <2>1, <3>1 DEF CheckGroup
        <4>2. sup.rt \in [Tasks -> RuntimeType] /\ sup.rt[t] \in RuntimeType
          BY <1>2 DEF MemoryType
        <4>3. k.rt[t].settled
          BY <1>2, <4>1, <4>2 DEF MemoryType, RuntimeType
        <4> QED
          BY <1>4, <4>3
      <3>2. CASE proc[t].kin
        <4>1. PICK stage \in {"grace", "term", "kill"} :
                \/ k = SetStage(sup, t, stage)
                \/ k = SignalCandidates(SetStage(sup, t, stage), t)
          BY <1>4, <2>1, <3>2 DEF CheckGroup
        <4>2. PICK n : n = SetStage(sup, t, stage)
          OBVIOUS
        <4>3. n \in MemoryType /\ (n.rt[t].settled => n.rt[t].sealed)
          BY <1>2, <4>2, StageWell DEF LeavesWell
        <4>4. k = n
          BY <4>1, <4>2, <4>3, NoSignalStrays
        <4>5. stage \in Stages
          BY DEF Stages
        <4>6. n.rt[t].stage = stage
          BY ONLY <1>2, <4>2, <4>5, t \in Tasks, StageTouches
        <4> QED
          BY <1>4, <4>4, <4>6
      <3> QED
        BY <3>1, <3>2
    <2>5. MaybeFinalize(k, t, ok) = k \/ MaybeFinalize(k, t, ok).rt[t] = NoRuntime
      <3>1. k \in MemoryType /\ (k.rt[t].settled => proc[t].leader \in Ends)
        BY <2>3 DEF LeavesWell, TaskOK, RuntimeOK
      <3> QED
        BY <1>1, <3>1, FinalizeEnds
    <2>6. MaybeFinalize(k, t, ok) # sup
      BY <1>2, <2>4, <2>5
    <2> QED
      BY <1>1, <2>2, <2>6 DEF Observes
  <1> QED
    BY <1>3, <1>4

\* While a terminate is unanswered, a deadline or an observation will move its task on.
THEOREM TerminatesAreAnswered == Spec => []TerminateIsAnswered
  <1>1. ASSUME TypesOK, SupervisorInv, NEW t \in Tasks, sup.rt[t].waiters > 0 PROVE Moves(t)
    <2>1. RuntimeOK(sup.rt[t], proc[t])
      BY <1>1, Parts
    <2>2. sup.rt[t].owned
      BY <1>1, <2>1, NoRuntimeWell DEF RuntimeOK
    <2>3. CASE sup.rt[t].timer
      BY <2>3 DEF Moves
    <2>4. CASE ~sup.rt[t].timer
      <3>1. sup.rt[t].settled /\ sup.rt[t].sealed
        BY <1>1, <2>1, <2>4 DEF RuntimeOK
      <3>2. CASE sup.rt[t].pty = "open"
        BY <2>1, <3>1, <3>2 DEF RuntimeOK, Moves
      <3>3. CASE sup.rt[t].pty # "open"
        <4>1. Observes(t)
          BY <1>1, <2>2, <3>1, <3>3, ObservationsAct
        <4> QED
          BY <4>1 DEF Moves
      <3> QED
        BY <3>2, <3>3
    <2> QED
      BY <2>3, <2>4
  <1>2. TypesOK /\ SupervisorInv => TerminateIsAnswered
    BY <1>1 DEF TerminateIsAnswered
  <1> QED
    BY <1>2, SupervisorInvariant, PTL

\* A launch that waits for a closing group is due, or something moves such a group on.
THEOREM SpawnsAreAnswered == Spec => []SpawnIsAnswered
  <1>1. ASSUME TypesOK, SupervisorInv, sup.deferred # <<>>, ~DeferredDue(sup)
        PROVE  \E t \in Closing(sup) : Moves(t)
    <2>1. Closing(sup) # {} /\ Unconfirmed(sup) = {}
      BY <1>1 DEF DeferredDue
    <2>2. PICK t \in Closing(sup) : sup.rt[t].stage # "unconfirmed"
      BY <2>1 DEF Unconfirmed
    <2>3. t \in Tasks /\ sup.rt[t].owned /\ sup.rt[t].sealed /\ ~sup.rt[t].settled
      BY <2>2 DEF Closing, Owned
    <2>4. RuntimeOK(sup.rt[t], proc[t]) /\ sup.rt[t].stage \in Stages
      BY <1>1, <2>3, Parts DEF MemoryType, RuntimeType
    <2>5. CASE sup.rt[t].stage = "none"
      <3>1. Observes(t)
        BY <1>1, <2>3, <2>5, ObservationsAct
      <3> QED
        BY <2>2, <3>1 DEF Moves
    <2>6. CASE sup.rt[t].stage # "none"
      <3>1. sup.rt[t].stage \in {"grace", "term", "kill"}
        BY <2>2, <2>4, <2>6 DEF Stages
      <3>2. sup.rt[t].timer
        BY <2>3, <2>4, <3>1 DEF RuntimeOK
      <3> QED
        BY <2>2, <3>2 DEF Moves
    <2> QED
      BY <2>5, <2>6
  <1>2. TypesOK /\ SupervisorInv => SpawnIsAnswered
    BY <1>1 DEF SpawnIsAnswered
  <1> QED
    BY <1>2, SupervisorInvariant, PTL
=============================================================================
