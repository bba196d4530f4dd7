--------------------------- MODULE SubagentsProofs ---------------------------
(***************************************************************************)
(* Proofs about the supervisor of subagents.  A handler is an operator     *)
(* from heaps to heaps, so what is proved is that every such operator      *)
(* keeps a heap `Fine': leases, types, and for each agent the agreement of *)
(* its runs with the facts written so far.  Loops over agents and runs are *)
(* folds; module Folding carries an invariant through them.                *)
(***************************************************************************)
EXTENDS Subagents, FiniteSetTheorems, SequenceTheorems, TLAPS

(* A fact with a value: the outcome of a run, or the generation that started it. *)
Val(J, kind, a, n, x) == \E f \in J : f[1] = kind /\ f[2] = a /\ f[3] = n /\ f[4] = x

Generations == 1 .. MaxRuns + 1
Kinds == {"started", "settled", "terminal"}

(* What the journal holds. *)
FactType ==
  ({"spawned"} \X Agents \X (0 .. MaxAgents)) \cup ({"accepted"} \X Agents \X Runs)
  \cup ({"started"} \X Agents \X Runs \X Generations)
  \cup ({"settled", "terminal"} \X Agents \X Runs \X Outcomes) \cup ({"closed", "quarantined"} \X Agents)

(* The facts about one agent. *)
Of(F, a) == {f \in F : f[2] = a}
StartedRuns(J, a) == {n \in Runs : Has(J, "started", a, n)}

(* What the facts J about agent a promise at every moment: runs are accepted in order and      *)
(* before anything else happens to them, a run is started before it is settled and has one     *)
(* outcome, a generation starts one run, and generations are not skipped by more than one.     *)
AgentJournal(J, a) ==
  /\ J # {} => Is(J, "spawned", a)
  /\ \A f, g \in J : f[1] = "spawned" /\ g[1] = "spawned" => f = g
  /\ \E k \in 0 .. MaxRuns : \A n \in Runs : Accepted(J, a, n) <=> n <= k
  /\ \A n \in Runs : \A kind \in Kinds : Has(J, kind, a, n) => Accepted(J, a, n)
  /\ \A n \in Runs : Has(J, "settled", a, n) => Has(J, "started", a, n)
  /\ \A n \in Runs : \A o, q \in Outcomes : Val(J, "terminal", a, n, o) /\ Val(J, "terminal", a, n, q) => o = q
  /\ \A n, k \in Runs : \A g \in Generations : Val(J, "started", a, n, g) /\ Val(J, "started", a, k, g) => n = k
  /\ \A n \in Runs : \A g \in Generations : Val(J, "started", a, n, g) => g <= Cardinality(StartedRuns(J, a)) + 1

JournalOK(F) ==
  /\ F \subseteq FactType
  /\ \A f \in F : f[1] = "spawned" => f[3] < f[2]
  /\ \A a \in Agents : AgentJournal(Of(F, a), a)
  /\ \A a, b \in Agents : b < a /\ Is(F, "spawned", a) => Is(F, "spawned", b)

Unbroken(F, log) == \A k \in 0 .. Len(log) : JournalOK(F \cup Range(SubSeq(log, 1, k)))

(* What the heap holds of one agent. *)
View(h, a) ==
  [life |-> h.life[a], made |-> h.made[a], cur |-> h.cur[a], gen |-> h.gen[a], active |-> h.active[a],
   queue |-> h.queue[a], parked |-> h.parked[a], join |-> h.join[a], done |-> h.done[a],
   worker |-> h.worker[a], quarantined |-> h.quarantined[a], lost |-> h.lost[a],
   pending |-> h.pendingSettle[a], starting |-> h.chain = <<"startup", a>>, init |-> h.chain = <<"initialize", a>>]

ViewType(v) ==
  /\ v.life \in {"absent", "open", "closing", "closed"}
  /\ v.made \in 0 .. MaxRuns /\ v.cur \in 0 .. MaxRuns /\ v.gen \in Nat /\ v.lost \in 0 .. MaxRuns
  /\ v.active \in {0, v.cur} /\ v.queue \in Seq(Runs)
  /\ v.parked \in BOOLEAN /\ v.worker \in BOOLEAN /\ v.quarantined \in BOOLEAN
  /\ v.join \in {NoJoin} \cup (Runs \X Outcomes) /\ v.pending \in {NoJoin} \cup (Runs \X Outcomes)
  /\ v.done \in [Runs -> Outcomes \cup {"none"}]

(* An agent is in one phase at a time. *)
OnePhase(v) ==
  /\ v.parked => v.active = 0 /\ ~v.worker /\ ~v.starting
  /\ (v.parked \/ v.starting \/ v.active # 0) => v.join = NoJoin /\ ~v.quarantined
  /\ (v.parked \/ v.starting \/ v.active # 0 \/ v.join # NoJoin) => v.lost = 0 /\ v.pending = NoJoin
  /\ (v.quarantined \/ v.lost # 0) => ~v.worker

(* The life of the agent, as the journal has it. *)
LifeOK(J, a, v) ==
  /\ v.life = "absent" <=> ~Is(J, "spawned", a)
  /\ v.life = "closed" <=> Is(J, "closed", a)
  /\ v.quarantined <=> Is(J, "quarantined", a)
  /\ v.life = "absent" =>
       /\ J = {} /\ v.made = 0 /\ v.active = 0 /\ v.queue = <<>> /\ ~v.parked /\ v.join = NoJoin
       /\ ~v.worker /\ ~v.starting /\ v.cur = 0 /\ v.gen = 0 /\ v.lost = 0 /\ v.pending = NoJoin
  /\ v.life # "absent" => v.gen >= 1 /\ v.cur \in 1 .. v.made
  /\ \A f, g \in J : f[1] = "spawned" /\ g[1] = "spawned" => f = g
(* Its runs. *)
RunsOK(J, a, v) ==
  /\ \A n \in Runs : Accepted(J, a, n) <=> n <= v.made
  /\ \A n \in Runs : \A kind \in Kinds : Has(J, kind, a, n) => n <= v.made
  /\ \A n \in Runs : Has(J, "settled", a, n) => Has(J, "started", a, n)
  /\ \A n \in Runs : v.done[n] = "none" <=> ~Has(J, "terminal", a, n)
  /\ \A n \in Runs : \A o \in Outcomes : Val(J, "terminal", a, n, o) => v.done[n] = o
  /\ v.lost # 0 => Has(J, "started", a, v.lost)
  /\ v.pending # NoJoin => v.pending[1] <= v.made
(* Its queue. *)
QueueOK(J, a, v) ==
  /\ IsInjective(v.queue)
  /\ \A n \in Range(v.queue) :
       Has(J, "accepted", a, n) /\ ~Has(J, "started", a, n) /\ ~Has(J, "terminal", a, n)
(* Its generations. *)
GenOK(J, a, v) ==
  /\ \A n \in Runs : \A g \in Generations : Val(J, "started", a, n, g) => g <= v.gen
  /\ \A n, k \in Runs : \A g \in Generations : Val(J, "started", a, n, g) /\ Val(J, "started", a, k, g) => n = k
  /\ v.gen <= Cardinality(StartedRuns(J, a)) + 1
(* The run it holds. *)
HeldOK(J, a, v) ==
  /\ v.parked \/ (v.starting /\ v.active = 0) =>
       /\ v.cur \notin Range(v.queue) /\ ~Has(J, "terminal", a, v.cur)
       /\ \A n \in Runs : ~Has(J, "started", a, n)
  /\ v.parked => Has(J, "accepted", a, v.cur)
  /\ (v.active # 0 /\ ~v.init) \/ v.join # NoJoin => Val(J, "started", a, v.cur, v.gen)
  /\ v.active # 0 \/ v.join # NoJoin => ~Has(J, "terminal", a, v.cur)
  /\ v.active # 0 => ~Has(J, "settled", a, v.cur)
  /\ v.init => /\ v.active # 0 /\ v.cur \notin Range(v.queue)
               /\ Val(J, "started", a, v.cur, v.gen) \/ \A n \in Runs : ~Has(J, "started", a, n)
  /\ v.join # NoJoin => /\ v.join[1] = v.cur /\ Has(J, "settled", a, v.cur)
                        /\ \A o \in Outcomes : Val(J, "settled", a, v.cur, o) => o = v.join[2]
RunOK(J, a, v) ==
  /\ ViewType(v) /\ OnePhase(v) /\ LifeOK(J, a, v) /\ RunsOK(J, a, v) /\ QueueOK(J, a, v)
  /\ GenOK(J, a, v) /\ HeldOK(J, a, v)

RunInv(F, h) ==
  /\ \A a \in Agents : RunOK(Of(F, a), a, View(h, a))
  /\ F \subseteq FactType
  /\ \A f \in F : f[1] = "spawned" => f[3] < f[2]
  /\ \A a, b \in Agents : b < a /\ h.life[a] # "absent" => h.life[b] # "absent"

LeaseInv(h) ==
  /\ h.lease \in [Agents -> 0 .. maxRunnable] /\ h.grant \in [Agents -> 0 .. maxRunnable]
  /\ h.leases \subseteq 1 .. maxRunnable /\ h.waiters \in Seq(Agents)
  /\ \A a \in Agents : /\ h.lease[a] # 0 => h.lease[a] \in h.leases /\ h.lease[a] # h.grant[a]
                       /\ h.grant[a] # 0 => h.grant[a] \in h.leases
  /\ \A a, b \in Agents : a # b =>
       /\ h.lease[a] # 0 => h.lease[a] # h.lease[b] /\ h.lease[a] # h.grant[b]
       /\ h.grant[a] # 0 => h.grant[a] # h.grant[b]

MiscInv(h) ==
  /\ h.parent \in [Agents -> 0 .. MaxAgents] /\ \A a \in Agents : h.parent[a] < a
  /\ h.intr \in [Agents -> BOOLEAN] /\ h.joinInterrupted \in [Agents -> BOOLEAN]
  /\ h.ckpt \in [Agents -> BOOLEAN] /\ h.held \in [Agents -> BOOLEAN] /\ h.after \in [Agents -> Nat]
  /\ h.wait \in [Agents -> {"none", "waiting", "resuming", "queued", "granted"}]

JobsOK(h) ==
  /\ h.jobs \in Seq({"start", "load", "retire"} \X Agents)
  /\ \A a \in Agents : <<"load", a>> \in Range(h.jobs) => h.life[a] # "absent" /\ ~h.parked[a]

ResidentsOK(h) ==
  h.resident \in [Agents -> BOOLEAN] /\ Cardinality(Residents(h)) <= maxResidentWorkers

-----------------------------------------------------------------------------
(* The heap as a record, and which of its fields a change leaves alone. *)

Fields ==
  {"parent", "life", "made", "cur", "gen", "active", "intr", "queue", "parked", "join", "joinInterrupted",
   "done", "worker", "ckpt", "resident", "lease", "wait", "grant", "held", "quarantined", "lost",
   "pendingSettle", "jobs", "after", "leases", "closes", "waiters", "chain", "walks", "suspended", "log"}
LeaseFields == {"lease", "grant", "leases", "waiters"}
MiscFields == {"parent", "intr", "joinInterrupted", "ckpt", "held", "after", "wait"}
JobFields == {"jobs", "life", "parked"}
AgentFields ==
  {"life", "made", "cur", "gen", "active", "queue", "parked", "join", "done", "worker", "quarantined",
   "lost", "pendingSettle"}
RunFields == AgentFields \cup {"chain", "log"}

Only(h, g, S) == DOMAIN g = Fields /\ \A x \in Fields \ S : g[x] = h[x]
Same(h, g, S) == \A x \in S : g[x] = h[x]

(* A whole heap: every field is there, and what is kept per agent is a function of agents. *)
Whole(h) == DOMAIN h = Fields /\ \A x \in AgentFields : h[x] = [a \in Agents |-> h[x][a]]

(* A heap that agrees with the facts F written before this step and those it appended since. *)
Fine(F, h) ==
  /\ Whole(h) /\ LeaseInv(h) /\ MiscInv(h) /\ JobsOK(h) /\ ResidentsOK(h)
  /\ h.log \in Seq(FactType) /\ RunInv(F \cup Range(h.log), h) /\ Unbroken(F, h.log)

(* What does not concern leases keeps their invariant, and so for the other groups of fields. *)
LEMMA KeepLeases ==
  ASSUME NEW h, NEW g, NEW S, Only(h, g, S), S \cap LeaseFields = {}, LeaseInv(h)
  PROVE  LeaseInv(g)
  <1>1. g.lease = h.lease /\ g.grant = h.grant /\ g.leases = h.leases /\ g.waiters = h.waiters
    BY DEF Only, Fields, LeaseFields
  <1> QED
    BY <1>1 DEF LeaseInv

(* What does not concern the flags of agents keeps MiscInv. *)
LEMMA KeepMisc ==
  ASSUME NEW h, NEW g, NEW S, Only(h, g, S), S \cap MiscFields = {}, MiscInv(h)
  PROVE  MiscInv(g)
  <1>1. /\ g.parent = h.parent /\ g.intr = h.intr /\ g.joinInterrupted = h.joinInterrupted
        /\ g.ckpt = h.ckpt /\ g.held = h.held /\ g.after = h.after /\ g.wait = h.wait
    BY DEF Only, Fields, MiscFields
  <1> QED
    BY <1>1 DEF MiscInv

(* What concerns neither the jobs, the lives nor the parked starts keeps JobsOK. *)
LEMMA KeepJobs ==
  ASSUME NEW h, NEW g, NEW S, Only(h, g, S), S \cap JobFields = {}, JobsOK(h)
  PROVE  JobsOK(g)
  <1>1. g.jobs = h.jobs /\ g.life = h.life /\ g.parked = h.parked
    BY DEF Only, Fields, JobFields
  <1> QED
    BY <1>1 DEF JobsOK

(* What does not concern residents keeps their bound. *)
LEMMA KeepResidents ==
  ASSUME NEW h, NEW g, NEW S, Only(h, g, S), "resident" \notin S, ResidentsOK(h)
  PROVE  ResidentsOK(g)
  <1>1. g.resident = h.resident
    BY DEF Only, Fields
  <1> QED
    BY <1>1 DEF ResidentsOK, Residents

(* A heap stays whole when the fields that change are still functions of agents. *)
LEMMA KeepWhole ==
  ASSUME NEW h, NEW g, NEW S, Only(h, g, S), Whole(h),
         \A x \in S \cap AgentFields : g[x] = [a \in Agents |-> g[x][a]]
  PROVE  Whole(g)
  <1>1. DOMAIN g = Fields
    BY DEF Only
  <1>2. ASSUME NEW x \in AgentFields PROVE g[x] = [a \in Agents |-> g[x][a]]
    <2>1. CASE x \in S
      BY <2>1
    <2>2. CASE x \notin S
      <3>1. x \in Fields
        BY DEF AgentFields, Fields
      <3>2. g[x] = h[x]
        BY <2>2, <3>1 DEF Only
      <3> QED
        BY <3>2 DEF Whole
    <2> QED
      BY <2>1, <2>2
  <1> QED
    BY <1>1, <1>2 DEF Whole

(* The views of agents that a change does not touch stay. *)
LEMMA SameViews ==
  ASSUME NEW h, NEW g, NEW S, Only(h, g, S), S \cap (AgentFields \cup {"chain"}) = {}, NEW a
  PROVE  View(g, a) = View(h, a)
  <1>1. /\ g.life = h.life /\ g.made = h.made /\ g.cur = h.cur /\ g.gen = h.gen /\ g.active = h.active
        /\ g.queue = h.queue /\ g.parked = h.parked /\ g.join = h.join /\ g.done = h.done
        /\ g.worker = h.worker /\ g.quarantined = h.quarantined /\ g.lost = h.lost
        /\ g.pendingSettle = h.pendingSettle /\ g.chain = h.chain
    BY DEF Only, Fields, AgentFields
  <1> QED
    BY <1>1 DEF View

(* What concerns neither the runs nor the log keeps RunInv and Unbroken. *)
LEMMA KeepRuns ==
  ASSUME NEW F, NEW h, NEW g, NEW S, Only(h, g, S), S \cap RunFields = {}, Fine(F, h)
  PROVE  g.log \in Seq(FactType) /\ RunInv(F \cup Range(g.log), g) /\ Unbroken(F, g.log) /\ Whole(g)
  <1>1. g.log = h.log /\ g.life = h.life
    BY DEF Only, Fields, RunFields, AgentFields
  <1>2. \A a \in Agents : View(g, a) = View(h, a)
    BY SameViews DEF RunFields
  <1>3. S \cap AgentFields = {}
    BY DEF RunFields
  <1>4. Whole(g)
    BY <1>3, KeepWhole DEF Fine
  <1>5. RunInv(F \cup Range(h.log), g)
    BY <1>1, <1>2, Zenon DEF Fine, RunInv
  <1> QED
    BY <1>1, <1>4, <1>5 DEF Fine

-----------------------------------------------------------------------------
(* Facts *)

(* The elements of an appended sequence, and those of its prefixes. *)
LEMMA AppendRange ==
  ASSUME NEW S, NEW s \in Seq(S), NEW x
  PROVE  Range(Append(s, x)) = Range(s) \cup {x}
  <1>1. /\ DOMAIN Append(s, x) = 1 .. Len(s) + 1 /\ DOMAIN s = 1 .. Len(s) /\ Len(s) \in Nat
        /\ \A i \in 1 .. Len(s) : Append(s, x)[i] = s[i]
        /\ Append(s, x)[Len(s) + 1] = x
    OBVIOUS
  <1>2. \A i \in 1 .. Len(s) + 1 : i = Len(s) + 1 \/ i \in 1 .. Len(s)
    BY <1>1
  <1>3. 1 .. Len(s) \subseteq 1 .. Len(s) + 1 /\ Len(s) + 1 \in 1 .. Len(s) + 1
    BY <1>1
  <1> DEFINE t == Append(s, x)
  <1> HIDE DEF t
  <1>4. /\ DOMAIN t = 1 .. Len(s) + 1 /\ DOMAIN s = 1 .. Len(s)
        /\ \A i \in 1 .. Len(s) : t[i] = s[i]
        /\ t[Len(s) + 1] = x
    BY <1>1 DEF t
  <1>5. Range(t) = Range(s) \cup {x}
    BY <1>2, <1>3, <1>4 DEF Range
  <1> QED
    BY <1>5 DEF t

(* What one more fact says. *)
LEMMA OneMoreFact ==
  ASSUME NEW J, NEW f, NEW a
  PROVE  /\ \A kind : Is(J \cup {f}, kind, a) <=> Is(J, kind, a) \/ (f[1] = kind /\ f[2] = a)
         /\ \A kind, n : Has(J \cup {f}, kind, a, n) <=> Has(J, kind, a, n) \/ (f[1] = kind /\ f[2] = a /\ f[3] = n)
         /\ \A kind, n, x : Val(J \cup {f}, kind, a, n, x) <=>
              Val(J, kind, a, n, x) \/ (f[1] = kind /\ f[2] = a /\ f[3] = n /\ f[4] = x)
  <1>1. \A kind : Is(J \cup {f}, kind, a) <=> Is(J, kind, a) \/ (f[1] = kind /\ f[2] = a)
    BY DEF Is
  <1>2. \A kind, n : Has(J \cup {f}, kind, a, n) <=> Has(J, kind, a, n) \/ (f[1] = kind /\ f[2] = a /\ f[3] = n)
    BY DEF Has
  <1>3. \A kind, n, x : Val(J \cup {f}, kind, a, n, x) <=>
              Val(J, kind, a, n, x) \/ (f[1] = kind /\ f[2] = a /\ f[3] = n /\ f[4] = x)
    BY DEF Val
  <1> QED
    BY <1>1, <1>2, <1>3

(* A fact with a value is a fact. *)
LEMMA ValIsHas ==
  ASSUME NEW J, NEW kind, NEW a, NEW n, NEW x, Val(J, kind, a, n, x)
  PROVE  Has(J, kind, a, n)
  BY DEF Val, Has

(* Only the facts about an agent speak of it. *)
LEMMA FactsOf ==
  ASSUME NEW F, NEW a
  PROVE  /\ \A kind : Is(Of(F, a), kind, a) <=> Is(F, kind, a)
         /\ \A kind, n : Has(Of(F, a), kind, a, n) <=> Has(F, kind, a, n)
         /\ \A kind, n, x : Val(Of(F, a), kind, a, n, x) <=> Val(F, kind, a, n, x)
  <1>1. \A kind : Is(Of(F, a), kind, a) <=> Is(F, kind, a)
    BY DEF Is, Of
  <1>2. \A kind, n : Has(Of(F, a), kind, a, n) <=> Has(F, kind, a, n)
    BY DEF Has, Of
  <1>3. \A kind, n, x : Val(Of(F, a), kind, a, n, x) <=> Val(F, kind, a, n, x)
    BY DEF Val, Of
  <1> QED
    BY <1>1, <1>2, <1>3

(* A new fact is about one agent. *)
LEMMA AddedOf ==
  ASSUME NEW F, NEW f
  PROVE  /\ Of(F \cup {f}, f[2]) = Of(F, f[2]) \cup {f}
         /\ \A b : b # f[2] => Of(F \cup {f}, b) = Of(F, b)
  BY DEF Of

(* An agent whose runs agree with the journal: the journal alone is as it should be. *)
LEMMA RunOKJournal ==
  ASSUME NEW J, NEW a, NEW v, RunOK(J, a, v)
  PROVE  AgentJournal(J, a)
  <1>1. J # {} => Is(J, "spawned", a)
    BY DEF RunOK, LifeOK
  <1>2. \A f, g \in J : f[1] = "spawned" /\ g[1] = "spawned" => f = g
    BY DEF RunOK, LifeOK
  <1>3. v.made \in 0 .. MaxRuns /\ \A n \in Runs : Accepted(J, a, n) <=> n <= v.made
    BY DEF RunOK, ViewType, RunsOK
  <1>4. \A n \in Runs : \A kind \in Kinds : Has(J, kind, a, n) => Accepted(J, a, n)
    BY DEF RunOK, RunsOK
  <1>5. \A n \in Runs : Has(J, "settled", a, n) => Has(J, "started", a, n)
    BY DEF RunOK, RunsOK
  <1>6. \A n \in Runs : \A o, q \in Outcomes : Val(J, "terminal", a, n, o) /\ Val(J, "terminal", a, n, q) => o = q
    BY DEF RunOK, RunsOK
  <1>7. \A n, k \in Runs : \A g \in Generations : Val(J, "started", a, n, g) /\ Val(J, "started", a, k, g) => n = k
    BY DEF RunOK, GenOK
  <1>8. \A n \in Runs : \A g \in Generations : Val(J, "started", a, n, g) => g <= Cardinality(StartedRuns(J, a)) + 1
    <2> SUFFICES ASSUME NEW n \in Runs, NEW g \in Generations, Val(J, "started", a, n, g)
                 PROVE  g <= Cardinality(StartedRuns(J, a)) + 1
      OBVIOUS
    <2>1. g <= v.gen /\ v.gen <= Cardinality(StartedRuns(J, a)) + 1
      BY DEF RunOK, GenOK
    <2>2. Cardinality(StartedRuns(J, a)) \in Nat
      <3>1. IsFiniteSet(Runs)
        BY SubagentsAssumption, FS_Interval DEF Runs
      <3>2. IsFiniteSet(StartedRuns(J, a))
        BY <3>1, FS_Subset DEF StartedRuns
      <3> QED
        BY <3>2, FS_CardinalityType
    <2>3. v.gen \in Nat /\ g \in Nat
      BY SubagentsAssumption DEF RunOK, ViewType, Generations
    <2> QED
      BY <2>1, <2>2, <2>3
  <1> QED
    BY <1>1, <1>2, <1>3, <1>4, <1>5, <1>6, <1>7, <1>8 DEF AgentJournal

(* A heap that agrees with the facts makes them a journal. *)
LEMMA RunInvJournal ==
  ASSUME NEW F, NEW h, RunInv(F, h)
  PROVE  JournalOK(F)
  <1>1. \A a \in Agents : AgentJournal(Of(F, a), a)
    BY RunOKJournal DEF RunInv
  <1>2. \A a \in Agents : h.life[a] # "absent" <=> Is(F, "spawned", a)
    <2> TAKE a \in Agents
    <2>1. LifeOK(Of(F, a), a, View(h, a))
      BY DEF RunInv, RunOK
    <2>2. h.life[a] = "absent" <=> ~Is(Of(F, a), "spawned", a)
      BY <2>1 DEF LifeOK, View
    <2> QED
      BY <2>2, FactsOf
  <1>3. \A a, b \in Agents : b < a /\ Is(F, "spawned", a) => Is(F, "spawned", b)
    BY <1>2 DEF RunInv
  <1> QED
    BY <1>1, <1>3 DEF JournalOK, RunInv

(* The journal was sound after every fact, the last one included. *)
LEMMA UnbrokenAppend ==
  ASSUME NEW F, NEW log \in Seq(FactType), NEW f \in FactType, Unbroken(F, log),
         JournalOK(F \cup (Range(log) \cup {f}))
  PROVE  Unbroken(F, Append(log, f)) /\ Append(log, f) \in Seq(FactType)
  <1> DEFINE new == Append(log, f)
  <1>1. new \in Seq(FactType) /\ Len(new) = Len(log) + 1 /\ Len(log) \in Nat
    OBVIOUS
  <1>2. ASSUME NEW k \in 0 .. Len(new) PROVE JournalOK(F \cup Range(SubSeq(new, 1, k)))
    <2>1. CASE k = Len(log) + 1
      <3>1. SubSeq(new, 1, k) = new
        BY <1>1, <2>1
      <3> QED
        BY <3>1, AppendRange, Zenon
    <2>2. CASE k # Len(log) + 1
      <3>1. k \in 0 .. Len(log)
        BY <1>1, <2>2
      <3>2. SubSeq(new, 1, k) = SubSeq(log, 1, k)
        BY <1>1, <3>1
      <3> QED
        BY <3>1, <3>2, Zenon DEF Unbroken
    <2> QED
      BY <2>1, <2>2
  <1> QED
    BY <1>1, <1>2 DEF Unbroken

(* A change of one agent's view, perhaps with a fact about it, keeps the agreement. *)
LEMMA OneAgent ==
  ASSUME NEW F, NEW h, NEW g, NEW a \in Agents, RunInv(F, h),
         \A b \in Agents \ {a} : View(g, b) = View(h, b),
         RunOK(Of(F, a), a, View(g, a)), h.life[a] # "absent" => g.life[a] # "absent"
  PROVE  RunInv(F, g)
  <1>1. \A b \in Agents : RunOK(Of(F, b), b, View(g, b))
    BY DEF RunInv
  <1>2. \A b \in Agents \ {a} : g.life[b] = h.life[b]
    BY Zenon DEF View
  <1>3. g.life[a] # "absent" => h.life[a] # "absent"
    BY Zenon DEF RunInv, RunOK, LifeOK, View
  <1> QED
    BY <1>1, <1>2, <1>3 DEF RunInv

(* A fact about agent a, and a view of a that agrees with it, keep RunInv. *)
LEMMA OneFact ==
  ASSUME NEW F, NEW h, NEW g, NEW f \in FactType, NEW a \in Agents, f[2] = a, RunInv(F, h),
         \A b \in Agents \ {a} : View(g, b) = View(h, b),
         RunOK(Of(F, a) \cup {f}, a, View(g, a)),
         h.life[a] # "absent", g.life[a] # "absent", f[1] # "spawned"
  PROVE  RunInv(F \cup {f}, g)
  <1>1. ASSUME NEW b \in Agents PROVE RunOK(Of(F \cup {f}, b), b, View(g, b))
    <2>1. CASE b = a
      <3>1. Of(F \cup {f}, b) = Of(F, a) \cup {f}
        BY <2>1, AddedOf, Zenon
      <3> QED
        BY <2>1, <3>1
    <2>2. CASE b # a
      <3>1. Of(F \cup {f}, b) = Of(F, b) /\ View(g, b) = View(h, b)
        BY <2>2, AddedOf, Zenon
      <3> QED
        BY <3>1 DEF RunInv
    <2> QED
      BY <2>1, <2>2
  <1>2. \A b \in Agents \ {a} : g.life[b] = h.life[b]
    BY Zenon DEF View
  <1>3. F \cup {f} \subseteq FactType /\ \A e \in F \cup {f} : e[1] = "spawned" => e[3] < e[2]
    BY DEF RunInv
  <1> QED
    BY <1>1, <1>2, <1>3, Zenon DEF RunInv

(* The rest of being fine, once the runs agree. *)
LEMMA FineAfter ==
  ASSUME NEW F, NEW h, NEW g, Fine(F, h), Whole(g), LeaseInv(g), MiscInv(g), JobsOK(g), ResidentsOK(g),
         g.log = h.log, RunInv(F \cup Range(h.log), g)
  PROVE  Fine(F, g)
  BY DEF Fine

(* The same for the whole heap, with the fact appended to the log. *)
LEMMA FineAfterFact ==
  ASSUME NEW F, NEW h, NEW g, NEW f \in FactType, Fine(F, h),
         Whole(g), LeaseInv(g), MiscInv(g), JobsOK(g), ResidentsOK(g),
         g.log = Append(h.log, f), RunInv((F \cup Range(h.log)) \cup {f}, g)
  PROVE  Fine(F, g)
  <1>1. h.log \in Seq(FactType) /\ Unbroken(F, h.log)
    BY DEF Fine
  <1>2. (F \cup Range(h.log)) \cup {f} = F \cup (Range(h.log) \cup {f})
    OBVIOUS
  <1>3. JournalOK(F \cup (Range(h.log) \cup {f}))
    BY <1>2, RunInvJournal, Zenon
  <1>4. Unbroken(F, g.log) /\ g.log \in Seq(FactType)
    BY <1>1, <1>3, UnbrokenAppend
  <1>5. F \cup Range(g.log) = (F \cup Range(h.log)) \cup {f}
    BY <1>1, <1>2, AppendRange
  <1> QED
    BY <1>4, <1>5, Zenon DEF Fine

-----------------------------------------------------------------------------
(* Array.filter, as a fold. *)

KeepOne(c, t, k) == IF c.s[k] \in c.S THEN Append(t, c.s[k]) ELSE t

(* After k elements t holds those of them that are in S, in their order. *)
Kept(c, t, k) ==
  /\ t \in Seq(c.T)
  /\ \A x : x \in Range(t) <=> \E i \in 1 .. k : c.s[i] = x /\ x \in c.S
  /\ IsInjective(c.s) => IsInjective(t)

KeepFold == INSTANCE Folding WITH Op <- KeepOne, Good <- Kept

(* The empty queue. *)
LEMMA EmptyRange == Range(<<>>) = {} /\ IsInjective(<<>>)
  BY DEF Range, IsInjective

(* Appending a new element keeps a queue injective. *)
LEMMA NewElement ==
  ASSUME NEW T, NEW t \in Seq(T), NEW x \in T, IsInjective(t), x \notin Range(t)
  PROVE  IsInjective(Append(t, x))
  <1>1. /\ DOMAIN Append(t, x) = 1 .. Len(t) + 1 /\ DOMAIN t = 1 .. Len(t) /\ Len(t) \in Nat
        /\ \A i \in 1 .. Len(t) : Append(t, x)[i] = t[i]
        /\ Append(t, x)[Len(t) + 1] = x
    OBVIOUS
  <1>2. \A i \in 1 .. Len(t) : t[i] # x
    BY <1>1 DEF Range
  <1>3. \A i \in 1 .. Len(t) + 1 : i = Len(t) + 1 \/ i \in 1 .. Len(t)
    BY <1>1
  <1>4. \A i, j \in 1 .. Len(t) : t[i] = t[j] => i = j
    BY <1>1 DEF IsInjective
  <1> DEFINE u == Append(t, x)
  <1> HIDE DEF u
  <1>5. /\ DOMAIN u = 1 .. Len(t) + 1 /\ \A i \in 1 .. Len(t) : u[i] = t[i]
        /\ u[Len(t) + 1] = x
    BY <1>1 DEF u
  <1>6. IsInjective(u)
    BY <1>2, <1>3, <1>4, <1>5 DEF IsInjective
  <1> QED
    BY <1>6 DEF u

(* One step of the fold of Keep. *)
LEMMA KeepStep ==
  ASSUME NEW T, NEW S, NEW s \in Seq(T), NEW c, c = [s |-> s, S |-> S, T |-> T],
         NEW t, NEW k \in 1 .. Len(s), Kept(c, t, k - 1)
  PROVE  Kept(c, KeepOne(c, t, k), k)
  <1>1. c.s = s /\ c.S = S /\ c.T = T
    OBVIOUS
  <1>2. t \in Seq(T) /\ (IsInjective(s) => IsInjective(t))
        /\ \A x : x \in Range(t) <=> \E i \in 1 .. (k - 1) : s[i] = x /\ x \in S
    BY <1>1 DEF Kept
  <1>3. DOMAIN s = 1 .. Len(s) /\ s[k] \in T /\ Len(s) \in Nat
    OBVIOUS
  <1>4. \A i \in 1 .. k : i = k \/ i \in 1 .. (k - 1)
    BY <1>3
  <1>5. \A i \in 1 .. (k - 1) : i \in 1 .. k /\ i # k /\ i \in 1 .. Len(s)
    BY <1>3
  <1>6. k \in 1 .. k
    BY <1>3
  <1>7. CASE s[k] \notin S
    <2>1. KeepOne(c, t, k) = t
      BY <1>1, <1>7 DEF KeepOne
    <2>2. \A x : x \in Range(t) <=> \E i \in 1 .. k : s[i] = x /\ x \in S
      BY <1>2, <1>4, <1>5, <1>7
    <2> QED
      BY <1>1, <1>2, <2>1, <2>2 DEF Kept
  <1>8. CASE s[k] \in S
    <2>1. KeepOne(c, t, k) = Append(t, s[k])
      BY <1>1, <1>8 DEF KeepOne
    <2>2. Range(Append(t, s[k])) = Range(t) \cup {s[k]}
      BY <1>2, AppendRange
    <2>3. \A x : x \in Range(Append(t, s[k])) <=> \E i \in 1 .. k : s[i] = x /\ x \in S
      <3> TAKE x
      <3>1. CASE x = s[k]
        BY <1>6, <1>8, <2>2, <3>1
      <3>2. CASE x # s[k]
        BY <1>2, <1>4, <1>5, <2>2, <3>2
      <3> QED
        BY <3>1, <3>2
    <2>4. Append(t, s[k]) \in Seq(T)
      BY <1>2, <1>3
    <2>5. ASSUME IsInjective(s) PROVE IsInjective(Append(t, s[k]))
      <3>1. \A i \in 1 .. (k - 1) : s[i] # s[k]
        BY <1>3, <1>5, <2>5 DEF IsInjective
      <3>2. s[k] \notin Range(t)
        BY <1>2, <3>1
      <3>3. IsInjective(t) /\ t \in Seq(T) /\ s[k] \in T
        BY <1>2, <1>3, <2>5
      <3> QED
        BY ONLY <3>2, <3>3, NewElement
    <2> QED
      BY <1>1, <2>1, <2>3, <2>4, <2>5, Zenon DEF Kept
  <1> QED
    BY <1>7, <1>8

(* filter keeps what is in S, and does not repeat what was not repeated. *)
LEMMA KeepIs ==
  ASSUME NEW T, NEW S, NEW s \in Seq(T)
  PROVE  /\ Keep(s, S) \in Seq(T) /\ Range(Keep(s, S)) = Range(s) \cap S
         /\ IsInjective(s) => IsInjective(Keep(s, S))
  <1> DEFINE c == [s |-> s, S |-> S, T |-> T]
  <1>1. c = [s |-> s, S |-> S, T |-> T] /\ c.s = s /\ c.S = S /\ c.T = T
    OBVIOUS
  <1> HIDE DEF c
  <1>2. Len(s) \in Nat /\ DOMAIN s = 1 .. Len(s)
    OBVIOUS
  <1>3. Keep(s, S) = KeepFold!Fold(c, <<>>, Len(s))
    BY <1>1, Zenon DEF Keep, KeepFold!Fold, KeepOne
  <1>4. Kept(c, <<>>, 0)
    BY <1>1, EmptyRange DEF Kept
  <1>5. \A t, k : k \in 1 .. Len(s) /\ Kept(c, t, k - 1) => Kept(c, KeepOne(c, t, k), k)
    BY <1>1, KeepStep
  <1>6. Kept(c, Keep(s, S), Len(s))
    BY <1>2, <1>3, <1>4, <1>5, KeepFold!FoldKeeps
  <1>7. \A x : x \in Range(Keep(s, S)) <=> \E i \in 1 .. Len(s) : s[i] = x /\ x \in S
    BY <1>1, <1>6 DEF Kept
  <1>8. Range(Keep(s, S)) = Range(s) \cap S
    BY <1>2, <1>7 DEF Range
  <1> QED
    BY <1>1, <1>6, <1>8 DEF Kept

-----------------------------------------------------------------------------
(* Leases *)

(* Where fewer than maxRunnable leases are out, there is one to give. *)
LEMMA NewLeaseIsNew ==
  ASSUME NEW h, h.leases \subseteq 1 .. maxRunnable, Cardinality(h.leases) < maxRunnable
  PROVE  NewLease(h) \in 1 .. maxRunnable /\ NewLease(h) \notin h.leases
  <1>1. maxRunnable \in Nat /\ IsFiniteSet(1 .. maxRunnable) /\ Cardinality(1 .. maxRunnable) = maxRunnable
    BY SubagentsAssumption, FS_Interval
  <1>2. h.leases # 1 .. maxRunnable
    BY <1>1
  <1>3. \E i \in 1 .. maxRunnable : i \notin h.leases
    BY <1>2, Zenon
  <1> QED
    BY <1>3 DEF NewLease

(* A change of leases, waits and bookkeeping leaves the runs alone. *)
LEMMA QuietChange ==
  ASSUME NEW F, NEW h, NEW g, NEW S, Fine(F, h), Only(h, g, S), S \cap RunFields = {},
         LeaseInv(g), MiscInv(g), JobsOK(g), ResidentsOK(g)
  PROVE  Fine(F, g)
  BY KeepRuns, Zenon DEF Fine

(* tryAcquireRunnable takes a free lease. *)
LEMMA AcquireFine ==
  ASSUME NEW F, NEW h, NEW a \in Agents, Fine(F, h), HasRunnableCapacity(h)
  PROVE  Fine(F, Acquire(h, a)) /\ Only(h, Acquire(h, a), {"lease", "leases"})
  <1> DEFINE g == Acquire(h, a)
  <1>1. /\ Only(h, g, {"lease", "leases"})
        /\ g.lease = [h.lease EXCEPT ![a] = NewLease(h)]
        /\ g.leases = h.leases \cup {NewLease(h)}
    BY Zenon DEF Fine, Whole, Acquire, Only, Fields
  <1> HIDE DEF g
  <1>2. g.grant = h.grant /\ g.waiters = h.waiters
    BY <1>1 DEF Only, Fields
  <1>3. LeaseInv(h)
    BY DEF Fine
  <1>4. NewLease(h) \in 1 .. maxRunnable /\ NewLease(h) \notin h.leases
    BY <1>3, NewLeaseIsNew DEF LeaseInv, HasRunnableCapacity
  <1>5. LeaseInv(g)
    BY <1>1, <1>2, <1>3, <1>4 DEF LeaseInv
  <1>6. MiscInv(g) /\ JobsOK(g) /\ ResidentsOK(g)
    BY <1>1, KeepMisc, KeepJobs, KeepResidents DEF Fine, MiscFields, JobFields
  <1>7. {"lease", "leases"} \cap RunFields = {}
    BY DEF RunFields, AgentFields
  <1>8. Fine(F, g)
    BY <1>1, <1>5, <1>6, <1>7, QuietChange
  <1> QED
    BY <1>1, <1>8 DEF g

(* A waiting agent w is handed a new lease. *)
Grant1(h, w, ws) ==
  [h EXCEPT !.waiters = ws, !.leases = @ \cup {NewLease(h)}, !.wait[w] = "granted", !.grant[w] = NewLease(h)]

(* release hands the slot to the first waiter. *)
LEMMA GrantFine ==
  ASSUME NEW F, NEW h, NEW w \in Agents, NEW ws \in Seq(Agents), Fine(F, h), Cardinality(h.leases) < maxRunnable
  PROVE  /\ Fine(F, Grant1(h, w, ws))
         /\ Only(h, Grant1(h, w, ws), {"leases", "waiters", "wait", "grant"})
  <1> DEFINE g == Grant1(h, w, ws)
  <1>1. /\ Only(h, g, {"leases", "waiters", "wait", "grant"})
        /\ g.grant = [h.grant EXCEPT ![w] = NewLease(h)] /\ g.wait = [h.wait EXCEPT ![w] = "granted"]
        /\ g.leases = h.leases \cup {NewLease(h)} /\ g.waiters = ws
    BY Zenon DEF Fine, Whole, Only, Fields, Grant1
  <1> HIDE DEF g
  <1>2. /\ g.lease = h.lease /\ g.parent = h.parent /\ g.intr = h.intr /\ g.joinInterrupted = h.joinInterrupted
        /\ g.ckpt = h.ckpt /\ g.held = h.held /\ g.after = h.after
    BY <1>1 DEF Only, Fields
  <1>3. LeaseInv(h) /\ MiscInv(h)
    BY DEF Fine
  <1>4. NewLease(h) \in 1 .. maxRunnable /\ NewLease(h) \notin h.leases
    BY <1>3, NewLeaseIsNew DEF LeaseInv
  <1>5. LeaseInv(g)
    BY <1>1, <1>2, <1>3, <1>4 DEF LeaseInv
  <1>6. MiscInv(g)
    BY <1>1, <1>2, <1>3 DEF MiscInv
  <1>7. JobsOK(g) /\ ResidentsOK(g)
    BY <1>1, KeepJobs, KeepResidents DEF Fine, JobFields
  <1>8. {"leases", "waiters", "wait", "grant"} \cap RunFields = {}
    BY DEF RunFields, AgentFields
  <1>9. Fine(F, g)
    BY <1>1, <1>5, <1>6, <1>7, <1>8, QuietChange
  <1> QED
    BY <1>1, <1>9 DEF g

(* A lease that nobody holds any more is given back. *)
Free1(h, l) == [h EXCEPT !.leases = @ \ {l}]

(* A lease that nobody holds may be freed. *)
LEMMA FreeFine ==
  ASSUME NEW F, NEW h, NEW l, Fine(F, h), \A b \in Agents : h.lease[b] # l /\ h.grant[b] # l
  PROVE  Fine(F, Free1(h, l)) /\ Only(h, Free1(h, l), {"leases"})
  <1> DEFINE g == Free1(h, l)
  <1>1. Only(h, g, {"leases"}) /\ g.leases = h.leases \ {l}
    BY DEF Fine, Whole, Only, Fields, Free1
  <1> HIDE DEF g
  <1>2. g.lease = h.lease /\ g.grant = h.grant /\ g.waiters = h.waiters
    BY <1>1 DEF Only, Fields
  <1>3. LeaseInv(h)
    BY DEF Fine
  <1>4. LeaseInv(g)
    BY <1>1, <1>2, <1>3 DEF LeaseInv
  <1>5. MiscInv(g) /\ JobsOK(g) /\ ResidentsOK(g)
    BY <1>1, KeepMisc, KeepJobs, KeepResidents DEF Fine, MiscFields, JobFields
  <1>6. {"leases"} \cap RunFields = {}
    BY DEF RunFields, AgentFields
  <1>7. Fine(F, g)
    BY <1>1, <1>4, <1>5, <1>6, QuietChange
  <1> QED
    BY <1>1, <1>7 DEF g

(* Two changes in a row change the fields of either. *)
LEMMA OnlyTrans ==
  ASSUME NEW h, NEW g, NEW k, NEW S, NEW T, Only(h, g, S), Only(g, k, T)
  PROVE  Only(h, k, S \cup T)
  BY DEF Only

(* A change of some fields is a change of more. *)
LEMMA OnlyMore ==
  ASSUME NEW h, NEW g, NEW S, NEW T, Only(h, g, S), S \subseteq T
  PROVE  Only(h, g, T)
  BY DEF Only

(* A heap changes nothing of itself. *)
LEMMA OnlySelf ==
  ASSUME NEW F, NEW h, NEW S, Fine(F, h)
  PROVE  Only(h, h, S)
  BY DEF Only, Fine, Whole

(* release *)
LEMMA ReleaseLeaseFine ==
  ASSUME NEW F, NEW h, NEW l, Fine(F, h), \A b \in Agents : h.lease[b] # l /\ h.grant[b] # l
  PROVE  /\ Fine(F, ReleaseLease(h, l))
         /\ Only(h, ReleaseLease(h, l), {"leases", "waiters", "wait", "grant"})
  <1> DEFINE freed == Free1(h, l)
             w == Head(h.waiters)
             granted == Grant1(freed, w, Tail(h.waiters))
  <1>1. Fine(F, freed) /\ Only(h, freed, {"leases"})
    BY FreeFine
  <1>2. freed.waiters = h.waiters
    BY <1>1 DEF Only, Fields
  <1>3. ReleaseLease(h, l) = freed \/ (/\ h.waiters # <<>> /\ ~(Cardinality(freed.leases) >= maxRunnable)
                                       /\ ReleaseLease(h, l) = granted)
    BY <1>2 DEF ReleaseLease, Free1, Grant1
  <1> HIDE DEF freed
  <1>4. CASE ReleaseLease(h, l) = freed
    <2>1. Only(h, freed, {"leases", "waiters", "wait", "grant"})
      BY <1>1, OnlyMore
    <2> QED
      BY <1>1, <1>4, <2>1
  <1>5. CASE /\ h.waiters # <<>> /\ ~(Cardinality(freed.leases) >= maxRunnable)
             /\ ReleaseLease(h, l) = granted
    <2>1. w \in Agents /\ Tail(h.waiters) \in Seq(Agents)
      BY <1>5 DEF Fine, LeaseInv
    <2>2. Cardinality(freed.leases) < maxRunnable
      <3>1. freed.leases \subseteq 1 .. maxRunnable /\ maxRunnable \in Nat
        BY <1>1, SubagentsAssumption DEF Fine, LeaseInv
      <3>2. IsFiniteSet(1 .. maxRunnable)
        BY <3>1, FS_Interval
      <3>3. IsFiniteSet(freed.leases)
        BY <3>1, <3>2, FS_Subset
      <3>4. Cardinality(freed.leases) \in Nat
        BY <3>3, FS_CardinalityType
      <3> QED
        BY <1>5, <3>1, <3>4
    <2>3. Fine(F, granted) /\ Only(freed, granted, {"leases", "waiters", "wait", "grant"})
      BY <1>1, <2>1, <2>2, GrantFine, Zenon
    <2>4. Only(h, granted, {"leases"} \cup {"leases", "waiters", "wait", "grant"})
      BY <1>1, <2>3, OnlyTrans
    <2>5. {"leases"} \cup {"leases", "waiters", "wait", "grant"} = {"leases", "waiters", "wait", "grant"}
      OBVIOUS
    <2> QED
      BY <1>5, <2>3, <2>4, <2>5
  <1> QED
    BY <1>3, <1>4, <1>5

-----------------------------------------------------------------------------
(* Changes that do not concern the runs *)

JobType == {"start", "load", "retire"} \X Agents

(* detached adds a job that fits. *)
LEMMA DetachFine ==
  ASSUME NEW F, NEW h, NEW job \in JobType, Fine(F, h),
         job[1] = "load" => h.life[job[2]] # "absent" /\ ~h.parked[job[2]]
  PROVE  Fine(F, Detach(h, job)) /\ Only(h, Detach(h, job), {"jobs"})
  <1> DEFINE g == [h EXCEPT !.jobs = Append(@, job)]
  <1>1. Only(h, g, {"jobs"}) /\ g.jobs = Append(h.jobs, job)
    BY DEF Fine, Whole, Only, Fields
  <1>2. Detach(h, job) = h \/ Detach(h, job) = g
    BY DEF Detach
  <1> HIDE DEF g
  <1>3. g.life = h.life /\ g.parked = h.parked
    BY <1>1 DEF Only, Fields
  <1>4. JobsOK(h) /\ h.jobs \in Seq(JobType)
    BY DEF Fine, JobsOK, JobType
  <1>5. Range(g.jobs) = Range(h.jobs) \cup {job} /\ g.jobs \in Seq(JobType)
    BY <1>1, <1>4, AppendRange
  <1>6. \A a \in Agents : <<"load", a>> = job => h.life[a] # "absent" /\ ~h.parked[a]
    OBVIOUS
  <1>7. JobsOK(g)
    BY <1>3, <1>4, <1>5, <1>6 DEF JobsOK, JobType
  <1>8. LeaseInv(g) /\ MiscInv(g) /\ ResidentsOK(g)
    BY <1>1, KeepLeases, KeepMisc, KeepResidents DEF Fine, MiscFields, LeaseFields
  <1>9. {"jobs"} \cap RunFields = {}
    BY DEF RunFields, AgentFields
  <1>10. Fine(F, g)
    BY <1>1, <1>7, <1>8, <1>9, QuietChange
  <1> QED
    BY <1>1, <1>2, <1>10, OnlySelf

(* The next job leaves the chain. *)
LEMMA TakeJobFine ==
  ASSUME NEW F, NEW h, Fine(F, h), h.jobs # <<>>
  PROVE  Fine(F, TakeJob(h)) /\ Only(h, TakeJob(h), {"jobs", "after"})
  <1> DEFINE g == TakeJob(h)
  <1>1. /\ Only(h, g, {"jobs", "after"}) /\ g.jobs = Tail(h.jobs)
        /\ g.after = [a \in Agents |-> IF h.after[a] = 0 THEN 0 ELSE h.after[a] - 1]
    BY Zenon DEF Fine, Whole, Only, Fields, TakeJob
  <1> HIDE DEF g
  <1>2. /\ g.life = h.life /\ g.parked = h.parked /\ g.parent = h.parent /\ g.intr = h.intr
        /\ g.joinInterrupted = h.joinInterrupted /\ g.ckpt = h.ckpt /\ g.held = h.held /\ g.wait = h.wait
    BY <1>1 DEF Only, Fields
  <1>3. h.jobs \in Seq(JobType) /\ JobsOK(h) /\ MiscInv(h)
    BY DEF Fine, JobsOK, JobType
  <1>4. g.jobs \in Seq(JobType) /\ Range(g.jobs) \subseteq Range(h.jobs)
    <2>1. Len(Tail(h.jobs)) = Len(h.jobs) - 1 /\ \A i \in 1 .. Len(Tail(h.jobs)) : Tail(h.jobs)[i] = h.jobs[i + 1]
      BY <1>3
    <2>2. DOMAIN Tail(h.jobs) = 1 .. Len(Tail(h.jobs)) /\ DOMAIN h.jobs = 1 .. Len(h.jobs) /\ Len(h.jobs) \in Nat
      BY <1>3
    <2>3. \A i \in 1 .. Len(Tail(h.jobs)) : i + 1 \in 1 .. Len(h.jobs)
      BY <2>1, <2>2
    <2>4. Range(Tail(h.jobs)) \subseteq Range(h.jobs)
      BY <2>1, <2>2, <2>3 DEF Range
    <2> QED
      BY <1>1, <1>3, <2>4
  <1>5. JobsOK(g)
    BY <1>2, <1>3, <1>4 DEF JobsOK, JobType
  <1>6. g.after \in [Agents -> Nat]
    BY <1>1, <1>3 DEF MiscInv
  <1>7. MiscInv(g)
    BY <1>2, <1>3, <1>6 DEF MiscInv
  <1>8. LeaseInv(g) /\ ResidentsOK(g)
    BY <1>1, KeepLeases, KeepResidents DEF Fine, LeaseFields
  <1>9. {"jobs", "after"} \cap RunFields = {}
    BY DEF RunFields, AgentFields
  <1>10. Fine(F, g)
    BY <1>1, <1>5, <1>7, <1>8, <1>9, QuietChange
  <1> QED
    BY <1>1, <1>10 DEF g

(* acquireRunnableQueued: granted at once or queued. *)
LEMMA AcquireQueuedFine ==
  ASSUME NEW F, NEW h, NEW a \in Agents, Fine(F, h)
  PROVE  /\ Fine(F, AcquireQueued(h, a))
         /\ Only(h, AcquireQueued(h, a), {"leases", "waiters", "wait", "grant"})
  <1>1. CASE HasRunnableCapacity(h)
    <2>1. AcquireQueued(h, a) = Grant1(h, a, h.waiters)
      <3> DEFINE g == [h EXCEPT !.wait[a] = "granted", !.grant[a] = NewLease(h), !.leases = @ \cup {NewLease(h)}]
                 k == [h EXCEPT !.waiters = h.waiters, !.leases = @ \cup {NewLease(h)}, !.wait[a] = "granted",
                                !.grant[a] = NewLease(h)]
      <3>1. DOMAIN g = Fields /\ DOMAIN k = Fields /\ g = [x \in DOMAIN g |-> g[x]] /\ k = [x \in DOMAIN k |-> k[x]]
        BY Zenon DEF Fine, Whole
      <3>2. \A x \in Fields : g[x] = k[x]
        BY Zenon DEF Fine, Whole, Fields
      <3>3. g = k
        <4> HIDE DEF g, k
        <4> QED
          BY <3>1, <3>2
      <3> QED
        BY <1>1, <3>3 DEF AcquireQueued, Grant1
    <2>2. Cardinality(h.leases) < maxRunnable /\ h.waiters \in Seq(Agents)
      BY <1>1 DEF HasRunnableCapacity, Fine, LeaseInv
    <2> QED
      BY <2>1, <2>2, GrantFine
  <1>2. CASE ~HasRunnableCapacity(h)
    <2> DEFINE g == [h EXCEPT !.wait[a] = "queued", !.waiters = Append(@, a)]
    <2>1. /\ Only(h, g, {"wait", "waiters"}) /\ g.wait = [h.wait EXCEPT ![a] = "queued"]
          /\ g.waiters = Append(h.waiters, a)
      BY Zenon DEF Fine, Whole, Only, Fields
    <2>2. AcquireQueued(h, a) = g
      BY <1>2 DEF AcquireQueued
    <2> HIDE DEF g
    <2>3. /\ g.lease = h.lease /\ g.grant = h.grant /\ g.leases = h.leases /\ g.parent = h.parent /\ g.intr = h.intr
          /\ g.joinInterrupted = h.joinInterrupted /\ g.ckpt = h.ckpt /\ g.held = h.held /\ g.after = h.after
      BY <2>1 DEF Only, Fields
    <2>4. LeaseInv(h) /\ MiscInv(h)
      BY DEF Fine
    <2>5. LeaseInv(g)
      BY <2>1, <2>3, <2>4 DEF LeaseInv
    <2>6. MiscInv(g)
      BY <2>1, <2>3, <2>4 DEF MiscInv
    <2>7. JobsOK(g) /\ ResidentsOK(g)
      BY <2>1, KeepJobs, KeepResidents DEF Fine, JobFields
    <2>8. {"wait", "waiters"} \cap RunFields = {}
      BY DEF RunFields, AgentFields
    <2>9. Fine(F, g)
      BY <2>1, <2>5, <2>6, <2>7, <2>8, QuietChange
    <2>10. Only(h, g, {"leases", "waiters", "wait", "grant"})
      BY <2>1, OnlyMore
    <2> QED
      BY <2>2, <2>9, <2>10
  <1> QED
    BY <1>1, <1>2

(* leaseWaitCancel of a waiter. *)
LEMMA CancelLeaseWaitFine ==
  ASSUME NEW F, NEW h, NEW a \in Agents, Fine(F, h)
  PROVE  Fine(F, CancelLeaseWait(h, a)) /\ Only(h, CancelLeaseWait(h, a), {"wait", "waiters"})
  <1> DEFINE g == [h EXCEPT !.wait[a] = "none", !.waiters = Keep(@, Agents \ {a})]
  <1>1. /\ Only(h, g, {"wait", "waiters"}) /\ g.wait = [h.wait EXCEPT ![a] = "none"]
        /\ g.waiters = Keep(h.waiters, Agents \ {a})
    BY Zenon DEF Fine, Whole, Only, Fields
  <1>2. CancelLeaseWait(h, a) = h \/ CancelLeaseWait(h, a) = g
    BY DEF CancelLeaseWait
  <1> HIDE DEF g
  <1>3. /\ g.lease = h.lease /\ g.grant = h.grant /\ g.leases = h.leases /\ g.parent = h.parent /\ g.intr = h.intr
        /\ g.joinInterrupted = h.joinInterrupted /\ g.ckpt = h.ckpt /\ g.held = h.held /\ g.after = h.after
    BY <1>1 DEF Only, Fields
  <1>4. LeaseInv(h) /\ MiscInv(h)
    BY DEF Fine
  <1>5. g.waiters \in Seq(Agents)
    BY <1>1, <1>4, KeepIs DEF LeaseInv
  <1>6. LeaseInv(g)
    BY <1>3, <1>4, <1>5 DEF LeaseInv
  <1>7. MiscInv(g)
    BY <1>1, <1>3, <1>4 DEF MiscInv
  <1>8. JobsOK(g) /\ ResidentsOK(g)
    BY <1>1, KeepJobs, KeepResidents DEF Fine, JobFields
  <1>9. {"wait", "waiters"} \cap RunFields = {}
    BY DEF RunFields, AgentFields
  <1>10. Fine(F, g)
    BY <1>1, <1>6, <1>7, <1>8, <1>9, QuietChange
  <1> QED
    BY <1>1, <1>2, <1>10, OnlySelf

(* A change of bookkeeping that is no lease, job, resident or run. *)
LEMMA MiscChange ==
  ASSUME NEW F, NEW h, NEW g, NEW S, Fine(F, h), Only(h, g, S), S \subseteq MiscFields \cup {"closes", "suspended", "walks"},
         MiscInv(g)
  PROVE  Fine(F, g)
  <1>1. S \cap LeaseFields = {} /\ S \cap JobFields = {} /\ "resident" \notin S /\ S \cap RunFields = {}
    BY DEF LeaseFields, JobFields, MiscFields, RunFields, AgentFields
  <1>2. LeaseInv(g) /\ JobsOK(g) /\ ResidentsOK(g)
    BY <1>1, KeepLeases, KeepJobs, KeepResidents DEF Fine
  <1> QED
    BY <1>1, <1>2, QuietChange

-----------------------------------------------------------------------------
(* What an agent holds may always be dropped: the agreement with the journal says only what is *)
(* known of runs that are held.                                                                *)

Weaker(v, u) ==
  /\ u.made = v.made /\ u.cur = v.cur /\ u.gen = v.gen /\ u.queue = v.queue /\ u.done = v.done
  /\ u.quarantined = v.quarantined
  /\ u.life = v.life \/ (v.life = "open" /\ u.life = "closing")
  /\ u.active \in {v.active, 0} /\ u.parked \in {v.parked, FALSE} /\ u.join \in {v.join, NoJoin}
  /\ u.worker \in {v.worker, FALSE} /\ u.lost \in {v.lost, 0} /\ u.pending \in {v.pending, NoJoin}
  /\ u.starting => v.starting /\ u.active = v.active
  /\ u.init => v.init /\ u.active = v.active
  /\ v.init /\ ~u.init => u.active = 0

(* A view that only drops what it held still agrees with the journal. *)
LEMMA WeakerOK ==
  ASSUME NEW J, NEW a, NEW v, NEW u, RunOK(J, a, v), Weaker(v, u)
  PROVE  RunOK(J, a, u)
  <1>1. ViewType(u)
    <2>1. ViewType(v)
      BY DEF RunOK
    <2>2. u.life \in {"absent", "open", "closing", "closed"}
      BY <2>1 DEF ViewType, Weaker
    <2>3. u.active \in {0, u.cur} /\ u.lost \in 0 .. MaxRuns
      BY <2>1, SubagentsAssumption DEF ViewType, Weaker
    <2>4. u.join \in {NoJoin} \cup (Runs \X Outcomes) /\ u.pending \in {NoJoin} \cup (Runs \X Outcomes)
      BY <2>1 DEF ViewType, Weaker
    <2>5. u.parked \in BOOLEAN /\ u.worker \in BOOLEAN
      BY <2>1, Zenon DEF ViewType, Weaker
    <2> QED
      BY <2>1, <2>2, <2>3, <2>4, <2>5 DEF ViewType, Weaker
  <1>2. OnePhase(u)
    BY Zenon DEF RunOK, OnePhase, Weaker
  <1>3. LifeOK(J, a, u)
    BY Zenon DEF RunOK, LifeOK, Weaker
  <1>4. RunsOK(J, a, u)
    BY DEF RunOK, RunsOK, Weaker
  <1>5. QueueOK(J, a, u)
    BY DEF RunOK, QueueOK, Weaker
  <1>6. GenOK(J, a, u)
    BY DEF RunOK, GenOK, Weaker
  <1>7. HeldOK(J, a, u)
    BY Zenon DEF RunOK, HeldOK, Weaker
  <1> QED
    BY <1>1, <1>2, <1>3, <1>4, <1>5, <1>6, <1>7 DEF RunOK

(* The fields of a view. *)
LEMMA ViewFields ==
  ASSUME NEW h, NEW a
  PROVE  /\ View(h, a).life = h.life[a] /\ View(h, a).made = h.made[a] /\ View(h, a).cur = h.cur[a]
         /\ View(h, a).gen = h.gen[a] /\ View(h, a).active = h.active[a] /\ View(h, a).queue = h.queue[a]
         /\ View(h, a).parked = h.parked[a] /\ View(h, a).join = h.join[a] /\ View(h, a).done = h.done[a]
         /\ View(h, a).worker = h.worker[a] /\ View(h, a).quarantined = h.quarantined[a]
         /\ View(h, a).lost = h.lost[a] /\ View(h, a).pending = h.pendingSettle[a]
         /\ View(h, a).starting = (h.chain = <<"startup", a>>)
         /\ View(h, a).init = (h.chain = <<"initialize", a>>)
  BY DEF View

(* The same, field by field. *)
Drops(h, g, b) ==
  /\ g.made[b] = h.made[b] /\ g.cur[b] = h.cur[b] /\ g.gen[b] = h.gen[b] /\ g.queue[b] = h.queue[b]
  /\ g.done[b] = h.done[b] /\ g.quarantined[b] = h.quarantined[b]
  /\ g.life[b] = h.life[b] \/ (h.life[b] = "open" /\ g.life[b] = "closing")
  /\ g.active[b] \in {h.active[b], 0} /\ g.parked[b] \in {h.parked[b], FALSE}
  /\ g.join[b] \in {h.join[b], NoJoin} /\ g.worker[b] \in {h.worker[b], FALSE}
  /\ g.lost[b] \in {h.lost[b], 0} /\ g.pendingSettle[b] \in {h.pendingSettle[b], NoJoin}
  /\ g.chain = <<"startup", b>> => h.chain = <<"startup", b>> /\ g.active[b] = h.active[b]
  /\ g.chain = <<"initialize", b>> => h.chain = <<"initialize", b>> /\ g.active[b] = h.active[b]
  /\ h.chain = <<"initialize", b>> /\ g.chain # <<"initialize", b>> => g.active[b] = 0

(* Dropping, field by field, weakens the view. *)
LEMMA DropsWeaker ==
  ASSUME NEW h, NEW g, NEW b, Drops(h, g, b)
  PROVE  Weaker(View(h, b), View(g, b))
  <1> DEFINE v == View(h, b)
             u == View(g, b)
  <1>1. /\ v.life = h.life[b] /\ v.made = h.made[b] /\ v.cur = h.cur[b]
        /\ v.gen = h.gen[b] /\ v.active = h.active[b] /\ v.queue = h.queue[b]
        /\ v.parked = h.parked[b] /\ v.join = h.join[b] /\ v.done = h.done[b]
        /\ v.worker = h.worker[b] /\ v.quarantined = h.quarantined[b]
        /\ v.lost = h.lost[b] /\ v.pending = h.pendingSettle[b]
        /\ v.starting = (h.chain = <<"startup", b>>)
        /\ v.init = (h.chain = <<"initialize", b>>)
    BY ViewFields
  <1>2. /\ u.life = g.life[b] /\ u.made = g.made[b] /\ u.cur = g.cur[b]
        /\ u.gen = g.gen[b] /\ u.active = g.active[b] /\ u.queue = g.queue[b]
        /\ u.parked = g.parked[b] /\ u.join = g.join[b] /\ u.done = g.done[b]
        /\ u.worker = g.worker[b] /\ u.quarantined = g.quarantined[b]
        /\ u.lost = g.lost[b] /\ u.pending = g.pendingSettle[b]
        /\ u.starting = (g.chain = <<"startup", b>>)
        /\ u.init = (g.chain = <<"initialize", b>>)
    BY ViewFields
  <1> HIDE DEF v, u
  <1>3. Weaker(v, u)
    BY <1>1, <1>2, Zenon DEF Weaker, Drops
  <1> QED
    BY <1>3 DEF v, u

(* A heap that only drops what agents hold stays fine. *)
LEMMA DropFine ==
  ASSUME NEW F, NEW h, NEW g, NEW S, Fine(F, h), Only(h, g, S), S \cap {"log", "jobs", "resident"} = {},
         \A x \in S \cap AgentFields : g[x] = [a \in Agents |-> g[x][a]],
         LeaseInv(g), MiscInv(g), \A b \in Agents : Drops(h, g, b)
  PROVE  Fine(F, g)
  <1>1. g.log = h.log /\ g.jobs = h.jobs
    BY DEF Only, Fields
  <1>2. Whole(g) /\ ResidentsOK(g)
    BY KeepWhole, KeepResidents, Zenon DEF Fine
  <1>3. \A b \in Agents : /\ g.life[b] = h.life[b] \/ (h.life[b] = "open" /\ g.life[b] = "closing")
                          /\ g.parked[b] \in {h.parked[b], FALSE}
    BY Zenon DEF Drops
  <1>4. JobsOK(g)
    BY <1>1, <1>3, Zenon DEF Fine, JobsOK
  <1>5. \A b \in Agents : RunOK(Of(F \cup Range(h.log), b), b, View(g, b))
    BY WeakerOK, DropsWeaker, Zenon DEF Fine, RunInv
  <1>6. RunInv(F \cup Range(h.log), g)
    BY <1>3, <1>5, Zenon DEF Fine, RunInv
  <1> QED
    BY <1>1, <1>2, <1>4, <1>6, FineAfter

(* An agent loses its run, its worker, a parked start, a join or a launch; agents are closed;   *)
(* a lost run, or an outcome left unpublished, is dealt with.                                  *)
StopWorker(h, a) == [h EXCEPT !.worker[a] = FALSE]

StopRun(h, a) == [h EXCEPT !.active[a] = 0]
Unpark(h, a) == [h EXCEPT !.parked[a] = FALSE]
EndJoin(h, a) == [h EXCEPT !.join[a] = NoJoin, !.joinInterrupted[a] = FALSE]
EndChain(h) == [h EXCEPT !.chain = Idle]
Exit(h, a, w) == [h EXCEPT !.worker[a] = FALSE, !.wait[a] = w]
EndInit(h, a) == [h EXCEPT !.chain = Idle, !.active[a] = 0]
EndReload(h, a) == [h EXCEPT !.chain = Idle, !.worker[a] = FALSE]
Down(h, a) == [h EXCEPT !.life[a] = "closing", !.worker[a] = FALSE, !.parked[a] = FALSE, !.active[a] = 0]
CloseAll(h, a, D, ws) ==
  [h EXCEPT !.chain = <<"close", a>>, !.walks = ws,
            !.life = [d \in Agents |-> IF d \in D /\ @[d] = "open" THEN "closing" ELSE @[d]]]
Walking(h, ws) == [h EXCEPT !.chain = <<"interrupt", 0>>, !.walks = ws]
WalkOver(h, ws, c, cs) == [h EXCEPT !.walks = ws, !.chain = c, !.closes = cs]
Found(h, a) == [h EXCEPT !.lost[a] = 0]
Published(h, a) == [h EXCEPT !.pendingSettle[a] = NoJoin]
Resumed(h) == [h EXCEPT !.suspended = FALSE, !.chain = Idle]

(* The idle chain launches nobody. *)
LEMMA NotStarting == \A b : Idle # <<"startup", b>> /\ Idle # <<"initialize", b>>
  BY DEF Idle

(* The worker of an agent is gone. *)
LEMMA StopWorkerFine ==
  ASSUME NEW F, NEW h, NEW a \in Agents, Fine(F, h)
  PROVE  /\ Fine(F, StopWorker(h, a)) /\ Only(h, StopWorker(h, a), {"worker"})
         /\ StopWorker(h, a).worker = [h.worker EXCEPT ![a] = FALSE]
  <1> DEFINE g == StopWorker(h, a)
  <1>1. /\ Only(h, g, {"worker"})
        /\ g.worker = [h.worker EXCEPT ![a] = FALSE]
    BY DEF Fine, Whole, Only, Fields, StopWorker
  <1> HIDE DEF g
  <1>2. h.worker = [b \in Agents |-> h.worker[b]]
    BY DEF Fine, Whole, AgentFields
  <1>3. /\ g.life = h.life /\ g.made = h.made /\ g.cur = h.cur /\ g.gen = h.gen
        /\ g.active = h.active /\ g.queue = h.queue /\ g.parked = h.parked /\ g.join = h.join
        /\ g.done = h.done /\ g.quarantined = h.quarantined /\ g.lost = h.lost
        /\ g.pendingSettle = h.pendingSettle /\ g.chain = h.chain
    BY <1>1 DEF Only, Fields
  <1>4. \A b \in Agents : Drops(h, g, b)
    BY <1>1, <1>2, <1>3, Zenon DEF Drops
  <1>5. g.worker = [b \in Agents |-> g.worker[b]]
    BY <1>1, <1>2, Zenon
  <1>6. LeaseInv(g) /\ MiscInv(g)
    BY <1>1, KeepLeases, KeepMisc DEF Fine, MiscFields, LeaseFields
  <1>7. Fine(F, g)
    BY <1>1, <1>4, <1>5, <1>6, DropFine
  <1> QED
    BY <1>1, <1>7 DEF g

(* An agent forgets the run it has. *)
LEMMA StopRunFine ==
  ASSUME NEW F, NEW h, NEW a \in Agents, Fine(F, h), h.chain \notin {<<"startup", a>>, <<"initialize", a>>}
  PROVE  /\ Fine(F, StopRun(h, a)) /\ Only(h, StopRun(h, a), {"active"})
         /\ StopRun(h, a).active = [h.active EXCEPT ![a] = 0]
  <1> DEFINE g == StopRun(h, a)
  <1>1. /\ Only(h, g, {"active"})
        /\ g.active = [h.active EXCEPT ![a] = 0]
    BY DEF Fine, Whole, Only, Fields, StopRun
  <1> HIDE DEF g
  <1>2. h.active = [b \in Agents |-> h.active[b]]
    BY DEF Fine, Whole, AgentFields
  <1>3. /\ g.life = h.life /\ g.made = h.made /\ g.cur = h.cur /\ g.gen = h.gen
        /\ g.queue = h.queue /\ g.parked = h.parked /\ g.join = h.join /\ g.done = h.done
        /\ g.worker = h.worker /\ g.quarantined = h.quarantined /\ g.lost = h.lost
        /\ g.pendingSettle = h.pendingSettle /\ g.chain = h.chain
    BY <1>1 DEF Only, Fields
  <1>4. \A b \in Agents : Drops(h, g, b)
    BY <1>1, <1>2, <1>3 DEF Drops
  <1>5. g.active = [b \in Agents |-> g.active[b]]
    BY <1>1, <1>2
  <1>6. LeaseInv(g) /\ MiscInv(g)
    BY <1>1, KeepLeases, KeepMisc DEF Fine, MiscFields, LeaseFields
  <1>7. Fine(F, g)
    BY <1>1, <1>4, <1>5, <1>6, DropFine
  <1> QED
    BY <1>1, <1>7 DEF g

(* A parked start is over. *)
LEMMA UnparkFine ==
  ASSUME NEW F, NEW h, NEW a \in Agents, Fine(F, h)
  PROVE  /\ Fine(F, Unpark(h, a)) /\ Only(h, Unpark(h, a), {"parked"})
         /\ Unpark(h, a).parked = [h.parked EXCEPT ![a] = FALSE]
  <1> DEFINE g == Unpark(h, a)
  <1>1. /\ Only(h, g, {"parked"})
        /\ g.parked = [h.parked EXCEPT ![a] = FALSE]
    BY DEF Fine, Whole, Only, Fields, Unpark
  <1> HIDE DEF g
  <1>2. h.parked = [b \in Agents |-> h.parked[b]]
    BY DEF Fine, Whole, AgentFields
  <1>3. /\ g.life = h.life /\ g.made = h.made /\ g.cur = h.cur /\ g.gen = h.gen
        /\ g.active = h.active /\ g.queue = h.queue /\ g.join = h.join /\ g.done = h.done
        /\ g.worker = h.worker /\ g.quarantined = h.quarantined /\ g.lost = h.lost
        /\ g.pendingSettle = h.pendingSettle /\ g.chain = h.chain
    BY <1>1 DEF Only, Fields
  <1>4. \A b \in Agents : Drops(h, g, b)
    BY <1>1, <1>2, <1>3, Zenon DEF Drops
  <1>5. g.parked = [b \in Agents |-> g.parked[b]]
    BY <1>1, <1>2, Zenon
  <1>6. LeaseInv(g) /\ MiscInv(g)
    BY <1>1, KeepLeases, KeepMisc DEF Fine, MiscFields, LeaseFields
  <1>7. Fine(F, g)
    BY <1>1, <1>4, <1>5, <1>6, DropFine
  <1> QED
    BY <1>1, <1>7 DEF g

(* The continuation of finalizeGeneration takes its barrier away. *)
LEMMA EndJoinFine ==
  ASSUME NEW F, NEW h, NEW a \in Agents, Fine(F, h)
  PROVE  /\ Fine(F, EndJoin(h, a)) /\ Only(h, EndJoin(h, a), {"join", "joinInterrupted"})
         /\ EndJoin(h, a).join = [h.join EXCEPT ![a] = NoJoin]
         /\ EndJoin(h, a).joinInterrupted = [h.joinInterrupted EXCEPT ![a] = FALSE]
  <1> DEFINE g == EndJoin(h, a)
  <1>1. /\ Only(h, g, {"join", "joinInterrupted"})
        /\ g.join = [h.join EXCEPT ![a] = NoJoin]
        /\ g.joinInterrupted = [h.joinInterrupted EXCEPT ![a] = FALSE]
    BY Zenon DEF Fine, Whole, Only, Fields, EndJoin
  <1> HIDE DEF g
  <1>2. h.join = [b \in Agents |-> h.join[b]]
    BY DEF Fine, Whole, AgentFields
  <1>3. /\ g.life = h.life /\ g.made = h.made /\ g.cur = h.cur /\ g.gen = h.gen
        /\ g.active = h.active /\ g.queue = h.queue /\ g.parked = h.parked /\ g.done = h.done
        /\ g.worker = h.worker /\ g.quarantined = h.quarantined /\ g.lost = h.lost
        /\ g.pendingSettle = h.pendingSettle /\ g.chain = h.chain
    BY <1>1 DEF Only, Fields
  <1>4. \A b \in Agents : Drops(h, g, b)
    BY <1>1, <1>2, <1>3 DEF Drops
  <1>5. g.join = [b \in Agents |-> g.join[b]]
    BY <1>1, <1>2
  <1>6. \A x \in {"join", "joinInterrupted"} \cap AgentFields : g[x] = [b \in Agents |-> g[x][b]]
    BY <1>5 DEF AgentFields
  <1>7. g.parent = h.parent /\ g.intr = h.intr /\ g.ckpt = h.ckpt /\ g.held = h.held /\ g.after = h.after /\ g.wait = h.wait
    BY <1>1 DEF Only, Fields
  <1>8. MiscInv(g)
    BY <1>1, <1>7 DEF Fine, MiscInv
  <1>9. LeaseInv(g)
    BY <1>1, KeepLeases DEF Fine, LeaseFields
  <1>10. Fine(F, g)
    BY <1>1, <1>4, <1>6, <1>8, <1>9, DropFine
  <1> QED
    BY <1>1, <1>10 DEF g

(* A launch releases the chain. *)
LEMMA EndChainFine ==
  ASSUME NEW F, NEW h, Fine(F, h), \A b \in Agents : h.chain # <<"initialize", b>>
  PROVE  /\ Fine(F, EndChain(h)) /\ Only(h, EndChain(h), {"chain"})
         /\ EndChain(h).chain = Idle
  <1> DEFINE g == EndChain(h)
  <1>1. /\ Only(h, g, {"chain"})
        /\ g.chain = Idle
    BY DEF Fine, Whole, Only, Fields, EndChain
  <1> HIDE DEF g
  <1>2. /\ g.life = h.life /\ g.made = h.made /\ g.cur = h.cur /\ g.gen = h.gen
        /\ g.active = h.active /\ g.queue = h.queue /\ g.parked = h.parked /\ g.join = h.join
        /\ g.done = h.done /\ g.worker = h.worker /\ g.quarantined = h.quarantined
        /\ g.lost = h.lost /\ g.pendingSettle = h.pendingSettle
    BY <1>1 DEF Only, Fields
  <1>3. \A b \in Agents : Drops(h, g, b)
    BY <1>1, <1>2, NotStarting DEF Drops
  <1>4. LeaseInv(g) /\ MiscInv(g)
    BY <1>1, KeepLeases, KeepMisc DEF Fine, MiscFields, LeaseFields
  <1>5. Fine(F, g)
    BY <1>1, <1>3, <1>4, DropFine DEF AgentFields
  <1> QED
    BY <1>1, <1>5 DEF g

(* onWorkerExit, before the run is finalized. *)
LEMMA ExitFine ==
  ASSUME NEW F, NEW h, NEW a \in Agents, NEW w \in {"none", "waiting", "resuming", "queued", "granted"}, Fine(F, h)
  PROVE  /\ Fine(F, Exit(h, a, w)) /\ Only(h, Exit(h, a, w), {"worker", "wait"})
         /\ Exit(h, a, w).worker = [h.worker EXCEPT ![a] = FALSE]
         /\ Exit(h, a, w).wait = [h.wait EXCEPT ![a] = w]
  <1> DEFINE g == Exit(h, a, w)
  <1>1. /\ Only(h, g, {"worker", "wait"})
        /\ g.worker = [h.worker EXCEPT ![a] = FALSE] /\ g.wait = [h.wait EXCEPT ![a] = w]
    BY Zenon DEF Fine, Whole, Only, Fields, Exit
  <1> HIDE DEF g
  <1>2. h.worker = [b \in Agents |-> h.worker[b]]
    BY DEF Fine, Whole, AgentFields
  <1>3. /\ g.life = h.life /\ g.made = h.made /\ g.cur = h.cur /\ g.gen = h.gen
        /\ g.active = h.active /\ g.queue = h.queue /\ g.parked = h.parked /\ g.join = h.join
        /\ g.done = h.done /\ g.quarantined = h.quarantined /\ g.lost = h.lost
        /\ g.pendingSettle = h.pendingSettle /\ g.chain = h.chain
    BY <1>1 DEF Only, Fields
  <1>4. \A b \in Agents : Drops(h, g, b)
    BY <1>1, <1>2, <1>3, Zenon DEF Drops
  <1>5. g.worker = [b \in Agents |-> g.worker[b]]
    BY <1>1, <1>2, Zenon
  <1>6. \A x \in {"worker", "wait"} \cap AgentFields : g[x] = [b \in Agents |-> g[x][b]]
    BY <1>5 DEF AgentFields
  <1>7. g.parent = h.parent /\ g.intr = h.intr /\ g.joinInterrupted = h.joinInterrupted /\ g.ckpt = h.ckpt /\ g.held = h.held /\ g.after = h.after
    BY <1>1 DEF Only, Fields
  <1>8. MiscInv(g)
    BY <1>1, <1>7 DEF Fine, MiscInv
  <1>9. LeaseInv(g)
    BY <1>1, KeepLeases DEF Fine, LeaseFields
  <1>10. Fine(F, g)
    BY <1>1, <1>4, <1>6, <1>8, <1>9, DropFine
  <1> QED
    BY <1>1, <1>10 DEF g

(* An initialize that failed, before the lease is released. *)
LEMMA EndInitFine ==
  ASSUME NEW F, NEW h, NEW a \in Agents, Fine(F, h), h.chain = <<"initialize", a>>
  PROVE  /\ Fine(F, EndInit(h, a)) /\ Only(h, EndInit(h, a), {"chain", "active"})
         /\ EndInit(h, a).chain = Idle
         /\ EndInit(h, a).active = [h.active EXCEPT ![a] = 0]
  <1> DEFINE g == EndInit(h, a)
  <1>1. /\ Only(h, g, {"chain", "active"})
        /\ g.chain = Idle /\ g.active = [h.active EXCEPT ![a] = 0]
    BY Zenon DEF Fine, Whole, Only, Fields, EndInit
  <1> HIDE DEF g
  <1>2. h.active = [b \in Agents |-> h.active[b]]
    BY DEF Fine, Whole, AgentFields
  <1>3. /\ g.life = h.life /\ g.made = h.made /\ g.cur = h.cur /\ g.gen = h.gen
        /\ g.queue = h.queue /\ g.parked = h.parked /\ g.join = h.join /\ g.done = h.done
        /\ g.worker = h.worker /\ g.quarantined = h.quarantined /\ g.lost = h.lost
        /\ g.pendingSettle = h.pendingSettle
    BY <1>1 DEF Only, Fields
  <1>4. \A b \in Agents : Drops(h, g, b)
    <2> SUFFICES ASSUME NEW b \in Agents
                 PROVE  Drops(h, g, b)
      OBVIOUS
    <2>1. g.active[b] = IF b = a THEN 0 ELSE h.active[b]
      BY <1>1, <1>2
    <2>2. h.chain = <<"initialize", b>> => b = a
      BY <1>1
    <2> QED
      BY <1>1, <1>3, <2>1, <2>2, NotStarting DEF Drops
  <1>5. g.active = [b \in Agents |-> g.active[b]]
    BY <1>1, <1>2
  <1>6. \A x \in {"chain", "active"} \cap AgentFields : g[x] = [b \in Agents |-> g[x][b]]
    BY <1>5 DEF AgentFields
  <1>7. LeaseInv(g) /\ MiscInv(g)
    BY <1>1, KeepLeases, KeepMisc DEF Fine, MiscFields, LeaseFields
  <1>8. Fine(F, g)
    BY <1>1, <1>4, <1>6, <1>7, DropFine
  <1> QED
    BY <1>1, <1>8 DEF g

(* A reload that failed, before the resident is released. *)
LEMMA EndReloadFine ==
  ASSUME NEW F, NEW h, NEW a \in Agents, Fine(F, h), \A b \in Agents : h.chain # <<"initialize", b>>
  PROVE  /\ Fine(F, EndReload(h, a)) /\ Only(h, EndReload(h, a), {"chain", "worker"})
         /\ EndReload(h, a).chain = Idle
         /\ EndReload(h, a).worker = [h.worker EXCEPT ![a] = FALSE]
  <1> DEFINE g == EndReload(h, a)
  <1>1. /\ Only(h, g, {"chain", "worker"})
        /\ g.chain = Idle /\ g.worker = [h.worker EXCEPT ![a] = FALSE]
    BY Zenon DEF Fine, Whole, Only, Fields, EndReload
  <1> HIDE DEF g
  <1>2. h.worker = [b \in Agents |-> h.worker[b]]
    BY DEF Fine, Whole, AgentFields
  <1>3. /\ g.life = h.life /\ g.made = h.made /\ g.cur = h.cur /\ g.gen = h.gen
        /\ g.active = h.active /\ g.queue = h.queue /\ g.parked = h.parked /\ g.join = h.join
        /\ g.done = h.done /\ g.quarantined = h.quarantined /\ g.lost = h.lost
        /\ g.pendingSettle = h.pendingSettle
    BY <1>1 DEF Only, Fields
  <1>4. \A b \in Agents : Drops(h, g, b)
    BY <1>1, <1>2, <1>3, NotStarting, Zenon DEF Drops
  <1>5. g.worker = [b \in Agents |-> g.worker[b]]
    BY <1>1, <1>2, Zenon
  <1>6. \A x \in {"chain", "worker"} \cap AgentFields : g[x] = [b \in Agents |-> g[x][b]]
    BY <1>5 DEF AgentFields
  <1>7. LeaseInv(g) /\ MiscInv(g)
    BY <1>1, KeepLeases, KeepMisc DEF Fine, MiscFields, LeaseFields
  <1>8. Fine(F, g)
    BY <1>1, <1>4, <1>6, <1>7, DropFine
  <1> QED
    BY <1>1, <1>8 DEF g

(* retire stops the worker, the start and the run. *)
LEMMA DownFine ==
  ASSUME NEW F, NEW h, NEW a \in Agents, Fine(F, h), h.chain \notin {<<"startup", a>>, <<"initialize", a>>},
         h.life[a] \in {"open", "closing"}
  PROVE  /\ Fine(F, Down(h, a)) /\ Only(h, Down(h, a), {"life", "worker", "parked", "active"})
         /\ Down(h, a).life = [h.life EXCEPT ![a] = "closing"]
         /\ Down(h, a).worker = [h.worker EXCEPT ![a] = FALSE]
         /\ Down(h, a).parked = [h.parked EXCEPT ![a] = FALSE]
         /\ Down(h, a).active = [h.active EXCEPT ![a] = 0]
  <1> DEFINE g == Down(h, a)
  <1>1. /\ Only(h, g, {"life", "worker", "parked", "active"})
        /\ g.life = [h.life EXCEPT ![a] = "closing"]
        /\ g.worker = [h.worker EXCEPT ![a] = FALSE]
        /\ g.parked = [h.parked EXCEPT ![a] = FALSE] /\ g.active = [h.active EXCEPT ![a] = 0]
    BY Zenon DEF Fine, Whole, Only, Fields, Down
  <1> HIDE DEF g
  <1>2. h.life = [b \in Agents |-> h.life[b]] /\ h.worker = [b \in Agents |-> h.worker[b]] /\ h.parked = [b \in Agents |-> h.parked[b]] /\ h.active = [b \in Agents |-> h.active[b]]
    BY DEF Fine, Whole, AgentFields
  <1>3. /\ g.made = h.made /\ g.cur = h.cur /\ g.gen = h.gen /\ g.queue = h.queue
        /\ g.join = h.join /\ g.done = h.done /\ g.quarantined = h.quarantined
        /\ g.lost = h.lost /\ g.pendingSettle = h.pendingSettle /\ g.chain = h.chain
    BY <1>1 DEF Only, Fields
  <1>4. \A b \in Agents : Drops(h, g, b)
    BY <1>1, <1>2, <1>3, Zenon DEF Drops
  <1>5. g.life = [b \in Agents |-> g.life[b]] /\ g.worker = [b \in Agents |-> g.worker[b]] /\ g.parked = [b \in Agents |-> g.parked[b]] /\ g.active = [b \in Agents |-> g.active[b]]
    BY <1>1, <1>2, Zenon
  <1>6. LeaseInv(g) /\ MiscInv(g)
    BY <1>1, KeepLeases, KeepMisc DEF Fine, MiscFields, LeaseFields
  <1>7. Fine(F, g)
    BY <1>1, <1>4, <1>5, <1>6, DropFine
  <1> QED
    BY <1>1, <1>7 DEF g

(* close marks the subtree. *)
LEMMA CloseAllFine ==
  ASSUME NEW F, NEW h, NEW a \in Agents, NEW D, NEW ws, Fine(F, h), h.chain = Idle
  PROVE  /\ Fine(F, CloseAll(h, a, D, ws)) /\ Only(h, CloseAll(h, a, D, ws), {"chain", "walks", "life"})
         /\ CloseAll(h, a, D, ws).chain = <<"close", a>>
         /\ CloseAll(h, a, D, ws).life = [d \in Agents |-> IF d \in D /\ h.life[d] = "open" THEN "closing" ELSE h.life[d]]
  <1> DEFINE g == CloseAll(h, a, D, ws)
  <1>1. /\ Only(h, g, {"chain", "walks", "life"})
        /\ g.chain = <<"close", a>>
        /\ g.life = [d \in Agents |-> IF d \in D /\ h.life[d] = "open" THEN "closing" ELSE h.life[d]]
    BY Zenon DEF Fine, Whole, Only, Fields, CloseAll
  <1> HIDE DEF g
  <1>2. h.life = [b \in Agents |-> h.life[b]]
    BY DEF Fine, Whole, AgentFields
  <1>3. /\ g.made = h.made /\ g.cur = h.cur /\ g.gen = h.gen /\ g.active = h.active
        /\ g.queue = h.queue /\ g.parked = h.parked /\ g.join = h.join /\ g.done = h.done
        /\ g.worker = h.worker /\ g.quarantined = h.quarantined /\ g.lost = h.lost
        /\ g.pendingSettle = h.pendingSettle
    BY <1>1 DEF Only, Fields
  <1>4. \A b \in Agents : Drops(h, g, b)
    <2> SUFFICES ASSUME NEW b \in Agents
                 PROVE  Drops(h, g, b)
      OBVIOUS
    <2>1. g.chain # <<"startup", b>> /\ g.chain # <<"initialize", b>> /\ h.chain # <<"initialize", b>>
      BY <1>1, NotStarting
    <2> QED
      BY <1>1, <1>2, <1>3, <2>1 DEF Drops
  <1>5. g.life = [b \in Agents |-> g.life[b]]
    BY <1>1, <1>2
  <1>6. \A x \in {"chain", "walks", "life"} \cap AgentFields : g[x] = [b \in Agents |-> g[x][b]]
    BY <1>5 DEF AgentFields
  <1>7. LeaseInv(g) /\ MiscInv(g)
    BY <1>1, KeepLeases, KeepMisc DEF Fine, MiscFields, LeaseFields
  <1>8. Fine(F, g)
    BY <1>1, <1>4, <1>6, <1>7, DropFine
  <1> QED
    BY <1>1, <1>8 DEF g

(* An interrupt takes the chain. *)
LEMMA WalkingFine ==
  ASSUME NEW F, NEW h, NEW ws, Fine(F, h), h.chain = Idle
  PROVE  /\ Fine(F, Walking(h, ws)) /\ Only(h, Walking(h, ws), {"chain", "walks"})
         /\ Walking(h, ws).chain = <<"interrupt", 0>>
  <1> DEFINE g == Walking(h, ws)
  <1>1. Only(h, g, {"chain", "walks"}) /\ g.chain = <<"interrupt", 0>>
    BY Zenon DEF Fine, Whole, Only, Fields, Walking
  <1> HIDE DEF g
  <1>2. /\ g.life = h.life /\ g.made = h.made /\ g.cur = h.cur /\ g.gen = h.gen
        /\ g.active = h.active /\ g.queue = h.queue /\ g.parked = h.parked /\ g.join = h.join
        /\ g.done = h.done /\ g.worker = h.worker /\ g.quarantined = h.quarantined
        /\ g.lost = h.lost /\ g.pendingSettle = h.pendingSettle
    BY <1>1 DEF Only, Fields
  <1>3. \A b \in Agents : Drops(h, g, b)
    <2> SUFFICES ASSUME NEW b \in Agents
                 PROVE  Drops(h, g, b)
      OBVIOUS
    <2>1. g.chain # <<"startup", b>> /\ g.chain # <<"initialize", b>> /\ h.chain # <<"initialize", b>>
      BY <1>1, NotStarting
    <2> QED
      BY <1>1, <1>2, <2>1 DEF Drops
  <1>4. LeaseInv(g) /\ MiscInv(g)
    BY <1>1, KeepLeases, KeepMisc DEF Fine, MiscFields, LeaseFields
  <1>5. Fine(F, g)
    BY <1>1, <1>3, <1>4, DropFine DEF AgentFields
  <1> QED
    BY <1>1, <1>5 DEF g

(* A walk ends, and with it perhaps the section that made it. *)
LEMMA WalkOverFine ==
  ASSUME NEW F, NEW h, NEW ws, NEW c, NEW cs, Fine(F, h),
         c = h.chain \/ (c = Idle /\ h.chain[1] \in {"interrupt", "close"})
  PROVE  /\ Fine(F, WalkOver(h, ws, c, cs)) /\ Only(h, WalkOver(h, ws, c, cs), {"walks", "chain", "closes"})
         /\ WalkOver(h, ws, c, cs).chain = c
  <1> DEFINE g == WalkOver(h, ws, c, cs)
  <1>1. Only(h, g, {"walks", "chain", "closes"}) /\ g.chain = c
    BY Zenon DEF Fine, Whole, Only, Fields, WalkOver
  <1> HIDE DEF g
  <1>2. /\ g.life = h.life /\ g.made = h.made /\ g.cur = h.cur /\ g.gen = h.gen
        /\ g.active = h.active /\ g.queue = h.queue /\ g.parked = h.parked /\ g.join = h.join
        /\ g.done = h.done /\ g.worker = h.worker /\ g.quarantined = h.quarantined
        /\ g.lost = h.lost /\ g.pendingSettle = h.pendingSettle
    BY <1>1 DEF Only, Fields
  <1>3. \A b \in Agents : Drops(h, g, b)
    <2> SUFFICES ASSUME NEW b \in Agents
                 PROVE  Drops(h, g, b)
      OBVIOUS
    <2>1. \/ g.chain = h.chain
          \/ /\ g.chain # <<"startup", b>> /\ g.chain # <<"initialize", b>>
             /\ h.chain # <<"initialize", b>>
      BY <1>1, NotStarting
    <2> QED
      BY <1>1, <1>2, <2>1 DEF Drops
  <1>4. LeaseInv(g) /\ MiscInv(g)
    BY <1>1, KeepLeases, KeepMisc DEF Fine, MiscFields, LeaseFields
  <1>5. Fine(F, g)
    BY <1>1, <1>3, <1>4, DropFine DEF AgentFields
  <1> QED
    BY <1>1, <1>5 DEF g

(* A lost run is reconciled. *)
LEMMA FoundFine ==
  ASSUME NEW F, NEW h, NEW a \in Agents, Fine(F, h)
  PROVE  /\ Fine(F, Found(h, a)) /\ Only(h, Found(h, a), {"lost"})
         /\ Found(h, a).lost = [h.lost EXCEPT ![a] = 0]
  <1> DEFINE g == Found(h, a)
  <1>1. /\ Only(h, g, {"lost"})
        /\ g.lost = [h.lost EXCEPT ![a] = 0]
    BY DEF Fine, Whole, Only, Fields, Found
  <1> HIDE DEF g
  <1>2. h.lost = [b \in Agents |-> h.lost[b]]
    BY DEF Fine, Whole, AgentFields
  <1>3. /\ g.life = h.life /\ g.made = h.made /\ g.cur = h.cur /\ g.gen = h.gen
        /\ g.active = h.active /\ g.queue = h.queue /\ g.parked = h.parked /\ g.join = h.join
        /\ g.done = h.done /\ g.worker = h.worker /\ g.quarantined = h.quarantined
        /\ g.pendingSettle = h.pendingSettle /\ g.chain = h.chain
    BY <1>1 DEF Only, Fields
  <1>4. \A b \in Agents : Drops(h, g, b)
    BY <1>1, <1>2, <1>3 DEF Drops
  <1>5. g.lost = [b \in Agents |-> g.lost[b]]
    BY <1>1, <1>2
  <1>6. LeaseInv(g) /\ MiscInv(g)
    BY <1>1, KeepLeases, KeepMisc DEF Fine, MiscFields, LeaseFields
  <1>7. Fine(F, g)
    BY <1>1, <1>4, <1>5, <1>6, DropFine
  <1> QED
    BY <1>1, <1>7 DEF g

(* A pending settlement is published. *)
LEMMA PublishedFine ==
  ASSUME NEW F, NEW h, NEW a \in Agents, Fine(F, h)
  PROVE  /\ Fine(F, Published(h, a)) /\ Only(h, Published(h, a), {"pendingSettle"})
         /\ Published(h, a).pendingSettle = [h.pendingSettle EXCEPT ![a] = NoJoin]
  <1> DEFINE g == Published(h, a)
  <1>1. /\ Only(h, g, {"pendingSettle"})
        /\ g.pendingSettle = [h.pendingSettle EXCEPT ![a] = NoJoin]
    BY DEF Fine, Whole, Only, Fields, Published
  <1> HIDE DEF g
  <1>2. h.pendingSettle = [b \in Agents |-> h.pendingSettle[b]]
    BY DEF Fine, Whole, AgentFields
  <1>3. /\ g.life = h.life /\ g.made = h.made /\ g.cur = h.cur /\ g.gen = h.gen
        /\ g.active = h.active /\ g.queue = h.queue /\ g.parked = h.parked /\ g.join = h.join
        /\ g.done = h.done /\ g.worker = h.worker /\ g.quarantined = h.quarantined
        /\ g.lost = h.lost /\ g.chain = h.chain
    BY <1>1 DEF Only, Fields
  <1>4. \A b \in Agents : Drops(h, g, b)
    BY <1>1, <1>2, <1>3 DEF Drops
  <1>5. g.pendingSettle = [b \in Agents |-> g.pendingSettle[b]]
    BY <1>1, <1>2
  <1>6. LeaseInv(g) /\ MiscInv(g)
    BY <1>1, KeepLeases, KeepMisc DEF Fine, MiscFields, LeaseFields
  <1>7. Fine(F, g)
    BY <1>1, <1>4, <1>5, <1>6, DropFine
  <1> QED
    BY <1>1, <1>7 DEF g

(* recover ends: dispatch is no longer suspended. *)
LEMMA ResumedFine ==
  ASSUME NEW F, NEW h, Fine(F, h), \A b \in Agents : h.chain # <<"initialize", b>>
  PROVE  /\ Fine(F, Resumed(h)) /\ Only(h, Resumed(h), {"suspended", "chain"})
         /\ Resumed(h).suspended = FALSE
         /\ Resumed(h).chain = Idle
  <1> DEFINE g == Resumed(h)
  <1>1. /\ Only(h, g, {"suspended", "chain"})
        /\ g.suspended = FALSE /\ g.chain = Idle
    BY Zenon DEF Fine, Whole, Only, Fields, Resumed
  <1> HIDE DEF g
  <1>2. /\ g.life = h.life /\ g.made = h.made /\ g.cur = h.cur /\ g.gen = h.gen
        /\ g.active = h.active /\ g.queue = h.queue /\ g.parked = h.parked /\ g.join = h.join
        /\ g.done = h.done /\ g.worker = h.worker /\ g.quarantined = h.quarantined
        /\ g.lost = h.lost /\ g.pendingSettle = h.pendingSettle
    BY <1>1 DEF Only, Fields
  <1>3. \A b \in Agents : Drops(h, g, b)
    BY <1>1, <1>2, NotStarting DEF Drops
  <1>4. LeaseInv(g) /\ MiscInv(g)
    BY <1>1, KeepLeases, KeepMisc DEF Fine, MiscFields, LeaseFields
  <1>5. Fine(F, g)
    BY <1>1, <1>3, <1>4, DropFine DEF AgentFields
  <1> QED
    BY <1>1, <1>5 DEF g

-----------------------------------------------------------------------------
(* What is written about an agent, and what it then holds *)

Adds(J, k, a, n, x) == J \cup {<<k, a, n, x>>}

(* What one more fact about agent a adds. *)
LEMMA NewFact ==
  ASSUME NEW J, NEW a, NEW k, NEW n, NEW x
  PROVE  LET K == Adds(J, k, a, n, x)
         IN  /\ \A kind : Is(K, kind, a) <=> Is(J, kind, a) \/ kind = k
             /\ \A kind, i : Has(K, kind, a, i) <=> Has(J, kind, a, i) \/ (kind = k /\ i = n)
             /\ \A kind, i, y : Val(K, kind, a, i, y) <=> Val(J, kind, a, i, y) \/ (kind = k /\ i = n /\ y = x)
             /\ \A f \in K : f \in J \/ f[1] = k
  <1> DEFINE f == <<k, a, n, x>>
             K == Adds(J, k, a, n, x)
  <1>1. f[1] = k /\ f[2] = a /\ f[3] = n /\ f[4] = x
    OBVIOUS
  <1>2. K = J \cup {f}
    BY DEF Adds
  <1> HIDE DEF f, K
  <1>3. \A kind : Is(K, kind, a) <=> Is(J, kind, a) \/ kind = k
    BY <1>1, <1>2 DEF Is
  <1>4. \A kind, i : Has(K, kind, a, i) <=> Has(J, kind, a, i) \/ (kind = k /\ i = n)
    BY <1>1, <1>2 DEF Has
  <1>5. \A kind, i, y : Val(K, kind, a, i, y) <=> Val(J, kind, a, i, y) \/ (kind = k /\ i = n /\ y = x)
    BY <1>1, <1>2 DEF Val
  <1>6. \A e \in K : e \in J \/ e[1] = k
    BY <1>1, <1>2
  <1> QED
    BY <1>3, <1>4, <1>5, <1>6 DEF K

(* An agent has at most MaxRuns started runs. *)
LEMMA StartedFinite ==
  ASSUME NEW J, NEW a
  PROVE  /\ IsFiniteSet(StartedRuns(J, a)) /\ Cardinality(StartedRuns(J, a)) \in 0 .. MaxRuns
         /\ \A n \in Runs \ StartedRuns(J, a) : Cardinality(StartedRuns(J, a)) < MaxRuns
  <1>1. IsFiniteSet(Runs) /\ Cardinality(Runs) = MaxRuns /\ MaxRuns \in Nat
    BY SubagentsAssumption, FS_Interval DEF Runs
  <1>2. StartedRuns(J, a) \subseteq Runs
    BY DEF StartedRuns
  <1>3. /\ IsFiniteSet(StartedRuns(J, a)) /\ Cardinality(StartedRuns(J, a)) <= Cardinality(Runs)
        /\ (Cardinality(StartedRuns(J, a)) = Cardinality(Runs) => StartedRuns(J, a) = Runs)
    BY <1>1, <1>2, FS_Subset
  <1>4. Cardinality(StartedRuns(J, a)) \in Nat
    BY <1>3, FS_CardinalityType
  <1> QED
    BY <1>1, <1>3, <1>4

(* A start of a run that had none counts one more. *)
LEMMA StartedOneMore ==
  ASSUME NEW J, NEW a, NEW n \in Runs, NEW x
  PROVE  LET K == Adds(J, "started", a, n, x)
         IN  /\ Cardinality(StartedRuns(K, a)) >= Cardinality(StartedRuns(J, a))
             /\ ~Has(J, "started", a, n) => Cardinality(StartedRuns(K, a)) = Cardinality(StartedRuns(J, a)) + 1
  <1> DEFINE K == Adds(J, "started", a, n, x)
  <1>1. \A i : Has(K, "started", a, i) <=> Has(J, "started", a, i) \/ i = n
    BY NewFact
  <1> HIDE DEF K
  <1>2. StartedRuns(K, a) = StartedRuns(J, a) \cup {n}
    BY <1>1 DEF StartedRuns
  <1>3. IsFiniteSet(StartedRuns(J, a)) /\ Cardinality(StartedRuns(J, a)) \in Nat
    BY StartedFinite
  <1>4. CASE n \in StartedRuns(J, a)
    <2>1. Cardinality(StartedRuns(K, a)) = Cardinality(StartedRuns(J, a))
      BY <1>2, <1>4
    <2>2. Has(J, "started", a, n)
      BY <1>4 DEF StartedRuns
    <2> QED
      BY <1>3, <2>1, <2>2 DEF K
  <1>5. CASE n \notin StartedRuns(J, a)
    <2>1. Cardinality(StartedRuns(K, a)) = Cardinality(StartedRuns(J, a)) + 1
      BY <1>2, <1>3, <1>5, FS_AddElement
    <2> QED
      BY <1>3, <2>1 DEF K
  <1> QED
    BY <1>4, <1>5

(* Facts of other kinds leave the generations alone. *)
LEMMA SameGen ==
  ASSUME NEW J, NEW K, NEW a, NEW v, NEW u, GenOK(J, a, v), u.gen = v.gen,
         \A n : Has(K, "started", a, n) <=> Has(J, "started", a, n),
         \A n, g : Val(K, "started", a, n, g) <=> Val(J, "started", a, n, g)
  PROVE  GenOK(K, a, u)
  <1>1. StartedRuns(K, a) = StartedRuns(J, a)
    BY DEF StartedRuns
  <1> QED
    BY <1>1 DEF GenOK

(* The rest of a queue. *)
LEMMA TailIs ==
  ASSUME NEW T, NEW s \in Seq(T), s # <<>>, IsInjective(s)
  PROVE  /\ Tail(s) \in Seq(T) /\ IsInjective(Tail(s)) /\ Range(Tail(s)) = Range(s) \ {Head(s)}
         /\ Head(s) \in Range(s)
  <1>1. /\ Len(s) \in Nat /\ Len(s) >= 1 /\ DOMAIN s = 1 .. Len(s) /\ Head(s) = s[1]
        /\ DOMAIN Tail(s) = 1 .. (Len(s) - 1) /\ Tail(s) \in Seq(T)
        /\ \A i \in 1 .. (Len(s) - 1) : Tail(s)[i] = s[i + 1]
    OBVIOUS
  <1>2. /\ \A i \in 1 .. (Len(s) - 1) : i + 1 \in 1 .. Len(s) /\ i + 1 # 1
        /\ \A i \in 1 .. Len(s) : i # 1 => i - 1 \in 1 .. (Len(s) - 1) /\ (i - 1) + 1 = i
        /\ \A i, j \in 1 .. (Len(s) - 1) : i + 1 = j + 1 => i = j
        /\ 1 \in 1 .. Len(s)
    BY <1>1
  <1>3. \A i, j \in 1 .. Len(s) : s[i] = s[j] => i = j
    BY <1>1 DEF IsInjective
  <1> DEFINE t == Tail(s)
             x == Head(s)
  <1>4. /\ DOMAIN t = 1 .. (Len(s) - 1) /\ \A i \in 1 .. (Len(s) - 1) : t[i] = s[i + 1]
        /\ DOMAIN s = 1 .. Len(s) /\ x = s[1]
    BY <1>1
  <1> HIDE DEF t, x
  <1>5. IsInjective(t)
    BY <1>2, <1>3, <1>4 DEF IsInjective
  <1>6. \A y : y \in Range(t) <=> y \in Range(s) /\ y # x
    <2> TAKE y
    <2>1. ASSUME y \in Range(t) PROVE y \in Range(s) /\ y # x
      <3>1. PICK i \in 1 .. (Len(s) - 1) : y = s[i + 1]
        BY <1>4, <2>1 DEF Range
      <3> QED
        BY <1>2, <1>3, <1>4, <3>1 DEF Range
    <2>2. ASSUME y \in Range(s), y # x PROVE y \in Range(t)
      <3>1. PICK i \in 1 .. Len(s) : y = s[i] /\ i # 1
        BY <1>4, <2>2 DEF Range
      <3>2. i - 1 \in 1 .. (Len(s) - 1) /\ t[i - 1] = y
        BY <1>2, <1>4, <3>1
      <3> QED
        BY <1>4, <3>2 DEF Range
    <2> QED
      BY <2>1, <2>2
  <1>7. Range(t) = Range(s) \ {x} /\ x \in Range(s)
    BY <1>2, <1>4, <1>6, Zenon DEF Range
  <1> QED
    BY <1>1, <1>5, <1>7 DEF t, x

(* Dispatch, as one agent sees it. *)
LEMMA DispatchView ==
  ASSUME NEW J, NEW a, NEW v, NEW u, NEW n, RunOK(J, a, v), v.queue # <<>>, n = Head(v.queue), v.life = "open",
         ~v.quarantined, ~v.parked, v.join = NoJoin, v.lost = 0, v.pending = NoJoin,
         u.life = v.life, u.made = v.made, u.cur = n, u.gen = v.gen + 1, u.active = n, u.queue = Tail(v.queue),
         u.parked = v.parked, u.join = v.join, u.done = v.done, u.worker = v.worker,
         u.quarantined = v.quarantined, u.lost = v.lost, u.pending = v.pending
  PROVE  RunOK(Adds(J, "started", a, n, v.gen + 1), a, u) /\ n \in Runs /\ v.gen + 1 \in Generations
  <1> DEFINE K == Adds(J, "started", a, n, v.gen + 1)
  <1>1. /\ \A kind : Is(K, kind, a) <=> Is(J, kind, a) \/ kind = "started"
        /\ \A kind, i : Has(K, kind, a, i) <=> Has(J, kind, a, i) \/ (kind = "started" /\ i = n)
        /\ \A kind, i, y : Val(K, kind, a, i, y) <=> Val(J, kind, a, i, y) \/ (kind = "started" /\ i = n /\ y = v.gen + 1)
        /\ \A f \in K : f \in J \/ f[1] = "started"
    BY NewFact
  <1>2. ViewType(v) /\ OnePhase(v) /\ LifeOK(J, a, v) /\ RunsOK(J, a, v) /\ QueueOK(J, a, v) /\ GenOK(J, a, v)
    BY DEF RunOK
  <1>3. /\ v.queue \in Seq(Runs) /\ v.gen \in Nat /\ MaxRuns \in Nat /\ v.made \in 0 .. MaxRuns
    BY <1>2, SubagentsAssumption DEF ViewType
  <1>4. /\ Tail(v.queue) \in Seq(Runs) /\ IsInjective(Tail(v.queue)) /\ n \in Range(v.queue)
        /\ Range(Tail(v.queue)) = Range(v.queue) \ {n}
    BY <1>2, <1>3, TailIs DEF QueueOK
  <1>5. n \in Runs /\ n \in Nat /\ n # 0
    <2>1. n \in Runs
      BY <1>3
    <2> QED
      BY <2>1, <1>3 DEF Runs
  <1>6. Has(J, "accepted", a, n) /\ ~Has(J, "started", a, n) /\ ~Has(J, "terminal", a, n)
    BY <1>2, <1>4 DEF QueueOK
  <1>7. n <= v.made /\ ~Has(J, "settled", a, n)
    BY <1>2, <1>5, <1>6 DEF RunsOK, Accepted
  <1>8. /\ Cardinality(StartedRuns(K, a)) = Cardinality(StartedRuns(J, a)) + 1
        /\ Cardinality(StartedRuns(J, a)) \in Nat /\ Cardinality(StartedRuns(J, a)) < MaxRuns
    <2>1. Cardinality(StartedRuns(K, a)) = Cardinality(StartedRuns(J, a)) + 1
      BY <1>5, <1>6, StartedOneMore
    <2>2. n \notin StartedRuns(J, a)
      BY <1>6 DEF StartedRuns
    <2> QED
      BY <1>5, <2>1, <2>2, StartedFinite
  <1> HIDE DEF K
  <1>9. v.gen + 1 \in Generations
    BY <1>2, <1>3, <1>8 DEF GenOK, Generations
  <1>10. ViewType(u)
    BY <1>2, <1>3, <1>4, <1>5, <1>7 DEF ViewType, Runs
  <1>11. OnePhase(u)
    BY <1>2, <1>5 DEF OnePhase
  <1>12. LifeOK(K, a, u)
    BY <1>1, <1>2, <1>3, <1>5, <1>7 DEF LifeOK
  <1>13. RunsOK(K, a, u)
    <2>1. \A i \in Runs : Accepted(K, a, i) <=> Accepted(J, a, i)
      BY <1>1 DEF Accepted
    <2> QED
      BY <1>1, <1>2, <1>5, <1>7, <2>1 DEF RunsOK, Kinds
  <1>14. QueueOK(K, a, u)
    BY <1>1, <1>2, <1>4 DEF QueueOK
  <1>15. GenOK(K, a, u)
    <2>1. \A i \in Runs : \A g \in Generations : Val(K, "started", a, i, g) => g <= u.gen
      BY <1>1, <1>2, <1>3 DEF GenOK, Generations
    <2>2. ASSUME NEW i \in Runs, NEW j \in Runs, NEW g \in Generations,
                 Val(K, "started", a, i, g), Val(K, "started", a, j, g)
          PROVE  i = j
      <3>1. \A e \in Runs : Val(J, "started", a, e, g) => g <= v.gen
        BY <1>2 DEF GenOK
      <3>2. ~(v.gen + 1 <= v.gen)
        BY <1>3
      <3> QED
        BY <1>1, <1>2, <2>2, <3>1, <3>2 DEF GenOK
    <2>3. u.gen <= Cardinality(StartedRuns(K, a)) + 1
      BY <1>2, <1>3, <1>8 DEF GenOK
    <2> QED
      BY <2>1, <2>2, <2>3 DEF GenOK
  <1>16. HeldOK(K, a, u)
    BY <1>1, <1>4, <1>5, <1>6, <1>7 DEF HeldOK
  <1> QED
    BY <1>5, <1>9, <1>10, <1>11, <1>12, <1>13, <1>14, <1>15, <1>16 DEF RunOK, K

(* The facts that the supervisor appends are of their types. *)
LEMMA FactTypes ==
  ASSUME NEW a \in Agents
  PROVE  /\ \A n \in Runs : \A g \in Generations : <<"started", a, n, g>> \in FactType
         /\ \A n \in Runs : \A o \in Outcomes : <<"settled", a, n, o>> \in FactType /\ <<"terminal", a, n, o>> \in FactType
         /\ \A n \in Runs : <<"accepted", a, n>> \in FactType
         /\ \A p \in 0 .. MaxAgents : <<"spawned", a, p>> \in FactType
         /\ <<"closed", a>> \in FactType /\ <<"quarantined", a>> \in FactType
  BY DEF FactType

(* What being fine says of one agent. *)
LEMMA FineView ==
  ASSUME NEW F, NEW h, NEW a \in Agents, Fine(F, h)
  PROVE  RunOK(Of(F \cup Range(h.log), a), a, View(h, a))
  BY Zenon DEF Fine, RunInv

(* A fact about one agent, which is all that changes but for bookkeeping. *)
LEMMA FactFine ==
  ASSUME NEW F, NEW h, NEW g, NEW S, NEW a \in Agents, NEW k, NEW n, NEW x, Fine(F, h), Only(h, g, S),
         S \cap (LeaseFields \cup {"chain", "jobs", "resident"}) = {},
         \A y \in S \cap AgentFields : g[y] = [b \in Agents |-> g[y][b]],
         g.log = Append(h.log, <<k, a, n, x>>), <<k, a, n, x>> \in FactType, k # "spawned",
         MiscInv(g), \A b \in Agents \ {a} : View(g, b) = View(h, b),
         g.life[a] # "absent", h.life[a] # "absent", g.parked[a] = h.parked[a],
         RunOK(Adds(Of(F \cup Range(h.log), a), k, a, n, x), a, View(g, a))
  PROVE  Fine(F, g)
  <1> DEFINE f == <<k, a, n, x>>
             E == F \cup Range(h.log)
  <1>1. f[1] = k /\ f[2] = a
    OBVIOUS
  <1>2. RunOK(Of(E, a) \cup {f}, a, View(g, a)) /\ f \in FactType /\ g.log = Append(h.log, f)
    BY DEF Adds
  <1> HIDE DEF f
  <1>3. RunInv(E, h)
    BY DEF Fine
  <1> HIDE DEF E
  <1>4. RunInv(E \cup {f}, g)
    <2>1. /\ f \in FactType /\ f[2] = a /\ f[1] # "spawned" /\ RunInv(E, h)
          /\ \A b \in Agents \ {a} : View(g, b) = View(h, b)
          /\ RunOK(Of(E, a) \cup {f}, a, View(g, a)) /\ h.life[a] # "absent" /\ g.life[a] # "absent"
      BY <1>1, <1>2, <1>3
    <2> QED
      BY ONLY <2>1, a \in Agents, OneFact
  <1>5. Whole(g) /\ ResidentsOK(g) /\ LeaseInv(g)
    BY KeepWhole, KeepResidents, KeepLeases DEF Fine
  <1>6. g.jobs = h.jobs
    BY DEF Only, Fields
  <1>7. \A b \in Agents \ {a} : g.life[b] = h.life[b] /\ g.parked[b] = h.parked[b]
    BY ViewFields
  <1>8. JobsOK(g)
    BY <1>6, <1>7 DEF Fine, JobsOK
  <1> QED
    BY <1>2, <1>4, <1>5, <1>8, FineAfterFact DEF E

(* Dispatch starts the first run of the queue in the next generation. *)
LEMMA DispatchFine ==
  ASSUME NEW F, NEW h, NEW a \in Agents, Fine(F, h), h.queue[a] # <<>>, h.life[a] = "open", ~h.quarantined[a],
         ~h.parked[a], h.join[a] = NoJoin, h.lost[a] = 0, h.pendingSettle[a] = NoJoin
  PROVE  /\ Fine(F, Dispatch(h, a))
         /\ Only(h, Dispatch(h, a), {"queue", "cur", "active", "intr", "gen", "after", "log"})
         /\ \A b \in Agents \ {a} : View(Dispatch(h, a), b) = View(h, b)
  <1> DEFINE g == Dispatch(h, a)
             n == Head(h.queue[a])
             x == h.gen[a] + 1
  <1>1. /\ Only(h, g, {"queue", "cur", "active", "intr", "gen", "after", "log"})
        /\ g.queue = [h.queue EXCEPT ![a] = Tail(h.queue[a])] /\ g.cur = [h.cur EXCEPT ![a] = n]
        /\ g.active = [h.active EXCEPT ![a] = n] /\ g.intr = [h.intr EXCEPT ![a] = FALSE]
        /\ g.gen = [h.gen EXCEPT ![a] = x] /\ g.after = [h.after EXCEPT ![a] = Len(h.jobs)]
        /\ g.log = Append(h.log, <<"started", a, n, x>>)
    BY Zenon DEF Fine, Whole, Only, Fields, Dispatch, Append1
  <1> HIDE DEF g
  <1>2. /\ h.queue = [b \in Agents |-> h.queue[b]] /\ h.cur = [b \in Agents |-> h.cur[b]]
        /\ h.active = [b \in Agents |-> h.active[b]] /\ h.gen = [b \in Agents |-> h.gen[b]]
    BY DEF Fine, Whole, AgentFields
  <1>3. /\ g.life = h.life /\ g.made = h.made /\ g.parked = h.parked /\ g.join = h.join /\ g.done = h.done
        /\ g.worker = h.worker /\ g.quarantined = h.quarantined /\ g.lost = h.lost
        /\ g.pendingSettle = h.pendingSettle /\ g.chain = h.chain
        /\ g.parent = h.parent /\ g.joinInterrupted = h.joinInterrupted /\ g.ckpt = h.ckpt /\ g.held = h.held
        /\ g.wait = h.wait
    BY <1>1 DEF Only, Fields
  <1>4. /\ g.queue = [b \in Agents |-> g.queue[b]] /\ g.cur = [b \in Agents |-> g.cur[b]]
        /\ g.active = [b \in Agents |-> g.active[b]] /\ g.gen = [b \in Agents |-> g.gen[b]]
        /\ g.queue[a] = Tail(h.queue[a]) /\ g.cur[a] = n /\ g.active[a] = n /\ g.gen[a] = x
    BY <1>1, <1>2, Zenon
  <1>5. \A b \in Agents \ {a} : g.queue[b] = h.queue[b] /\ g.cur[b] = h.cur[b] /\ g.active[b] = h.active[b]
                                /\ g.gen[b] = h.gen[b]
    BY <1>1, <1>2
  <1>6. \A b \in Agents \ {a} : View(g, b) = View(h, b)
    BY <1>3, <1>5 DEF View
  <1>7. \A y \in {"queue", "cur", "active", "intr", "gen", "after", "log"} \cap AgentFields :
          g[y] = [b \in Agents |-> g[y][b]]
    BY <1>4 DEF AgentFields
  <1>8. MiscInv(g)
    <2>1. Len(h.jobs) \in Nat
      BY DEF Fine, JobsOK
    <2> QED
      BY <1>1, <1>3, <2>1 DEF Fine, MiscInv
  <1> DEFINE J == Of(F \cup Range(h.log), a)
             v == View(h, a)
             u == View(g, a)
  <1>9. /\ v.life = h.life[a] /\ v.gen = h.gen[a] /\ v.queue = h.queue[a] /\ v.quarantined = h.quarantined[a]
        /\ v.parked = h.parked[a] /\ v.join = h.join[a] /\ v.lost = h.lost[a] /\ v.pending = h.pendingSettle[a]
    BY ViewFields
  <1>10. /\ u.life = v.life /\ u.made = v.made /\ u.cur = n /\ u.gen = x /\ u.active = n
         /\ u.queue = Tail(h.queue[a]) /\ u.parked = v.parked /\ u.join = v.join /\ u.done = v.done
         /\ u.worker = v.worker /\ u.quarantined = v.quarantined /\ u.lost = v.lost /\ u.pending = v.pending
    BY <1>3, <1>4, ViewFields
  <1>11. RunOK(J, a, v)
    BY FineView
  <1> HIDE DEF J, u, v
  <1>12. RunOK(Adds(J, "started", a, n, x), a, u) /\ n \in Runs /\ x \in Generations
    BY <1>9, <1>10, <1>11, DispatchView
  <1>13. <<"started", a, n, x>> \in FactType
    BY <1>12, FactTypes, Zenon
  <1> HIDE DEF n, x
  <1>14. {"queue", "cur", "active", "intr", "gen", "after", "log"} \cap (LeaseFields \cup {"chain", "jobs", "resident"}) = {}
    BY DEF LeaseFields
  <1>15. Fine(F, g)
    BY <1>1, <1>3, <1>6, <1>7, <1>8, <1>12, <1>13, <1>14, FactFine, Zenon DEF J, u
  <1> QED
    BY <1>1, <1>6, <1>15 DEF g

-----------------------------------------------------------------------------
(* Pumping *)

StillFields ==
  {"parent", "life", "made", "parked", "join", "joinInterrupted", "done", "worker", "ckpt", "held", "quarantined",
   "lost", "pendingSettle", "closes", "chain", "suspended"}

(* pumpQueue dispatches nothing to such an agent. *)
Unable(h, b) ==
  h.life[b] # "open" \/ h.quarantined[b] \/ ~h.worker[b] \/ h.suspended \/ h.parked[b] \/ h.lost[b] # 0

(* A pump dispatches to agents that are able to run, and no more. *)
Pumped(h, g) ==
  /\ Same(h, g, StillFields)
  /\ \A b \in Agents : Unable(h, b) => g.active[b] = h.active[b] /\ g.cur[b] = h.cur[b] /\ g.queue[b] = h.queue[b]
  /\ \A b \in Agents : g.resident[b] => h.resident[b]

(* The fields that the pump leaves alone. *)
LEMMA StillIs ==
  ASSUME NEW h, NEW g, Same(h, g, StillFields)
  PROVE  /\ g.parent = h.parent /\ g.life = h.life /\ g.made = h.made /\ g.parked = h.parked /\ g.join = h.join
         /\ g.joinInterrupted = h.joinInterrupted /\ g.done = h.done /\ g.worker = h.worker /\ g.ckpt = h.ckpt
         /\ g.held = h.held /\ g.quarantined = h.quarantined /\ g.lost = h.lost
         /\ g.pendingSettle = h.pendingSettle /\ g.closes = h.closes /\ g.chain = h.chain
         /\ g.suspended = h.suspended
  BY DEF Same, StillFields

(* Pumped is reflexive. *)
LEMMA PumpedSelf == \A h : Pumped(h, h)
  BY DEF Pumped, Same

(* Pumped is transitive. *)
LEMMA PumpedTrans ==
  ASSUME NEW h, NEW g, NEW k, Pumped(h, g), Pumped(g, k)
  PROVE  Pumped(h, k)
  <1>1. Same(h, k, StillFields)
    BY DEF Pumped, Same
  <1>2. \A b : Unable(g, b) <=> Unable(h, b)
    BY StillIs DEF Pumped, Unable
  <1> QED
    BY <1>1, <1>2 DEF Pumped

(* A change of other fields is no dispatch. *)
LEMMA OnlyPumped ==
  ASSUME NEW h, NEW g, NEW S, Only(h, g, S), S \cap (StillFields \cup {"active", "cur", "queue", "resident"}) = {}
  PROVE  Pumped(h, g)
  <1>1. g.active = h.active /\ g.cur = h.cur /\ g.queue = h.queue /\ g.resident = h.resident
    BY DEF Only, Fields
  <1>2. StillFields \subseteq Fields \ S
    BY DEF Fields, StillFields
  <1>3. Same(h, g, StillFields)
    BY <1>2 DEF Only, Same
  <1> QED
    BY <1>1, <1>3 DEF Pumped

(* What a dispatch changes. *)
LEMMA DispatchPumped ==
  ASSUME NEW F, NEW h, NEW a \in Agents, Fine(F, h), h.queue[a] # <<>>, ~Unable(h, a), h.join[a] = NoJoin,
         h.pendingSettle[a] = NoJoin
  PROVE  Fine(F, Dispatch(h, a)) /\ Pumped(h, Dispatch(h, a))
  <1>1. h.life[a] = "open" /\ ~h.quarantined[a] /\ ~h.parked[a] /\ h.lost[a] = 0
    BY DEF Unable
  <1> DEFINE g == Dispatch(h, a)
             S == {"queue", "cur", "active", "intr", "gen", "after", "log"}
  <1>2. Fine(F, g) /\ Only(h, g, S) /\ \A b \in Agents \ {a} : View(g, b) = View(h, b)
    BY <1>1, DispatchFine, Zenon
  <1> HIDE DEF g
  <1>3. g.resident = h.resident
    BY <1>2 DEF Only, Fields
  <1>4. StillFields \subseteq Fields \ S
    BY DEF Fields, StillFields
  <1>5. Same(h, g, StillFields)
    BY <1>2, <1>4 DEF Only, Same
  <1>6. \A b \in Agents \ {a} : g.active[b] = h.active[b] /\ g.cur[b] = h.cur[b] /\ g.queue[b] = h.queue[b]
    BY <1>2, ViewFields
  <1>7. Pumped(h, g)
    BY <1>3, <1>5, <1>6 DEF Pumped
  <1> QED
    BY <1>2, <1>7 DEF g

(* What an acquired lease changes. *)
LEMMA AcquirePumped ==
  ASSUME NEW F, NEW h, NEW a \in Agents, Fine(F, h), HasRunnableCapacity(h)
  PROVE  /\ Fine(F, Acquire(h, a)) /\ Pumped(h, Acquire(h, a)) /\ Acquire(h, a).queue = h.queue
         /\ \A b : Unable(Acquire(h, a), b) <=> Unable(h, b)
  <1>1. Fine(F, Acquire(h, a)) /\ Only(h, Acquire(h, a), {"lease", "leases"})
    BY AcquireFine
  <1> DEFINE g == Acquire(h, a)
  <1> HIDE DEF g
  <1>2. {"lease", "leases"} \cap (StillFields \cup {"active", "cur", "queue", "resident"}) = {}
    BY DEF StillFields
  <1>3. Pumped(h, g)
    BY <1>1, <1>2, OnlyPumped DEF g
  <1>4. g.queue = h.queue
    BY <1>1 DEF Only, Fields, g
  <1>5. \A b : Unable(g, b) <=> Unable(h, b)
    BY <1>3, StillIs DEF Pumped, Unable
  <1> QED
    BY <1>1, <1>3, <1>4, <1>5 DEF g

(* What a detached job changes. *)
LEMMA DetachPumped ==
  ASSUME NEW F, NEW h, NEW job \in JobType, Fine(F, h),
         job[1] = "load" => h.life[job[2]] # "absent" /\ ~h.parked[job[2]]
  PROVE  Fine(F, Detach(h, job)) /\ Pumped(h, Detach(h, job))
  <1>1. Fine(F, Detach(h, job)) /\ Only(h, Detach(h, job), {"jobs"})
    BY DetachFine
  <1>2. {"jobs"} \cap (StillFields \cup {"active", "cur", "queue", "resident"}) = {}
    BY DEF StillFields
  <1> QED
    BY <1>1, <1>2, OnlyPumped

(* pumpQueue keeps a heap fine. *)
LEMMA PumpQueueFine ==
  ASSUME NEW F, NEW h, NEW a \in Agents, Fine(F, h)
  PROVE  Fine(F, PumpQueue(h, a)) /\ Pumped(h, PumpQueue(h, a))
  <1> DEFINE Stays == \/ h.active[a] # 0 \/ h.held[a] \/ h.life[a] # "open" \/ h.quarantined[a] \/ PhaseLocked(h, a)
                      \/ h.suspended \/ h.lost[a] # 0 \/ h.parked[a] \/ h.queue[a] = <<>>
  <1>1. CASE Stays
    <2>1. PumpQueue(h, a) = h
      BY <1>1 DEF PumpQueue
    <2> QED
      BY <2>1, PumpedSelf
  <1>2. CASE ~Stays /\ ~h.worker[a]
    <2>1. PumpQueue(h, a) = Detach(h, <<"load", a>>)
      BY <1>2 DEF PumpQueue
    <2>2. h.life[a] = "open" /\ ~h.parked[a]
      BY <1>2
    <2> DEFINE job == <<"load", a>>
    <2>3. job \in JobType /\ job[2] = a
      BY DEF JobType
    <2> HIDE DEF job
    <2>4. Fine(F, Detach(h, job)) /\ Pumped(h, Detach(h, job))
      BY <2>2, <2>3, DetachPumped
    <2> QED
      BY <2>1, <2>4 DEF job
  <1>3. CASE ~Stays /\ h.worker[a] /\ h.lease[a] # 0
    <2>1. PumpQueue(h, a) = Dispatch(h, a)
      BY <1>3 DEF PumpQueue
    <2>2. h.queue[a] # <<>> /\ ~Unable(h, a) /\ h.join[a] = NoJoin /\ h.pendingSettle[a] = NoJoin
      BY <1>3 DEF Unable, PhaseLocked
    <2> QED
      BY <2>1, <2>2, DispatchPumped
  <1>4. CASE ~Stays /\ h.worker[a] /\ ~(h.lease[a] # 0) /\ HasRunnableCapacity(h)
    <2>1. PumpQueue(h, a) = Dispatch(Acquire(h, a), a)
      BY <1>4 DEF PumpQueue
    <2>2. h.queue[a] # <<>> /\ ~Unable(h, a) /\ h.join[a] = NoJoin /\ h.pendingSettle[a] = NoJoin
      BY <1>4 DEF Unable, PhaseLocked
    <2> DEFINE g == Acquire(h, a)
    <2>3. Fine(F, g) /\ Pumped(h, g) /\ g.queue = h.queue /\ (Unable(g, a) <=> Unable(h, a))
      BY <1>4, AcquirePumped, Zenon
    <2> HIDE DEF g
    <2>4. g.join = h.join /\ g.pendingSettle = h.pendingSettle
      BY <2>3, StillIs DEF Pumped
    <2>5. Fine(F, Dispatch(g, a)) /\ Pumped(g, Dispatch(g, a))
      BY <2>2, <2>3, <2>4, DispatchPumped
    <2>6. Pumped(h, Dispatch(g, a))
      BY <2>3, <2>5, PumpedTrans
    <2> QED
      BY <2>1, <2>5, <2>6 DEF g
  <1>5. CASE ~Stays /\ h.worker[a] /\ ~(h.lease[a] # 0) /\ ~HasRunnableCapacity(h)
    <2>1. PumpQueue(h, a) = h
      BY <1>5 DEF PumpQueue
    <2> QED
      BY <2>1, PumpedSelf
  <1> QED
    BY <1>1, <1>2, <1>3, <1>4, <1>5

(* pumpRunnable at one agent keeps a heap fine. *)
LEMMA PumpAgentFine ==
  ASSUME NEW F, NEW h, NEW a \in Agents, Fine(F, h)
  PROVE  Fine(F, PumpAgent(h, a)) /\ Pumped(h, PumpAgent(h, a))
  <1> DEFINE Stays == ~HasRunnableCapacity(h) \/ h.life[a] # "open" \/ h.quarantined[a]
             Launch == h.parked[a] /\ h.active[a] = 0 /\ ~h.worker[a] /\ h.lease[a] = 0
  <1>1. CASE Stays
    <2>1. PumpAgent(h, a) = h
      BY <1>1 DEF PumpAgent
    <2> QED
      BY <2>1, PumpedSelf
  <1>2. CASE ~Stays /\ Launch
    <2>1. PumpAgent(h, a) = Detach(Acquire(h, a), <<"start", a>>)
      BY <1>2 DEF PumpAgent
    <2> DEFINE g == Acquire(h, a)
               job == <<"start", a>>
    <2>2. Fine(F, g) /\ Pumped(h, g)
      BY <1>2, AcquirePumped
    <2>3. job \in JobType /\ job[1] # "load"
      BY DEF JobType
    <2> HIDE DEF g, job
    <2>4. Fine(F, Detach(g, job)) /\ Pumped(g, Detach(g, job))
      BY <2>2, <2>3, DetachPumped
    <2>5. Pumped(h, Detach(g, job))
      BY <2>2, <2>4, PumpedTrans
    <2> QED
      BY <2>1, <2>4, <2>5 DEF g, job
  <1>3. CASE ~Stays /\ ~Launch
    <2>1. PumpAgent(h, a) = PumpQueue(h, a)
      BY <1>3 DEF PumpAgent
    <2> QED
      BY <2>1, PumpQueueFine
  <1> QED
    BY <1>1, <1>2, <1>3

PumpIn(set, h, k) == IF k \in set THEN PumpAgent(h, k) ELSE h
PumpGood(d, h, k) == Fine(d[1], h) /\ Pumped(d[2], h)
PumpFold == INSTANCE Folding WITH Op <- PumpIn, Good <- PumpGood

(* The scan of all agents keeps a heap fine. *)
LEMMA PumpRunnableFine ==
  ASSUME NEW F, NEW h, Fine(F, h)
  PROVE  Fine(F, PumpRunnable(h)) /\ Pumped(h, PumpRunnable(h))
  <1>1. CASE h.suspended
    <2>1. PumpRunnable(h) = h
      BY <1>1 DEF PumpRunnable
    <2> QED
      BY <2>1, PumpedSelf
  <1>2. CASE ~h.suspended
    <2>1. PumpRunnable(h) = ForEach(h, Agents, PumpAgent)
      BY <1>2 DEF PumpRunnable
    <2>2. ForEach(h, Agents, PumpAgent) = PumpFold!Fold(Agents, h, MaxAgents)
      BY Zenon DEF ForEach, PumpFold!Fold, PumpIn
    <2> DEFINE d == <<F, h>>
    <2>3. PumpGood(d, h, 0)
      BY PumpedSelf DEF PumpGood
    <2>4. \A g, k : k \in 1 .. MaxAgents /\ PumpGood(d, g, k - 1) => PumpGood(d, PumpIn(Agents, g, k), k)
      <3> SUFFICES ASSUME NEW g, NEW k \in 1 .. MaxAgents, PumpGood(d, g, k - 1)
                   PROVE  PumpGood(d, PumpIn(Agents, g, k), k)
        OBVIOUS
      <3>1. PumpIn(Agents, g, k) = PumpAgent(g, k) /\ k \in Agents
        BY DEF PumpIn, Agents
      <3>2. Fine(F, g) /\ Pumped(h, g)
        BY DEF PumpGood
      <3>3. Fine(F, PumpAgent(g, k)) /\ Pumped(g, PumpAgent(g, k))
        BY <3>1, <3>2, PumpAgentFine
      <3>4. Pumped(h, PumpAgent(g, k))
        BY <3>2, <3>3, PumpedTrans
      <3> QED
        BY <3>1, <3>3, <3>4 DEF PumpGood
    <2>5. MaxAgents \in Nat
      BY SubagentsAssumption
    <2>6. PumpGood(d, PumpFold!Fold(Agents, h, MaxAgents), MaxAgents)
      <3> HIDE DEF d
      <3> QED
        BY <2>3, <2>4, <2>5, PumpFold!FoldKeeps
    <2> QED
      BY <2>1, <2>2, <2>6 DEF PumpGood
  <1> QED
    BY <1>1, <1>2

-----------------------------------------------------------------------------
(* Releasing leases and residents *)

DropLease(h, a) == [h EXCEPT !.lease[a] = 0]

(* An agent gives up its ticket. *)
LEMMA DropLeaseFine ==
  ASSUME NEW F, NEW h, NEW a \in Agents, Fine(F, h)
  PROVE  /\ Fine(F, DropLease(h, a)) /\ Only(h, DropLease(h, a), {"lease"})
         /\ h.lease[a] # 0 => \A b \in Agents : /\ DropLease(h, a).lease[b] # h.lease[a]
                                                /\ DropLease(h, a).grant[b] # h.lease[a]
  <1> DEFINE g == DropLease(h, a)
  <1>1. Only(h, g, {"lease"}) /\ g.lease = [h.lease EXCEPT ![a] = 0]
    BY DEF Fine, Whole, Only, Fields, DropLease
  <1> HIDE DEF g
  <1>2. g.grant = h.grant /\ g.waiters = h.waiters /\ g.leases = h.leases
    BY <1>1 DEF Only, Fields
  <1>3. LeaseInv(h) /\ maxRunnable \in Nat
    BY SubagentsAssumption DEF Fine
  <1>4. LeaseInv(g)
    BY <1>1, <1>2, <1>3 DEF LeaseInv
  <1>5. MiscInv(g) /\ JobsOK(g) /\ ResidentsOK(g)
    BY <1>1, KeepMisc, KeepJobs, KeepResidents DEF Fine, MiscFields, JobFields
  <1>6. {"lease"} \cap RunFields = {}
    BY DEF RunFields, AgentFields
  <1>7. Fine(F, g)
    BY <1>1, <1>4, <1>5, <1>6, QuietChange
  <1>8. h.lease[a] # 0 => \A b \in Agents : g.lease[b] # h.lease[a] /\ g.grant[b] # h.lease[a]
    BY <1>1, <1>2, <1>3 DEF LeaseInv
  <1> QED
    BY <1>1, <1>7, <1>8 DEF g

(* A released ticket pumps the others. *)
LEMMA ReleaseTicketFine ==
  ASSUME NEW F, NEW h, NEW l, Fine(F, h), l # 0 => \A b \in Agents : h.lease[b] # l /\ h.grant[b] # l
  PROVE  Fine(F, ReleaseTicket(h, l)) /\ Pumped(h, ReleaseTicket(h, l))
  <1>1. CASE l = 0
    <2>1. ReleaseTicket(h, l) = h
      BY <1>1 DEF ReleaseTicket
    <2> QED
      BY <2>1, PumpedSelf
  <1>2. CASE l # 0
    <2> DEFINE g == ReleaseLease(h, l)
    <2>1. Fine(F, g) /\ Only(h, g, {"leases", "waiters", "wait", "grant"})
      BY <1>2, ReleaseLeaseFine
    <2> HIDE DEF g
    <2>2. {"leases", "waiters", "wait", "grant"} \cap (StillFields \cup {"active", "cur", "queue", "resident"}) = {}
      BY DEF StillFields
    <2>3. Pumped(h, g)
      BY <2>1, <2>2, OnlyPumped
    <2>4. Fine(F, PumpRunnable(g)) /\ Pumped(g, PumpRunnable(g))
      BY <2>1, PumpRunnableFine
    <2>5. Pumped(h, PumpRunnable(g))
      BY <2>3, <2>4, PumpedTrans
    <2>6. ReleaseTicket(h, l) = PumpRunnable(g)
      BY <1>2 DEF ReleaseTicket, g
    <2> QED
      BY <2>4, <2>5, <2>6
  <1> QED
    BY <1>1, <1>2

(* releaseRunnable keeps a heap fine. *)
LEMMA ReleaseRunnableFine ==
  ASSUME NEW F, NEW h, NEW a \in Agents, Fine(F, h)
  PROVE  Fine(F, ReleaseRunnable(h, a)) /\ Pumped(h, ReleaseRunnable(h, a))
  <1> DEFINE g == DropLease(h, a)
             l == h.lease[a]
  <1>1. /\ Fine(F, g) /\ Only(h, g, {"lease"})
        /\ l # 0 => \A b \in Agents : g.lease[b] # l /\ g.grant[b] # l
    BY DropLeaseFine, Zenon
  <1>2. ReleaseRunnable(h, a) = ReleaseTicket(g, l)
    BY DEF ReleaseRunnable, DropLease
  <1> HIDE DEF g, l
  <1>3. {"lease"} \cap (StillFields \cup {"active", "cur", "queue", "resident"}) = {}
    BY DEF StillFields
  <1>4. Pumped(h, g)
    BY <1>1, <1>3, OnlyPumped
  <1>5. Fine(F, ReleaseTicket(g, l)) /\ Pumped(g, ReleaseTicket(g, l))
    BY <1>1, ReleaseTicketFine
  <1> QED
    BY <1>2, <1>4, <1>5, PumpedTrans

(* Residents are finitely many. *)
LEMMA ResidentsFinite ==
  ASSUME NEW h
  PROVE  IsFiniteSet(Residents(h)) /\ Cardinality(Residents(h)) \in Nat
  <1>1. IsFiniteSet(Agents)
    BY SubagentsAssumption, FS_Interval DEF Agents
  <1>2. IsFiniteSet(Residents(h))
    BY <1>1, FS_Subset DEF Residents
  <1> QED
    BY <1>2, FS_CardinalityType

(* Fewer residents are within the limit. *)
LEMMA FewerResidents ==
  ASSUME NEW h, NEW g, \A b \in Agents : g.resident[b] => h.resident[b]
  PROVE  /\ Cardinality(Residents(g)) <= Cardinality(Residents(h))
         /\ \A a \in Residents(h) \ Residents(g) : Cardinality(Residents(g)) < Cardinality(Residents(h))
  <1>1. Residents(g) \subseteq Residents(h)
    BY DEF Residents
  <1>2. /\ Cardinality(Residents(g)) <= Cardinality(Residents(h))
        /\ (Cardinality(Residents(g)) = Cardinality(Residents(h)) => Residents(g) = Residents(h))
    BY <1>1, ResidentsFinite, FS_Subset
  <1>3. Cardinality(Residents(g)) \in Nat /\ Cardinality(Residents(h)) \in Nat
    BY ResidentsFinite
  <1> QED
    BY <1>2, <1>3

DropResident(h, a) == [h EXCEPT !.resident[a] = FALSE]

(* An agent is no longer resident. *)
LEMMA DropResidentFine ==
  ASSUME NEW F, NEW h, NEW a \in Agents, Fine(F, h)
  PROVE  Fine(F, DropResident(h, a)) /\ Pumped(h, DropResident(h, a)) /\ ~DropResident(h, a).resident[a]
  <1> DEFINE g == DropResident(h, a)
  <1>1. Only(h, g, {"resident"}) /\ g.resident = [h.resident EXCEPT ![a] = FALSE]
    BY DEF Fine, Whole, Only, Fields, DropResident
  <1> HIDE DEF g
  <1>2. ResidentsOK(h) /\ maxResidentWorkers \in Nat
    BY SubagentsAssumption DEF Fine
  <1>3. \A b \in Agents : g.resident[b] => h.resident[b]
    BY <1>1, <1>2 DEF ResidentsOK
  <1>4. Cardinality(Residents(g)) <= Cardinality(Residents(h))
    BY <1>3, FewerResidents
  <1>5. Cardinality(Residents(g)) \in Nat /\ Cardinality(Residents(h)) \in Nat
    BY ResidentsFinite
  <1>6. g.resident \in [Agents -> BOOLEAN] /\ ~g.resident[a]
    BY <1>1, <1>2 DEF ResidentsOK
  <1>7. ResidentsOK(g)
    BY <1>2, <1>4, <1>5, <1>6 DEF ResidentsOK
  <1>8. LeaseInv(g) /\ MiscInv(g) /\ JobsOK(g)
    BY <1>1, KeepLeases, KeepMisc, KeepJobs DEF Fine, LeaseFields, MiscFields, JobFields
  <1>9. {"resident"} \cap RunFields = {}
    BY DEF RunFields, AgentFields
  <1>10. Fine(F, g)
    BY <1>1, <1>7, <1>8, <1>9, QuietChange
  <1>11. g.active = h.active /\ g.cur = h.cur /\ g.queue = h.queue
    BY <1>1 DEF Only, Fields
  <1>12. StillFields \subseteq Fields \ {"resident"}
    BY DEF Fields, StillFields
  <1>13. Pumped(h, g)
    BY <1>1, <1>3, <1>11, <1>12 DEF Only, Same, Pumped
  <1> QED
    BY <1>6, <1>10, <1>13 DEF g

(* releaseResident keeps a heap fine. *)
LEMMA ReleaseResidentFine ==
  ASSUME NEW F, NEW h, NEW a \in Agents, Fine(F, h)
  PROVE  Fine(F, ReleaseResident(h, a)) /\ Pumped(h, ReleaseResident(h, a)) /\ ~ReleaseResident(h, a).resident[a]
  <1>1. CASE ~h.resident[a]
    <2>1. ReleaseResident(h, a) = h
      BY <1>1 DEF ReleaseResident
    <2> QED
      BY <1>1, <2>1, PumpedSelf
  <1>2. CASE h.resident[a]
    <2> DEFINE g == DropResident(h, a)
    <2>1. Fine(F, g) /\ Pumped(h, g) /\ ~g.resident[a]
      BY DropResidentFine
    <2>2. ReleaseResident(h, a) = PumpRunnable(g)
      BY <1>2 DEF ReleaseResident, DropResident
    <2> HIDE DEF g
    <2>3. Fine(F, PumpRunnable(g)) /\ Pumped(g, PumpRunnable(g))
      BY <2>1, PumpRunnableFine
    <2>4. ~PumpRunnable(g).resident[a]
      BY <2>1, <2>3 DEF Pumped
    <2> QED
      BY <2>1, <2>2, <2>3, <2>4, PumpedTrans
  <1> QED
    BY <1>1, <1>2

(* A worker may be unloaded to make room; nothing else about the agents changes. *)
Loosened(h, g) ==
  /\ Same(h, g, StillFields \ {"worker"})
  /\ \A b \in Agents : (g.worker[b] => h.worker[b]) /\ (g.resident[b] => h.resident[b])

(* Eviction keeps a heap fine, and the agent is no longer resident. *)
LEMMA UnloadFine ==
  ASSUME NEW F, NEW h, NEW a \in Agents, Fine(F, h)
  PROVE  Fine(F, Unload(h, a)) /\ Loosened(h, Unload(h, a)) /\ ~Unload(h, a).resident[a]
  <1> DEFINE g1 == StopWorker(h, a)
             g2 == ReleaseRunnable(g1, a)
             g3 == ReleaseResident(g2, a)
  <1>1. Unload(h, a) = g3
    BY DEF Unload, StopWorker
  <1>2. Fine(F, g1) /\ Only(h, g1, {"worker"}) /\ g1.worker = [h.worker EXCEPT ![a] = FALSE]
    BY StopWorkerFine
  <1> HIDE DEF g1
  <1>3. Fine(F, g2) /\ Pumped(g1, g2)
    BY <1>2, ReleaseRunnableFine
  <1> HIDE DEF g2
  <1>4. Fine(F, g3) /\ Pumped(g2, g3) /\ ~g3.resident[a]
    BY <1>3, ReleaseResidentFine
  <1> HIDE DEF g3
  <1>5. Pumped(g1, g3)
    BY <1>3, <1>4, PumpedTrans
  <1>6. h.worker = [b \in Agents |-> h.worker[b]]
    BY DEF Fine, Whole, AgentFields
  <1>7. \A b \in Agents : g1.worker[b] => h.worker[b]
    BY <1>2, <1>6
  <1>8. g1.resident = h.resident
    BY <1>2 DEF Only, Fields
  <1>9. \A x \in StillFields \ {"worker"} : g1[x] = h[x]
    BY <1>2 DEF Only, Fields, StillFields
  <1>10. \A x \in StillFields : g3[x] = g1[x]
    BY <1>5 DEF Pumped, Same
  <1>11. g3.worker = g1.worker
    BY <1>5, StillIs DEF Pumped
  <1>12. Loosened(h, g3)
    BY <1>5, <1>7, <1>8, <1>9, <1>10, <1>11 DEF Loosened, Same, Pumped
  <1> QED
    BY <1>1, <1>4, <1>12

(* A set of naturals has a least element. *)
LEMMA LeastOf ==
  ASSUME NEW T \in SUBSET Nat, T # {}
  PROVE  \E n \in T : \A k \in T : n <= k
  BY PumpFold!Least

(* evictOneIdle picks an idle resident. *)
LEMMA VictimIs ==
  ASSUME NEW h, Evictable(h) # {}
  PROVE  Victim(h) \in Agents /\ h.resident[Victim(h)] /\ h.worker[Victim(h)]
  <1> DEFINE settled == {a \in Evictable(h) : h.join[a] = NoJoin}
             from == IF settled # {} THEN settled ELSE Evictable(h)
  <1>1. from # {} /\ from \subseteq Evictable(h)
    OBVIOUS
  <1>2. Evictable(h) \subseteq Agents /\ \A a \in Evictable(h) : h.resident[a] /\ h.worker[a]
    BY DEF Evictable, Residents
  <1>3. Victim(h) = CHOOSE a \in from : \A b \in from : a <= b
    BY DEF Victim
  <1> HIDE DEF from
  <1>4. from \in SUBSET Nat
    BY <1>1, <1>2 DEF Agents
  <1>5. \E a \in from : \A b \in from : a <= b
    BY <1>1, <1>4, LeastOf
  <1>6. Victim(h) \in from
    BY <1>3, <1>5
  <1> QED
    BY <1>1, <1>2, <1>6

AddResident(h, a) == [h EXCEPT !.resident[a] = TRUE]

(* A resident is added below maxResidentWorkers. *)
LEMMA AddResidentFine ==
  ASSUME NEW F, NEW h, NEW a \in Agents, Fine(F, h), Cardinality(Residents(h)) < maxResidentWorkers
  PROVE  Fine(F, AddResident(h, a)) /\ Only(h, AddResident(h, a), {"resident"})
  <1> DEFINE g == AddResident(h, a)
  <1>1. Only(h, g, {"resident"}) /\ g.resident = [h.resident EXCEPT ![a] = TRUE]
    BY DEF Fine, Whole, Only, Fields, AddResident
  <1> HIDE DEF g
  <1>2. h.resident \in [Agents -> BOOLEAN] /\ maxResidentWorkers \in Nat
    BY SubagentsAssumption DEF Fine, ResidentsOK
  <1>3. Residents(g) = Residents(h) \cup {a}
    BY <1>1, <1>2 DEF Residents
  <1>4. IsFiniteSet(Residents(h)) /\ Cardinality(Residents(h)) \in Nat
    BY ResidentsFinite
  <1>5. Cardinality(Residents(g)) <= Cardinality(Residents(h)) + 1
    <2>1. CASE a \in Residents(h)
      <3>1. Residents(g) = Residents(h)
        BY <1>3, <2>1
      <3> QED
        BY <1>4, <3>1
    <2>2. CASE a \notin Residents(h)
      <3>1. Cardinality(Residents(g)) = Cardinality(Residents(h)) + 1
        BY <1>3, <1>4, <2>2, FS_AddElement
      <3> QED
        BY <1>4, <3>1
    <2> QED
      BY <2>1, <2>2
  <1>6. Cardinality(Residents(g)) \in Nat
    BY ResidentsFinite
  <1>7. g.resident \in [Agents -> BOOLEAN]
    BY <1>1, <1>2
  <1>8. ResidentsOK(g)
    BY <1>2, <1>4, <1>5, <1>6, <1>7 DEF ResidentsOK
  <1>9. LeaseInv(g) /\ MiscInv(g) /\ JobsOK(g)
    BY <1>1, KeepLeases, KeepMisc, KeepJobs DEF Fine, LeaseFields, MiscFields, JobFields
  <1>10. {"resident"} \cap RunFields = {}
    BY DEF RunFields, AgentFields
  <1>11. Fine(F, g)
    BY <1>1, <1>8, <1>9, <1>10, QuietChange
  <1> QED
    BY <1>1, <1>11 DEF g

(* acquireResident, by eviction where there is no room. *)
LEMMA AcquireResidentFine ==
  ASSUME NEW F, NEW h, NEW a \in Agents, Fine(F, h), CanReside(h)
  PROVE  /\ Fine(F, AcquireResident(h, a)) /\ Same(h, AcquireResident(h, a), StillFields \ {"worker"})
         /\ \A b \in Agents : AcquireResident(h, a).worker[b] => h.worker[b]
  <1> DEFINE m == IF ResidentCapacity(h) THEN h ELSE Unload(h, Victim(h))
             g == AddResident(m, a)
  <1>1. AcquireResident(h, a) = g
    BY DEF AcquireResident, AddResident
  <1>2. Fine(F, m) /\ Same(h, m, StillFields \ {"worker"}) /\ Cardinality(Residents(m)) < maxResidentWorkers
        /\ \A b \in Agents : m.worker[b] => h.worker[b]
    <2>1. CASE ResidentCapacity(h)
      BY <2>1 DEF ResidentCapacity, Same
    <2>2. CASE ~ResidentCapacity(h)
      <3> DEFINE w == Victim(h)
                 k == Unload(h, w)
      <3>1. m = k
        BY <2>2
      <3>2. w \in Agents /\ h.resident[w]
        BY <2>2, VictimIs DEF CanReside
      <3>3. Fine(F, k) /\ Loosened(h, k) /\ ~k.resident[w]
        BY <3>2, UnloadFine
      <3> HIDE DEF w, k, m
      <3>4. w \in Residents(h) /\ w \notin Residents(k)
        BY <3>2, <3>3 DEF Residents
      <3>5. Cardinality(Residents(k)) < Cardinality(Residents(h))
        BY <3>3, <3>4, FewerResidents DEF Loosened
      <3>6. Cardinality(Residents(h)) <= maxResidentWorkers /\ maxResidentWorkers \in Nat
        BY SubagentsAssumption DEF Fine, ResidentsOK
      <3>7. Cardinality(Residents(k)) < maxResidentWorkers
        BY <3>5, <3>6, ResidentsFinite
      <3> QED
        BY <3>1, <3>3, <3>7 DEF Loosened
    <2> QED
      BY <2>1, <2>2
  <1> HIDE DEF m
  <1>3. Fine(F, g) /\ Only(m, g, {"resident"})
    BY <1>2, AddResidentFine
  <1> HIDE DEF g
  <1>4. StillFields \subseteq Fields \ {"resident"}
    BY DEF Fields, StillFields
  <1>5. \A x \in StillFields \ {"worker"} : g[x] = m[x]
    BY <1>3, <1>4 DEF Only
  <1>6. g.worker = m.worker
    BY <1>3 DEF Only, Fields
  <1> QED
    BY <1>1, <1>2, <1>3, <1>5, <1>6 DEF Same

-----------------------------------------------------------------------------
(* Settlement *)

(* The run n of agent a is not held: its outcome may be published. *)
MayEnd(h, a, n) ==
  /\ n \in Runs /\ n <= h.made[a] /\ n # h.active[a] /\ (h.join[a] = NoJoin \/ h.join[a][1] # n)
  /\ ~(h.cur[a] = n /\ (h.parked[a] \/ (h.chain = <<"startup", a>> /\ h.active[a] = 0)))

(* The outcome o of run n is known to the agent, which has the run no longer in its queue. *)
Ends(v, u, n, o) ==
  /\ n <= v.made /\ n # v.active /\ (v.join = NoJoin \/ v.join[1] # n) /\ v.done[n] = "none"
  /\ ~(v.cur = n /\ (v.parked \/ (v.starting /\ v.active = 0)))
  /\ u.life = v.life /\ u.made = v.made /\ u.cur = v.cur /\ u.gen = v.gen /\ u.active = v.active
  /\ u.parked = v.parked /\ u.join = v.join /\ u.done = [v.done EXCEPT ![n] = o] /\ u.worker = v.worker
  /\ u.quarantined = v.quarantined /\ u.lost = v.lost /\ u.pending = v.pending /\ u.starting = v.starting /\ u.init = v.init
  /\ u.queue \in Seq(Runs) /\ IsInjective(u.queue) /\ Range(u.queue) = Range(v.queue) \ {n}

(* A terminal outcome, in the view of its agent. *)
LEMMA PublishView ==
  ASSUME NEW J, NEW a, NEW v, NEW u, NEW n \in Runs, NEW o \in Outcomes, RunOK(J, a, v), Ends(v, u, n, o)
  PROVE  RunOK(Adds(J, "terminal", a, n, o), a, u) /\ v.life # "absent"
  <1>0. /\ n <= v.made /\ n # v.active /\ (v.join = NoJoin \/ v.join[1] # n) /\ v.done[n] = "none"
        /\ ~(v.cur = n /\ (v.parked \/ (v.starting /\ v.active = 0)))
        /\ u.life = v.life /\ u.made = v.made /\ u.cur = v.cur /\ u.gen = v.gen /\ u.active = v.active
        /\ u.parked = v.parked /\ u.join = v.join /\ u.done = [v.done EXCEPT ![n] = o] /\ u.worker = v.worker
        /\ u.quarantined = v.quarantined /\ u.lost = v.lost /\ u.pending = v.pending /\ u.starting = v.starting /\ u.init = v.init
        /\ u.queue \in Seq(Runs) /\ IsInjective(u.queue) /\ Range(u.queue) = Range(v.queue) \ {n}
    BY Zenon DEF Ends
  <1> DEFINE K == Adds(J, "terminal", a, n, o)
  <1>1. /\ \A kind : Is(K, kind, a) <=> Is(J, kind, a) \/ kind = "terminal"
        /\ \A kind, i : Has(K, kind, a, i) <=> Has(J, kind, a, i) \/ (kind = "terminal" /\ i = n)
        /\ \A kind, i, y : Val(K, kind, a, i, y) <=> Val(J, kind, a, i, y) \/ (kind = "terminal" /\ i = n /\ y = o)
        /\ \A f \in K : f \in J \/ f[1] = "terminal"
    BY NewFact
  <1> HIDE DEF K
  <1>2. /\ ViewType(v) /\ OnePhase(v) /\ LifeOK(J, a, v) /\ RunsOK(J, a, v) /\ QueueOK(J, a, v) /\ GenOK(J, a, v)
        /\ HeldOK(J, a, v)
    BY DEF RunOK
  <1>3. v.done \in [Runs -> Outcomes \cup {"none"}] /\ MaxRuns \in Nat /\ n \in Nat /\ n # 0 /\ o # "none"
    BY <1>2, SubagentsAssumption DEF ViewType, Runs, Outcomes
  <1>4. v.life # "absent"
    BY <1>0, <1>2, <1>3 DEF LifeOK
  <1>5. ViewType(u)
    BY <1>0, <1>2, <1>3 DEF ViewType
  <1>6. OnePhase(u)
    BY <1>0, <1>2 DEF OnePhase
  <1>7. LifeOK(K, a, u)
    BY <1>0, <1>1, <1>2, <1>4 DEF LifeOK
  <1>8. RunsOK(K, a, u)
    <2>1. \A i \in Runs : Accepted(K, a, i) <=> Accepted(J, a, i)
      BY <1>1 DEF Accepted
    <2>2. ~Has(J, "terminal", a, n) /\ \A x : ~Val(J, "terminal", a, n, x)
      BY <1>0, <1>2, ValIsHas DEF RunsOK
    <2>3. \A i \in Runs : u.done[i] = "none" <=> ~Has(K, "terminal", a, i)
      BY <1>0, <1>1, <1>2, <1>3 DEF RunsOK
    <2>4. \A i \in Runs : \A q \in Outcomes : Val(K, "terminal", a, i, q) => u.done[i] = q
      BY <1>0, <1>1, <1>2, <1>3, <2>2 DEF RunsOK
    <2> QED
      BY <1>0, <1>1, <1>2, <1>3, <2>1, <2>3, <2>4 DEF RunsOK, Kinds
  <1>9. QueueOK(K, a, u)
    BY <1>0, <1>1, <1>2 DEF QueueOK
  <1>10. GenOK(K, a, u)
    BY <1>0, <1>1, <1>2, SameGen
  <1>11. HeldOK(K, a, u)
    <2>1. v.active # 0 \/ v.join # NoJoin => v.cur # n
      BY <1>0, <1>2 DEF ViewType, HeldOK
    <2> QED
      BY <1>0, <1>1, <1>2, <2>1 DEF HeldOK
  <1> QED
    BY <1>4, <1>5, <1>6, <1>7, <1>8, <1>9, <1>10, <1>11 DEF RunOK, K

PubCore(h, a, n, o) ==
  Append1([h EXCEPT !.done[a][n] = o, !.queue[a] = Keep(@, Runs \ {n})], <<"terminal", a, n, o>>)

(* settleTaskTerminal up to its pump keeps a heap fine. *)
LEMMA PubCoreFine ==
  ASSUME NEW F, NEW h, NEW a \in Agents, NEW n, NEW o \in Outcomes, Fine(F, h), MayEnd(h, a, n), h.done[a][n] = "none"
  PROVE  Fine(F, PubCore(h, a, n, o)) /\ Only(h, PubCore(h, a, n, o), {"done", "queue", "log"})
  <1> DEFINE g == PubCore(h, a, n, o)
             q == Keep(h.queue[a], Runs \ {n})
             f == <<"terminal", a, n, o>>
             S == {"done", "queue", "log"}
  <1>1. /\ Only(h, g, S) /\ g.done = [h.done EXCEPT ![a] = [h.done[a] EXCEPT ![n] = o]]
        /\ g.queue = [h.queue EXCEPT ![a] = q] /\ g.log = Append(h.log, f)
    BY Zenon DEF Fine, Whole, Only, Fields, PubCore, Append1
  <1> HIDE DEF g
  <1>2. h.queue = [b \in Agents |-> h.queue[b]] /\ h.done = [b \in Agents |-> h.done[b]]
    BY DEF Fine, Whole, AgentFields
  <1>3. /\ g.life = h.life /\ g.made = h.made /\ g.parked = h.parked /\ g.join = h.join /\ g.cur = h.cur
        /\ g.worker = h.worker /\ g.quarantined = h.quarantined /\ g.lost = h.lost
        /\ g.pendingSettle = h.pendingSettle /\ g.chain = h.chain /\ g.active = h.active /\ g.gen = h.gen
    BY <1>1 DEF Only, Fields
  <1>4. /\ g.queue = [b \in Agents |-> g.queue[b]] /\ g.done = [b \in Agents |-> g.done[b]]
        /\ g.queue[a] = q /\ g.done[a] = [h.done[a] EXCEPT ![n] = o]
    BY <1>1, <1>2, Zenon
  <1>5. \A b \in Agents \ {a} : g.queue[b] = h.queue[b] /\ g.done[b] = h.done[b]
    BY <1>1, <1>2
  <1>6. \A b \in Agents \ {a} : View(g, b) = View(h, b)
    BY <1>3, <1>5 DEF View
  <1>7. \A y \in S \cap AgentFields : g[y] = [b \in Agents |-> g[y][b]]
    BY <1>4 DEF AgentFields
  <1>8. MiscInv(g)
    BY <1>1, KeepMisc DEF Fine, MiscFields
  <1> DEFINE J == Of(F \cup Range(h.log), a)
             v == View(h, a)
             u == View(g, a)
  <1>9. /\ v.life = h.life[a] /\ v.made = h.made[a] /\ v.cur = h.cur[a] /\ v.active = h.active[a]
        /\ v.queue = h.queue[a] /\ v.done = h.done[a] /\ v.parked = h.parked[a] /\ v.join = h.join[a]
        /\ v.starting = (h.chain = <<"startup", a>>)
        /\ v.init = (h.chain = <<"initialize", a>>)
    BY ViewFields
  <1>10. /\ u.life = v.life /\ u.made = v.made /\ u.cur = v.cur /\ u.gen = v.gen /\ u.active = v.active
         /\ u.queue = q /\ u.parked = v.parked /\ u.join = v.join /\ u.done = [v.done EXCEPT ![n] = o]
         /\ u.worker = v.worker /\ u.quarantined = v.quarantined /\ u.lost = v.lost /\ u.pending = v.pending
         /\ u.starting = v.starting /\ u.init = v.init
    <2>1. u.starting = v.starting /\ u.init = v.init
      BY <1>3 DEF View
    <2>2. u.done = [v.done EXCEPT ![n] = o] /\ u.queue = q
      BY <1>4 DEF View
    <2>3. /\ u.life = v.life /\ u.made = v.made /\ u.cur = v.cur /\ u.gen = v.gen /\ u.active = v.active
          /\ u.parked = v.parked /\ u.join = v.join
          /\ u.worker = v.worker /\ u.quarantined = v.quarantined /\ u.lost = v.lost /\ u.pending = v.pending
      BY <1>3, ViewFields
    <2> HIDE DEF u, v, q
    <2> QED
      BY <2>1, <2>2, <2>3
  <1>11. RunOK(J, a, v)
    BY FineView
  <1> HIDE DEF J, u, v
  <1>12. q \in Seq(Runs) /\ IsInjective(q) /\ Range(q) = Range(v.queue) \ {n}
    <2>1. h.queue[a] \in Seq(Runs) /\ IsInjective(h.queue[a])
      BY <1>9, <1>11 DEF RunOK, ViewType, QueueOK
    <2>2. Range(h.queue[a]) \subseteq Runs
      BY <2>1 DEF Range
    <2>3. q \in Seq(Runs) /\ IsInjective(q) /\ Range(q) = Range(h.queue[a]) \cap (Runs \ {n})
      BY <2>1, KeepIs
    <2> QED
      BY <1>9, <2>2, <2>3, Zenon
  <1>13. /\ n \in Runs /\ n <= v.made /\ n # v.active /\ (v.join = NoJoin \/ v.join[1] # n) /\ v.done[n] = "none"
         /\ ~(v.cur = n /\ (v.parked \/ (v.starting /\ v.active = 0)))
    BY <1>9, Zenon DEF MayEnd
  <1> HIDE DEF q
  <1>14. RunOK(Adds(J, "terminal", a, n, o), a, u) /\ v.life # "absent"
    <2>1. u.queue \in Seq(Runs) /\ IsInjective(u.queue) /\ Range(u.queue) = Range(v.queue) \ {n}
      BY ONLY <1>10, <1>12
    <2> QED
      <3>1. Ends(v, u, n, o)
        BY <1>10, <1>13, <2>1, Zenon DEF Ends
      <3> QED
        BY <1>11, <1>13, <3>1, PublishView
  <1>15. f \in FactType
    BY <1>13, FactTypes, Zenon
  <1>16. S \cap (LeaseFields \cup {"chain", "jobs", "resident"}) = {}
    BY DEF LeaseFields
  <1>17. g.life[a] # "absent" /\ h.life[a] # "absent" /\ g.parked[a] = h.parked[a]
    BY <1>3, <1>9, <1>14
  <1>18. Fine(F, g)
    BY <1>1, <1>6, <1>7, <1>8, <1>14, <1>15, <1>16, <1>17, FactFine DEF J, u
  <1> QED
    BY <1>1, <1>18 DEF g

(* What being fine says of the fields of one agent. *)
Sound(h, a) ==
  /\ h.parked[a] => h.active[a] = 0 /\ ~h.worker[a] /\ h.chain # <<"startup", a>>
  /\ (h.parked[a] \/ h.chain = <<"startup", a>> \/ h.active[a] # 0) => h.join[a] = NoJoin /\ ~h.quarantined[a]
  /\ (h.parked[a] \/ h.chain = <<"startup", a>> \/ h.active[a] # 0 \/ h.join[a] # NoJoin) =>
       h.lost[a] = 0 /\ h.pendingSettle[a] = NoJoin
  /\ (h.quarantined[a] \/ h.lost[a] # 0) => ~h.worker[a]
  /\ h.life[a] # "absent" => h.cur[a] \in Runs /\ h.cur[a] <= h.made[a]
  /\ (h.parked[a] \/ h.chain = <<"startup", a>> \/ h.active[a] # 0 \/ h.join[a] # NoJoin \/ h.lost[a] # 0
       \/ h.pendingSettle[a] # NoJoin \/ h.queue[a] # <<>>) => h.life[a] # "absent"
  /\ h.made[a] \in 0 .. MaxRuns /\ h.active[a] \in {0, h.cur[a]} /\ h.lost[a] \in 0 .. MaxRuns
  /\ h.pendingSettle[a] \in {NoJoin} \cup (Runs \X Outcomes) /\ h.join[a] \in {NoJoin} \cup (Runs \X Outcomes)
  /\ h.pendingSettle[a] # NoJoin => h.pendingSettle[a][1] <= h.made[a]
  /\ h.join[a] # NoJoin => h.join[a][1] = h.cur[a]
  /\ h.chain = <<"initialize", a>> => h.active[a] # 0
  /\ h.life[a] \in {"absent", "open", "closing", "closed"}
  /\ h.queue[a] \in Seq(Runs) /\ IsInjective(h.queue[a])

(* What a fine heap says of one agent. *)
LEMMA AgentIs ==
  ASSUME NEW F, NEW h, NEW a \in Agents, Fine(F, h)
  PROVE  Sound(h, a)
  <1> DEFINE J == Of(F \cup Range(h.log), a)
             v == View(h, a)
  <1>1. /\ v.life = h.life[a] /\ v.made = h.made[a] /\ v.cur = h.cur[a]
        /\ v.gen = h.gen[a] /\ v.active = h.active[a] /\ v.queue = h.queue[a]
        /\ v.parked = h.parked[a] /\ v.join = h.join[a] /\ v.done = h.done[a]
        /\ v.worker = h.worker[a] /\ v.quarantined = h.quarantined[a]
        /\ v.lost = h.lost[a] /\ v.pending = h.pendingSettle[a]
        /\ v.starting = (h.chain = <<"startup", a>>)
        /\ v.init = (h.chain = <<"initialize", a>>)
    BY ViewFields
  <1>2. ViewType(v) /\ OnePhase(v) /\ LifeOK(J, a, v) /\ RunsOK(J, a, v) /\ QueueOK(J, a, v) /\ HeldOK(J, a, v)
    BY FineView DEF RunOK
  <1> HIDE DEF J, v
  <1>3. /\ h.parked[a] => h.active[a] = 0 /\ ~h.worker[a] /\ h.chain # <<"startup", a>>
        /\ (h.parked[a] \/ h.chain = <<"startup", a>> \/ h.active[a] # 0) => h.join[a] = NoJoin /\ ~h.quarantined[a]
        /\ (h.parked[a] \/ h.chain = <<"startup", a>> \/ h.active[a] # 0 \/ h.join[a] # NoJoin) =>
              h.lost[a] = 0 /\ h.pendingSettle[a] = NoJoin
        /\ (h.quarantined[a] \/ h.lost[a] # 0) => ~h.worker[a]
    BY <1>1, <1>2, Zenon DEF OnePhase
  <1>4. (h.parked[a] \/ h.chain = <<"startup", a>> \/ h.active[a] # 0 \/ h.join[a] # NoJoin \/ h.lost[a] # 0
              \/ h.pendingSettle[a] # NoJoin \/ h.queue[a] # <<>>) => h.life[a] # "absent"
    BY <1>1, <1>2, Zenon DEF LifeOK
  <1>5. /\ h.made[a] \in 0 .. MaxRuns /\ h.active[a] \in {0, h.cur[a]} /\ h.lost[a] \in 0 .. MaxRuns
        /\ h.pendingSettle[a] \in {NoJoin} \cup (Runs \X Outcomes) /\ h.join[a] \in {NoJoin} \cup (Runs \X Outcomes)
        /\ h.life[a] \in {"absent", "open", "closing", "closed"} /\ h.queue[a] \in Seq(Runs)
    BY <1>1, <1>2 DEF ViewType
  <1>6. h.life[a] # "absent" => h.cur[a] \in 1 .. h.made[a]
    BY <1>1, <1>2 DEF LifeOK
  <1>7. h.life[a] # "absent" => h.cur[a] \in Runs /\ h.cur[a] <= h.made[a]
    BY <1>5, <1>6, SubagentsAssumption DEF Runs
  <1>8. /\ h.pendingSettle[a] # NoJoin => h.pendingSettle[a][1] <= h.made[a]
        /\ h.join[a] # NoJoin => h.join[a][1] = h.cur[a]
        /\ h.chain = <<"initialize", a>> => h.active[a] # 0
        /\ IsInjective(h.queue[a])
    BY <1>1, <1>2 DEF RunsOK, HeldOK, QueueOK
  <1> QED
    BY <1>3, <1>4, <1>5, <1>7, <1>8, Zenon DEF Sound

(* A run in the queue of an agent is not the one it holds, and a lost run was accepted. *)
LEMMA QueueIs ==
  ASSUME NEW F, NEW h, NEW a \in Agents, Fine(F, h)
  PROVE  /\ \A n \in Range(h.queue[a]) : MayEnd(h, a, n)
         /\ h.lost[a] # 0 => h.lost[a] \in Runs /\ h.lost[a] <= h.made[a]
  <1> DEFINE J == Of(F \cup Range(h.log), a)
             v == View(h, a)
  <1>1. /\ v.made = h.made[a] /\ v.cur = h.cur[a] /\ v.gen = h.gen[a] /\ v.active = h.active[a]
        /\ v.queue = h.queue[a] /\ v.parked = h.parked[a] /\ v.join = h.join[a] /\ v.lost = h.lost[a]
        /\ v.starting = (h.chain = <<"startup", a>>)
        /\ v.init = (h.chain = <<"initialize", a>>)
    BY ViewFields
  <1>2. ViewType(v) /\ RunsOK(J, a, v) /\ QueueOK(J, a, v) /\ HeldOK(J, a, v)
    BY FineView DEF RunOK
  <1> HIDE DEF J, v
  <1>3. ASSUME NEW n \in Range(h.queue[a]) PROVE MayEnd(h, a, n)
    <2>1. n \in Runs
      BY <1>1, <1>2 DEF ViewType, Range
    <2>2. Has(J, "accepted", a, n) /\ ~Has(J, "started", a, n)
      BY <1>1, <1>2, <1>3 DEF QueueOK
    <2>3. n <= v.made
      BY <1>2, <2>1, <2>2 DEF RunsOK, Accepted
    <2>4. v.active # 0 \/ v.join # NoJoin => v.cur # n
      BY <1>1, <1>2, <1>3, <2>2, ValIsHas DEF HeldOK
    <2>5. v.active \in {0, v.cur} /\ (v.join # NoJoin => v.join[1] = v.cur)
      BY <1>2 DEF ViewType, HeldOK
    <2>6. n # v.active /\ (v.join = NoJoin \/ v.join[1] # n)
      BY <2>1, <2>4, <2>5 DEF Runs
    <2>7. v.parked \/ (v.starting /\ v.active = 0) => v.cur # n
      BY <1>1, <1>2, <1>3 DEF HeldOK
    <2> QED
      BY <1>1, <2>1, <2>3, <2>6, <2>7, Zenon DEF MayEnd
  <1>4. h.lost[a] # 0 => h.lost[a] \in Runs /\ h.lost[a] <= h.made[a]
    <2>1. v.lost \in 0 .. MaxRuns /\ (v.lost # 0 => Has(J, "started", a, v.lost))
      BY <1>2 DEF ViewType, RunsOK
    <2>2. v.lost # 0 => v.lost \in Runs
      BY <2>1 DEF Runs
    <2> QED
      BY <1>1, <1>2, <2>1, <2>2 DEF RunsOK, Kinds
  <1> QED
    BY <1>3, <1>4

-----------------------------------------------------------------------------
(* What settling leaves alone: outcomes are published, joins end, agents able to run are given *)
(* their next run.                                                                             *)
SettleFields ==
  {"parent", "life", "made", "parked", "worker", "ckpt", "held", "quarantined", "lost", "pendingSettle", "closes",
   "chain", "suspended"}

Settles(h, g) ==
  /\ Same(h, g, SettleFields)
  /\ \A b \in Agents : g.join[b] = h.join[b] \/ g.join[b] = NoJoin
  /\ \A b \in Agents : Unable(h, b) => g.active[b] = h.active[b] /\ g.cur[b] = h.cur[b]

(* The fields that settlement leaves alone. *)
LEMMA SettleIs ==
  ASSUME NEW h, NEW g, Same(h, g, SettleFields)
  PROVE  /\ g.parent = h.parent /\ g.life = h.life /\ g.made = h.made /\ g.parked = h.parked /\ g.worker = h.worker
         /\ g.ckpt = h.ckpt /\ g.held = h.held /\ g.quarantined = h.quarantined /\ g.lost = h.lost
         /\ g.pendingSettle = h.pendingSettle /\ g.closes = h.closes /\ g.chain = h.chain
         /\ g.suspended = h.suspended
  BY DEF Same, SettleFields

(* Settles is reflexive. *)
LEMMA SettlesSelf == \A h : Settles(h, h)
  BY DEF Settles, Same

(* Settles is transitive. *)
LEMMA SettlesTrans ==
  ASSUME NEW h, NEW g, NEW k, Settles(h, g), Settles(g, k)
  PROVE  Settles(h, k)
  <1>1. Same(h, k, SettleFields)
    BY DEF Settles, Same
  <1>2. \A b : Unable(g, b) <=> Unable(h, b)
    BY SettleIs DEF Settles, Unable
  <1> QED
    BY <1>1, <1>2 DEF Settles

(* A pump is a special settlement. *)
LEMMA PumpedSettles ==
  ASSUME NEW h, NEW g, Pumped(h, g)
  PROVE  Settles(h, g)
  <1>1. Same(h, g, SettleFields) /\ g.join = h.join
    BY DEF Pumped, Same, StillFields, SettleFields
  <1> QED
    BY <1>1 DEF Settles, Pumped

(* A change of other fields settles nothing. *)
LEMMA OnlySettles ==
  ASSUME NEW h, NEW g, NEW S, Only(h, g, S), S \cap (SettleFields \cup {"active", "cur"}) = {},
         \A b \in Agents : g.join[b] = h.join[b] \/ g.join[b] = NoJoin
  PROVE  Settles(h, g)
  <1>1. g.active = h.active /\ g.cur = h.cur
    BY DEF Only, Fields
  <1>2. SettleFields \subseteq Fields \ S
    BY DEF Fields, SettleFields
  <1>3. Same(h, g, SettleFields)
    BY <1>2 DEF Only, Same
  <1> QED
    BY <1>1, <1>3 DEF Settles

(* An agent that is not able to run still may end the runs it could end. *)
LEMMA MayEndKept ==
  ASSUME NEW h, NEW g, NEW a \in Agents, NEW n, Settles(h, g), Unable(h, a), MayEnd(h, a, n)
  PROVE  MayEnd(g, a, n)
  <1>1. g.made = h.made /\ g.parked = h.parked /\ g.chain = h.chain
    BY SettleIs DEF Settles
  <1>2. g.active[a] = h.active[a] /\ g.cur[a] = h.cur[a] /\ (g.join[a] = h.join[a] \/ g.join[a] = NoJoin)
    BY DEF Settles
  <1> QED
    BY <1>1, <1>2 DEF MayEnd

(* Publish keeps a heap fine. *)
LEMMA PublishFine ==
  ASSUME NEW F, NEW h, NEW a \in Agents, NEW n, NEW o \in Outcomes, Fine(F, h), MayEnd(h, a, n)
  PROVE  Fine(F, Publish(h, a, n, o)) /\ Settles(h, Publish(h, a, n, o))
  <1>1. CASE h.done[a][n] # "none"
    <2>1. Publish(h, a, n, o) = h
      BY <1>1 DEF Publish, IsTerminal
    <2> QED
      BY <2>1, SettlesSelf
  <1>2. CASE h.done[a][n] = "none"
    <2> DEFINE g == PubCore(h, a, n, o)
    <2>1. Publish(h, a, n, o) = PumpQueue(g, a)
      BY <1>2 DEF Publish, IsTerminal, PubCore
    <2>2. Fine(F, g) /\ Only(h, g, {"done", "queue", "log"})
      BY <1>2, PubCoreFine
    <2> HIDE DEF g
    <2>3. g.join = h.join
      BY <2>2 DEF Only, Fields
    <2>4. {"done", "queue", "log"} \cap (SettleFields \cup {"active", "cur"}) = {}
      BY DEF SettleFields
    <2>5. Settles(h, g)
      BY <2>2, <2>3, <2>4, OnlySettles
    <2>6. Fine(F, PumpQueue(g, a)) /\ Settles(g, PumpQueue(g, a))
      BY <2>2, PumpQueueFine, PumpedSettles
    <2> QED
      BY <2>1, <2>5, <2>6, SettlesTrans
  <1> QED
    BY <1>1, <1>2

(* afterDescendants *)
LEMMA ContinueFine ==
  ASSUME NEW F, NEW h, NEW a \in Agents, Fine(F, h), h.join[a] # NoJoin
  PROVE  Fine(F, Continue(h, a)) /\ Settles(h, Continue(h, a))
  <1> DEFINE n == h.join[a][1]
             o == IF h.joinInterrupted[a] /\ h.join[a][2] = "succeeded" THEN "interrupted" ELSE h.join[a][2]
             g == EndJoin(h, a)
  <1>1. Continue(h, a) = Publish(g, a, n, o)
    BY DEF Continue, EndJoin
  <1>2. h.join[a] \in Runs \X Outcomes /\ n \in Runs /\ o \in Outcomes
    BY AgentIs, Zenon DEF Outcomes, Sound
  <1>3. /\ Fine(F, g) /\ Only(h, g, {"join", "joinInterrupted"}) /\ g.join = [h.join EXCEPT ![a] = NoJoin]
    <2>1. g.join = [h.join EXCEPT ![a] = NoJoin]
      BY DEF Fine, Whole, Fields, EndJoin
    <2>2. Fine(F, g) /\ Only(h, g, {"join", "joinInterrupted"})
      BY EndJoinFine, Zenon
    <2> QED
      BY <2>1, <2>2
  <1> HIDE DEF g
  <1>4. h.join = [b \in Agents |-> h.join[b]]
    BY DEF Fine, Whole, AgentFields
  <1>5. g.join[a] = NoJoin /\ \A b \in Agents : g.join[b] = h.join[b] \/ g.join[b] = NoJoin
    BY <1>3, <1>4
  <1>6. {"join", "joinInterrupted"} \cap (SettleFields \cup {"active", "cur"}) = {}
    BY DEF SettleFields
  <1>7. Settles(h, g)
    BY <1>3, <1>5, <1>6, OnlySettles, Zenon
  <1>8. g.made = h.made /\ g.active = h.active /\ g.parked = h.parked /\ g.chain = h.chain
    BY <1>3 DEF Only, Fields
  <1> HIDE DEF n, o
  <1>9. h.active[a] = 0 /\ ~h.parked[a] /\ h.chain # <<"startup", a>> /\ n <= h.made[a]
    <2>0. Sound(h, a)
      BY AgentIs
    <2>1. h.active[a] = 0 /\ ~h.parked[a] /\ h.chain # <<"startup", a>>
      BY <2>0, Zenon DEF Sound
    <2>2. h.life[a] # "absent" /\ n = h.cur[a]
      BY <2>0, Zenon DEF Sound, n
    <2>3. h.cur[a] <= h.made[a]
      BY <2>0, <2>2, Zenon DEF Sound
    <2> QED
      BY <2>1, <2>2, <2>3
  <1>10. MayEnd(g, a, n)
    BY <1>2, <1>5, <1>8, <1>9 DEF MayEnd, Runs
  <1>11. Fine(F, Publish(g, a, n, o)) /\ Settles(g, Publish(g, a, n, o))
    BY <1>2, <1>3, <1>10, PublishFine
  <1> QED
    BY <1>1, <1>7, <1>11, SettlesTrans DEF n, o

(* An owner that waited continues. *)
LEMMA ResumeOwnerFine ==
  ASSUME NEW F, NEW h, NEW owners, NEW a \in Agents, Fine(F, h)
  PROVE  Fine(F, ResumeOwner(h, owners, a)) /\ Settles(h, ResumeOwner(h, owners, a))
  <1>1. CASE a \in owners /\ h.join[a] # NoJoin /\ ActiveDescendants(h, a) = {}
    <2>1. ResumeOwner(h, owners, a) = Continue(h, a)
      BY <1>1 DEF ResumeOwner
    <2> QED
      BY <1>1, <2>1, ContinueFine
  <1>2. CASE ~(a \in owners /\ h.join[a] # NoJoin /\ ActiveDescendants(h, a) = {})
    <2>1. ResumeOwner(h, owners, a) = h
      BY <1>2 DEF ResumeOwner
    <2> QED
      BY <2>1, SettlesSelf
  <1> QED
    BY <1>1, <1>2

OwnerUp(owners, h, k) == ResumeOwner(h, owners, MaxAgents + 1 - k)
SettleGood(d, h, k) == Fine(d[1], h) /\ Settles(d[2], h)
OwnerFold == INSTANCE Folding WITH Op <- OwnerUp, Good <- SettleGood

(* resumeOwnerAfterDescendant, for all owners. *)
LEMMA ResumeOwnersFine ==
  ASSUME NEW F, NEW h, NEW a \in Agents, Fine(F, h)
  PROVE  Fine(F, ResumeOwners(h, a)) /\ Settles(h, ResumeOwners(h, a))
  <1> DEFINE owners == Ancestors(h, a) \cap Agents
             d == <<F, h>>
  <1>1. ResumeOwners(h, a) = OwnerFold!Fold(owners, h, MaxAgents)
    BY Zenon DEF ResumeOwners, OwnerFold!Fold, OwnerUp
  <1> HIDE DEF owners
  <1>2. SettleGood(d, h, 0)
    BY SettlesSelf DEF SettleGood
  <1>3. \A g, k : k \in 1 .. MaxAgents /\ SettleGood(d, g, k - 1) => SettleGood(d, OwnerUp(owners, g, k), k)
    <2> SUFFICES ASSUME NEW g, NEW k \in 1 .. MaxAgents, SettleGood(d, g, k - 1)
                 PROVE  SettleGood(d, OwnerUp(owners, g, k), k)
      OBVIOUS
    <2> DEFINE p == MaxAgents + 1 - k
    <2>1. OwnerUp(owners, g, k) = ResumeOwner(g, owners, p) /\ p \in Agents
      BY SubagentsAssumption DEF OwnerUp, Agents
    <2> HIDE DEF p
    <2>2. Fine(F, g) /\ Settles(h, g)
      BY DEF SettleGood
    <2>3. Fine(F, ResumeOwner(g, owners, p)) /\ Settles(g, ResumeOwner(g, owners, p))
      BY <2>1, <2>2, ResumeOwnerFine
    <2>4. Settles(h, ResumeOwner(g, owners, p))
      BY <2>2, <2>3, SettlesTrans
    <2> QED
      BY <2>1, <2>3, <2>4 DEF SettleGood
  <1>4. MaxAgents \in Nat
    BY SubagentsAssumption
  <1>5. SettleGood(d, OwnerFold!Fold(owners, h, MaxAgents), MaxAgents)
    <2> HIDE DEF d
    <2> QED
      BY <1>2, <1>3, <1>4, OwnerFold!FoldKeeps
  <1> QED
    BY <1>1, <1>5 DEF SettleGood

(* settleTaskTerminal *)
LEMMA SettleTerminalFine ==
  ASSUME NEW F, NEW h, NEW a \in Agents, NEW n, NEW o \in Outcomes, Fine(F, h), MayEnd(h, a, n)
  PROVE  Fine(F, SettleTerminal(h, a, n, o)) /\ Settles(h, SettleTerminal(h, a, n, o))
  <1>1. CASE IsTerminal(h, a, n)
    <2>1. SettleTerminal(h, a, n, o) = h
      BY <1>1 DEF SettleTerminal
    <2> QED
      BY <2>1, SettlesSelf
  <1>2. CASE ~IsTerminal(h, a, n)
    <2> DEFINE g == Publish(h, a, n, o)
    <2>1. SettleTerminal(h, a, n, o) = ResumeOwners(g, a)
      BY <1>2 DEF SettleTerminal
    <2>2. Fine(F, g) /\ Settles(h, g)
      BY PublishFine
    <2> HIDE DEF g
    <2>3. Fine(F, ResumeOwners(g, a)) /\ Settles(g, ResumeOwners(g, a))
      BY <2>2, ResumeOwnersFine
    <2> QED
      BY <2>1, <2>2, <2>3, SettlesTrans
  <1> QED
    BY <1>1, <1>2

QueuedOne(c, h, k) == IF k \in Range(c[1]) THEN SettleTerminal(h, c[2], k, c[3]) ELSE h
QueuedFold == INSTANCE Folding WITH Op <- QueuedOne, Good <- SettleGood

(* Every run in the queue of an agent that is not able to run is settled. *)
LEMMA SettleQueuedFine ==
  ASSUME NEW F, NEW h, NEW a \in Agents, NEW o \in Outcomes, Fine(F, h), Unable(h, a)
  PROVE  Fine(F, SettleQueued(h, a, o)) /\ Settles(h, SettleQueued(h, a, o))
  <1> DEFINE c == <<h.queue[a], a, o>>
             d == <<F, h>>
  <1>0. c[1] = h.queue[a] /\ c[2] = a /\ c[3] = o
    OBVIOUS
  <1> HIDE DEF c
  <1>1. SettleQueued(h, a, o) = QueuedFold!Fold(c, h, MaxRuns)
    BY <1>0, Zenon DEF SettleQueued, QueuedFold!Fold, QueuedOne
  <1>2. SettleGood(d, h, 0)
    BY SettlesSelf DEF SettleGood
  <1>3. \A g, k : k \in 1 .. MaxRuns /\ SettleGood(d, g, k - 1) => SettleGood(d, QueuedOne(c, g, k), k)
    <2> SUFFICES ASSUME NEW g, NEW k \in 1 .. MaxRuns, SettleGood(d, g, k - 1)
                 PROVE  SettleGood(d, QueuedOne(c, g, k), k)
      OBVIOUS
    <2>1. Fine(F, g) /\ Settles(h, g)
      BY DEF SettleGood
    <2>2. CASE k \in Range(h.queue[a])
      <3>1. QueuedOne(c, g, k) = SettleTerminal(g, a, k, o)
        BY <1>0, <2>2 DEF QueuedOne
      <3>2. MayEnd(g, a, k)
        BY <2>1, <2>2, QueueIs, MayEndKept
      <3>3. Fine(F, SettleTerminal(g, a, k, o)) /\ Settles(g, SettleTerminal(g, a, k, o))
        BY <2>1, <3>2, SettleTerminalFine
      <3>4. Settles(h, SettleTerminal(g, a, k, o))
        BY <2>1, <3>3, SettlesTrans
      <3> QED
        BY <3>1, <3>3, <3>4 DEF SettleGood
    <2>3. CASE k \notin Range(h.queue[a])
      <3>1. QueuedOne(c, g, k) = g
        BY <1>0, <2>3 DEF QueuedOne
      <3> QED
        BY <2>1, <3>1 DEF SettleGood
    <2> QED
      BY <2>2, <2>3
  <1>4. MaxRuns \in Nat
    BY SubagentsAssumption
  <1>5. SettleGood(d, QueuedFold!Fold(c, h, MaxRuns), MaxRuns)
    <2> HIDE DEF d
    <2> QED
      BY <1>2, <1>3, <1>4, QueuedFold!FoldKeeps
  <1> QED
    BY <1>1, <1>5 DEF SettleGood

-----------------------------------------------------------------------------
(* The other changes of one agent's runs, as the agent sees them.  Facts of two and three      *)
(* parts are told apart by their kind.                                                         *)

(* A fact of another kind leaves the facts of a kind as they are. *)
LEMMA OtherKind ==
  ASSUME NEW J, NEW f, NEW a, f[2] = a
  PROVE  /\ \A kind : Is(J \cup {f}, kind, a) <=> Is(J, kind, a) \/ kind = f[1]
         /\ \A kind, n : kind # f[1] => (Has(J \cup {f}, kind, a, n) <=> Has(J, kind, a, n))
         /\ \A kind, n, x : kind # f[1] => (Val(J \cup {f}, kind, a, n, x) <=> Val(J, kind, a, n, x))
         /\ \A n : Has(J \cup {f}, f[1], a, n) <=> Has(J, f[1], a, n) \/ n = f[3]
         /\ \A n, x : Val(J \cup {f}, f[1], a, n, x) <=> Val(J, f[1], a, n, x) \/ (n = f[3] /\ x = f[4])
  <1>1. \A kind : Is(J \cup {f}, kind, a) <=> Is(J, kind, a) \/ (f[1] = kind /\ f[2] = a)
    BY OneMoreFact
  <1>2. \A kind, n : Has(J \cup {f}, kind, a, n) <=> Has(J, kind, a, n) \/ (f[1] = kind /\ f[2] = a /\ f[3] = n)
    BY OneMoreFact
  <1>3. \A kind, n, x : Val(J \cup {f}, kind, a, n, x) <=>
          Val(J, kind, a, n, x) \/ (f[1] = kind /\ f[2] = a /\ f[3] = n /\ f[4] = x)
    BY OneMoreFact
  <1> QED
    BY <1>1, <1>2, <1>3

(* Nothing of the agent changes but its life, its quarantine and its bookkeeping. *)
Alike(v, u) ==
  /\ u.made = v.made /\ u.cur = v.cur /\ u.gen = v.gen /\ u.active = v.active /\ u.queue = v.queue
  /\ u.parked = v.parked /\ u.join = v.join /\ u.done = v.done /\ u.worker = v.worker /\ u.lost = v.lost
  /\ u.pending = v.pending /\ u.starting = v.starting /\ u.init = v.init

(* finalizeGeneration: the run ends and its agent joins the descendants. *)
Joins(v, u, o) ==
  /\ v.active # 0 /\ ~v.starting /\ ~v.init
  /\ u.life = v.life /\ u.made = v.made /\ u.cur = v.cur /\ u.gen = v.gen /\ u.active = 0 /\ u.queue = v.queue
  /\ u.parked = v.parked /\ u.join = <<v.active, o>> /\ u.done = v.done /\ u.worker = v.worker
  /\ u.quarantined = v.quarantined /\ u.lost = v.lost /\ u.pending = v.pending /\ u.starting = v.starting /\ u.init = v.init

(* finalizeGeneration installs its barrier, in the view of the agent. *)
LEMMA JoinView ==
  ASSUME NEW J, NEW a, NEW v, NEW u, NEW o \in Outcomes, RunOK(J, a, v), Joins(v, u, o)
  PROVE  RunOK(Adds(J, "settled", a, v.active, o), a, u) /\ v.active \in Runs /\ v.life # "absent"
  <1> DEFINE n == v.active
             K == Adds(J, "settled", a, n, o)
  <1>0. /\ v.active # 0 /\ ~v.starting /\ ~v.init
        /\ u.life = v.life /\ u.made = v.made /\ u.cur = v.cur /\ u.gen = v.gen /\ u.active = 0 /\ u.queue = v.queue
        /\ u.parked = v.parked /\ u.join = <<v.active, o>> /\ u.done = v.done /\ u.worker = v.worker
        /\ u.quarantined = v.quarantined /\ u.lost = v.lost /\ u.pending = v.pending /\ u.starting = v.starting /\ u.init = v.init
    BY Zenon DEF Joins
  <1>1. /\ \A kind : Is(K, kind, a) <=> Is(J, kind, a) \/ kind = "settled"
        /\ \A kind, i : Has(K, kind, a, i) <=> Has(J, kind, a, i) \/ (kind = "settled" /\ i = n)
        /\ \A kind, i, y : Val(K, kind, a, i, y) <=> Val(J, kind, a, i, y) \/ (kind = "settled" /\ i = n /\ y = o)
        /\ \A f \in K : f \in J \/ f[1] = "settled"
    BY NewFact
  <1> HIDE DEF K
  <1>2. /\ ViewType(v) /\ OnePhase(v) /\ LifeOK(J, a, v) /\ RunsOK(J, a, v) /\ QueueOK(J, a, v) /\ GenOK(J, a, v)
        /\ HeldOK(J, a, v)
    BY DEF RunOK
  <1>3. v.life # "absent"
    BY <1>0, <1>2 DEF LifeOK
  <1>4. n = v.cur /\ n \in Runs /\ n # 0
    BY <1>0, <1>2, <1>3, SubagentsAssumption DEF ViewType, LifeOK, Runs
  <1>5. u.join # NoJoin /\ u.join \in Runs \X Outcomes /\ u.join[1] = n /\ u.join[2] = o
    BY <1>0, <1>4 DEF NoJoin
  <1>6. Val(J, "started", a, n, v.gen) /\ ~Has(J, "terminal", a, n) /\ ~Has(J, "settled", a, n) /\ v.join = NoJoin
        /\ ~v.parked /\ v.lost = 0 /\ v.pending = NoJoin /\ Has(J, "started", a, n)
    BY <1>0, <1>2, <1>4, ValIsHas DEF HeldOK, OnePhase
  <1>7. ViewType(u)
    BY <1>0, <1>2, <1>5 DEF ViewType
  <1>8. OnePhase(u)
    BY <1>0, <1>2, <1>6 DEF OnePhase
  <1>9. LifeOK(K, a, u)
    BY <1>0, <1>1, <1>2, <1>3 DEF LifeOK
  <1>10. RunsOK(K, a, u)
    <2>1. \A i \in Runs : Accepted(K, a, i) <=> Accepted(J, a, i)
      BY <1>1 DEF Accepted
    <2>2. n <= v.made
      BY <1>2, <1>4, <1>6 DEF RunsOK, Kinds
    <2> QED
      BY <1>0, <1>1, <1>2, <1>6, <2>1, <2>2 DEF RunsOK, Kinds
  <1>11. QueueOK(K, a, u)
    BY <1>0, <1>1, <1>2 DEF QueueOK
  <1>12. GenOK(K, a, u)
    BY <1>0, <1>1, <1>2, SameGen
  <1>13. HeldOK(K, a, u)
    <2>1. \A x : ~Val(J, "settled", a, n, x)
      BY <1>6, ValIsHas
    <2> HIDE DEF n
    <2> QED
      BY <1>0, <1>1, <1>4, <1>5, <1>6, <2>1 DEF HeldOK
  <1> QED
    BY <1>3, <1>4, <1>7, <1>8, <1>9, <1>10, <1>11, <1>12, <1>13 DEF RunOK, K

(* generation.settled of a run that the agent no longer holds. *)
LEMMA ToldView ==
  ASSUME NEW J, NEW a, NEW v, NEW u, NEW n \in Runs, NEW o \in Outcomes, RunOK(J, a, v), Has(J, "started", a, n),
         v.active # 0 \/ v.join # NoJoin => v.cur # n, u = v
  PROVE  RunOK(Adds(J, "settled", a, n, o), a, u) /\ v.life # "absent"
  <1> DEFINE K == Adds(J, "settled", a, n, o)
  <1>1. /\ \A kind : Is(K, kind, a) <=> Is(J, kind, a) \/ kind = "settled"
        /\ \A kind, i : Has(K, kind, a, i) <=> Has(J, kind, a, i) \/ (kind = "settled" /\ i = n)
        /\ \A kind, i, y : Val(K, kind, a, i, y) <=> Val(J, kind, a, i, y) \/ (kind = "settled" /\ i = n /\ y = o)
        /\ \A f \in K : f \in J \/ f[1] = "settled"
    BY NewFact
  <1> HIDE DEF K
  <1>2. /\ ViewType(v) /\ OnePhase(v) /\ LifeOK(J, a, v) /\ RunsOK(J, a, v) /\ QueueOK(J, a, v) /\ GenOK(J, a, v)
        /\ HeldOK(J, a, v)
    BY DEF RunOK
  <1>3. v.life # "absent"
    BY <1>2 DEF LifeOK, Has
  <1>4. LifeOK(K, a, v)
    BY <1>1, <1>2, <1>3 DEF LifeOK
  <1>5. RunsOK(K, a, v)
    <2>1. \A i \in Runs : Accepted(K, a, i) <=> Accepted(J, a, i)
      BY <1>1 DEF Accepted
    <2>2. n <= v.made
      BY <1>2 DEF RunsOK, Kinds
    <2> QED
      BY <1>1, <1>2, <2>1, <2>2 DEF RunsOK, Kinds
  <1>6. QueueOK(K, a, v)
    BY <1>1, <1>2 DEF QueueOK
  <1>7. GenOK(K, a, v)
    BY <1>1, <1>2, SameGen
  <1>8. HeldOK(K, a, v)
    BY <1>1, <1>2 DEF HeldOK
  <1> QED
    BY <1>2, <1>3, <1>4, <1>5, <1>6, <1>7, <1>8 DEF RunOK, K

(* agent.closed and agent.quarantined *)
LEMMA MarkView ==
  ASSUME NEW J, NEW a, NEW v, NEW u, NEW f, f[2] = a, f[1] \in {"closed", "quarantined"}, RunOK(J, a, v), Alike(v, u),
         f[1] = "closed" => v.life = "closing" /\ u.life = "closed" /\ u.quarantined = v.quarantined,
         f[1] = "quarantined" => /\ u.life = v.life /\ u.quarantined = TRUE /\ v.life # "absent"
                                 /\ ~v.parked /\ ~v.starting /\ v.active = 0 /\ ~v.worker
  PROVE  RunOK(J \cup {f}, a, u) /\ v.life # "absent"
  <1> DEFINE K == J \cup {f}
  <1>0. /\ u.made = v.made /\ u.cur = v.cur /\ u.gen = v.gen /\ u.active = v.active /\ u.queue = v.queue
        /\ u.parked = v.parked /\ u.join = v.join /\ u.done = v.done /\ u.worker = v.worker /\ u.lost = v.lost
        /\ u.pending = v.pending /\ u.starting = v.starting /\ u.init = v.init
    BY Zenon DEF Alike
  <1>1. /\ \A kind : Is(K, kind, a) <=> Is(J, kind, a) \/ kind = f[1]
        /\ \A kind, n : kind # f[1] => (Has(K, kind, a, n) <=> Has(J, kind, a, n))
        /\ \A kind, n, x : kind # f[1] => (Val(K, kind, a, n, x) <=> Val(J, kind, a, n, x))
    BY OtherKind, Zenon
  <1>a. /\ \A n : /\ Has(K, "started", a, n) <=> Has(J, "started", a, n)
                  /\ Has(K, "settled", a, n) <=> Has(J, "settled", a, n)
                  /\ Has(K, "terminal", a, n) <=> Has(J, "terminal", a, n)
                  /\ Has(K, "accepted", a, n) <=> Has(J, "accepted", a, n)
        /\ \A n, x : /\ Val(K, "started", a, n, x) <=> Val(J, "started", a, n, x)
                     /\ Val(K, "settled", a, n, x) <=> Val(J, "settled", a, n, x)
                     /\ Val(K, "terminal", a, n, x) <=> Val(J, "terminal", a, n, x)
        /\ Is(K, "spawned", a) <=> Is(J, "spawned", a)
        /\ Is(K, "closed", a) <=> Is(J, "closed", a) \/ f[1] = "closed"
        /\ Is(K, "quarantined", a) <=> Is(J, "quarantined", a) \/ f[1] = "quarantined"
    BY <1>1
  <1>b. \A e \in K : e \in J \/ (e = f /\ e[1] # "spawned")
    OBVIOUS
  <1> HIDE DEF K
  <1>2. /\ ViewType(v) /\ OnePhase(v) /\ LifeOK(J, a, v) /\ RunsOK(J, a, v) /\ QueueOK(J, a, v) /\ GenOK(J, a, v)
        /\ HeldOK(J, a, v)
    BY DEF RunOK
  <1>3. v.life # "absent" /\ u.life # "absent" /\ u.quarantined \in BOOLEAN
        /\ u.life \in {"open", "closing", "closed"}
    BY <1>2, Zenon DEF ViewType
  <1>4. ViewType(u)
    BY <1>0, <1>2, <1>3 DEF ViewType
  <1>5. OnePhase(u)
    BY <1>0, <1>2 DEF OnePhase
  <1>6. LifeOK(K, a, u)
    <2>1. CASE f[1] = "closed"
      BY <1>0, <1>2, <1>3, <1>a, <1>b, <2>1 DEF LifeOK
    <2>2. CASE f[1] = "quarantined"
      BY <1>0, <1>2, <1>3, <1>a, <1>b, <2>2 DEF LifeOK
    <2> QED
      BY <2>1, <2>2
  <1>7. RunsOK(K, a, u)
    <2>1. \A i \in Runs : Accepted(K, a, i) <=> Accepted(J, a, i)
      BY <1>a DEF Accepted
    <2> QED
      BY <1>0, <1>2, <1>a, <2>1 DEF RunsOK, Kinds
  <1>8. QueueOK(K, a, u)
    BY <1>0, <1>2, <1>a DEF QueueOK
  <1>9. GenOK(K, a, u)
    BY <1>0, <1>2, <1>a, SameGen
  <1>10. HeldOK(K, a, u)
    BY <1>0, <1>2, <1>a DEF HeldOK
  <1> QED
    BY <1>3, <1>4, <1>5, <1>6, <1>7, <1>8, <1>9, <1>10 DEF RunOK, K

(* continueStartup: the current run is active while its worker initializes. *)
Runs1(v, u) ==
  /\ v.starting /\ ~v.init /\ u.starting = FALSE /\ u.init = TRUE
  /\ u.life = v.life /\ u.made = v.made /\ u.cur = v.cur /\ u.gen = v.gen /\ u.active = v.cur /\ u.queue = v.queue
  /\ u.parked = v.parked /\ u.join = v.join /\ u.done = v.done /\ u.worker = v.worker
  /\ u.quarantined = v.quarantined /\ u.lost = v.lost /\ u.pending = v.pending

(* A launched worker is told to initialize, in the view of the agent. *)
LEMMA RunsView ==
  ASSUME NEW J, NEW a, NEW v, NEW u, RunOK(J, a, v), Runs1(v, u)
  PROVE  RunOK(J, a, u) /\ v.life # "absent"
  <1>0. /\ v.starting /\ ~v.init /\ u.starting = FALSE /\ u.init = TRUE
        /\ u.life = v.life /\ u.made = v.made /\ u.cur = v.cur /\ u.gen = v.gen /\ u.active = v.cur /\ u.queue = v.queue
        /\ u.parked = v.parked /\ u.join = v.join /\ u.done = v.done /\ u.worker = v.worker
        /\ u.quarantined = v.quarantined /\ u.lost = v.lost /\ u.pending = v.pending
    BY Zenon DEF Runs1
  <1>2. /\ ViewType(v) /\ OnePhase(v) /\ LifeOK(J, a, v) /\ RunsOK(J, a, v) /\ QueueOK(J, a, v) /\ GenOK(J, a, v)
        /\ HeldOK(J, a, v)
    BY DEF RunOK
  <1>3. v.life # "absent" /\ v.join = NoJoin /\ ~v.quarantined /\ v.lost = 0 /\ v.pending = NoJoin /\ ~v.parked
    BY <1>0, <1>2 DEF LifeOK, OnePhase
  <1>4. v.cur \in Runs /\ v.cur # 0
    BY <1>2, <1>3, SubagentsAssumption DEF ViewType, LifeOK, Runs
  <1>5. /\ ~Has(J, "terminal", a, v.cur) /\ ~Has(J, "settled", a, v.cur) /\ v.cur \notin Range(v.queue)
        /\ Val(J, "started", a, v.cur, v.gen) \/ \A n \in Runs : ~Has(J, "started", a, n)
    <2>1. CASE v.active = 0
      BY <1>0, <1>2, <1>4, <2>1 DEF HeldOK, RunsOK
    <2>2. CASE v.active # 0
      <3>1. Val(J, "started", a, v.cur, v.gen)
        BY <1>0, <1>2, <2>2 DEF HeldOK
      <3>2. ~Has(J, "settled", a, v.cur) /\ ~Has(J, "terminal", a, v.cur)
        BY <1>2, <2>2 DEF HeldOK
      <3>3. v.cur \notin Range(v.queue)
        BY <1>2, <3>1, ValIsHas DEF QueueOK
      <3> QED
        BY <3>1, <3>2, <3>3
    <2> QED
      BY <2>1, <2>2
  <1>6. ViewType(u)
    BY <1>0, <1>2 DEF ViewType
  <1>7. OnePhase(u)
    BY <1>0, <1>2, <1>3 DEF OnePhase
  <1>8. LifeOK(J, a, u)
    BY <1>0, <1>2, <1>3 DEF LifeOK
  <1>9. RunsOK(J, a, u)
    BY <1>0, <1>2 DEF RunsOK
  <1>10. QueueOK(J, a, u)
    BY <1>0, <1>2 DEF QueueOK
  <1>11. GenOK(J, a, u)
    BY <1>0, <1>2 DEF GenOK
  <1>12. HeldOK(J, a, u)
    BY <1>0, <1>3, <1>4, <1>5 DEF HeldOK
  <1> QED
    BY <1>3, <1>6, <1>7, <1>8, <1>9, <1>10, <1>11, <1>12 DEF RunOK

(* The worker has answered: the run is started, unless a pump has done so meanwhile. *)
Begins(v, u) ==
  /\ v.init /\ u.init = FALSE /\ ~v.starting /\ u.starting = FALSE
  /\ u.life = v.life /\ u.made = v.made /\ u.cur = v.cur /\ u.gen = v.gen /\ u.active = v.active /\ u.queue = v.queue
  /\ u.parked = v.parked /\ u.join = v.join /\ u.done = v.done /\ u.worker = v.worker
  /\ u.quarantined = v.quarantined /\ u.lost = v.lost /\ u.pending = v.pending

(* generation.started of the current run, in the view of the agent. *)
LEMMA BeginView ==
  ASSUME NEW J, NEW a, NEW v, NEW u, RunOK(J, a, v), Begins(v, u)
  PROVE  RunOK(Adds(J, "started", a, v.cur, v.gen), a, u) /\ v.cur \in Runs /\ v.gen \in Generations /\ v.life # "absent"
  <1> DEFINE n == v.cur
             x == v.gen
             K == Adds(J, "started", a, n, x)
  <1>0. /\ v.init /\ u.init = FALSE /\ ~v.starting /\ u.starting = FALSE
        /\ u.life = v.life /\ u.made = v.made /\ u.cur = v.cur /\ u.gen = v.gen /\ u.active = v.active /\ u.queue = v.queue
        /\ u.parked = v.parked /\ u.join = v.join /\ u.done = v.done /\ u.worker = v.worker
        /\ u.quarantined = v.quarantined /\ u.lost = v.lost /\ u.pending = v.pending
    BY Zenon DEF Begins
  <1>1. /\ \A kind : Is(K, kind, a) <=> Is(J, kind, a) \/ kind = "started"
        /\ \A kind, i : Has(K, kind, a, i) <=> Has(J, kind, a, i) \/ (kind = "started" /\ i = n)
        /\ \A kind, i, y : Val(K, kind, a, i, y) <=> Val(J, kind, a, i, y) \/ (kind = "started" /\ i = n /\ y = x)
        /\ \A f \in K : f \in J \/ f[1] = "started"
    BY NewFact
  <1>a. /\ Cardinality(StartedRuns(K, a)) >= Cardinality(StartedRuns(J, a))
        /\ ~Has(J, "started", a, n) /\ n \in Runs => Cardinality(StartedRuns(K, a)) = Cardinality(StartedRuns(J, a)) + 1
        /\ Cardinality(StartedRuns(J, a)) \in 0 .. MaxRuns /\ Cardinality(StartedRuns(K, a)) \in 0 .. MaxRuns
    <2>1. Cardinality(StartedRuns(J, a)) \in 0 .. MaxRuns /\ Cardinality(StartedRuns(K, a)) \in 0 .. MaxRuns
      BY StartedFinite
    <2>2. CASE n \in Runs
      BY <2>1, <2>2, StartedOneMore
    <2>3. CASE n \notin Runs
      <3>1. StartedRuns(K, a) = StartedRuns(J, a)
        BY <1>1, <2>3 DEF StartedRuns
      <3> QED
        BY <2>1, <2>3, <3>1
    <2> QED
      BY <2>2, <2>3
  <1> HIDE DEF K
  <1>2. /\ ViewType(v) /\ OnePhase(v) /\ LifeOK(J, a, v) /\ RunsOK(J, a, v) /\ QueueOK(J, a, v) /\ GenOK(J, a, v)
        /\ HeldOK(J, a, v)
    BY DEF RunOK
  <1>3. v.life # "absent" /\ v.join = NoJoin /\ ~v.quarantined /\ v.lost = 0 /\ v.pending = NoJoin /\ ~v.parked
    BY <1>0, <1>2 DEF LifeOK, OnePhase, HeldOK
  <1>4. n \in Runs /\ n # 0 /\ n <= v.made
    BY <1>2, <1>3, SubagentsAssumption DEF ViewType, LifeOK, Runs
  <1>5. x \in Nat /\ x >= 1 /\ x <= Cardinality(StartedRuns(J, a)) + 1 /\ x \in Generations
    BY <1>2, <1>3, <1>a, SubagentsAssumption DEF ViewType, LifeOK, GenOK, Generations
  <1>6. /\ ~Has(J, "terminal", a, n) /\ ~Has(J, "settled", a, n) /\ n \notin Range(v.queue)
        /\ Val(J, "started", a, n, x) \/ \A i \in Runs : ~Has(J, "started", a, i)
    BY <1>0, <1>2 DEF HeldOK
  <1>7. ViewType(u)
    BY <1>0, <1>2 DEF ViewType
  <1>8. OnePhase(u)
    BY <1>0, <1>2, <1>3 DEF OnePhase
  <1>9. LifeOK(K, a, u)
    BY <1>0, <1>1, <1>2, <1>3 DEF LifeOK
  <1>10. RunsOK(K, a, u)
    <2>1. \A i \in Runs : Accepted(K, a, i) <=> Accepted(J, a, i)
      BY <1>1 DEF Accepted
    <2> QED
      BY <1>0, <1>1, <1>2, <1>3, <1>4, <2>1 DEF RunsOK, Kinds
  <1>11. QueueOK(K, a, u)
    BY <1>0, <1>1, <1>2, <1>6 DEF QueueOK
  <1>12. GenOK(K, a, u)
    <2>1. CASE \A i \in Runs : ~Has(J, "started", a, i)
      <3>2. \A i \in Runs : \A g : ~Val(J, "started", a, i, g)
        BY <2>1, ValIsHas
      <3>3. x <= Cardinality(StartedRuns(K, a)) + 1
        BY <1>5, <1>a
      <3> QED
        BY <1>0, <1>1, <1>4, <1>5, <3>2, <3>3 DEF GenOK
    <2>2. CASE Val(J, "started", a, n, x)
      <3>2. \A i, g : Val(K, "started", a, i, g) <=> Val(J, "started", a, i, g)
        BY <1>1, <2>2
      <3>3. \A i : Has(K, "started", a, i) <=> Has(J, "started", a, i)
        BY <1>1, <2>2, ValIsHas
      <3> QED
        BY <1>0, <1>2, <3>2, <3>3, SameGen
    <2> QED
      BY <1>6, <2>1, <2>2
  <1>13. HeldOK(K, a, u)
    BY <1>0, <1>1, <1>3, <1>6 DEF HeldOK
  <1> QED
    BY <1>3, <1>4, <1>5, <1>7, <1>8, <1>9, <1>10, <1>11, <1>12, <1>13 DEF RunOK, K

(* task.accepted: one more run in the queue. *)
Takes(v, u) ==
  /\ v.made + 1 \in Runs /\ v.life # "absent"
  /\ u.life = v.life /\ u.made = v.made + 1 /\ u.cur = v.cur /\ u.gen = v.gen /\ u.active = v.active
  /\ u.queue = Append(v.queue, v.made + 1)
  /\ u.parked = v.parked /\ u.join = v.join /\ u.done = v.done /\ u.worker = v.worker
  /\ u.quarantined = v.quarantined /\ u.lost = v.lost /\ u.pending = v.pending /\ u.starting = v.starting /\ u.init = v.init

(* A task is accepted, in the view of the agent. *)
LEMMA TakeView ==
  ASSUME NEW J, NEW a, NEW v, NEW u, NEW f, f[2] = a, f[1] = "accepted", f[3] = v.made + 1, RunOK(J, a, v), Takes(v, u)
  PROVE  RunOK(J \cup {f}, a, u)
  <1> DEFINE n == v.made + 1
             K == J \cup {f}
  <1>0. /\ v.made + 1 \in Runs /\ v.life # "absent"
        /\ u.life = v.life /\ u.made = v.made + 1 /\ u.cur = v.cur /\ u.gen = v.gen /\ u.active = v.active
        /\ u.queue = Append(v.queue, v.made + 1)
        /\ u.parked = v.parked /\ u.join = v.join /\ u.done = v.done /\ u.worker = v.worker
        /\ u.quarantined = v.quarantined /\ u.lost = v.lost /\ u.pending = v.pending /\ u.starting = v.starting /\ u.init = v.init
    BY Zenon DEF Takes
  <1>1. /\ \A kind : Is(K, kind, a) <=> Is(J, kind, a) \/ kind = f[1]
        /\ \A kind, i : kind # f[1] => (Has(K, kind, a, i) <=> Has(J, kind, a, i))
        /\ \A kind, i, x : kind # f[1] => (Val(K, kind, a, i, x) <=> Val(J, kind, a, i, x))
        /\ \A i : Has(K, f[1], a, i) <=> Has(J, f[1], a, i) \/ i = f[3]
    BY OtherKind, Zenon
  <1>a. /\ \A i : /\ Has(K, "started", a, i) <=> Has(J, "started", a, i)
                  /\ Has(K, "settled", a, i) <=> Has(J, "settled", a, i)
                  /\ Has(K, "terminal", a, i) <=> Has(J, "terminal", a, i)
                  /\ Has(K, "accepted", a, i) <=> Has(J, "accepted", a, i) \/ i = n
        /\ \A i, x : /\ Val(K, "started", a, i, x) <=> Val(J, "started", a, i, x)
                     /\ Val(K, "settled", a, i, x) <=> Val(J, "settled", a, i, x)
                     /\ Val(K, "terminal", a, i, x) <=> Val(J, "terminal", a, i, x)
        /\ Is(K, "spawned", a) <=> Is(J, "spawned", a)
        /\ Is(K, "closed", a) <=> Is(J, "closed", a)
        /\ Is(K, "quarantined", a) <=> Is(J, "quarantined", a)
    BY <1>1
  <1>b. \A e \in K : e \in J \/ (e = f /\ e[1] # "spawned")
    OBVIOUS
  <1> HIDE DEF K
  <1>2. /\ ViewType(v) /\ OnePhase(v) /\ LifeOK(J, a, v) /\ RunsOK(J, a, v) /\ QueueOK(J, a, v) /\ GenOK(J, a, v)
        /\ HeldOK(J, a, v)
    BY DEF RunOK
  <1>3. v.queue \in Seq(Runs) /\ v.made \in Nat /\ n \in Runs /\ n \in Nat /\ MaxRuns \in Nat /\ n <= MaxRuns
    BY <1>0, <1>2, SubagentsAssumption DEF ViewType, Runs
  <1>4. u.queue \in Seq(Runs) /\ Range(u.queue) = Range(v.queue) \cup {n}
    BY <1>0, <1>3, AppendRange
  <1>5. \A i \in Range(v.queue) : i \in Runs /\ i <= v.made
    <2>1. \A i \in Range(v.queue) : i \in Runs
      BY <1>3 DEF Range
    <2> QED
      BY <1>2, <2>1 DEF QueueOK, RunsOK, Accepted
  <1>6. n \notin Range(v.queue)
    BY <1>3, <1>5
  <1>7. IsInjective(u.queue)
    BY <1>0, <1>2, <1>3, <1>6, NewElement DEF QueueOK
  <1>8. ~Has(J, "started", a, n) /\ ~Has(J, "terminal", a, n)
    BY <1>2, <1>3 DEF RunsOK, Kinds
  <1>9. ViewType(u)
    BY <1>0, <1>2, <1>3, <1>4 DEF ViewType
  <1>10. OnePhase(u)
    BY <1>0, <1>2 DEF OnePhase
  <1>11. LifeOK(K, a, u)
    BY <1>0, <1>2, <1>3, <1>a, <1>b DEF LifeOK
  <1>12. RunsOK(K, a, u)
    <2>1. \A i \in Runs : Accepted(K, a, i) <=> Accepted(J, a, i) \/ i = n
      BY <1>a DEF Accepted
    <2>2. \A i \in Runs : i <= n <=> i <= v.made \/ i = n
      BY <1>3 DEF Runs
    <2>3. v.pending # NoJoin => v.pending[1] <= n
      BY <1>2, <1>3 DEF ViewType, RunsOK, Runs
    <2> QED
      BY <1>0, <1>2, <1>3, <1>a, <2>1, <2>2, <2>3 DEF RunsOK, Kinds
  <1>13. QueueOK(K, a, u)
    BY <1>2, <1>4, <1>7, <1>8, <1>a DEF QueueOK
  <1>14. GenOK(K, a, u)
    BY <1>0, <1>2, <1>a, SameGen
  <1>15. HeldOK(K, a, u)
    <2>1. v.cur # n
      BY <1>0, <1>2, <1>3 DEF LifeOK
    <2> QED
      BY <1>0, <1>2, <1>4, <1>a, <2>1 DEF HeldOK
  <1> QED
    BY <1>9, <1>10, <1>11, <1>12, <1>13, <1>14, <1>15 DEF RunOK, K

(* A new agent: its first run is accepted with it. *)
Fresh(J, a, v) ==
  /\ v.life = "open" /\ v.made = 1 /\ v.cur = 1 /\ v.gen = 1 /\ v.active = 0 /\ v.queue = <<>> /\ v.parked = FALSE
  /\ v.join = NoJoin /\ v.worker = FALSE /\ v.quarantined = FALSE /\ v.lost = 0 /\ v.pending = NoJoin
  /\ v.starting = FALSE /\ \A n \in Runs : v.done[n] = "none"
  /\ \A n \in Runs : ~Has(J, "started", a, n) /\ ~Has(J, "terminal", a, n) /\ ~Has(J, "settled", a, n)

Borne(v, u) ==
  /\ v.life = "absent" /\ u.life = "open" /\ u.made = 1 /\ u.cur = 1 /\ u.gen = 1 /\ u.active = v.active
  /\ u.queue = v.queue /\ u.parked = v.parked /\ u.join = v.join /\ u.done = v.done /\ u.worker = v.worker
  /\ u.quarantined = v.quarantined /\ u.lost = v.lost /\ u.pending = v.pending /\ u.starting = v.starting /\ u.init = v.init

(* An agent is spawned, in its view. *)
LEMMA BornView ==
  ASSUME NEW J, NEW a, NEW v, NEW u, NEW f, f[2] = a, f[1] = "spawned", RunOK(J, a, v), Borne(v, u)
  PROVE  RunOK(J \cup {f}, a, u) /\ Fresh(J \cup {f}, a, u)
  <1> DEFINE K == J \cup {f}
  <1>0. /\ v.life = "absent" /\ u.life = "open" /\ u.made = 1 /\ u.cur = 1 /\ u.gen = 1 /\ u.active = v.active
        /\ u.queue = v.queue /\ u.parked = v.parked /\ u.join = v.join /\ u.done = v.done /\ u.worker = v.worker
        /\ u.quarantined = v.quarantined /\ u.lost = v.lost /\ u.pending = v.pending /\ u.starting = v.starting /\ u.init = v.init
    BY Zenon DEF Borne
  <1>1. /\ \A kind : Is(K, kind, a) <=> Is(J, kind, a) \/ kind = f[1]
        /\ \A kind, i : kind # f[1] => (Has(K, kind, a, i) <=> Has(J, kind, a, i))
        /\ \A kind, i, x : kind # f[1] => (Val(K, kind, a, i, x) <=> Val(J, kind, a, i, x))
    BY OtherKind, Zenon
  <1>2. /\ ViewType(v) /\ OnePhase(v) /\ LifeOK(J, a, v) /\ RunsOK(J, a, v) /\ QueueOK(J, a, v) /\ GenOK(J, a, v)
        /\ HeldOK(J, a, v)
    BY DEF RunOK
  <1>3. /\ J = {} /\ v.active = 0 /\ v.queue = <<>> /\ ~v.parked /\ v.join = NoJoin /\ v.made = 0
        /\ ~v.worker /\ ~v.starting /\ v.lost = 0 /\ v.pending = NoJoin
    BY <1>0, <1>2 DEF LifeOK
  <1>4. /\ \A kind : ~Is(J, kind, a)
        /\ \A kind, i : ~Has(J, kind, a, i)
        /\ \A kind, i, x : ~Val(J, kind, a, i, x)
    BY <1>3 DEF Is, Has, Val
  <1>5. ~v.quarantined
    BY <1>2, <1>4 DEF LifeOK
  <1>6. /\ \A kind : Is(K, kind, a) <=> kind = "spawned"
        /\ \A i : /\ ~Has(K, "started", a, i) /\ ~Has(K, "settled", a, i) /\ ~Has(K, "terminal", a, i)
                  /\ ~Has(K, "accepted", a, i)
        /\ \A i, x : ~Val(K, "started", a, i, x) /\ ~Val(K, "settled", a, i, x) /\ ~Val(K, "terminal", a, i, x)
    BY <1>1, <1>4
  <1>7. \A e, g \in K : e = g
    BY <1>3
  <1> HIDE DEF K
  <1>8. v.done \in [Runs -> Outcomes \cup {"none"}] /\ \A n \in Runs : v.done[n] = "none"
    BY <1>2, <1>4 DEF ViewType, RunsOK
  <1>9. MaxRuns \in Nat /\ MaxRuns >= 1 /\ 1 \in 0 .. MaxRuns
    BY SubagentsAssumption
  <1>10. ViewType(u)
    BY <1>0, <1>2, <1>3, <1>9 DEF ViewType
  <1>11. OnePhase(u)
    BY <1>0, <1>2 DEF OnePhase
  <1>12. LifeOK(K, a, u)
    BY <1>0, <1>3, <1>5, <1>6, <1>7 DEF LifeOK
  <1>13. RunsOK(K, a, u)
    <2>1. \A n \in Runs : Accepted(K, a, n) <=> n <= 1
      BY <1>6, <1>9 DEF Accepted, Runs
    <2>2. v.lost = 0 /\ v.pending = NoJoin
      BY <1>3
    <2> QED
      BY <1>0, <1>6, <1>8, <2>1, <2>2 DEF RunsOK, Kinds
  <1>14. QueueOK(K, a, u)
    BY <1>0, <1>3, EmptyRange DEF QueueOK
  <1>15. GenOK(K, a, u)
    <2>1. Cardinality(StartedRuns(K, a)) \in 0 .. MaxRuns
      BY StartedFinite
    <2> QED
      BY <1>0, <1>6, <2>1, <1>9 DEF GenOK
  <1>16. HeldOK(K, a, u)
    <2>1. ~u.init
      BY <1>0, <1>2, <1>3 DEF HeldOK
    <2> QED
      BY <1>0, <1>3, <1>5, <2>1 DEF HeldOK
  <1>17. Fresh(K, a, u)
    <2>1. u.parked = FALSE /\ u.worker = FALSE /\ u.quarantined = FALSE /\ u.starting = FALSE
      BY <1>0, <1>3, <1>5, <1>2 DEF ViewType
    <2> QED
      BY <1>0, <1>3, <1>6, <1>8, <2>1 DEF Fresh
  <1> QED
    BY <1>10, <1>11, <1>12, <1>13, <1>14, <1>15, <1>16, <1>17 DEF RunOK, K

(* A new agent for which there is no lease is parked, and says so in the journal. *)
Parks(v, u) ==
  /\ u.life = v.life /\ u.made = v.made /\ u.cur = v.cur /\ u.gen = v.gen /\ u.active = v.active /\ u.queue = v.queue
  /\ u.parked = TRUE /\ u.join = v.join /\ u.done = v.done /\ u.worker = v.worker
  /\ u.quarantined = v.quarantined /\ u.lost = v.lost /\ u.pending = v.pending /\ u.starting = v.starting /\ u.init = v.init

(* The first run is parked, in the view of the agent. *)
LEMMA ParkView ==
  ASSUME NEW J, NEW a, NEW v, NEW u, NEW f, f[2] = a, f[1] = "accepted", f[3] = 1, RunOK(J, a, v), Fresh(J, a, v),
         Parks(v, u)
  PROVE  RunOK(J \cup {f}, a, u)
  <1> DEFINE K == J \cup {f}
  <1>0. /\ u.life = v.life /\ u.made = v.made /\ u.cur = v.cur /\ u.gen = v.gen /\ u.active = v.active
        /\ u.queue = v.queue /\ u.parked = TRUE /\ u.join = v.join /\ u.done = v.done /\ u.worker = v.worker
        /\ u.quarantined = v.quarantined /\ u.lost = v.lost /\ u.pending = v.pending /\ u.starting = v.starting /\ u.init = v.init
    BY Zenon DEF Parks
  <1>1. /\ \A kind : Is(K, kind, a) <=> Is(J, kind, a) \/ kind = f[1]
        /\ \A kind, i : kind # f[1] => (Has(K, kind, a, i) <=> Has(J, kind, a, i))
        /\ \A kind, i, x : kind # f[1] => (Val(K, kind, a, i, x) <=> Val(J, kind, a, i, x))
        /\ \A i : Has(K, f[1], a, i) <=> Has(J, f[1], a, i) \/ i = f[3]
    BY OtherKind, Zenon
  <1>a. /\ \A i : /\ Has(K, "started", a, i) <=> Has(J, "started", a, i)
                  /\ Has(K, "settled", a, i) <=> Has(J, "settled", a, i)
                  /\ Has(K, "terminal", a, i) <=> Has(J, "terminal", a, i)
                  /\ Has(K, "accepted", a, i) <=> Has(J, "accepted", a, i) \/ i = 1
        /\ \A i, x : /\ Val(K, "started", a, i, x) <=> Val(J, "started", a, i, x)
                     /\ Val(K, "settled", a, i, x) <=> Val(J, "settled", a, i, x)
                     /\ Val(K, "terminal", a, i, x) <=> Val(J, "terminal", a, i, x)
        /\ Is(K, "spawned", a) <=> Is(J, "spawned", a)
        /\ Is(K, "closed", a) <=> Is(J, "closed", a)
        /\ Is(K, "quarantined", a) <=> Is(J, "quarantined", a)
    BY <1>1, Zenon
  <1>b. \A e \in K : e \in J \/ (e = f /\ e[1] # "spawned")
    OBVIOUS
  <1> HIDE DEF K
  <1>2. /\ ViewType(v) /\ OnePhase(v) /\ LifeOK(J, a, v) /\ RunsOK(J, a, v) /\ QueueOK(J, a, v) /\ GenOK(J, a, v)
        /\ HeldOK(J, a, v)
    BY DEF RunOK
  <1>3. /\ v.life = "open" /\ v.made = 1 /\ v.cur = 1 /\ v.active = 0 /\ v.queue = <<>> /\ v.join = NoJoin
        /\ ~v.worker /\ ~v.quarantined /\ v.lost = 0 /\ v.pending = NoJoin /\ ~v.starting
        /\ \A n \in Runs : ~Has(J, "started", a, n) /\ ~Has(J, "terminal", a, n) /\ ~Has(J, "settled", a, n)
    BY DEF Fresh
  <1>4. ViewType(u)
    BY <1>0, <1>2, Zenon DEF ViewType
  <1>5. OnePhase(u)
    BY <1>0, <1>3 DEF OnePhase
  <1>6. LifeOK(K, a, u)
    BY <1>0, <1>2, <1>3, <1>a, <1>b DEF LifeOK
  <1>7. 1 \in Runs
    BY SubagentsAssumption DEF Runs
  <1>8. RunsOK(K, a, u)
    <2>1. Accepted(J, a, 1)
      BY <1>2, <1>3, <1>7 DEF RunsOK
    <2>2. \A i \in Runs : Accepted(K, a, i) <=> Accepted(J, a, i)
      BY <1>a, <2>1 DEF Accepted
    <2> QED
      BY <1>0, <1>2, <1>a, <2>2 DEF RunsOK, Kinds
  <1>9. QueueOK(K, a, u)
    BY <1>0, <1>3, EmptyRange DEF QueueOK
  <1>10. GenOK(K, a, u)
    BY <1>0, <1>2, <1>a, SameGen
  <1>11. HeldOK(K, a, u)
    <2>1. ~u.init
      BY <1>0, <1>2, <1>3 DEF HeldOK
    <2> QED
      BY <1>0, <1>3, <1>7, <1>a, <2>1, EmptyRange DEF HeldOK
  <1> QED
    BY <1>4, <1>5, <1>6, <1>8, <1>9, <1>10, <1>11 DEF RunOK, K

(* A launch: the worker is bound, and the chain waits for it. *)
Launches(v, u) ==
  /\ u.life = v.life /\ u.made = v.made /\ u.cur = v.cur /\ u.gen = v.gen /\ u.active = v.active /\ u.queue = v.queue
  /\ u.parked = FALSE /\ u.join = v.join /\ u.done = v.done /\ u.worker = TRUE
  /\ u.quarantined = v.quarantined /\ u.lost = v.lost /\ u.pending = v.pending /\ u.starting = TRUE /\ u.init = FALSE

(* A launch begins, in the view of the agent. *)
LEMMA LaunchView ==
  ASSUME NEW J, NEW a, NEW v, NEW u, RunOK(J, a, v), Launches(v, u), v.parked \/ Fresh(J, a, v)
  PROVE  RunOK(J, a, u) /\ v.life # "absent"
  <1>0. /\ u.life = v.life /\ u.made = v.made /\ u.cur = v.cur /\ u.gen = v.gen /\ u.active = v.active
        /\ u.queue = v.queue /\ u.parked = FALSE /\ u.join = v.join /\ u.done = v.done /\ u.worker = TRUE
        /\ u.quarantined = v.quarantined /\ u.lost = v.lost /\ u.pending = v.pending /\ u.starting = TRUE /\ u.init = FALSE
    BY Zenon DEF Launches
  <1>2. /\ ViewType(v) /\ OnePhase(v) /\ LifeOK(J, a, v) /\ RunsOK(J, a, v) /\ QueueOK(J, a, v) /\ GenOK(J, a, v)
        /\ HeldOK(J, a, v)
    BY DEF RunOK
  <1>3. /\ v.life # "absent" /\ v.active = 0 /\ v.join = NoJoin /\ ~v.quarantined /\ v.lost = 0 /\ v.pending = NoJoin
        /\ v.cur \notin Range(v.queue) /\ ~Has(J, "terminal", a, v.cur)
        /\ \A n \in Runs : ~Has(J, "started", a, n)
    <2>1. CASE v.parked
      BY <1>2, <2>1 DEF OnePhase, LifeOK, HeldOK
    <2>2. CASE Fresh(J, a, v)
      <3>1. 1 \in Runs
        BY SubagentsAssumption DEF Runs
      <3> QED
        BY <2>2, <3>1, EmptyRange DEF Fresh
    <2> QED
      BY <2>1, <2>2
  <1>4. ViewType(u)
    BY <1>0, <1>2, Zenon DEF ViewType
  <1>5. OnePhase(u)
    BY <1>0, <1>3 DEF OnePhase
  <1>6. LifeOK(J, a, u)
    BY <1>0, <1>2, <1>3 DEF LifeOK
  <1>7. RunsOK(J, a, u)
    BY <1>0, <1>2 DEF RunsOK
  <1>8. QueueOK(J, a, u)
    BY <1>0, <1>2 DEF QueueOK
  <1>9. GenOK(J, a, u)
    BY <1>0, <1>2 DEF GenOK
  <1>10. HeldOK(J, a, u)
    BY <1>0, <1>3 DEF HeldOK
  <1> QED
    BY <1>3, <1>4, <1>5, <1>6, <1>7, <1>8, <1>9, <1>10 DEF RunOK

(* A reload, or another order of the queue. *)
Reloads(v, u, w) ==
  /\ u.life = v.life /\ u.made = v.made /\ u.cur = v.cur /\ u.gen = v.gen /\ u.active = v.active
  /\ u.queue \in Seq(Runs) /\ IsInjective(u.queue) /\ Range(u.queue) = Range(v.queue)
  /\ u.parked = v.parked /\ u.join = v.join /\ u.done = v.done /\ u.worker = w
  /\ u.quarantined = v.quarantined /\ u.lost = v.lost /\ u.pending = v.pending /\ u.starting = v.starting /\ u.init = v.init

(* A worker is bound again, in the view of the agent. *)
LEMMA ReloadView ==
  ASSUME NEW J, NEW a, NEW v, NEW u, NEW w \in BOOLEAN, RunOK(J, a, v), Reloads(v, u, w), v.life # "absent",
         w = v.worker \/ (~v.parked /\ ~v.quarantined /\ v.lost = 0)
  PROVE  RunOK(J, a, u)
  <1>0. /\ u.life = v.life /\ u.made = v.made /\ u.cur = v.cur /\ u.gen = v.gen /\ u.active = v.active
        /\ u.queue \in Seq(Runs) /\ IsInjective(u.queue) /\ Range(u.queue) = Range(v.queue)
        /\ u.parked = v.parked /\ u.join = v.join /\ u.done = v.done /\ u.worker = w
        /\ u.quarantined = v.quarantined /\ u.lost = v.lost /\ u.pending = v.pending /\ u.starting = v.starting /\ u.init = v.init
    BY Zenon DEF Reloads
  <1>2. /\ ViewType(v) /\ OnePhase(v) /\ LifeOK(J, a, v) /\ RunsOK(J, a, v) /\ QueueOK(J, a, v) /\ GenOK(J, a, v)
        /\ HeldOK(J, a, v)
    BY DEF RunOK
  <1>4. ViewType(u)
    BY <1>0, <1>2 DEF ViewType
  <1>5. OnePhase(u)
    BY <1>0, <1>2 DEF OnePhase
  <1>6. LifeOK(J, a, u)
    BY <1>0, <1>2 DEF LifeOK
  <1>7. RunsOK(J, a, u)
    BY <1>0, <1>2 DEF RunsOK
  <1>8. QueueOK(J, a, u)
    BY <1>0, <1>2 DEF QueueOK
  <1>9. GenOK(J, a, u)
    BY <1>0, <1>2 DEF GenOK
  <1>10. HeldOK(J, a, u)
    BY <1>0, <1>2 DEF HeldOK
  <1> QED
    BY <1>4, <1>5, <1>6, <1>7, <1>8, <1>9, <1>10 DEF RunOK

-----------------------------------------------------------------------------
(* The same changes of the heap *)

(* From h to g only agent a changes, in the fields S; leases, jobs and residents stay. *)
Touches(h, g, a, S) ==
  /\ Only(h, g, S) /\ S \cap (LeaseFields \cup {"jobs", "resident"}) = {}
  /\ \A y \in S \cap AgentFields : g[y] = [b \in Agents |-> g[y][b]]
  /\ MiscInv(g) /\ \A b \in Agents \ {a} : View(g, b) = View(h, b)
  /\ g.life[a] # "absent" /\ (<<"load", a>> \in Range(h.jobs) => ~g.parked[a])

(* A change at one agent leaves leases, jobs and residents fine. *)
LEMMA TouchRest ==
  ASSUME NEW F, NEW h, NEW g, NEW a \in Agents, NEW S, Fine(F, h), Touches(h, g, a, S)
  PROVE  Whole(g) /\ ResidentsOK(g) /\ LeaseInv(g) /\ MiscInv(g) /\ JobsOK(g)
  <1>1. /\ Only(h, g, S) /\ S \cap LeaseFields = {} /\ "resident" \notin S /\ "jobs" \notin S
        /\ \A y \in S \cap AgentFields : g[y] = [b \in Agents |-> g[y][b]]
        /\ MiscInv(g) /\ \A b \in Agents \ {a} : View(g, b) = View(h, b)
        /\ g.life[a] # "absent" /\ (<<"load", a>> \in Range(h.jobs) => ~g.parked[a])
    BY DEF Touches
  <1>5. Whole(g) /\ ResidentsOK(g) /\ LeaseInv(g)
    BY <1>1, KeepWhole, KeepResidents, KeepLeases DEF Fine
  <1>6. g.jobs = h.jobs
    BY <1>1 DEF Only, Fields
  <1>7. \A b \in Agents \ {a} : g.life[b] = h.life[b] /\ g.parked[b] = h.parked[b]
    BY <1>1, ViewFields
  <1>8. JobsOK(g)
    BY <1>1, <1>6, <1>7 DEF Fine, JobsOK
  <1> QED
    BY <1>1, <1>5, <1>8

(* A change at one agent that appends nothing. *)
LEMMA PlainChange ==
  ASSUME NEW F, NEW h, NEW g, NEW a \in Agents, NEW S, Fine(F, h), Touches(h, g, a, S), g.log = h.log,
         RunOK(Of(F \cup Range(h.log), a), a, View(g, a))
  PROVE  Fine(F, g)
  <1>1. Whole(g) /\ ResidentsOK(g) /\ LeaseInv(g) /\ MiscInv(g) /\ JobsOK(g)
    BY TouchRest
  <1>2. g.life[a] # "absent" /\ \A b \in Agents \ {a} : View(g, b) = View(h, b)
    BY DEF Touches
  <1> DEFINE E == F \cup Range(h.log)
  <1>3. RunInv(E, h)
    BY DEF Fine
  <1>4. RunInv(E, g)
    BY <1>2, <1>3, OneAgent
  <1> QED
    BY <1>1, <1>4, FineAfter

(* A change at one agent that appends one fact. *)
LEMMA FactChange ==
  ASSUME NEW F, NEW h, NEW g, NEW a \in Agents, NEW S, NEW f \in FactType, Fine(F, h), Touches(h, g, a, S),
         g.log = Append(h.log, f), f[2] = a, f[1] # "spawned", h.life[a] # "absent",
         RunOK(Of(F \cup Range(h.log), a) \cup {f}, a, View(g, a))
  PROVE  Fine(F, g)
  <1>1. Whole(g) /\ ResidentsOK(g) /\ LeaseInv(g) /\ MiscInv(g) /\ JobsOK(g)
    BY TouchRest
  <1> DEFINE E == F \cup Range(h.log)
  <1>2. /\ f \in FactType /\ f[2] = a /\ f[1] # "spawned" /\ RunInv(E, h)
        /\ \A b \in Agents \ {a} : View(g, b) = View(h, b)
        /\ RunOK(Of(E, a) \cup {f}, a, View(g, a)) /\ h.life[a] # "absent" /\ g.life[a] # "absent"
    BY DEF Touches, Fine
  <1>3. RunInv(E \cup {f}, g)
    <2> HIDE DEF E
    <2> QED
      BY ONLY <1>2, a \in Agents, OneFact
  <1> QED
    BY <1>1, <1>3, FineAfterFact

(* spawn: the new agent comes after every other, its parent among them. *)
LEMMA SpawnChange ==
  ASSUME NEW F, NEW h, NEW g, NEW a \in Agents, NEW S, NEW f \in FactType, Fine(F, h), Touches(h, g, a, S),
         g.log = Append(h.log, f), f[2] = a, f[3] < a, \A b \in Agents : b < a => h.life[b] # "absent",
         RunOK(Of(F \cup Range(h.log), a) \cup {f}, a, View(g, a))
  PROVE  Fine(F, g)
  <1>1. Whole(g) /\ ResidentsOK(g) /\ LeaseInv(g) /\ MiscInv(g) /\ JobsOK(g)
    BY TouchRest
  <1> DEFINE E == F \cup Range(h.log)
  <1>2. /\ RunInv(E, h) /\ \A b \in Agents \ {a} : View(g, b) = View(h, b)
        /\ RunOK(Of(E, a) \cup {f}, a, View(g, a)) /\ g.life[a] # "absent"
    BY DEF Touches, Fine
  <1> HIDE DEF E
  <1>3. ASSUME NEW b \in Agents PROVE RunOK(Of(E \cup {f}, b), b, View(g, b))
    <2>1. CASE b = a
      <3>1. Of(E \cup {f}, b) = Of(E, a) \cup {f}
        BY <2>1, AddedOf, Zenon
      <3> QED
        BY <1>2, <2>1, <3>1, Zenon
    <2>2. CASE b # a
      <3>1. Of(E \cup {f}, b) = Of(E, b) /\ View(g, b) = View(h, b)
        BY <1>2, <2>2, AddedOf, Zenon
      <3> QED
        BY <1>2, <3>1 DEF RunInv
    <2> QED
      BY <2>1, <2>2
  <1>4. \A b \in Agents \ {a} : g.life[b] = h.life[b]
    BY <1>2, Zenon DEF View
  <1>5. E \cup {f} \subseteq FactType /\ \A e \in E \cup {f} : e[1] = "spawned" => e[3] < e[2]
    BY <1>2 DEF RunInv
  <1>6. \A b, c \in Agents : c < b /\ g.life[b] # "absent" => g.life[c] # "absent"
    BY <1>2, <1>4 DEF RunInv
  <1>7. RunInv(E \cup {f}, g)
    BY <1>3, <1>5, <1>6, Zenon DEF RunInv
  <1> QED
    BY <1>1, <1>7, FineAfterFact DEF E

(* finalizeGeneration up to the release of the lease. *)
JoinRun(h, a, o) ==
  Append1([h EXCEPT !.active[a] = 0, !.intr[a] = FALSE, !.ckpt[a] = h.worker[a], !.join[a] = <<h.active[a], o>>,
                    !.after[a] = Len(h.jobs)],
          <<"settled", a, h.active[a], o>>)

(* finalizeGeneration up to the release of the lease. *)
LEMMA JoinRunFine ==
  ASSUME NEW F, NEW h, NEW a \in Agents, NEW o \in Outcomes, Fine(F, h), h.active[a] # 0,
         h.chain \notin {<<"startup", a>>, <<"initialize", a>>}
  PROVE  Fine(F, JoinRun(h, a, o)) /\ Only(h, JoinRun(h, a, o), {"active", "intr", "ckpt", "join", "after", "log"})
         /\ JoinRun(h, a, o).join[a] # NoJoin
  <1> DEFINE g == JoinRun(h, a, o)
             S == {"active", "intr", "ckpt", "join", "after", "log"}
             f == <<"settled", a, h.active[a], o>>
  <1>1. /\ Only(h, g, S)
        /\ g.active = [h.active EXCEPT ![a] = 0]
        /\ g.intr = [h.intr EXCEPT ![a] = FALSE]
        /\ g.ckpt = [h.ckpt EXCEPT ![a] = h.worker[a]]
        /\ g.join = [h.join EXCEPT ![a] = <<h.active[a], o>>]
        /\ g.after = [h.after EXCEPT ![a] = Len(h.jobs)]
        /\ g.log = Append(h.log, f)
    BY Zenon DEF Fine, Whole, Only, Fields, JoinRun, Append1
  <1> HIDE DEF g
  <1>2. h.active = [b \in Agents |-> h.active[b]] /\ h.join = [b \in Agents |-> h.join[b]]
    BY DEF Fine, Whole, AgentFields
  <1>3. /\ g.life = h.life /\ g.made = h.made /\ g.cur = h.cur /\ g.gen = h.gen /\ g.queue = h.queue
        /\ g.parked = h.parked /\ g.done = h.done /\ g.worker = h.worker /\ g.quarantined = h.quarantined /\ g.lost = h.lost
        /\ g.pendingSettle = h.pendingSettle /\ g.chain = h.chain /\ g.jobs = h.jobs /\ g.parent = h.parent /\ g.joinInterrupted = h.joinInterrupted
        /\ g.held = h.held /\ g.wait = h.wait
    BY <1>1 DEF Only, Fields
  <1>4. /\ g.active = [b \in Agents |-> g.active[b]] /\ g.active[a] = 0
        /\ g.join = [b \in Agents |-> g.join[b]] /\ g.join[a] = <<h.active[a], o>>
    BY <1>1, <1>2, Zenon
  <1>5. \A b \in Agents \ {a} : g.active[b] = h.active[b] /\ g.join[b] = h.join[b]
    BY <1>1, <1>2
  <1>6. \A b \in Agents \ {a} : View(g, b) = View(h, b)
    BY <1>5, <1>3 DEF View
  <1>7. \A y \in S \cap AgentFields : g[y] = [b \in Agents |-> g[y][b]]
    BY <1>4, <1>3 DEF AgentFields
  <1>8. MiscInv(g)
    <2>1. Len(h.jobs) \in Nat /\ h.worker[a] \in BOOLEAN
      <3>1. View(h, a).worker \in BOOLEAN
        BY FineView, Zenon DEF RunOK, ViewType
      <3> QED
        BY <3>1, ViewFields DEF Fine, JobsOK
    <2> QED
      BY <1>1, <1>3, <2>1 DEF Fine, MiscInv
  <1> DEFINE J == Of(F \cup Range(h.log), a)
             v == View(h, a)
             u == View(g, a)
  <1>9. /\ v.life = h.life[a] /\ v.made = h.made[a] /\ v.cur = h.cur[a] /\ v.gen = h.gen[a] /\ v.active = h.active[a]
        /\ v.queue = h.queue[a] /\ v.parked = h.parked[a] /\ v.join = h.join[a] /\ v.done = h.done[a] /\ v.worker = h.worker[a]
        /\ v.quarantined = h.quarantined[a] /\ v.lost = h.lost[a] /\ v.pending = h.pendingSettle[a]
        /\ v.starting = (h.chain = <<"startup", a>>)
        /\ v.init = (h.chain = <<"initialize", a>>)
    BY ONLY ViewFields
  <1>10. /\ u.life = v.life /\ u.made = v.made /\ u.cur = v.cur /\ u.gen = v.gen /\ u.queue = v.queue
         /\ u.parked = v.parked /\ u.done = v.done /\ u.worker = v.worker /\ u.quarantined = v.quarantined /\ u.lost = v.lost
         /\ u.pending = v.pending
    BY <1>3, ViewFields
  <1>11. u.active = 0 /\ u.join = <<h.active[a], o>>
    BY <1>4 DEF View
  <1>12. u.starting = v.starting /\ u.init = v.init
    BY <1>1, <1>3 DEF View, Idle
  <1>13. RunOK(J, a, v)
    BY FineView
  <1> HIDE DEF J, u, v
  <1>14. Joins(v, u, o)
    BY <1>9, <1>10, <1>11, <1>12, Zenon DEF Joins
  <1>15. RunOK(Adds(J, "settled", a, v.active, o), a, u) /\ v.active \in Runs /\ v.life # "absent"
    BY <1>13, <1>14, JoinView
  <1>16. f \in FactType /\ f[2] = a /\ f[1] = "settled"
    BY <1>9, <1>15, FactTypes, Zenon
  <1>20. RunOK(J \cup {f}, a, u)
    BY <1>9, <1>15 DEF Adds
  <1>17. h.life[a] # "absent" /\ g.life[a] # "absent" /\ (<<"load", a>> \in Range(h.jobs) => ~g.parked[a])
    BY <1>3, <1>9, <1>15 DEF Fine, JobsOK
  <1>18. Touches(h, g, a, S)
    <2>1. S \cap (LeaseFields \cup {"jobs", "resident"}) = {}
      BY DEF LeaseFields
    <2> QED
      BY <1>1, <1>6, <1>7, <1>8, <1>17, <2>1, Zenon DEF Touches
  <1> HIDE DEF f, S
  <1>21. g.join[a] # NoJoin
    BY <1>4, <1>9, <1>15, SubagentsAssumption DEF NoJoin, Runs
  <1>19. Fine(F, g)
    BY <1>1, <1>16, <1>17, <1>18, <1>20, FactChange, Zenon DEF J, u
  <1> QED
    BY <1>1, <1>19, <1>21 DEF g, S

(* generation.settled, for a run that is not held any more. *)
Told(h, a, n, o) ==
  Append1(h, <<"settled", a, n, o>>)

(* A settled fact for a run that is lost or being retired. *)
LEMMA ToldFine ==
  ASSUME NEW F, NEW h, NEW a \in Agents, NEW n \in Runs, NEW o \in Outcomes, Fine(F, h),
         Has(F \cup Range(h.log), "started", a, n), h.active[a] # 0 \/ h.join[a] # NoJoin => h.cur[a] # n
  PROVE  Fine(F, Told(h, a, n, o)) /\ Only(h, Told(h, a, n, o), {"log"})
  <1> DEFINE g == Told(h, a, n, o)
             S == {"log"}
             f == <<"settled", a, n, o>>
  <1>1. /\ Only(h, g, S)
        /\ g.log = Append(h.log, f)
    BY DEF Fine, Whole, Only, Fields, Told, Append1
  <1> HIDE DEF g
  <1>3. /\ g.life = h.life /\ g.made = h.made /\ g.cur = h.cur /\ g.gen = h.gen /\ g.active = h.active
        /\ g.queue = h.queue /\ g.parked = h.parked /\ g.join = h.join /\ g.done = h.done /\ g.worker = h.worker
        /\ g.quarantined = h.quarantined /\ g.lost = h.lost /\ g.pendingSettle = h.pendingSettle /\ g.chain = h.chain /\ g.jobs = h.jobs
        /\ g.parent = h.parent /\ g.intr = h.intr /\ g.joinInterrupted = h.joinInterrupted /\ g.ckpt = h.ckpt /\ g.held = h.held
        /\ g.after = h.after /\ g.wait = h.wait
    BY <1>1 DEF Only, Fields
  <1>6. \A b \in Agents \ {a} : View(g, b) = View(h, b)
    BY <1>3 DEF View
  <1>7. \A y \in S \cap AgentFields : g[y] = [b \in Agents |-> g[y][b]]
    BY <1>3 DEF AgentFields
  <1>8. MiscInv(g)
    BY <1>3 DEF Fine, MiscInv
  <1> DEFINE J == Of(F \cup Range(h.log), a)
             v == View(h, a)
             u == View(g, a)
  <1>9. /\ v.life = h.life[a] /\ v.made = h.made[a] /\ v.cur = h.cur[a] /\ v.gen = h.gen[a] /\ v.active = h.active[a]
        /\ v.queue = h.queue[a] /\ v.parked = h.parked[a] /\ v.join = h.join[a] /\ v.done = h.done[a] /\ v.worker = h.worker[a]
        /\ v.quarantined = h.quarantined[a] /\ v.lost = h.lost[a] /\ v.pending = h.pendingSettle[a]
        /\ v.starting = (h.chain = <<"startup", a>>)
        /\ v.init = (h.chain = <<"initialize", a>>)
    BY ONLY ViewFields
  <1>10. /\ u.life = v.life /\ u.made = v.made /\ u.cur = v.cur /\ u.gen = v.gen /\ u.active = v.active
         /\ u.queue = v.queue /\ u.parked = v.parked /\ u.join = v.join /\ u.done = v.done /\ u.worker = v.worker
         /\ u.quarantined = v.quarantined /\ u.lost = v.lost /\ u.pending = v.pending
    BY <1>3, ViewFields
  <1>12. u.starting = v.starting /\ u.init = v.init
    BY <1>1, <1>3 DEF View, Idle
  <1>13. RunOK(J, a, v)
    BY FineView
  <1> HIDE DEF J, u, v
  <1>14. u = v /\ (v.active # 0 \/ v.join # NoJoin => v.cur # n) /\ Has(J, "started", a, n)
    <2>1. u = v
      BY <1>3 DEF View, u, v
    <2>2. Has(J, "started", a, n)
      BY FactsOf DEF J
    <2> QED
      BY <1>9, <2>1, <2>2
  <1>15. RunOK(Adds(J, "settled", a, n, o), a, u) /\ v.life # "absent"
    BY <1>13, <1>14, ToldView
  <1>16. f \in FactType /\ f[2] = a /\ f[1] = "settled"
    BY <1>9, <1>15, FactTypes, Zenon
  <1>20. RunOK(J \cup {f}, a, u)
    BY <1>15 DEF Adds
  <1>17. h.life[a] # "absent" /\ g.life[a] # "absent" /\ (<<"load", a>> \in Range(h.jobs) => ~g.parked[a])
    BY <1>3, <1>9, <1>15 DEF Fine, JobsOK
  <1>18. Touches(h, g, a, S)
    <2>1. S \cap (LeaseFields \cup {"jobs", "resident"}) = {}
      BY DEF LeaseFields
    <2> QED
      BY <1>1, <1>6, <1>7, <1>8, <1>17, <2>1, Zenon DEF Touches
  <1> HIDE DEF f, S
  <1>19. Fine(F, g)
    BY <1>1, <1>16, <1>17, <1>18, <1>20, FactChange, Zenon DEF J, u
  <1> QED
    BY <1>1, <1>19 DEF g, S

(* agent.quarantined, while the lost run is dealt with. *)
Quarantine(h, a) ==
  Append1([h EXCEPT !.quarantined[a] = TRUE], <<"quarantined", a>>)

(* reconcileLostRun quarantines the agent. *)
LEMMA QuarantineFine ==
  ASSUME NEW F, NEW h, NEW a \in Agents, Fine(F, h), h.lost[a] # 0
  PROVE  Fine(F, Quarantine(h, a)) /\ Only(h, Quarantine(h, a), {"quarantined", "log"})
  <1> DEFINE g == Quarantine(h, a)
             S == {"quarantined", "log"}
             f == <<"quarantined", a>>
  <1>1. /\ Only(h, g, S)
        /\ g.quarantined = [h.quarantined EXCEPT ![a] = TRUE]
        /\ g.log = Append(h.log, f)
    BY Zenon DEF Fine, Whole, Only, Fields, Quarantine, Append1
  <1> HIDE DEF g
  <1>2. h.quarantined = [b \in Agents |-> h.quarantined[b]]
    BY DEF Fine, Whole, AgentFields
  <1>3. /\ g.life = h.life /\ g.made = h.made /\ g.cur = h.cur /\ g.gen = h.gen /\ g.active = h.active
        /\ g.queue = h.queue /\ g.parked = h.parked /\ g.join = h.join /\ g.done = h.done /\ g.worker = h.worker
        /\ g.lost = h.lost /\ g.pendingSettle = h.pendingSettle /\ g.chain = h.chain /\ g.jobs = h.jobs /\ g.parent = h.parent
        /\ g.intr = h.intr /\ g.joinInterrupted = h.joinInterrupted /\ g.ckpt = h.ckpt /\ g.held = h.held /\ g.after = h.after
        /\ g.wait = h.wait
    BY <1>1 DEF Only, Fields
  <1>4. /\ g.quarantined = [b \in Agents |-> g.quarantined[b]] /\ g.quarantined[a] = TRUE
    BY <1>1, <1>2, Zenon
  <1>5. \A b \in Agents \ {a} : g.quarantined[b] = h.quarantined[b]
    BY <1>1, <1>2
  <1>6. \A b \in Agents \ {a} : View(g, b) = View(h, b)
    BY <1>5, <1>3 DEF View
  <1>7. \A y \in S \cap AgentFields : g[y] = [b \in Agents |-> g[y][b]]
    BY <1>4, <1>3 DEF AgentFields
  <1>8. MiscInv(g)
    BY <1>3 DEF Fine, MiscInv
  <1> DEFINE J == Of(F \cup Range(h.log), a)
             v == View(h, a)
             u == View(g, a)
  <1>9. /\ v.life = h.life[a] /\ v.made = h.made[a] /\ v.cur = h.cur[a] /\ v.gen = h.gen[a] /\ v.active = h.active[a]
        /\ v.queue = h.queue[a] /\ v.parked = h.parked[a] /\ v.join = h.join[a] /\ v.done = h.done[a] /\ v.worker = h.worker[a]
        /\ v.quarantined = h.quarantined[a] /\ v.lost = h.lost[a] /\ v.pending = h.pendingSettle[a]
        /\ v.starting = (h.chain = <<"startup", a>>)
        /\ v.init = (h.chain = <<"initialize", a>>)
    BY ONLY ViewFields
  <1>10. /\ u.life = v.life /\ u.made = v.made /\ u.cur = v.cur /\ u.gen = v.gen /\ u.active = v.active
         /\ u.queue = v.queue /\ u.parked = v.parked /\ u.join = v.join /\ u.done = v.done /\ u.worker = v.worker
         /\ u.lost = v.lost /\ u.pending = v.pending
    BY <1>3, ViewFields
  <1>11. u.quarantined = TRUE
    BY <1>4 DEF View
  <1>12. u.starting = v.starting /\ u.init = v.init
    BY <1>1, <1>3 DEF View, Idle
  <1>13. RunOK(J, a, v)
    BY FineView
  <1> HIDE DEF J, u, v
  <1>14. Alike(v, u) /\ u.life = v.life /\ v.life # "absent" /\ ~v.parked /\ ~v.starting /\ v.active = 0 /\ ~v.worker
    <2>1. Sound(h, a)
      BY AgentIs
    <2>2. ~h.parked[a] /\ h.chain # <<"startup", a>> /\ h.active[a] = 0 /\ ~h.worker[a] /\ h.life[a] # "absent"
      BY <2>1, Zenon DEF Sound
    <2>3. Alike(v, u)
      BY <1>9, <1>10, <1>11, <1>12, Zenon DEF Alike
    <2> QED
      BY <1>9, <1>10, <2>2, <2>3, Zenon
  <1>15. RunOK(J \cup {f}, a, u) /\ v.life # "absent"
    <2>1. f[2] = a /\ f[1] = "quarantined"
      OBVIOUS
    <2> HIDE DEF f
    <2> QED
      BY <1>11, <1>13, <1>14, <2>1, MarkView, Zenon
  <1>16. f \in FactType /\ f[2] = a /\ f[1] = "quarantined"
    BY <1>9, <1>15, FactTypes, Zenon
  <1>17. h.life[a] # "absent" /\ g.life[a] # "absent" /\ (<<"load", a>> \in Range(h.jobs) => ~g.parked[a])
    BY <1>3, <1>9, <1>15 DEF Fine, JobsOK
  <1>18. Touches(h, g, a, S)
    <2>1. S \cap (LeaseFields \cup {"jobs", "resident"}) = {}
      BY DEF LeaseFields
    <2> QED
      BY <1>1, <1>6, <1>7, <1>8, <1>17, <2>1, Zenon DEF Touches
  <1> HIDE DEF f, S
  <1>19. Fine(F, g)
    BY <1>1, <1>15, <1>16, <1>17, <1>18, FactChange, Zenon DEF J, u
  <1> QED
    BY <1>1, <1>19 DEF g, S

(* agent.closed *)
MarkClosed(h, a) ==
  Append1([h EXCEPT !.life[a] = "closed"], <<"closed", a>>)

(* The last line of retire. *)
LEMMA MarkClosedFine ==
  ASSUME NEW F, NEW h, NEW a \in Agents, Fine(F, h), h.life[a] = "closing"
  PROVE  Fine(F, MarkClosed(h, a)) /\ Only(h, MarkClosed(h, a), {"life", "log"})
  <1> DEFINE g == MarkClosed(h, a)
             S == {"life", "log"}
             f == <<"closed", a>>
  <1>1. /\ Only(h, g, S)
        /\ g.life = [h.life EXCEPT ![a] = "closed"]
        /\ g.log = Append(h.log, f)
    BY Zenon DEF Fine, Whole, Only, Fields, MarkClosed, Append1
  <1> HIDE DEF g
  <1>2. h.life = [b \in Agents |-> h.life[b]]
    BY DEF Fine, Whole, AgentFields
  <1>3. /\ g.made = h.made /\ g.cur = h.cur /\ g.gen = h.gen /\ g.active = h.active /\ g.queue = h.queue
        /\ g.parked = h.parked /\ g.join = h.join /\ g.done = h.done /\ g.worker = h.worker /\ g.quarantined = h.quarantined
        /\ g.lost = h.lost /\ g.pendingSettle = h.pendingSettle /\ g.chain = h.chain /\ g.jobs = h.jobs /\ g.parent = h.parent
        /\ g.intr = h.intr /\ g.joinInterrupted = h.joinInterrupted /\ g.ckpt = h.ckpt /\ g.held = h.held /\ g.after = h.after
        /\ g.wait = h.wait
    BY <1>1 DEF Only, Fields
  <1>4. /\ g.life = [b \in Agents |-> g.life[b]] /\ g.life[a] = "closed"
    BY <1>1, <1>2
  <1>5. \A b \in Agents \ {a} : g.life[b] = h.life[b]
    BY <1>1, <1>2
  <1>6. \A b \in Agents \ {a} : View(g, b) = View(h, b)
    BY <1>5, <1>3 DEF View
  <1>7. \A y \in S \cap AgentFields : g[y] = [b \in Agents |-> g[y][b]]
    BY <1>4, <1>3 DEF AgentFields
  <1>8. MiscInv(g)
    BY <1>3 DEF Fine, MiscInv
  <1> DEFINE J == Of(F \cup Range(h.log), a)
             v == View(h, a)
             u == View(g, a)
  <1>9. /\ v.life = h.life[a] /\ v.made = h.made[a] /\ v.cur = h.cur[a] /\ v.gen = h.gen[a] /\ v.active = h.active[a]
        /\ v.queue = h.queue[a] /\ v.parked = h.parked[a] /\ v.join = h.join[a] /\ v.done = h.done[a] /\ v.worker = h.worker[a]
        /\ v.quarantined = h.quarantined[a] /\ v.lost = h.lost[a] /\ v.pending = h.pendingSettle[a]
        /\ v.starting = (h.chain = <<"startup", a>>)
        /\ v.init = (h.chain = <<"initialize", a>>)
    BY ONLY ViewFields
  <1>10. /\ u.made = v.made /\ u.cur = v.cur /\ u.gen = v.gen /\ u.active = v.active /\ u.queue = v.queue
         /\ u.parked = v.parked /\ u.join = v.join /\ u.done = v.done /\ u.worker = v.worker /\ u.quarantined = v.quarantined
         /\ u.lost = v.lost /\ u.pending = v.pending
    <2>1. /\ u.made = g.made[a] /\ u.cur = g.cur[a] /\ u.gen = g.gen[a] /\ u.active = g.active[a] /\ u.queue = g.queue[a]
          /\ u.parked = g.parked[a] /\ u.join = g.join[a] /\ u.done = g.done[a] /\ u.worker = g.worker[a]
          /\ u.quarantined = g.quarantined[a] /\ u.lost = g.lost[a] /\ u.pending = g.pendingSettle[a]
      BY ONLY ViewFields
    <2> HIDE DEF u, v
    <2> QED
      BY <1>3, <1>9, <2>1
  <1>11. u.life = "closed"
    BY <1>4 DEF View
  <1>12. u.starting = v.starting /\ u.init = v.init
    BY <1>1, <1>3 DEF View, Idle
  <1>13. RunOK(J, a, v)
    BY FineView
  <1> HIDE DEF J, u, v
  <1>14. Alike(v, u) /\ v.life = "closing" /\ u.life = "closed" /\ u.quarantined = v.quarantined
    <2>1. Alike(v, u)
      BY <1>9, <1>10, <1>11, <1>12, Zenon DEF Alike
    <2> QED
      BY <1>9, <1>10, <1>11, <2>1
  <1>15. RunOK(J \cup {f}, a, u) /\ v.life # "absent"
    <2>1. f[2] = a /\ f[1] = "closed"
      OBVIOUS
    <2> HIDE DEF f
    <2> QED
      BY <1>13, <1>14, <2>1, MarkView, Zenon
  <1>16. f \in FactType /\ f[2] = a /\ f[1] = "closed"
    BY <1>9, <1>15, FactTypes, Zenon
  <1>17. h.life[a] # "absent" /\ g.life[a] # "absent" /\ (<<"load", a>> \in Range(h.jobs) => ~g.parked[a])
    BY <1>3, <1>4, <1>9, <1>15 DEF Fine, JobsOK
  <1>18. Touches(h, g, a, S)
    <2>1. S \cap (LeaseFields \cup {"jobs", "resident"}) = {}
      BY DEF LeaseFields
    <2> QED
      BY <1>1, <1>6, <1>7, <1>8, <1>17, <2>1, Zenon DEF Touches
  <1> HIDE DEF f, S
  <1>19. Fine(F, g)
    BY <1>1, <1>15, <1>16, <1>17, <1>18, FactChange, Zenon DEF J, u
  <1> QED
    BY <1>1, <1>19 DEF g, S

(* continueStartup after launchWorker. *)
Prompt(h, a) == [h EXCEPT !.chain = <<"initialize", a>>, !.active[a] = h.cur[a], !.intr[a] = FALSE]

(* A launched worker is told to initialize. *)
LEMMA PromptFine ==
  ASSUME NEW F, NEW h, NEW a \in Agents, Fine(F, h), h.chain = <<"startup", a>>
  PROVE  Fine(F, Prompt(h, a)) /\ Only(h, Prompt(h, a), {"active", "intr", "chain"})
  <1> DEFINE g == Prompt(h, a)
             S == {"active", "intr", "chain"}
  <1>1. /\ Only(h, g, S)
        /\ g.active = [h.active EXCEPT ![a] = h.cur[a]]
        /\ g.intr = [h.intr EXCEPT ![a] = FALSE]
        /\ g.chain = <<"initialize", a>>
    BY Zenon DEF Fine, Whole, Only, Fields, Prompt
  <1> HIDE DEF g
  <1>2. h.active = [b \in Agents |-> h.active[b]]
    BY DEF Fine, Whole, AgentFields
  <1>3. /\ g.life = h.life /\ g.made = h.made /\ g.cur = h.cur /\ g.gen = h.gen /\ g.queue = h.queue
        /\ g.parked = h.parked /\ g.join = h.join /\ g.done = h.done /\ g.worker = h.worker /\ g.quarantined = h.quarantined
        /\ g.lost = h.lost /\ g.pendingSettle = h.pendingSettle /\ g.jobs = h.jobs /\ g.parent = h.parent /\ g.joinInterrupted = h.joinInterrupted
        /\ g.ckpt = h.ckpt /\ g.held = h.held /\ g.wait = h.wait /\ g.after = h.after /\ g.log = h.log
    BY <1>1 DEF Only, Fields
  <1>4. /\ g.active = [b \in Agents |-> g.active[b]] /\ g.active[a] = h.cur[a]
    BY <1>1, <1>2
  <1>5. \A b \in Agents \ {a} : g.active[b] = h.active[b]
    BY <1>1, <1>2
  <1>6. \A b \in Agents \ {a} : View(g, b) = View(h, b)
    <2>1. \A b \in Agents \ {a} : /\ (g.chain = <<"startup", b>>) = (h.chain = <<"startup", b>>)
                                 /\ (g.chain = <<"initialize", b>>) = (h.chain = <<"initialize", b>>)
      BY <1>1
    <2> QED
      BY <1>5, <1>3, <2>1 DEF View
  <1>7. \A y \in S \cap AgentFields : g[y] = [b \in Agents |-> g[y][b]]
    BY <1>4, <1>3 DEF AgentFields
  <1>8. MiscInv(g)
    BY <1>1, <1>3 DEF Fine, MiscInv
  <1> DEFINE J == Of(F \cup Range(h.log), a)
             v == View(h, a)
             u == View(g, a)
  <1>9. /\ v.life = h.life[a] /\ v.made = h.made[a] /\ v.cur = h.cur[a] /\ v.gen = h.gen[a] /\ v.active = h.active[a]
        /\ v.queue = h.queue[a] /\ v.parked = h.parked[a] /\ v.join = h.join[a] /\ v.done = h.done[a] /\ v.worker = h.worker[a]
        /\ v.quarantined = h.quarantined[a] /\ v.lost = h.lost[a] /\ v.pending = h.pendingSettle[a]
        /\ v.starting = (h.chain = <<"startup", a>>)
        /\ v.init = (h.chain = <<"initialize", a>>)
    BY ONLY ViewFields
  <1>10. /\ u.life = v.life /\ u.made = v.made /\ u.cur = v.cur /\ u.gen = v.gen /\ u.queue = v.queue
         /\ u.parked = v.parked /\ u.join = v.join /\ u.done = v.done /\ u.worker = v.worker /\ u.quarantined = v.quarantined
         /\ u.lost = v.lost /\ u.pending = v.pending
    BY <1>3, ViewFields
  <1>11. u.active = h.cur[a]
    BY <1>4 DEF View
  <1>12. u.starting = FALSE /\ u.init = TRUE /\ v.init = FALSE
    <2>1. ~(g.chain = <<"startup", a>>) /\ g.chain = <<"initialize", a>> /\ h.chain # <<"initialize", a>>
      BY <1>1
    <2>2. (g.chain = <<"startup", a>>) = FALSE /\ (g.chain = <<"initialize", a>>) = TRUE /\ (h.chain = <<"initialize", a>>) = FALSE
      BY <2>1
    <2> QED
      BY <2>2, Zenon DEF View
  <1>13. RunOK(J, a, v)
    BY FineView
  <1> HIDE DEF J, u, v
  <1>14. Runs1(v, u)
    BY <1>9, <1>10, <1>11, <1>12, Zenon DEF Runs1
  <1>15. RunOK(J, a, u) /\ v.life # "absent"
    BY <1>13, <1>14, RunsView
  <1>17. h.life[a] # "absent" /\ g.life[a] # "absent" /\ (<<"load", a>> \in Range(h.jobs) => ~g.parked[a])
    BY <1>3, <1>9, <1>15 DEF Fine, JobsOK
  <1>18. Touches(h, g, a, S)
    <2>1. S \cap (LeaseFields \cup {"jobs", "resident"}) = {}
      BY DEF LeaseFields
    <2> QED
      BY <1>1, <1>6, <1>7, <1>8, <1>17, <2>1, Zenon DEF Touches
  <1> HIDE DEF S
  <1>19. Fine(F, g)
    BY <1>3, <1>15, <1>18, PlainChange DEF J, u
  <1> QED
    BY <1>1, <1>19 DEF g, S

(* continueStartup after its last await. *)
Begin(h, a) ==
  Append1([h EXCEPT !.chain = Idle, !.after[a] = Len(h.jobs)],
          <<"started", a, h.cur[a], h.gen[a]>>)

(* continueStartup publishes the start. *)
LEMMA BeginFine ==
  ASSUME NEW F, NEW h, NEW a \in Agents, Fine(F, h), h.chain = <<"initialize", a>>
  PROVE  Fine(F, Begin(h, a)) /\ Only(h, Begin(h, a), {"after", "chain", "log"})
  <1> DEFINE g == Begin(h, a)
             S == {"after", "chain", "log"}
             f == <<"started", a, h.cur[a], h.gen[a]>>
  <1>1. /\ Only(h, g, S)
        /\ g.after = [h.after EXCEPT ![a] = Len(h.jobs)]
        /\ g.log = Append(h.log, f)
        /\ g.chain = Idle
    BY Zenon DEF Fine, Whole, Only, Fields, Begin, Append1
  <1> HIDE DEF g
  <1>3. /\ g.life = h.life /\ g.made = h.made /\ g.cur = h.cur /\ g.gen = h.gen /\ g.active = h.active /\ g.queue = h.queue
        /\ g.parked = h.parked /\ g.join = h.join /\ g.done = h.done /\ g.worker = h.worker /\ g.quarantined = h.quarantined
        /\ g.lost = h.lost /\ g.pendingSettle = h.pendingSettle /\ g.jobs = h.jobs /\ g.parent = h.parent /\ g.joinInterrupted = h.joinInterrupted
        /\ g.ckpt = h.ckpt /\ g.held = h.held /\ g.wait = h.wait /\ g.intr = h.intr
    BY <1>1 DEF Only, Fields
  <1>6. \A b \in Agents \ {a} : View(g, b) = View(h, b)
    <2>1. \A b \in Agents \ {a} : /\ (g.chain = <<"startup", b>>) = (h.chain = <<"startup", b>>)
                                 /\ (g.chain = <<"initialize", b>>) = (h.chain = <<"initialize", b>>)
      BY <1>1 DEF Idle
    <2> QED
      BY <1>3, <2>1 DEF View
  <1>7. \A y \in S \cap AgentFields : g[y] = [b \in Agents |-> g[y][b]]
    BY DEF AgentFields
  <1>8. MiscInv(g)
    <2>1. Len(h.jobs) \in Nat
      BY DEF Fine, JobsOK
    <2> QED
      BY <1>1, <1>3, <2>1 DEF Fine, MiscInv
  <1> DEFINE J == Of(F \cup Range(h.log), a)
             v == View(h, a)
             u == View(g, a)
  <1>9. /\ v.life = h.life[a] /\ v.made = h.made[a] /\ v.cur = h.cur[a] /\ v.gen = h.gen[a] /\ v.active = h.active[a]
        /\ v.queue = h.queue[a] /\ v.parked = h.parked[a] /\ v.join = h.join[a] /\ v.done = h.done[a] /\ v.worker = h.worker[a]
        /\ v.quarantined = h.quarantined[a] /\ v.lost = h.lost[a] /\ v.pending = h.pendingSettle[a]
        /\ v.starting = (h.chain = <<"startup", a>>)
        /\ v.init = (h.chain = <<"initialize", a>>)
    BY ONLY ViewFields
  <1>10. /\ u.life = v.life /\ u.made = v.made /\ u.cur = v.cur /\ u.gen = v.gen /\ u.active = v.active /\ u.queue = v.queue
         /\ u.parked = v.parked /\ u.join = v.join /\ u.done = v.done /\ u.worker = v.worker /\ u.quarantined = v.quarantined
         /\ u.lost = v.lost /\ u.pending = v.pending
    BY <1>3, ViewFields
  <1>11. v.starting = FALSE
    <2>1. (h.chain = <<"startup", a>>) = FALSE
      OBVIOUS
    <2> QED
      BY <2>1, Zenon DEF View
  <1>12. u.starting = FALSE /\ u.init = FALSE
    <2>1. ~(g.chain = <<"startup", a>>) /\ ~(g.chain = <<"initialize", a>>)
      BY <1>1 DEF Idle
    <2>2. (g.chain = <<"startup", a>>) = FALSE /\ (g.chain = <<"initialize", a>>) = FALSE
      BY <2>1
    <2> QED
      BY <2>2, Zenon DEF View
  <1>13. RunOK(J, a, v)
    BY FineView
  <1> HIDE DEF J, u, v
  <1>14. Begins(v, u)
    BY <1>9, <1>10, <1>11, <1>12, Zenon DEF Begins
  <1>15. RunOK(Adds(J, "started", a, v.cur, v.gen), a, u) /\ v.cur \in Runs /\ v.gen \in Generations /\ v.life # "absent"
    BY <1>13, <1>14, BeginView
  <1>16. f \in FactType /\ f[2] = a /\ f[1] = "started"
    BY <1>9, <1>15, FactTypes, Zenon
  <1>20. RunOK(J \cup {f}, a, u)
    BY <1>9, <1>15 DEF Adds
  <1>17. h.life[a] # "absent" /\ g.life[a] # "absent" /\ (<<"load", a>> \in Range(h.jobs) => ~g.parked[a])
    BY <1>3, <1>9, <1>15 DEF Fine, JobsOK
  <1>18. Touches(h, g, a, S)
    <2>1. S \cap (LeaseFields \cup {"jobs", "resident"}) = {}
      BY DEF LeaseFields
    <2> QED
      BY <1>1, <1>6, <1>7, <1>8, <1>17, <2>1, Zenon DEF Touches
  <1> HIDE DEF f, S
  <1>19. Fine(F, g)
    BY <1>1, <1>16, <1>17, <1>18, <1>20, FactChange, Zenon DEF J, u
  <1> QED
    BY <1>1, <1>19 DEF g, S

(* task.accepted *)
Take(h, a) ==
  Append1([h EXCEPT !.made[a] = h.made[a] + 1, !.queue[a] = Append(@, h.made[a] + 1), !.held[a] = FALSE],
          <<"accepted", a, h.made[a] + 1>>)

(* sendMessage accepts a task. *)
LEMMA TakeFine ==
  ASSUME NEW F, NEW h, NEW a \in Agents, Fine(F, h), h.life[a] = "open", h.made[a] + 1 \in Runs
  PROVE  Fine(F, Take(h, a)) /\ Only(h, Take(h, a), {"made", "queue", "held", "log"})
  <1> DEFINE g == Take(h, a)
             S == {"made", "queue", "held", "log"}
             f == <<"accepted", a, h.made[a] + 1>>
  <1>1. /\ Only(h, g, S)
        /\ g.made = [h.made EXCEPT ![a] = h.made[a] + 1]
        /\ g.queue = [h.queue EXCEPT ![a] = Append(h.queue[a], h.made[a] + 1)]
        /\ g.held = [h.held EXCEPT ![a] = FALSE]
        /\ g.log = Append(h.log, f)
    BY Zenon DEF Fine, Whole, Only, Fields, Take, Append1
  <1> HIDE DEF g
  <1>2. h.made = [b \in Agents |-> h.made[b]] /\ h.queue = [b \in Agents |-> h.queue[b]]
    BY DEF Fine, Whole, AgentFields
  <1>3. /\ g.life = h.life /\ g.cur = h.cur /\ g.gen = h.gen /\ g.active = h.active /\ g.parked = h.parked
        /\ g.join = h.join /\ g.done = h.done /\ g.worker = h.worker /\ g.quarantined = h.quarantined /\ g.lost = h.lost
        /\ g.pendingSettle = h.pendingSettle /\ g.chain = h.chain /\ g.jobs = h.jobs /\ g.parent = h.parent /\ g.intr = h.intr
        /\ g.joinInterrupted = h.joinInterrupted /\ g.ckpt = h.ckpt /\ g.after = h.after /\ g.wait = h.wait
    BY <1>1 DEF Only, Fields
  <1>4. /\ g.made = [b \in Agents |-> g.made[b]] /\ g.made[a] = h.made[a] + 1
        /\ g.queue = [b \in Agents |-> g.queue[b]] /\ g.queue[a] = Append(h.queue[a], h.made[a] + 1)
    BY <1>1, <1>2, Zenon
  <1>5. \A b \in Agents \ {a} : g.made[b] = h.made[b] /\ g.queue[b] = h.queue[b]
    BY <1>1, <1>2
  <1>6. \A b \in Agents \ {a} : View(g, b) = View(h, b)
    BY <1>5, <1>3 DEF View
  <1>7. \A y \in S \cap AgentFields : g[y] = [b \in Agents |-> g[y][b]]
    BY <1>4, <1>3 DEF AgentFields
  <1>8. MiscInv(g)
    BY <1>1, <1>3 DEF Fine, MiscInv
  <1> DEFINE J == Of(F \cup Range(h.log), a)
             v == View(h, a)
             u == View(g, a)
  <1>9. /\ v.life = h.life[a] /\ v.made = h.made[a] /\ v.cur = h.cur[a] /\ v.gen = h.gen[a] /\ v.active = h.active[a]
        /\ v.queue = h.queue[a] /\ v.parked = h.parked[a] /\ v.join = h.join[a] /\ v.done = h.done[a] /\ v.worker = h.worker[a]
        /\ v.quarantined = h.quarantined[a] /\ v.lost = h.lost[a] /\ v.pending = h.pendingSettle[a]
        /\ v.starting = (h.chain = <<"startup", a>>)
        /\ v.init = (h.chain = <<"initialize", a>>)
    BY ONLY ViewFields
  <1>10. /\ u.life = v.life /\ u.cur = v.cur /\ u.gen = v.gen /\ u.active = v.active /\ u.parked = v.parked
         /\ u.join = v.join /\ u.done = v.done /\ u.worker = v.worker /\ u.quarantined = v.quarantined /\ u.lost = v.lost
         /\ u.pending = v.pending
    BY <1>3, ViewFields
  <1>11. u.made = h.made[a] + 1 /\ u.queue = Append(h.queue[a], h.made[a] + 1)
    BY <1>4 DEF View
  <1>12. u.starting = v.starting /\ u.init = v.init
    BY <1>1, <1>3 DEF View, Idle
  <1>13. RunOK(J, a, v)
    BY FineView
  <1> HIDE DEF J, u, v
  <1>14. Takes(v, u)
    BY <1>9, <1>10, <1>11, <1>12 DEF Takes
  <1>15. RunOK(J \cup {f}, a, u) /\ v.life # "absent"
    <2>1. f[2] = a /\ f[1] = "accepted" /\ f[3] = v.made + 1
      BY <1>9
    <2> HIDE DEF f
    <2>2. RunOK(J \cup {f}, a, u)
      BY <1>13, <1>14, <2>1, TakeView
    <2> QED
      BY <1>9, <2>2
  <1>16. f \in FactType /\ f[2] = a /\ f[1] = "accepted"
    BY <1>9, <1>15, FactTypes, Zenon
  <1>17. h.life[a] # "absent" /\ g.life[a] # "absent" /\ (<<"load", a>> \in Range(h.jobs) => ~g.parked[a])
    BY <1>3, <1>9, <1>15 DEF Fine, JobsOK
  <1>18. Touches(h, g, a, S)
    <2>1. S \cap (LeaseFields \cup {"jobs", "resident"}) = {}
      BY DEF LeaseFields
    <2> QED
      BY <1>1, <1>6, <1>7, <1>8, <1>17, <2>1, Zenon DEF Touches
  <1> HIDE DEF f, S
  <1>19. Fine(F, g)
    BY <1>1, <1>15, <1>16, <1>17, <1>18, FactChange, Zenon DEF J, u
  <1> QED
    BY <1>1, <1>19 DEF g, S

(* A launch of a parked agent, and of a new one. *)
StartParkedRun(h, a) ==
  [h EXCEPT !.parked[a] = FALSE, !.worker[a] = TRUE, !.chain = <<"startup", a>>]

(* A parked start is launched. *)
LEMMA StartParkedRunFine ==
  ASSUME NEW F, NEW h, NEW a \in Agents, Fine(F, h), h.chain = Idle, h.parked[a]
  PROVE  Fine(F, StartParkedRun(h, a)) /\ Only(h, StartParkedRun(h, a), {"parked", "worker", "chain"})
  <1> DEFINE g == StartParkedRun(h, a)
             S == {"parked", "worker", "chain"}
  <1>1. /\ Only(h, g, S)
        /\ g.parked = [h.parked EXCEPT ![a] = FALSE]
        /\ g.worker = [h.worker EXCEPT ![a] = TRUE]
        /\ g.chain = <<"startup", a>>
    BY Zenon DEF Fine, Whole, Only, Fields, StartParkedRun, Append1
  <1> HIDE DEF g
  <1>2. h.parked = [b \in Agents |-> h.parked[b]] /\ h.worker = [b \in Agents |-> h.worker[b]]
    BY DEF Fine, Whole, AgentFields
  <1>3. /\ g.life = h.life /\ g.made = h.made /\ g.cur = h.cur /\ g.gen = h.gen /\ g.active = h.active
        /\ g.queue = h.queue /\ g.join = h.join /\ g.done = h.done /\ g.quarantined = h.quarantined /\ g.lost = h.lost
        /\ g.pendingSettle = h.pendingSettle /\ g.jobs = h.jobs /\ g.parent = h.parent /\ g.intr = h.intr /\ g.joinInterrupted = h.joinInterrupted
        /\ g.ckpt = h.ckpt /\ g.held = h.held /\ g.after = h.after /\ g.wait = h.wait /\ g.log = h.log
    BY <1>1 DEF Only, Fields
  <1>4. /\ g.parked = [b \in Agents |-> g.parked[b]] /\ g.parked[a] = FALSE
        /\ g.worker = [b \in Agents |-> g.worker[b]] /\ g.worker[a] = TRUE
    BY <1>1, <1>2, Zenon
  <1>5. \A b \in Agents \ {a} : g.parked[b] = h.parked[b] /\ g.worker[b] = h.worker[b]
    BY <1>1, <1>2
  <1>6. \A b \in Agents \ {a} : View(g, b) = View(h, b)
    <2>1. \A b \in Agents \ {a} : /\ (g.chain = <<"startup", b>>) = (h.chain = <<"startup", b>>)
                                 /\ (g.chain = <<"initialize", b>>) = (h.chain = <<"initialize", b>>)
      BY <1>1 DEF Idle
    <2> QED
      BY <1>5, <1>3, <2>1 DEF View
  <1>7. \A y \in S \cap AgentFields : g[y] = [b \in Agents |-> g[y][b]]
    BY <1>4, <1>3 DEF AgentFields
  <1>8. MiscInv(g)
    BY <1>3 DEF Fine, MiscInv
  <1> DEFINE J == Of(F \cup Range(h.log), a)
             v == View(h, a)
             u == View(g, a)
  <1>9. /\ v.life = h.life[a] /\ v.made = h.made[a] /\ v.cur = h.cur[a] /\ v.gen = h.gen[a] /\ v.active = h.active[a]
        /\ v.queue = h.queue[a] /\ v.parked = h.parked[a] /\ v.join = h.join[a] /\ v.done = h.done[a] /\ v.worker = h.worker[a]
        /\ v.quarantined = h.quarantined[a] /\ v.lost = h.lost[a] /\ v.pending = h.pendingSettle[a]
        /\ v.starting = (h.chain = <<"startup", a>>)
        /\ v.init = (h.chain = <<"initialize", a>>)
    BY ONLY ViewFields
  <1>10. /\ u.life = v.life /\ u.made = v.made /\ u.cur = v.cur /\ u.gen = v.gen /\ u.active = v.active
         /\ u.queue = v.queue /\ u.join = v.join /\ u.done = v.done /\ u.quarantined = v.quarantined /\ u.lost = v.lost
         /\ u.pending = v.pending
    BY <1>3, ViewFields
  <1>11. u.parked = FALSE /\ u.worker = TRUE
    BY <1>4 DEF View
  <1>12. u.starting = TRUE /\ u.init = FALSE
    <2>1. (g.chain = <<"startup", a>>) = TRUE /\ (g.chain = <<"initialize", a>>) = FALSE
      BY <1>1
    <2> QED
      BY <2>1, Zenon DEF View
  <1>13. RunOK(J, a, v)
    BY FineView
  <1> HIDE DEF J, u, v
  <1>14. Launches(v, u) /\ v.parked
    BY <1>9, <1>10, <1>11, <1>12 DEF Launches
  <1>15. RunOK(J, a, u) /\ v.life # "absent"
    BY <1>13, <1>14, LaunchView
  <1>17. h.life[a] # "absent" /\ g.life[a] # "absent" /\ (<<"load", a>> \in Range(h.jobs) => ~g.parked[a])
    BY <1>3, <1>4, <1>9, <1>15
  <1>18. Touches(h, g, a, S)
    <2>1. S \cap (LeaseFields \cup {"jobs", "resident"}) = {}
      BY DEF LeaseFields
    <2> QED
      BY <1>1, <1>6, <1>7, <1>8, <1>17, <2>1, Zenon DEF Touches
  <1> HIDE DEF S
  <1>19. Fine(F, g)
    BY <1>3, <1>15, <1>18, PlainChange DEF J, u
  <1> QED
    BY <1>1, <1>19 DEF g, S

StartNewRun(h, a) ==
  [h EXCEPT !.worker[a] = TRUE, !.chain = <<"startup", a>>]

(* A new agent is launched. *)
LEMMA StartNewRunFine ==
  ASSUME NEW F, NEW h, NEW a \in Agents, Fine(F, h), h.chain = Idle,
         Fresh(Of(F \cup Range(h.log), a), a, View(h, a))
  PROVE  Fine(F, StartNewRun(h, a)) /\ Only(h, StartNewRun(h, a), {"worker", "chain"})
  <1> DEFINE g == StartNewRun(h, a)
             S == {"worker", "chain"}
  <1>1. /\ Only(h, g, S)
        /\ g.worker = [h.worker EXCEPT ![a] = TRUE]
        /\ g.chain = <<"startup", a>>
    BY Zenon DEF Fine, Whole, Only, Fields, StartNewRun, Append1
  <1> HIDE DEF g
  <1>2. h.worker = [b \in Agents |-> h.worker[b]]
    BY DEF Fine, Whole, AgentFields
  <1>3. /\ g.life = h.life /\ g.made = h.made /\ g.cur = h.cur /\ g.gen = h.gen /\ g.active = h.active
        /\ g.queue = h.queue /\ g.parked = h.parked /\ g.join = h.join /\ g.done = h.done /\ g.quarantined = h.quarantined
        /\ g.lost = h.lost /\ g.pendingSettle = h.pendingSettle /\ g.jobs = h.jobs /\ g.parent = h.parent /\ g.intr = h.intr
        /\ g.joinInterrupted = h.joinInterrupted /\ g.ckpt = h.ckpt /\ g.held = h.held /\ g.after = h.after /\ g.wait = h.wait
        /\ g.log = h.log
    BY <1>1 DEF Only, Fields
  <1>4. /\ g.worker = [b \in Agents |-> g.worker[b]] /\ g.worker[a] = TRUE
    BY <1>1, <1>2, Zenon
  <1>5. \A b \in Agents \ {a} : g.worker[b] = h.worker[b]
    BY <1>1, <1>2
  <1>6. \A b \in Agents \ {a} : View(g, b) = View(h, b)
    <2>1. \A b \in Agents \ {a} : /\ (g.chain = <<"startup", b>>) = (h.chain = <<"startup", b>>)
                                 /\ (g.chain = <<"initialize", b>>) = (h.chain = <<"initialize", b>>)
      BY <1>1 DEF Idle
    <2> QED
      BY <1>5, <1>3, <2>1 DEF View
  <1>7. \A y \in S \cap AgentFields : g[y] = [b \in Agents |-> g[y][b]]
    BY <1>4, <1>3 DEF AgentFields
  <1>8. MiscInv(g)
    BY <1>3 DEF Fine, MiscInv
  <1> DEFINE J == Of(F \cup Range(h.log), a)
             v == View(h, a)
             u == View(g, a)
  <1>9. /\ v.life = h.life[a] /\ v.made = h.made[a] /\ v.cur = h.cur[a] /\ v.gen = h.gen[a] /\ v.active = h.active[a]
        /\ v.queue = h.queue[a] /\ v.parked = h.parked[a] /\ v.join = h.join[a] /\ v.done = h.done[a] /\ v.worker = h.worker[a]
        /\ v.quarantined = h.quarantined[a] /\ v.lost = h.lost[a] /\ v.pending = h.pendingSettle[a]
        /\ v.starting = (h.chain = <<"startup", a>>)
        /\ v.init = (h.chain = <<"initialize", a>>)
    BY ONLY ViewFields
  <1>10. /\ u.life = v.life /\ u.made = v.made /\ u.cur = v.cur /\ u.gen = v.gen /\ u.active = v.active
         /\ u.queue = v.queue /\ u.parked = v.parked /\ u.join = v.join /\ u.done = v.done /\ u.quarantined = v.quarantined
         /\ u.lost = v.lost /\ u.pending = v.pending
    BY <1>3, ViewFields
  <1>11. u.worker = TRUE
    BY <1>4 DEF View
  <1>12. u.starting = TRUE /\ u.init = FALSE
    <2>1. (g.chain = <<"startup", a>>) = TRUE /\ (g.chain = <<"initialize", a>>) = FALSE
      BY <1>1
    <2> QED
      BY <2>1, Zenon DEF View
  <1>13. RunOK(J, a, v)
    BY FineView
  <1> HIDE DEF J, u, v
  <1>14. Launches(v, u) /\ Fresh(J, a, v)
    <2>1. Fresh(J, a, v)
      BY DEF J, v
    <2>2. v.parked = FALSE
      BY <2>1 DEF Fresh
    <2>3. Launches(v, u)
      BY <1>9, <1>10, <1>11, <1>12, <2>2 DEF Launches
    <2> QED
      BY <2>1, <2>3
  <1>15. RunOK(J, a, u) /\ v.life # "absent"
    BY <1>13, <1>14, LaunchView
  <1>17. h.life[a] # "absent" /\ g.life[a] # "absent" /\ (<<"load", a>> \in Range(h.jobs) => ~g.parked[a])
    BY <1>3, <1>9, <1>15 DEF Fine, JobsOK
  <1>18. Touches(h, g, a, S)
    <2>1. S \cap (LeaseFields \cup {"jobs", "resident"}) = {}
      BY DEF LeaseFields
    <2> QED
      BY <1>1, <1>6, <1>7, <1>8, <1>17, <2>1, Zenon DEF Touches
  <1> HIDE DEF S
  <1>19. Fine(F, g)
    BY <1>3, <1>15, <1>18, PlainChange DEF J, u
  <1> QED
    BY <1>1, <1>19 DEF g, S

(* reloadAgent, once there is room for its worker. *)
Bind(h, a, why) ==
  [h EXCEPT !.worker[a] = TRUE, !.chain = <<why, a>>]

(* reloadAgent binds a worker. *)
LEMMA BindFine ==
  ASSUME NEW F, NEW h, NEW a \in Agents, NEW why \in {"load", "resume"}, Fine(F, h), h.chain = Idle, h.life[a] # "absent", ~h.parked[a],
         ~h.quarantined[a], h.lost[a] = 0
  PROVE  Fine(F, Bind(h, a, why)) /\ Only(h, Bind(h, a, why), {"worker", "chain"})
  <1> DEFINE g == Bind(h, a, why)
             S == {"worker", "chain"}
  <1>1. /\ Only(h, g, S)
        /\ g.worker = [h.worker EXCEPT ![a] = TRUE]
        /\ g.chain = <<why, a>>
    BY Zenon DEF Fine, Whole, Only, Fields, Bind, Append1
  <1> HIDE DEF g
  <1>2. h.worker = [b \in Agents |-> h.worker[b]]
    BY DEF Fine, Whole, AgentFields
  <1>3. /\ g.life = h.life /\ g.made = h.made /\ g.cur = h.cur /\ g.gen = h.gen /\ g.active = h.active
        /\ g.queue = h.queue /\ g.parked = h.parked /\ g.join = h.join /\ g.done = h.done /\ g.quarantined = h.quarantined
        /\ g.lost = h.lost /\ g.pendingSettle = h.pendingSettle /\ g.jobs = h.jobs /\ g.parent = h.parent /\ g.intr = h.intr
        /\ g.joinInterrupted = h.joinInterrupted /\ g.ckpt = h.ckpt /\ g.held = h.held /\ g.after = h.after /\ g.wait = h.wait
        /\ g.log = h.log
    BY <1>1 DEF Only, Fields
  <1>4. /\ g.worker = [b \in Agents |-> g.worker[b]] /\ g.worker[a] = TRUE
    BY <1>1, <1>2, Zenon
  <1>5. \A b \in Agents \ {a} : g.worker[b] = h.worker[b]
    BY <1>1, <1>2
  <1>6. \A b \in Agents \ {a} : View(g, b) = View(h, b)
    <2>1. \A b \in Agents \ {a} : /\ (g.chain = <<"startup", b>>) = (h.chain = <<"startup", b>>)
                                 /\ (g.chain = <<"initialize", b>>) = (h.chain = <<"initialize", b>>)
      BY <1>1 DEF Idle
    <2> QED
      BY <1>5, <1>3, <2>1 DEF View
  <1>7. \A y \in S \cap AgentFields : g[y] = [b \in Agents |-> g[y][b]]
    BY <1>4, <1>3 DEF AgentFields
  <1>8. MiscInv(g)
    BY <1>3 DEF Fine, MiscInv
  <1> DEFINE J == Of(F \cup Range(h.log), a)
             v == View(h, a)
             u == View(g, a)
  <1>9. /\ v.life = h.life[a] /\ v.made = h.made[a] /\ v.cur = h.cur[a] /\ v.gen = h.gen[a] /\ v.active = h.active[a]
        /\ v.queue = h.queue[a] /\ v.parked = h.parked[a] /\ v.join = h.join[a] /\ v.done = h.done[a] /\ v.worker = h.worker[a]
        /\ v.quarantined = h.quarantined[a] /\ v.lost = h.lost[a] /\ v.pending = h.pendingSettle[a]
        /\ v.starting = (h.chain = <<"startup", a>>)
        /\ v.init = (h.chain = <<"initialize", a>>)
    BY ONLY ViewFields
  <1>10. /\ u.life = v.life /\ u.made = v.made /\ u.cur = v.cur /\ u.gen = v.gen /\ u.active = v.active
         /\ u.queue = v.queue /\ u.parked = v.parked /\ u.join = v.join /\ u.done = v.done /\ u.quarantined = v.quarantined
         /\ u.lost = v.lost /\ u.pending = v.pending
    BY <1>3, ViewFields
  <1>11. u.worker = TRUE
    BY <1>4 DEF View
  <1>12. u.starting = FALSE /\ u.init = FALSE
    <2>1. ~(g.chain = <<"startup", a>>) /\ ~(g.chain = <<"initialize", a>>)
      BY <1>1
    <2>2. (g.chain = <<"startup", a>>) = FALSE /\ (g.chain = <<"initialize", a>>) = FALSE
      BY <2>1
    <2> QED
      BY <2>2, Zenon DEF View
  <1>13. RunOK(J, a, v)
    BY FineView
  <1> HIDE DEF J, u, v
  <1>14. Reloads(v, u, TRUE) /\ v.life # "absent" /\ ~v.parked /\ ~v.quarantined /\ v.lost = 0
    <2>0. (h.chain = <<"startup", a>>) = FALSE /\ (h.chain = <<"initialize", a>>) = FALSE
      BY DEF Idle
    <2>1. u.starting = v.starting /\ u.init = v.init
      BY ONLY <1>9, <1>12, <2>0, Zenon
    <2>2. v.queue \in Seq(Runs) /\ IsInjective(v.queue)
      BY <1>13 DEF RunOK, ViewType, QueueOK
    <2>3. Reloads(v, u, TRUE)
      BY <1>10, <1>11, <2>1, <2>2 DEF Reloads
    <2> QED
      BY <1>9, <2>3, Zenon
  <1>15. RunOK(J, a, u) /\ v.life # "absent"
    BY <1>13, <1>14, ReloadView, Zenon
  <1>17. h.life[a] # "absent" /\ g.life[a] # "absent" /\ (<<"load", a>> \in Range(h.jobs) => ~g.parked[a])
    BY <1>3, <1>9, <1>15 DEF Fine, JobsOK
  <1>18. Touches(h, g, a, S)
    <2>1. S \cap (LeaseFields \cup {"jobs", "resident"}) = {}
      BY DEF LeaseFields
    <2> QED
      BY <1>1, <1>6, <1>7, <1>8, <1>17, <2>1, Zenon DEF Touches
  <1> HIDE DEF S
  <1>19. Fine(F, g)
    BY <1>3, <1>15, <1>18, PlainChange DEF J, u
  <1> QED
    BY <1>1, <1>19 DEF g, S

(* dispatchPending puts the chosen run first. *)
Reorder(h, a, q) ==
  [h EXCEPT !.held[a] = FALSE, !.queue[a] = q]

(* dispatchPending puts the chosen run first. *)
LEMMA ReorderFine ==
  ASSUME NEW F, NEW h, NEW a \in Agents, NEW q \in Seq(Runs), Fine(F, h), IsInjective(q), Range(q) = Range(h.queue[a]), h.life[a] # "absent"
  PROVE  Fine(F, Reorder(h, a, q)) /\ Only(h, Reorder(h, a, q), {"held", "queue"})
  <1> DEFINE g == Reorder(h, a, q)
             S == {"held", "queue"}
  <1>1. /\ Only(h, g, S)
        /\ g.held = [h.held EXCEPT ![a] = FALSE]
        /\ g.queue = [h.queue EXCEPT ![a] = q]
    BY Zenon DEF Fine, Whole, Only, Fields, Reorder, Append1
  <1> HIDE DEF g
  <1>2. h.queue = [b \in Agents |-> h.queue[b]]
    BY DEF Fine, Whole, AgentFields
  <1>3. /\ g.life = h.life /\ g.made = h.made /\ g.cur = h.cur /\ g.gen = h.gen /\ g.active = h.active
        /\ g.parked = h.parked /\ g.join = h.join /\ g.done = h.done /\ g.worker = h.worker /\ g.quarantined = h.quarantined
        /\ g.lost = h.lost /\ g.pendingSettle = h.pendingSettle /\ g.chain = h.chain /\ g.jobs = h.jobs /\ g.parent = h.parent
        /\ g.intr = h.intr /\ g.joinInterrupted = h.joinInterrupted /\ g.ckpt = h.ckpt /\ g.after = h.after /\ g.wait = h.wait
        /\ g.log = h.log
    BY <1>1 DEF Only, Fields
  <1>4. /\ g.queue = [b \in Agents |-> g.queue[b]] /\ g.queue[a] = q
    BY <1>1, <1>2
  <1>5. \A b \in Agents \ {a} : g.queue[b] = h.queue[b]
    BY <1>1, <1>2
  <1>6. \A b \in Agents \ {a} : View(g, b) = View(h, b)
    BY <1>5, <1>3 DEF View
  <1>7. \A y \in S \cap AgentFields : g[y] = [b \in Agents |-> g[y][b]]
    BY <1>4, <1>3 DEF AgentFields
  <1>8. MiscInv(g)
    BY <1>1, <1>3 DEF Fine, MiscInv
  <1> DEFINE J == Of(F \cup Range(h.log), a)
             v == View(h, a)
             u == View(g, a)
  <1>9. /\ v.life = h.life[a] /\ v.made = h.made[a] /\ v.cur = h.cur[a] /\ v.gen = h.gen[a] /\ v.active = h.active[a]
        /\ v.queue = h.queue[a] /\ v.parked = h.parked[a] /\ v.join = h.join[a] /\ v.done = h.done[a] /\ v.worker = h.worker[a]
        /\ v.quarantined = h.quarantined[a] /\ v.lost = h.lost[a] /\ v.pending = h.pendingSettle[a]
        /\ v.starting = (h.chain = <<"startup", a>>)
        /\ v.init = (h.chain = <<"initialize", a>>)
    BY ONLY ViewFields
  <1>10. /\ u.life = v.life /\ u.made = v.made /\ u.cur = v.cur /\ u.gen = v.gen /\ u.active = v.active
         /\ u.parked = v.parked /\ u.join = v.join /\ u.done = v.done /\ u.worker = v.worker /\ u.quarantined = v.quarantined
         /\ u.lost = v.lost /\ u.pending = v.pending
    BY <1>3, ViewFields
  <1>11. u.queue = q
    BY <1>4 DEF View
  <1>12. u.starting = v.starting /\ u.init = v.init
    BY <1>1, <1>3 DEF View, Idle
  <1>13. RunOK(J, a, v)
    BY FineView
  <1> HIDE DEF J, u, v
  <1>14. Reloads(v, u, v.worker) /\ v.life # "absent" /\ v.worker \in BOOLEAN
    <2>1. v.worker \in BOOLEAN
      BY <1>13 DEF RunOK, ViewType
    <2>2. Reloads(v, u, v.worker)
      BY <1>9, <1>10, <1>11, <1>12 DEF Reloads
    <2> QED
      BY <1>9, <2>1, <2>2
  <1>15. RunOK(J, a, u) /\ v.life # "absent"
    <2> DEFINE w == v.worker
    <2>1. w \in BOOLEAN /\ w = v.worker /\ Reloads(v, u, w)
      BY <1>14
    <2> HIDE DEF w
    <2> QED
      BY <1>13, <1>14, <2>1, ReloadView
  <1>17. h.life[a] # "absent" /\ g.life[a] # "absent" /\ (<<"load", a>> \in Range(h.jobs) => ~g.parked[a])
    BY <1>3, <1>9, <1>15 DEF Fine, JobsOK
  <1>18. Touches(h, g, a, S)
    <2>1. S \cap (LeaseFields \cup {"jobs", "resident"}) = {}
      BY DEF LeaseFields
    <2> QED
      BY <1>1, <1>6, <1>7, <1>8, <1>17, <2>1, Zenon DEF Touches
  <1> HIDE DEF S
  <1>19. Fine(F, g)
    BY <1>3, <1>15, <1>18, PlainChange DEF J, u
  <1> QED
    BY <1>1, <1>19 DEF g, S

(* spawn, before the worker is launched. *)
Born(h, a, p) ==
  Append1([h EXCEPT !.parent[a] = p, !.life[a] = "open", !.made[a] = 1, !.cur[a] = 1, !.gen[a] = 1], <<"spawned", a, p>>)

(* spawn creates the agent. *)
LEMMA BornFine ==
  ASSUME NEW F, NEW h, NEW a \in Agents, NEW p \in 0 .. MaxAgents, Fine(F, h), h.life[a] = "absent", p < a,
         \A b \in Agents : b < a => h.life[b] # "absent"
  PROVE  Fine(F, Born(h, a, p)) /\ Only(h, Born(h, a, p), {"parent", "life", "made", "cur", "gen", "log"})
         /\ Fresh(Of(F \cup Range(Born(h, a, p).log), a), a, View(Born(h, a, p), a))
         /\ <<"load", a>> \notin Range(Born(h, a, p).jobs)
  <1> DEFINE g == Born(h, a, p)
             S == {"parent", "life", "made", "cur", "gen", "log"}
             f == <<"spawned", a, p>>
  <1>1. /\ Only(h, g, S)
        /\ g.parent = [h.parent EXCEPT ![a] = p]
        /\ g.life = [h.life EXCEPT ![a] = "open"]
        /\ g.made = [h.made EXCEPT ![a] = 1]
        /\ g.cur = [h.cur EXCEPT ![a] = 1]
        /\ g.gen = [h.gen EXCEPT ![a] = 1]
        /\ g.log = Append(h.log, f)
    BY Zenon DEF Fine, Whole, Only, Fields, Born, Append1
  <1> HIDE DEF g
  <1>2. h.life = [b \in Agents |-> h.life[b]] /\ h.made = [b \in Agents |-> h.made[b]] /\ h.cur = [b \in Agents |-> h.cur[b]] /\ h.gen = [b \in Agents |-> h.gen[b]]
    BY DEF Fine, Whole, AgentFields
  <1>3. /\ g.active = h.active /\ g.queue = h.queue /\ g.parked = h.parked /\ g.join = h.join /\ g.done = h.done
        /\ g.worker = h.worker /\ g.quarantined = h.quarantined /\ g.lost = h.lost /\ g.pendingSettle = h.pendingSettle /\ g.chain = h.chain
        /\ g.jobs = h.jobs /\ g.intr = h.intr /\ g.joinInterrupted = h.joinInterrupted /\ g.ckpt = h.ckpt /\ g.held = h.held
        /\ g.after = h.after /\ g.wait = h.wait
    BY <1>1, Zenon DEF Only, Fields
  <1>4. /\ g.life = [b \in Agents |-> g.life[b]] /\ g.life[a] = "open"
        /\ g.made = [b \in Agents |-> g.made[b]] /\ g.made[a] = 1
        /\ g.cur = [b \in Agents |-> g.cur[b]] /\ g.cur[a] = 1
        /\ g.gen = [b \in Agents |-> g.gen[b]] /\ g.gen[a] = 1
    BY <1>1, <1>2, Zenon
  <1>5. \A b \in Agents \ {a} : g.life[b] = h.life[b] /\ g.made[b] = h.made[b] /\ g.cur[b] = h.cur[b] /\ g.gen[b] = h.gen[b]
    BY <1>1, <1>2
  <1>6. \A b \in Agents \ {a} : View(g, b) = View(h, b)
    BY <1>5, <1>3 DEF View
  <1>7. \A y \in S \cap AgentFields : g[y] = [b \in Agents |-> g[y][b]]
    BY <1>4, <1>3 DEF AgentFields
  <1>8. MiscInv(g)
    BY <1>1, <1>3 DEF Fine, MiscInv
  <1> DEFINE J == Of(F \cup Range(h.log), a)
             v == View(h, a)
             u == View(g, a)
  <1>9. /\ v.life = h.life[a] /\ v.made = h.made[a] /\ v.cur = h.cur[a] /\ v.gen = h.gen[a] /\ v.active = h.active[a]
        /\ v.queue = h.queue[a] /\ v.parked = h.parked[a] /\ v.join = h.join[a] /\ v.done = h.done[a] /\ v.worker = h.worker[a]
        /\ v.quarantined = h.quarantined[a] /\ v.lost = h.lost[a] /\ v.pending = h.pendingSettle[a]
        /\ v.starting = (h.chain = <<"startup", a>>)
        /\ v.init = (h.chain = <<"initialize", a>>)
    BY ONLY ViewFields
  <1>10. /\ u.active = v.active /\ u.queue = v.queue /\ u.parked = v.parked /\ u.join = v.join /\ u.done = v.done
         /\ u.worker = v.worker /\ u.quarantined = v.quarantined /\ u.lost = v.lost /\ u.pending = v.pending
    BY <1>3, ViewFields
  <1>11. u.life = "open" /\ u.made = 1 /\ u.cur = 1 /\ u.gen = 1
    BY <1>4 DEF View
  <1>12. u.starting = v.starting /\ u.init = v.init
    BY <1>1, <1>3 DEF View, Idle
  <1>13. RunOK(J, a, v)
    BY FineView
  <1> HIDE DEF J, u, v
  <1>14. Borne(v, u)
    BY <1>9, <1>10, <1>11, <1>12 DEF Borne
  <1>15. RunOK(J \cup {f}, a, u) /\ Fresh(J \cup {f}, a, u)
    <2>1. f[2] = a /\ f[1] = "spawned"
      OBVIOUS
    <2> HIDE DEF f
    <2> QED
      BY <1>13, <1>14, <2>1, BornView
  <1>16. f \in FactType /\ f[2] = a /\ f[1] = "spawned"
    BY <1>9, <1>15, FactTypes, Zenon
  <1>17. g.life[a] # "absent" /\ <<"load", a>> \notin Range(h.jobs)
    BY <1>4 DEF Fine, JobsOK
  <1>18. Touches(h, g, a, S)
    <2>1. S \cap (LeaseFields \cup {"jobs", "resident"}) = {}
      BY DEF LeaseFields
    <2> QED
      BY <1>1, <1>6, <1>7, <1>8, <1>17, <2>1, Zenon DEF Touches
  <1>20. f[3] = p
    OBVIOUS
  <1> HIDE DEF f, S
  <1>19. Fine(F, g)
    <2>1. f \in FactType /\ g.log = Append(h.log, f) /\ f[2] = a /\ f[3] < a
      BY <1>1, <1>16, <1>20
    <2>2. RunOK(Of(F \cup Range(h.log), a) \cup {f}, a, View(g, a))
      BY <1>15 DEF J, u
    <2> QED
      BY ONLY <1>18, <2>1, <2>2, Fine(F, h), a \in Agents, \A b \in Agents : b < a => h.life[b] # "absent", SpawnChange, Zenon
  <1>21. Fresh(Of(F \cup Range(g.log), a), a, View(g, a))
    <2> DEFINE E == F \cup Range(h.log)
    <2>1. h.log \in Seq(FactType)
      BY DEF Fine
    <2>2. F \cup Range(g.log) = E \cup {f}
      BY <1>1, <2>1, AppendRange
    <2> HIDE DEF E
    <2>3. Of(E \cup {f}, a) = Of(E, a) \cup {f}
      BY <1>16, AddedOf, Zenon
    <2> QED
      BY <1>15, <2>2, <2>3 DEF E, J, u
  <1>22. <<"load", a>> \notin Range(g.jobs)
    BY <1>3, <1>17
  <1> QED
    BY <1>1, <1>19, <1>21, <1>22 DEF g, S

(* No lease for a new agent: it is parked. *)
ParkNew(h, a) ==
  Append1([h EXCEPT !.parked[a] = TRUE], <<"accepted", a, 1>>)

(* A new agent is parked. *)
LEMMA ParkNewFine ==
  ASSUME NEW F, NEW h, NEW a \in Agents, Fine(F, h),
         Fresh(Of(F \cup Range(h.log), a), a, View(h, a)), <<"load", a>> \notin Range(h.jobs)
  PROVE  Fine(F, ParkNew(h, a)) /\ Only(h, ParkNew(h, a), {"parked", "log"})
  <1> DEFINE g == ParkNew(h, a)
             S == {"parked", "log"}
             f == <<"accepted", a, 1>>
  <1>1. /\ Only(h, g, S)
        /\ g.parked = [h.parked EXCEPT ![a] = TRUE]
        /\ g.log = Append(h.log, f)
    BY Zenon DEF Fine, Whole, Only, Fields, ParkNew, Append1
  <1> HIDE DEF g
  <1>2. h.parked = [b \in Agents |-> h.parked[b]]
    BY DEF Fine, Whole, AgentFields
  <1>3. /\ g.life = h.life /\ g.made = h.made /\ g.cur = h.cur /\ g.gen = h.gen /\ g.active = h.active
        /\ g.queue = h.queue /\ g.join = h.join /\ g.done = h.done /\ g.worker = h.worker /\ g.quarantined = h.quarantined
        /\ g.lost = h.lost /\ g.pendingSettle = h.pendingSettle /\ g.chain = h.chain /\ g.jobs = h.jobs /\ g.parent = h.parent
        /\ g.intr = h.intr /\ g.joinInterrupted = h.joinInterrupted /\ g.ckpt = h.ckpt /\ g.held = h.held /\ g.after = h.after
        /\ g.wait = h.wait
    BY <1>1 DEF Only, Fields
  <1>4. /\ g.parked = [b \in Agents |-> g.parked[b]] /\ g.parked[a] = TRUE
    BY <1>1, <1>2, Zenon
  <1>5. \A b \in Agents \ {a} : g.parked[b] = h.parked[b]
    BY <1>1, <1>2
  <1>6. \A b \in Agents \ {a} : View(g, b) = View(h, b)
    BY <1>5, <1>3 DEF View
  <1>7. \A y \in S \cap AgentFields : g[y] = [b \in Agents |-> g[y][b]]
    BY <1>4, <1>3 DEF AgentFields
  <1>8. MiscInv(g)
    BY <1>3 DEF Fine, MiscInv
  <1> DEFINE J == Of(F \cup Range(h.log), a)
             v == View(h, a)
             u == View(g, a)
  <1>9. /\ v.life = h.life[a] /\ v.made = h.made[a] /\ v.cur = h.cur[a] /\ v.gen = h.gen[a] /\ v.active = h.active[a]
        /\ v.queue = h.queue[a] /\ v.parked = h.parked[a] /\ v.join = h.join[a] /\ v.done = h.done[a] /\ v.worker = h.worker[a]
        /\ v.quarantined = h.quarantined[a] /\ v.lost = h.lost[a] /\ v.pending = h.pendingSettle[a]
        /\ v.starting = (h.chain = <<"startup", a>>)
        /\ v.init = (h.chain = <<"initialize", a>>)
    BY ONLY ViewFields
  <1>10. /\ u.life = v.life /\ u.made = v.made /\ u.cur = v.cur /\ u.gen = v.gen /\ u.active = v.active
         /\ u.queue = v.queue /\ u.join = v.join /\ u.done = v.done /\ u.worker = v.worker /\ u.quarantined = v.quarantined
         /\ u.lost = v.lost /\ u.pending = v.pending
    BY <1>3, ViewFields
  <1>11. u.parked = TRUE
    BY <1>4 DEF View
  <1>12. u.starting = v.starting /\ u.init = v.init
    BY <1>1, <1>3 DEF View, Idle
  <1>13. RunOK(J, a, v)
    BY FineView
  <1> HIDE DEF J, u, v
  <1>14. Fresh(J, a, v) /\ Parks(v, u) /\ v.life = "open" /\ 1 \in Runs
    <2>1. Fresh(J, a, v)
      BY DEF J, v
    <2>2. Parks(v, u)
      BY <1>9, <1>10, <1>11, <1>12 DEF Parks
    <2>3. v.life = "open"
      BY <2>1, Zenon DEF Fresh
    <2>4. 1 \in Runs
      BY SubagentsAssumption DEF Runs
    <2> QED
      BY <2>1, <2>2, <2>3, <2>4
  <1>15. RunOK(J \cup {f}, a, u)
    <2>1. f[2] = a /\ f[1] = "accepted" /\ f[3] = 1
      OBVIOUS
    <2> HIDE DEF f
    <2> QED
      BY <1>13, <1>14, <2>1, ParkView
  <1>16. f \in FactType /\ f[2] = a /\ f[1] = "accepted"
    BY <1>14, FactTypes, Zenon
  <1>17. h.life[a] # "absent" /\ g.life[a] # "absent" /\ (<<"load", a>> \in Range(h.jobs) => ~g.parked[a])
    BY <1>3, <1>9, <1>14
  <1>18. Touches(h, g, a, S)
    <2>1. S \cap (LeaseFields \cup {"jobs", "resident"}) = {}
      BY DEF LeaseFields
    <2> QED
      BY <1>1, <1>6, <1>7, <1>8, <1>17, <2>1, Zenon DEF Touches
  <1> HIDE DEF f, S
  <1>19. Fine(F, g)
    BY <1>1, <1>15, <1>16, <1>17, <1>18, FactChange, Zenon DEF J, u
  <1> QED
    BY <1>1, <1>19 DEF g, S

-----------------------------------------------------------------------------
(* Interrupts, the end of a run, and retirement *)

(* What these leave alone. *)
Keeps(h, g) ==
  /\ g.lost = h.lost /\ g.pendingSettle = h.pendingSettle /\ g.chain = h.chain /\ g.suspended = h.suspended
  /\ \A b \in Agents : h.life[b] # "absent" => g.life[b] # "absent"

(* Keeps is reflexive. *)
LEMMA KeepsSelf == \A h : Keeps(h, h)
  BY DEF Keeps

(* Keeps is transitive. *)
LEMMA KeepsTrans ==
  ASSUME NEW h, NEW g, NEW k, Keeps(h, g), Keeps(g, k)
  PROVE  Keeps(h, k)
  BY DEF Keeps

(* A settlement keeps what recovery is about. *)
LEMMA SettlesKeeps ==
  ASSUME NEW h, NEW g, Settles(h, g)
  PROVE  Keeps(h, g)
  BY SettleIs DEF Settles, Keeps

(* So does a pump. *)
LEMMA PumpedKeeps ==
  ASSUME NEW h, NEW g, Pumped(h, g)
  PROVE  Keeps(h, g)
  BY PumpedSettles, SettlesKeeps

(* So does a change of other fields. *)
LEMMA OnlyKeeps ==
  ASSUME NEW h, NEW g, NEW S, Only(h, g, S), S \cap {"life", "lost", "pendingSettle", "chain", "suspended"} = {}
  PROVE  Keeps(h, g)
  <1>1. g.lost = h.lost /\ g.pendingSettle = h.pendingSettle /\ g.chain = h.chain /\ g.suspended = h.suspended
        /\ g.life = h.life
    BY DEF Only, Fields
  <1> QED
    BY <1>1 DEF Keeps

(* interruptSubtree marks the run and ends the waits of an agent. *)
Woken(h, a) ==
  [[h EXCEPT !.intr[a] = h.active[a] # 0, !.joinInterrupted[a] = @ \/ h.join[a] # NoJoin,
             !.after[a] = IF h.wait[a] = "none" THEN @ ELSE Len(h.jobs)]
     EXCEPT !.wait[a] = IF @ = "waiting" THEN "resuming" ELSE @]

(* interruptSubtree marks the run and ends the waits of an agent. *)
LEMMA WokenFine ==
  ASSUME NEW F, NEW h, NEW a \in Agents, Fine(F, h)
  PROVE  Fine(F, Woken(h, a)) /\ Only(h, Woken(h, a), {"intr", "joinInterrupted", "after", "wait"})
  <1> DEFINE g == Woken(h, a)
             i == h.active[a] # 0
             j == h.joinInterrupted[a] \/ h.join[a] # NoJoin
             k == IF h.wait[a] = "none" THEN h.after[a] ELSE Len(h.jobs)
             w == IF h.wait[a] = "waiting" THEN "resuming" ELSE h.wait[a]
  <1>0. DOMAIN h = Fields /\ MiscInv(h) /\ Len(h.jobs) \in Nat
    BY DEF Fine, Whole, JobsOK
  <1>1. /\ Only(h, g, {"intr", "joinInterrupted", "after", "wait"})
        /\ g.intr = [h.intr EXCEPT ![a] = i] /\ g.joinInterrupted = [h.joinInterrupted EXCEPT ![a] = j]
        /\ g.after = [h.after EXCEPT ![a] = k] /\ g.wait = [h.wait EXCEPT ![a] = w]
    BY <1>0, Zenon DEF Only, Fields, Woken
  <1>2. i \in BOOLEAN /\ j \in BOOLEAN
    OBVIOUS
  <1>3. k \in Nat /\ w \in {"none", "waiting", "resuming", "queued", "granted"}
    BY <1>0 DEF MiscInv
  <1> HIDE DEF g, i, j, k, w
  <1>4. g.parent = h.parent /\ g.ckpt = h.ckpt /\ g.held = h.held
    BY <1>1 DEF Only, Fields
  <1>5. g.intr \in [Agents -> BOOLEAN] /\ g.joinInterrupted \in [Agents -> BOOLEAN]
    BY <1>0, <1>1, <1>2 DEF MiscInv
  <1>6. MiscInv(g)
    BY <1>0, <1>1, <1>3, <1>4, <1>5 DEF MiscInv
  <1>7. {"intr", "joinInterrupted", "after", "wait"} \subseteq MiscFields \cup {"closes", "suspended", "walks"}
    BY DEF MiscFields
  <1>8. Fine(F, g)
    BY <1>1, <1>6, <1>7, MiscChange
  <1> QED
    BY <1>1, <1>8 DEF g

(* interruptSubtree of one agent keeps a heap fine. *)
LEMMA InterruptOneFine ==
  ASSUME NEW F, NEW h, NEW a \in Agents, Fine(F, h)
  PROVE  Fine(F, InterruptOne(h, a)) /\ Keeps(h, InterruptOne(h, a))
  <1> DEFINE g1 == Woken(h, a)
             g2 == CancelLeaseWait(g1, a)
             g3 == Unpark(g2, a)
             g4 == ReleaseResident(g3, a)
             n == h.cur[a]
             g5 == SettleTerminal(g4, a, n, "interrupted")
  <1>1. InterruptOne(h, a) = IF ~h.parked[a] THEN g2 ELSE g5
    BY DEF InterruptOne, Woken, Unpark
  <1>2. Fine(F, g1) /\ Only(h, g1, {"intr", "joinInterrupted", "after", "wait"})
    BY WokenFine
  <1> HIDE DEF g1
  <1>3. Fine(F, g2) /\ Only(g1, g2, {"wait", "waiters"})
    BY <1>2, CancelLeaseWaitFine
  <1> HIDE DEF g2
  <1>4. Keeps(h, g2)
    BY <1>2, <1>3, OnlyKeeps, KeepsTrans
  <1>5. CASE ~h.parked[a]
    BY <1>1, <1>3, <1>4, <1>5
  <1>6. CASE h.parked[a]
    <2>1. /\ h.active[a] = 0 /\ ~h.worker[a] /\ h.chain # <<"startup", a>> /\ h.join[a] = NoJoin
          /\ h.life[a] # "absent" /\ n \in Runs /\ n <= h.made[a]
      <3>1. Sound(h, a)
        BY AgentIs
      <3> QED
        BY <1>6, <3>1, Zenon DEF Sound
    <2>2. /\ g2.active = h.active /\ g2.worker = h.worker /\ g2.chain = h.chain /\ g2.join = h.join
          /\ g2.made = h.made /\ g2.cur = h.cur
      <3>1. /\ g1.active = h.active /\ g1.worker = h.worker /\ g1.chain = h.chain /\ g1.join = h.join
            /\ g1.made = h.made /\ g1.cur = h.cur
        BY <1>2 DEF Only, Fields
      <3> QED
        BY <1>3, <3>1 DEF Only, Fields
    <2>3. Fine(F, g3) /\ Only(g2, g3, {"parked"})
      BY <1>3, UnparkFine, Zenon
    <2>4. ~g3.parked[a]
      <3>1. g2.parked = [b \in Agents |-> g2.parked[b]] /\ DOMAIN g2 = Fields
        BY <1>3 DEF Fine, Whole, AgentFields
      <3> QED
        BY <3>1 DEF Unpark, Fields
    <2> HIDE DEF g3
    <2>5. /\ g3.active = h.active /\ g3.worker = h.worker /\ g3.chain = h.chain /\ g3.join = h.join
          /\ g3.made = h.made /\ g3.cur = h.cur
      BY <2>2, <2>3 DEF Only, Fields
    <2>6. Unable(g3, a)
      BY <2>1, <2>5 DEF Unable
    <2>7. MayEnd(g3, a, n)
      BY <2>1, <2>4, <2>5 DEF MayEnd, Runs
    <2>8. Fine(F, g4) /\ Pumped(g3, g4)
      BY <2>3, ReleaseResidentFine
    <2> HIDE DEF g4, n
    <2>9. Settles(g3, g4)
      BY <2>8, PumpedSettles
    <2>10. MayEnd(g4, a, n)
      BY <2>6, <2>7, <2>9, MayEndKept
    <2>11. "interrupted" \in Outcomes
      BY DEF Outcomes
    <2>12. Fine(F, g5) /\ Settles(g4, g5)
      BY <2>8, <2>10, <2>11, SettleTerminalFine
    <2> HIDE DEF g5
    <2>13. Keeps(g2, g3)
      BY <2>3, OnlyKeeps
    <2>14. Keeps(h, g5)
      BY <1>4, <2>9, <2>12, <2>13, SettlesKeeps, KeepsTrans
    <2> QED
      BY <1>1, <1>6, <2>12, <2>14
  <1> QED
    BY <1>5, <1>6

KeepGood(d, h, k) == Fine(d[1], h) /\ Keeps(d[2], h)
InterruptIn(set, h, k) == IF k \in set THEN InterruptOne(h, k) ELSE h
InterruptFold == INSTANCE Folding WITH Op <- InterruptIn, Good <- KeepGood

(* And so of a set of agents. *)
LEMMA InterruptAllFine ==
  ASSUME NEW F, NEW h, NEW set, Fine(F, h)
  PROVE  Fine(F, ForEach(h, set, InterruptOne)) /\ Keeps(h, ForEach(h, set, InterruptOne))
  <1> DEFINE d == <<F, h>>
  <1>1. ForEach(h, set, InterruptOne) = InterruptFold!Fold(set, h, MaxAgents)
    BY Zenon DEF ForEach, InterruptFold!Fold, InterruptIn
  <1>2. KeepGood(d, h, 0)
    BY KeepsSelf DEF KeepGood
  <1>3. \A g, k : k \in 1 .. MaxAgents /\ KeepGood(d, g, k - 1) => KeepGood(d, InterruptIn(set, g, k), k)
    <2> SUFFICES ASSUME NEW g, NEW k \in 1 .. MaxAgents, KeepGood(d, g, k - 1)
                 PROVE  KeepGood(d, InterruptIn(set, g, k), k)
      OBVIOUS
    <2>1. Fine(F, g) /\ Keeps(h, g) /\ k \in Agents
      BY DEF KeepGood, Agents
    <2>2. Fine(F, InterruptOne(g, k)) /\ Keeps(h, InterruptOne(g, k))
      BY <2>1, InterruptOneFine, KeepsTrans
    <2> QED
      BY <2>1, <2>2 DEF KeepGood, InterruptIn
  <1>4. MaxAgents \in Nat
    BY SubagentsAssumption
  <1>5. KeepGood(d, InterruptFold!Fold(set, h, MaxAgents), MaxAgents)
    <2> HIDE DEF d
    <2> QED
      BY <1>2, <1>3, <1>4, InterruptFold!FoldKeeps
  <1> QED
    BY <1>1, <1>5 DEF KeepGood

Walks(h, ws) == [h EXCEPT !.walks = ws]

(* Who still walks is no matter of the journal. *)
LEMMA WalksFine ==
  ASSUME NEW F, NEW h, NEW ws, Fine(F, h)
  PROVE  Fine(F, Walks(h, ws)) /\ Only(h, Walks(h, ws), {"walks"})
  <1> DEFINE g == Walks(h, ws)
  <1>1. Only(h, g, {"walks"})
    BY DEF Fine, Whole, Only, Fields, Walks
  <1> HIDE DEF g
  <1>2. MiscInv(g)
    BY <1>1, KeepMisc DEF Fine, MiscFields
  <1>3. Fine(F, g)
    BY <1>1, <1>2, MiscChange
  <1> QED
    BY <1>1, <1>3 DEF g

(* finalizeGeneration keeps a heap fine. *)
LEMMA FinalizeFine ==
  ASSUME NEW F, NEW h, NEW a \in Agents, NEW status \in Outcomes, Fine(F, h),
         h.chain \notin {<<"startup", a>>, <<"initialize", a>>}
  PROVE  Fine(F, Finalize(h, a, status)) /\ Keeps(h, Finalize(h, a, status))
  <1>1. CASE h.active[a] = 0
    <2>1. Finalize(h, a, status) = h
      BY <1>1 DEF Finalize
    <2> QED
      BY <2>1, KeepsSelf
  <1>2. CASE h.active[a] # 0
    <2> DEFINE o == IF h.intr[a] /\ status # "uncertain" THEN "interrupted" ELSE status
               m1 == JoinRun(h, a, o)
               m2 == ReleaseRunnable(m1, a)
               below == ActiveDescendants(m2, a)
               m0 == Walks(m2, m2.walks \cup {<<"detached", <<d>>>> : d \in below})
               m3 == ForEach(m0, below, InterruptOne)
               m4 == ResumeOwners(Continue(m2, a), a)
    <2>1. Finalize(h, a, status) = IF below # {} THEN m3 ELSE m4
      BY <1>2 DEF Finalize, JoinRun, Walks
    <2>2. o \in Outcomes
      BY DEF Outcomes
    <2> HIDE DEF o
    <2>3. /\ Fine(F, m1) /\ Only(h, m1, {"active", "intr", "ckpt", "join", "after", "log"}) /\ m1.join[a] # NoJoin
      BY <1>2, <2>2, JoinRunFine
    <2> HIDE DEF m1
    <2>4. Fine(F, m2) /\ Pumped(m1, m2)
      BY <2>3, ReleaseRunnableFine
    <2> HIDE DEF m2
    <2>5. m2.join[a] # NoJoin
      BY <2>3, <2>4, StillIs DEF Pumped
    <2>6. Keeps(h, m2)
      <3>1. Keeps(h, m1)
        BY <2>3, OnlyKeeps
      <3> QED
        BY <2>4, <3>1, PumpedKeeps, KeepsTrans
    <2>a. Fine(F, m0) /\ Keeps(h, m0)
      BY <2>4, <2>6, WalksFine, OnlyKeeps, KeepsTrans
    <2> HIDE DEF m0, below
    <2>7. Fine(F, m3) /\ Keeps(h, m3)
      BY <2>a, InterruptAllFine, KeepsTrans
    <2> DEFINE m5 == Continue(m2, a)
    <2>8. Fine(F, m5) /\ Keeps(h, m5)
      BY <2>4, <2>5, <2>6, ContinueFine, SettlesKeeps, KeepsTrans
    <2> HIDE DEF m5
    <2>9. Fine(F, ResumeOwners(m5, a)) /\ Keeps(h, ResumeOwners(m5, a))
      BY <2>8, ResumeOwnersFine, SettlesKeeps, KeepsTrans, Zenon
    <2> HIDE DEF m3
    <2> QED
      BY <2>1, <2>7, <2>9 DEF m5
  <1> QED
    BY <1>1, <1>2

(* A run that an agent has, its worker initialized, is started. *)
LEMMA RunStarted ==
  ASSUME NEW F, NEW h, NEW a \in Agents, Fine(F, h), h.chain # <<"initialize", a>>
  PROVE  h.active[a] # 0 => /\ h.active[a] \in Runs /\ h.active[a] <= h.made[a]
                            /\ Has(F \cup Range(h.log), "started", a, h.active[a])
  <1> DEFINE E == F \cup Range(h.log)
             v == View(h, a)
  <1>1. v.active = h.active[a] /\ v.cur = h.cur[a] /\ v.gen = h.gen[a] /\ v.init = (h.chain = <<"initialize", a>>)
    BY ViewFields
  <1>2. ViewType(v) /\ HeldOK(Of(E, a), a, v)
    BY FineView DEF RunOK
  <1> HIDE DEF E, v
  <1>3. v.active # 0 => Has(Of(E, a), "started", a, v.cur) /\ v.active = v.cur
    BY <1>1, <1>2, ValIsHas DEF HeldOK, ViewType
  <1>4. h.active[a] # 0 => h.active[a] \in Runs /\ h.active[a] <= h.made[a]
    <2>1. Sound(h, a)
      BY AgentIs
    <2>2. h.active[a] # 0 => h.active[a] = h.cur[a] /\ h.life[a] # "absent"
      BY <1>1, <1>3, <2>1 DEF Sound
    <2>3. h.life[a] # "absent" => h.cur[a] \in Runs /\ h.cur[a] <= h.made[a]
      BY <2>1, Zenon DEF Sound
    <2> QED
      BY <2>2, <2>3
  <1> QED
    BY <1>1, <1>3, <1>4, FactsOf DEF E

(* A run that an agent lost is started. *)
LEMMA LostStarted ==
  ASSUME NEW F, NEW h, NEW a \in Agents, Fine(F, h)
  PROVE  h.lost[a] # 0 => Has(F \cup Range(h.log), "started", a, h.lost[a])
  <1> DEFINE E == F \cup Range(h.log)
             v == View(h, a)
  <1>1. v.lost = h.lost[a]
    BY ViewFields
  <1>2. RunsOK(Of(E, a), a, v)
    BY FineView DEF RunOK
  <1> HIDE DEF E, v
  <1> QED
    BY <1>1, <1>2, FactsOf DEF E, RunsOK

(* close, last section, of one agent. *)
LEMMA RetireFine ==
  ASSUME NEW F, NEW h, NEW a \in Agents, Fine(F, h), h.life[a] # "absent",
         h.chain \notin {<<"startup", a>>, <<"initialize", a>>}
  PROVE  Fine(F, Retire(h, a)) /\ Keeps(h, Retire(h, a))
  <1>1. CASE h.life[a] = "closed"
    <2>1. Retire(h, a) = h
      BY <1>1 DEF Retire
    <2> QED
      BY <2>1, KeepsSelf
  <1>2. CASE h.life[a] # "closed"
    <2> DEFINE n == h.active[a]
               o == "interrupted"
               down == Down(h, a)
               told == Told(down, a, n, o)
               ended == IF n = 0 THEN down ELSE SettleTerminal(told, a, n, o)
               m1 == SettleQueued(ended, a, o)
               m2 == ReleaseRunnable(m1, a)
               m3 == ReleaseResident(m2, a)
    <2>1. Retire(h, a) = MarkClosed(m3, a)
      BY <1>2 DEF Retire, Down, Told, MarkClosed
    <2>o. o \in Outcomes
      BY DEF Outcomes
    <2> HIDE DEF o
    <2>2. h.life[a] \in {"open", "closing"}
      <3>1. Sound(h, a)
        BY AgentIs
      <3> QED
        BY <1>2, <3>1 DEF Sound
    <2>3. Fine(F, down) /\ Only(h, down, {"life", "worker", "parked", "active"})
      BY <2>2, DownFine, Zenon
    <2>4. /\ down.life[a] = "closing" /\ ~down.parked[a] /\ down.active[a] = 0
          /\ \A b \in Agents : h.life[b] # "absent" => down.life[b] # "absent"
      <3>1. /\ DOMAIN h = Fields /\ h.life = [b \in Agents |-> h.life[b]] /\ h.parked = [b \in Agents |-> h.parked[b]]
            /\ h.active = [b \in Agents |-> h.active[b]]
        BY DEF Fine, Whole, AgentFields
      <3> QED
        BY <3>1 DEF Down, Fields
    <2> HIDE DEF down
    <2>5. /\ down.lost = h.lost /\ down.pendingSettle = h.pendingSettle /\ down.chain = h.chain
          /\ down.suspended = h.suspended /\ down.join = h.join /\ down.made = h.made /\ down.log = h.log
      BY <2>3 DEF Only, Fields
    <2>6. Keeps(h, down)
      BY <2>4, <2>5 DEF Keeps
    <2>7. Fine(F, ended) /\ Settles(down, ended)
      <3>1. CASE n = 0
        BY <2>3, <3>1, SettlesSelf
      <3>2. CASE n # 0
        <4>1. n \in Runs /\ n <= h.made[a] /\ Has(F \cup Range(h.log), "started", a, n)
          BY <3>2, RunStarted, Zenon
        <4>2. h.join[a] = NoJoin
          <5>1. Sound(h, a)
            BY AgentIs
          <5> QED
            BY <3>2, <5>1, Zenon DEF Sound
        <4> HIDE DEF n
        <4>3. Fine(F, told) /\ Only(down, told, {"log"})
          <5>1. Has(F \cup Range(down.log), "started", a, n) /\ (down.active[a] # 0 \/ down.join[a] # NoJoin => down.cur[a] # n)
            BY <2>4, <2>5, <4>1, <4>2
          <5> QED
            BY <2>3, <2>o, <4>1, <5>1, ToldFine
        <4> HIDE DEF told
        <4>4. /\ told.made = down.made /\ told.active = down.active /\ told.join = down.join
              /\ told.parked = down.parked /\ told.chain = down.chain
          BY <4>3 DEF Only, Fields
        <4>5. MayEnd(told, a, n)
          BY <2>4, <2>5, <4>1, <4>2, <4>4 DEF MayEnd, Runs
        <4>6. Fine(F, SettleTerminal(told, a, n, o)) /\ Settles(told, SettleTerminal(told, a, n, o))
          BY <2>o, <4>3, <4>5, SettleTerminalFine
        <4>7. Settles(down, told)
          <5>1. {"log"} \cap (SettleFields \cup {"active", "cur"}) = {}
            BY DEF SettleFields
          <5> QED
            BY <4>3, <4>4, <5>1, OnlySettles
        <4> QED
          BY <3>2, <4>6, <4>7, SettlesTrans
      <3> QED
        BY <3>1, <3>2
    <2> HIDE DEF ended
    <2>8. ended.life = down.life
      BY <2>7, SettleIs DEF Settles
    <2>9. Unable(ended, a)
      BY <2>4, <2>8 DEF Unable
    <2>10. Fine(F, m1) /\ Settles(ended, m1)
      BY <2>o, <2>7, <2>9, SettleQueuedFine
    <2> HIDE DEF m1
    <2>11. Fine(F, m2) /\ Settles(m1, m2)
      BY <2>10, ReleaseRunnableFine, PumpedSettles
    <2> HIDE DEF m2
    <2>12. Fine(F, m3) /\ Settles(m2, m3)
      BY <2>11, ReleaseResidentFine, PumpedSettles
    <2> HIDE DEF m3
    <2>13. Settles(down, m3)
      BY <2>7, <2>10, <2>11, <2>12, SettlesTrans
    <2>14. m3.life[a] = "closing"
      BY <2>4, <2>13, SettleIs DEF Settles
    <2> DEFINE m4 == MarkClosed(m3, a)
    <2>15. Fine(F, m4) /\ Only(m3, m4, {"life", "log"})
      BY <2>12, <2>14, MarkClosedFine
    <2>16. \A b \in Agents : m3.life[b] # "absent" => m4.life[b] # "absent"
      <3>1. DOMAIN m3 = Fields /\ m3.life = [b \in Agents |-> m3.life[b]]
        BY <2>12 DEF Fine, Whole, AgentFields
      <3> QED
        BY <3>1 DEF MarkClosed, Append1, Fields
    <2> HIDE DEF m4
    <2>17. /\ m4.lost = m3.lost /\ m4.pendingSettle = m3.pendingSettle /\ m4.chain = m3.chain
           /\ m4.suspended = m3.suspended
      BY <2>15 DEF Only, Fields
    <2>18. Keeps(m3, m4)
      BY <2>16, <2>17 DEF Keeps
    <2>19. Keeps(h, m4)
      BY <2>6, <2>13, <2>18, SettlesKeeps, KeepsTrans
    <2> QED
      BY <2>1, <2>15, <2>19 DEF m4
  <1> QED
    BY <1>1, <1>2

RetireIn(set, h, k) == IF k \in set THEN Retire(h, k) ELSE h
RetireFold == INSTANCE Folding WITH Op <- RetireIn, Good <- KeepGood

(* retire of a set of agents keeps a heap fine. *)
LEMMA RetireAllFine ==
  ASSUME NEW F, NEW h, NEW set, Fine(F, h), \A b \in set : b \in Agents /\ h.life[b] # "absent", h.chain = Idle
  PROVE  Fine(F, ForEach(h, set, Retire)) /\ Keeps(h, ForEach(h, set, Retire))
  <1> DEFINE d == <<F, h>>
  <1>1. ForEach(h, set, Retire) = RetireFold!Fold(set, h, MaxAgents)
    BY Zenon DEF ForEach, RetireFold!Fold, RetireIn
  <1>2. KeepGood(d, h, 0)
    BY KeepsSelf DEF KeepGood
  <1>3. \A g, k : k \in 1 .. MaxAgents /\ KeepGood(d, g, k - 1) => KeepGood(d, RetireIn(set, g, k), k)
    <2> SUFFICES ASSUME NEW g, NEW k \in 1 .. MaxAgents, KeepGood(d, g, k - 1)
                 PROVE  KeepGood(d, RetireIn(set, g, k), k)
      OBVIOUS
    <2>1. Fine(F, g) /\ Keeps(h, g)
      BY DEF KeepGood
    <2>2. CASE k \in set
      <3>1. g.life[k] # "absent" /\ g.chain \notin {<<"startup", k>>, <<"initialize", k>>} /\ k \in Agents
        BY <2>1, <2>2, NotStarting DEF Keeps
      <3>2. Fine(F, Retire(g, k)) /\ Keeps(h, Retire(g, k))
        BY <2>1, <3>1, RetireFine, KeepsTrans
      <3> QED
        BY <2>2, <3>2 DEF KeepGood, RetireIn
    <2>3. CASE k \notin set
      BY <2>1, <2>3 DEF KeepGood, RetireIn
    <2> QED
      BY <2>2, <2>3
  <1>4. MaxAgents \in Nat
    BY SubagentsAssumption
  <1>5. KeepGood(d, RetireFold!Fold(set, h, MaxAgents), MaxAgents)
    <2> HIDE DEF d
    <2> QED
      BY <1>2, <1>3, <1>4, RetireFold!FoldKeeps
  <1> QED
    BY <1>1, <1>5 DEF KeepGood

-----------------------------------------------------------------------------
(* Recovery *)

(* Facts stay. *)
LEMMA MoreFacts ==
  ASSUME NEW F, NEW h, NEW g, NEW f, NEW a, NEW n, h.log \in Seq(FactType), g.log = Append(h.log, f),
         Has(F \cup Range(h.log), "started", a, n)
  PROVE  Has(F \cup Range(g.log), "started", a, n)
  <1>1. Range(g.log) = Range(h.log) \cup {f}
    BY AppendRange
  <1> QED
    BY <1>1 DEF Has

(* reconcileLostRun: the run is not lost any more, and other agents' lost runs stay so. *)
Found1(h, g, a) ==
  /\ g.pendingSettle = h.pendingSettle /\ g.chain = h.chain /\ g.suspended = h.suspended /\ g.life = h.life
  /\ g.lost[a] = 0 /\ \A b \in Agents \ {a} : g.lost[b] = h.lost[b]

(* reconcileLostRun keeps a heap fine. *)
LEMMA ReconcileFine ==
  ASSUME NEW F, NEW h, NEW a \in Agents, NEW suspect \in BOOLEAN, NEW barred \in BOOLEAN, Fine(F, h)
  PROVE  /\ Fine(F, ReconcileLostRun(h, a, suspect, barred))
         /\ Found1(h, ReconcileLostRun(h, a, suspect, barred), a)
  <1> DEFINE n == h.lost[a]
             o == IF suspect THEN "uncertain" ELSE "interrupted"
             m1 == IF barred THEN Quarantine(h, a) ELSE h
             m2 == Told(m1, a, n, o)
             m3 == SettleTerminal(m2, a, n, o)
             m4 == Found(m3, a)
  <1>1. ReconcileLostRun(h, a, suspect, barred) = IF n = 0 THEN h ELSE m4
    BY DEF ReconcileLostRun, Quarantine, Told, Found
  <1>2. CASE n = 0
    BY <1>1, <1>2 DEF Found1
  <1>3. CASE n # 0
    <2>o. o \in Outcomes
      BY DEF Outcomes
    <2> HIDE DEF o
    <2>1. n \in Runs /\ n <= h.made[a] /\ Has(F \cup Range(h.log), "started", a, n)
      BY <1>3, QueueIs, LostStarted, Zenon
    <2>2. h.active[a] = 0 /\ h.join[a] = NoJoin /\ ~h.parked[a] /\ h.chain # <<"startup", a>>
      <3>1. Sound(h, a)
        BY AgentIs
      <3> QED
        BY <1>3, <3>1, Zenon DEF Sound
    <2>3. Fine(F, m1) /\ Only(h, m1, {"quarantined", "log"}) /\ Has(F \cup Range(m1.log), "started", a, n)
      <3>1. CASE barred
        <4>1. Fine(F, Quarantine(h, a)) /\ Only(h, Quarantine(h, a), {"quarantined", "log"})
          BY <1>3, QuarantineFine
        <4>2. DOMAIN h = Fields /\ h.log \in Seq(FactType)
          BY DEF Fine, Whole
        <4>3. Quarantine(h, a).log = Append(h.log, <<"quarantined", a>>)
          BY <4>2 DEF Quarantine, Append1, Fields
        <4>4. Has(F \cup Range(Quarantine(h, a).log), "started", a, n)
          BY <2>1, <4>2, <4>3, MoreFacts, Zenon
        <4> QED
          BY <3>1, <4>1, <4>4
      <3>2. CASE ~barred
        BY <2>1, <3>2, OnlySelf
      <3> QED
        BY <3>1, <3>2
    <2> HIDE DEF m1, n
    <2>4. /\ m1.active = h.active /\ m1.join = h.join /\ m1.parked = h.parked /\ m1.chain = h.chain /\ m1.made = h.made
          /\ m1.lost = h.lost /\ m1.pendingSettle = h.pendingSettle /\ m1.suspended = h.suspended /\ m1.life = h.life
      BY <2>3 DEF Only, Fields
    <2>5. Fine(F, m2) /\ Only(m1, m2, {"log"})
      <3>1. m1.active[a] # 0 \/ m1.join[a] # NoJoin => m1.cur[a] # n
        BY <2>2, <2>4
      <3> QED
        BY <2>1, <2>3, <2>o, <3>1, ToldFine
    <2> HIDE DEF m2
    <2>6. /\ m2.active = h.active /\ m2.join = h.join /\ m2.parked = h.parked /\ m2.chain = h.chain /\ m2.made = h.made
          /\ m2.lost = h.lost /\ m2.pendingSettle = h.pendingSettle /\ m2.suspended = h.suspended /\ m2.life = h.life
      BY <2>4, <2>5 DEF Only, Fields
    <2>7. MayEnd(m2, a, n)
      BY <2>1, <2>2, <2>6 DEF MayEnd, Runs
    <2>8. Fine(F, m3) /\ Settles(m2, m3)
      BY <2>5, <2>7, <2>o, SettleTerminalFine
    <2> HIDE DEF m3
    <2>9. /\ m3.lost = h.lost /\ m3.pendingSettle = h.pendingSettle /\ m3.suspended = h.suspended /\ m3.life = h.life
          /\ m3.chain = h.chain
      BY <2>6, <2>8, SettleIs DEF Settles
    <2>10. Fine(F, m4) /\ Only(m3, m4, {"lost"})
      BY <2>8, FoundFine, Zenon
    <2>11. m4.lost[a] = 0 /\ \A b \in Agents \ {a} : m4.lost[b] = m3.lost[b]
      <3>1. DOMAIN m3 = Fields /\ m3.lost = [b \in Agents |-> m3.lost[b]]
        BY <2>8 DEF Fine, Whole, AgentFields
      <3> QED
        BY <3>1 DEF Found, Fields
    <2> HIDE DEF m4
    <2>12. m4.pendingSettle = m3.pendingSettle /\ m4.suspended = m3.suspended /\ m4.life = m3.life /\ m4.chain = m3.chain
      BY <2>10 DEF Only, Fields
    <2>13. Found1(h, m4, a)
      BY <2>9, <2>11, <2>12 DEF Found1
    <2> QED
      BY <1>1, <1>3, <2>10, <2>13 DEF n
  <1> QED
    BY <1>2, <1>3

LostIn(c, h, k) == IF k \in c[1] THEN ReconcileLostRun(h, k, k \in c[2], k \in c[3]) ELSE h
(* The lost runs of the open agents 1 .. k are dealt with. *)
LostGood(d, h, k) ==
  /\ Fine(d[1], h) /\ h.pendingSettle = d[2].pendingSettle /\ h.chain = d[2].chain /\ h.suspended = d[2].suspended
  /\ \A b \in Agents : h.lost[b] = 0 \/ (h.lost[b] = d[2].lost[b] /\ (b <= k => b \notin d[3]))
LostFold == INSTANCE Folding WITH Op <- LostIn, Good <- LostGood

(* The fold over the lost runs leaves none. *)
LEMMA LostFine ==
  ASSUME NEW F, NEW h, NEW open, NEW suspects, NEW barred, Fine(F, h), NEW c, c = <<open, suspects, barred>>,
         \A b \in Agents : h.lost[b] # 0 => b \in open
  PROVE  LET g == LostFold!Fold(c, h, MaxAgents)
         IN  /\ Fine(F, g) /\ g.pendingSettle = h.pendingSettle /\ g.chain = h.chain /\ g.suspended = h.suspended
             /\ \A b \in Agents : g.lost[b] = 0
  <1> DEFINE d == <<F, h, open>>
  <1>0. d[1] = F /\ d[2] = h /\ d[3] = open /\ c[1] = open /\ c[2] = suspects /\ c[3] = barred
    OBVIOUS
  <1> HIDE DEF d
  <1>1. LostGood(d, h, 0)
    BY <1>0 DEF LostGood, Agents
  <1>2. \A g, k : k \in 1 .. MaxAgents /\ LostGood(d, g, k - 1) => LostGood(d, LostIn(c, g, k), k)
    <2> SUFFICES ASSUME NEW g, NEW k \in 1 .. MaxAgents, LostGood(d, g, k - 1)
                 PROVE  LostGood(d, LostIn(c, g, k), k)
      OBVIOUS
    <2>1. /\ Fine(F, g) /\ g.pendingSettle = h.pendingSettle /\ g.chain = h.chain /\ g.suspended = h.suspended
          /\ \A b \in Agents : g.lost[b] = 0 \/ (g.lost[b] = h.lost[b] /\ (b <= k - 1 => b \notin open))
      BY <1>0 DEF LostGood
    <2>2. k \in Agents /\ \A b \in Agents : b \in Nat /\ (b <= k => b <= k - 1 \/ b = k)
      BY DEF Agents
    <2>3. CASE k \in open
      <3> DEFINE s == k \in suspects
                 q == k \in barred
                 m == ReconcileLostRun(g, k, s, q)
      <3>1. LostIn(c, g, k) = m /\ s \in BOOLEAN /\ q \in BOOLEAN
        BY <1>0, <2>3 DEF LostIn
      <3> HIDE DEF s, q
      <3>2. Fine(F, m) /\ Found1(g, m, k)
        BY <2>1, <2>2, <3>1, ReconcileFine
      <3> HIDE DEF m
      <3>3. \A b \in Agents : m.lost[b] = 0 \/ (m.lost[b] = h.lost[b] /\ (b <= k => b \notin open))
        BY <2>1, <2>2, <3>2 DEF Found1
      <3>4. m.pendingSettle = h.pendingSettle /\ m.chain = h.chain /\ m.suspended = h.suspended
        BY <2>1, <3>2 DEF Found1
      <3> QED
        BY <1>0, <3>1, <3>2, <3>3, <3>4 DEF LostGood
    <2>4. CASE k \notin open
      <3>1. LostIn(c, g, k) = g
        BY <1>0, <2>4 DEF LostIn
      <3>2. \A b \in Agents : g.lost[b] = 0 \/ (g.lost[b] = h.lost[b] /\ (b <= k => b \notin open))
        BY <2>1, <2>2, <2>4
      <3> QED
        BY <1>0, <2>1, <3>1, <3>2 DEF LostGood
    <2> QED
      BY <2>3, <2>4
  <1>3. MaxAgents \in Nat
    BY SubagentsAssumption
  <1>4. LostGood(d, LostFold!Fold(c, h, MaxAgents), MaxAgents)
    BY <1>1, <1>2, <1>3, LostFold!FoldKeeps
  <1> QED
    BY <1>0, <1>3, <1>4 DEF LostGood, Agents

HoldIn(set, h, k) == IF k \in set THEN HoldQueued(h, k) ELSE h
HoldGood(d, h, k) == Fine(d[1], h) /\ Only(d[2], h, {"held"})
HoldFold == INSTANCE Folding WITH Op <- HoldIn, Good <- HoldGood

(* holdQueued of a set of agents. *)
LEMMA HoldFine ==
  ASSUME NEW F, NEW h, NEW set, Fine(F, h)
  PROVE  Fine(F, ForEach(h, set, HoldQueued)) /\ Only(h, ForEach(h, set, HoldQueued), {"held"})
  <1> DEFINE d == <<F, h>>
  <1>1. ForEach(h, set, HoldQueued) = HoldFold!Fold(set, h, MaxAgents)
    BY Zenon DEF ForEach, HoldFold!Fold, HoldIn
  <1>2. HoldGood(d, h, 0)
    BY OnlySelf DEF HoldGood
  <1>3. \A g, k : k \in 1 .. MaxAgents /\ HoldGood(d, g, k - 1) => HoldGood(d, HoldIn(set, g, k), k)
    <2> SUFFICES ASSUME NEW g, NEW k \in 1 .. MaxAgents, HoldGood(d, g, k - 1)
                 PROVE  HoldGood(d, HoldIn(set, g, k), k)
      OBVIOUS
    <2>1. Fine(F, g) /\ Only(h, g, {"held"}) /\ k \in Agents
      BY DEF HoldGood, Agents
    <2> DEFINE m == HoldQueued(g, k)
               i == g.queue[k] # <<>>
    <2>2. Only(g, m, {"held"}) /\ m.held = [g.held EXCEPT ![k] = i] /\ i \in BOOLEAN
      BY <2>1 DEF Fine, Whole, Only, Fields, HoldQueued
    <2> HIDE DEF m, i
    <2>3. MiscInv(m)
      <3>1. /\ m.parent = g.parent /\ m.intr = g.intr /\ m.joinInterrupted = g.joinInterrupted /\ m.ckpt = g.ckpt
            /\ m.after = g.after /\ m.wait = g.wait
        BY <2>2 DEF Only, Fields
      <3>2. MiscInv(g)
        BY <2>1 DEF Fine
      <3>3. m.held \in [Agents -> BOOLEAN]
        BY <2>2, <3>2, Zenon DEF MiscInv
      <3> QED
        BY <3>1, <3>2, <3>3 DEF MiscInv
    <2>4. {"held"} \subseteq MiscFields \cup {"closes", "suspended", "walks"}
      BY DEF MiscFields
    <2>5. Fine(F, m)
      BY <2>1, <2>2, <2>3, <2>4, MiscChange
    <2>6. Only(h, m, {"held"})
      BY <2>1, <2>2 DEF Only
    <2> QED
      BY <2>1, <2>5, <2>6 DEF HoldGood, HoldIn, m
  <1>4. MaxAgents \in Nat
    BY SubagentsAssumption
  <1>5. HoldGood(d, HoldFold!Fold(set, h, MaxAgents), MaxAgents)
    <2> HIDE DEF d
    <2> QED
      BY <1>2, <1>3, <1>4, HoldFold!FoldKeeps
  <1> QED
    BY <1>1, <1>5 DEF HoldGood

(* An outcome left unpublished is published. *)
Publish1(h, a) == Published(SettleTerminal(h, a, h.pendingSettle[a][1], h.pendingSettle[a][2]), a)

(* Then it is not pending any more, and other agents' outcomes are as they were. *)
IsOut(h, g, a) ==
  /\ g.lost = h.lost /\ g.chain = h.chain /\ g.suspended = h.suspended
  /\ g.pendingSettle[a] = NoJoin /\ \A b \in Agents \ {a} : g.pendingSettle[b] = h.pendingSettle[b]

(* One pending settlement is published. *)
LEMMA Publish1Fine ==
  ASSUME NEW F, NEW h, NEW a \in Agents, Fine(F, h), h.pendingSettle[a] # NoJoin
  PROVE  Fine(F, Publish1(h, a)) /\ IsOut(h, Publish1(h, a), a)
  <1> DEFINE n == h.pendingSettle[a][1]
             o == h.pendingSettle[a][2]
             m == SettleTerminal(h, a, n, o)
             g == Published(m, a)
  <1>0. Publish1(h, a) = g
    BY DEF Publish1
  <1>1. /\ ~h.parked[a] /\ h.chain # <<"startup", a>> /\ h.active[a] = 0 /\ h.join[a] = NoJoin /\ n <= h.made[a]
        /\ h.pendingSettle[a] \in {NoJoin} \cup (Runs \X Outcomes)
    <2>1. Sound(h, a)
      BY AgentIs
    <2> QED
      BY <2>1, Zenon DEF Sound
  <1>2. n \in Runs /\ o \in Outcomes
    BY <1>1
  <1> HIDE DEF n, o
  <1>3. MayEnd(h, a, n)
    BY <1>1, <1>2 DEF MayEnd, Runs
  <1>4. Fine(F, m) /\ Settles(h, m)
    BY <1>2, <1>3, SettleTerminalFine
  <1> HIDE DEF m
  <1>5. m.lost = h.lost /\ m.chain = h.chain /\ m.suspended = h.suspended /\ m.pendingSettle = h.pendingSettle
    BY <1>4, SettleIs DEF Settles
  <1>6. Fine(F, g) /\ Only(m, g, {"pendingSettle"})
    BY <1>4, PublishedFine, Zenon
  <1>7. g.pendingSettle[a] = NoJoin /\ \A b \in Agents \ {a} : g.pendingSettle[b] = m.pendingSettle[b]
    <2>1. DOMAIN m = Fields /\ m.pendingSettle = [b \in Agents |-> m.pendingSettle[b]]
      BY <1>4 DEF Fine, Whole, AgentFields
    <2> QED
      BY <2>1 DEF Published, Fields
  <1> HIDE DEF g
  <1>8. g.lost = m.lost /\ g.chain = m.chain /\ g.suspended = m.suspended
    BY <1>6 DEF Only, Fields
  <1>9. IsOut(h, g, a)
    BY <1>5, <1>7, <1>8 DEF IsOut
  <1> QED
    BY <1>0, <1>6, <1>9

PendingIn(set, h, k) == IF k \in set THEN Publish1(h, k) ELSE h
(* The outcomes of the agents 1 .. k are published, those of the others as they were. *)
PendingGood(d, h, k) ==
  /\ Fine(d[1], h) /\ h.lost = d[2].lost /\ h.chain = d[2].chain /\ h.suspended = d[2].suspended
  /\ \A b \in Agents : IF b <= k THEN h.pendingSettle[b] = NoJoin ELSE h.pendingSettle[b] = d[2].pendingSettle[b]
PendingFold == INSTANCE Folding WITH Op <- PendingIn, Good <- PendingGood

Unsettled(h) == {a \in Agents : h.pendingSettle[a] # NoJoin}

(* The fold over the pending settlements leaves none. *)
LEMMA PendingFine ==
  ASSUME NEW F, NEW h, NEW set, Fine(F, h), set = Unsettled(h)
  PROVE  LET g == PendingFold!Fold(set, h, MaxAgents)
         IN  /\ Fine(F, g) /\ g.lost = h.lost /\ g.chain = h.chain /\ g.suspended = h.suspended
             /\ \A b \in Agents : g.pendingSettle[b] = NoJoin
  <1> set = {a \in Agents : h.pendingSettle[a] # NoJoin}
    BY DEF Unsettled
  <1> DEFINE d == <<F, h>>
  <1>0. d[1] = F /\ d[2] = h
    OBVIOUS
  <1> HIDE DEF d
  <1>1. PendingGood(d, h, 0)
    BY <1>0 DEF PendingGood, Agents
  <1>2. \A g, k : k \in 1 .. MaxAgents /\ PendingGood(d, g, k - 1) => PendingGood(d, PendingIn(set, g, k), k)
    <2> SUFFICES ASSUME NEW g, NEW k \in 1 .. MaxAgents, PendingGood(d, g, k - 1)
                 PROVE  PendingGood(d, PendingIn(set, g, k), k)
      OBVIOUS
    <2>1. /\ Fine(F, g) /\ g.lost = h.lost /\ g.chain = h.chain /\ g.suspended = h.suspended
          /\ \A b \in Agents : IF b <= k - 1 THEN g.pendingSettle[b] = NoJoin ELSE g.pendingSettle[b] = h.pendingSettle[b]
      BY <1>0 DEF PendingGood
    <2>2. k \in Agents /\ k \in Nat /\ ~(k <= k - 1) /\ \A b \in Agents : b # k => (b <= k <=> b <= k - 1)
      BY DEF Agents
    <2>3. g.pendingSettle[k] = h.pendingSettle[k]
      BY <2>1, <2>2
    <2>4. CASE k \in set
      <3> DEFINE m == Publish1(g, k)
      <3>1. PendingIn(set, g, k) = m
        BY <2>4 DEF PendingIn
      <3>2. g.pendingSettle[k] # NoJoin
        BY <2>3, <2>4
      <3>3. /\ Fine(F, m) /\ m.lost = g.lost /\ m.chain = g.chain /\ m.suspended = g.suspended
            /\ m.pendingSettle[k] = NoJoin /\ \A b \in Agents \ {k} : m.pendingSettle[b] = g.pendingSettle[b]
        <4>1. Fine(F, m) /\ IsOut(g, m, k)
          BY <2>1, <2>2, <3>2, Publish1Fine
        <4> HIDE DEF m
        <4> QED
          BY <4>1 DEF IsOut
      <3> HIDE DEF m
      <3>4. \A b \in Agents : IF b <= k THEN m.pendingSettle[b] = NoJoin ELSE m.pendingSettle[b] = h.pendingSettle[b]
        <4> TAKE b \in Agents
        <4>1. CASE b = k
          BY <2>2, <3>3, <4>1
        <4>2. CASE b # k
          <5>1. m.pendingSettle[b] = g.pendingSettle[b] /\ (b <= k <=> b <= k - 1)
            BY <2>2, <3>3, <4>2
          <5>2. IF b <= k - 1 THEN g.pendingSettle[b] = NoJoin ELSE g.pendingSettle[b] = h.pendingSettle[b]
            BY <2>1
          <5> QED
            BY <5>1, <5>2
        <4> QED
          BY <4>1, <4>2
      <3> QED
        BY <1>0, <2>1, <3>1, <3>3, <3>4 DEF PendingGood
    <2>5. CASE k \notin set
      <3>1. PendingIn(set, g, k) = g
        BY <2>5 DEF PendingIn
      <3>2. h.pendingSettle[k] = NoJoin
        BY <2>2, <2>5
      <3>3. \A b \in Agents : IF b <= k THEN g.pendingSettle[b] = NoJoin ELSE g.pendingSettle[b] = h.pendingSettle[b]
        BY <2>1, <2>2, <2>3, <3>2
      <3> QED
        BY <1>0, <2>1, <3>1, <3>3 DEF PendingGood
    <2> QED
      BY <2>4, <2>5
  <1>3. MaxAgents \in Nat
    BY SubagentsAssumption
  <1>4. PendingGood(d, PendingFold!Fold(set, h, MaxAgents), MaxAgents)
    BY <1>1, <1>2, <1>3, PendingFold!FoldKeeps
  <1> QED
    BY <1>0, <1>3, <1>4 DEF PendingGood, Agents

(* recover, as the composition of its parts. *)
LostAll(h, open, suspects, barred) ==
  LET Lost(m, a) == ReconcileLostRun(m, a, a \in suspects, a \in barred) IN ForEach(h, open, Lost)
PublishAll(h, set) ==
  LET Pending(m, a) == [SettleTerminal(m, a, m.pendingSettle[a][1], m.pendingSettle[a][2])
                           EXCEPT !.pendingSettle[a] = NoJoin]
  IN  ForEach(h, set, Pending)
Suspend(h) == [h EXCEPT !.suspended = TRUE]
Reconciled(h, suspects, barred) ==
  ForEach(LostAll(Suspend(h), {a \in Agents : h.life[a] = "open"}, suspects, barred),
          {a \in Agents : h.life[a] = "open"}, HoldQueued)
AllOut(h) == PublishAll(h, {a \in Agents : h.pendingSettle[a] # NoJoin})

(* The loop over the lost runs is a fold. *)
LEMMA LostAllIs ==
  ASSUME NEW h, NEW c
  PROVE  LostAll(h, c[1], c[2], c[3]) = LostFold!Fold(c, h, MaxAgents)
  BY Zenon DEF LostAll, ForEach, LostFold!Fold, LostIn

(* The loop over the pending settlements is a fold. *)
LEMMA PublishAllIs ==
  ASSUME NEW h, NEW set
  PROVE  PublishAll(h, set) = PendingFold!Fold(set, h, MaxAgents)
  BY Zenon DEF PublishAll, ForEach, PendingFold!Fold, PendingIn, Publish1, Published

(* recover, step by step. *)
LEMMA RecoveryIs ==
  ASSUME NEW h, NEW suspects, NEW barred
  PROVE  Recovery(h, suspects, barred) = PumpRunnable(Resumed(AllOut(Reconciled(h, suspects, barred))))
  BY Zenon DEF Recovery, AllOut, Reconciled, Suspend, LostAll, PublishAll, Resumed, ForEach

(* recover begins: dispatch is suspended. *)
LEMMA SuspendFine ==
  ASSUME NEW F, NEW h, Fine(F, h)
  PROVE  Fine(F, Suspend(h)) /\ Only(h, Suspend(h), {"suspended"})
  <1>1. Only(h, Suspend(h), {"suspended"})
    BY DEF Fine, Whole, Only, Fields, Suspend
  <1>2. MiscInv(Suspend(h))
    BY <1>1, KeepMisc DEF Fine, MiscFields
  <1>3. {"suspended"} \subseteq MiscFields \cup {"closes", "suspended", "walks"}
    OBVIOUS
  <1> QED
    BY <1>1, <1>2, <1>3, MiscChange

(* Nothing is left to recover. *)
Recovered(h) == \A b \in Agents : h.lost[b] = 0 /\ h.pendingSettle[b] = NoJoin

(* recover leaves a fine heap with nothing to recover. *)
LEMMA RecoveryFine ==
  ASSUME NEW F, NEW h, NEW suspects, NEW barred, Fine(F, h), \A b \in Agents : h.lost[b] # 0 => h.life[b] = "open",
         \A b \in Agents : h.chain # <<"initialize", b>>
  PROVE  /\ Fine(F, Recovery(h, suspects, barred)) /\ Recovered(Recovery(h, suspects, barred))
         /\ Recovery(h, suspects, barred).chain = Idle /\ ~Recovery(h, suspects, barred).suspended
  <1> DEFINE open == {a \in Agents : h.life[a] = "open"}
             c == <<open, suspects, barred>>
             m1 == Suspend(h)
             m2 == LostAll(m1, open, suspects, barred)
             m3 == ForEach(m2, open, HoldQueued)
             set == {a \in Agents : m3.pendingSettle[a] # NoJoin}
             m4 == PublishAll(m3, set)
             m5 == Resumed(m4)
             m6 == PumpRunnable(m5)
  <1>0. Recovery(h, suspects, barred) = m6
    BY RecoveryIs DEF AllOut, Reconciled
  <1>1. Fine(F, m1) /\ Only(h, m1, {"suspended"})
    BY SuspendFine
  <1> HIDE DEF m1
  <1>2. \A b \in Agents : m1.lost[b] # 0 => b \in open
    BY <1>1 DEF Only, Fields
  <1>3. m2 = LostFold!Fold(c, m1, MaxAgents)
    <2>1. c[1] = open /\ c[2] = suspects /\ c[3] = barred
      OBVIOUS
    <2>2. LostAll(m1, c[1], c[2], c[3]) = LostFold!Fold(c, m1, MaxAgents)
      BY LostAllIs
    <2> HIDE DEF c, open
    <2> QED
      BY <2>1, <2>2
  <1>c. c = <<open, suspects, barred>>
    OBVIOUS
  <1> HIDE DEF c, open, m2
  <1>4. /\ Fine(F, m2) /\ m2.pendingSettle = m1.pendingSettle /\ m2.chain = m1.chain /\ m2.suspended = m1.suspended
        /\ \A b \in Agents : m2.lost[b] = 0
    BY <1>1, <1>2, <1>3, <1>c, LostFine
  <1>5. Fine(F, m3) /\ Only(m2, m3, {"held"})
    BY <1>4, HoldFine
  <1> HIDE DEF m3
  <1>6. m3.lost = m2.lost
    BY <1>5 DEF Only, Fields
  <1>7. m4 = PendingFold!Fold(set, m3, MaxAgents)
    BY PublishAllIs
  <1>s. set = Unsettled(m3)
    BY DEF Unsettled
  <1> HIDE DEF set, m4
  <1>8. Fine(F, m4) /\ m4.lost = m3.lost /\ m4.chain = m3.chain /\ \A b \in Agents : m4.pendingSettle[b] = NoJoin
    BY <1>5, <1>7, <1>s, PendingFine
  <1>n. \A b \in Agents : m4.chain # <<"initialize", b>>
    <2>1. m1.chain = h.chain /\ m3.chain = m2.chain
      BY <1>1, <1>5 DEF Only, Fields
    <2> QED
      BY <1>4, <1>8, <2>1
  <1>9. Fine(F, m5) /\ Only(m4, m5, {"suspended", "chain"}) /\ ~m5.suspended /\ m5.chain = Idle
    BY <1>8, <1>n, ResumedFine, Zenon
  <1> HIDE DEF m5
  <1>10. m5.lost = m4.lost /\ m5.pendingSettle = m4.pendingSettle
    BY <1>9 DEF Only, Fields
  <1>11. Fine(F, m6) /\ Pumped(m5, m6)
    BY <1>9, PumpRunnableFine
  <1> HIDE DEF m6
  <1>12. m6.lost = m5.lost /\ m6.pendingSettle = m5.pendingSettle /\ m6.chain = m5.chain /\ m6.suspended = m5.suspended
    BY <1>11, StillIs DEF Pumped
  <1>13. Recovered(m6)
    BY <1>4, <1>6, <1>8, <1>10, <1>12 DEF Recovered
  <1> QED
    BY <1>0, <1>9, <1>11, <1>12, <1>13

-----------------------------------------------------------------------------
(* The invariant: a live supervisor agrees with the facts and has nothing left to recover; one *)
(* that is to recover is what the journal alone makes it.                                       *)
Live(F, h) == Fine(F, h) /\ Recovered(h) /\ ~h.suspended /\ h.chain # <<"recover", 0>>
Recovering(h, J, t) == t = <<>> /\ h = [Replay(J) EXCEPT !.chain = <<"recover", 0>>]
SupOK(h, J, t) ==
  /\ Fine(J \cup Range(t), h) /\ h.log = <<>> /\ t \in Seq(FactType) /\ Unbroken(J, t) /\ ~h.suspended
  /\ IF h.chain = <<"recover", 0>> THEN Recovering(h, J, t) ELSE Recovered(h)
SupInv == SupOK(sup, journal, tail)

(* A live supervisor stays live when it keeps what recovery is about. *)
LEMMA LiveKeeps ==
  ASSUME NEW F, NEW h, NEW g, Live(F, h), Fine(F, g), Keeps(h, g)
  PROVE  Live(F, g)
  BY DEF Live, Keeps, Recovered

(* A step of the supervisor that leaves it live keeps the invariant. *)
LEMMA LiveStep ==
  ASSUME NEW F, NEW h, Live(F, h)
  PROVE  SupOK([h EXCEPT !.log = <<>>], F, h.log)
  <1> DEFINE g == [h EXCEPT !.log = <<>>]
             G == F \cup Range(h.log)
  <1>1. /\ Fine(F, h) /\ Whole(h) /\ LeaseInv(h) /\ MiscInv(h) /\ JobsOK(h) /\ ResidentsOK(h) /\ h.log \in Seq(FactType)
        /\ RunInv(G, h) /\ Unbroken(F, h.log)
    BY DEF Live, Fine
  <1>2. Only(h, g, {"log"}) /\ g.log = <<>>
    BY <1>1 DEF Whole, Only, Fields
  <1> HIDE DEF g
  <1>3. LeaseInv(g) /\ MiscInv(g) /\ JobsOK(g) /\ ResidentsOK(g)
    BY <1>1, <1>2, KeepLeases, KeepMisc, KeepJobs, KeepResidents DEF LeaseFields, MiscFields, JobFields
  <1>4. Whole(g)
    BY <1>1, <1>2 DEF Whole, Only, Fields, AgentFields
  <1>5. /\ g.lost = h.lost /\ g.pendingSettle = h.pendingSettle /\ g.chain = h.chain /\ g.suspended = h.suspended
        /\ g.life = h.life
    BY <1>2 DEF Only, Fields
  <1>6. \A b \in Agents : View(g, b) = View(h, b)
    BY <1>2 DEF Only, Fields, View
  <1>7. RunInv(G, g)
    BY <1>1, <1>5, <1>6, Zenon DEF RunInv
  <1>8. G \cup Range(g.log) = G
    BY <1>2, EmptyRange
  <1>9. JournalOK(G)
    BY <1>1, RunInvJournal
  <1>10. Unbroken(G, g.log) /\ g.log \in Seq(FactType)
    <2>1. \A k \in 0 .. Len(g.log) : G \cup Range(SubSeq(g.log, 1, k)) = G
      <3> TAKE k \in 0 .. Len(g.log)
      <3>1. k = 0 /\ SubSeq(<<>>, 1, 0) = <<>>
        BY <1>2
      <3> QED
        BY <1>2, <3>1, EmptyRange, Zenon
    <2>2. \A k \in 0 .. Len(g.log) : JournalOK(G \cup Range(SubSeq(g.log, 1, k)))
      <3> HIDE DEF G
      <3> QED
        BY <1>9, <2>1, Zenon
    <2>3. g.log \in Seq(FactType)
      BY <1>2
    <2> QED
      BY <2>2, <2>3, Zenon DEF Unbroken
  <1>11. Fine(G, g)
    BY <1>3, <1>4, <1>7, <1>8, <1>10, Zenon DEF Fine
  <1>12. Recovered(g) /\ ~g.suspended /\ g.chain # <<"recover", 0>>
    BY <1>5 DEF Live, Recovered
  <1>13. SupOK(g, F, h.log)
    BY <1>1, <1>2, <1>11, <1>12 DEF SupOK
  <1> QED
    BY <1>13 DEF g

(* A step that leaves a live heap keeps the invariant. *)
LEMMA StepKeeps ==
  ASSUME NEW m, Live(Facts, m), Step(m)
  PROVE  SupInv'
  <1>1. SupOK([m EXCEPT !.log = <<>>], Facts, m.log)
    BY LiveStep
  <1>2. sup' = [m EXCEPT !.log = <<>>] /\ tail' = m.log /\ journal' = Facts
    BY DEF Step, Facts
  <1>3. SupOK(sup', journal', tail')
    BY <1>1, <1>2
  <1> QED
    BY <1>3 DEF SupInv

(* A restarted supervisor runs nothing and nobody waits. *)
LEMMA ReplayQuiet ==
  ASSUME NEW J, NEW h, NEW t, Recovering(h, J, t)
  PROVE  /\ \A a \in Agents : h.active[a] = 0 /\ h.wait[a] = "none"
         /\ h.closes = {} /\ h.walks = {}
  BY DEF Recovering, Replay, NewHeap, Each

(* Outside of recovery the supervisor is live. *)
LEMMA SupLive ==
  ASSUME SupInv
  PROVE  /\ sup.chain # <<"recover", 0>> => Live(Facts, sup)
         /\ (\E a \in Agents : sup.active[a] # 0 \/ sup.wait[a] # "none" \/ a \in sup.closes) => Live(Facts, sup)
         /\ sup.walks # {} => Live(Facts, sup)
  <1>1. sup.chain # <<"recover", 0>> => Live(Facts, sup)
    BY DEF SupInv, SupOK, Facts, Live
  <1>2. ASSUME NEW a \in Agents, sup.active[a] # 0 \/ sup.wait[a] # "none" \/ a \in sup.closes
        PROVE  sup.chain # <<"recover", 0>>
    <2>1. ASSUME sup.chain = <<"recover", 0>> PROVE FALSE
      <3>1. Recovering(sup, journal, tail)
        BY <2>1 DEF SupInv, SupOK
      <3> QED
        BY <1>2, <3>1, ReplayQuiet
    <2> QED
      BY <2>1
  <1>3. sup.walks # {} => sup.chain # <<"recover", 0>>
    <2>1. ASSUME sup.chain = <<"recover", 0>> PROVE sup.walks = {}
      <3>1. Recovering(sup, journal, tail)
        BY <2>1 DEF SupInv, SupOK
      <3> QED
        BY <3>1, ReplayQuiet
    <2> QED
      BY <2>1
  <1> QED
    BY <1>1, <1>2, <1>3

-----------------------------------------------------------------------------
(* The steps that use one handler *)

(* A handler that has the chain runs in a live supervisor. *)
LEMMA FreeLive ==
  ASSUME SupInv, Free
  PROVE  /\ Live(Facts, sup) /\ Fine(Facts, sup) /\ sup.chain = Idle
         /\ \A b : sup.chain # <<"startup", b>> /\ sup.chain # <<"initialize", b>>
  <1>1. sup.chain = Idle
    BY DEF Free
  <1>2. Idle # <<"recover", 0>>
    BY DEF Idle
  <1> QED
    BY <1>1, <1>2, SupLive, NotStarting DEF Live

(* What keeps lost runs, pending outcomes and the chain takes a live heap to a live one. *)
LEMMA KeepsStep ==
  ASSUME NEW m, Live(Facts, sup), Fine(Facts, m), Keeps(sup, m), Step(m)
  PROVE  SupInv'
  BY LiveKeeps, StepKeeps

(* Settled keeps the invariant. *)
LEMMA SettledKeeps ==
  ASSUME NEW a \in Agents, NEW status \in {"succeeded", "failed"}, SupInv, Settled(a, status)
  PROVE  SupInv'
  <1>1. Free /\ Step(Finalize(sup, a, status)) /\ status \in Outcomes
    BY DEF Settled, Outcomes
  <1> QED
    BY <1>1, FreeLive, FinalizeFine, KeepsStep

(* Launched keeps the invariant. *)
LEMMA LaunchedKeeps ==
  ASSUME NEW a \in Agents, SupInv, Launched(a)
  PROVE  SupInv'
  <1> DEFINE m == Prompt(sup, a)
  <1>1. sup.chain = <<"startup", a>> /\ Step(m)
    BY DEF Launched, Prompt
  <1>2. Live(Facts, sup) /\ Fine(Facts, sup)
    BY <1>1, SupLive DEF Live
  <1>3. Fine(Facts, m) /\ Only(sup, m, {"active", "intr", "chain"})
    BY <1>1, <1>2, PromptFine
  <1>4. m.chain = <<"initialize", a>>
    BY <1>2, Zenon DEF Fine, Whole, Fields, Prompt
  <1> HIDE DEF m
  <1>5. m.lost = sup.lost /\ m.pendingSettle = sup.pendingSettle /\ m.suspended = sup.suspended
    BY <1>3 DEF Only, Fields
  <1>6. Live(Facts, m)
    BY <1>2, <1>3, <1>4, <1>5 DEF Live, Recovered
  <1> QED
    BY <1>1, <1>6, StepKeeps

(* Started keeps the invariant. *)
LEMMA StartedKeeps ==
  ASSUME NEW a \in Agents, SupInv, Started(a)
  PROVE  SupInv'
  <1> DEFINE m == Begin(sup, a)
  <1>1. sup.chain = <<"initialize", a>> /\ Step(m)
    BY DEF Started, Begin
  <1>2. Live(Facts, sup) /\ Fine(Facts, sup)
    BY <1>1, SupLive DEF Live
  <1>3. Fine(Facts, m) /\ Only(sup, m, {"after", "chain", "log"})
    BY <1>1, <1>2, BeginFine
  <1>4. m.chain = Idle
    BY <1>2 DEF Fine, Whole, Fields, Begin, Append1
  <1> HIDE DEF m
  <1>5. m.lost = sup.lost /\ m.pendingSettle = sup.pendingSettle /\ m.suspended = sup.suspended
    BY <1>3 DEF Only, Fields
  <1>6. Live(Facts, m)
    BY <1>2, <1>3, <1>4, <1>5 DEF Live, Recovered, Idle
  <1> QED
    BY <1>1, <1>6, StepKeeps

(* Checkpointed keeps the invariant. *)
LEMMA CheckpointedKeeps ==
  ASSUME NEW a \in Agents, SupInv, Checkpointed(a)
  PROVE  SupInv'
  <1> DEFINE m == [sup EXCEPT !.ckpt[a] = FALSE]
  <1>1. Free /\ Step(PumpRunnable(m))
    BY DEF Checkpointed
  <1>2. Live(Facts, sup) /\ Fine(Facts, sup)
    BY <1>1, FreeLive
  <1>3. Only(sup, m, {"ckpt"}) /\ MiscInv(m)
    BY <1>2 DEF Fine, Whole, Only, Fields, MiscInv
  <1> HIDE DEF m
  <1>4. Fine(Facts, m)
    BY <1>2, <1>3, MiscChange DEF MiscFields
  <1>5. Keeps(sup, m)
    BY <1>3, OnlyKeeps
  <1>6. Fine(Facts, PumpRunnable(m)) /\ Keeps(m, PumpRunnable(m))
    BY <1>4, PumpRunnableFine, PumpedKeeps
  <1>7. Keeps(sup, PumpRunnable(m))
    BY <1>5, <1>6, KeepsTrans
  <1> QED
    BY <1>1, <1>2, <1>6, <1>7, KeepsStep

(* WaitAgent keeps the invariant. *)
LEMMA WaitAgentKeeps ==
  ASSUME NEW a \in Agents, SupInv, WaitAgent(a)
  PROVE  SupInv'
  <1> DEFINE m == [sup EXCEPT !.wait[a] = "waiting"]
  <1>1. sup.active[a] # 0 /\ Step(ReleaseRunnable(m, a))
    BY DEF WaitAgent, CanCall, Running
  <1>2. Live(Facts, sup) /\ Fine(Facts, sup)
    BY <1>1, SupLive DEF Live
  <1>3. Only(sup, m, {"wait"}) /\ MiscInv(m)
    BY <1>2 DEF Fine, Whole, Only, Fields, MiscInv
  <1> HIDE DEF m
  <1>4. Fine(Facts, m)
    BY <1>2, <1>3, MiscChange DEF MiscFields
  <1>5. Keeps(sup, m)
    BY <1>3, OnlyKeeps
  <1>6. Fine(Facts, ReleaseRunnable(m, a)) /\ Keeps(m, ReleaseRunnable(m, a))
    BY <1>4, ReleaseRunnableFine, PumpedKeeps
  <1>7. Keeps(sup, ReleaseRunnable(m, a))
    BY <1>5, <1>6, KeepsTrans
  <1> QED
    BY <1>1, <1>2, <1>6, <1>7, KeepsStep

(* WaitEnds keeps the invariant. *)
LEMMA WaitEndsKeeps ==
  ASSUME NEW a \in Agents, SupInv, WaitEnds(a)
  PROVE  SupInv'
  <1>1. sup.wait[a] # "none" /\ Step(AcquireQueued(sup, a))
    BY DEF WaitEnds
  <1>2. Live(Facts, sup) /\ Fine(Facts, sup)
    BY <1>1, SupLive DEF Live
  <1>3. Fine(Facts, AcquireQueued(sup, a)) /\ Only(sup, AcquireQueued(sup, a), {"leases", "waiters", "wait", "grant"})
    BY <1>2, AcquireQueuedFine
  <1>4. Keeps(sup, AcquireQueued(sup, a))
    BY <1>3, OnlyKeeps
  <1> QED
    BY <1>1, <1>2, <1>3, <1>4, KeepsStep

(* A walk stops at an agent. *)
LEMMA InterruptLive ==
  ASSUME NEW F, NEW h, NEW a \in Agents, Live(F, h)
  PROVE  Live(F, InterruptOne(h, a))
  <1>1. Fine(F, h)
    BY DEF Live
  <1>2. Fine(F, InterruptOne(h, a)) /\ Keeps(h, InterruptOne(h, a))
    BY <1>1, InterruptOneFine
  <1> QED
    BY <1>2, LiveKeeps

(* Interrupt keeps the invariant. *)
LEMMA InterruptKeeps ==
  ASSUME NEW a \in Agents, SupInv, Interrupt(a)
  PROVE  SupInv'
  <1> DEFINE ws == sup.walks \cup {<<"interrupt", <<a>>>>}
             m == Walking(sup, ws)
  <1>1. Free /\ Step(InterruptOne(m, a))
    BY Zenon DEF Interrupt, Walking
  <1>2. Live(Facts, sup) /\ Fine(Facts, sup) /\ sup.chain = Idle
    BY <1>1, FreeLive
  <1> HIDE DEF ws
  <1>3. Fine(Facts, m) /\ Only(sup, m, {"chain", "walks"}) /\ m.chain = <<"interrupt", 0>>
    BY <1>2, WalkingFine
  <1> HIDE DEF m
  <1>4. m.lost = sup.lost /\ m.pendingSettle = sup.pendingSettle /\ m.suspended = sup.suspended
    BY <1>3 DEF Only, Fields
  <1>5. Live(Facts, m)
    BY <1>2, <1>3, <1>4 DEF Live, Recovered
  <1> QED
    BY <1>1, <1>5, InterruptLive, StepKeeps

(* Close keeps the invariant. *)
LEMMA CloseKeeps ==
  ASSUME NEW a \in Agents, SupInv, Close(a)
  PROVE  SupInv'
  <1> DEFINE D == Subtree(sup, a)
             ws == sup.walks \cup {<<"close", InOrder(D)>>}
             m == CloseAll(sup, a, D, ws)
  <1>1. Free /\ Step(InterruptOne(m, a))
    BY Zenon DEF Close, CloseAll
  <1>2. Live(Facts, sup) /\ Fine(Facts, sup) /\ sup.chain = Idle
    BY <1>1, FreeLive
  <1> HIDE DEF D, ws
  <1>3. Fine(Facts, m) /\ Only(sup, m, {"chain", "walks", "life"}) /\ m.chain = <<"close", a>>
    <2>1. Fine(Facts, m) /\ Only(sup, m, {"chain", "walks", "life"})
      BY <1>2, CloseAllFine
    <2>2. m.chain = <<"close", a>>
      BY <1>2 DEF Fine, Whole, Fields, CloseAll
    <2> QED
      BY <2>1, <2>2
  <1> HIDE DEF m
  <1>4. m.lost = sup.lost /\ m.pendingSettle = sup.pendingSettle /\ m.suspended = sup.suspended
    BY <1>3 DEF Only, Fields
  <1>5. Live(Facts, m)
    BY <1>2, <1>3, <1>4 DEF Live, Recovered
  <1> QED
    BY <1>1, <1>5, InterruptLive, StepKeeps

(* InterruptNext keeps the invariant. *)
LEMMA InterruptNextKeeps ==
  ASSUME NEW walk \in sup.walks, NEW a \in Agents, SupInv, InterruptNext(walk, a)
  PROVE  SupInv'
  <1> DEFINE ws == (sup.walks \ {walk}) \cup {<<walk[1], Onward(sup, walk)>>}
             m == Walks(sup, ws)
  <1>1. Step(InterruptOne(m, a))
    BY Zenon DEF InterruptNext, WalkOn, Walks
  <1>2. Live(Facts, sup) /\ Fine(Facts, sup)
    BY SupLive DEF Live
  <1> HIDE DEF ws
  <1>3. Fine(Facts, m) /\ Keeps(sup, m)
    BY <1>2, WalksFine, OnlyKeeps
  <1> HIDE DEF m
  <1>4. Live(Facts, m)
    BY <1>2, <1>3, LiveKeeps
  <1> QED
    BY <1>1, <1>4, InterruptLive, StepKeeps

(* InterruptOver keeps the invariant. *)
LEMMA InterruptOverKeeps ==
  ASSUME NEW walk \in sup.walks, SupInv, InterruptOver(walk)
  PROVE  SupInv'
  <1> DEFINE c == IF walk[1] # "detached" /\ sup.chain[1] \in {"interrupt", "close"} THEN Idle ELSE sup.chain
             cs == IF walk[1] = "close" THEN sup.closes \cup {sup.chain[2]} ELSE sup.closes
             m == WalkOver(sup, sup.walks \ {walk}, c, cs)
  <1>1. Step(m)
    BY Zenon DEF InterruptOver, WalkEnds, WalkOver
  <1>2. Live(Facts, sup) /\ Fine(Facts, sup)
    BY SupLive DEF Live
  <1>c. c = sup.chain \/ (c = Idle /\ sup.chain[1] \in {"interrupt", "close"})
    OBVIOUS
  <1> HIDE DEF c, cs
  <1>3. Fine(Facts, m) /\ Only(sup, m, {"walks", "chain", "closes"}) /\ m.chain = c
    BY <1>2, <1>c, WalkOverFine
  <1> HIDE DEF m
  <1>4. m.lost = sup.lost /\ m.pendingSettle = sup.pendingSettle /\ m.suspended = sup.suspended
    BY <1>3 DEF Only, Fields
  <1>5. Live(Facts, m)
    BY <1>2, <1>3, <1>4, <1>c DEF Live, Recovered, Idle
  <1> QED
    BY <1>1, <1>5, StepKeeps

(* AwaitIdle keeps the invariant. *)
LEMMA AwaitIdleKeeps ==
  ASSUME NEW a \in Agents, SupInv, AwaitIdle(a)
  PROVE  SupInv'
  <1> DEFINE m == [sup EXCEPT !.closes = @ \ {a}]
             job == <<"retire", a>>
  <1>1. a \in sup.closes /\ Step(Detach(m, job))
    BY DEF AwaitIdle
  <1>2. Live(Facts, sup) /\ Fine(Facts, sup)
    BY <1>1, SupLive DEF Live
  <1>3. Only(sup, m, {"closes"})
    BY <1>2 DEF Fine, Whole, Only, Fields
  <1> HIDE DEF m
  <1>4. MiscInv(m)
    BY <1>2, <1>3, KeepMisc DEF Fine, MiscFields
  <1>5. Fine(Facts, m)
    BY <1>2, <1>3, <1>4, MiscChange
  <1>6. Keeps(sup, m)
    BY <1>3, OnlyKeeps
  <1>7. job \in JobType /\ job[1] # "load"
    BY DEF JobType
  <1> HIDE DEF job
  <1>8. Fine(Facts, Detach(m, job)) /\ Only(m, Detach(m, job), {"jobs"})
    BY <1>5, <1>7, DetachFine
  <1>9. Keeps(m, Detach(m, job))
    BY <1>8, OnlyKeeps
  <1>10. Keeps(sup, Detach(m, job))
    BY <1>6, <1>9, KeepsTrans
  <1> QED
    BY <1>1, <1>2, <1>8, <1>10, KeepsStep

(* RetireSubtree keeps the invariant. *)
LEMMA RetireSubtreeKeeps ==
  ASSUME NEW a \in Agents, SupInv, RetireSubtree(a)
  PROVE  SupInv'
  <1> DEFINE m == TakeJob(sup)
             D == Subtree(sup, a)
             g == ForEach(m, D, Retire)
  <1>1. Free /\ sup.jobs # <<>> /\ Step(g)
    BY DEF RetireSubtree, NextJob
  <1>2. Live(Facts, sup) /\ Fine(Facts, sup) /\ sup.chain = Idle
    BY <1>1, FreeLive
  <1>3. Fine(Facts, m) /\ Only(sup, m, {"jobs", "after"})
    BY <1>1, <1>2, TakeJobFine
  <1> HIDE DEF m
  <1>4. Keeps(sup, m) /\ m.life = sup.life /\ m.chain = Idle
    <2>1. Keeps(sup, m)
      BY <1>3, OnlyKeeps
    <2>2. m.life = sup.life /\ m.chain = sup.chain
      BY <1>3 DEF Only, Fields
    <2> QED
      BY <1>2, <2>1, <2>2
  <1>5. \A b \in D : b \in Agents /\ m.life[b] # "absent"
    BY <1>4 DEF Subtree, Tree
  <1> HIDE DEF D
  <1>6. Fine(Facts, g) /\ Keeps(m, g)
    BY <1>3, <1>4, <1>5, RetireAllFine
  <1> HIDE DEF g
  <1> QED
    BY <1>1, <1>2, <1>4, <1>6, KeepsTrans, KeepsStep

-----------------------------------------------------------------------------
(* The steps that end something *)

(* LeaseGranted keeps the invariant. *)
LEMMA LeaseGrantedKeeps ==
  ASSUME NEW a \in Agents, SupInv, LeaseGranted(a)
  PROVE  SupInv'
  <1> DEFINE l == sup.grant[a]
             m == [sup EXCEPT !.wait[a] = "none", !.grant[a] = 0]
             g == [m EXCEPT !.lease[a] = l]
  <1>1. sup.wait[a] = "granted" /\ (Step(g) \/ Step(ReleaseTicket(m, l)))
    BY DEF LeaseGranted
  <1>2. Live(Facts, sup) /\ Fine(Facts, sup)
    BY <1>1, SupLive DEF Live
  <1>3. LeaseInv(sup) /\ MiscInv(sup) /\ DOMAIN sup = Fields /\ JobsOK(sup) /\ ResidentsOK(sup)
    BY <1>2 DEF Fine, Whole
  <1>4. Only(sup, m, {"wait", "grant"}) /\ LeaseInv(m) /\ MiscInv(m)
    <2>1. Only(sup, m, {"wait", "grant"})
      BY <1>3, Zenon DEF Only, Fields
    <2>2. m.grant = [sup.grant EXCEPT ![a] = 0] /\ m.wait = [sup.wait EXCEPT ![a] = "none"]
      BY <1>3 DEF Fields
    <2> HIDE DEF m
    <2>3. m.lease = sup.lease /\ m.leases = sup.leases /\ m.waiters = sup.waiters
      BY <2>1 DEF Only, Fields
    <2>4. LeaseInv(m)
      <3>1. sup.grant \in [Agents -> 0 .. maxRunnable] /\ 0 \in 0 .. maxRunnable
        BY <1>3, SubagentsAssumption DEF LeaseInv
      <3>2. m.grant \in [Agents -> 0 .. maxRunnable]
        BY <2>2, <3>1
      <3>3. \A b \in Agents : m.grant[b] = 0 \/ m.grant[b] = sup.grant[b]
        BY <2>2, <3>1
      <3> QED
        BY <1>3, <2>3, <3>2, <3>3 DEF LeaseInv
    <2>5. /\ m.parent = sup.parent /\ m.intr = sup.intr /\ m.joinInterrupted = sup.joinInterrupted /\ m.ckpt = sup.ckpt
          /\ m.held = sup.held /\ m.after = sup.after
      BY <2>1 DEF Only, Fields
    <2>6. MiscInv(m)
      BY <1>3, <2>2, <2>5 DEF MiscInv
    <2> QED
      BY <2>1, <2>4, <2>6
  <1>5. Fine(Facts, m)
    <2> HIDE DEF m
    <2>1. JobsOK(m) /\ ResidentsOK(m)
      BY <1>3, <1>4, KeepJobs, KeepResidents DEF JobFields
    <2>2. {"wait", "grant"} \cap RunFields = {}
      BY DEF RunFields, AgentFields
    <2> QED
      BY <1>2, <1>4, <2>1, <2>2, QuietChange
  <1>6. Keeps(sup, m)
    <2> HIDE DEF m
    <2> QED
      BY <1>4, OnlyKeeps
  <1>7. l # 0 => \A b \in Agents : m.lease[b] # l /\ m.grant[b] # l
    <2>1. m.lease = sup.lease /\ m.grant = [sup.grant EXCEPT ![a] = 0]
      BY <1>3 DEF Fields
    <2> HIDE DEF m
    <2> QED
      BY <1>3, <2>1 DEF LeaseInv
  <1>8. CASE Step(ReleaseTicket(m, l))
    <2> HIDE DEF m, l
    <2>1. Fine(Facts, ReleaseTicket(m, l)) /\ Keeps(m, ReleaseTicket(m, l))
      BY <1>5, <1>7, ReleaseTicketFine, PumpedKeeps
    <2>2. Keeps(sup, ReleaseTicket(m, l))
      BY <1>6, <2>1, KeepsTrans
    <2> QED
      BY <1>2, <1>8, <2>1, <2>2, KeepsStep
  <1>9. CASE Step(g)
    <2>1. DOMAIN m = Fields
      BY <1>4 DEF Only
    <2>2. Only(m, g, {"lease"}) /\ g.lease = [m.lease EXCEPT ![a] = l]
      <3> HIDE DEF m
      <3> QED
        BY <2>1 DEF Only, Fields
    <2>3. l \in 0 .. maxRunnable /\ (l # 0 => l \in m.leases) /\ m.grant[a] = 0
      BY <1>3 DEF LeaseInv, Fields
    <2> HIDE DEF m, g, l
    <2>4. LeaseInv(g)
      <3>1. g.grant = m.grant /\ g.leases = m.leases /\ g.waiters = m.waiters
        BY <2>2 DEF Only, Fields
      <3> QED
        BY <1>4, <1>7, <2>2, <2>3, <3>1 DEF LeaseInv
    <2>5. MiscInv(g)
      BY <1>4, <2>2, KeepMisc DEF MiscFields
    <2>6. JobsOK(g) /\ ResidentsOK(g)
      BY <1>5, <2>2, KeepJobs, KeepResidents DEF JobFields, Fine
    <2>7. {"lease"} \cap RunFields = {}
      BY DEF RunFields, AgentFields
    <2>8. Fine(Facts, g)
      BY <1>5, <2>2, <2>4, <2>5, <2>6, <2>7, QuietChange
    <2>9. Keeps(sup, g)
      BY <1>6, <2>2, OnlyKeeps, KeepsTrans
    <2> QED
      BY <1>2, <1>9, <2>8, <2>9, KeepsStep
  <1> QED
    BY <1>1, <1>8, <1>9

(* WorkerExit keeps the invariant. *)
LEMMA WorkerExitKeeps ==
  ASSUME NEW a \in Agents, SupInv, WorkerExit(a)
  PROVE  SupInv'
  <1> DEFINE w == IF sup.wait[a] = "waiting" THEN "resuming" ELSE sup.wait[a]
             m1 == Exit(sup, a, w)
             m2 == CancelLeaseWait(m1, a)
  <1>1. Free
    BY DEF WorkerExit
  <1>2. Live(Facts, sup) /\ Fine(Facts, sup) /\ sup.chain \notin {<<"startup", a>>, <<"initialize", a>>}
    BY <1>1, FreeLive
  <1>3. m1 = [sup EXCEPT !.worker[a] = FALSE, !.wait[a] = IF @ = "waiting" THEN "resuming" ELSE @]
    BY DEF Exit
  <1>4. PICK status \in {"failed", "uncertain"} : Step(ReleaseResident(Finalize(m2, a, status), a))
    BY <1>3 DEF WorkerExit
  <1> DEFINE m3 == Finalize(m2, a, status)
             m4 == ReleaseResident(m3, a)
  <1>5. w \in {"none", "waiting", "resuming", "queued", "granted"}
    BY <1>2 DEF Fine, MiscInv
  <1> HIDE DEF w
  <1>6. Fine(Facts, m1) /\ Only(sup, m1, {"worker", "wait"})
    BY <1>2, <1>5, ExitFine, Zenon
  <1> HIDE DEF m1
  <1>7. Fine(Facts, m2) /\ Only(m1, m2, {"wait", "waiters"})
    BY <1>6, CancelLeaseWaitFine
  <1> HIDE DEF m2
  <1>8. Keeps(sup, m2)
    BY <1>6, <1>7, OnlyKeeps, KeepsTrans
  <1>9. m2.chain \notin {<<"startup", a>>, <<"initialize", a>>} /\ status \in Outcomes
    BY <1>2, <1>8 DEF Keeps, Outcomes
  <1>10. Fine(Facts, m3) /\ Keeps(m2, m3)
    BY <1>7, <1>9, FinalizeFine
  <1> HIDE DEF m3
  <1>11. Fine(Facts, m4) /\ Keeps(m3, m4)
    BY <1>10, ReleaseResidentFine, PumpedKeeps
  <1>12. Keeps(sup, m4) /\ Step(m4)
    BY <1>4, <1>8, <1>10, <1>11, KeepsTrans DEF m3
  <1> HIDE DEF m4
  <1> QED
    BY <1>2, <1>11, <1>12, KeepsStep

-----------------------------------------------------------------------------
(* The steps that launch a worker, or fail to *)

(* StartParked keeps the invariant. *)
LEMMA StartParkedKeeps ==
  ASSUME NEW a \in Agents, SupInv, StartParked(a)
  PROVE  SupInv'
  <1> DEFINE m == TakeJob(sup)
             g == StartParkedRun(m, a)
  <1>1. /\ Free /\ sup.jobs # <<>>
        /\ Step(ReleaseRunnable(m, a)) \/ (m.parked[a] /\ Step(g))
    BY DEF StartParked, NextJob, StartParkedRun
  <1>2. Live(Facts, sup) /\ Fine(Facts, sup) /\ sup.chain = Idle
    BY <1>1, FreeLive
  <1>3. Fine(Facts, m) /\ Only(sup, m, {"jobs", "after"})
    BY <1>1, <1>2, TakeJobFine
  <1> HIDE DEF m
  <1>4. Keeps(sup, m)
    BY <1>3, OnlyKeeps
  <1>5. CASE Step(ReleaseRunnable(m, a))
    <2>1. Fine(Facts, ReleaseRunnable(m, a)) /\ Keeps(m, ReleaseRunnable(m, a))
      BY <1>3, ReleaseRunnableFine, PumpedKeeps
    <2>2. Keeps(sup, ReleaseRunnable(m, a))
      BY <1>4, <2>1, KeepsTrans
    <2> QED
      BY <1>2, <1>5, <2>1, <2>2, KeepsStep
  <1>6. CASE m.parked[a] /\ Step(g)
    <2>1. m.chain = Idle /\ Live(Facts, m)
      BY <1>2, <1>3, <1>4, LiveKeeps DEF Keeps
    <2>2. Fine(Facts, g) /\ Only(m, g, {"parked", "worker", "chain"})
      BY <1>3, <1>6, <2>1, StartParkedRunFine
    <2>3. g.chain = <<"startup", a>>
      BY <1>3 DEF Fine, Whole, Fields, StartParkedRun
    <2> HIDE DEF g
    <2>4. g.lost = m.lost /\ g.pendingSettle = m.pendingSettle /\ g.suspended = m.suspended
      BY <2>2 DEF Only, Fields
    <2>5. Live(Facts, g)
      BY <2>1, <2>2, <2>3, <2>4 DEF Live, Recovered
    <2> QED
      BY <1>6, <2>5, StepKeeps
  <1> QED
    BY <1>1, <1>5, <1>6

(* startupFailed keeps a heap fine. *)
LEMMA LoseStartupFine ==
  ASSUME NEW F, NEW h, NEW a \in Agents, Fine(F, h), h.chain = Idle, h.join[a] = NoJoin, ~h.parked[a],
         h.life[a] # "absent"
  PROVE  Fine(F, LoseStartup(h, a)) /\ Keeps(h, LoseStartup(h, a))
  <1> DEFINE stop == StopWorker(h, a)
             down == ReleaseRunnable(stop, a)
             bare == ReleaseResident(down, a)
             ended == StopRun(bare, a)
             last == SettleTerminal(ended, a, ended.cur[a], "failed")
  <1>0. LoseStartup(h, a) = last
    BY Zenon DEF LoseStartup, StopWorker, StopRun
  <1> HIDE DEF last
  <1>1. Fine(F, stop) /\ Only(h, stop, {"worker"})
    BY StopWorkerFine, Zenon
  <1> HIDE DEF stop
  <1>2. Fine(F, down) /\ Pumped(stop, down)
    BY <1>1, ReleaseRunnableFine
  <1> HIDE DEF down
  <1>3. Fine(F, bare) /\ Pumped(down, bare)
    BY <1>2, ReleaseResidentFine
  <1> HIDE DEF bare
  <1>4. Keeps(h, bare)
    BY <1>1, <1>2, <1>3, PumpedKeeps, OnlyKeeps, KeepsTrans
  <1>5. bare.join = h.join /\ bare.parked = h.parked /\ bare.life = h.life
    <2>1. stop.join = h.join /\ stop.parked = h.parked /\ stop.life = h.life
      BY <1>1 DEF Only, Fields
    <2>2. down.join = stop.join /\ down.parked = stop.parked /\ down.life = stop.life
      BY <1>2, StillIs DEF Pumped
    <2>3. bare.join = down.join /\ bare.parked = down.parked /\ bare.life = down.life
      BY <1>3, StillIs DEF Pumped
    <2> QED
      BY <2>1, <2>2, <2>3
  <1>6. bare.chain = Idle /\ bare.chain \notin {<<"startup", a>>, <<"initialize", a>>}
    BY <1>4, NotStarting DEF Keeps
  <1>7. Fine(F, ended) /\ Only(bare, ended, {"active"}) /\ ended.active[a] = 0
    <2>1. Fine(F, ended) /\ Only(bare, ended, {"active"})
      BY <1>3, <1>6, StopRunFine, Zenon
    <2>2. DOMAIN bare = Fields /\ bare.active = [b \in Agents |-> bare.active[b]]
      BY <1>3 DEF Fine, Whole, AgentFields
    <2>3. ended.active[a] = 0
      BY <2>2 DEF StopRun, Fields
    <2> QED
      BY <2>1, <2>3
  <1> HIDE DEF ended
  <1>8. Keeps(h, ended)
    BY <1>4, <1>7, OnlyKeeps, KeepsTrans
  <1>9. MayEnd(ended, a, ended.cur[a])
    <2>1. ended.join[a] = NoJoin /\ ~ended.parked[a] /\ ended.life[a] # "absent" /\ ended.chain # <<"startup", a>>
      BY <1>5, <1>6, <1>7 DEF Only, Fields
    <2>2. Sound(ended, a)
      BY <1>7, AgentIs
    <2>3. ended.cur[a] \in Runs /\ ended.cur[a] <= ended.made[a]
      BY <2>1, <2>2, Zenon DEF Sound
    <2> QED
      BY <1>7, <2>1, <2>3 DEF MayEnd, Runs
  <1>10. Fine(F, last) /\ Keeps(ended, last)
    BY <1>7, <1>9, SettleTerminalFine, SettlesKeeps DEF last, Outcomes
  <1> QED
    BY <1>0, <1>8, <1>10, KeepsTrans

(* LaunchFailed keeps the invariant. *)
LEMMA LaunchFailedKeeps ==
  ASSUME NEW a \in Agents, SupInv, LaunchFailed(a)
  PROVE  SupInv'
  <1> DEFINE m == EndReload(sup, a)
             freed == ReleaseRunnable(m, a)
             last == LoseStartup(freed, a)
  <1>1. sup.chain = <<"startup", a>> /\ Step(last)
    BY Zenon DEF LaunchFailed, EndReload
  <1>2. Live(Facts, sup) /\ Fine(Facts, sup)
    BY <1>1, SupLive DEF Live
  <1>3. sup.join[a] = NoJoin /\ ~sup.parked[a] /\ sup.life[a] # "absent"
    <2>1. Sound(sup, a)
      BY <1>2, AgentIs
    <2> QED
      BY <1>1, <2>1, Zenon DEF Sound
  <1>4. Fine(Facts, m) /\ Only(sup, m, {"chain", "worker"}) /\ m.chain = Idle
    <2>1. \A b \in Agents : sup.chain # <<"initialize", b>>
      BY <1>1
    <2>2. Fine(Facts, m) /\ Only(sup, m, {"chain", "worker"})
      BY <1>2, <2>1, EndReloadFine
    <2>3. m.chain = Idle
      BY <1>2 DEF Fine, Whole, Fields, EndReload
    <2> QED
      BY <2>2, <2>3
  <1> HIDE DEF m
  <1>5. Live(Facts, m)
    <2>1. m.lost = sup.lost /\ m.pendingSettle = sup.pendingSettle /\ m.suspended = sup.suspended
      BY <1>4 DEF Only, Fields
    <2> QED
      BY <1>2, <1>4, <2>1 DEF Live, Recovered, Idle
  <1>6. m.join = sup.join /\ m.parked = sup.parked /\ m.life = sup.life
    BY <1>4 DEF Only, Fields
  <1>7. Fine(Facts, freed) /\ Pumped(m, freed)
    BY <1>4, ReleaseRunnableFine
  <1> HIDE DEF freed
  <1>8. freed.chain = Idle /\ freed.join[a] = NoJoin /\ ~freed.parked[a] /\ freed.life[a] # "absent"
    BY <1>3, <1>4, <1>6, <1>7, StillIs DEF Pumped
  <1>9. Fine(Facts, last) /\ Keeps(freed, last)
    BY <1>7, <1>8, LoseStartupFine
  <1> HIDE DEF last
  <1>10. Keeps(m, last)
    BY <1>7, <1>9, PumpedKeeps, KeepsTrans
  <1>11. Live(Facts, last)
    BY <1>5, <1>9, <1>10, LiveKeeps
  <1> QED
    BY <1>1, <1>11, StepKeeps

(* InitializeFailed keeps the invariant. *)
LEMMA InitializeFailedKeeps ==
  ASSUME NEW a \in Agents, SupInv, InitializeFailed(a)
  PROVE  SupInv'
  <1> DEFINE m == EndInit(sup, a)
             freed == ReleaseRunnable(m, a)
             last == LoseStartup(freed, a)
  <1>1. sup.chain = <<"initialize", a>> /\ Step(last)
    BY Zenon DEF InitializeFailed, EndInit
  <1>2. Live(Facts, sup) /\ Fine(Facts, sup)
    BY <1>1, SupLive DEF Live
  <1>3. sup.join[a] = NoJoin /\ ~sup.parked[a] /\ sup.life[a] # "absent"
    <2>1. Sound(sup, a)
      BY <1>2, AgentIs
    <2> QED
      BY <1>1, <2>1, Zenon DEF Sound
  <1>4. Fine(Facts, m) /\ Only(sup, m, {"chain", "active"}) /\ m.chain = Idle
    <2>1. Fine(Facts, m) /\ Only(sup, m, {"chain", "active"})
      BY <1>1, <1>2, EndInitFine
    <2>2. m.chain = Idle
      BY <1>2 DEF Fine, Whole, Fields, EndInit
    <2> QED
      BY <2>1, <2>2
  <1> HIDE DEF m
  <1>5. Live(Facts, m)
    <2>1. m.lost = sup.lost /\ m.pendingSettle = sup.pendingSettle /\ m.suspended = sup.suspended
      BY <1>4 DEF Only, Fields
    <2> QED
      BY <1>2, <1>4, <2>1 DEF Live, Recovered, Idle
  <1>6. m.join = sup.join /\ m.parked = sup.parked /\ m.life = sup.life
    BY <1>4 DEF Only, Fields
  <1>7. Fine(Facts, freed) /\ Pumped(m, freed)
    BY <1>4, ReleaseRunnableFine
  <1> HIDE DEF freed
  <1>8. freed.chain = Idle /\ freed.join[a] = NoJoin /\ ~freed.parked[a] /\ freed.life[a] # "absent"
    BY <1>3, <1>4, <1>6, <1>7, StillIs DEF Pumped
  <1>9. Fine(Facts, last) /\ Keeps(freed, last)
    BY <1>7, <1>8, LoseStartupFine
  <1> HIDE DEF last
  <1>10. Keeps(m, last)
    BY <1>7, <1>9, PumpedKeeps, KeepsTrans
  <1>11. Live(Facts, last)
    BY <1>5, <1>9, <1>10, LiveKeeps
  <1> QED
    BY <1>1, <1>11, StepKeeps

(* Reloaded keeps the invariant. *)
LEMMA ReloadedKeeps ==
  ASSUME NEW a \in Agents, SupInv, Reloaded(a)
  PROVE  SupInv'
  <1> DEFINE m == EndChain(sup)
  <1>1. sup.chain # <<"recover", 0>> /\ (\A b \in Agents : sup.chain # <<"initialize", b>>) /\ Step(PumpQueue(m, a))
    BY DEF Reloaded, EndChain
  <1>2. Live(Facts, sup) /\ Fine(Facts, sup)
    BY <1>1, SupLive DEF Live
  <1>3. Fine(Facts, m) /\ Only(sup, m, {"chain"}) /\ m.chain = Idle
    BY <1>1, <1>2, EndChainFine
  <1> HIDE DEF m
  <1>4. Live(Facts, m)
    <2>1. m.lost = sup.lost /\ m.pendingSettle = sup.pendingSettle /\ m.suspended = sup.suspended
      BY <1>3 DEF Only, Fields
    <2> QED
      BY <1>2, <1>3, <2>1 DEF Live, Recovered, Idle
  <1>5. Fine(Facts, PumpQueue(m, a)) /\ Keeps(m, PumpQueue(m, a))
    BY <1>3, PumpQueueFine, PumpedKeeps
  <1> QED
    BY <1>1, <1>4, <1>5, LiveKeeps, StepKeeps

(* ReloadFailed keeps the invariant. *)
LEMMA ReloadFailedKeeps ==
  ASSUME NEW a \in Agents, SupInv, ReloadFailed(a)
  PROVE  SupInv'
  <1> DEFINE m == EndReload(sup, a)
             down == ReleaseResident(m, a)
             last == SettleQueued(down, a, "failed")
  <1>1. /\ sup.chain # <<"recover", 0>> /\ \A b \in Agents : sup.chain # <<"initialize", b>>
        /\ Step(last) \/ Step(down)
    BY DEF ReloadFailed, EndReload
  <1>2. Live(Facts, sup) /\ Fine(Facts, sup)
    BY <1>1, SupLive DEF Live
  <1>3. Fine(Facts, m) /\ Only(sup, m, {"chain", "worker"}) /\ m.chain = Idle
    <2>1. Fine(Facts, m) /\ Only(sup, m, {"chain", "worker"})
      BY <1>1, <1>2, EndReloadFine, Zenon
    <2>2. m.chain = Idle
      BY <1>2 DEF Fine, Whole, Fields, EndReload
    <2> QED
      BY <2>1, <2>2
  <1>4. ~m.worker[a]
    <2>1. DOMAIN sup = Fields /\ sup.worker = [b \in Agents |-> sup.worker[b]]
      BY <1>2 DEF Fine, Whole, AgentFields
    <2> QED
      BY <2>1 DEF EndReload, Fields
  <1> HIDE DEF m
  <1>5. Live(Facts, m)
    <2>1. m.lost = sup.lost /\ m.pendingSettle = sup.pendingSettle /\ m.suspended = sup.suspended
      BY <1>3 DEF Only, Fields
    <2> QED
      BY <1>2, <1>3, <2>1 DEF Live, Recovered, Idle
  <1>6. Fine(Facts, down) /\ Pumped(m, down)
    BY <1>3, ReleaseResidentFine
  <1> HIDE DEF down
  <1>7. Live(Facts, down) /\ ~down.worker[a]
    BY <1>4, <1>5, <1>6, PumpedKeeps, LiveKeeps, StillIs DEF Pumped
  <1>8. Fine(Facts, last) /\ Keeps(down, last)
    <2>1. Unable(down, a) /\ "failed" \in Outcomes
      BY <1>7 DEF Unable, Outcomes
    <2> QED
      BY <1>6, <2>1, SettleQueuedFine, SettlesKeeps
  <1> HIDE DEF last
  <1>9. Live(Facts, last)
    BY <1>7, <1>8, LiveKeeps
  <1> QED
    BY <1>1, <1>7, <1>9, StepKeeps

(* reloadAgent of an agent that may have a worker. *)
LEMMA ReloadLive ==
  ASSUME NEW F, NEW h, NEW a \in Agents, NEW why \in {"load", "resume"}, Live(F, h), h.chain = Idle, ~h.parked[a],
         MayReload(h, a), CanReside(h)
  PROVE  Live(F, Reload(h, a, why))
  <1> DEFINE m == AcquireResident(h, a)
             g == Bind(m, a, why)
  <1>0. Reload(h, a, why) = g
    BY DEF Reload, Bind
  <1>1. Fine(F, h) /\ h.life[a] = "open" /\ ~h.quarantined[a] /\ h.lost[a] = 0
    BY DEF Live, MayReload
  <1>2. Fine(F, m) /\ Same(h, m, StillFields \ {"worker"})
    BY <1>1, AcquireResidentFine
  <1> HIDE DEF m
  <1>3. /\ m.chain = Idle /\ m.life = h.life /\ m.parked = h.parked /\ m.quarantined = h.quarantined
        /\ m.lost = h.lost /\ m.pendingSettle = h.pendingSettle /\ m.suspended = h.suspended
    BY <1>2 DEF Same, StillFields
  <1>4. m.life[a] # "absent" /\ ~m.parked[a] /\ ~m.quarantined[a] /\ m.lost[a] = 0
    BY <1>1, <1>3
  <1>5. Fine(F, g) /\ Only(m, g, {"worker", "chain"})
    BY <1>2, <1>3, <1>4, BindFine
  <1>6. g.chain = <<why, a>>
    BY <1>2 DEF Fine, Whole, Fields, Bind
  <1> HIDE DEF g
  <1>7. g.lost = m.lost /\ g.pendingSettle = m.pendingSettle /\ g.suspended = m.suspended
    BY <1>5 DEF Only, Fields
  <1>8. <<why, a>> # <<"recover", 0>>
    OBVIOUS
  <1>9. Live(F, g)
    BY <1>3, <1>5, <1>6, <1>7, <1>8 DEF Live, Recovered
  <1> QED
    BY <1>0, <1>9

(* loadForQueue leaves a live supervisor live. *)
LEMMA LoadForQueueLive ==
  ASSUME NEW F, NEW h, NEW a \in Agents, Live(F, h), h.chain = Idle, ~h.parked[a]
  PROVE  Live(F, LoadForQueue(h, a))
  <1>0. Fine(F, h)
    BY DEF Live
  <1>1. CASE h.worker[a] \/ h.queue[a] = <<>>
    <2>1. LoadForQueue(h, a) = PumpQueue(h, a)
      BY <1>1 DEF LoadForQueue
    <2>2. Fine(F, PumpQueue(h, a)) /\ Keeps(h, PumpQueue(h, a))
      BY <1>0, PumpQueueFine, PumpedKeeps
    <2> QED
      BY <2>1, <2>2, LiveKeeps
  <1>2. CASE ~h.worker[a] /\ h.queue[a] # <<>> /\ ~MayReload(h, a)
    <2>1. LoadForQueue(h, a) = SettleQueued(h, a, "failed")
      BY <1>2 DEF LoadForQueue
    <2>2. Unable(h, a) /\ "failed" \in Outcomes
      BY <1>2 DEF Unable, Outcomes
    <2>3. Fine(F, SettleQueued(h, a, "failed")) /\ Keeps(h, SettleQueued(h, a, "failed"))
      BY <1>0, <2>2, SettleQueuedFine, SettlesKeeps
    <2> QED
      BY <2>1, <2>3, LiveKeeps
  <1>3. CASE ~h.worker[a] /\ h.queue[a] # <<>> /\ MayReload(h, a) /\ CanReside(h)
    <2>1. LoadForQueue(h, a) = Reload(h, a, "load")
      BY <1>3 DEF LoadForQueue
    <2> QED
      BY <1>3, <2>1, ReloadLive
  <1>4. CASE ~h.worker[a] /\ h.queue[a] # <<>> /\ MayReload(h, a) /\ ~CanReside(h)
    <2>1. LoadForQueue(h, a) = h
      BY <1>4 DEF LoadForQueue
    <2> QED
      BY <2>1
  <1> QED
    BY <1>1, <1>2, <1>3, <1>4

(* Load keeps the invariant. *)
LEMMA LoadKeeps ==
  ASSUME NEW a \in Agents, SupInv, Load(a)
  PROVE  SupInv'
  <1> DEFINE m == TakeJob(sup)
  <1>1. Free /\ sup.jobs # <<>> /\ Head(sup.jobs) = <<"load", a>> /\ Step(LoadForQueue(m, a))
    BY DEF Load, NextJob
  <1>2. Live(Facts, sup) /\ Fine(Facts, sup) /\ sup.chain = Idle
    BY <1>1, FreeLive
  <1>3. Fine(Facts, m) /\ Only(sup, m, {"jobs", "after"})
    BY <1>1, <1>2, TakeJobFine
  <1> HIDE DEF m
  <1>4. Keeps(sup, m)
    BY <1>3, OnlyKeeps
  <1>5. ~sup.parked[a]
    <2>1. JobsOK(sup)
      BY <1>2 DEF Fine
    <2>2. sup.jobs \in Seq({"start", "load", "retire"} \X Agents)
      BY <2>1 DEF JobsOK
    <2>3. <<"load", a>> \in Range(sup.jobs)
      <3>1. Head(sup.jobs) = sup.jobs[1] /\ 1 \in DOMAIN sup.jobs
        BY <1>1, <2>2
      <3> QED
        BY <1>1, <3>1 DEF Range
    <2> QED
      BY <2>1, <2>3 DEF JobsOK
  <1>6. ~m.parked[a] /\ m.chain = Idle
    BY <1>2, <1>3, <1>5 DEF Only, Fields
  <1>7. Live(Facts, LoadForQueue(m, a))
    BY <1>2, <1>3, <1>4, <1>6, LiveKeeps, LoadForQueueLive
  <1> QED
    BY <1>1, <1>7, StepKeeps

(* SendTask keeps the invariant. *)
LEMMA SendTaskKeeps ==
  ASSUME NEW a \in Agents, SupInv, SendTask(a)
  PROVE  SupInv'
  <1> DEFINE m == Take(sup, a)
  <1>1. /\ Free /\ sup.life[a] = "open" /\ sup.made[a] + 1 \in Runs
        /\ Step(m) \/ (~sup.parked[a] /\ Step(LoadForQueue(m, a)))
    BY DEF SendTask, Take
  <1>2. Live(Facts, sup) /\ Fine(Facts, sup) /\ sup.chain = Idle
    BY <1>1, FreeLive
  <1>3. Fine(Facts, m) /\ Only(sup, m, {"made", "queue", "held", "log"})
    BY <1>1, <1>2, TakeFine
  <1> HIDE DEF m
  <1>4. Keeps(sup, m)
    BY <1>3, OnlyKeeps
  <1>5. Live(Facts, m) /\ m.parked = sup.parked /\ m.chain = Idle
    <2>1. Live(Facts, m)
      BY <1>2, <1>3, <1>4, LiveKeeps
    <2>2. m.parked = sup.parked /\ m.chain = sup.chain
      BY <1>3 DEF Only, Fields
    <2> QED
      BY <1>2, <2>1, <2>2
  <1>6. ~sup.parked[a] => Live(Facts, LoadForQueue(m, a))
    BY <1>5, LoadForQueueLive
  <1> QED
    BY <1>1, <1>5, <1>6, StepKeeps

(* The chosen run goes first. *)
LEMMA FirstOf ==
  ASSUME NEW q \in Seq(Runs), IsInjective(q), NEW n \in Range(q), NEW p, p = <<n>> \o Keep(q, Runs \ {n})
  PROVE  p \in Seq(Runs) /\ IsInjective(p) /\ Range(p) = Range(q)
  <1> DEFINE k == Keep(q, Runs \ {n})
  <1>1. k \in Seq(Runs) /\ Range(k) = Range(q) \cap (Runs \ {n}) /\ IsInjective(k)
    BY KeepIs
  <1>2. n \in Runs /\ Range(q) \subseteq Runs
    BY DEF Range
  <1>3. p = <<n>> \o k
    OBVIOUS
  <1> HIDE DEF k
  <1>4. /\ p \in Seq(Runs) /\ Len(p) = Len(k) + 1 /\ p[1] = n
        /\ \A i \in 1 .. Len(k) : p[i + 1] = k[i]
    <2>1. PICK s : s = <<n>>
      OBVIOUS
    <2>2. s \in Seq(Runs) /\ Len(s) = 1 /\ s[1] = n
      BY <1>2, <2>1
    <2>3. /\ s \o k \in Seq(Runs) /\ Len(s \o k) = Len(s) + Len(k)
          /\ \A i \in 1 .. Len(s) + Len(k) : (s \o k)[i] = IF i <= Len(s) THEN s[i] ELSE k[i - Len(s)]
      <3>1. k \in Seq(Runs)
        BY <1>1
      <3> QED
        BY <2>2, <3>1, ConcatProperties, Zenon
    <2>4. p = s \o k
      BY <1>3, <2>1, Zenon
    <2>5. /\ p \in Seq(Runs) /\ Len(p) = 1 + Len(k)
          /\ \A i \in 1 .. 1 + Len(k) : p[i] = IF i <= 1 THEN s[i] ELSE k[i - 1]
      BY <2>2, <2>3, <2>4, Zenon
    <2>6. Len(k) \in Nat
      BY <1>1, LenProperties
    <2>7. 1 \in 1 .. 1 + Len(k) /\ \A i \in 1 .. Len(k) : i + 1 \in 1 .. 1 + Len(k) /\ ~(i + 1 <= 1) /\ (i + 1) - 1 = i
      BY <2>6
    <2>8. p[1] = n
      BY <2>2, <2>5, <2>7
    <2>9. \A i \in 1 .. Len(k) : p[i + 1] = k[i]
      <3> TAKE i \in 1 .. Len(k)
      <3>1. p[i + 1] = k[(i + 1) - 1]
        BY <2>5, <2>7, Zenon
      <3> QED
        BY <2>7, <3>1, Zenon
    <2>10. Len(p) = Len(k) + 1
      <3>1. \A x \in Nat : 1 + x = x + 1
        OBVIOUS
      <3>2. Len(p) = 1 + Len(k)
        BY <2>5, Zenon
      <3> QED
        BY <2>6, <3>1, <3>2, Zenon
    <2> QED
      BY <2>5, <2>8, <2>9, <2>10, Zenon
  <1>5. DOMAIN p = 1 .. Len(k) + 1 /\ DOMAIN k = 1 .. Len(k) /\ Len(k) \in Nat
    BY <1>1, <1>4, LenProperties, Zenon
  <1>6. \A i \in DOMAIN p : i # 1 => i - 1 \in DOMAIN k /\ p[i] = k[i - 1] /\ k[i - 1] \in Range(k)
    <2> SUFFICES ASSUME NEW i \in DOMAIN p, i # 1
                 PROVE  i - 1 \in DOMAIN k /\ p[i] = k[i - 1] /\ k[i - 1] \in Range(k)
      BY Zenon
    <2>1. i - 1 \in 1 .. Len(k) /\ (i - 1) + 1 = i
      BY <1>5
    <2>2. p[(i - 1) + 1] = k[i - 1]
      BY <1>4, <2>1, Zenon
    <2>3. k[i - 1] \in Range(k)
      BY <1>5, <2>1 DEF Range
    <2> QED
      BY <1>5, <2>1, <2>2, <2>3, Zenon
  <1>7. n \notin Range(k)
    BY <1>1
  <1>8. IsInjective(p)
    <2> SUFFICES ASSUME NEW i \in DOMAIN p, NEW j \in DOMAIN p, p[i] = p[j] PROVE i = j
      BY Zenon DEF IsInjective
    <2>1. CASE i = 1 \/ j = 1
      <3>1. \A x \in DOMAIN p : x # 1 => p[x] # n
        BY <1>6, <1>7, Zenon
      <3>2. p[1] = n
        BY <1>4, Zenon
      <3> QED
        BY <2>1, <3>1, <3>2
    <2>2. CASE i # 1 /\ j # 1
      <3>1. k[i - 1] = k[j - 1] /\ i - 1 \in DOMAIN k /\ j - 1 \in DOMAIN k
        BY <1>6, <2>2, Zenon
      <3>2. i - 1 = j - 1
        BY <1>1, <3>1 DEF IsInjective
      <3> QED
        BY <1>5, <3>2
    <2> QED
      BY <2>1, <2>2
  <1>9. Range(p) = Range(q)
    <2>1. \A x \in Range(p) : x \in Range(q)
      <3> SUFFICES ASSUME NEW i \in DOMAIN p PROVE p[i] \in Range(q)
        BY Zenon DEF Range
      <3>1. CASE i = 1
        BY <1>4, <3>1
      <3>2. CASE i # 1
        BY <1>1, <1>6, <3>2, Zenon
      <3> QED
        BY <3>1, <3>2, Zenon
    <2>2. \A x \in Range(q) : x \in Range(p)
      <3> SUFFICES ASSUME NEW x \in Range(q) PROVE x \in Range(p)
        BY Zenon
      <3>1. CASE x = n
        <4>1. 1 \in DOMAIN p
          BY <1>5
        <4> QED
          BY <1>4, <3>1, <4>1, Zenon DEF Range
      <3>2. CASE x # n
        <4>1. x \in Range(k)
          BY <1>1, <1>2, <3>2
        <4>2. PICK i \in DOMAIN k : k[i] = x
          BY <4>1 DEF Range
        <4>3. i + 1 \in DOMAIN p /\ p[i + 1] = x
          <5>1. i \in 1 .. Len(k) /\ i + 1 \in 1 .. Len(k) + 1
            BY <1>5, <4>2
          <5> QED
            BY <1>4, <1>5, <4>2, <5>1, Zenon
        <4> QED
          BY <4>3, Zenon DEF Range
      <3> QED
        BY <3>1, <3>2
    <2> QED
      BY <2>1, <2>2, Zenon
  <1> QED
    BY <1>4, <1>8, <1>9, Zenon

(* DispatchPending keeps the invariant. *)
LEMMA DispatchPendingKeeps ==
  ASSUME NEW a \in Agents, NEW n \in Runs, SupInv, DispatchPending(a, n)
  PROVE  SupInv'
  <1> DEFINE q == <<n>> \o Keep(sup.queue[a], Runs \ {n})
             m == Reorder(sup, a, q)
  <1>1. /\ Free /\ ~sup.parked[a] /\ n \in Range(sup.queue[a])
        /\ \/ Step(PumpQueue(m, a)) \/ Step(m)
           \/ MayReload(m, a) /\ CanReside(m) /\ Step(Reload(m, a, "resume"))
    BY DEF DispatchPending, Reorder
  <1>2. Live(Facts, sup) /\ Fine(Facts, sup) /\ sup.chain = Idle
    BY <1>1, FreeLive
  <1>3. sup.queue[a] \in Seq(Runs) /\ IsInjective(sup.queue[a]) /\ (sup.queue[a] # <<>> => sup.life[a] # "absent")
    <2>1. Sound(sup, a)
      BY <1>2, AgentIs
    <2> QED
      BY <2>1, Zenon DEF Sound
  <1>4. sup.queue[a] # <<>>
    BY <1>1, EmptyRange
  <1>5. q \in Seq(Runs) /\ IsInjective(q) /\ Range(q) = Range(sup.queue[a])
    BY <1>1, <1>3, FirstOf, Zenon
  <1> HIDE DEF q
  <1>6. Fine(Facts, m) /\ Only(sup, m, {"held", "queue"})
    BY <1>2, <1>3, <1>4, <1>5, ReorderFine
  <1> HIDE DEF m
  <1>7. Live(Facts, m) /\ ~m.parked[a] /\ m.chain = Idle
    <2>1. Keeps(sup, m)
      BY <1>6, OnlyKeeps
    <2>2. Live(Facts, m)
      BY <1>2, <1>6, <2>1, LiveKeeps
    <2>3. m.parked = sup.parked /\ m.chain = sup.chain
      BY <1>6 DEF Only, Fields
    <2> QED
      BY <1>1, <1>2, <2>2, <2>3
  <1>8. Live(Facts, PumpQueue(m, a))
    BY <1>6, <1>7, PumpQueueFine, PumpedKeeps, LiveKeeps
  <1>9. MayReload(m, a) /\ CanReside(m) => Live(Facts, Reload(m, a, "resume"))
    BY <1>7, ReloadLive
  <1> QED
    BY <1>1, <1>7, <1>8, <1>9, StepKeeps

(* Agents are created in order. *)
LEMMA NextAgentIs ==
  ASSUME \E x \in Agents : sup.life[x] = "absent"
  PROVE  /\ NextAgent \in Agents /\ sup.life[NextAgent] = "absent"
         /\ \A b \in Agents : b < NextAgent => sup.life[b] # "absent"
  <1> DEFINE T == {x \in Agents : sup.life[x] = "absent"}
  <1>1. T \in SUBSET Nat /\ T # {}
    BY DEF Agents
  <1>2. PICK n \in T : \A k \in T : n <= k
    BY <1>1, LeastOf, Zenon
  <1>3. n \in Agents /\ sup.life[n] = "absent" /\ \A b \in 1 .. n - 1 : sup.life[b] # "absent"
    <2>1. n \in Agents /\ sup.life[n] = "absent"
      BY <1>2
    <2>2. ASSUME NEW b \in 1 .. n - 1 PROVE sup.life[b] # "absent"
      <3>1. b \in Agents /\ ~(n <= b)
        BY <2>1, SubagentsAssumption DEF Agents
      <3> QED
        BY <1>2, <3>1
    <2> QED
      BY <2>1, <2>2
  <1>4. /\ NextAgent \in Agents /\ sup.life[NextAgent] = "absent"
        /\ \A b \in 1 .. NextAgent - 1 : sup.life[b] # "absent"
    BY <1>3, Zenon DEF NextAgent
  <1>5. \A c \in Agents : \A b \in Agents : b < c => b \in 1 .. c - 1
    BY DEF Agents
  <1> QED
    BY <1>4, <1>5

(* Spawn keeps the invariant. *)
LEMMA SpawnKeeps ==
  ASSUME NEW p \in 0 .. MaxAgents, SupInv, Spawn(p)
  PROVE  SupInv'
  <1> DEFINE a == NextAgent
             m == AcquireResident(sup, a)
             born == Born(m, a, p)
             held == Acquire(born, a)
             g == StartNewRun(held, a)
             k == ParkNew(born, a)
  <1>1. /\ Free /\ \E x \in Agents : sup.life[x] = "absent"
        /\ p = 0 \/ (p \in Agents /\ sup.life[p] = "open")
        /\ CanReside(sup)
        /\ (HasRunnableCapacity(born) /\ Step(g)) \/ Step(k)
    BY DEF Spawn, Born, StartNewRun, ParkNew
  <1>2. Live(Facts, sup) /\ Fine(Facts, sup) /\ sup.chain = Idle
    BY <1>1, FreeLive
  <1>3. a \in Agents /\ sup.life[a] = "absent" /\ \A b \in Agents : b < a => sup.life[b] # "absent"
    BY <1>1, NextAgentIs
  <1> HIDE DEF a
  <1>4. p < a
    <2>1. \A b, c \in Agents : c < b /\ sup.life[b] # "absent" => sup.life[c] # "absent"
      BY <1>2 DEF Fine, RunInv
    <2>2. a \in Nat /\ a > 0 /\ p \in Nat
      BY <1>3 DEF Agents
    <2>3. CASE p = 0
      BY <2>2, <2>3
    <2>4. CASE p \in Agents /\ sup.life[p] = "open"
      <3>1. p # a /\ ~(a < p)
        BY <1>3, <2>1, <2>4
      <3> QED
        BY <2>2, <3>1
    <2> QED
      BY <1>1, <2>3, <2>4
  <1>5. Fine(Facts, m) /\ Same(sup, m, StillFields \ {"worker"})
    BY <1>1, <1>2, <1>3, AcquireResidentFine
  <1> HIDE DEF m
  <1>6. /\ m.chain = Idle /\ m.life = sup.life /\ m.lost = sup.lost /\ m.pendingSettle = sup.pendingSettle
        /\ m.suspended = sup.suspended
    BY <1>2, <1>5 DEF Same, StillFields
  <1>7. m.life[a] = "absent" /\ \A b \in Agents : b < a => m.life[b] # "absent"
    BY <1>3, <1>6
  <1>8. /\ Fine(Facts, born) /\ Only(m, born, {"parent", "life", "made", "cur", "gen", "log"})
        /\ Fresh(Of(Facts \cup Range(born.log), a), a, View(born, a)) /\ <<"load", a>> \notin Range(born.jobs)
    BY <1>3, <1>4, <1>5, <1>7, BornFine
  <1> HIDE DEF born
  <1>9. born.chain = Idle /\ born.lost = sup.lost /\ born.pendingSettle = sup.pendingSettle /\ born.suspended = sup.suspended
    BY <1>6, <1>8 DEF Only, Fields
  <1>10. CASE HasRunnableCapacity(born) /\ Step(g)
    <2>1. Fine(Facts, held) /\ Only(born, held, {"lease", "leases"})
      BY <1>3, <1>8, <1>10, AcquireFine
    <2> HIDE DEF held
    <2>2. View(held, a) = View(born, a) /\ held.log = born.log /\ held.chain = Idle
      BY <1>9, <2>1, Zenon DEF Only, Fields, View
    <2>3. Fresh(Of(Facts \cup Range(held.log), a), a, View(held, a))
      BY <1>8, <2>2
    <2>4. Fine(Facts, g) /\ Only(held, g, {"worker", "chain"})
      BY <1>3, <2>1, <2>2, <2>3, StartNewRunFine
    <2>5. g.chain = <<"startup", a>>
      BY <2>1 DEF Fine, Whole, Fields, StartNewRun
    <2> HIDE DEF g
    <2>6. g.lost = sup.lost /\ g.pendingSettle = sup.pendingSettle /\ g.suspended = sup.suspended
      BY <1>9, <2>1, <2>4 DEF Only, Fields
    <2>7. Live(Facts, g)
      BY <1>2, <2>4, <2>5, <2>6 DEF Live, Recovered
    <2> QED
      BY <1>10, <2>7, StepKeeps
  <1>11. CASE Step(k)
    <2>1. Fine(Facts, k) /\ Only(born, k, {"parked", "log"})
      BY <1>3, <1>8, ParkNewFine
    <2> HIDE DEF k
    <2>2. k.chain = Idle /\ k.lost = sup.lost /\ k.pendingSettle = sup.pendingSettle /\ k.suspended = sup.suspended
      BY <1>9, <2>1 DEF Only, Fields
    <2>3. Live(Facts, k)
      BY <1>2, <2>1, <2>2 DEF Live, Recovered, Idle
    <2> QED
      BY <1>11, <2>3, StepKeeps
  <1> QED
    BY <1>1, <1>10, <1>11

-----------------------------------------------------------------------------
(* What a restart makes of the journal *)

(* A bounded set of naturals has a greatest element. *)
LEMMA Greatest ==
  ASSUME NEW N \in Nat, NEW T \in SUBSET (0 .. N), T # {}
  PROVE  \E n \in T : \A k \in T : k <= n
  <1> DEFINE U == {N - x : x \in T}
  <1>1. U \in SUBSET Nat /\ U # {}
    <2>1. \A x \in T : x \in 0 .. N /\ N - x \in Nat
      OBVIOUS
    <2>2. \A u \in U : u \in Nat
      BY <2>1
    <2>3. PICK x \in T : TRUE
      BY Zenon
    <2>4. N - x \in U
      BY <2>3
    <2> QED
      BY <2>2, <2>4
  <1>2. PICK u \in U : \A v \in U : u <= v
    BY <1>1, LeastOf, Zenon
  <1>3. PICK n \in T : u = N - n
    BY <1>2
  <1>4. ASSUME NEW k \in T PROVE k <= n
    <2>1. N - k \in U
      BY <1>4
    <2>2. N - n <= N - k
      BY <1>2, <1>3, <2>1
    <2>3. n \in 0 .. N /\ k \in 0 .. N
      BY <1>3, <1>4
    <2> QED
      BY <2>2, <2>3
  <1> QED
    BY <1>4

(* The parts of a fact. *)
LEMMA FactIs ==
  ASSUME NEW F, F \subseteq FactType, NEW f \in F
  PROVE  /\ f[1] = "started" => f[3] \in Runs /\ f[4] \in Generations
         /\ f[1] \in {"settled", "terminal"} => f[3] \in Runs /\ f[4] \in Outcomes
         /\ f[1] = "spawned" => f[3] \in 0 .. MaxAgents
  <1>1. f \in FactType
    OBVIOUS
  <1>2. CASE f \in {"spawned"} \X Agents \X (0 .. MaxAgents)
    BY <1>2
  <1>3. CASE f \in {"accepted"} \X Agents \X Runs
    BY <1>3
  <1>4. CASE f \in {"started"} \X Agents \X Runs \X Generations
    BY <1>4
  <1>5. CASE f \in {"settled", "terminal"} \X Agents \X Runs \X Outcomes
    BY <1>5
  <1>6. CASE f \in {"closed", "quarantined"} \X Agents
    BY <1>6
  <1> QED
    BY <1>1, <1>2, <1>3, <1>4, <1>5, <1>6, Zenon DEF FactType

(* The outcome that is found is one that was written. *)
LEMMA OutcomeIs ==
  ASSUME NEW F, F \subseteq FactType, NEW kind \in {"settled", "terminal"}, NEW a, NEW n, Has(F, kind, a, n)
  PROVE  /\ Outcome(F, kind, a, n) \in Outcomes /\ Val(F, kind, a, n, Outcome(F, kind, a, n))
         /\ n \in Runs
  <1> DEFINE f == CHOOSE f \in F : f[1] = kind /\ f[2] = a /\ f[3] = n
  <1>1. f \in F /\ f[1] = kind /\ f[2] = a /\ f[3] = n
    BY Zenon DEF Has
  <1>2. Outcome(F, kind, a, n) = f[4]
    BY DEF Outcome
  <1> HIDE DEF f
  <1>3. f[4] \in Outcomes /\ f[3] \in Runs
    BY <1>1, FactIs
  <1> QED
    BY <1>1, <1>2, <1>3 DEF Val

(* Of starts of an agent there is a latest. *)
LEMMA LatestIs ==
  ASSUME NEW F, F \subseteq FactType, NEW a, NEW S, S \subseteq Starts(F, a), S # {}
  PROVE  LatestOf(S) \in S /\ \A g \in S : g[4] <= LatestOf(S)[4]
  <1> DEFINE T == {e[4] : e \in S}
  <1>1. \A e \in S : e[4] \in Generations
    BY FactIs DEF Starts
  <1>2. MaxRuns + 1 \in Nat /\ T \in SUBSET (0 .. MaxRuns + 1) /\ T # {}
    BY <1>1, SubagentsAssumption DEF Generations
  <1>3. PICK x \in T : \A k \in T : k <= x
    BY <1>2, Greatest, Zenon
  <1>4. \E e \in S : \A g \in S : g[4] <= e[4]
    BY <1>3
  <1> QED
    BY <1>4, Zenon DEF LatestOf

(* The last generation that was started, or the first of an agent that was only spawned. *)
LEMMA LastStartIs ==
  ASSUME NEW F, F \subseteq FactType, NEW a, NEW f, f = LastStart(F, a)
  PROVE  \/ /\ f[3] \in Runs /\ f[4] \in Generations /\ Has(F, "started", a, f[3])
            /\ Val(F, "started", a, f[3], f[4])
            /\ \A n, g : Val(F, "started", a, n, g) => g <= f[4]
         \/ /\ \A n : ~Has(F, "started", a, n)
            /\ IF Is(F, "spawned", a) THEN f[3] = 1 /\ f[4] = 1 ELSE f[3] = 0 /\ f[4] = 0
  <1> DEFINE S == Starts(F, a)
  <1>1. CASE S # {}
    <2>1. \A e \in S : e \in F /\ e[1] = "started" /\ e[2] = a /\ e[3] \in Runs /\ e[4] \in Generations
      BY FactIs DEF Starts
    <2>5. f = LatestOf(S)
      BY <1>1 DEF LastStart
    <2>6. f \in S /\ \A g \in S : g[4] <= f[4]
      BY <1>1, <2>5, LatestIs
    <2> HIDE DEF S
    <2>7. \A n, g : Val(F, "started", a, n, g) => \E e \in S : e[4] = g
      BY DEF Val, S, Starts
    <2>8. \A n, g : Val(F, "started", a, n, g) => g <= f[4]
      BY <2>6, <2>7
    <2>9. f \in F /\ f[1] = "started" /\ f[2] = a /\ f[3] \in Runs /\ f[4] \in Generations
      BY <2>1, <2>6
    <2>10. Has(F, "started", a, f[3]) /\ Val(F, "started", a, f[3], f[4])
      BY <2>9 DEF Has, Val
    <2> QED
      BY <2>8, <2>9, <2>10
  <1>2. CASE S = {}
    <2>1. \A n : ~Has(F, "started", a, n)
      BY <1>2 DEF Has, Starts
    <2>2. f = IF Is(F, "spawned", a) THEN <<"started", a, 1, 1>> ELSE <<"started", a, 0, 0>>
      BY <1>2 DEF LastStart
    <2> QED
      BY <2>1, <2>2
  <1> QED
    BY <1>1, <1>2

(* Accepted runs are numbered in order, so their count is the last one. *)
LEMMA CountIs ==
  ASSUME NEW F, NEW a, NEW k \in 0 .. MaxRuns, \A n \in Runs : Accepted(F, a, n) <=> n <= k
  PROVE  Cardinality({n \in Runs : Accepted(F, a, n)}) = k
  <1>1. {n \in Runs : Accepted(F, a, n)} = 1 .. k
    BY SubagentsAssumption DEF Runs
  <1>2. k \in Nat
    BY SubagentsAssumption
  <1>3. Cardinality(1 .. k) = k
    BY <1>2, FS_Interval
  <1> QED
    BY <1>1, <1>3, Zenon

(* The queue of a restart holds the runs of S, each once. *)
LEMMA AllRunsIs ==
  ASSUME NEW S \in SUBSET Runs, NEW q, q = Keep([n \in Runs |-> n], S)
  PROVE  q \in Seq(Runs) /\ IsInjective(q) /\ Range(q) = S
  <1> DEFINE s == [n \in Runs |-> n]
  <1>1. s \in Seq(Runs) /\ IsInjective(s) /\ Range(s) = Runs
    <2>1. s \in [1 .. MaxRuns -> Runs] /\ MaxRuns \in Nat
      BY SubagentsAssumption DEF Runs
    <2>2. s \in Seq(Runs)
      BY <2>1
    <2>3. IsInjective(s)
      BY DEF IsInjective
    <2>4. Range(s) = Runs
      BY DEF Range
    <2> QED
      BY <2>2, <2>3, <2>4
  <1> HIDE DEF s
  <1>2. Keep(s, S) \in Seq(Runs) /\ Range(Keep(s, S)) = Range(s) \cap S /\ IsInjective(Keep(s, S))
    BY <1>1, KeepIs
  <1> QED
    BY <1>1, <1>2, Zenon DEF s

(* What replayJournal makes of agent a. *)
Replays(F, a, v) ==
  /\ v.life = IF ~Is(F, "spawned", a) THEN "absent" ELSE IF Is(F, "closed", a) THEN "closed" ELSE "open"
  /\ v.made = Cardinality({n \in Runs : Accepted(F, a, n)})
  /\ v.cur = LastStart(F, a)[3] /\ v.gen = LastStart(F, a)[4]
  /\ v.queue = Keep([n \in Runs |-> n],
        {n \in Runs : Has(F, "accepted", a, n) /\ ~Has(F, "started", a, n) /\ ~Has(F, "terminal", a, n)})
  /\ v.done = [n \in Runs |-> IF Has(F, "terminal", a, n) THEN Outcome(F, "terminal", a, n) ELSE "none"]
  /\ v.quarantined = Is(F, "quarantined", a)
  /\ v.lost = (IF LostRuns(F, a) = {} THEN 0 ELSE LatestOf({g \in Starts(F, a) : g[3] \in LostRuns(F, a)})[3])
  /\ v.pending = Unfinished(F, a)
  /\ v.active = 0 /\ v.parked = FALSE /\ v.join = NoJoin /\ v.worker = FALSE /\ v.starting = FALSE
  /\ v.init = FALSE

(* The fields of a replayed heap. *)
LEMMA ReplayFields ==
  ASSUME NEW F, NEW h, h = Replay(F) \/ h = [Replay(F) EXCEPT !.chain = <<"recover", 0>>]
  PROVE  /\ DOMAIN h = Fields /\ \A x \in Fields \ {"chain"} : h[x] = Replay(F)[x]
         /\ h.log = <<>> /\ h.suspended = FALSE /\ h.chain \in {Idle, <<"recover", 0>>}
  <1>1. /\ DOMAIN Replay(F) = Fields /\ Replay(F).chain = Idle
        /\ Replay(F).log = <<>> /\ Replay(F).suspended = FALSE
    BY Zenon DEF Replay, NewHeap, Fields
  <1>2. DOMAIN h = Fields /\ (\A x \in Fields \ {"chain"} : h[x] = Replay(F)[x]) /\ h.chain \in {Idle, <<"recover", 0>>}
    BY <1>1 DEF Fields
  <1> QED
    BY <1>1, <1>2 DEF Fields

(* replayJournal, agent by agent. *)
LEMMA ReplayViews ==
  ASSUME NEW F, NEW a \in Agents, NEW h, h = Replay(F) \/ h = [Replay(F) EXCEPT !.chain = <<"recover", 0>>]
  PROVE  Replays(F, a, View(h, a))
  <1> DEFINE R == Replay(F)
             v == View(h, a)
  <1>1. /\ h.life = R.life /\ h.made = R.made /\ h.cur = R.cur /\ h.gen = R.gen /\ h.active = R.active
        /\ h.queue = R.queue /\ h.parked = R.parked /\ h.join = R.join /\ h.done = R.done /\ h.worker = R.worker
        /\ h.quarantined = R.quarantined /\ h.lost = R.lost /\ h.pendingSettle = R.pendingSettle
    BY ReplayFields, Zenon DEF Fields
  <1>2. h.chain # <<"startup", a>> /\ h.chain # <<"initialize", a>>
    <2>1. h.chain \in {Idle, <<"recover", 0>>}
      BY ReplayFields, Zenon
    <2>2. <<"recover", 0>> # <<"startup", a>> /\ <<"recover", 0>> # <<"initialize", a>>
      OBVIOUS
    <2> QED
      BY <2>1, <2>2, NotStarting
  <1>3. R.life[a] = IF ~Is(F, "spawned", a) THEN "absent" ELSE IF Is(F, "closed", a) THEN "closed" ELSE "open"
    BY DEF Replay, NewHeap
  <1>4. R.made[a] = Cardinality({n \in Runs : Accepted(F, a, n)})
    BY DEF Replay, NewHeap
  <1>5. R.cur[a] = LastStart(F, a)[3] /\ R.gen[a] = LastStart(F, a)[4]
    BY DEF Replay, NewHeap
  <1>6. R.queue[a] = Keep([n \in Runs |-> n],
          {n \in Runs : Has(F, "accepted", a, n) /\ ~Has(F, "started", a, n) /\ ~Has(F, "terminal", a, n)})
    BY DEF Replay, NewHeap
  <1>7. R.done[a] = [n \in Runs |-> IF Has(F, "terminal", a, n) THEN Outcome(F, "terminal", a, n) ELSE "none"]
    BY DEF Replay, NewHeap
  <1>8. R.quarantined[a] = Is(F, "quarantined", a)
    BY DEF Replay, NewHeap
  <1>9. R.lost[a] = (IF LostRuns(F, a) = {} THEN 0 ELSE LatestOf({g \in Starts(F, a) : g[3] \in LostRuns(F, a)})[3])
    BY DEF Replay, NewHeap
  <1>10. R.pendingSettle[a] = Unfinished(F, a)
    BY DEF Replay, NewHeap
  <1>11. R.active[a] = 0 /\ R.parked[a] = FALSE /\ R.join[a] = NoJoin /\ R.worker[a] = FALSE
    BY DEF Replay, NewHeap, Each
  <1> HIDE DEF R
  <1>12. /\ v.life = R.life[a] /\ v.made = R.made[a] /\ v.cur = R.cur[a] /\ v.gen = R.gen[a] /\ v.active = R.active[a]
         /\ v.queue = R.queue[a] /\ v.parked = R.parked[a] /\ v.join = R.join[a] /\ v.done = R.done[a]
         /\ v.worker = R.worker[a] /\ v.quarantined = R.quarantined[a] /\ v.lost = R.lost[a]
         /\ v.pending = R.pendingSettle[a] /\ v.starting = FALSE /\ v.init = FALSE
    BY <1>1, <1>2, Zenon DEF View
  <1> HIDE DEF v
  <1>13. Replays(F, a, v)
    BY <1>3, <1>4, <1>5, <1>6, <1>7, <1>8, <1>9, <1>10, <1>11, <1>12, Zenon DEF Replays
  <1> QED
    BY <1>13 DEF v

(* The runs that are lost, and the outcome that is pending. *)
LEMMA LostIs ==
  ASSUME NEW F, F \subseteq FactType, NEW a, NEW l,
         l = (IF LostRuns(F, a) = {} THEN 0 ELSE LatestOf({g \in Starts(F, a) : g[3] \in LostRuns(F, a)})[3])
  PROVE  l # 0 => l \in LostRuns(F, a)
  <1> SUFFICES ASSUME l # 0
               PROVE  l \in LostRuns(F, a)
    OBVIOUS
  <1> DEFINE S == {g \in Starts(F, a) : g[3] \in LostRuns(F, a)}
  <1>1. l = LatestOf(S)[3] /\ LostRuns(F, a) # {}
    OBVIOUS
  <1>2. S # {}
    <2>1. PICK n \in LostRuns(F, a) : TRUE
      BY <1>1
    <2>2. Has(F, "started", a, n)
      BY <2>1 DEF LostRuns
    <2> QED
      BY <2>1, <2>2 DEF Has, Starts
  <1>3. LatestOf(S) \in S
    BY <1>2, LatestIs
  <1> QED
    BY <1>1, <1>3

(* An unfinished settlement is that of the last start. *)
LEMMA UnfinishedIs ==
  ASSUME NEW F, F \subseteq FactType, NEW a, NEW u, u = Unfinished(F, a)
  PROVE  /\ u \in {NoJoin} \cup (Runs \X Outcomes)
         /\ u # NoJoin => /\ u[1] = LastStart(F, a)[3] /\ ~Is(F, "closed", a) /\ Has(F, "settled", a, u[1])
                          /\ ~Has(F, "terminal", a, u[1]) /\ Val(F, "settled", a, u[1], u[2]) /\ LostRuns(F, a) = {}
  <1> DEFINE n == LastStart(F, a)[3]
             o == Outcome(F, "settled", a, n)
             none == Is(F, "closed", a) \/ LostRuns(F, a) # {} \/ n = 0 \/ Has(F, "terminal", a, n) \/ ~Has(F, "settled", a, n)
  <1>1. u = IF none THEN NoJoin ELSE <<n, o>>
    BY DEF Unfinished
  <1>2. CASE none
    BY <1>1, <1>2
  <1>3. CASE ~none
    <2>1. o \in Outcomes /\ Val(F, "settled", a, n, o) /\ n \in Runs
      BY <1>3, OutcomeIs
    <2>2. u = <<n, o>>
      BY <1>1, <1>3
    <2> QED
      BY <1>3, <2>1, <2>2
  <1> QED
    BY <1>2, <1>3

(* An agent as the journal has it agrees with the journal. *)
LEMMA ReplayOK ==
  ASSUME NEW F, JournalOK(F), NEW a \in Agents, NEW v, Replays(F, a, v)
  PROVE  RunOK(Of(F, a), a, v)
  <1> DEFINE J == Of(F, a)
             f == LastStart(F, a)
             done == [n \in Runs |-> IF Has(F, "terminal", a, n) THEN Outcome(F, "terminal", a, n) ELSE "none"]
             waits == {n \in Runs : Has(F, "accepted", a, n) /\ ~Has(F, "started", a, n) /\ ~Has(F, "terminal", a, n)}
  <1>0. /\ v.life = IF ~Is(F, "spawned", a) THEN "absent" ELSE IF Is(F, "closed", a) THEN "closed" ELSE "open"
        /\ v.made = Cardinality({n \in Runs : Accepted(F, a, n)})
        /\ v.cur = f[3] /\ v.gen = f[4] /\ v.queue = Keep([n \in Runs |-> n], waits) /\ v.done = done
        /\ v.quarantined = Is(F, "quarantined", a)
        /\ v.lost = (IF LostRuns(F, a) = {} THEN 0 ELSE LatestOf({g \in Starts(F, a) : g[3] \in LostRuns(F, a)})[3])
        /\ v.pending = Unfinished(F, a)
        /\ v.active = 0 /\ v.parked = FALSE /\ v.join = NoJoin /\ v.worker = FALSE /\ v.starting = FALSE
        /\ v.init = FALSE
    BY Zenon DEF Replays
  <1>1. F \subseteq FactType /\ AgentJournal(J, a)
    BY DEF JournalOK
  <1>2. /\ \A kind : Is(J, kind, a) <=> Is(F, kind, a)
        /\ \A kind, n : Has(J, kind, a, n) <=> Has(F, kind, a, n)
        /\ \A kind, n, x : Val(J, kind, a, n, x) <=> Val(F, kind, a, n, x)
    BY FactsOf
  <1>3. \A n : Accepted(J, a, n) <=> Accepted(F, a, n)
    BY <1>2 DEF Accepted
  <1>b. v.quarantined \in BOOLEAN
    BY <1>0 DEF Is
  <1> HIDE DEF J
  <1>4. PICK k \in 0 .. MaxRuns : \A n \in Runs : Accepted(F, a, n) <=> n <= k
    BY <1>1, <1>3 DEF AgentJournal
  <1>5. v.made = k
    BY <1>0, <1>4, CountIs
  <1>6. \/ /\ v.cur \in Runs /\ v.gen \in Generations /\ Has(F, "started", a, v.cur) /\ Val(F, "started", a, v.cur, v.gen)
           /\ \A n, g : Val(F, "started", a, n, g) => g <= v.gen
        \/ /\ \A n : ~Has(F, "started", a, n)
           /\ IF Is(F, "spawned", a) THEN v.cur = 1 /\ v.gen = 1 ELSE v.cur = 0 /\ v.gen = 0
    <2>1. \/ /\ f[3] \in Runs /\ f[4] \in Generations /\ Has(F, "started", a, f[3]) /\ Val(F, "started", a, f[3], f[4])
             /\ \A n, g : Val(F, "started", a, n, g) => g <= f[4]
          \/ /\ \A n : ~Has(F, "started", a, n)
             /\ IF Is(F, "spawned", a) THEN f[3] = 1 /\ f[4] = 1 ELSE f[3] = 0 /\ f[4] = 0
      BY <1>1, LastStartIs
    <2> HIDE DEF f
    <2> QED
      BY <1>0, <2>1
  <1>7. v.queue \in Seq(Runs) /\ IsInjective(v.queue) /\ Range(v.queue) = waits
    <2>1. waits \in SUBSET Runs
      OBVIOUS
    <2> HIDE DEF waits
    <2> QED
      BY <1>0, <2>1, AllRunsIs
  <1>8. \A n \in Runs : /\ v.done[n] \in Outcomes \cup {"none"} /\ (v.done[n] = "none" <=> ~Has(F, "terminal", a, n))
                        /\ Has(F, "terminal", a, n) => Val(F, "terminal", a, n, v.done[n])
    <2> TAKE n \in Runs
    <2>1. v.done[n] = IF Has(F, "terminal", a, n) THEN Outcome(F, "terminal", a, n) ELSE "none"
      BY <1>0
    <2>2. CASE Has(F, "terminal", a, n)
      <3>1. Outcome(F, "terminal", a, n) \in Outcomes /\ Val(F, "terminal", a, n, Outcome(F, "terminal", a, n))
        BY <1>1, <2>2, OutcomeIs
      <3>2. "none" \notin Outcomes
        BY DEF Outcomes
      <3> QED
        BY <2>1, <2>2, <3>1, <3>2
    <2>3. CASE ~Has(F, "terminal", a, n)
      BY <2>1, <2>3
    <2> QED
      BY <2>2, <2>3
  <1>9. v.done \in [Runs -> Outcomes \cup {"none"}]
    <2>1. v.done = [n \in Runs |-> v.done[n]]
      BY <1>0
    <2> QED
      BY <1>8, <2>1
  <1>10. v.lost # 0 => v.lost \in Runs /\ Has(F, "started", a, v.lost) /\ ~Is(F, "closed", a)
    BY <1>0, <1>1, LostIs DEF LostRuns
  <1>11. /\ v.pending \in {NoJoin} \cup (Runs \X Outcomes)
         /\ v.pending # NoJoin => v.pending[1] \in Runs /\ Has(F, "settled", a, v.pending[1])
    BY <1>0, <1>1, UnfinishedIs
  <1>12. \A n \in Runs : \A kind \in Kinds : Has(F, kind, a, n) => n <= v.made
    BY <1>1, <1>2, <1>3, <1>4, <1>5 DEF AgentJournal
  <1>13. \A n \in Runs : Has(F, "settled", a, n) => Has(F, "started", a, n)
    BY <1>1, <1>2 DEF AgentJournal
  <1>14. v.made \in 0 .. MaxRuns /\ v.cur \in 0 .. MaxRuns /\ v.gen \in Nat /\ v.lost \in 0 .. MaxRuns
    BY <1>4, <1>5, <1>6, <1>10, SubagentsAssumption DEF Runs, Generations
  <1>15. Is(F, "spawned", a) => v.cur \in 1 .. v.made /\ v.gen >= 1
    <2> SUFFICES ASSUME Is(F, "spawned", a) PROVE v.cur \in 1 .. v.made /\ v.gen >= 1
      OBVIOUS
    <2>1. 1 \in Runs /\ Accepted(F, a, 1)
      BY SubagentsAssumption DEF Runs, Accepted
    <2>2. 1 <= v.made
      BY <1>4, <1>5, <2>1
    <2>3. CASE v.cur \in Runs /\ v.gen \in Generations /\ Has(F, "started", a, v.cur)
      <3>1. v.cur <= v.made
        BY <1>12, <2>3 DEF Kinds
      <3> QED
        BY <1>14, <2>3, <3>1 DEF Runs, Generations
    <2>4. CASE v.cur = 1 /\ v.gen = 1
      BY <1>14, <2>2, <2>4
    <2> QED
      BY <1>6, <2>3, <2>4
  <1> HIDE DEF f, done, waits
  <1>20. ViewType(v)
    BY <1>0, <1>7, <1>9, <1>11, <1>14, <1>b, Zenon DEF ViewType
  <1>21. OnePhase(v)
    BY <1>0 DEF OnePhase
  <1>22. LifeOK(J, a, v)
    <2>1. (v.life = "absent" <=> ~Is(J, "spawned", a)) /\ (v.life = "closed" <=> Is(J, "closed", a))
      <3>1. Is(J, "closed", a) => J # {}
        BY DEF Is
      <3>2. J # {} => Is(J, "spawned", a)
        BY <1>1 DEF AgentJournal
      <3> QED
        BY <1>0, <1>2, <3>1, <3>2
    <2>2. v.quarantined <=> Is(J, "quarantined", a)
      BY <1>0, <1>2
    <2>3. ASSUME v.life = "absent"
          PROVE  /\ J = {} /\ v.made = 0 /\ v.active = 0 /\ v.queue = <<>> /\ ~v.parked /\ v.join = NoJoin
                 /\ ~v.worker /\ ~v.starting /\ v.cur = 0 /\ v.gen = 0 /\ v.lost = 0 /\ v.pending = NoJoin
      <3>1. J = {} /\ ~Is(F, "spawned", a)
        BY <1>1, <1>2, <2>1, <2>3 DEF AgentJournal
      <3>2. \A kind, n : ~Has(F, kind, a, n)
        BY <1>2, <3>1 DEF Has
      <3>3. v.made = 0
        <4>1. 1 \in Runs /\ ~Accepted(F, a, 1)
          BY <3>1, <3>2, SubagentsAssumption DEF Accepted, Runs
        <4> QED
          BY <1>4, <1>5, <4>1
      <3>4. v.queue = <<>>
        <4>1. Range(v.queue) = {}
          BY <1>7, <3>2 DEF waits
        <4>2. Len(v.queue) \in Nat /\ DOMAIN v.queue = 1 .. Len(v.queue)
          BY <1>7, LenProperties
        <4>3. Len(v.queue) = 0
          <5>1. Len(v.queue) # 0 => 1 \in DOMAIN v.queue
            BY <4>2
          <5> QED
            BY <4>1, <5>1, Zenon DEF Range
        <4> QED
          BY <1>7, <4>3, EmptySeq
      <3>5. v.cur = 0 /\ v.gen = 0 /\ v.lost = 0 /\ v.pending = NoJoin
        BY <1>6, <1>10, <1>11, <3>1, <3>2
      <3> QED
        BY <1>0, <3>1, <3>3, <3>4, <3>5
    <2>4. v.life # "absent" => v.gen >= 1 /\ v.cur \in 1 .. v.made
      BY <1>2, <1>15, <2>1
    <2>5. \A x, y \in J : x[1] = "spawned" /\ y[1] = "spawned" => x = y
      BY <1>1 DEF AgentJournal
    <2> QED
      BY <2>1, <2>2, <2>3, <2>4, <2>5 DEF LifeOK
  <1>23. RunsOK(J, a, v)
    <2>1. \A n \in Runs : Accepted(J, a, n) <=> n <= v.made
      BY <1>3, <1>4, <1>5
    <2>2. \A n \in Runs : \A kind \in Kinds : Has(J, kind, a, n) => n <= v.made
      BY <1>2, <1>12
    <2>3. \A n \in Runs : Has(J, "settled", a, n) => Has(J, "started", a, n)
      BY <1>2, <1>13
    <2>4. \A n \in Runs : v.done[n] = "none" <=> ~Has(J, "terminal", a, n)
      BY <1>2, <1>8
    <2>5. \A n \in Runs : \A o \in Outcomes : Val(J, "terminal", a, n, o) => v.done[n] = o
      <3> SUFFICES ASSUME NEW n \in Runs, NEW o \in Outcomes, Val(J, "terminal", a, n, o) PROVE v.done[n] = o
        OBVIOUS
      <3>1. Has(F, "terminal", a, n)
        BY <1>2, ValIsHas
      <3>2. Val(J, "terminal", a, n, v.done[n]) /\ v.done[n] \in Outcomes
        BY <1>2, <1>8, <3>1
      <3> QED
        BY <1>1, <3>2 DEF AgentJournal
    <2>6. v.lost # 0 => Has(J, "started", a, v.lost)
      BY <1>2, <1>10
    <2>7. v.pending # NoJoin => v.pending[1] <= v.made
      BY <1>11, <1>12 DEF Kinds
    <2> QED
      BY <2>1, <2>2, <2>3, <2>4, <2>5, <2>6, <2>7 DEF RunsOK
  <1>24. QueueOK(J, a, v)
    BY <1>2, <1>7 DEF QueueOK, waits
  <1>25. GenOK(J, a, v)
    <2>1. Cardinality(StartedRuns(J, a)) \in 0 .. MaxRuns
      BY StartedFinite
    <2>2. \A n \in Runs : \A g \in Generations : Val(J, "started", a, n, g) => g <= v.gen
      <3> SUFFICES ASSUME NEW n \in Runs, NEW g \in Generations, Val(J, "started", a, n, g) PROVE g <= v.gen
        OBVIOUS
      <3>1. Val(F, "started", a, n, g) /\ Has(F, "started", a, n)
        BY <1>2, ValIsHas
      <3> QED
        BY <1>6, <3>1
    <2>3. \A n, m \in Runs : \A g \in Generations : Val(J, "started", a, n, g) /\ Val(J, "started", a, m, g) => n = m
      BY <1>1 DEF AgentJournal
    <2>4. v.gen <= Cardinality(StartedRuns(J, a)) + 1
      <3>1. CASE v.cur \in Runs /\ v.gen \in Generations /\ Val(F, "started", a, v.cur, v.gen)
        BY <1>1, <1>2, <3>1 DEF AgentJournal
      <3>2. CASE v.gen \in {0, 1}
        BY <2>1, <3>2
      <3> QED
        BY <1>6, <3>1, <3>2
    <2> QED
      BY <2>2, <2>3, <2>4 DEF GenOK
  <1>26. HeldOK(J, a, v)
    BY <1>0 DEF HeldOK
  <1> QED
    BY <1>20, <1>21, <1>22, <1>23, <1>24, <1>25, <1>26 DEF RunOK, J

(* replayJournal makes a fine heap of any journal. *)
LEMMA ReplayFine ==
  ASSUME NEW F, JournalOK(F), NEW h, h = Replay(F) \/ h = [Replay(F) EXCEPT !.chain = <<"recover", 0>>]
  PROVE  Fine(F, h)
  <1> DEFINE R == Replay(F)
  <1>1. /\ DOMAIN h = Fields /\ (\A x \in Fields \ {"chain"} : h[x] = R[x]) /\ h.log = <<>>
    BY ReplayFields, Zenon
  <1>2. \A a \in Agents : RunOK(Of(F, a), a, View(h, a))
    BY ReplayViews, ReplayOK
  <1>3. F \subseteq FactType
    BY DEF JournalOK
  <1>4. Whole(h)
    <2>1. R.life = [a \in Agents |-> R.life[a]] /\ R.made = [a \in Agents |-> R.made[a]]
      BY DEF Replay, NewHeap
    <2>2. R.cur = [a \in Agents |-> R.cur[a]] /\ R.gen = [a \in Agents |-> R.gen[a]]
      BY DEF Replay, NewHeap
    <2>3. R.queue = [a \in Agents |-> R.queue[a]] /\ R.done = [a \in Agents |-> R.done[a]]
      BY DEF Replay, NewHeap
    <2>4. R.quarantined = [a \in Agents |-> R.quarantined[a]] /\ R.lost = [a \in Agents |-> R.lost[a]]
      BY DEF Replay, NewHeap
    <2>5. R.pendingSettle = [a \in Agents |-> R.pendingSettle[a]]
      BY DEF Replay, NewHeap
    <2>6. /\ R.active = [a \in Agents |-> R.active[a]] /\ R.parked = [a \in Agents |-> R.parked[a]]
          /\ R.join = [a \in Agents |-> R.join[a]] /\ R.worker = [a \in Agents |-> R.worker[a]]
      BY DEF Replay, NewHeap, Each
    <2> HIDE DEF R
    <2>7. /\ h.life = R.life /\ h.made = R.made /\ h.cur = R.cur /\ h.gen = R.gen /\ h.active = R.active
          /\ h.queue = R.queue /\ h.parked = R.parked /\ h.join = R.join /\ h.done = R.done /\ h.worker = R.worker
          /\ h.quarantined = R.quarantined /\ h.lost = R.lost /\ h.pendingSettle = R.pendingSettle
      BY <1>1 DEF Fields
    <2>8. \A x \in AgentFields : h[x] = [a \in Agents |-> h[x][a]]
      BY <2>1, <2>2, <2>3, <2>4, <2>5, <2>6, <2>7 DEF AgentFields
    <2> QED
      BY <1>1, <2>8 DEF Whole
  <1>5. LeaseInv(h)
    <2>1. R.lease = Each(0) /\ R.grant = Each(0) /\ R.leases = {} /\ R.waiters = <<>>
      BY DEF Replay, NewHeap
    <2> HIDE DEF R
    <2>2. h.lease = Each(0) /\ h.grant = Each(0) /\ h.leases = {} /\ h.waiters = <<>>
      BY <1>1, <2>1 DEF Fields
    <2> QED
      BY <2>2, SubagentsAssumption DEF LeaseInv, Each
  <1>6. MiscInv(h)
    <2>1. /\ R.intr = Each(FALSE) /\ R.joinInterrupted = Each(FALSE) /\ R.ckpt = Each(FALSE) /\ R.held = Each(FALSE)
          /\ R.after = Each(0) /\ R.wait = Each("none")
      BY DEF Replay, NewHeap
    <2>2. R.parent = [a \in Agents |-> IF Is(F, "spawned", a) THEN (CHOOSE f \in F : f[1] = "spawned" /\ f[2] = a)[3] ELSE 0]
      BY DEF Replay, NewHeap
    <2>3. \A a \in Agents : R.parent[a] \in 0 .. MaxAgents /\ R.parent[a] < a
      <3> TAKE a \in Agents
      <3>1. CASE Is(F, "spawned", a)
        <4> DEFINE f == CHOOSE f \in F : f[1] = "spawned" /\ f[2] = a
        <4>1. f \in F /\ f[1] = "spawned" /\ f[2] = a
          BY <3>1, Zenon DEF Is
        <4>2. R.parent[a] = f[3]
          BY <2>2, <3>1
        <4> HIDE DEF f, R
        <4>3. f[3] < f[2] /\ f[3] \in 0 .. MaxAgents
          BY <1>3, <4>1, FactIs DEF JournalOK
        <4> QED
          BY <4>1, <4>2, <4>3
      <3>2. CASE ~Is(F, "spawned", a)
        <4>1. R.parent[a] = 0
          BY <2>2, <3>2
        <4> HIDE DEF R
        <4> QED
          BY <4>1, SubagentsAssumption DEF Agents
      <3> QED
        BY <3>1, <3>2
    <2>4. R.parent = [a \in Agents |-> R.parent[a]]
      BY <2>2
    <2> HIDE DEF R
    <2>5. /\ h.intr = R.intr /\ h.joinInterrupted = R.joinInterrupted /\ h.ckpt = R.ckpt /\ h.held = R.held
          /\ h.after = R.after /\ h.wait = R.wait /\ h.parent = R.parent
      BY <1>1 DEF Fields
    <2> QED
      BY <2>1, <2>3, <2>4, <2>5 DEF MiscInv, Each
  <1>7. JobsOK(h)
    <2>1. R.jobs = <<>>
      BY DEF Replay, NewHeap
    <2> HIDE DEF R
    <2>2. h.jobs = <<>>
      BY <1>1, <2>1 DEF Fields
    <2> QED
      BY <2>2, EmptyRange DEF JobsOK
  <1>8. ResidentsOK(h)
    <2>1. R.resident = Each(FALSE)
      BY DEF Replay, NewHeap
    <2> HIDE DEF R
    <2>2. h.resident = Each(FALSE)
      BY <1>1, <2>1, Zenon DEF Fields
    <2>3. Residents(h) = {}
      BY <2>2 DEF Residents, Each
    <2>4. Cardinality(Residents(h)) = 0
      BY <2>3, FS_EmptySet
    <2> QED
      BY <2>2, <2>4, SubagentsAssumption DEF ResidentsOK, Each
  <1> HIDE DEF R
  <1>9. F \cup Range(h.log) = F
    BY <1>1, EmptyRange
  <1>10. RunInv(F, h)
    <2>1. \A a, b \in Agents : b < a /\ h.life[a] # "absent" => h.life[b] # "absent"
      <3>1. \A a \in Agents : h.life[a] = "absent" <=> ~Is(F, "spawned", a)
        <4> TAKE a \in Agents
        <4>1. Replays(F, a, View(h, a)) /\ View(h, a).life = h.life[a]
          BY ReplayViews, ViewFields
        <4> QED
          BY <4>1 DEF Replays
      <3> QED
        BY <3>1 DEF JournalOK
    <2> QED
      BY <1>2, <1>3, <2>1 DEF RunInv, JournalOK
  <1>11. Unbroken(F, h.log) /\ h.log \in Seq(FactType)
    <2>1. \A k \in 0 .. Len(h.log) : F \cup Range(SubSeq(h.log, 1, k)) = F
      <3> TAKE k \in 0 .. Len(h.log)
      <3>1. k = 0 /\ SubSeq(<<>>, 1, 0) = <<>>
        BY <1>1
      <3> QED
        BY <1>1, <3>1, EmptyRange, Zenon
    <2>2. h.log \in Seq(FactType)
      BY <1>1
    <2> QED
      BY <2>1, <2>2, Zenon DEF Unbroken
  <1> QED
    BY <1>4, <1>5, <1>6, <1>7, <1>8, <1>9, <1>10, <1>11, Zenon DEF Fine

(* A restart: the supervisor is live, or has something to recover. *)
LEMMA ReplaySup ==
  ASSUME NEW F, JournalOK(F), NEW h,
         h = IF NeedsRecovery(Replay(F)) THEN [Replay(F) EXCEPT !.chain = <<"recover", 0>>] ELSE Replay(F)
  PROVE  SupOK(h, F, <<>>)
  <1>1. Fine(F, h)
    BY ReplayFine
  <1>2. h.log = <<>> /\ ~h.suspended
    BY ReplayFields, Zenon
  <1>3. F \cup Range(<<>>) = F
    BY EmptyRange
  <1>4. Unbroken(F, <<>>) /\ <<>> \in Seq(FactType)
    BY <1>1, <1>2 DEF Fine
  <1>7. Fine(F \cup Range(<<>>), h)
    BY <1>1, <1>3, Zenon
  <1>5. CASE NeedsRecovery(Replay(F))
    <2>1. h = [Replay(F) EXCEPT !.chain = <<"recover", 0>>]
      BY <1>5
    <2>2. h.chain = <<"recover", 0>>
      BY <2>1, Zenon DEF Replay, NewHeap
    <2>3. Recovering(h, F, <<>>)
      BY <2>1 DEF Recovering
    <2> QED
      BY <1>2, <1>4, <1>7, <2>2, <2>3, Zenon DEF SupOK
  <1>6. CASE ~NeedsRecovery(Replay(F))
    <2>1. h = Replay(F)
      BY <1>6
    <2>2. Recovered(h)
      BY <1>6, <2>1 DEF NeedsRecovery, Recovered
    <2>3. h.chain # <<"recover", 0>>
      <3>1. h.chain = Idle
        BY <2>1, Zenon DEF Replay, NewHeap
      <3> QED
        BY <3>1 DEF Idle
    <2> QED
      BY <1>2, <1>4, <1>7, <2>2, <2>3, Zenon DEF SupOK
  <1> QED
    BY <1>5, <1>6

(* A crash between any two appends keeps the invariant. *)
LEMMA CrashKeeps ==
  ASSUME SupInv, Crash
  PROVE  SupInv'
  <1>1. PICK k \in 0 .. Len(tail) :
          LET J == journal \cup Range(SubSeq(tail, 1, k))
          IN  /\ journal' = J /\ tail' = <<>>
              /\ sup' = IF NeedsRecovery(Replay(J)) THEN [Replay(J) EXCEPT !.chain = <<"recover", 0>>] ELSE Replay(J)
    BY Zenon DEF Crash
  <1> DEFINE J == journal \cup Range(SubSeq(tail, 1, k))
  <1>2. JournalOK(J)
    BY DEF SupInv, SupOK, Unbroken
  <1>3. /\ journal' = J /\ tail' = <<>>
        /\ sup' = IF NeedsRecovery(Replay(J)) THEN [Replay(J) EXCEPT !.chain = <<"recover", 0>>] ELSE Replay(J)
    BY <1>1
  <1> HIDE DEF J
  <1>4. SupOK(sup', J, <<>>)
    BY <1>2, <1>3, ReplaySup
  <1>5. SupOK(sup', journal', tail')
    BY <1>3, <1>4
  <1> QED
    BY <1>5 DEF SupInv

(* recover keeps the invariant. *)
LEMMA RecoverKeeps ==
  ASSUME SupInv, Recover
  PROVE  SupInv'
  <1>1. sup.chain = <<"recover", 0>> /\ \E suspects, barred : Step(Recovery(sup, suspects, barred))
    BY DEF Recover
  <1>2. PICK suspects, barred : Step(Recovery(sup, suspects, barred))
    BY <1>1
  <1>3. Fine(Facts, sup)
    BY DEF SupInv, SupOK, Facts
  <1>6. sup = [Replay(journal) EXCEPT !.chain = <<"recover", 0>>]
    BY <1>1 DEF SupInv, SupOK, Recovering
  <1>4. \A b \in Agents : sup.lost[b] # 0 => sup.life[b] = "open"
    <2> SUFFICES ASSUME NEW b \in Agents, sup.lost[b] # 0 PROVE sup.life[b] = "open"
      OBVIOUS
    <2> DEFINE v == View(sup, b)
    <2>1. Replays(journal, b, v) /\ v.lost = sup.lost[b] /\ v.life = sup.life[b]
      <3>1. Replays(journal, b, v)
        BY <1>6, ReplayViews
      <3> QED
        BY <3>1, ViewFields
    <2> HIDE DEF v
    <2>a. journal \subseteq FactType
      BY <1>3 DEF Fine, RunInv, Facts
    <2>2. v.lost \in LostRuns(journal, b)
      BY <2>1, <2>a, LostIs DEF Replays
    <2>3. ~Is(journal, "closed", b)
      BY <2>2 DEF LostRuns
    <2>4. sup.life[b] # "absent"
      <3>1. Sound(sup, b)
        BY <1>3, AgentIs
      <3> QED
        BY <3>1, Zenon DEF Sound
    <2> QED
      BY <2>1, <2>3, <2>4 DEF Replays
  <1>5. Live(Facts, Recovery(sup, suspects, barred))
    <2>1. /\ Fine(Facts, Recovery(sup, suspects, barred)) /\ Recovered(Recovery(sup, suspects, barred))
          /\ Recovery(sup, suspects, barred).chain = Idle /\ ~Recovery(sup, suspects, barred).suspended
      <3>1. \A b \in Agents : sup.chain # <<"initialize", b>>
        BY <1>1
      <3> QED
        BY <1>3, <1>4, <3>1, RecoveryFine, Zenon
    <2> QED
      BY <2>1 DEF Live, Idle
  <1> QED
    BY <1>2, <1>5, StepKeeps

(* The invariant holds initially: an empty journal replays to a new heap. *)
LEMMA InitOK ==
  ASSUME Init
  PROVE  SupInv
  <1>1. sup = NewHeap /\ journal = {} /\ tail = <<>>
    BY DEF Init
  <1>2. JournalOK({})
    <2>1. \A a \in Agents : Of({}, a) = {}
      BY DEF Of
    <2>2. ASSUME NEW a \in Agents PROVE AgentJournal({}, a)
      <3>1. \A kind, n, x : ~Is({}, kind, a) /\ ~Has({}, kind, a, n) /\ ~Val({}, kind, a, n, x)
        BY DEF Is, Has, Val
      <3>2. \A n \in Runs : ~Accepted({}, a, n) /\ ~(n <= 0)
        BY <3>1 DEF Accepted, Runs
      <3>3. 0 \in 0 .. MaxRuns
        BY SubagentsAssumption
      <3> QED
        BY <3>1, <3>2, <3>3 DEF AgentJournal
    <2> QED
      BY <2>1, <2>2 DEF JournalOK, Is
  <1> DEFINE R == Replay({})
  <1>3. Fine({}, R)
    BY <1>2, ReplayFine
  <1>5. ASSUME NEW a \in Agents
        PROVE  /\ R.life[a] = "absent" /\ R.made[a] = 0 /\ R.cur[a] = 0 /\ R.gen[a] = 0 /\ R.queue[a] = <<>>
               /\ R.lost[a] = 0 /\ R.pendingSettle[a] = NoJoin /\ R.quarantined[a] = FALSE
               /\ R.done[a] = [n \in Runs |-> "none"] /\ R.parent[a] = 0
    <2> DEFINE v == View(R, a)
    <2>1. \A kind, n : ~Is({}, kind, a) /\ ~Has({}, kind, a, n)
      BY DEF Is, Has
    <2>2. Replays({}, a, v)
      BY ReplayViews
    <2>3. LifeOK(Of({}, a), a, v)
      BY <1>2, <2>2, ReplayOK DEF RunOK
    <2>4. /\ v.life = R.life[a] /\ v.made = R.made[a] /\ v.cur = R.cur[a] /\ v.gen = R.gen[a] /\ v.queue = R.queue[a]
          /\ v.lost = R.lost[a] /\ v.pending = R.pendingSettle[a] /\ v.quarantined = R.quarantined[a] /\ v.done = R.done[a]
      BY DEF View
    <2>5. R.parent[a] = 0
      <3>1. R.parent = [b \in Agents |-> IF Is({}, "spawned", b) THEN (CHOOSE f \in {} : f[1] = "spawned" /\ f[2] = b)[3] ELSE 0]
        BY DEF Replay, NewHeap
      <3> HIDE DEF R
      <3> QED
        BY <2>1, <3>1
    <2> HIDE DEF v, R
    <2>6. v.life = "absent" /\ v.quarantined = FALSE
      BY <2>1, <2>2 DEF Replays
    <2>7. v.done = [n \in Runs |-> "none"]
      <3>1. v.done = [n \in Runs |-> IF Has({}, "terminal", a, n) THEN Outcome({}, "terminal", a, n) ELSE "none"]
        BY <2>2 DEF Replays
      <3> QED
        BY <2>1, <3>1
    <2>8. v.made = 0 /\ v.cur = 0 /\ v.gen = 0 /\ v.queue = <<>> /\ v.lost = 0 /\ v.pending = NoJoin
      BY <2>3, <2>6 DEF LifeOK
    <2> QED
      BY <2>4, <2>5, <2>6, <2>7, <2>8
  <1>6. R = NewHeap
    <2>1. /\ R.life = [a \in Agents |-> R.life[a]] /\ R.made = [a \in Agents |-> R.made[a]]
          /\ R.cur = [a \in Agents |-> R.cur[a]] /\ R.gen = [a \in Agents |-> R.gen[a]]
          /\ R.queue = [a \in Agents |-> R.queue[a]] /\ R.lost = [a \in Agents |-> R.lost[a]]
          /\ R.pendingSettle = [a \in Agents |-> R.pendingSettle[a]]
          /\ R.quarantined = [a \in Agents |-> R.quarantined[a]] /\ R.done = [a \in Agents |-> R.done[a]]
          /\ R.parent = [a \in Agents |-> R.parent[a]]
      BY <1>3 DEF Fine, Whole, AgentFields, MiscInv
    <2>0. R = [NewHeap EXCEPT !.parent = R.parent, !.life = R.life, !.made = R.made, !.cur = R.cur, !.gen = R.gen,
                              !.queue = R.queue, !.done = R.done, !.quarantined = R.quarantined, !.lost = R.lost,
                              !.pendingSettle = R.pendingSettle]
      BY DEF Replay, NewHeap
    <2> HIDE DEF R
    <2>3. /\ R.life = Each("absent") /\ R.made = Each(0) /\ R.cur = Each(0) /\ R.gen = Each(0) /\ R.queue = Each(<<>>)
          /\ R.lost = Each(0) /\ R.pendingSettle = Each(NoJoin) /\ R.quarantined = Each(FALSE)
          /\ R.done = Each([n \in Runs |-> "none"]) /\ R.parent = Each(0)
      BY <1>5, <2>1, Zenon DEF Each
    <2>4. /\ R.life = NewHeap.life /\ R.made = NewHeap.made /\ R.cur = NewHeap.cur /\ R.gen = NewHeap.gen
          /\ R.queue = NewHeap.queue /\ R.lost = NewHeap.lost /\ R.pendingSettle = NewHeap.pendingSettle
          /\ R.quarantined = NewHeap.quarantined /\ R.done = NewHeap.done /\ R.parent = NewHeap.parent
      BY <2>3 DEF NewHeap
    <2>5. DOMAIN NewHeap = Fields
      BY DEF NewHeap, Fields
    <2>6. NewHeap = [x \in DOMAIN NewHeap |-> NewHeap[x]]
      BY Zenon DEF NewHeap
    <2> HIDE DEF NewHeap
    <2>7. R = [NewHeap EXCEPT !.parent = NewHeap.parent, !.life = NewHeap.life, !.made = NewHeap.made, !.cur = NewHeap.cur,
                              !.gen = NewHeap.gen, !.queue = NewHeap.queue, !.done = NewHeap.done,
                              !.quarantined = NewHeap.quarantined, !.lost = NewHeap.lost,
                              !.pendingSettle = NewHeap.pendingSettle]
      BY <2>0, <2>4
    <2>8. ASSUME NEW h, NEW S, h = [x \in S |-> h[x]], NEW s PROVE [h EXCEPT ![s] = h[s]] = h
      BY <2>8
    <2> QED
      BY <2>6, <2>7, <2>8, Zenon
  <1>7. ~NeedsRecovery(R)
    BY <1>5, Zenon DEF NeedsRecovery
  <1>8. SupOK(R, {}, <<>>)
    BY <1>2, <1>7, ReplaySup
  <1> HIDE DEF R
  <1> QED
    BY <1>1, <1>6, <1>8 DEF SupInv

-----------------------------------------------------------------------------
(* The invariant of the supervisor *)

(* Every step of the supervisor keeps the invariant. *)
LEMMA NextKeeps ==
  ASSUME SupInv, [Next]_vars
  PROVE  SupInv'
  <1>1. ASSUME NEW p \in 0 .. MaxAgents, Spawn(p) PROVE SupInv'
    BY <1>1, SpawnKeeps
  <1>2. ASSUME NEW a \in Agents, StartParked(a) PROVE SupInv'
    BY <1>2, StartParkedKeeps
  <1>3. ASSUME NEW a \in Agents, Started(a) PROVE SupInv'
    BY <1>3, StartedKeeps
  <1>4. ASSUME NEW a \in Agents, Launched(a) \/ LaunchFailed(a) \/ InitializeFailed(a) PROVE SupInv'
    BY <1>4, LaunchedKeeps, LaunchFailedKeeps, InitializeFailedKeeps
  <1>5. ASSUME NEW a \in Agents, Load(a) PROVE SupInv'
    BY <1>5, LoadKeeps
  <1>6. ASSUME NEW a \in Agents, Reloaded(a) PROVE SupInv'
    BY <1>6, ReloadedKeeps
  <1>7. ASSUME NEW a \in Agents, ReloadFailed(a) PROVE SupInv'
    BY <1>7, ReloadFailedKeeps
  <1>8. ASSUME NEW a \in Agents, SendTask(a) PROVE SupInv'
    BY <1>8, SendTaskKeeps
  <1>9. ASSUME NEW a \in Agents, NEW n \in Runs, DispatchPending(a, n) PROVE SupInv'
    BY <1>9, DispatchPendingKeeps
  <1>10. ASSUME NEW a \in Agents, NEW status \in {"succeeded", "failed"}, Settled(a, status) PROVE SupInv'
    BY <1>10, SettledKeeps
  <1>11. ASSUME NEW a \in Agents, WorkerExit(a) PROVE SupInv'
    BY <1>11, WorkerExitKeeps
  <1>12. ASSUME NEW a \in Agents, Checkpointed(a) PROVE SupInv'
    BY <1>12, CheckpointedKeeps
  <1>13. ASSUME NEW a \in Agents, WaitAgent(a) PROVE SupInv'
    BY <1>13, WaitAgentKeeps
  <1>14. ASSUME NEW a \in Agents, WaitEnds(a) PROVE SupInv'
    BY <1>14, WaitEndsKeeps
  <1>15. ASSUME NEW a \in Agents, LeaseGranted(a) PROVE SupInv'
    BY <1>15, LeaseGrantedKeeps
  <1>16. ASSUME NEW a \in Agents, Interrupt(a) PROVE SupInv'
    BY <1>16, InterruptKeeps
  <1>17. ASSUME NEW a \in Agents, Close(a) PROVE SupInv'
    BY <1>17, CloseKeeps
  <1>18. ASSUME NEW a \in Agents, AwaitIdle(a) PROVE SupInv'
    BY <1>18, AwaitIdleKeeps
  <1>19. ASSUME NEW a \in Agents, RetireSubtree(a) PROVE SupInv'
    BY <1>19, RetireSubtreeKeeps
  <1>23. ASSUME NEW walk \in sup.walks, NEW a \in Agents, InterruptNext(walk, a) PROVE SupInv'
    BY <1>23, InterruptNextKeeps
  <1>24. ASSUME NEW walk \in sup.walks, InterruptOver(walk) PROVE SupInv'
    BY <1>24, InterruptOverKeeps
  <1>20. CASE Crash
    BY <1>20, CrashKeeps
  <1>21. CASE Recover
    BY <1>21, RecoverKeeps
  <1>22. CASE UNCHANGED vars
    BY <1>22 DEF vars, SupInv
  <1> QED
    BY <1>1, <1>2, <1>3, <1>4, <1>5, <1>6, <1>7, <1>8, <1>9, <1>10, <1>11, <1>12, <1>13, <1>14,
       <1>15, <1>16, <1>17, <1>18, <1>19, <1>20, <1>21, <1>22, <1>23, <1>24, Zenon DEF Next

(* The invariant holds always: every heap that the supervisor reaches agrees with the facts it *)
(* has written, for any number of agents, runs, leases and resident workers, through crashes.  *)
THEOREM SupInvariant == Spec => []SupInv
  BY InitOK, NextKeeps, PTL DEF Spec

-----------------------------------------------------------------------------
(* What the invariant says of one agent and the facts that are written. *)
LEMMA AgentNow ==
  ASSUME SupInv, NEW a \in Agents
  PROVE  /\ RunOK(Of(Facts, a), a, View(sup, a)) /\ Sound(sup, a) /\ JournalOK(Facts) /\ Facts \subseteq FactType
         /\ Fine(Facts, sup)
  <1>1. Fine(Facts, sup) /\ sup.log = <<>>
    BY DEF SupInv, SupOK, Facts
  <1>2. Facts \cup Range(sup.log) = Facts
    BY <1>1, EmptyRange
  <1>3. RunInv(Facts, sup)
    BY <1>1, <1>2, Zenon DEF Fine
  <1>4. JournalOK(Facts)
    BY <1>3, RunInvJournal
  <1>5. Sound(sup, a)
    BY <1>1, AgentIs
  <1> QED
    BY <1>1, <1>3, <1>4, <1>5 DEF RunInv

(* What a restarted supervisor still has to settle has no outcome yet. *)
LEMMA LeftOver ==
  ASSUME SupInv, NEW a \in Agents
  PROVE  /\ sup.lost[a] # 0 => ~Has(Facts, "terminal", a, sup.lost[a])
         /\ sup.pendingSettle[a] # NoJoin => ~Has(Facts, "terminal", a, sup.pendingSettle[a][1])
  <1>1. CASE sup.chain # <<"recover", 0>>
    BY <1>1 DEF SupInv, SupOK, Recovered
  <1>2. CASE sup.chain = <<"recover", 0>>
    <2> DEFINE v == View(sup, a)
    <2>1. tail = <<>> /\ sup = [Replay(journal) EXCEPT !.chain = <<"recover", 0>>]
      BY <1>2 DEF SupInv, SupOK, Recovering
    <2>2. Facts = journal
      BY <2>1, EmptyRange DEF Facts
    <2>3. Replays(journal, a, v)
      BY <2>1, ReplayViews
    <2>4. v.lost = sup.lost[a] /\ v.pending = sup.pendingSettle[a]
      BY ViewFields
    <2>5. Facts \subseteq FactType
      BY AgentNow
    <2> HIDE DEF v
    <2>6. v.lost # 0 => v.lost \in LostRuns(journal, a)
      BY <2>2, <2>3, <2>5, LostIs DEF Replays
    <2>7. v.pending # NoJoin => ~Has(journal, "terminal", a, v.pending[1])
      BY <2>2, <2>3, <2>5, UnfinishedIs DEF Replays
    <2> QED
      BY <2>2, <2>4, <2>6, <2>7 DEF LostRuns
  <1> QED
    BY <1>1, <1>2

(* A lease that an agent holds or is being handed is counted, and is nobody else's: whatever   *)
(* order releases, grants and cancellations of AdmissionScheduler come in.                     *)
THEOREM LeasesAreExclusive == Spec => []LeasesExclusive
  <1>1. ASSUME SupInv PROVE LeasesExclusive
    <2>1. LeaseInv(sup)
      BY <1>1 DEF SupInv, SupOK, Fine
    <2> QED
      BY <2>1 DEF LeaseInv, LeasesExclusive
  <1> QED
    BY <1>1, SupInvariant, PTL

(* finalizeGeneration's own check never fails: an agent that still joins its descendants has   *)
(* no run and no parked start.                                                                 *)
THEOREM GenerationsAreSingle == Spec => []OneGenerationAtATime
  <1>1. ASSUME SupInv PROVE OneGenerationAtATime
    <2>1. ASSUME NEW a \in Agents, sup.join[a] # NoJoin PROVE sup.active[a] = 0 /\ ~sup.parked[a]
      <3>1. Sound(sup, a)
        BY <1>1, AgentNow
      <3> QED
        BY <2>1, <3>1, Zenon DEF Sound
    <2> QED
      BY <2>1 DEF OneGenerationAtATime
  <1> QED
    BY <1>1, SupInvariant, PTL

(* A quarantined agent has neither a run nor a worker, through restarts, loads and resumes. *)
THEOREM QuarantineIsKept == Spec => []QuarantineHolds
  <1>1. ASSUME SupInv PROVE QuarantineHolds
    <2>1. ASSUME NEW a \in Agents, sup.quarantined[a] PROVE sup.active[a] = 0 /\ ~sup.worker[a]
      <3>1. Sound(sup, a)
        BY <1>1, AgentNow
      <3> QED
        BY <2>1, <3>1, Zenon DEF Sound
    <2> QED
      BY <2>1 DEF QuarantineHolds
  <1> QED
    BY <1>1, SupInvariant, PTL

(* Each task run has one terminal outcome in the whole journal, and a run that has it is       *)
(* neither queued, parked, running nor still to be settled, through any crash.                 *)
THEOREM OutcomesAreFinal == Spec => []OutcomeIsFinal
  <1>1. ASSUME SupInv PROVE OutcomeIsFinal
    <2>1. ASSUME NEW f \in Facts, NEW g \in Facts, f[1] = "terminal", g[1] = "terminal", f[2] = g[2], f[3] = g[3]
          PROVE  f = g
      <3>0. 1 \in Agents
        BY SubagentsAssumption DEF Agents
      <3>1. JournalOK(Facts) /\ Facts \subseteq FactType
        BY <1>1, <3>0, AgentNow
      <3>2. /\ f \in {"settled", "terminal"} \X Agents \X Runs \X Outcomes
            /\ g \in {"settled", "terminal"} \X Agents \X Runs \X Outcomes
        BY <2>1, <3>1 DEF FactType
      <3> DEFINE a == f[2]
                 n == f[3]
      <3>3. a \in Agents /\ n \in Runs /\ f[4] \in Outcomes /\ g[4] \in Outcomes
        BY <3>2
      <3>4. AgentJournal(Of(Facts, a), a)
        BY <3>1, <3>3 DEF JournalOK
      <3>5. Val(Of(Facts, a), "terminal", a, n, f[4]) /\ Val(Of(Facts, a), "terminal", a, n, g[4])
        BY <2>1 DEF Val, Of
      <3>6. f[4] = g[4]
        BY <3>3, <3>4, <3>5, Zenon DEF AgentJournal
      <3> QED
        BY <2>1, <3>2, <3>6
    <2>2. ASSUME NEW a \in Agents, NEW n \in Runs, Ended(a, n)
          PROVE  /\ n \notin InQueue(sup, a)
                       \cup {sup.active[a], sup.join[a][1], sup.pendingSettle[a][1], sup.lost[a]}
                 /\ ~(sup.parked[a] /\ sup.cur[a] = n)
      <3> DEFINE v == View(sup, a)
                 J == Of(Facts, a)
      <3>1. /\ v.cur = sup.cur[a] /\ v.active = sup.active[a] /\ v.queue = sup.queue[a] /\ v.parked = sup.parked[a]
            /\ v.join = sup.join[a]
        BY ViewFields
      <3>2. ViewType(v) /\ QueueOK(J, a, v) /\ HeldOK(J, a, v)
        BY <1>1, AgentNow DEF RunOK
      <3> HIDE DEF v
      <3>3. Has(Facts, "terminal", a, n) /\ Has(J, "terminal", a, n)
        BY <2>2 DEF Ended, Has, Of
      <3>4. n # 0 /\ NoJoin[1] = 0
        BY SubagentsAssumption DEF Runs, NoJoin
      <3> HIDE DEF J
      <3>5. n \notin InQueue(sup, a)
        BY <3>1, <3>2, <3>3 DEF QueueOK, InQueue
      <3>6. n # sup.active[a]
        BY <3>1, <3>2, <3>3, <3>4 DEF HeldOK, ViewType
      <3>7. n # sup.join[a][1]
        BY <3>1, <3>2, <3>3, <3>4 DEF HeldOK
      <3>8. ~(sup.parked[a] /\ sup.cur[a] = n)
        BY <3>1, <3>2, <3>3 DEF HeldOK
      <3>9. n # sup.pendingSettle[a][1] /\ n # sup.lost[a]
        BY <1>1, <3>3, <3>4, LeftOver
      <3> QED
        BY <3>5, <3>6, <3>7, <3>8, <3>9
    <2> QED
      BY <2>1, <2>2 DEF OutcomeIsFinal
  <1> QED
    BY <1>1, SupInvariant, PTL

(* The last start that the journal has is the one of the run that the agent holds. *)
LEMMA HeldIsLast ==
  ASSUME NEW F, F \subseteq FactType, NEW a \in Agents, NEW v, ViewType(v), GenOK(Of(F, a), a, v),
         v.cur \in Runs, Val(Of(F, a), "started", a, v.cur, v.gen)
  PROVE  LastStart(F, a)[3] = v.cur
  <1> DEFINE f == LastStart(F, a)
             J == Of(F, a)
  <1>1. \A n, x : Val(J, "started", a, n, x) <=> Val(F, "started", a, n, x)
    BY FactsOf
  <1>2. Val(F, "started", a, v.cur, v.gen)
    BY <1>1
  <1>3. v.gen \in Generations /\ Has(F, "started", a, v.cur)
    <2>1. PICK g \in F : g[1] = "started" /\ g[2] = a /\ g[3] = v.cur /\ g[4] = v.gen
      BY <1>2 DEF Val
    <2>2. g[4] \in Generations
      BY <2>1, FactIs
    <2> QED
      BY <2>1, <2>2 DEF Has
  <1>4. /\ f[3] \in Runs /\ f[4] \in Generations /\ Val(F, "started", a, f[3], f[4])
        /\ \A n, g : Val(F, "started", a, n, g) => g <= f[4]
    <2> HIDE DEF f
    <2>1. f = LastStart(F, a)
      BY DEF f
    <2> QED
      BY <1>3, <2>1, LastStartIs
  <1> HIDE DEF f, J
  <1>5. /\ \A n \in Runs : \A g \in Generations : Val(J, "started", a, n, g) => g <= v.gen
        /\ \A n, k \in Runs : \A g \in Generations : Val(J, "started", a, n, g) /\ Val(J, "started", a, k, g) => n = k
    BY DEF GenOK, J
  <1>6. v.gen <= f[4] /\ f[4] <= v.gen
    BY <1>1, <1>2, <1>4, <1>5
  <1>7. v.gen = f[4]
    BY <1>3, <1>4, <1>6 DEF Generations
  <1> QED
    BY <1>1, <1>2, <1>3, <1>4, <1>5, <1>7 DEF f

(* Two views of an agent that agree with the same facts have the same outcomes and as many runs. *)
LEMMA SameRuns ==
  ASSUME NEW F, F \subseteq FactType, NEW a \in Agents, NEW v, NEW r,
         ViewType(v), ViewType(r), RunsOK(Of(F, a), a, v), RunsOK(Of(F, a), a, r)
  PROVE  r.done = v.done /\ r.made = v.made
  <1> DEFINE J == Of(F, a)
  <1>1. J \subseteq FactType
    BY DEF Of
  <1>2. /\ v.done \in [Runs -> Outcomes \cup {"none"}] /\ r.done \in [Runs -> Outcomes \cup {"none"}]
        /\ v.made \in 0 .. MaxRuns /\ r.made \in 0 .. MaxRuns
    BY DEF ViewType
  <1>3. ASSUME NEW n \in Runs PROVE r.done[n] = v.done[n]
    <2>1. CASE ~Has(J, "terminal", a, n)
      BY <2>1 DEF RunsOK
    <2>2. CASE Has(J, "terminal", a, n)
      <3>1. PICK o \in Outcomes : Val(J, "terminal", a, n, o)
        BY <1>1, <2>2, OutcomeIs
      <3> QED
        BY <3>1 DEF RunsOK
    <2> QED
      BY <2>1, <2>2
  <1>4. r.made = v.made
    <2>1. \A n \in Runs : n <= v.made <=> n <= r.made
      BY DEF RunsOK
    <2> QED
      BY <1>2, <2>1, SubagentsAssumption DEF Runs
  <1> QED
    BY <1>2, <1>3, <1>4

(* A restart at any moment finds the outcomes and the queues as they are, the running run      *)
(* among the lost, and an outcome that waits for descendants as one still to publish, unless   *)
(* a run is lost.  While a worker initializes, its run, if not yet dispatched, is not among    *)
(* the lost: it is queued again if it was accepted while parked, and else forgotten.           *)
THEOREM JournalCarries == Spec => []JournalCarriesRuns
  <1>1. ASSUME SupInv PROVE JournalCarriesRuns
    <2> DEFINE m == Replay(Facts)
    <2> SUFFICES ASSUME NEW a \in Agents
                 PROVE  /\ m.done[a] = sup.done[a] /\ m.made[a] = sup.made[a]
                        /\ sup.life[a] \in {"open", "closing"} =>
                             /\ m.life[a] = "open"
                             /\ InQueue(sup, a) \subseteq InQueue(m, a)
                             /\ sup.parked[a] => sup.cur[a] \in InQueue(m, a)
                             /\ sup.active[a] # 0 => \/ sup.active[a] \in LostRuns(Facts, a)
                                                   \/ /\ sup.chain = <<"initialize", a>>
                                                      /\ Has(Facts, "accepted", a, sup.active[a]) => sup.active[a] \in InQueue(m, a)
                             /\ sup.join[a] # NoJoin => m.pendingSettle[a] = sup.join[a] \/ m.lost[a] # 0
      BY Zenon DEF JournalCarriesRuns
    <2> DEFINE F == Facts
               J == Of(F, a)
               v == View(sup, a)
               r == View(m, a)
               waits == {n \in Runs : Has(F, "accepted", a, n) /\ ~Has(F, "started", a, n) /\ ~Has(F, "terminal", a, n)}
    <2>1. RunOK(J, a, v) /\ JournalOK(F) /\ F \subseteq FactType
      BY <1>1, AgentNow
    <2>2. Replays(F, a, r)
      BY ReplayViews
    <2>3. /\ v.life = sup.life[a] /\ v.made = sup.made[a] /\ v.cur = sup.cur[a] /\ v.gen = sup.gen[a]
          /\ v.active = sup.active[a] /\ v.queue = sup.queue[a] /\ v.parked = sup.parked[a]
          /\ v.join = sup.join[a] /\ v.done = sup.done[a] /\ v.init = (sup.chain = <<"initialize", a>>)
      BY ViewFields
    <2>4. /\ r.life = m.life[a] /\ r.made = m.made[a] /\ r.queue = m.queue[a] /\ r.done = m.done[a]
          /\ r.lost = m.lost[a] /\ r.pending = m.pendingSettle[a]
      BY ViewFields
    <2> HIDE DEF m, v, r, F
    <2>5. RunOK(J, a, r)
      BY <2>1, <2>2, ReplayOK
    <2>6. /\ \A kind : Is(J, kind, a) <=> Is(F, kind, a)
          /\ \A kind, n : Has(J, kind, a, n) <=> Has(F, kind, a, n)
          /\ \A kind, n, x : Val(J, kind, a, n, x) <=> Val(F, kind, a, n, x)
      BY FactsOf
    <2>7. r.done = v.done /\ r.made = v.made
      BY <2>1, <2>5, SameRuns DEF RunOK
    <2>8. Range(r.queue) = waits
      <3>1. r.queue = Keep([n \in Runs |-> n], waits)
        BY <2>2 DEF Replays
      <3>2. waits \in SUBSET Runs
        OBVIOUS
      <3> HIDE DEF waits
      <3> QED
        BY <3>1, <3>2, AllRunsIs
    <2>9. /\ r.lost = (IF LostRuns(F, a) = {} THEN 0 ELSE LatestOf({g \in Starts(F, a) : g[3] \in LostRuns(F, a)})[3])
          /\ r.pending = Unfinished(F, a)
          /\ r.life = IF ~Is(F, "spawned", a) THEN "absent" ELSE IF Is(F, "closed", a) THEN "closed" ELSE "open"
      BY <2>2, Zenon DEF Replays
    <2>10. ViewType(v) /\ LifeOK(J, a, v) /\ QueueOK(J, a, v) /\ GenOK(J, a, v) /\ HeldOK(J, a, v)
      BY <2>1 DEF RunOK
    <2> HIDE DEF J
    <2>11. ASSUME v.life \in {"open", "closing"}
           PROVE  /\ r.life = "open" /\ Range(v.queue) \subseteq Range(r.queue)
                  /\ v.parked => v.cur \in Range(r.queue)
                  /\ v.active # 0 => \/ v.active \in LostRuns(F, a)
                                     \/ v.init /\ (Has(F, "accepted", a, v.active) => v.active \in Range(r.queue))
                  /\ v.join # NoJoin => r.pending = v.join \/ r.lost # 0
      <3>1. Is(F, "spawned", a) /\ ~Is(F, "closed", a) /\ v.cur \in 1 .. v.made
        BY <2>6, <2>10, <2>11 DEF LifeOK
      <3>2. v.cur \in Runs
        BY <2>10, <3>1, SubagentsAssumption DEF ViewType, Runs
      <3>3. Range(v.queue) \subseteq Range(r.queue)
        <4>1. Range(v.queue) \subseteq Runs
          BY <2>10 DEF ViewType, Range
        <4> QED
          BY <2>6, <2>8, <2>10, <4>1 DEF QueueOK
      <3>4. v.parked => v.cur \in Range(r.queue)
        BY <2>6, <2>8, <2>10, <3>2 DEF HeldOK
      <3>5. ASSUME (v.active # 0 /\ ~v.init) \/ v.join # NoJoin
            PROVE  Has(F, "started", a, v.cur) /\ ~Has(F, "terminal", a, v.cur) /\ LastStart(F, a)[3] = v.cur
        <4>1. Val(J, "started", a, v.cur, v.gen) /\ ~Has(J, "terminal", a, v.cur)
          BY <2>10, <3>5, Zenon DEF HeldOK
        <4>2. LastStart(F, a)[3] = v.cur
          BY <2>1, <2>10, <3>2, <4>1, HeldIsLast DEF J
        <4>3. Has(J, "started", a, v.cur)
          BY <4>1 DEF Val, Has
        <4> QED
          BY <2>6, <4>1, <4>2, <4>3
      <3>6. ASSUME v.active # 0
            PROVE  \/ v.active \in LostRuns(F, a)
                   \/ v.init /\ (Has(F, "accepted", a, v.active) => v.active \in Range(r.queue))
        <4>1. v.active = v.cur /\ ~Has(F, "terminal", a, v.cur) /\ ~Has(F, "settled", a, v.cur)
          BY <2>6, <2>10, <3>6 DEF HeldOK, ViewType
        <4>2. CASE Has(F, "started", a, v.cur)
          BY <3>1, <3>2, <4>1, <4>2 DEF LostRuns
        <4>3. CASE ~Has(F, "started", a, v.cur)
          <5>1. v.init
            BY <3>5, <3>6, <4>3
          <5>2. Has(F, "accepted", a, v.cur) => v.cur \in Range(r.queue)
            BY <2>8, <3>2, <4>1, <4>3
          <5> QED
            BY <4>1, <5>1, <5>2
        <4> QED
          BY <4>2, <4>3
      <3>7. ASSUME v.join # NoJoin, LostRuns(F, a) = {} PROVE r.pending = v.join
        <4> DEFINE o == Outcome(F, "settled", a, v.cur)
        <4>1. /\ v.join[1] = v.cur /\ Has(J, "settled", a, v.cur)
              /\ \A x \in Outcomes : Val(J, "settled", a, v.cur, x) => x = v.join[2]
          BY <2>10, <3>7 DEF HeldOK
        <4>2. o \in Outcomes /\ Val(F, "settled", a, v.cur, o)
          BY <2>1, <2>6, <4>1, OutcomeIs
        <4>3. v.join = <<v.cur, o>>
          <5>1. v.join \in Runs \X Outcomes
            BY <2>10, <3>7 DEF ViewType
          <5> QED
            BY <2>6, <4>1, <4>2, <5>1
        <4>4. v.cur # 0 /\ Has(F, "settled", a, v.cur)
          BY <2>6, <3>2, <4>1, SubagentsAssumption DEF Runs
        <4>5. Unfinished(F, a) = <<v.cur, o>>
          BY <3>1, <3>5, <3>7, <4>4 DEF Unfinished
        <4> QED
          BY <2>9, <4>3, <4>5
      <3>8. ASSUME LostRuns(F, a) # {} PROVE r.lost # 0
        <4> DEFINE S == {g \in Starts(F, a) : g[3] \in LostRuns(F, a)}
        <4>1. r.lost = LatestOf(S)[3]
          BY <2>9, <3>8
        <4>2. S # {}
          <5>1. PICK n \in LostRuns(F, a) : Has(F, "started", a, n)
            BY <3>8 DEF LostRuns
          <5> QED
            BY <5>1 DEF Has, Starts
        <4>3. LatestOf(S) \in S
          BY <2>1, <4>2, LatestIs
        <4>4. 0 \notin LostRuns(F, a)
          BY SubagentsAssumption DEF LostRuns, Runs
        <4> QED
          BY <4>1, <4>3, <4>4
      <3> QED
        BY <2>9, <3>1, <3>3, <3>4, <3>6, <3>7, <3>8
    <2> QED
      BY <2>3, <2>4, <2>7, <2>11 DEF InQueue, F
  <1> QED
    BY <1>1, SupInvariant, PTL

(* A generation number stays within the runs that are started, and so within MaxRuns + 1. *)
LEMMA GenBound ==
  ASSUME NEW J, NEW a, NEW v, ViewType(v), GenOK(J, a, v)
  PROVE  v.gen \in 0 .. MaxRuns + 1
  <1> DEFINE S == StartedRuns(J, a)
  <1>3. Cardinality(S) \in 0 .. MaxRuns
    BY StartedFinite
  <1>4. v.gen \in Nat /\ v.gen <= Cardinality(S) + 1
    BY DEF ViewType, GenOK
  <1> HIDE DEF S
  <1> QED
    BY <1>3, <1>4, SubagentsAssumption

(* The heap is well formed: agents are born of earlier ones, no run beyond those accepted is   *)
(* current, a queue holds a run once, generations and leases stay within their bounds and      *)
(* residents within maxResidentWorkers.                                                        *)
THEOREM SubagentsTypes == Spec => []TypeOK
  <1>1. ASSUME SupInv PROVE TypeOK
    <2>1. Whole(sup) /\ LeaseInv(sup) /\ MiscInv(sup) /\ JobsOK(sup) /\ ResidentsOK(sup)
      BY <1>1 DEF SupInv, SupOK, Fine
    <2>2. ASSUME NEW a \in Agents
          PROVE  /\ sup.life[a] \in {"absent", "open", "closing", "closed"}
                 /\ sup.made[a] \in 0 .. MaxRuns /\ sup.cur[a] \in 0 .. MaxRuns /\ sup.active[a] \in 0 .. MaxRuns
                 /\ sup.lost[a] \in 0 .. MaxRuns /\ sup.gen[a] \in 0 .. MaxRuns + 1
                 /\ sup.parked[a] \in BOOLEAN /\ sup.worker[a] \in BOOLEAN /\ sup.quarantined[a] \in BOOLEAN
                 /\ sup.queue[a] \in Seq(Runs) /\ IsInjective(sup.queue[a])
                 /\ sup.join[a] \in {NoJoin} \cup (Runs \X Outcomes)
                 /\ sup.pendingSettle[a] \in {NoJoin} \cup (Runs \X Outcomes)
                 /\ sup.done[a] \in [Runs -> Outcomes \cup {"none"}]
      <3> DEFINE v == View(sup, a)
                 J == Of(Facts, a)
      <3>1. /\ v.life = sup.life[a] /\ v.made = sup.made[a] /\ v.cur = sup.cur[a] /\ v.gen = sup.gen[a]
            /\ v.active = sup.active[a] /\ v.queue = sup.queue[a] /\ v.parked = sup.parked[a] /\ v.join = sup.join[a]
            /\ v.done = sup.done[a] /\ v.worker = sup.worker[a] /\ v.quarantined = sup.quarantined[a]
            /\ v.lost = sup.lost[a] /\ v.pending = sup.pendingSettle[a]
        BY ViewFields
      <3>2. ViewType(v) /\ GenOK(J, a, v) /\ QueueOK(J, a, v)
        BY <1>1, AgentNow DEF RunOK
      <3> HIDE DEF v, J
      <3>3. v.gen \in 0 .. MaxRuns + 1
        BY <3>2, GenBound
      <3>4. IsInjective(v.queue)
        BY <3>2 DEF QueueOK
      <3>5. v.active \in 0 .. MaxRuns
        BY <3>2, SubagentsAssumption DEF ViewType
      <3> QED
        BY <3>1, <3>2, <3>3, <3>4, <3>5 DEF ViewType
    <2>3. /\ sup.life = [a \in Agents |-> sup.life[a]] /\ sup.made = [a \in Agents |-> sup.made[a]]
          /\ sup.cur = [a \in Agents |-> sup.cur[a]] /\ sup.gen = [a \in Agents |-> sup.gen[a]]
          /\ sup.active = [a \in Agents |-> sup.active[a]] /\ sup.lost = [a \in Agents |-> sup.lost[a]]
          /\ sup.parked = [a \in Agents |-> sup.parked[a]] /\ sup.worker = [a \in Agents |-> sup.worker[a]]
          /\ sup.quarantined = [a \in Agents |-> sup.quarantined[a]] /\ sup.join = [a \in Agents |-> sup.join[a]]
          /\ sup.pendingSettle = [a \in Agents |-> sup.pendingSettle[a]] /\ sup.done = [a \in Agents |-> sup.done[a]]
      BY <2>1 DEF Whole, AgentFields
    <2>4. sup.life \in [Agents -> {"absent", "open", "closing", "closed"}]
      BY <2>2, <2>3
    <2>5. {sup.made, sup.cur, sup.active, sup.lost} \subseteq [Agents -> 0 .. MaxRuns]
      <3>1. sup.made \in [Agents -> 0 .. MaxRuns] /\ sup.cur \in [Agents -> 0 .. MaxRuns]
        BY <2>2, <2>3
      <3>2. sup.active \in [Agents -> 0 .. MaxRuns] /\ sup.lost \in [Agents -> 0 .. MaxRuns]
        BY <2>2, <2>3
      <3> QED
        BY <3>1, <3>2
    <2>6. sup.gen \in [Agents -> 0 .. MaxRuns + 1]
      BY <2>2, <2>3
    <2>7. {sup.intr, sup.parked, sup.joinInterrupted, sup.worker, sup.ckpt, sup.resident, sup.held,
           sup.quarantined} \subseteq [Agents -> BOOLEAN]
      <3>1. sup.parked \in [Agents -> BOOLEAN] /\ sup.worker \in [Agents -> BOOLEAN] /\ sup.quarantined \in [Agents -> BOOLEAN]
        BY <2>2, <2>3
      <3>2. /\ sup.intr \in [Agents -> BOOLEAN] /\ sup.joinInterrupted \in [Agents -> BOOLEAN]
            /\ sup.ckpt \in [Agents -> BOOLEAN] /\ sup.held \in [Agents -> BOOLEAN] /\ sup.resident \in [Agents -> BOOLEAN]
        BY <2>1 DEF MiscInv, ResidentsOK
      <3> QED
        BY <3>1, <3>2
    <2>8. \A a \in Agents : InQueue(sup, a) \subseteq Runs /\ IsInjective(sup.queue[a])
      BY <2>2 DEF InQueue, Range
    <2>9. {sup.join, sup.pendingSettle} \subseteq [Agents -> {NoJoin} \cup (Runs \X Outcomes)]
      <3>1. sup.join \in [Agents -> {NoJoin} \cup (Runs \X Outcomes)]
        BY <2>2, <2>3
      <3>2. sup.pendingSettle \in [Agents -> {NoJoin} \cup (Runs \X Outcomes)]
        BY <2>2, <2>3
      <3> QED
        BY <3>1, <3>2
    <2>10. sup.done \in [Agents -> [Runs -> Outcomes \cup {"none"}]]
      BY <2>2, <2>3
    <2>11. /\ sup.parent \in [Agents -> 0 .. MaxAgents] /\ \A a \in Agents : sup.parent[a] < a
           /\ sup.after \in [Agents -> Nat]
           /\ sup.wait \in [Agents -> {"none", "waiting", "resuming", "queued", "granted"}]
      BY <2>1 DEF MiscInv
    <2>12. {sup.lease, sup.grant} \subseteq [Agents -> 0 .. maxRunnable] /\ sup.leases \subseteq 1 .. maxRunnable
      BY <2>1 DEF LeaseInv
    <2>13. Range(sup.jobs) \subseteq {"start", "load", "retire"} \X Agents
      BY <2>1 DEF JobsOK, Range
    <2>14. Cardinality(Residents(sup)) <= maxResidentWorkers
      BY <2>1 DEF ResidentsOK
    <2> QED
      BY <2>4, <2>5, <2>6, <2>7, <2>8, <2>9, <2>10, <2>11, <2>12, <2>13, <2>14, Zenon DEF TypeOK
  <1> QED
    BY <1>1, SupInvariant, PTL
=============================================================================
