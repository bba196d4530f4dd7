------------------------------ MODULE Retrieval ------------------------------
(***************************************************************************)
(* The fenced PostgreSQL index shared by the Scala services: the library   *)
(* PostgresRetrieval (the pony_retrieval tables) and the IndexingWorker    *)
(* that embeds a source's chunks and publishes them as one generation.     *)
(*                                                                         *)
(* Every library call runs in one caller transaction that first locks the  *)
(* row of its source, so a call is one action here.  What lies BETWEEN the *)
(* calls of a worker (lease expiry, a second worker, a rewrite or a        *)
(* removal of the source, a crash, a lost reply) is what interleaves.      *)
(*                                                                         *)
(* A lease is the number of clock ticks it has left, 0 when it has lapsed  *)
(* or is NULL; an expiry instant may pass at any moment.  A hash is its    *)
(* preimage.  Ordinals count from 1.                                       *)
(***************************************************************************)
EXTENDS Naturals, Sequences, FiniteSets

CONSTANTS
  Sources,       \* ids of the sources of one namespace
  Workers,       \* indexing workers, of any number of processes
  Versions,      \* source versions the application writes
  Texts,         \* bodies of chunks
  Contents,      \* chunk lists an application writes
  MaxChunks,     \* bound: longest chunk list
  Profiles,      \* retrieval profiles (embedding space + corpus policy)
  NoProfile,     \* a deployment without a configured model
  Canonical,     \* legacy profile -> its canonical profile, else itself
  Flags,         \* visibility a put may carry
  BatchSize,     \* chunks per embedding call
  Nonces,        \* what differs between two answers of the provider
  LeaseTicks,    \* length of a lease
  AttemptLimit,  \* claims a job may consume (5 in the code)
  candidatesPerLeg, \* rows one leg of a semantic query may return (1000 in the code)
  MaxEpoch       \* bound: rewrites and removals of one source

Expiry == {"never", "future", "past"}

ASSUME RetrievalAssumption ==
  /\ NoProfile \notin Profiles
  /\ Canonical \in [Profiles -> Profiles]
  /\ \A p \in Profiles : Canonical[Canonical[p]] = Canonical[p]
  /\ Flags \subseteq [eligible: BOOLEAN, shown: BOOLEAN, expires: Expiry]
  /\ MaxChunks \in Nat /\ MaxEpoch \in Nat
  /\ BatchSize \in Nat \ {0} /\ LeaseTicks \in Nat \ {0} /\ AttemptLimit \in Nat \ {0}
  /\ candidatesPerLeg \in Nat \ {0}
  /\ Contents \subseteq Seq(Texts)
  /\ <<>> \in Contents
  /\ \A c \in Contents : Len(c) <= MaxChunks

VARIABLES
  source,      \* pony_retrieval_sources; "shown" stands for audience and archived
  head,        \* pony_retrieval_head_chunks: the chunk list of each source
  jobs,        \* pony_retrieval_jobs, one per source and epoch
  accepted,    \* pony_retrieval_accepted: job -> ordinal -> vector
  generations, \* pony_retrieval_generations, in order of insertion
  chunks,      \* pony_retrieval_chunks: ordinal -> row, of one source
  worker       \* the fibers of IndexingWorker.process

vars == <<source, head, jobs, accepted, generations, chunks, worker>>
tables == <<source, head, jobs, accepted, generations, chunks>>

-----------------------------------------------------------------------------
(* Rows, null values and the initial state *)

Targets == Profiles \cup {NoProfile}
Ordinals == 1..MaxChunks
Epochs == 1..MaxEpoch
Vector == [text: Texts, space: Profiles, nonce: Nonces]
NoVector == [text |-> "none"]
NoVersion == "none"
JobStates == {"None", "Queued", "Running", "Complete", "Failed", "Superseded"}

\* "content" is the input digest, "heads" that head_generation is not empty.
SourceRow == [epoch: 0..MaxEpoch, version: Versions \cup {NoVersion}, content: Contents,
              target: Targets, published: Nat, heads: BOOLEAN,
              eligible: BOOLEAN, shown: BOOLEAN, expires: Expiry]
JobRow == [state: JobStates, fence: Nat, attempts: 0..AttemptLimit, lease: 0..LeaseTicks,
           profile: Targets]
GenerationRow == [version: Versions, profile: Profiles]
ChunkRow == [text: Texts, vector: Vector, generation: Nat, profile: Profiles]
WorkClaim == [source: Sources, epoch: Epochs, fence: Nat, profile: Profiles,
              version: Versions, chunks: Contents]
Steps == {"idle", "check", "embed", "accept", "publish", "failing"}

\* A source the application never wrote has no row: epoch 0.
NoRow == [epoch |-> 0, version |-> NoVersion, content |-> <<>>, target |-> NoProfile,
          published |-> 0, heads |-> FALSE,
          eligible |-> FALSE, shown |-> FALSE, expires |-> "never"]
NoJob == [state |-> "None", fence |-> 0, attempts |-> 0, lease |-> 0, profile |-> NoProfile]
NoVectors == [i \in Ordinals |-> NoVector]
NoChunks == [i \in {} |-> NoVector]
NoClaim == [source |-> NoVersion]
Idle == [pc |-> "idle", claim |-> NoClaim, first |-> 1, vectors |-> NoVectors]

Working == [pc: Steps \ {"idle"}, claim: WorkClaim, first: Nat \ {0},
            vectors: [Ordinals -> Vector \cup {NoVector}]]

TypeOK ==
  /\ source \in [Sources -> SourceRow]
  /\ head \in [Sources -> Contents]
  /\ jobs \in [Sources -> [Epochs -> JobRow]]
  /\ accepted \in [Sources -> [Epochs -> [Ordinals -> Vector \cup {NoVector}]]]
  /\ generations \in [Sources -> Seq(GenerationRow)]
  /\ \A s \in Sources : \E D \in SUBSET Ordinals : chunks[s] \in [D -> ChunkRow]
  /\ DOMAIN chunks = Sources
  /\ worker \in [Workers -> Working \cup {Idle}]

Init ==
  /\ source = [s \in Sources |-> NoRow]
  /\ head = [s \in Sources |-> <<>>]
  /\ jobs = [s \in Sources |-> [e \in Epochs |-> NoJob]]
  /\ accepted = [s \in Sources |-> [e \in Epochs |-> NoVectors]]
  /\ generations = [s \in Sources |-> <<>>]
  /\ chunks = [s \in Sources |-> NoChunks]
  /\ worker = [w \in Workers |-> Idle]

-----------------------------------------------------------------------------
(* Writes of the application, each in its own transaction *)

\* "state<>'Complete'" spares finished jobs on a rewrite; a removal spares none.
Supersede(s, spared) ==
  [e \in Epochs |->
     IF jobs[s][e].state \in {"None"} \cup spared THEN jobs[s][e]
     ELSE [jobs[s][e] EXCEPT !.state = "Superseded", !.fence = @ + 1]]

\* Mutant of Put: forgets that a removal emptied head_generation.
PutTrustingDigest(s, v, c, f, p) ==
  LET old == source[s]
      flagged == [old EXCEPT !.eligible = f.eligible, !.shown = f.shown, !.expires = f.expires]
      epoch == old.epoch + 1
  IN /\ old.epoch = 0 \/ old.version # v \/ old.content = c
     /\ IF old.version # v \/ old.target # p \/ old.epoch = 0
        THEN /\ epoch \in Epochs
             /\ source' = [source EXCEPT ![s] =
                  [flagged EXCEPT !.epoch = epoch, !.version = v, !.content = c,
                                  !.target = p, !.heads = TRUE]]
             /\ head' = [head EXCEPT ![s] = c]
             /\ jobs' = [jobs EXCEPT ![s] =
                  [Supersede(s, {"Complete"}) EXCEPT ![epoch] =
                     IF p = NoProfile THEN NoJob
                     ELSE [NoJob EXCEPT !.state = "Queued", !.profile = p]]]
        ELSE source' = [source EXCEPT ![s] = flagged] /\ UNCHANGED <<head, jobs>>
     /\ UNCHANGED <<accepted, generations, chunks, worker>>

\* put by an instance configured with profile p.  Reusing the current version
\* for other content raises "conflict" and aborts: no step.
Put(s, v, c, f, p) ==
  LET old == source[s]
      flagged == [old EXCEPT !.eligible = f.eligible, !.shown = f.shown, !.expires = f.expires]
      changed == \/ old.version # v \/ old.content # c \/ old.target # p
                 \/ old.epoch = 0 \/ ~old.heads
      epoch == old.epoch + 1
  IN /\ old.epoch = 0 \/ old.version # v \/ old.content = c
     /\ \/ /\ ~changed
           /\ source' = [source EXCEPT ![s] = flagged]
           /\ UNCHANGED <<head, jobs>>
        \/ /\ changed /\ epoch \in Epochs
           /\ source' = [source EXCEPT ![s] =
                [flagged EXCEPT !.epoch = epoch, !.version = v, !.content = c,
                                !.target = p, !.heads = TRUE]]
           /\ head' = [head EXCEPT ![s] = c]
           /\ jobs' = [jobs EXCEPT ![s] =
                [Supersede(s, {"Complete"}) EXCEPT ![epoch] =
                   IF p = NoProfile THEN NoJob
                   ELSE [NoJob EXCEPT !.state = "Queued", !.profile = p]]]
     /\ UNCHANGED <<accepted, generations, chunks, worker>>

\* Mutant of Remove: hides the source but leaves its publication.
RemoveKeepingPublication(s) ==
  /\ source[s].epoch + 1 \in Epochs \ {1}
  /\ jobs' = [jobs EXCEPT ![s] = Supersede(s, {})]
  /\ source' = [source EXCEPT ![s] =
       [@ EXCEPT !.eligible = FALSE, !.shown = FALSE, !.epoch = @ + 1, !.heads = FALSE]]
  /\ head' = [head EXCEPT ![s] = <<>>]
  /\ UNCHANGED <<accepted, generations, chunks, worker>>

Remove(s) ==
  LET epoch == source[s].epoch + 1 IN
  /\ source[s].epoch > 0 /\ epoch \in Epochs
  /\ jobs' = [jobs EXCEPT ![s] = Supersede(s, {})]
  /\ source' = [source EXCEPT ![s] =
       [@ EXCEPT !.eligible = FALSE, !.shown = FALSE, !.epoch = epoch,
                 !.published = 0, !.heads = FALSE]]
  /\ chunks' = [chunks EXCEPT ![s] = NoChunks]
  /\ head' = [head EXCEPT ![s] = <<>>]
  /\ UNCHANGED <<accepted, generations, worker>>

\* Mutant of MigrateModelIdentities: does not wait for legacy workers.
MigrateUnderLiveLeases(q, approved) ==
  LET label(p) == IF p \in approved THEN q ELSE p IN
  /\ approved # {} /\ \A p \in approved : p # q /\ Canonical[p] = q
  /\ source' = [s \in Sources |-> [source[s] EXCEPT !.target = label(@)]]
  /\ jobs' = [s \in Sources |-> [e \in Epochs |-> [jobs[s][e] EXCEPT !.profile = label(@)]]]
  /\ UNCHANGED <<head, accepted, generations, chunks, worker>>

\* Relabels everything of the approved legacy profiles as the one canonical
\* profile of this instance; refused while a legacy worker holds a live lease.
MigrateModelIdentities(q, approved) ==
  LET label(p) == IF p \in approved THEN q ELSE p IN
  /\ approved # {} /\ \A p \in approved : p # q /\ Canonical[p] = q
  /\ \A s \in Sources, e \in Epochs :
       LET j == jobs[s][e] IN j.profile \in approved => j.state # "Running" \/ j.lease = 0
  /\ source' = [s \in Sources |-> [source[s] EXCEPT !.target = label(@)]]
  /\ jobs' = [s \in Sources |-> [e \in Epochs |-> [jobs[s][e] EXCEPT !.profile = label(@)]]]
  /\ generations' = [s \in Sources |->
       [i \in DOMAIN generations[s] |-> [generations[s][i] EXCEPT !.profile = label(@)]]]
  /\ chunks' = [s \in Sources |->
       [i \in DOMAIN chunks[s] |-> [chunks[s][i] EXCEPT !.profile = label(@)]]]
  /\ UNCHANGED <<head, accepted, worker>>

-----------------------------------------------------------------------------
(* Claims *)

\* Mutant of LeaseLapsed: reclaims any running job.
AnyRunning(j) == j.state = "Running"

LeaseLapsed(j) == j.state = "Running" /\ j.lease = 0

\* The job of the source's current epoch, when it was queued for the target p.
CurrentJob(s, p) ==
  {e \in Epochs : e = source[s].epoch /\ source[s].target = p /\ jobs[s][e].profile = p}

\* Mutant of Exhausted: no recovery of a crash during the last attempt.
NeverExhausted(p) == {}

\* Neither eligibility nor expiry is asked of a job that ran out of attempts.
Exhausted(p) ==
  {s \in Sources : \E e \in CurrentJob(s, p) :
     LeaseLapsed(jobs[s][e]) /\ jobs[s][e].attempts >= AttemptLimit}

\* Mutant of Claimable: unbounded retries.
ClaimableForever(p) ==
  {s \in Sources : \E e \in CurrentJob(s, p) :
     /\ source[s].eligible /\ source[s].expires # "past"
     /\ jobs[s][e].state = "Queued" \/ LeaseLapsed(jobs[s][e])}

Claimable(p) ==
  {s \in Sources : \E e \in CurrentJob(s, p) :
     /\ source[s].eligible /\ source[s].expires # "past"
     /\ jobs[s][e].attempts < AttemptLimit
     /\ jobs[s][e].state = "Queued" \/ LeaseLapsed(jobs[s][e])}

\* Crash recovery of a last attempt: a job is never left Running for ever.
FailExhausted(p, locked) ==
  [s \in Sources |-> [e \in Epochs |->
     IF /\ s \in Exhausted(p) \ locked
        /\ LeaseLapsed(jobs[s][e]) /\ jobs[s][e].attempts >= AttemptLimit
        /\ jobs[s][e].profile = p
     THEN [jobs[s][e] EXCEPT !.state = "Failed", !.fence = @ + 1, !.lease = 0]
     ELSE jobs[s][e]]]

TakeJob(j) ==
  [j EXCEPT !.state = "Running", !.attempts = @ + 1, !.fence = @ + 1, !.lease = LeaseTicks]

\* claim by an instance configured with profile p.  "locked" are the rows that
\* SKIP LOCKED passes over because a concurrent transaction holds them.
Claim(w, p, locked) ==
  LET swept == FailExhausted(p, locked) IN
  /\ worker[w].pc = "idle"
  /\ \/ \E s \in Claimable(p) \ locked :
          LET e == source[s].epoch IN
          /\ jobs' = [swept EXCEPT ![s][e] = TakeJob(@)]
          /\ worker' = [worker EXCEPT ![w] =
               [pc |-> IF head[s] = <<>> THEN "publish" ELSE "check",
                first |-> 1, vectors |-> NoVectors,
                claim |-> [source |-> s, epoch |-> e, fence |-> swept[s][e].fence + 1,
                           profile |-> p, version |-> source[s].version, chunks |-> head[s]]]]
     \/ /\ Claimable(p) \ locked = {} /\ Exhausted(p) \ locked # {}
        /\ jobs' = swept
        /\ UNCHANGED worker
  /\ UNCHANGED <<source, head, accepted, generations, chunks>>

\* The source is still what was claimed, and visible to the indexer.
SourceIsClaimed(cl) ==
  LET s == source[cl.source] IN
  /\ s.epoch = cl.epoch /\ s.target = cl.profile /\ s.eligible
  /\ s.version = cl.version /\ s.content = cl.chunks

\* Mutant of Current: trusts the lease and not the fence.
CurrentUnfenced(cl) ==
  LET j == jobs[cl.source][cl.epoch] IN
  /\ SourceIsClaimed(cl) /\ source[cl.source].expires # "past"
  /\ j.state = "Running" /\ j.lease > 0 /\ j.profile = cl.profile

\* current: and its job still runs under the claim's fence and lease.
Current(cl) ==
  LET j == jobs[cl.source][cl.epoch] IN
  /\ SourceIsClaimed(cl) /\ source[cl.source].expires # "past"
  /\ j.state = "Running" /\ j.lease > 0
  /\ j.fence = cl.fence /\ j.profile = cl.profile

-----------------------------------------------------------------------------
(* IndexingWorker.process *)

Busy(w) == worker[w].pc # "idle"
WorkerHolds(w) == Busy(w) /\ Current(worker[w].claim)

\* The work is abandoned, with what it had embedded.
Fails(w) ==
  worker' = [worker EXCEPT ![w] = [@ EXCEPT !.pc = "failing", !.first = 1, !.vectors = NoVectors]]

Batch(w) ==
  {i \in Ordinals : /\ worker[w].first <= i /\ i < worker[w].first + BatchSize
                    /\ i <= Len(worker[w].claim.chunks)}

\* On to the next batch, or to publication after the last one.
NextBatch(w) ==
  LET next == worker[w].first + BatchSize IN
  worker' = [worker EXCEPT ![w] =
    [@ EXCEPT !.first = next, !.vectors = NoVectors,
              !.pc = IF next > Len(worker[w].claim.chunks) THEN "publish" ELSE "check"]]

\* Mutant of CheckBatch: embeds every batch anew.
CheckNothing(w) ==
  /\ worker[w].pc = "check"
  /\ IF Current(worker[w].claim) THEN worker' = [worker EXCEPT ![w].pc = "embed"] ELSE Fails(w)
  /\ UNCHANGED tables

\* accepted: a batch that an earlier claim of this job stored is not embedded again.
CheckBatch(w) ==
  LET cl == worker[w].claim IN
  /\ worker[w].pc = "check"
  /\ \/ /\ Current(cl)
        /\ \A i \in Batch(w) : accepted[cl.source][cl.epoch][i] # NoVector
        /\ NextBatch(w)
     \/ /\ Current(cl)
        /\ \E i \in Batch(w) : accepted[cl.source][cl.epoch][i] = NoVector
        /\ worker' = [worker EXCEPT ![w].pc = "embed"]
     \/ ~Current(cl) /\ Fails(w)
  /\ UNCHANGED tables

\* documents: the provider is called outside any transaction, and two calls for
\* one text may answer differently.
Embed(w, nonce) ==
  LET cl == worker[w].claim IN
  /\ worker[w].pc = "embed"
  /\ worker' = [worker EXCEPT ![w] = [@ EXCEPT !.pc = "accept", !.vectors =
       [i \in Ordinals |->
          IF i \in Batch(w)
          THEN [text |-> cl.chunks[i], space |-> Canonical[cl.profile], nonce |-> nonce]
          ELSE NoVector]]]
  /\ UNCHANGED tables

\* accept: ON CONFLICT DO NOTHING, then "accepted embedding batch changed" if
\* the stored vector is another one.
Accept(w) ==
  LET cl == worker[w].claim
      stored == accepted[cl.source][cl.epoch]
      conflict == \E i \in Batch(w) : stored[i] \notin {NoVector, worker[w].vectors[i]}
  IN /\ worker[w].pc = "accept"
     /\ IF Current(cl) /\ ~conflict
        THEN /\ accepted' = [accepted EXCEPT ![cl.source][cl.epoch] =
                  [i \in Ordinals |-> IF i \in Batch(w) THEN worker[w].vectors[i] ELSE stored[i]]]
             /\ NextBatch(w)
        ELSE Fails(w) /\ UNCHANGED accepted
     /\ UNCHANGED <<source, head, jobs, generations, chunks>>

Renew(w) ==
  LET cl == worker[w].claim IN
  /\ Busy(w) /\ worker[w].pc # "failing"
  /\ IF Current(cl)
     THEN /\ jobs' = [jobs EXCEPT ![cl.source][cl.epoch].lease = LeaseTicks]
          /\ UNCHANGED worker
     ELSE Fails(w) /\ UNCHANGED jobs
  /\ UNCHANGED <<source, head, accepted, generations, chunks>>

\* publish answers a caller that repeats it with the generation it already made.
AlreadyPublished(cl) ==
  LET j == jobs[cl.source][cl.epoch] IN
  SourceIsClaimed(cl) /\ j.fence = cl.fence /\ j.state = "Complete"

\* The count that guards against a partial generation.
AllAccepted(cl) ==
  Cardinality({i \in Ordinals : accepted[cl.source][cl.epoch][i] # NoVector}) = Len(cl.chunks)

\* Mutant of JoinedRows: the rows of the previous generation are not deleted.
JoinedRowsKeepingOld(cl, generation) ==
  [i \in DOMAIN head[cl.source] \cup DOMAIN chunks[cl.source] |->
     IF i \in DOMAIN head[cl.source]
     THEN [text |-> head[cl.source][i], vector |-> accepted[cl.source][cl.epoch][i],
           generation |-> generation, profile |-> cl.profile]
     ELSE chunks[cl.source][i]]

\* head_chunks JOIN accepted ON ordinal
JoinedRows(cl, generation) ==
  [i \in {n \in DOMAIN head[cl.source] : accepted[cl.source][cl.epoch][n] # NoVector} |->
     [text |-> head[cl.source][i], vector |-> accepted[cl.source][cl.epoch][i],
      generation |-> generation, profile |-> cl.profile]]

\* publish.  Its reply, unlike that of the other calls, ends the work: "lost"
\* is a commit whose caller saw an error.
Publish(w, lost) ==
  LET cl == worker[w].claim
      generation == Len(generations[cl.source]) + 1
      ends == IF lost THEN Fails(w) ELSE worker' = [worker EXCEPT ![w] = Idle]
  IN /\ worker[w].pc = "publish"
     /\ IF AlreadyPublished(cl) THEN ends /\ UNCHANGED tables
        ELSE IF Current(cl) /\ AllAccepted(cl)
        THEN /\ generations' = [generations EXCEPT ![cl.source] =
                  Append(@, [version |-> cl.version, profile |-> cl.profile])]
             /\ chunks' = [chunks EXCEPT ![cl.source] = JoinedRows(cl, generation)]
             /\ source' = [source EXCEPT ![cl.source].published = generation]
             /\ jobs' = [jobs EXCEPT ![cl.source][cl.epoch] =
                  [@ EXCEPT !.state = "Complete", !.lease = 0]]
             /\ UNCHANGED <<head, accepted>>
             /\ ends
        ELSE Fails(w) /\ UNCHANGED tables

\* guaranteeCase: any other outcome than success releases the job, if it still can.
Fail(w) ==
  LET cl == worker[w].claim
      last == jobs[cl.source][cl.epoch].attempts >= AttemptLimit
  IN
  /\ worker[w].pc = "failing"
  /\ jobs' = IF Current(cl)
             THEN [jobs EXCEPT ![cl.source][cl.epoch] =
                     [@ EXCEPT !.state = IF last THEN "Failed" ELSE "Queued", !.lease = 0]]
             ELSE jobs
  /\ worker' = [worker EXCEPT ![w] = Idle]
  /\ UNCHANGED <<source, head, accepted, generations, chunks>>

\* The provider or a transaction fails, or the fiber is cancelled.
WorkerError(w) == Busy(w) /\ worker[w].pc # "failing" /\ Fails(w) /\ UNCHANGED tables

\* The process dies, or its fail transaction does.
WorkerCrash(w) == Busy(w) /\ worker' = [worker EXCEPT ![w] = Idle] /\ UNCHANGED tables

-----------------------------------------------------------------------------
(* The clock.  Only the lease of a Running job is ever read. *)

LeaseTick(s, e) ==
  /\ jobs[s][e].state = "Running" /\ jobs[s][e].lease > 0
  /\ jobs' = [jobs EXCEPT ![s][e].lease = @ - 1]
  /\ UNCHANGED <<source, head, accepted, generations, chunks, worker>>

SourceExpires(s) ==
  /\ source[s].expires = "future"
  /\ source' = [source EXCEPT ![s].expires = "past"]
  /\ UNCHANGED <<head, jobs, accepted, generations, chunks, worker>>

-----------------------------------------------------------------------------
Process(w) ==
  CheckBatch(w) \/ (\E n \in Nonces : Embed(w, n)) \/ Accept(w) \/ Fail(w)
    \/ (\E lost \in BOOLEAN : Publish(w, lost))

Next ==
  \/ \E s \in Sources, v \in Versions, c \in Contents, f \in Flags, p \in Targets :
       Put(s, v, c, f, p)
  \/ \E s \in Sources : Remove(s) \/ SourceExpires(s)
  \/ \E s \in Sources, e \in Epochs : LeaseTick(s, e)
  \/ \E q \in Profiles, approved \in SUBSET Profiles : MigrateModelIdentities(q, approved)
  \/ \E w \in Workers, p \in Profiles, locked \in SUBSET Sources : Claim(w, p, locked)
  \/ \E w \in Workers : Process(w) \/ Renew(w) \/ WorkerError(w) \/ WorkerCrash(w)

Spec == Init /\ [][Next]_vars

\* A lease runs out once nobody can renew it.
OrphanTick(s, e) ==
  LeaseTick(s, e) /\ \A w \in Workers : ~(WorkerHolds(w) /\ worker[w].claim.source = s)

\* The clock runs; IndexingWorker.run polls for ever; the provider and the
\* database answer or fail within their timeouts.
FairSpec ==
  /\ Spec
  /\ \A s \in Sources, e \in Epochs : WF_vars(OrphanTick(s, e))
  /\ \A p \in Profiles : WF_vars(\E w \in Workers : Claim(w, p, {}))
  /\ \A w \in Workers : WF_vars(Process(w))

-----------------------------------------------------------------------------
(* search and visible *)

\* authorization: one principal's view.
Visible(s) == source[s].eligible /\ source[s].shown /\ source[s].expires # "past"

\* Mutant of SemanticReady: any publication will do.
SemanticReadyForAny(p) == \A s \in Sources : Visible(s) => source[s].published # 0

\* plan, semantic, by an instance with profile p: unavailable as soon as one
\* visible source is unpublished or published for another profile.
SemanticReady(p) ==
  \A s \in Sources : Visible(s) =>
    /\ source[s].published # 0
    /\ generations[s][source[s].published].profile = p

\* The rows a leg may take its candidates from: its WHERE clause.
SemanticCandidates(p) ==
  UNION {{[source |-> s, version |-> generations[s][chunks[s][i].generation].version,
           ordinal |-> i, text |-> chunks[s][i].text, vector |-> chunks[s][i].vector] :
            i \in {n \in DOMAIN chunks[s] : /\ chunks[s][n].profile = p
                                            /\ chunks[s][n].generation = source[s].published}} :
         s \in {x \in Sources : Visible(x)}}

RetrievalModes == {"Semantic", "Hybrid"}
rankingLimit(mode) == IF mode = "Hybrid" THEN 2 * candidatesPerLeg ELSE candidatesPerLeg

\* search: every answer the legs can lead to.  The vector index is approximate, so
\* a leg is any candidatesPerLeg rows at most; the reranking keeps one per source.
SemanticAnswers(p, mode) ==
  {answer \in SUBSET SemanticCandidates(p) :
     /\ Cardinality(answer) <= rankingLimit(mode)
     /\ \A x, y \in answer : x.source = y.source => x = y}

-----------------------------------------------------------------------------
(* Properties *)

\* Fencing: two workers never hold the same source at once, however leases
\* lapse, are renewed or are reclaimed.
OneHolder ==
  \A v, w \in Workers : v # w /\ WorkerHolds(v) /\ WorkerHolds(w) =>
    worker[v].claim.source # worker[w].claim.source

\* A worker that may still store its batch finds none of it stored: the provider
\* answering differently on a repeated call never makes accept raise "accepted
\* embedding batch changed".
AcceptNeverConflicts ==
  \A w \in Workers : WorkerHolds(w) /\ worker[w].pc = "accept" =>
    LET cl == worker[w].claim IN
    \A i \in Batch(w) : accepted[cl.source][cl.epoch][i] = NoVector

\* What is published is one unbroken generation: rows 1..n, all of the published
\* generation and its profile, each with the vector of its own text in the
\* embedding space of that profile; an unpublished source has no rows.
PublishedIsWhole ==
  \A s \in Sources :
    LET g == source[s].published IN
    /\ g \in 0..Len(generations[s])
    /\ g = 0 => DOMAIN chunks[s] = {}
    /\ g # 0 => \E n \in 0..MaxChunks :
         /\ DOMAIN chunks[s] = 1..n
         /\ \A i \in 1..n :
              LET row == chunks[s][i] IN
              /\ row.generation = g /\ row.profile = generations[s][g].profile
              /\ row.vector.text = row.text
              /\ row.vector.space = Canonical[generations[s][g].profile]

\* No eligible source is stranded: the job of its current epoch exists for its
\* target, and once Complete the publication is the whole current head.
NotStranded ==
  \A s \in Sources : source[s].eligible /\ source[s].target # NoProfile =>
    LET row == source[s]
        job == jobs[s][row.epoch]
    IN /\ row.heads /\ row.content = head[s]
       /\ job.profile = row.target
       /\ job.state \in {"Queued", "Running", "Failed", "Complete"}
       /\ job.state = "Complete" =>
            /\ row.published # 0
            /\ generations[s][row.published] = [version |-> row.version, profile |-> row.target]
            /\ DOMAIN chunks[s] = DOMAIN head[s]
            /\ \A i \in DOMAIN head[s] : chunks[s][i].text = head[s][i]

\* A semantic answer is never a mixture: when search does not report "unavailable",
\* whichever rows its candidate window let through, each is of the published
\* version, with the vector of its own text in the embedding space of the query's
\* profile; and no published row of a visible source is out of the window's reach.
SemanticSearchSound ==
  \A p \in Profiles : SemanticReady(p) =>
    /\ \A mode \in RetrievalModes : \A answer \in SemanticAnswers(p, mode) : \A hit \in answer :
         /\ hit.version = generations[hit.source][source[hit.source].published].version
         /\ hit.vector.space = Canonical[p] /\ hit.vector.text = hit.text
    /\ \A s \in Sources : Visible(s) =>
         {hit.ordinal : hit \in {h \in SemanticCandidates(p) : h.source = s}} = DOMAIN chunks[s]

\* A claim whose lease lives is lost only to the application (rewrite, removal,
\* expiry): neither another claim nor an identity migration takes it away.
LiveClaimsAreNotStolen ==
  [][\A w \in Workers :
       LET cl == worker[w].claim IN
       /\ WorkerHolds(w) /\ worker'[w] = worker[w]
       /\ source'[cl.source].epoch = cl.epoch /\ source'[cl.source].eligible
       /\ source'[cl.source].expires # "past"
       /\ jobs'[cl.source][cl.epoch].lease > 0
       => WorkerHolds(w)']_vars

\* A source that stays eligible is finally published or given up: crashes, lost
\* leases and failing providers never leave its job Queued or Running for ever.
EventuallySettled ==
  \A s \in Sources :
    []<>(~ /\ source[s].eligible /\ source[s].target # NoProfile /\ source[s].expires # "past"
           /\ jobs[s][source[s].epoch].state \in {"Queued", "Running"})
=============================================================================
