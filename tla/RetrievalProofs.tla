--------------------------- MODULE RetrievalProofs ---------------------------
(***************************************************************************)
(* Proofs about the fenced index, for any number of sources, workers,      *)
(* epochs, profiles and chunk lists.                                       *)
(***************************************************************************)
EXTENDS Retrieval, TLAPS

\* A source that was ever written has a version, so a claim carries one.
WrittenHasVersion == \A s \in Sources : source[s].epoch # 0 => source[s].version \in Versions

\* A claim is of the present or the past of its source.
ClaimsAreNotAhead ==
  \A w \in Workers : Busy(w) => worker[w].claim.epoch <= source[worker[w].claim.source].epoch

\* A fence counts the claims and revocations of a job: no claim is ahead of it.
FencesBoundClaims ==
  \A w \in Workers : Busy(w) =>
    worker[w].claim.fence <= jobs[worker[w].claim.source][worker[w].claim.epoch].fence

\* No fence was ever handed to two workers.
FencesAreUnique ==
  \A v, w \in Workers :
    /\ v # w /\ Busy(v) /\ Busy(w)
    /\ worker[v].claim.source = worker[w].claim.source
    /\ worker[v].claim.epoch = worker[w].claim.epoch
    => worker[v].claim.fence # worker[w].claim.fence

TypeInv == TypeOK /\ WrittenHasVersion
FenceInv == ClaimsAreNotAhead /\ FencesBoundClaims /\ FencesAreUnique

-----------------------------------------------------------------------------
(* Rows *)

\* Null rows, and what every write of a job row leaves in its table.
LEMMA NullRows ==
  /\ NoJob \in JobRow
  /\ NoVectors \in [Ordinals -> Vector \cup {NoVector}]
  /\ <<>> \in Contents
  /\ NoRow \in SourceRow
  <1> USE RetrievalAssumption
  <1>1. NoJob \in JobRow
    BY DEF NoJob, JobRow, JobStates, Targets
  <1>2. NoVectors \in [Ordinals -> Vector \cup {NoVector}]
    BY DEF NoVectors
  <1>3. NoRow \in SourceRow
    BY DEF NoRow, SourceRow, Targets, Expiry
  <1> QED
    BY <1>1, <1>2, <1>3

\* Whatever fields of a job row an UPDATE assigns, the row keeps its type.
LEMMA JobFields ==
  ASSUME NEW j \in JobRow, NEW state \in JobStates, NEW fence \in Nat,
         NEW attempts \in 0..AttemptLimit, NEW lease \in 0..LeaseTicks, NEW profile \in Targets
  PROVE  /\ [j EXCEPT !.state = state, !.fence = fence] \in JobRow
         /\ [j EXCEPT !.state = state, !.fence = fence, !.lease = lease] \in JobRow
         /\ [j EXCEPT !.state = state, !.attempts = attempts, !.fence = fence, !.lease = lease] \in JobRow
         /\ [j EXCEPT !.state = state, !.lease = lease] \in JobRow
         /\ [j EXCEPT !.state = state, !.profile = profile] \in JobRow
         /\ [j EXCEPT !.lease = lease] \in JobRow
         /\ [j EXCEPT !.profile = profile] \in JobRow
  BY DEF JobRow

\* Supersede, FailExhausted and TakeJob count the fence up.
LEMMA JobFences ==
  ASSUME NEW j \in JobRow
  PROVE  /\ [j EXCEPT !.state = "Superseded", !.fence = @ + 1] \in JobRow
         /\ [j EXCEPT !.state = "Failed", !.fence = @ + 1, !.lease = 0] \in JobRow
         /\ j.attempts < AttemptLimit => TakeJob(j) \in JobRow
         /\ [j EXCEPT !.state = "Superseded", !.fence = @ + 1].fence = j.fence + 1
         /\ [j EXCEPT !.state = "Failed", !.fence = @ + 1, !.lease = 0].fence = j.fence + 1
         /\ TakeJob(j).fence = j.fence + 1
  <1> DEFINE n == j.fence + 1
             a == j.attempts + 1
  <1>1. n \in Nat /\ (j.attempts < AttemptLimit => a \in 0..AttemptLimit)
    BY RetrievalAssumption DEF JobRow
  <1>2. {"Superseded", "Failed", "Running"} \subseteq JobStates
    BY DEF JobStates
  <1>3. 0 \in 0..LeaseTicks /\ LeaseTicks \in 0..LeaseTicks
    BY RetrievalAssumption
  <1> HIDE DEF n, a
  <1>4. [j EXCEPT !.state = "Superseded", !.fence = n] \in JobRow
    BY <1>1, <1>2, <1>3 DEF JobRow
  <1>5. [j EXCEPT !.state = "Failed", !.fence = n, !.lease = 0] \in JobRow
    BY <1>1, <1>2, <1>3 DEF JobRow
  <1>6. j.attempts < AttemptLimit =>
          [j EXCEPT !.state = "Running", !.attempts = a, !.fence = n, !.lease = LeaseTicks] \in JobRow
    BY <1>1, <1>2, <1>3 DEF JobRow
  <1>7. [j EXCEPT !.state = "Superseded", !.fence = @ + 1] = [j EXCEPT !.state = "Superseded", !.fence = n]
    BY DEF n, JobRow
  <1>8. [j EXCEPT !.state = "Failed", !.fence = @ + 1, !.lease = 0]
        = [j EXCEPT !.state = "Failed", !.fence = n, !.lease = 0]
    BY DEF n, JobRow
  <1>9. TakeJob(j) = [j EXCEPT !.state = "Running", !.attempts = a, !.fence = n, !.lease = LeaseTicks]
    BY DEF n, a, JobRow, TakeJob
  <1>10. /\ [j EXCEPT !.state = "Superseded", !.fence = n].fence = n
         /\ [j EXCEPT !.state = "Failed", !.fence = n, !.lease = 0].fence = n
         /\ [j EXCEPT !.state = "Running", !.attempts = a, !.fence = n, !.lease = LeaseTicks].fence = n
    BY DEF JobRow
  <1> QED
    BY <1>4, <1>5, <1>6, <1>7, <1>8, <1>9, <1>10 DEF n

\* A worker in its work is not the idle one.
LEMMA BusyIsWorking ==
  ASSUME TypeOK, NEW w \in Workers, Busy(w)
  PROVE  worker[w] \in Working
  BY DEF TypeOK, Busy, Idle

\* A worker keeps its claim, and its type, as it moves through process.
LEMMA WorkerMoves ==
  ASSUME NEW r \in Working, NEW pc \in Steps \ {"idle"}, NEW n \in Nat \ {0},
         NEW vectors \in [Ordinals -> Vector \cup {NoVector}]
  PROVE  /\ [r EXCEPT !.pc = pc, !.first = n, !.vectors = vectors] \in Working
         /\ [r EXCEPT !.first = n, !.vectors = vectors, !.pc = pc] \in Working
         /\ [r EXCEPT !.pc = pc, !.vectors = vectors] \in Working
         /\ [r EXCEPT !.pc = pc] \in Working
  BY DEF Working

\* Abandoning the work leaves a well-typed fiber.
LEMMA FailsKeepsType ==
  ASSUME TypeOK, NEW w \in Workers, Busy(w), Fails(w)
  PROVE  worker' \in [Workers -> Working \cup {Idle}]
  <1>1. worker[w] \in Working
    BY BusyIsWorking
  <1>2. "failing" \in Steps \ {"idle"} /\ 1 \in Nat \ {0}
    BY DEF Steps
  <1>3. [worker[w] EXCEPT !.pc = "failing", !.first = 1, !.vectors = NoVectors] \in Working
    BY <1>1, <1>2, NullRows, WorkerMoves
  <1> QED
    BY <1>3 DEF Fails, TypeOK

\* So does moving on to the next batch or to publication.
LEMMA NextBatchKeepsType ==
  ASSUME TypeOK, NEW w \in Workers, Busy(w), NextBatch(w)
  PROVE  worker' \in [Workers -> Working \cup {Idle}]
  <1>1. worker[w] \in Working
    BY BusyIsWorking
  <1> DEFINE next == worker[w].first + BatchSize
             pc == IF next > Len(worker[w].claim.chunks) THEN "publish" ELSE "check"
  <1>2. next \in Nat \ {0} /\ pc \in Steps \ {"idle"}
    BY <1>1, RetrievalAssumption DEF Working, Steps
  <1> HIDE DEF next, pc
  <1>3. [worker[w] EXCEPT !.first = next, !.vectors = NoVectors, !.pc = pc] \in Working
    BY <1>1, <1>2, NullRows, WorkerMoves
  <1> QED
    BY <1>3 DEF NextBatch, TypeOK, next, pc

-----------------------------------------------------------------------------
(* Type correctness *)

\* Empty tables and idle workers are well-typed.
LEMMA TypeInvInit == Init => TypeInv
  <1> SUFFICES ASSUME Init PROVE TypeInv
    OBVIOUS
  <1>1. /\ source \in [Sources -> SourceRow]
        /\ head \in [Sources -> Contents]
        /\ jobs \in [Sources -> [Epochs -> JobRow]]
        /\ accepted \in [Sources -> [Epochs -> [Ordinals -> Vector \cup {NoVector}]]]
        /\ worker \in [Workers -> Working \cup {Idle}]
    BY NullRows DEF Init
  <1>2. generations \in [Sources -> Seq(GenerationRow)]
    BY DEF Init
  <1>3. DOMAIN chunks = Sources /\ \A s \in Sources : chunks[s] \in [{} -> ChunkRow]
    BY DEF Init, NoChunks
  <1>4. WrittenHasVersion
    BY DEF Init, WrittenHasVersion, NoRow
  <1> QED
    BY <1>1, <1>2, <1>3, <1>4 DEF TypeInv, TypeOK

\* The UPDATE that supersedes the jobs of a source keeps their type.
LEMMA SupersedeType ==
  ASSUME TypeOK, NEW s \in Sources, NEW spared
  PROVE  Supersede(s, spared) \in [Epochs -> JobRow]
  <1> SUFFICES ASSUME NEW e \in Epochs
               PROVE  Supersede(s, spared)[e] \in JobRow
    BY DEF Supersede
  <1>1. jobs[s][e] \in JobRow
    BY DEF TypeOK
  <1>2. [jobs[s][e] EXCEPT !.state = "Superseded", !.fence = @ + 1] \in JobRow
    BY <1>1, JobFences
  <1> QED
    BY <1>1, <1>2 DEF Supersede

\* put keeps the types, whichever of its two branches it takes.
LEMMA PutKeepsType ==
  ASSUME TypeInv, NEW s \in Sources, NEW v \in Versions, NEW c \in Contents, NEW f \in Flags,
         NEW p \in Targets, Put(s, v, c, f, p)
  PROVE  TypeInv'
  <1> DEFINE old == source[s]
             flagged == [old EXCEPT !.eligible = f.eligible, !.shown = f.shown, !.expires = f.expires]
             epoch == old.epoch + 1
             changed == \/ old.version # v \/ old.content # c \/ old.target # p
                        \/ old.epoch = 0 \/ ~old.heads
  <1>1. old \in SourceRow
    BY DEF TypeInv, TypeOK
  <1>2. f \in [eligible: BOOLEAN, shown: BOOLEAN, expires: Expiry]
    BY RetrievalAssumption
  <1>3. flagged \in SourceRow
    BY <1>1, <1>2 DEF SourceRow
  <1>4. flagged.version = old.version /\ flagged.epoch = old.epoch
    BY <1>1 DEF SourceRow
  <1>5. CASE ~changed
    <2>1. source' = [source EXCEPT ![s] = flagged] /\ UNCHANGED <<head, jobs, accepted, generations, chunks, worker>>
      BY <1>5 DEF Put
    <2>2. TypeOK'
      BY <1>3, <2>1 DEF TypeInv, TypeOK
    <2>3. WrittenHasVersion'
      BY <1>4, <2>1 DEF TypeInv, TypeOK, WrittenHasVersion
    <2> QED
      BY <2>2, <2>3 DEF TypeInv
  <1>6. CASE changed
    <2> DEFINE row == [flagged EXCEPT !.epoch = epoch, !.version = v, !.content = c, !.target = p, !.heads = TRUE]
               job == IF p = NoProfile THEN NoJob ELSE [NoJob EXCEPT !.state = "Queued", !.profile = p]
    <2>1. /\ epoch \in Epochs
          /\ source' = [source EXCEPT ![s] = row]
          /\ head' = [head EXCEPT ![s] = c]
          /\ jobs' = [jobs EXCEPT ![s] = [Supersede(s, {"Complete"}) EXCEPT ![epoch] = job]]
          /\ UNCHANGED <<accepted, generations, chunks, worker>>
      BY <1>6 DEF Put
    <2>2. row \in SourceRow /\ row.version = v
      <3>1. epoch \in 0..MaxEpoch
        BY <2>1, RetrievalAssumption DEF Epochs
      <3> HIDE DEF flagged, epoch
      <3> QED
        BY <1>3, <3>1 DEF SourceRow
    <2>3. job \in JobRow
      BY NullRows, JobFields, ZenonT(60) DEF NoJob, JobStates, JobRow
    <2> HIDE DEF row, job, epoch, flagged
    <2>4. Supersede(s, {"Complete"}) \in [Epochs -> JobRow]
      BY SupersedeType DEF TypeInv
    <2>5. jobs' \in [Sources -> [Epochs -> JobRow]]
      BY <2>1, <2>3, <2>4 DEF TypeInv, TypeOK
    <2>6. source' \in [Sources -> SourceRow] /\ head' \in [Sources -> Contents]
      BY <2>1, <2>2 DEF TypeInv, TypeOK
    <2>7. TypeOK'
      BY <2>1, <2>5, <2>6 DEF TypeInv, TypeOK
    <2>8. WrittenHasVersion'
      BY <2>1, <2>2 DEF TypeInv, TypeOK, WrittenHasVersion
    <2> QED
      BY <2>7, <2>8 DEF TypeInv
  <1> QED
    BY <1>5, <1>6

\* remove keeps the types.
LEMMA RemoveKeepsType ==
  ASSUME TypeInv, NEW s \in Sources, Remove(s)
  PROVE  TypeInv'
  <1> DEFINE epoch == source[s].epoch + 1
             row == [source[s] EXCEPT !.eligible = FALSE, !.shown = FALSE, !.epoch = epoch,
                                      !.published = 0, !.heads = FALSE]
  <1>1. source[s] \in SourceRow /\ source[s].epoch # 0
    BY DEF TypeInv, TypeOK, Remove, SourceRow
  <1>2. epoch \in 0..MaxEpoch
    BY RetrievalAssumption DEF Remove, Epochs
  <1>3. /\ source' = [source EXCEPT ![s] = row]
        /\ head' = [head EXCEPT ![s] = <<>>]
        /\ jobs' = [jobs EXCEPT ![s] = Supersede(s, {})]
        /\ chunks' = [chunks EXCEPT ![s] = NoChunks]
        /\ UNCHANGED <<accepted, generations, worker>>
    BY DEF Remove
  <1> HIDE DEF epoch
  <1>4. row \in SourceRow /\ row.version = source[s].version
    BY <1>1, <1>2 DEF SourceRow
  <1> HIDE DEF row
  <1>5. Supersede(s, {}) \in [Epochs -> JobRow]
    BY SupersedeType DEF TypeInv
  <1>6. source' \in [Sources -> SourceRow] /\ head' \in [Sources -> Contents]
        /\ jobs' \in [Sources -> [Epochs -> JobRow]]
    BY <1>3, <1>4, <1>5, NullRows DEF TypeInv, TypeOK
  <1>7. DOMAIN chunks' = Sources /\ \A t \in Sources : \E D \in SUBSET Ordinals : chunks'[t] \in [D -> ChunkRow]
    <2>1. NoChunks \in [{} -> ChunkRow] /\ {} \in SUBSET Ordinals
      BY DEF NoChunks
    <2> QED
      BY <1>3, <2>1 DEF TypeInv, TypeOK
  <1>8. TypeOK'
    BY <1>3, <1>6, <1>7 DEF TypeInv, TypeOK
  <1>9. WrittenHasVersion'
    BY <1>1, <1>3, <1>4 DEF TypeInv, TypeOK, WrittenHasVersion
  <1> QED
    BY <1>8, <1>9 DEF TypeInv

\* Relabelling legacy profiles keeps the types of all four tables.
LEMMA MigrateKeepsType ==
  ASSUME TypeInv, NEW q \in Profiles, NEW approved \in SUBSET Profiles,
         MigrateModelIdentities(q, approved)
  PROVE  TypeInv'
  <1> DEFINE label(p) == IF p \in approved THEN q ELSE p
  <1>1. /\ source' = [s \in Sources |-> [source[s] EXCEPT !.target = label(@)]]
        /\ jobs' = [s \in Sources |-> [e \in Epochs |-> [jobs[s][e] EXCEPT !.profile = label(@)]]]
        /\ generations' = [s \in Sources |->
             [i \in DOMAIN generations[s] |-> [generations[s][i] EXCEPT !.profile = label(@)]]]
        /\ chunks' = [s \in Sources |->
             [i \in DOMAIN chunks[s] |-> [chunks[s][i] EXCEPT !.profile = label(@)]]]
        /\ UNCHANGED <<head, accepted, worker>>
    BY DEF MigrateModelIdentities
  <1>2. (\A p \in Targets : label(p) \in Targets) /\ (\A p \in Profiles : label(p) \in Profiles)
    BY DEF Targets
  <1>3. source' \in [Sources -> SourceRow] /\ \A s \in Sources : source'[s].version = source[s].version
                                                            /\ source'[s].epoch = source[s].epoch
    <2> SUFFICES ASSUME NEW s \in Sources
                 PROVE  /\ source'[s] \in SourceRow
                        /\ source'[s].version = source[s].version /\ source'[s].epoch = source[s].epoch
      BY <1>1
    <2> DEFINE t == label(source[s].target)
    <2>1. source[s] \in SourceRow
      BY DEF TypeInv, TypeOK
    <2>2. t \in Targets
      BY <1>2, <2>1 DEF SourceRow
    <2>3. source'[s] = [source[s] EXCEPT !.target = t]
      BY <1>1
    <2> HIDE DEF t
    <2> QED
      BY <2>1, <2>2, <2>3 DEF SourceRow
  <1>4. jobs' \in [Sources -> [Epochs -> JobRow]]
    <2> SUFFICES ASSUME NEW s \in Sources, NEW e \in Epochs
                 PROVE  jobs'[s][e] \in JobRow
      BY <1>1
    <2> DEFINE t == label(jobs[s][e].profile)
    <2>1. jobs[s][e] \in JobRow
      BY DEF TypeInv, TypeOK
    <2>2. t \in Targets
      BY <1>2, <2>1 DEF JobRow
    <2>3. jobs'[s][e] = [jobs[s][e] EXCEPT !.profile = t]
      BY <1>1
    <2> HIDE DEF t
    <2> QED
      BY <2>1, <2>2, <2>3 DEF JobRow
  <1>5. generations' \in [Sources -> Seq(GenerationRow)]
    <2> SUFFICES ASSUME NEW s \in Sources
                 PROVE  generations'[s] \in Seq(GenerationRow)
      BY <1>1
    <2>1. generations[s] \in Seq(GenerationRow)
      BY DEF TypeInv, TypeOK
    <2>2. ASSUME NEW i \in 1..Len(generations[s])
          PROVE  [generations[s][i] EXCEPT !.profile = label(@)] \in GenerationRow
      <3>1. generations[s][i] \in GenerationRow
        BY <2>1
      <3> DEFINE t == label(generations[s][i].profile)
      <3>2. t \in Profiles
        BY <1>2, <3>1 DEF GenerationRow
      <3> HIDE DEF t
      <3>3. [generations[s][i] EXCEPT !.profile = t] \in GenerationRow
        BY <3>1, <3>2 DEF GenerationRow
      <3> QED
        BY <3>3 DEF t
    <2>3. /\ DOMAIN generations[s] = 1..Len(generations[s]) /\ Len(generations[s]) \in Nat
      BY <2>1
    <2>4. generations'[s] \in [1..Len(generations[s]) -> GenerationRow]
      BY <1>1, <2>2, <2>3
    <2> QED
      BY <2>3, <2>4
  <1>6. DOMAIN chunks' = Sources /\ \A s \in Sources : \E D \in SUBSET Ordinals : chunks'[s] \in [D -> ChunkRow]
    <2>1. DOMAIN chunks' = Sources
      BY <1>1
    <2>2. ASSUME NEW s \in Sources PROVE \E D \in SUBSET Ordinals : chunks'[s] \in [D -> ChunkRow]
      <3>1. PICK D \in SUBSET Ordinals : chunks[s] \in [D -> ChunkRow]
        BY DEF TypeInv, TypeOK
      <3>2. ASSUME NEW i \in D PROVE [chunks[s][i] EXCEPT !.profile = label(@)] \in ChunkRow
        <4>1. chunks[s][i] \in ChunkRow
          BY <3>1
        <4> DEFINE t == label(chunks[s][i].profile)
        <4>2. t \in Profiles
          BY <1>2, <4>1 DEF ChunkRow
        <4> HIDE DEF t
        <4>3. [chunks[s][i] EXCEPT !.profile = t] \in ChunkRow
          BY <4>1, <4>2 DEF ChunkRow
        <4> QED
          BY <4>3 DEF t
      <3>3. chunks'[s] \in [D -> ChunkRow]
        BY <1>1, <3>1, <3>2
      <3> QED
        BY <3>3
    <2> QED
      BY <2>1, <2>2
  <1>7. TypeOK'
    BY <1>1, <1>3, <1>4, <1>5, <1>6 DEF TypeInv, TypeOK
  <1>8. WrittenHasVersion'
    BY <1>3 DEF TypeInv, WrittenHasVersion
  <1> QED
    BY <1>7, <1>8 DEF TypeInv

\* What the sweep of exhausted jobs leaves behind: it revokes, and leaves every
\* job that may still be claimed as it was.
LEMMA SweepType ==
  ASSUME TypeOK, NEW p \in Profiles, NEW locked \in SUBSET Sources
  PROVE  /\ FailExhausted(p, locked) \in [Sources -> [Epochs -> JobRow]]
         /\ \A s \in Sources, e \in Epochs :
              /\ FailExhausted(p, locked)[s][e].fence >= jobs[s][e].fence
              /\ jobs[s][e].attempts < AttemptLimit => FailExhausted(p, locked)[s][e] = jobs[s][e]
  <1> DEFINE swept == FailExhausted(p, locked)
  <1>1. ASSUME NEW s \in Sources, NEW e \in Epochs
        PROVE  /\ swept[s][e] \in JobRow
               /\ swept[s][e].fence >= jobs[s][e].fence
               /\ jobs[s][e].attempts < AttemptLimit => swept[s][e] = jobs[s][e]
    <2> DEFINE j == jobs[s][e]
               failed == [j EXCEPT !.state = "Failed", !.fence = @ + 1, !.lease = 0]
    <2>1. j \in JobRow
      BY DEF TypeOK
    <2>2. j.fence \in Nat /\ j.attempts \in Nat
      BY <2>1 DEF JobRow
    <2>3. failed \in JobRow /\ failed.fence = j.fence + 1
      BY <2>1, JobFences
    <2>4. swept[s][e] = j \/ (j.attempts >= AttemptLimit /\ swept[s][e] = failed)
      BY DEF FailExhausted
    <2> HIDE DEF j, failed, swept
    <2> QED
      BY <2>1, <2>2, <2>3, <2>4, RetrievalAssumption DEF j
  <1>2. swept \in [Sources -> [Epochs -> JobRow]]
    BY <1>1 DEF FailExhausted
  <1> QED
    BY <1>1, <1>2

\* A claimable job is that of the current epoch, with an attempt left, and the
\* sweep does not touch it.
LEMMA ClaimableJob ==
  ASSUME TypeOK, NEW p \in Profiles, NEW locked \in SUBSET Sources, NEW s \in Claimable(p)
  PROVE  /\ s \in Sources /\ source[s].epoch \in Epochs /\ source[s].epoch # 0
         /\ jobs[s][source[s].epoch] \in JobRow
         /\ jobs[s][source[s].epoch].attempts < AttemptLimit
         /\ FailExhausted(p, locked)[s][source[s].epoch] = jobs[s][source[s].epoch]
  <1>1. s \in Sources /\ source[s].epoch \in Epochs /\ jobs[s][source[s].epoch].attempts < AttemptLimit
    BY DEF Claimable, CurrentJob
  <1>2. jobs[s][source[s].epoch] \in JobRow
    BY <1>1 DEF TypeOK
  <1>3. source[s].epoch # 0
    BY <1>1, RetrievalAssumption DEF Epochs
  <1> QED
    BY <1>1, <1>2, <1>3, SweepType

\* claim keeps the types: attempts stay within the limit because it asks first.
LEMMA ClaimKeepsType ==
  ASSUME TypeInv, NEW w \in Workers, NEW p \in Profiles, NEW locked \in SUBSET Sources,
         Claim(w, p, locked)
  PROVE  TypeInv'
  <1> DEFINE swept == FailExhausted(p, locked)
  <1>1. swept \in [Sources -> [Epochs -> JobRow]]
    BY SweepType DEF TypeInv
  <1>2. UNCHANGED <<source, head, accepted, generations, chunks>>
    BY DEF Claim
  <1>3. jobs' \in [Sources -> [Epochs -> JobRow]] /\ worker' \in [Workers -> Working \cup {Idle}]
    <2>1. ASSUME NEW s \in Claimable(p) \ locked,
                 jobs' = [swept EXCEPT ![s][source[s].epoch] = TakeJob(@)],
                 worker' = [worker EXCEPT ![w] =
                   [pc |-> IF head[s] = <<>> THEN "publish" ELSE "check",
                    first |-> 1, vectors |-> NoVectors,
                    claim |-> [source |-> s, epoch |-> source[s].epoch,
                               fence |-> swept[s][source[s].epoch].fence + 1,
                               profile |-> p, version |-> source[s].version, chunks |-> head[s]]]]
          PROVE  jobs' \in [Sources -> [Epochs -> JobRow]] /\ worker' \in [Workers -> Working \cup {Idle}]
      <3> DEFINE e == source[s].epoch
                 j == jobs[s][e]
                 pc == IF head[s] = <<>> THEN "publish" ELSE "check"
                 fence == swept[s][e].fence + 1
                 claim == [source |-> s, epoch |-> e, fence |-> fence, profile |-> p,
                           version |-> source[s].version, chunks |-> head[s]]
      <3>1. s \in Sources /\ e \in Epochs /\ e # 0 /\ j \in JobRow /\ j.attempts < AttemptLimit /\ swept[s][e] = j
        BY ClaimableJob DEF TypeInv
      <3>2. TakeJob(j) \in JobRow
        BY <3>1, JobFences
      <3>3. jobs' \in [Sources -> [Epochs -> JobRow]]
        BY <1>1, <2>1, <3>1, <3>2
      <3>4. pc \in Steps \ {"idle"}
        BY DEF Steps
      <3>5. source[s].version \in Versions /\ head[s] \in Contents
        BY <3>1 DEF TypeInv, TypeOK, WrittenHasVersion
      <3>6. fence \in Nat
        BY <3>1 DEF JobRow
      <3>a. worker' = [worker EXCEPT ![w] = [pc |-> pc, first |-> 1, vectors |-> NoVectors, claim |-> claim]]
        BY <2>1
      <3> HIDE DEF e, fence, pc
      <3>7. claim \in WorkClaim
        BY <3>1, <3>5, <3>6 DEF WorkClaim
      <3> HIDE DEF claim
      <3>8. [pc |-> pc, first |-> 1, vectors |-> NoVectors, claim |-> claim] \in Working
        BY <3>4, <3>7, NullRows DEF Working
      <3>9. worker' \in [Workers -> Working \cup {Idle}]
        BY <3>a, <3>8 DEF TypeInv, TypeOK
      <3> QED
        BY <3>3, <3>9
    <2>2. ASSUME jobs' = swept, UNCHANGED worker
          PROVE  jobs' \in [Sources -> [Epochs -> JobRow]] /\ worker' \in [Workers -> Working \cup {Idle}]
      BY <1>1, <2>2 DEF TypeInv, TypeOK
    <2> QED
      BY <2>1, <2>2 DEF Claim
  <1>4. TypeOK'
    BY <1>2, <1>3 DEF TypeInv, TypeOK
  <1>5. WrittenHasVersion'
    BY <1>2 DEF TypeInv, WrittenHasVersion
  <1> QED
    BY <1>4, <1>5 DEF TypeInv

\* A batch that is embedded, and what accept makes of the stored vectors.
LEMMA ProcessKeepsType ==
  ASSUME TypeInv, NEW w \in Workers, Process(w)
  PROVE  TypeInv'
  <1> DEFINE cl == worker[w].claim
  <1>b. Busy(w)
    BY DEF Process, CheckBatch, Embed, Accept, Fail, Publish, Busy
  <1>w. worker[w] \in Working /\ TypeOK
    BY <1>b, BusyIsWorking DEF TypeInv
  <1>c. cl \in WorkClaim /\ cl.source \in Sources /\ cl.epoch \in Epochs /\ cl.profile \in Profiles
        /\ cl.version \in Versions /\ cl.chunks \in Seq(Texts)
    BY <1>w, RetrievalAssumption DEF Working, WorkClaim
  <1>i. Idle \in Working \cup {Idle}
    OBVIOUS
  <1>1. CASE CheckBatch(w)
    <2>1. UNCHANGED tables
      BY <1>1 DEF CheckBatch
    <2>2. worker' \in [Workers -> Working \cup {Idle}]
      <3>1. CASE NextBatch(w)
        BY <1>b, <1>w, <3>1, NextBatchKeepsType
      <3>2. CASE Fails(w)
        BY <1>b, <1>w, <3>2, FailsKeepsType
      <3>3. CASE worker' = [worker EXCEPT ![w].pc = "embed"]
        <4>1. [worker[w] EXCEPT !.pc = "embed"] \in Working
          BY <1>w DEF Working, Steps
        <4> QED
          BY <3>3, <4>1 DEF TypeInv, TypeOK
      <3> QED
        BY <1>1, <3>1, <3>2, <3>3 DEF CheckBatch
    <2> QED
      BY <2>1, <2>2 DEF tables, TypeInv, TypeOK, WrittenHasVersion
  <1>2. ASSUME NEW n \in Nonces, Embed(w, n) PROVE TypeInv'
    <2> DEFINE vectors == [i \in Ordinals |->
                 IF i \in Batch(w)
                 THEN [text |-> cl.chunks[i], space |-> Canonical[cl.profile], nonce |-> n]
                 ELSE NoVector]
    <2>1. UNCHANGED tables /\ worker' = [worker EXCEPT ![w] = [@ EXCEPT !.pc = "accept", !.vectors = vectors]]
      BY <1>2 DEF Embed
    <2>2. ASSUME NEW i \in Batch(w) PROVE cl.chunks[i] \in Texts
      BY <1>c, <2>2 DEF Batch, Ordinals
    <2>3. Canonical[cl.profile] \in Profiles
      BY <1>c, RetrievalAssumption
    <2>4. vectors \in [Ordinals -> Vector \cup {NoVector}]
      BY <2>2, <2>3 DEF Vector
    <2> HIDE DEF vectors
    <2>5. [worker[w] EXCEPT !.pc = "accept", !.vectors = vectors] \in Working
      BY <1>w, <2>4 DEF Working, Steps
    <2>6. worker' \in [Workers -> Working \cup {Idle}]
      BY <1>w, <2>1, <2>5 DEF TypeOK
    <2> QED
      BY <2>1, <2>6 DEF tables, TypeInv, TypeOK, WrittenHasVersion
  <1>3. CASE Accept(w)
    <2> DEFINE stored == accepted[cl.source][cl.epoch]
               merged == [i \in Ordinals |-> IF i \in Batch(w) THEN worker[w].vectors[i] ELSE stored[i]]
    <2>1. UNCHANGED <<source, head, jobs, generations, chunks>>
      BY <1>3 DEF Accept
    <2>2. merged \in [Ordinals -> Vector \cup {NoVector}]
      <3>1. stored \in [Ordinals -> Vector \cup {NoVector}]
        BY <1>c, <1>w DEF TypeOK
      <3>2. worker[w].vectors \in [Ordinals -> Vector \cup {NoVector}]
        BY <1>w DEF Working
      <3> QED
        BY <3>1, <3>2
    <2>3. \/ accepted' = [accepted EXCEPT ![cl.source][cl.epoch] = merged] /\ NextBatch(w)
          \/ Fails(w) /\ UNCHANGED accepted
      BY <1>3 DEF Accept
    <2>4. accepted' \in [Sources -> [Epochs -> [Ordinals -> Vector \cup {NoVector}]]]
      <3> DEFINE V == [Ordinals -> Vector \cup {NoVector}]
      <3>1. accepted \in [Sources -> [Epochs -> V]] /\ merged \in V
        BY <1>w, <2>2 DEF TypeOK
      <3>2. accepted' = [accepted EXCEPT ![cl.source][cl.epoch] = merged] \/ accepted' = accepted
        BY <2>3
      <3>3. cl.source \in Sources /\ cl.epoch \in Epochs
        BY <1>c
      <3> HIDE DEF merged, V, cl
      <3>4. accepted' \in [Sources -> [Epochs -> V]]
        BY <3>1, <3>2, <3>3
      <3> QED
        BY <3>4 DEF V
    <2>5. worker' \in [Workers -> Working \cup {Idle}]
      BY <1>b, <1>w, <2>3, FailsKeepsType, NextBatchKeepsType
    <2> QED
      BY <2>1, <2>4, <2>5 DEF TypeInv, TypeOK, WrittenHasVersion
  <1>4. CASE Fail(w)
    <2> DEFINE j == jobs[cl.source][cl.epoch]
               state == IF j.attempts >= AttemptLimit THEN "Failed" ELSE "Queued"
               ended == [j EXCEPT !.state = state, !.lease = 0]
    <2>1. UNCHANGED <<source, head, accepted, generations, chunks>> /\ worker' = [worker EXCEPT ![w] = Idle]
      BY <1>4 DEF Fail
    <2>2. jobs' = jobs \/ jobs' = [jobs EXCEPT ![cl.source][cl.epoch] = ended]
      BY <1>4 DEF Fail
    <2>3. j \in JobRow /\ state \in JobStates /\ 0 \in 0..LeaseTicks
      BY <1>c, <1>w, RetrievalAssumption DEF TypeOK, JobStates
    <2> HIDE DEF j, state
    <2>4. ended \in JobRow
      BY <2>3 DEF JobRow
    <2>5. jobs' \in [Sources -> [Epochs -> JobRow]]
      <3>1. cl.source \in Sources /\ cl.epoch \in Epochs /\ jobs \in [Sources -> [Epochs -> JobRow]]
        BY <1>c, <1>w DEF TypeOK
      <3> HIDE DEF ended, cl
      <3> QED
        BY <2>2, <2>4, <3>1
    <2>6. worker' \in [Workers -> Working \cup {Idle}]
      BY <1>w, <2>1 DEF TypeOK
    <2> QED
      BY <2>1, <2>5, <2>6 DEF TypeInv, TypeOK, WrittenHasVersion
  <1>5. ASSUME NEW lost \in BOOLEAN, Publish(w, lost) PROVE TypeInv'
    <2> DEFINE generation == Len(generations[cl.source]) + 1
               label == [version |-> cl.version, profile |-> cl.profile]
               rows == JoinedRows(cl, generation)
               j == jobs[cl.source][cl.epoch]
               done == [j EXCEPT !.state = "Complete", !.lease = 0]
               row == [source[cl.source] EXCEPT !.published = generation]
    <2>1. worker' \in [Workers -> Working \cup {Idle}]
      <3>1. Fails(w) \/ worker' = [worker EXCEPT ![w] = Idle]
        BY <1>5 DEF Publish
      <3> QED
        BY <1>b, <1>w, <3>1, FailsKeepsType DEF TypeOK
    <2>2. CASE UNCHANGED tables
      BY <2>1, <2>2 DEF tables, TypeInv, TypeOK, WrittenHasVersion
    <2>3. CASE ~UNCHANGED tables
      <3>1. /\ generations' = [generations EXCEPT ![cl.source] = Append(@, label)]
            /\ chunks' = [chunks EXCEPT ![cl.source] = rows]
            /\ source' = [source EXCEPT ![cl.source] = row]
            /\ jobs' = [jobs EXCEPT ![cl.source][cl.epoch] = done]
            /\ UNCHANGED <<head, accepted>>
        BY <1>5, <2>3 DEF Publish
      <3>2. generations[cl.source] \in Seq(GenerationRow) /\ generation \in Nat
        BY <1>c, <1>w DEF TypeOK
      <3>3. label \in GenerationRow
        BY <1>c DEF GenerationRow
      <3>4. rows \in [{n \in DOMAIN head[cl.source] : accepted[cl.source][cl.epoch][n] # NoVector} -> ChunkRow]
        <4>1. head[cl.source] \in Seq(Texts) /\ Len(head[cl.source]) <= MaxChunks
              /\ accepted[cl.source][cl.epoch] \in [Ordinals -> Vector \cup {NoVector}]
          BY <1>c, <1>w, RetrievalAssumption DEF TypeOK
        <4>2. ASSUME NEW i \in DOMAIN head[cl.source], accepted[cl.source][cl.epoch][i] # NoVector
              PROVE  [text |-> head[cl.source][i], vector |-> accepted[cl.source][cl.epoch][i],
                      generation |-> generation, profile |-> cl.profile] \in ChunkRow
          <5>1. i \in Ordinals /\ head[cl.source][i] \in Texts
            BY <4>1, <4>2, RetrievalAssumption DEF Ordinals
          <5>2. accepted[cl.source][cl.epoch][i] \in Vector
            BY <4>1, <4>2, <5>1
          <5> HIDE DEF generation
          <5> QED
            BY <1>c, <3>2, <5>1, <5>2 DEF ChunkRow
        <4> HIDE DEF generation
        <4> QED
          BY <4>2 DEF JoinedRows
      <3>5. {n \in DOMAIN head[cl.source] : accepted[cl.source][cl.epoch][n] # NoVector} \in SUBSET Ordinals
        <4>1. head[cl.source] \in Seq(Texts) /\ Len(head[cl.source]) <= MaxChunks
          BY <1>c, <1>w, RetrievalAssumption DEF TypeOK
        <4> QED
          BY <4>1, RetrievalAssumption DEF Ordinals
      <3>6. done \in JobRow
        <4>1. j \in JobRow /\ "Complete" \in JobStates /\ 0 \in 0..LeaseTicks
          BY <1>c, <1>w, RetrievalAssumption DEF TypeOK, JobStates
        <4> HIDE DEF j
        <4> QED
          BY <4>1 DEF JobRow
      <3>7. row \in SourceRow /\ row.version = source[cl.source].version /\ row.epoch = source[cl.source].epoch
        <4>1. source[cl.source] \in SourceRow
          BY <1>c, <1>w DEF TypeOK
        <4> HIDE DEF generation
        <4> QED
          BY <3>2, <4>1 DEF SourceRow
      <3> HIDE DEF generation, label, rows, j, done, row
      <3>8. source' \in [Sources -> SourceRow] /\ jobs' \in [Sources -> [Epochs -> JobRow]]
        BY <1>c, <1>w, <3>1, <3>6, <3>7 DEF TypeOK
      <3>9. generations' \in [Sources -> Seq(GenerationRow)]
        <4>1. Append(generations[cl.source], label) \in Seq(GenerationRow)
          BY <3>2, <3>3
        <4> QED
          BY <1>w, <3>1, <4>1 DEF TypeOK
      <3>10. DOMAIN chunks' = Sources /\ \A s \in Sources : \E D \in SUBSET Ordinals : chunks'[s] \in [D -> ChunkRow]
        BY <1>c, <1>w, <3>1, <3>4, <3>5 DEF TypeOK
      <3>11. TypeOK'
        BY <1>w, <2>1, <3>1, <3>8, <3>9, <3>10 DEF TypeOK
      <3>12. WrittenHasVersion'
        BY <1>w, <3>1, <3>7 DEF TypeInv, TypeOK, WrittenHasVersion
      <3> QED
        BY <3>11, <3>12 DEF TypeInv
    <2> QED
      BY <2>2, <2>3
  <1> QED
    BY <1>1, <1>2, <1>3, <1>4, <1>5 DEF Process

\* The heartbeat keeps the types.
LEMMA RenewKeepsType ==
  ASSUME TypeInv, NEW w \in Workers, Renew(w)
  PROVE  TypeInv'
  <1> DEFINE cl == worker[w].claim
             j == jobs[cl.source][cl.epoch]
  <1>1. Busy(w) /\ TypeOK /\ UNCHANGED <<source, head, accepted, generations, chunks>>
    BY DEF Renew, TypeInv
  <1>2. worker[w] \in Working
    BY <1>1, BusyIsWorking
  <1>3. cl.source \in Sources /\ cl.epoch \in Epochs
    BY <1>2 DEF Working, WorkClaim
  <1>4. CASE Fails(w) /\ UNCHANGED jobs
    <2>1. worker' \in [Workers -> Working \cup {Idle}]
      BY <1>1, <1>4, FailsKeepsType
    <2> QED
      BY <1>1, <1>4, <2>1 DEF TypeInv, TypeOK, WrittenHasVersion
  <1>5. CASE jobs' = [jobs EXCEPT ![cl.source][cl.epoch].lease = LeaseTicks] /\ UNCHANGED worker
    <2>1. j \in JobRow /\ LeaseTicks \in 0..LeaseTicks
      BY <1>1, <1>3, RetrievalAssumption DEF TypeOK
    <2>2. [j EXCEPT !.lease = LeaseTicks] \in JobRow
      BY <2>1 DEF JobRow
    <2>3. jobs' \in [Sources -> [Epochs -> JobRow]]
      BY <1>1, <1>3, <1>5, <2>2 DEF TypeOK
    <2> QED
      BY <1>1, <1>5, <2>3 DEF TypeInv, TypeOK, WrittenHasVersion
  <1> QED
    BY <1>4, <1>5 DEF Renew

\* Leases and expiry instants that pass keep the types.
LEMMA ClockKeepsType ==
  ASSUME TypeInv, NEW s \in Sources, SourceExpires(s) \/ \E e \in Epochs : LeaseTick(s, e)
  PROVE  TypeInv'
  <1>1. CASE SourceExpires(s)
    <2>1. source[s] \in SourceRow
      BY DEF TypeInv, TypeOK
    <2> DEFINE row == [source[s] EXCEPT !.expires = "past"]
    <2>2. row \in SourceRow /\ row.version = source[s].version /\ row.epoch = source[s].epoch
      BY <2>1 DEF SourceRow, Expiry
    <2>3. source' = [source EXCEPT ![s] = row] /\ UNCHANGED <<head, jobs, accepted, generations, chunks, worker>>
      BY <1>1 DEF SourceExpires
    <2> HIDE DEF row
    <2> QED
      BY <2>2, <2>3 DEF TypeInv, TypeOK, WrittenHasVersion
  <1>2. ASSUME NEW e \in Epochs, LeaseTick(s, e) PROVE TypeInv'
    <2> DEFINE j == jobs[s][e]
               n == j.lease - 1
    <2>1. j \in JobRow /\ j.lease > 0
      BY <1>2 DEF TypeInv, TypeOK, LeaseTick
    <2>2. n \in 0..LeaseTicks
      BY <2>1, RetrievalAssumption DEF JobRow
    <2>3. /\ jobs' = [jobs EXCEPT ![s][e] = [j EXCEPT !.lease = n]]
          /\ UNCHANGED <<source, head, accepted, generations, chunks, worker>>
      BY <1>2 DEF LeaseTick
    <2> HIDE DEF j, n
    <2>4. [j EXCEPT !.lease = n] \in JobRow
      BY <2>1, <2>2 DEF JobRow
    <2>5. jobs' \in [Sources -> [Epochs -> JobRow]]
      BY <2>3, <2>4 DEF TypeInv, TypeOK
    <2> QED
      BY <2>3, <2>5 DEF TypeInv, TypeOK, WrittenHasVersion
  <1> QED
    BY <1>1, <1>2

\* An error or a crash of a worker keeps the types.
LEMMA WorkerEndsKeepsType ==
  ASSUME TypeInv, NEW w \in Workers, WorkerError(w) \/ WorkerCrash(w)
  PROVE  TypeInv'
  <1>1. Busy(w) /\ TypeOK /\ UNCHANGED tables
    BY DEF WorkerError, WorkerCrash, TypeInv
  <1>2. Fails(w) \/ worker' = [worker EXCEPT ![w] = Idle]
    BY DEF WorkerError, WorkerCrash
  <1>3. worker' \in [Workers -> Working \cup {Idle}]
    BY <1>1, <1>2, FailsKeepsType DEF TypeOK
  <1> QED
    BY <1>1, <1>3 DEF tables, TypeInv, TypeOK, WrittenHasVersion

\* Every step of the system keeps the types.
LEMMA TypeInvNext == TypeInv /\ [Next]_vars => TypeInv'
  <1> SUFFICES ASSUME TypeInv, [Next]_vars PROVE TypeInv'
    OBVIOUS
  <1>1. CASE UNCHANGED vars
    BY <1>1 DEF vars, TypeInv, TypeOK, WrittenHasVersion
  <1>2. CASE Next
    BY <1>2, PutKeepsType, RemoveKeepsType, MigrateKeepsType, ClaimKeepsType, ProcessKeepsType,
       RenewKeepsType, ClockKeepsType, WorkerEndsKeepsType DEF Next
  <1> QED
    BY <1>1, <1>2

\* Every row of the index tables stays in its domain: attempts within the limit,
\* leases within the lease, claims with a real version, vectors of real texts.
THEOREM TypeCorrect == Spec => []TypeOK
  <1>1. TypeInv => TypeOK
    BY DEF TypeInv
  <1> QED
    BY <1>1, TypeInvInit, TypeInvNext, PTL DEF Spec

-----------------------------------------------------------------------------
(* Fencing *)

\* Nobody starts work and nobody changes its claim.
ClaimsStay == \A w \in Workers : worker'[w].pc # "idle" => Busy(w) /\ worker'[w].claim = worker[w].claim

EpochsGrow == \A s \in Sources : source'[s].epoch >= source[s].epoch

\* Fences of the jobs that a claim may be of.
FencesGrow ==
  \A s \in Sources, e \in Epochs : e <= source[s].epoch => jobs'[s][e].fence >= jobs[s][e].fence

\* The numbers that fencing compares.
LEMMA FenceTypes ==
  ASSUME TypeOK
  PROVE  /\ \A s \in Sources : source[s].epoch \in Nat
         /\ \A s \in Sources, e \in Epochs : jobs[s][e].fence \in Nat
         /\ \A w \in Workers : Busy(w) =>
              /\ worker[w].claim \in WorkClaim
              /\ worker[w].claim.source \in Sources /\ worker[w].claim.epoch \in Epochs
              /\ worker[w].claim.epoch \in Nat /\ worker[w].claim.fence \in Nat
  <1>1. \A s \in Sources : source[s].epoch \in Nat
    BY DEF TypeOK, SourceRow
  <1>2. \A s \in Sources, e \in Epochs : jobs[s][e].fence \in Nat
    BY DEF TypeOK, JobRow
  <1>3. ASSUME NEW w \in Workers, Busy(w)
        PROVE  /\ worker[w].claim \in WorkClaim
               /\ worker[w].claim.source \in Sources /\ worker[w].claim.epoch \in Epochs
               /\ worker[w].claim.epoch \in Nat /\ worker[w].claim.fence \in Nat
    <2>1. worker[w].claim \in WorkClaim
      BY <1>3, BusyIsWorking DEF Working
    <2> QED
      BY <2>1, RetrievalAssumption DEF WorkClaim, Epochs
  <1> QED
    BY <1>1, <1>2, <1>3

\* A step that hands out no claim, and lowers neither an epoch nor a fence, keeps
\* the fence invariant.
LEMMA GrowthKeepsFences ==
  ASSUME TypeOK, TypeOK', FenceInv, ClaimsStay, EpochsGrow, FencesGrow
  PROVE  FenceInv'
  <1>0. /\ \A s \in Sources : source'[s].epoch \in Nat
        /\ \A s \in Sources, e \in Epochs : jobs'[s][e].fence \in Nat
    <2>1. source' \in [Sources -> SourceRow] /\ jobs' \in [Sources -> [Epochs -> JobRow]]
      BY DEF TypeOK
    <2>2. \A s \in Sources : source'[s].epoch \in Nat
      BY <2>1 DEF SourceRow
    <2>3. \A s \in Sources, e \in Epochs : jobs'[s][e].fence \in Nat
      BY <2>1 DEF JobRow
    <2> QED
      BY <2>2, <2>3
  <1>1. ASSUME NEW w \in Workers, worker'[w].pc # "idle"
        PROVE  /\ Busy(w) /\ worker'[w].claim = worker[w].claim
               /\ worker[w].claim.epoch <= source'[worker[w].claim.source].epoch
               /\ worker[w].claim.fence <= jobs'[worker[w].claim.source][worker[w].claim.epoch].fence
    <2> DEFINE cl == worker[w].claim
    <2>1. Busy(w) /\ worker'[w].claim = cl
      BY <1>1 DEF ClaimsStay
    <2>2. cl.source \in Sources /\ cl.epoch \in Epochs /\ cl.epoch \in Nat /\ cl.fence \in Nat
      BY <2>1, FenceTypes
    <2>3. cl.epoch <= source[cl.source].epoch /\ cl.fence <= jobs[cl.source][cl.epoch].fence
      BY <2>1 DEF FenceInv, ClaimsAreNotAhead, FencesBoundClaims
    <2>4. source'[cl.source].epoch >= source[cl.source].epoch
          /\ jobs'[cl.source][cl.epoch].fence >= jobs[cl.source][cl.epoch].fence
      BY <2>2, <2>3 DEF EpochsGrow, FencesGrow
    <2>5. /\ source[cl.source].epoch \in Nat /\ jobs[cl.source][cl.epoch].fence \in Nat
      BY <2>2, FenceTypes
    <2>6. /\ source'[cl.source].epoch \in Nat /\ jobs'[cl.source][cl.epoch].fence \in Nat
      BY <1>0, <2>2
    <2> HIDE DEF cl
    <2>7. cl.epoch <= source'[cl.source].epoch /\ cl.fence <= jobs'[cl.source][cl.epoch].fence
      BY <2>2, <2>3, <2>4, <2>5, <2>6
    <2> QED
      BY <2>1, <2>7 DEF cl
  <1>2. ClaimsAreNotAhead'
    BY <1>1 DEF ClaimsAreNotAhead, Busy
  <1>3. FencesBoundClaims'
    BY <1>1 DEF FencesBoundClaims, Busy
  <1>4. FencesAreUnique'
    BY <1>1 DEF FencesAreUnique, Busy, FenceInv
  <1> QED
    BY <1>2, <1>3, <1>4 DEF FenceInv

\* Supersede revokes by counting up.
LEMMA SupersedeFences ==
  ASSUME TypeOK, NEW s \in Sources, NEW spared, NEW e \in Epochs
  PROVE  Supersede(s, spared)[e].fence >= jobs[s][e].fence
  <1> DEFINE j == jobs[s][e]
             revoked == [j EXCEPT !.state = "Superseded", !.fence = @ + 1]
  <1>1. j \in JobRow
    BY DEF TypeOK
  <1>2. j.fence \in Nat
    BY <1>1 DEF JobRow
  <1>3. revoked.fence = j.fence + 1
    BY <1>1, JobFences
  <1>4. Supersede(s, spared)[e] = j \/ Supersede(s, spared)[e] = revoked
    BY DEF Supersede
  <1> HIDE DEF j, revoked
  <1> QED
    BY <1>2, <1>3, <1>4 DEF j

\* The application's writes are such steps: they raise the epoch and the fences.
LEMMA WritesGrow ==
  ASSUME TypeInv, NEW s \in Sources,
         \/ \E v \in Versions, c \in Contents, f \in Flags, p \in Targets : Put(s, v, c, f, p)
         \/ Remove(s)
  PROVE  ClaimsStay /\ EpochsGrow /\ FencesGrow
  <1>0. TypeOK
    BY DEF TypeInv
  <1>1. UNCHANGED worker
    BY DEF Put, Remove
  <1>2. ClaimsStay
    BY <1>1 DEF ClaimsStay, Busy
  <1> DEFINE old == source[s]
             epoch == old.epoch + 1
  <1>3. old \in SourceRow /\ old.epoch \in Nat
    BY <1>0, FenceTypes DEF TypeOK
  <1>4. \A t \in Sources : t # s => source'[t] = source[t] /\ jobs'[t] = jobs[t]
    <2>1. \E row : source' = [source EXCEPT ![s] = row]
      BY ZenonT(60) DEF Put, Remove
    <2>2. \/ UNCHANGED jobs
          \/ \E row : jobs' = [jobs EXCEPT ![s] = row]
      BY ZenonT(60) DEF Put, Remove
    <2>3. \A t \in Sources : t # s => source'[t] = source[t]
      BY <1>0, <2>1 DEF TypeOK
    <2>4. \A t \in Sources : t # s => jobs'[t] = jobs[t]
      BY <1>0, <2>2 DEF TypeOK
    <2> QED
      BY <2>3, <2>4
  <1>5. /\ source'[s].epoch \in {old.epoch, epoch}
        /\ \A e \in Epochs : e <= old.epoch =>
             \/ jobs'[s][e] = jobs[s][e]
             \/ \E spared \in SUBSET {"Complete"} : jobs'[s][e] = Supersede(s, spared)[e]
    <2>1. ASSUME NEW v \in Versions, NEW c \in Contents, NEW f \in Flags, NEW p \in Targets,
                 Put(s, v, c, f, p)
          PROVE  <1>5!:
      <3> DEFINE flagged == [old EXCEPT !.eligible = f.eligible, !.shown = f.shown, !.expires = f.expires]
                 row == [flagged EXCEPT !.epoch = epoch, !.version = v, !.content = c, !.target = p,
                                        !.heads = TRUE]
                 job == IF p = NoProfile THEN NoJob ELSE [NoJob EXCEPT !.state = "Queued", !.profile = p]
      <3>1. flagged.epoch = old.epoch /\ row.epoch = epoch
        BY <1>3 DEF SourceRow
      <3>2. CASE source' = [source EXCEPT ![s] = flagged] /\ UNCHANGED jobs
        BY <1>0, <3>1, <3>2 DEF TypeOK
      <3>3. CASE /\ source' = [source EXCEPT ![s] = row]
                 /\ jobs' = [jobs EXCEPT ![s] = [Supersede(s, {"Complete"}) EXCEPT ![epoch] = job]]
        <4>1. source'[s].epoch = epoch
          BY <1>0, <3>1, <3>3 DEF TypeOK
        <4>2. \A e \in Epochs : e <= old.epoch => e # epoch
          BY <1>3, RetrievalAssumption DEF Epochs
        <4>3. Supersede(s, {"Complete"}) \in [Epochs -> JobRow]
          BY <1>0, SupersedeType
        <4>4. jobs'[s] = [Supersede(s, {"Complete"}) EXCEPT ![epoch] = job]
          BY <1>0, <3>3 DEF TypeOK
        <4> HIDE DEF epoch, job
        <4>5. \A e \in Epochs : e <= old.epoch => jobs'[s][e] = Supersede(s, {"Complete"})[e]
          BY <4>2, <4>3, <4>4
        <4> QED
          BY <4>1, <4>5
      <3> QED
        BY <2>1, <3>2, <3>3 DEF Put
    <2>2. ASSUME Remove(s) PROVE <1>5!:
      <3> DEFINE row == [old EXCEPT !.eligible = FALSE, !.shown = FALSE, !.epoch = epoch,
                                    !.published = 0, !.heads = FALSE]
      <3>1. source' = [source EXCEPT ![s] = row] /\ jobs' = [jobs EXCEPT ![s] = Supersede(s, {})]
        BY <2>2 DEF Remove
      <3>2. row.epoch = epoch
        BY <1>3 DEF SourceRow
      <3> HIDE DEF row, epoch
      <3>3. source'[s] = row /\ jobs'[s] = Supersede(s, {})
        BY <1>0, <3>1 DEF TypeOK
      <3> QED
        BY <3>2, <3>3
    <2> QED
      BY <2>1, <2>2
  <1>6. EpochsGrow
    BY <1>0, <1>3, <1>4, <1>5, FenceTypes DEF EpochsGrow
  <1>7. FencesGrow
    <2> SUFFICES ASSUME NEW t \in Sources, NEW e \in Epochs, e <= source[t].epoch
                 PROVE  jobs'[t][e].fence >= jobs[t][e].fence
      BY DEF FencesGrow
    <2>1. jobs[t][e].fence \in Nat
      BY <1>0, FenceTypes
    <2>2. CASE jobs'[t][e] = jobs[t][e]
      BY <2>1, <2>2
    <2>3. ASSUME t = s, NEW spared \in SUBSET {"Complete"}, jobs'[s][e] = Supersede(s, spared)[e]
          PROVE  jobs'[t][e].fence >= jobs[t][e].fence
      BY <1>0, <2>3, SupersedeFences
    <2> QED
      BY <1>4, <1>5, <2>2, <2>3
  <1> QED
    BY <1>2, <1>6, <1>7

\* The identity migration is such a step: it touches profiles only.
LEMMA MigrationGrows ==
  ASSUME TypeInv, NEW q \in Profiles, NEW approved \in SUBSET Profiles,
         MigrateModelIdentities(q, approved)
  PROVE  ClaimsStay /\ EpochsGrow /\ FencesGrow
  <1> DEFINE label(p) == IF p \in approved THEN q ELSE p
  <1>0. TypeOK
    BY DEF TypeInv
  <1>1. /\ source' = [s \in Sources |-> [source[s] EXCEPT !.target = label(@)]]
        /\ jobs' = [s \in Sources |-> [e \in Epochs |-> [jobs[s][e] EXCEPT !.profile = label(@)]]]
        /\ UNCHANGED worker
    BY DEF MigrateModelIdentities
  <1>2. ClaimsStay
    BY <1>1 DEF ClaimsStay, Busy
  <1>3. ASSUME NEW s \in Sources PROVE source'[s].epoch = source[s].epoch
    BY <1>0, <1>1 DEF TypeOK, SourceRow
  <1>4. ASSUME NEW s \in Sources, NEW e \in Epochs PROVE jobs'[s][e].fence = jobs[s][e].fence
    <2> DEFINE t == label(jobs[s][e].profile)
    <2>1. jobs[s][e] \in JobRow /\ jobs'[s][e] = [jobs[s][e] EXCEPT !.profile = t]
      BY <1>0, <1>1 DEF TypeOK
    <2> HIDE DEF t
    <2> QED
      BY <2>1 DEF JobRow
  <1> QED
    BY <1>0, <1>2, <1>3, <1>4, FenceTypes DEF EpochsGrow, FencesGrow

\* A worker goes on with its claim, abandons it or ends.
LEMMA WorkKeepsClaims ==
  ASSUME TypeOK, NEW w \in Workers, Process(w) \/ Renew(w) \/ WorkerError(w) \/ WorkerCrash(w)
  PROVE  ClaimsStay
  <1>1. Busy(w)
    BY DEF Process, CheckBatch, Embed, Accept, Fail, Publish, Renew, WorkerError, WorkerCrash, Busy
  <1>2. worker[w] \in Working
    BY <1>1, BusyIsWorking
  <1>3. \/ Fails(w) \/ NextBatch(w) \/ UNCHANGED worker
        \/ worker' = [worker EXCEPT ![w] = Idle]
        \/ worker' = [worker EXCEPT ![w].pc = "embed"]
        \/ \E v : worker' = [worker EXCEPT ![w] = [@ EXCEPT !.pc = "accept", !.vectors = v]]
    BY DEF Process, CheckBatch, Embed, Accept, Fail, Publish, Renew, WorkerError, WorkerCrash
  <1>4. \A v \in Workers : v # w => worker'[v] = worker[v]
    BY <1>3 DEF TypeOK, Fails, NextBatch
  <1>5. worker'[w].pc # "idle" => worker'[w].claim = worker[w].claim
    <2> DEFINE r == worker[w]
    <2>1. \/ worker'[w] = r \/ worker'[w] = Idle
          \/ \E pc, n, v : worker'[w] = [r EXCEPT !.pc = pc, !.first = n, !.vectors = v]
          \/ \E pc, n, v : worker'[w] = [r EXCEPT !.first = n, !.vectors = v, !.pc = pc]
          \/ \E pc, v : worker'[w] = [r EXCEPT !.pc = pc, !.vectors = v]
          \/ \E pc : worker'[w] = [r EXCEPT !.pc = pc]
      <3>0. worker \in [Workers -> Working \cup {Idle}]
        BY DEF TypeOK
      <3>1. CASE Fails(w)
        BY <3>0, <3>1 DEF Fails
      <3>2. CASE NextBatch(w)
        BY <3>0, <3>2 DEF NextBatch
      <3>3. CASE UNCHANGED worker
        BY <3>3
      <3>4. CASE worker' = [worker EXCEPT ![w] = Idle]
        BY <3>0, <3>4
      <3>5. CASE worker' = [worker EXCEPT ![w].pc = "embed"]
        BY <3>0, <3>5
      <3>6. CASE \E v : worker' = [worker EXCEPT ![w] = [@ EXCEPT !.pc = "accept", !.vectors = v]]
        BY <3>0, <3>6, ZenonT(60)
      <3> QED
        BY <1>3, <3>1, <3>2, <3>3, <3>4, <3>5, <3>6
    <2>2. r \in Working
      BY <1>2
    <2> HIDE DEF r
    <2>3. worker'[w] = Idle \/ worker'[w].claim = r.claim
      BY <2>1, <2>2 DEF Working
    <2> QED
      BY <2>3 DEF Idle, r
  <1> QED
    BY <1>1, <1>4, <1>5 DEF ClaimsStay, Busy

\* Neither work nor the clock touches an epoch or a fence.
LEMMA WorkGrows ==
  ASSUME TypeOK,
         \/ \E w \in Workers : Process(w) \/ Renew(w) \/ WorkerError(w) \/ WorkerCrash(w)
         \/ \E s \in Sources : SourceExpires(s) \/ \E e \in Epochs : LeaseTick(s, e)
  PROVE  EpochsGrow /\ FencesGrow
  <1>1. \A s \in Sources : source'[s].epoch = source[s].epoch
    <2>1. \/ UNCHANGED source
          \/ \E s \in Sources : source' = [source EXCEPT ![s] = [source[s] EXCEPT !.expires = "past"]]
          \/ \E s \in Sources : \E g : source' = [source EXCEPT ![s] = [source[s] EXCEPT !.published = g]]
      <3>1. ASSUME NEW w \in Workers, NEW lost \in BOOLEAN, Publish(w, lost)
            PROVE  UNCHANGED source \/ \E s \in Sources : \E g : source' = [source EXCEPT ![s] = [source[s] EXCEPT !.published = g]]
        <4>1. worker[w].claim.source \in Sources
          BY <3>1, FenceTypes DEF Publish, Busy
        <4> QED
          BY <3>1, <4>1 DEF Publish, tables
      <3> QED
        BY <3>1 DEF Process, CheckBatch, Embed, Accept, Fail, Renew, WorkerError, WorkerCrash,
               SourceExpires, LeaseTick, tables
    <2>2. ASSUME NEW s \in Sources, NEW g,
                 \/ source' = [source EXCEPT ![s] = [source[s] EXCEPT !.expires = "past"]]
                 \/ source' = [source EXCEPT ![s] = [source[s] EXCEPT !.published = g]]
          PROVE  \A t \in Sources : source'[t].epoch = source[t].epoch
      <3>1. source[s] \in SourceRow
        BY DEF TypeOK
      <3>2. /\ [source[s] EXCEPT !.expires = "past"].epoch = source[s].epoch
            /\ [source[s] EXCEPT !.published = g].epoch = source[s].epoch
        BY <3>1 DEF SourceRow
      <3> QED
        BY <2>2, <3>2 DEF TypeOK
    <2> QED
      BY <2>1, <2>2
  <1>2. \A s \in Sources, e \in Epochs : jobs'[s][e].fence = jobs[s][e].fence
    <2>1. ASSUME NEW s \in Sources, NEW e \in Epochs, NEW r,
                 jobs' = [jobs EXCEPT ![s][e] = r], r.fence = jobs[s][e].fence
          PROVE  \A t \in Sources, d \in Epochs : jobs'[t][d].fence = jobs[t][d].fence
      BY <2>1 DEF TypeOK
    <2>2. ASSUME NEW s \in Sources, NEW e \in Epochs, LeaseTick(s, e)
          PROVE  \A t \in Sources, d \in Epochs : jobs'[t][d].fence = jobs[t][d].fence
      <3> DEFINE n == jobs[s][e].lease - 1
                 r == [jobs[s][e] EXCEPT !.lease = n]
      <3>1. jobs' = [jobs EXCEPT ![s][e] = r] /\ jobs[s][e] \in JobRow
        BY <2>2 DEF LeaseTick, TypeOK
      <3> HIDE DEF n
      <3>2. r.fence = jobs[s][e].fence
        BY <3>1 DEF JobRow
      <3> HIDE DEF r
      <3> QED
        BY <2>1, <3>1, <3>2
    <2>3. ASSUME NEW w \in Workers, Process(w) \/ Renew(w)
          PROVE  \A t \in Sources, d \in Epochs : jobs'[t][d].fence = jobs[t][d].fence
      <3> DEFINE cl == worker[w].claim
                 j == jobs[cl.source][cl.epoch]
      <3>1. cl.source \in Sources /\ cl.epoch \in Epochs
        BY <2>3, FenceTypes DEF Process, CheckBatch, Embed, Accept, Fail, Publish, Renew, Busy
      <3>2. \/ UNCHANGED jobs
            \/ jobs' = [jobs EXCEPT ![cl.source][cl.epoch] = [j EXCEPT !.lease = LeaseTicks]]
            \/ \E state : jobs' = [jobs EXCEPT ![cl.source][cl.epoch] = [j EXCEPT !.state = state, !.lease = 0]]
        BY <2>3 DEF Process, CheckBatch, Embed, Accept, Fail, Publish, Renew, tables
      <3>3. j \in JobRow
        BY <3>1 DEF TypeOK
      <3> HIDE DEF cl, j
      <3>4. /\ [j EXCEPT !.lease = LeaseTicks].fence = j.fence
            /\ \A state : [j EXCEPT !.state = state, !.lease = 0].fence = j.fence
        BY <3>3 DEF JobRow
      <3>5. CASE UNCHANGED jobs
        BY <3>5
      <3>6. CASE ~UNCHANGED jobs
        <4>1. CASE jobs' = [jobs EXCEPT ![cl.source][cl.epoch] = [j EXCEPT !.lease = LeaseTicks]]
          BY <2>1, <3>1, <3>4, <4>1 DEF j
        <4>2. ASSUME NEW state,
                     jobs' = [jobs EXCEPT ![cl.source][cl.epoch] = [j EXCEPT !.state = state, !.lease = 0]]
              PROVE  \A t \in Sources, d \in Epochs : jobs'[t][d].fence = jobs[t][d].fence
          BY <2>1, <3>1, <3>4, <4>2 DEF j
        <4> QED
          BY <3>2, <3>6, <4>1, <4>2
      <3> QED
        BY <3>5, <3>6
    <2>4. ASSUME UNCHANGED jobs
          PROVE  \A t \in Sources, d \in Epochs : jobs'[t][d].fence = jobs[t][d].fence
      BY <2>4
    <2> QED
      BY <2>2, <2>3, <2>4 DEF WorkerError, WorkerCrash, SourceExpires, tables
  <1> QED
    BY <1>1, <1>2, FenceTypes DEF EpochsGrow, FencesGrow

\* A claim takes a fence that nobody has.
LEMMA ClaimKeepsFences ==
  ASSUME TypeInv, TypeInv', FenceInv, NEW w \in Workers, NEW p \in Profiles,
         NEW locked \in SUBSET Sources, Claim(w, p, locked)
  PROVE  FenceInv'
  <1> DEFINE swept == FailExhausted(p, locked)
  <1>0. TypeOK /\ TypeOK' /\ UNCHANGED source
    BY DEF TypeInv, Claim
  <1>s. swept \in [Sources -> [Epochs -> JobRow]]
        /\ \A s \in Sources, e \in Epochs : swept[s][e].fence >= jobs[s][e].fence
    BY <1>0, SweepType
  <1>e. EpochsGrow
    BY <1>0, FenceTypes DEF EpochsGrow
  <1>1. ASSUME jobs' = swept, UNCHANGED worker PROVE FenceInv'
    <2>1. ClaimsStay /\ FencesGrow
      BY <1>1, <1>s DEF ClaimsStay, FencesGrow, Busy
    <2> QED
      BY <1>0, <1>e, <2>1, GrowthKeepsFences
  <1>2. ASSUME NEW s \in Claimable(p) \ locked,
               jobs' = [swept EXCEPT ![s][source[s].epoch] = TakeJob(@)],
               worker' = [worker EXCEPT ![w] =
                 [pc |-> IF head[s] = <<>> THEN "publish" ELSE "check",
                  first |-> 1, vectors |-> NoVectors,
                  claim |-> [source |-> s, epoch |-> source[s].epoch,
                             fence |-> swept[s][source[s].epoch].fence + 1,
                             profile |-> p, version |-> source[s].version, chunks |-> head[s]]]]
        PROVE  FenceInv'
    <2> DEFINE e == source[s].epoch
               j == jobs[s][e]
    <2>1. s \in Sources /\ e \in Epochs /\ j \in JobRow /\ swept[s][e] = j
      BY <1>0, ClaimableJob
    <2>2. TakeJob(j).fence = j.fence + 1 /\ j.fence \in Nat /\ e \in Nat
      BY <1>0, <2>1, JobFences, FenceTypes
    <2>3. /\ worker'[w].claim.source = s /\ worker'[w].claim.epoch = e
          /\ worker'[w].claim.fence = j.fence + 1
      BY <1>0, <1>2, <2>1 DEF TypeOK
    <2>4. \A v \in Workers : v # w => worker'[v] = worker[v]
      BY <1>0, <1>2 DEF TypeOK
    <2>5. jobs'[s][e].fence = j.fence + 1
      BY <1>2, <1>s, <2>1, <2>2
    <2>6. \A t \in Sources, d \in Epochs : jobs'[t][d].fence >= jobs[t][d].fence
      <3> SUFFICES ASSUME NEW t \in Sources, NEW d \in Epochs
                   PROVE  jobs'[t][d].fence >= jobs[t][d].fence
        OBVIOUS
      <3>1. CASE t = s /\ d = e
        BY <2>2, <2>5, <3>1
      <3>2. CASE ~(t = s /\ d = e)
        <4>1. jobs'[t][d] = swept[t][d]
          BY <1>2, <1>s, <2>1, <3>2
        <4> QED
          BY <1>s, <4>1
      <3> QED
        BY <3>1, <3>2
    <2> HIDE DEF e, j
    <2>7. ASSUME NEW v \in Workers, v # w, worker'[v].pc # "idle"
          PROVE  /\ Busy(v) /\ worker'[v].claim = worker[v].claim
                 /\ worker[v].claim.source \in Sources /\ worker[v].claim.epoch \in Epochs
                 /\ worker[v].claim.epoch <= source[worker[v].claim.source].epoch
                 /\ worker[v].claim.fence \in Nat
                 /\ worker[v].claim.fence <= jobs[worker[v].claim.source][worker[v].claim.epoch].fence
      <3>1. Busy(v) /\ worker'[v].claim = worker[v].claim
        BY <2>4, <2>7 DEF Busy
      <3> QED
        BY <1>0, <3>1, FenceTypes DEF FenceInv, ClaimsAreNotAhead, FencesBoundClaims
    <2>8. ClaimsAreNotAhead'
      <3> SUFFICES ASSUME NEW v \in Workers, worker'[v].pc # "idle"
                   PROVE  worker'[v].claim.epoch <= source'[worker'[v].claim.source].epoch
        BY DEF ClaimsAreNotAhead, Busy
      <3>1. CASE v = w
        BY <1>0, <2>2, <2>3, <3>1 DEF e
      <3>2. CASE v # w
        BY <1>0, <2>7, <3>2
      <3> QED
        BY <3>1, <3>2
    <2>9. FencesBoundClaims'
      <3> SUFFICES ASSUME NEW v \in Workers, worker'[v].pc # "idle"
                   PROVE  worker'[v].claim.fence <= jobs'[worker'[v].claim.source][worker'[v].claim.epoch].fence
        BY DEF FencesBoundClaims, Busy
      <3>1. CASE v = w
        BY <2>2, <2>3, <2>5, <3>1
      <3>2. CASE v # w
        <4> DEFINE cl == worker[v].claim
        <4>1. /\ worker'[v].claim = cl /\ cl.source \in Sources /\ cl.epoch \in Epochs /\ cl.fence \in Nat
              /\ cl.fence <= jobs[cl.source][cl.epoch].fence
          BY <2>7, <3>2
        <4>2. jobs'[cl.source][cl.epoch].fence >= jobs[cl.source][cl.epoch].fence
          BY <2>6, <4>1
        <4>3. jobs[cl.source][cl.epoch].fence \in Nat /\ jobs'[cl.source][cl.epoch].fence \in Nat
          BY <1>0, <4>1 DEF TypeOK, JobRow
        <4> QED
          BY <4>1, <4>2, <4>3
      <3> QED
        BY <3>1, <3>2
    <2>10. FencesAreUnique'
      <3>1. ASSUME NEW v \in Workers, v # w, worker'[v].pc # "idle",
                   worker'[v].claim.source = s, worker'[v].claim.epoch = e
            PROVE  worker'[v].claim.fence # worker'[w].claim.fence
        <4>1. worker'[v].claim.fence <= j.fence /\ worker'[v].claim.fence \in Nat
          BY <2>7, <3>1 DEF j
        <4> QED
          BY <2>2, <2>3, <4>1
      <3>2. ASSUME NEW v \in Workers, v # w, worker'[v].pc # "idle",
                   NEW u \in Workers, u # w, worker'[u].pc # "idle", u # v,
                   worker'[v].claim.source = worker'[u].claim.source,
                   worker'[v].claim.epoch = worker'[u].claim.epoch
            PROVE  worker'[v].claim.fence # worker'[u].claim.fence
        <4>1. Busy(v) /\ worker'[v].claim = worker[v].claim /\ Busy(u) /\ worker'[u].claim = worker[u].claim
          BY <2>7, <3>2
        <4> QED
          BY <3>2, <4>1 DEF FenceInv, FencesAreUnique
      <3> QED
        BY <2>3, <3>1, <3>2 DEF FencesAreUnique, Busy
    <2> QED
      BY <2>8, <2>9, <2>10 DEF FenceInv
  <1> QED
    BY <1>1, <1>2 DEF Claim

\* Every step of the system keeps the fence invariant.
LEMMA FenceInvNext == TypeInv /\ FenceInv /\ [Next]_vars => FenceInv'
  <1> SUFFICES ASSUME TypeInv, FenceInv, [Next]_vars PROVE FenceInv'
    OBVIOUS
  <1>1. TypeInv' /\ TypeOK /\ TypeOK'
    BY TypeInvNext DEF TypeInv
  <1>2. CASE UNCHANGED vars
    BY <1>2 DEF vars, FenceInv, ClaimsAreNotAhead, FencesBoundClaims, FencesAreUnique, Busy
  <1>3. ASSUME NEW s \in Sources,
               \/ \E v \in Versions, c \in Contents, f \in Flags, p \in Targets : Put(s, v, c, f, p)
               \/ Remove(s)
        PROVE  FenceInv'
    BY <1>1, <1>3, WritesGrow, GrowthKeepsFences
  <1>4. ASSUME NEW q \in Profiles, NEW approved \in SUBSET Profiles, MigrateModelIdentities(q, approved)
        PROVE  FenceInv'
    BY <1>1, <1>4, MigrationGrows, GrowthKeepsFences
  <1>5. ASSUME NEW w \in Workers, NEW p \in Profiles, NEW locked \in SUBSET Sources, Claim(w, p, locked)
        PROVE  FenceInv'
    BY <1>1, <1>5, ClaimKeepsFences
  <1>6. ASSUME NEW w \in Workers, Process(w) \/ Renew(w) \/ WorkerError(w) \/ WorkerCrash(w)
        PROVE  FenceInv'
    BY <1>1, <1>6, WorkKeepsClaims, WorkGrows, GrowthKeepsFences
  <1>7. ASSUME NEW s \in Sources, SourceExpires(s) \/ \E e \in Epochs : LeaseTick(s, e)
        PROVE  FenceInv'
    <2>1. ClaimsStay
      BY <1>7 DEF SourceExpires, LeaseTick, ClaimsStay, Busy
    <2> QED
      BY <1>1, <1>7, <2>1, WorkGrows, GrowthKeepsFences
  <1> QED
    BY <1>2, <1>3, <1>4, <1>5, <1>6, <1>7 DEF Next

\* The fence invariant holds always: claims are never ahead of the epoch of their
\* source or the fence of their job, and no fence is handed out twice.
THEOREM FenceInvariant == Spec => [](TypeInv /\ FenceInv)
  <1>1. Init => FenceInv
    BY DEF Init, FenceInv, ClaimsAreNotAhead, FencesBoundClaims, FencesAreUnique, Busy, Idle
  <1> QED
    BY <1>1, TypeInvInit, TypeInvNext, FenceInvNext, PTL DEF Spec

\* At most one worker can store, renew, publish or fail the work of a source.
THEOREM Fenced == Spec => []OneHolder
  <1>1. TypeInv /\ FenceInv => OneHolder
    <2> SUFFICES ASSUME FencesAreUnique, NEW v \in Workers, NEW w \in Workers, v # w,
                        WorkerHolds(v), WorkerHolds(w), worker[v].claim.source = worker[w].claim.source
                 PROVE  FALSE
      BY DEF OneHolder, FenceInv
    <2>1. ASSUME NEW u, WorkerHolds(u)
          PROVE  LET cl == worker[u].claim IN
                 /\ Busy(u) /\ cl.epoch = source[cl.source].epoch
                 /\ cl.fence = jobs[cl.source][cl.epoch].fence
      BY <2>1 DEF WorkerHolds, Current, SourceIsClaimed
    <2>2. worker[v].claim.epoch = worker[w].claim.epoch
      BY <2>1
    <2>3. worker[v].claim.fence = worker[w].claim.fence
      BY <2>1, <2>2
    <2>4. Busy(v) /\ Busy(w)
      BY <2>1
    <2> QED
      BY <2>2, <2>3, <2>4, Zenon DEF FencesAreUnique
  <1> QED
    BY <1>1, FenceInvariant, PTL
=============================================================================
