------------------------ MODULE RetrievalIndexProofs ------------------------
(***************************************************************************)
(* What the fenced index publishes, for any number of sources, workers,    *)
(* epochs, profiles and chunk lists.  Every step of the system is first    *)
(* sorted into one of five kinds: a quiet one, a rewrite, a removal, an    *)
(* identity migration or the commit of a publication.                      *)
(***************************************************************************)
EXTENDS RetrievalProofs, FiniteSetTheorems

-----------------------------------------------------------------------------
(* The kinds of steps *)

\* The columns of a source that say what is to be published, and what is.
SourceStays(s) ==
  LET old == source[s] new == source'[s] IN
  /\ new.epoch = old.epoch /\ new.version = old.version /\ new.content = old.content
  /\ new.target = old.target /\ new.heads = old.heads /\ new.published = old.published
  /\ new.eligible => old.eligible \/ old.heads

\* What claims, renewals, failures and the clock make of a job: a live lease is
\* only given up by ending it.
JobMoves(old, new) ==
  /\ new.profile = old.profile
  /\ \/ new.state = old.state
     \/ old.state \in {"Queued", "Running"} /\ new.state \in {"Queued", "Running", "Failed"}
  /\ old.state = "Running" /\ old.lease > 0 /\ new.lease > 0 =>
       new.state = "Running" /\ new.fence = old.fence

Quiet ==
  /\ \A s \in Sources : SourceStays(s)
  /\ \A s \in Sources, e \in Epochs : JobMoves(jobs[s][e], jobs'[s][e])
  /\ UNCHANGED <<head, generations, chunks>>

\* The row and the job that a put with other content, version or target leaves.
RewrittenRow(s, v, c, f, p) ==
  [source[s] EXCEPT !.eligible = f.eligible, !.shown = f.shown, !.expires = f.expires,
                    !.epoch = source[s].epoch + 1, !.version = v, !.content = c,
                    !.target = p, !.heads = TRUE]
RewrittenJob(p) ==
  IF p = NoProfile THEN NoJob ELSE [NoJob EXCEPT !.state = "Queued", !.profile = p]

Rewrites(s, v, c, f, p) ==
  /\ source[s].epoch + 1 \in Epochs
  /\ source' = [source EXCEPT ![s] = RewrittenRow(s, v, c, f, p)]
  /\ head' = [head EXCEPT ![s] = c]
  /\ jobs' = [jobs EXCEPT ![s] =
       [Supersede(s, {"Complete"}) EXCEPT ![source[s].epoch + 1] = RewrittenJob(p)]]
  /\ UNCHANGED <<accepted, generations, chunks, worker>>

Commits(w) ==
  LET cl == worker[w].claim
      generation == Len(generations[cl.source]) + 1
  IN /\ Busy(w) /\ Current(cl) /\ AllAccepted(cl)
     /\ generations' = [generations EXCEPT ![cl.source] =
          Append(@, [version |-> cl.version, profile |-> cl.profile])]
     /\ chunks' = [chunks EXCEPT ![cl.source] = JoinedRows(cl, generation)]
     /\ source' = [source EXCEPT ![cl.source] = [source[cl.source] EXCEPT !.published = generation]]
     /\ jobs' = [jobs EXCEPT ![cl.source][cl.epoch] =
          [jobs[cl.source][cl.epoch] EXCEPT !.state = "Complete", !.lease = 0]]
     /\ UNCHANGED <<head, accepted>>

\* Steps that leave the tables alone are quiet.
LEMMA StutterIsQuiet ==
  ASSUME UNCHANGED <<source, head, jobs, generations, chunks>>
  PROVE  Quiet
  BY DEF Quiet, SourceStays, JobMoves

\* So is a step that moves one job as JobMoves says, or none.
LEMMA OneJobIsQuiet ==
  ASSUME TypeOK, NEW s \in Sources, NEW e \in Epochs, NEW job,
         JobMoves(jobs[s][e], job), jobs' = [jobs EXCEPT ![s][e] = job],
         UNCHANGED <<source, head, generations, chunks>>
  PROVE  Quiet
  <1>1. \A t \in Sources, d \in Epochs : jobs'[t][d] = IF t = s /\ d = e THEN job ELSE jobs[t][d]
    BY DEF TypeOK
  <1>2. \A t \in Sources, d \in Epochs : JobMoves(jobs[t][d], jobs[t][d])
    BY DEF JobMoves
  <1>3. \A t \in Sources, d \in Epochs : JobMoves(jobs[t][d], jobs'[t][d])
    BY <1>1, <1>2
  <1> QED
    BY <1>3 DEF Quiet, SourceStays

\* claim only takes or sweeps jobs that nobody holds.
LEMMA ClaimIsQuiet ==
  ASSUME TypeOK, NEW w \in Workers, NEW p \in Profiles, NEW locked \in SUBSET Sources,
         Claim(w, p, locked)
  PROVE  Quiet
  <1> DEFINE swept == FailExhausted(p, locked)
  <1>0. UNCHANGED <<source, head, generations, chunks>>
    BY DEF Claim
  <1>1. ASSUME NEW s \in Sources, NEW e \in Epochs PROVE JobMoves(jobs[s][e], swept[s][e])
    <2> DEFINE j == jobs[s][e]
               failed == [j EXCEPT !.state = "Failed", !.fence = @ + 1, !.lease = 0]
    <2>1. j \in JobRow
      BY DEF TypeOK
    <2>2. swept[s][e] = j \/ (j.state = "Running" /\ j.lease = 0 /\ swept[s][e] = failed)
      BY DEF FailExhausted, LeaseLapsed
    <2> HIDE DEF j, swept
    <2>3. failed.profile = j.profile /\ failed.state = "Failed"
      BY <2>1 DEF JobRow
    <2> HIDE DEF failed
    <2>4. JobMoves(j, swept[s][e])
      BY <2>2, <2>3 DEF JobMoves
    <2> QED
      BY <2>4 DEF j
  <1>2. CASE jobs' = swept
    BY <1>0, <1>1, <1>2 DEF Quiet, SourceStays
  <1>3. ASSUME NEW s \in Claimable(p) \ locked,
               jobs' = [swept EXCEPT ![s][source[s].epoch] = TakeJob(@)]
        PROVE  Quiet
    <2> DEFINE e == source[s].epoch
               j == jobs[s][e]
               taken == TakeJob(j)
    <2>1. s \in Sources /\ e \in Epochs /\ j \in JobRow /\ swept[s][e] = j
      BY ClaimableJob
    <2>2. j.state = "Queued" \/ (j.state = "Running" /\ j.lease = 0)
      BY DEF Claimable, CurrentJob, LeaseLapsed
    <2>3. taken.state = "Running" /\ taken.profile = j.profile
      BY <2>1 DEF TakeJob, JobRow
    <2>4. swept \in [Sources -> [Epochs -> JobRow]]
      BY SweepType
    <2>5. jobs' = [swept EXCEPT ![s][e] = taken]
      BY <1>3, <2>1, <2>4
    <2> HIDE DEF e, taken, swept
    <2>6. \A t \in Sources, d \in Epochs : jobs'[t][d] = IF t = s /\ d = e THEN taken ELSE swept[t][d]
      BY <2>1, <2>4, <2>5
    <2>7. JobMoves(jobs[s][e], taken)
      BY <2>2, <2>3 DEF JobMoves
    <2>8. \A t \in Sources, d \in Epochs : JobMoves(jobs[t][d], jobs'[t][d])
      BY <1>1, <2>6, <2>7
    <2> QED
      BY <1>0, <2>8 DEF Quiet, SourceStays
  <1> QED
    BY <1>2, <1>3 DEF Claim

\* process and its heartbeat are quiet, but for the commit of a publication.
LEMMA WorkIsQuietOrCommits ==
  ASSUME TypeOK, NEW w \in Workers, Process(w) \/ Renew(w) \/ WorkerError(w) \/ WorkerCrash(w)
  PROVE  Quiet \/ Commits(w)
  <1> DEFINE cl == worker[w].claim
             j == jobs[cl.source][cl.epoch]
  <1>b. Busy(w)
    BY DEF Process, CheckBatch, Embed, Accept, Fail, Publish, Renew, WorkerError, WorkerCrash, Busy
  <1>c. cl.source \in Sources /\ cl.epoch \in Epochs /\ j \in JobRow
    BY <1>b, FenceTypes DEF TypeOK
  <1>1. CASE UNCHANGED <<source, head, jobs, generations, chunks>>
    BY <1>1, StutterIsQuiet
  <1>2. CASE Fail(w)
    <2> DEFINE state == IF j.attempts >= AttemptLimit THEN "Failed" ELSE "Queued"
               ended == [j EXCEPT !.state = state, !.lease = 0]
    <2>0. UNCHANGED <<source, head, generations, chunks>>
      BY <1>2 DEF Fail
    <2>1. \/ UNCHANGED jobs
          \/ Current(cl) /\ jobs' = [jobs EXCEPT ![cl.source][cl.epoch] = ended]
      BY <1>2 DEF Fail
    <2>2. CASE UNCHANGED jobs
      BY <2>0, <2>2, <1>1
    <2>3. CASE Current(cl) /\ jobs' = [jobs EXCEPT ![cl.source][cl.epoch] = ended]
      <3>1. j.state = "Running" /\ state \in {"Queued", "Failed"}
        BY <2>3 DEF Current
      <3> HIDE DEF j, state
      <3>2. ended.profile = j.profile /\ ended.state = state /\ ended.lease = 0
        BY <1>c DEF JobRow
      <3> HIDE DEF ended
      <3>3. JobMoves(j, ended)
        BY <3>1, <3>2 DEF JobMoves
      <3> QED
        BY <1>c, <2>0, <2>3, <3>3, OneJobIsQuiet DEF j
    <2> QED
      BY <2>1, <2>2, <2>3
  <1>3. CASE Renew(w)
    <2> DEFINE kept == [j EXCEPT !.lease = LeaseTicks]
    <2>0. UNCHANGED <<source, head, generations, chunks>>
      BY <1>3 DEF Renew
    <2>1. UNCHANGED jobs \/ jobs' = [jobs EXCEPT ![cl.source][cl.epoch] = kept]
      BY <1>3 DEF Renew
    <2>2. CASE UNCHANGED jobs
      BY <2>0, <2>2, <1>1
    <2>3. CASE jobs' = [jobs EXCEPT ![cl.source][cl.epoch] = kept]
      <3> HIDE DEF j
      <3>1. kept.profile = j.profile /\ kept.state = j.state /\ kept.fence = j.fence
        BY <1>c DEF JobRow
      <3> HIDE DEF kept
      <3>2. JobMoves(j, kept)
        BY <3>1 DEF JobMoves
      <3> QED
        BY <1>c, <2>0, <2>3, <3>2, OneJobIsQuiet DEF j
    <2> QED
      BY <2>1, <2>2, <2>3
  <1>4. ASSUME NEW lost \in BOOLEAN, Publish(w, lost) PROVE Quiet \/ Commits(w)
    <2>1. CASE UNCHANGED tables
      BY <2>1, <1>1 DEF tables
    <2>2. CASE ~UNCHANGED tables
      BY <1>4, <1>b, <2>2 DEF Publish, Commits
    <2> QED
      BY <2>1, <2>2
  <1> QED
    BY <1>1, <1>2, <1>3, <1>4
       DEF Process, CheckBatch, Embed, Accept, WorkerError, WorkerCrash, tables

\* A put of what is already there is quiet; another one rewrites.
LEMMA PutIsQuietOrRewrites ==
  ASSUME TypeOK, NEW s \in Sources, NEW v \in Versions, NEW c \in Contents, NEW f \in Flags,
         NEW p \in Targets, Put(s, v, c, f, p)
  PROVE  Quiet \/ Rewrites(s, v, c, f, p)
  <1> DEFINE old == source[s]
             flagged == [old EXCEPT !.eligible = f.eligible, !.shown = f.shown, !.expires = f.expires]
             epoch == old.epoch + 1
             row == [flagged EXCEPT !.epoch = epoch, !.version = v, !.content = c,
                                    !.target = p, !.heads = TRUE]
  <1>1. old \in SourceRow
    BY DEF TypeOK
  <1>2. UNCHANGED <<accepted, generations, chunks, worker>>
    BY DEF Put
  <1>3. \/ old.heads /\ source' = [source EXCEPT ![s] = flagged] /\ UNCHANGED <<head, jobs>>
        \/ /\ epoch \in Epochs
           /\ source' = [source EXCEPT ![s] = row]
           /\ head' = [head EXCEPT ![s] = c]
           /\ jobs' = [jobs EXCEPT ![s] = [Supersede(s, {"Complete"}) EXCEPT ![epoch] = RewrittenJob(p)]]
    BY DEF Put, RewrittenJob
  <1>4. CASE old.heads /\ source' = [source EXCEPT ![s] = flagged] /\ UNCHANGED <<head, jobs>>
    <2>1. \A t \in Sources : source'[t] = IF t = s THEN flagged ELSE source[t]
      BY <1>4 DEF TypeOK
    <2>2. /\ flagged.epoch = old.epoch /\ flagged.version = old.version /\ flagged.content = old.content
          /\ flagged.target = old.target /\ flagged.heads = old.heads
          /\ flagged.published = old.published
      BY <1>1 DEF SourceRow
    <2> HIDE DEF flagged
    <2>3. SourceStays(s)
      BY <1>4, <2>1, <2>2 DEF SourceStays
    <2>4. \A t \in Sources : SourceStays(t)
      BY <2>1, <2>3 DEF SourceStays
    <2> QED
      BY <1>2, <1>4, <2>4 DEF Quiet, JobMoves
  <1>5. row = RewrittenRow(s, v, c, f, p)
    BY <1>1 DEF SourceRow, RewrittenRow
  <1>6. CASE /\ epoch \in Epochs
             /\ source' = [source EXCEPT ![s] = row]
             /\ head' = [head EXCEPT ![s] = c]
             /\ jobs' = [jobs EXCEPT ![s] = [Supersede(s, {"Complete"}) EXCEPT ![epoch] = RewrittenJob(p)]]
    BY <1>2, <1>5, <1>6 DEF Rewrites
  <1> QED
    BY <1>3, <1>4, <1>6

\* The clock is quiet.
LEMMA ClockIsQuiet ==
  ASSUME TypeOK, NEW s \in Sources, SourceExpires(s) \/ \E e \in Epochs : LeaseTick(s, e)
  PROVE  Quiet
  <1>1. CASE SourceExpires(s)
    <2> DEFINE old == source[s]
               row == [old EXCEPT !.expires = "past"]
    <2>1. old \in SourceRow /\ \A t \in Sources : source'[t] = IF t = s THEN row ELSE source[t]
      BY <1>1 DEF TypeOK, SourceExpires
    <2>2. /\ row.epoch = old.epoch /\ row.version = old.version /\ row.content = old.content
          /\ row.target = old.target /\ row.heads = old.heads
          /\ row.published = old.published /\ row.eligible = old.eligible
      BY <2>1 DEF SourceRow
    <2> HIDE DEF row
    <2>3. SourceStays(s)
      BY <2>1, <2>2 DEF SourceStays
    <2>4. \A t \in Sources : SourceStays(t)
      BY <2>1, <2>3 DEF SourceStays
    <2> QED
      BY <1>1, <2>4 DEF Quiet, JobMoves, SourceExpires
  <1>2. ASSUME NEW e \in Epochs, LeaseTick(s, e) PROVE Quiet
    <2> DEFINE j == jobs[s][e]
               n == j.lease - 1
               kept == [j EXCEPT !.lease = n]
    <2>1. j \in JobRow /\ jobs' = [jobs EXCEPT ![s][e] = kept] /\ UNCHANGED <<source, head, generations, chunks>>
      BY <1>2 DEF TypeOK, LeaseTick
    <2> HIDE DEF j, n
    <2>2. kept.profile = j.profile /\ kept.state = j.state /\ kept.fence = j.fence
      BY <2>1 DEF JobRow
    <2> HIDE DEF kept
    <2>3. JobMoves(j, kept)
      BY <2>2 DEF JobMoves
    <2> QED
      BY <2>1, <2>3, OneJobIsQuiet DEF j
  <1> QED
    BY <1>1, <1>2

\* Every step of the system is of one of the five kinds.
LEMMA StepKinds ==
  ASSUME TypeOK, [Next]_vars
  PROVE  \/ Quiet
         \/ \E s \in Sources, v \in Versions, c \in Contents, f \in Flags, p \in Targets :
              Rewrites(s, v, c, f, p)
         \/ \E s \in Sources : Remove(s)
         \/ \E q \in Profiles, approved \in SUBSET Profiles : MigrateModelIdentities(q, approved)
         \/ \E w \in Workers : Commits(w)
  <1>1. CASE UNCHANGED vars
    BY <1>1, StutterIsQuiet DEF vars
  <1>2. CASE Next
    BY <1>2, PutIsQuietOrRewrites, ClockIsQuiet, ClaimIsQuiet, WorkIsQuietOrCommits DEF Next
  <1> QED
    BY <1>1, <1>2

Label(q, approved, p) == IF p \in approved THEN q ELSE p

\* What the identity migration makes of the rows of one source.
Relabelled(s, q, approved) ==
  LET old == source[s] new == source'[s] IN
  /\ new.epoch = old.epoch /\ new.version = old.version /\ new.content = old.content
  /\ new.target = Label(q, approved, old.target)
  /\ new.heads = old.heads /\ new.published = old.published /\ new.eligible = old.eligible
  /\ \A e \in Epochs :
       LET j == jobs[s][e] k == jobs'[s][e] IN
       /\ k.profile = Label(q, approved, j.profile)
       /\ k.state = j.state /\ k.fence = j.fence /\ k.lease = j.lease
  /\ Len(generations'[s]) = Len(generations[s])
  /\ \A g \in 1..Len(generations[s]) :
       generations'[s][g] = [version |-> generations[s][g].version,
                             profile |-> Label(q, approved, generations[s][g].profile)]
  /\ DOMAIN chunks'[s] = DOMAIN chunks[s]
  /\ \A i \in DOMAIN chunks[s] :
       LET c == chunks[s][i] d == chunks'[s][i] IN
       /\ d.text = c.text /\ d.vector = c.vector /\ d.generation = c.generation
       /\ d.profile = Label(q, approved, c.profile)

\* The migration relabels every row of a legacy profile and touches nothing else.
LEMMA MigrationRelabels ==
  ASSUME TypeOK, NEW q \in Profiles, NEW approved \in SUBSET Profiles,
         MigrateModelIdentities(q, approved), NEW s \in Sources
  PROVE  Relabelled(s, q, approved) /\ UNCHANGED <<head, accepted, worker>>
  <1> DEFINE L(p) == Label(q, approved, p)
  <1>1. /\ source'[s] = [source[s] EXCEPT !.target = L(source[s].target)]
        /\ \A e \in Epochs : jobs'[s][e] = [jobs[s][e] EXCEPT !.profile = L(jobs[s][e].profile)]
        /\ generations'[s] = [i \in DOMAIN generations[s] |->
             [generations[s][i] EXCEPT !.profile = L(generations[s][i].profile)]]
        /\ chunks'[s] = [i \in DOMAIN chunks[s] |-> [chunks[s][i] EXCEPT !.profile = L(chunks[s][i].profile)]]
        /\ UNCHANGED <<head, accepted, worker>>
    BY DEF MigrateModelIdentities, Label
  <1> HIDE DEF L
  <1>2. LET old == source[s] new == source'[s] IN
        /\ new.epoch = old.epoch /\ new.version = old.version /\ new.content = old.content
        /\ new.target = L(old.target)
        /\ new.heads = old.heads /\ new.published = old.published /\ new.eligible = old.eligible
    <2>1. source[s] \in SourceRow
      BY DEF TypeOK
    <2> QED
      BY <1>1, <2>1 DEF SourceRow
  <1>3. ASSUME NEW e \in Epochs
        PROVE  LET j == jobs[s][e] k == jobs'[s][e] IN
               /\ k.profile = L(j.profile)
               /\ k.state = j.state /\ k.fence = j.fence /\ k.lease = j.lease
    <2>1. jobs[s][e] \in JobRow
      BY DEF TypeOK
    <2> QED
      BY <1>1, <2>1, SMTT(20), ZenonT(60) DEF JobRow
  <1>4. /\ Len(generations'[s]) = Len(generations[s])
        /\ \A g \in 1..Len(generations[s]) :
             generations'[s][g] = [version |-> generations[s][g].version, profile |-> L(generations[s][g].profile)]
    <2>1. generations[s] \in Seq(GenerationRow)
      BY DEF TypeOK
    <2>2. DOMAIN generations[s] = 1..Len(generations[s]) /\ Len(generations[s]) \in Nat
      BY <2>1
    <2>3. Len(generations'[s]) = Len(generations[s])
      BY <1>1, <2>2
    <2>4. ASSUME NEW g \in 1..Len(generations[s])
          PROVE  generations'[s][g] = [version |-> generations[s][g].version, profile |-> L(generations[s][g].profile)]
      <3>1. generations[s][g] \in GenerationRow
        BY <2>1
      <3>2. generations'[s][g] = [generations[s][g] EXCEPT !.profile = L(generations[s][g].profile)]
        BY <1>1, <2>2
      <3> QED
        BY <3>1, <3>2 DEF GenerationRow
    <2> QED
      BY <2>3, <2>4
  <1>5. /\ DOMAIN chunks'[s] = DOMAIN chunks[s]
        /\ \A i \in DOMAIN chunks[s] :
             LET c == chunks[s][i] d == chunks'[s][i] IN
             /\ d.text = c.text /\ d.vector = c.vector /\ d.generation = c.generation
             /\ d.profile = L(c.profile)
    <2>1. \A i \in DOMAIN chunks[s] : chunks[s][i] \in ChunkRow
      BY DEF TypeOK
    <2>2. ASSUME NEW i \in DOMAIN chunks[s]
          PROVE  LET c == chunks[s][i] d == chunks'[s][i] IN
                 /\ d.text = c.text /\ d.vector = c.vector /\ d.generation = c.generation
                 /\ d.profile = L(c.profile)
      BY <1>1, <2>1 DEF ChunkRow
    <2> QED
      BY <1>1, <2>2
  <1> QED
    BY <1>1, <1>2, <1>3, <1>4, <1>5 DEF Relabelled, L

\* The canonical profile of a relabelled profile is the one it had.
LEMMA LabelIsCanonical ==
  ASSUME TypeOK, NEW q \in Profiles, NEW approved \in SUBSET Profiles,
         MigrateModelIdentities(q, approved)
  PROVE  /\ \A p \in Profiles : Label(q, approved, p) \in Profiles
                                /\ Canonical[Label(q, approved, p)] = Canonical[p]
         /\ Label(q, approved, NoProfile) = NoProfile
  BY RetrievalAssumption DEF MigrateModelIdentities, Label

-----------------------------------------------------------------------------
(* A live claim is lost only to the application *)

\* A claim whose lease is live and stays live is never taken by another worker's
\* claim, by the sweep of exhausted jobs or by the identity migration.
THEOREM LiveClaimsKept == Spec => LiveClaimsAreNotStolen
  <1> DEFINE Kept ==
        \A w \in Workers :
          LET cl == worker[w].claim IN
          /\ WorkerHolds(w) /\ worker'[w] = worker[w]
          /\ source'[cl.source].epoch = cl.epoch /\ source'[cl.source].eligible
          /\ source'[cl.source].expires # "past"
          /\ jobs'[cl.source][cl.epoch].lease > 0
          => WorkerHolds(w)'
  <1>1. ASSUME TypeOK, [Next]_vars PROVE Kept
    <2> SUFFICES ASSUME NEW w \in Workers, WorkerHolds(w), worker'[w] = worker[w],
                        source'[worker[w].claim.source].epoch = worker[w].claim.epoch,
                        source'[worker[w].claim.source].eligible,
                        source'[worker[w].claim.source].expires # "past",
                        jobs'[worker[w].claim.source][worker[w].claim.epoch].lease > 0
                 PROVE  WorkerHolds(w)'
      OBVIOUS
    <2> DEFINE cl == worker[w].claim
               s == cl.source
               e == cl.epoch
    <2>c. s \in Sources /\ e \in Epochs /\ e \in Nat /\ source[s].epoch \in Nat
      BY <1>1, FenceTypes DEF WorkerHolds
    <2>h. /\ Busy(w) /\ Current(cl) /\ source[s].epoch = e /\ source[s].target = cl.profile
          /\ source[s].version = cl.version /\ source[s].content = cl.chunks
          /\ jobs[s][e].state = "Running" /\ jobs[s][e].lease > 0
          /\ jobs[s][e].fence = cl.fence /\ jobs[s][e].profile = cl.profile
      BY DEF WorkerHolds, Current, SourceIsClaimed
    <2> DEFINE Same ==
          /\ source'[s].target = cl.profile /\ source'[s].version = cl.version
          /\ source'[s].content = cl.chunks
          /\ jobs'[s][e].state = "Running"
          /\ jobs'[s][e].fence = cl.fence /\ jobs'[s][e].profile = cl.profile
    <2>g. SUFFICES Same
      BY <2>g, <2>h DEF WorkerHolds, Current, SourceIsClaimed, Busy
    <2>1. CASE Quiet
      <3>1. SourceStays(s) /\ JobMoves(jobs[s][e], jobs'[s][e])
        BY <2>1, <2>c DEF Quiet
      <3> QED
        BY <2>h, <3>1 DEF SourceStays, JobMoves
    <2>2. ASSUME NEW t \in Sources, NEW v \in Versions, NEW c \in Contents, NEW f \in Flags,
                 NEW p \in Targets, Rewrites(t, v, c, f, p)
          PROVE  Same
      <3>1. CASE t = s
        <4> DEFINE n == source[s].epoch + 1
        <4>1. source[s] \in SourceRow /\ source'[s] = RewrittenRow(s, v, c, f, p)
          BY <1>1, <2>2, <2>c, <3>1 DEF TypeOK, Rewrites
        <4>2. RewrittenRow(s, v, c, f, p).epoch = n
          BY <4>1 DEF SourceRow, RewrittenRow
        <4>3. source'[s].epoch = source[s].epoch + 1 /\ source'[s].epoch = source[s].epoch
          BY <2>h, <4>1, <4>2, Zenon
        <4> QED
          BY ONLY <2>c, <4>3
      <3>2. CASE t # s
        <4>1. source'[s] = source[s] /\ jobs'[s] = jobs[s]
          BY <1>1, <2>2, <2>c, <3>2 DEF TypeOK, Rewrites
        <4> QED
          BY <2>h, <4>1
      <3> QED
        BY <3>1, <3>2
    <2>3. ASSUME NEW t \in Sources, Remove(t) PROVE Same
      <3>1. CASE t = s
        <4>1. source[s] \in SourceRow
          BY <1>1, <2>c DEF TypeOK
        <4> DEFINE n == source[s].epoch + 1
                   row == [source[s] EXCEPT !.eligible = FALSE, !.shown = FALSE, !.epoch = n,
                                            !.published = 0, !.heads = FALSE]
        <4>2. source'[s] = row
          BY <1>1, <2>3, <2>c, <3>1 DEF TypeOK, Remove
        <4>3. row.eligible = FALSE
          BY <4>1 DEF SourceRow
        <4> QED
          BY <4>2, <4>3
      <3>2. CASE t # s
        <4>1. source'[s] = source[s] /\ jobs'[s] = jobs[s]
          BY <1>1, <2>3, <2>c, <3>2 DEF TypeOK, Remove
        <4> QED
          BY <2>h, <4>1
      <3> QED
        BY <3>1, <3>2
    <2>4. ASSUME NEW q \in Profiles, NEW approved \in SUBSET Profiles,
                 MigrateModelIdentities(q, approved)
          PROVE  Same
      <3> DEFINE j == jobs[s][e]
      <3>1. j.profile \in approved => j.state # "Running" \/ j.lease = 0
        BY <2>4, <2>c DEF MigrateModelIdentities
      <3>2. cl.profile \notin approved
        BY ONLY <2>h, <3>1
      <3>3. Label(q, approved, cl.profile) = cl.profile
        BY <3>2 DEF Label
      <3>4. Relabelled(s, q, approved)
        BY <1>1, <2>4, <2>c, MigrationRelabels
      <3>5. /\ source'[s].version = source[s].version /\ source'[s].content = source[s].content
            /\ source'[s].target = Label(q, approved, source[s].target)
        BY <3>4, Zenon DEF Relabelled
      <3>6. /\ jobs'[s][e].profile = Label(q, approved, jobs[s][e].profile)
            /\ jobs'[s][e].state = jobs[s][e].state /\ jobs'[s][e].fence = jobs[s][e].fence
        BY <2>c, <3>4, Zenon DEF Relabelled
      <3> QED
        BY <2>h, <3>3, <3>5, <3>6
    <2>5. ASSUME NEW v \in Workers, Commits(v) PROVE Same
      <3> DEFINE dl == worker[v].claim
                 done == [jobs[dl.source][dl.epoch] EXCEPT !.state = "Complete", !.lease = 0]
                 row == [source[dl.source] EXCEPT !.published = Len(generations[dl.source]) + 1]
      <3>1. dl.source \in Sources /\ dl.epoch \in Epochs
        BY <1>1, <2>5, FenceTypes DEF Commits
      <3>2. jobs' = [jobs EXCEPT ![dl.source][dl.epoch] = done] /\ source' = [source EXCEPT ![dl.source] = row]
        BY <2>5 DEF Commits
      <3>3. done.lease = 0
        <4>1. jobs[dl.source][dl.epoch] \in JobRow
          BY <1>1, <3>1 DEF TypeOK
        <4> QED
          BY <4>1 DEF JobRow
      <3>4. jobs'[s][e] = jobs[s][e]
        <4> HIDE DEF done
        <4>1. \A t \in Sources, d \in Epochs :
                jobs'[t][d] = IF t = dl.source /\ d = dl.epoch THEN done ELSE jobs[t][d]
          BY <1>1, <3>1, <3>2 DEF TypeOK
        <4> QED
          BY <2>c, <3>3, <4>1
      <3>5. source'[s] = source[s] \/ source'[s] = [source[s] EXCEPT !.published = Len(generations[dl.source]) + 1]
        BY <1>1, <2>c, <3>1, <3>2 DEF TypeOK
      <3>6. source'[s].target = source[s].target /\ source'[s].version = source[s].version
            /\ source'[s].content = source[s].content
        <4>1. source[s] \in SourceRow
          BY <1>1, <2>c DEF TypeOK
        <4> DEFINE g == Len(generations[dl.source]) + 1
        <4>2. source'[s] = source[s] \/ source'[s] = [source[s] EXCEPT !.published = g]
          BY <3>5
        <4> HIDE DEF g
        <4> QED
          BY <4>1, <4>2 DEF SourceRow
      <3> QED
        BY <2>h, <3>4, <3>6
    <2> QED
      BY <1>1, <2>1, <2>2, <2>3, <2>4, <2>5, StepKinds
  <1>2. TypeOK /\ [Next]_vars => [Kept]_vars
    BY <1>1
  <1> QED
    BY <1>2, TypeCorrect, PTL DEF Spec, LiveClaimsAreNotStolen

-----------------------------------------------------------------------------
(* The index invariant *)

\* The head of a written source is the content its digest was taken of, and the
\* indexer is only offered sources with a head.
HeadIsWritten(s) ==
  LET row == source[s] IN
  /\ row.heads => row.epoch # 0 /\ head[s] = row.content
  /\ row.eligible => row.heads

\* A vector stored for the current epoch is of the text at its ordinal, in the
\* space of the target; nothing is stored for an epoch to come.
StoredFits(s) ==
  LET row == source[s] IN
  \A e \in Epochs, i \in Ordinals : accepted[s][e][i] # NoVector =>
    /\ e <= row.epoch
    /\ e = row.epoch /\ row.heads =>
         /\ i <= Len(row.content) /\ row.target \in Profiles
         /\ accepted[s][e][i].text = row.content[i]
         /\ accepted[s][e][i].space = Canonical[row.target]

\* What a worker brings to accept are the vectors of its claim's texts.
EmbeddedFits ==
  \A w \in Workers : worker[w].pc = "accept" =>
    \A i \in Batch(w) :
      /\ worker[w].vectors[i] # NoVector
      /\ worker[w].vectors[i].text = worker[w].claim.chunks[i]
      /\ worker[w].vectors[i].space = Canonical[worker[w].claim.profile]

\* The promise of PublishedIsWhole for one source.
WholePublication(s) ==
  LET g == source[s].published IN
  /\ g \in 0..Len(generations[s])
  /\ g = 0 => DOMAIN chunks[s] = {}
  /\ g # 0 => \E n \in 0..MaxChunks :
       /\ DOMAIN chunks[s] = 1..n
       /\ \A i \in 1..n :
            LET row == chunks[s][i] IN
            /\ row.generation = g /\ row.profile = generations[s][g].profile
            /\ row.vector.text = row.text
            /\ row.vector.space = Canonical[generations[s][g].profile]

\* The job of the current epoch is for the current target, and Complete only when
\* the current text is the published one.
JobFollowsHead(s) ==
  LET row == source[s]
      job == jobs[s][row.epoch]
  IN row.heads /\ row.target # NoProfile =>
       /\ job.profile = row.target
       /\ job.state \in {"Queued", "Running", "Failed", "Complete"}
       /\ job.state = "Complete" =>
            /\ row.published # 0
            /\ generations[s][row.published] = [version |-> row.version, profile |-> row.target]
            /\ DOMAIN chunks[s] = DOMAIN head[s]
            /\ \A i \in DOMAIN head[s] : chunks[s][i].text = head[s][i]

SourceInv(s) == HeadIsWritten(s) /\ StoredFits(s) /\ WholePublication(s) /\ JobFollowsHead(s)
IndexInv == EmbeddedFits /\ \A s \in Sources : SourceInv(s)

\* The commit of accept.
Stores(w) ==
  LET cl == worker[w].claim IN
  /\ Busy(w) /\ worker[w].pc = "accept" /\ Current(cl)
  /\ accepted' = [accepted EXCEPT ![cl.source][cl.epoch] =
       [i \in Ordinals |-> IF i \in Batch(w) THEN worker[w].vectors[i]
                           ELSE accepted[cl.source][cl.epoch][i]]]
  /\ NextBatch(w)
  /\ UNCHANGED <<source, head, jobs, generations, chunks>>

\* Only accept writes vectors.
LEMMA OnlyAcceptStores ==
  ASSUME [Next]_vars
  PROVE  UNCHANGED accepted \/ \E w \in Workers : Stores(w)
  <1>1. ASSUME NEW w \in Workers, Accept(w) PROVE UNCHANGED accepted \/ Stores(w)
    BY <1>1 DEF Accept, Stores, Busy
  <1>2. ASSUME NEW w \in Workers, Process(w) \/ Renew(w) \/ WorkerError(w) \/ WorkerCrash(w)
        PROVE  UNCHANGED accepted \/ Stores(w)
    BY <1>1, <1>2 DEF Process, CheckBatch, Embed, Publish, Fail, Renew, WorkerError, WorkerCrash, tables
  <1>3. ASSUME NEW w \in Workers, NEW p \in Profiles, NEW locked \in SUBSET Sources, Claim(w, p, locked)
        PROVE  UNCHANGED accepted
    BY <1>3 DEF Claim
  <1>4. ASSUME NEW s \in Sources,
               \/ \E v \in Versions, c \in Contents, f \in Flags, p \in Targets : Put(s, v, c, f, p)
               \/ Remove(s) \/ SourceExpires(s) \/ \E e \in Epochs : LeaseTick(s, e)
        PROVE  UNCHANGED accepted
    BY <1>4, Zenon DEF Put, Remove, SourceExpires, LeaseTick
  <1>5. ASSUME NEW q \in Profiles, NEW approved \in SUBSET Profiles, MigrateModelIdentities(q, approved)
        PROVE  UNCHANGED accepted
    BY <1>5 DEF MigrateModelIdentities
  <1>6. CASE UNCHANGED vars
    BY <1>6 DEF vars
  <1> QED
    BY <1>2, <1>3, <1>4, <1>5, <1>6 DEF Next

\* The numbers and rows that the invariant is about.
LEMMA RowTypes ==
  ASSUME TypeOK, NEW s \in Sources
  PROVE  /\ source[s] \in SourceRow
         /\ source[s].epoch \in 0..MaxEpoch /\ source[s].epoch \in Nat
         /\ source[s].epoch # 0 => source[s].epoch \in Epochs
         /\ source[s].published \in Nat
         /\ source[s].content \in Seq(Texts) /\ Len(source[s].content) \in 0..MaxChunks
         /\ head[s] \in Seq(Texts) /\ Len(head[s]) \in 0..MaxChunks
         /\ source[s].target \in Targets
         /\ \A e \in Epochs : jobs[s][e] \in JobRow
         /\ \A e \in Epochs : accepted[s][e] \in [Ordinals -> Vector \cup {NoVector}]
         /\ generations[s] \in Seq(GenerationRow)
  <1>1. source[s] \in SourceRow
    BY DEF TypeOK
  <1>2. source[s].content \in Contents /\ head[s] \in Contents
    BY <1>1 DEF TypeOK, SourceRow
  <1>3. \A c \in Contents : c \in Seq(Texts) /\ Len(c) \in 0..MaxChunks
    BY RetrievalAssumption
  <1>4. /\ source[s].epoch \in 0..MaxEpoch /\ source[s].epoch \in Nat
        /\ source[s].epoch # 0 => source[s].epoch \in Epochs
        /\ source[s].published \in Nat /\ source[s].target \in Targets
    BY <1>1, RetrievalAssumption DEF SourceRow, Epochs
  <1> QED
    BY <1>1, <1>2, <1>3, <1>4 DEF TypeOK

\* What a worker claims.
LEMMA ClaimTypes ==
  ASSUME TypeOK, NEW w \in Workers, Busy(w)
  PROVE  LET cl == worker[w].claim IN
         /\ cl.source \in Sources /\ cl.epoch \in Epochs /\ cl.fence \in Nat
         /\ cl.profile \in Profiles /\ cl.version \in Versions
         /\ cl.chunks \in Seq(Texts) /\ Len(cl.chunks) \in 0..MaxChunks
  <1>1. worker[w].claim \in WorkClaim
    BY BusyIsWorking DEF Working
  <1>2. worker[w].claim.chunks \in Contents
    BY <1>1 DEF WorkClaim
  <1>3. \A c \in Contents : c \in Seq(Texts) /\ Len(c) \in 0..MaxChunks
    BY RetrievalAssumption
  <1> QED
    BY <1>1, <1>2, <1>3 DEF WorkClaim

\* Empty tables satisfy the index invariant.
LEMMA IndexInvInit == Init => IndexInv
  <1> SUFFICES ASSUME Init PROVE IndexInv
    OBVIOUS
  <1>1. EmbeddedFits
    BY DEF Init, EmbeddedFits, Idle
  <1>2. ASSUME NEW s \in Sources PROVE SourceInv(s)
    <2>1. /\ source[s].heads = FALSE /\ source[s].eligible = FALSE /\ source[s].published = 0
          /\ generations[s] = <<>> /\ chunks[s] = NoChunks
          /\ \A e \in Epochs, i \in Ordinals : accepted[s][e][i] = NoVector
      BY DEF Init, NoRow, NoVectors
    <2>2. HeadIsWritten(s) /\ StoredFits(s) /\ JobFollowsHead(s)
      BY <2>1 DEF HeadIsWritten, StoredFits, JobFollowsHead
    <2>3. WholePublication(s)
      BY <2>1 DEF WholePublication, NoChunks
    <2> QED
      BY <2>2, <2>3 DEF SourceInv
  <1> QED
    BY <1>1, <1>2 DEF IndexInv

\* How a step leaves one worker: only documents brings it to accept, with the
\* vectors of its batch.
LEMMA EmbeddedFitsNext == TypeOK /\ EmbeddedFits /\ [Next]_vars => EmbeddedFits'
  <1> SUFFICES ASSUME TypeOK, EmbeddedFits, [Next]_vars PROVE EmbeddedFits'
    OBVIOUS
  <1> DEFINE Fits(w) == \A i \in Batch(w) :
               /\ worker[w].vectors[i] # NoVector
               /\ worker[w].vectors[i].text = worker[w].claim.chunks[i]
               /\ worker[w].vectors[i].space = Canonical[worker[w].claim.profile]
  <1>0. worker \in [Workers -> Working \cup {Idle}]
    BY DEF TypeOK
  <1>1. ASSUME NEW w \in Workers, worker'[w] = worker[w], worker'[w].pc = "accept" PROVE Fits(w)'
    BY <1>1 DEF EmbeddedFits, Batch
  <1>2. ASSUME NEW w \in Workers, NEW n \in Nonces, Embed(w, n) PROVE Fits(w)'
    <2> DEFINE r == worker[w]
               cl == r.claim
               vectors == [i \in Ordinals |->
                  IF i \in Batch(w)
                  THEN [text |-> cl.chunks[i], space |-> Canonical[cl.profile], nonce |-> n]
                  ELSE NoVector]
    <2>1. r \in Working /\ worker'[w] = [r EXCEPT !.pc = "accept", !.vectors = vectors]
      BY <1>0, <1>2, BusyIsWorking DEF Embed, Busy
    <2>2. \A i \in Batch(w) : /\ i \in Ordinals
                              /\ vectors[i] = [text |-> cl.chunks[i], space |-> Canonical[cl.profile], nonce |-> n]
      BY DEF Batch
    <2>3. \A i \in Batch(w) : /\ vectors[i] # NoVector /\ vectors[i].text = cl.chunks[i]
                              /\ vectors[i].space = Canonical[cl.profile]
      BY <2>2 DEF NoVector
    <2> HIDE DEF vectors
    <2>4. worker'[w].vectors = vectors /\ worker'[w].claim = cl /\ worker'[w].first = r.first
      BY <2>1 DEF Working
    <2>5. Batch(w)' = Batch(w)
      BY <2>4 DEF Batch
    <2> QED
      BY <2>3, <2>4, <2>5
  <1>3. ASSUME NEW w \in Workers, worker'[w].pc = "accept"
        PROVE  worker'[w] = worker[w] \/ \E n \in Nonces : Embed(w, n)
    <2>0. ASSUME NEW r, worker' = [worker EXCEPT ![w] = r] PROVE worker'[w] = r
      BY <1>0, <2>0
    <2>1. ASSUME NEW v \in Workers, NEW r, worker' = [worker EXCEPT ![v] = r], r.pc # "accept"
          PROVE  worker'[w] = worker[w]
      BY <1>0, <1>3, <2>1
    <2>2. ASSUME NEW v \in Workers, Busy(v), Fails(v) PROVE worker'[w] = worker[w]
      <3>1. worker[v] \in Working
        BY <2>2, BusyIsWorking
      <3>2. [worker[v] EXCEPT !.pc = "failing", !.first = 1, !.vectors = NoVectors].pc = "failing"
        BY <3>1 DEF Working
      <3> QED
        BY <2>1, <2>2, <3>2 DEF Fails
    <2>3. ASSUME NEW v \in Workers, Busy(v), NextBatch(v) PROVE worker'[w] = worker[w]
      <3> DEFINE next == worker[v].first + BatchSize
                 pc == IF next > Len(worker[v].claim.chunks) THEN "publish" ELSE "check"
                 r == [worker[v] EXCEPT !.first = next, !.vectors = NoVectors, !.pc = pc]
      <3>1. worker[v] \in Working /\ pc # "accept"
        BY <2>3, BusyIsWorking
      <3>2. worker' = [worker EXCEPT ![v] = r]
        BY <2>3 DEF NextBatch
      <3> HIDE DEF next, pc
      <3>3. r.pc = pc
        BY <3>1 DEF Working
      <3> HIDE DEF r
      <3> QED
        BY <2>1, <3>1, <3>2, <3>3
    <2>4. ASSUME NEW v \in Workers, worker' = [worker EXCEPT ![v] = Idle] PROVE worker'[w] = worker[w]
      <3>1. Idle.pc # "accept"
        BY DEF Idle
      <3> QED
        BY <2>1, <2>4, <3>1
    <2>5. ASSUME NEW v \in Workers, Busy(v), worker' = [worker EXCEPT ![v].pc = "embed"]
          PROVE  worker'[w] = worker[w]
      <3>1. [worker[v] EXCEPT !.pc = "embed"].pc = "embed"
        BY <2>5, BusyIsWorking DEF Working
      <3> QED
        BY <2>1, <2>5, <3>1
    <2>6. ASSUME NEW v \in Workers, Process(v) \/ Renew(v) \/ WorkerError(v) \/ WorkerCrash(v)
          PROVE  worker'[w] = worker[w] \/ \E n \in Nonces : Embed(w, n)
      <3>1. Busy(v)
        BY <2>6 DEF Process, CheckBatch, Embed, Accept, Fail, Publish, Renew, WorkerError, WorkerCrash, Busy
      <3>2. \/ Fails(v) \/ NextBatch(v) \/ UNCHANGED worker
            \/ worker' = [worker EXCEPT ![v] = Idle]
            \/ worker' = [worker EXCEPT ![v].pc = "embed"]
            \/ \E n \in Nonces : Embed(v, n)
        BY <2>6 DEF Process, CheckBatch, Accept, Fail, Publish, Renew, WorkerError, WorkerCrash
      <3>3. ASSUME NEW n \in Nonces, Embed(v, n), v # w PROVE worker'[w] = worker[w]
        BY <1>0, <3>3 DEF Embed
      <3> QED
        BY <2>2, <2>3, <2>4, <2>5, <3>1, <3>2, <3>3
    <2>7. ASSUME NEW v \in Workers, NEW p \in Profiles, NEW locked \in SUBSET Sources, Claim(v, p, locked)
          PROVE  worker'[w] = worker[w]
      <3>1. ASSUME NEW s \in Claimable(p) \ locked, NEW cl,
                   worker' = [worker EXCEPT ![v] =
                     [pc |-> IF head[s] = <<>> THEN "publish" ELSE "check",
                      first |-> 1, vectors |-> NoVectors, claim |-> cl]]
            PROVE  worker'[w] = worker[w]
        <4> DEFINE r == [pc |-> IF head[s] = <<>> THEN "publish" ELSE "check",
                         first |-> 1, vectors |-> NoVectors, claim |-> cl]
        <4>1. r.pc # "accept" /\ worker' = [worker EXCEPT ![v] = r]
          BY <3>1
        <4> HIDE DEF r
        <4> QED
          BY <2>1, <4>1
      <3> QED
        BY <2>7, <3>1 DEF Claim
    <2>8. ASSUME UNCHANGED worker PROVE worker'[w] = worker[w]
      BY <2>8
    <2>9. ASSUME NEW s \in Sources,
               \/ \E v \in Versions, c \in Contents, f \in Flags, p \in Targets : Put(s, v, c, f, p)
               \/ Remove(s) \/ SourceExpires(s) \/ \E e \in Epochs : LeaseTick(s, e)
          PROVE  UNCHANGED worker
      BY <2>9, Zenon DEF Put, Remove, SourceExpires, LeaseTick
    <2>10. ASSUME NEW q \in Profiles, NEW approved \in SUBSET Profiles, MigrateModelIdentities(q, approved)
          PROVE  UNCHANGED worker
      BY <2>10 DEF MigrateModelIdentities
    <2> QED
      BY <2>6, <2>7, <2>8, <2>9, <2>10 DEF Next, vars
  <1> QED
    BY <1>1, <1>2, <1>3 DEF EmbeddedFits

\* A step that leaves the rows of a source alone keeps its invariant.
LEMMA UntouchedSource ==
  ASSUME NEW s \in Sources, SourceInv(s), source'[s] = source[s], head'[s] = head[s],
         jobs'[s] = jobs[s], accepted'[s] = accepted[s],
         generations'[s] = generations[s], chunks'[s] = chunks[s]
  PROVE  SourceInv(s)'
  BY SMTT(40), ZenonT(60) DEF SourceInv, HeadIsWritten, StoredFits, WholePublication, JobFollowsHead

\* A quiet step keeps the publication and what the job says of it.
LEMMA QuietKeepsSource ==
  ASSUME TypeOK, Quiet, NEW s \in Sources, SourceInv(s)
  PROVE  /\ HeadIsWritten(s)' /\ WholePublication(s)' /\ JobFollowsHead(s)'
         /\ UNCHANGED accepted => StoredFits(s)'
  <1>1. SourceStays(s) /\ UNCHANGED <<head, generations, chunks>>
    BY DEF Quiet
  <1>2. HeadIsWritten(s)' /\ WholePublication(s)'
    BY <1>1 DEF SourceStays, SourceInv, HeadIsWritten, WholePublication
  <1>3. UNCHANGED accepted => StoredFits(s)'
    BY <1>1 DEF SourceStays, SourceInv, StoredFits
  <1>4. JobFollowsHead(s)'
    <2> SUFFICES ASSUME source'[s].heads, source'[s].target # NoProfile
                 PROVE  LET row == source'[s]
                            job == jobs'[s][row.epoch]
                        IN /\ job.profile = row.target
                           /\ job.state \in {"Queued", "Running", "Failed", "Complete"}
                           /\ job.state = "Complete" =>
                                /\ row.published # 0
                                /\ generations'[s][row.published] = [version |-> row.version, profile |-> row.target]
                                /\ DOMAIN chunks'[s] = DOMAIN head'[s]
                                /\ \A i \in DOMAIN head'[s] : chunks'[s][i].text = head'[s][i]
      BY DEF JobFollowsHead
    <2> DEFINE e == source[s].epoch
    <2>1. source[s].heads /\ source[s].target # NoProfile /\ e \in Epochs /\ source'[s].epoch = e
      BY <1>1, RowTypes DEF SourceStays, SourceInv, HeadIsWritten
    <2>2. JobMoves(jobs[s][e], jobs'[s][e])
      BY <2>1 DEF Quiet
    <2>3. /\ jobs[s][e].profile = source[s].target
          /\ jobs[s][e].state \in {"Queued", "Running", "Failed", "Complete"}
          /\ jobs[s][e].state = "Complete" =>
                                /\ source[s].published # 0
                                /\ generations[s][source[s].published] = [version |-> source[s].version, profile |-> source[s].target]
                                /\ DOMAIN chunks[s] = DOMAIN head[s]
                                /\ \A i \in DOMAIN head[s] : chunks[s][i].text = head[s][i]
      BY <2>1 DEF SourceInv, JobFollowsHead
    <2>4. /\ jobs'[s][e].profile = source[s].target
          /\ jobs'[s][e].state \in {"Queued", "Running", "Failed", "Complete"}
          /\ jobs'[s][e].state = "Complete" => jobs[s][e].state = "Complete"
      BY <2>2, <2>3 DEF JobMoves
    <2> QED
      BY <1>1, <2>1, <2>3, <2>4 DEF SourceStays
  <1> QED
    BY <1>2, <1>3, <1>4

\* accept stores the vectors of the texts that its source still has.
LEMMA StoresFit ==
  ASSUME TypeOK, EmbeddedFits, NEW w \in Workers, Stores(w), NEW s \in Sources, SourceInv(s)
  PROVE  StoredFits(s)'
  <1> DEFINE cl == worker[w].claim
             stored == accepted[cl.source][cl.epoch]
             merged == [i \in Ordinals |-> IF i \in Batch(w) THEN worker[w].vectors[i] ELSE stored[i]]
  <1>1. /\ Busy(w) /\ worker[w].pc = "accept" /\ Current(cl)
        /\ accepted' = [accepted EXCEPT ![cl.source][cl.epoch] = merged]
        /\ UNCHANGED source
    BY DEF Stores
  <1>2. cl.source \in Sources /\ cl.epoch \in Epochs /\ cl.epoch \in Nat /\ cl.profile \in Profiles
    BY <1>1, ClaimTypes, FenceTypes
  <1>3. /\ source[cl.source].epoch = cl.epoch /\ source[cl.source].target = cl.profile
        /\ source[cl.source].content = cl.chunks
    BY <1>1 DEF Current, SourceIsClaimed
  <1>4. \A i \in Batch(w) : /\ i \in Ordinals /\ i <= Len(cl.chunks)
                            /\ merged[i].text = cl.chunks[i] /\ merged[i].space = Canonical[cl.profile]
    BY <1>1 DEF EmbeddedFits, Batch
  <1>5. \A i \in Ordinals : i \notin Batch(w) => merged[i] = stored[i]
    OBVIOUS
  <1> HIDE DEF merged
  <1>6. \A t \in Sources, e \in Epochs :
          accepted'[t][e] = IF t = cl.source /\ e = cl.epoch THEN merged ELSE accepted[t][e]
    BY <1>1, <1>2 DEF TypeOK
  <1> DEFINE Fits(row, e, i, v) ==
               /\ e <= row.epoch
               /\ e = row.epoch /\ row.heads =>
                    /\ i <= Len(row.content) /\ row.target \in Profiles
                    /\ v.text = row.content[i] /\ v.space = Canonical[row.target]
  <1>a. source'[s] = source[s]
    BY <1>1
  <1> SUFFICES ASSUME NEW e \in Epochs, NEW i \in Ordinals, accepted'[s][e][i] # NoVector
               PROVE  Fits(source'[s], e, i, accepted'[s][e][i])
    BY Zenon DEF StoredFits
  <1>b. SUFFICES Fits(source[s], e, i, accepted'[s][e][i])
    BY ONLY <1>a, <1>b, Zenon
  <1>7. CASE s = cl.source /\ e = cl.epoch /\ i \in Batch(w)
    <2>1. accepted'[s][e][i] = merged[i]
      BY <1>6, <1>7
    <2>2. e <= source[s].epoch
      BY <1>2, <1>3, <1>7
    <2> QED
      BY <1>2, <1>3, <1>4, <1>7, <2>1, <2>2
  <1>8. CASE ~(s = cl.source /\ e = cl.epoch /\ i \in Batch(w))
    <2>1. accepted'[s][e][i] = accepted[s][e][i]
      BY <1>5, <1>6, <1>8
    <2> QED
      BY <2>1 DEF SourceInv, StoredFits
  <1> QED
    BY <1>7, <1>8

\* A rewrite starts an epoch for which nothing is stored.
LEMMA RewriteKeepsSource ==
  ASSUME TypeOK, NEW s \in Sources, NEW v \in Versions, NEW c \in Contents, NEW f \in Flags,
         NEW p \in Targets, Rewrites(s, v, c, f, p), NEW t \in Sources, SourceInv(t)
  PROVE  SourceInv(t)'
  <1> DEFINE epoch == source[s].epoch + 1
             row == RewrittenRow(s, v, c, f, p)
  <1>1. CASE t # s
    <2>1. /\ source'[t] = source[t] /\ head'[t] = head[t] /\ jobs'[t] = jobs[t] /\ accepted'[t] = accepted[t]
          /\ generations'[t] = generations[t] /\ chunks'[t] = chunks[t]
      BY <1>1 DEF TypeOK, Rewrites
    <2> QED
      BY <2>1, UntouchedSource
  <1>2. CASE t = s
    <2>0. source[s] \in SourceRow /\ source[s].epoch \in Nat /\ epoch \in Epochs
      BY RowTypes DEF Rewrites
    <2>1. /\ row.epoch = epoch /\ row.version = v /\ row.content = c /\ row.target = p /\ row.heads = TRUE
          /\ row.published = source[s].published
      BY <2>0 DEF RewrittenRow, SourceRow
    <2>2. /\ source'[s] = row /\ head'[s] = c
          /\ accepted'[s] = accepted[s] /\ generations'[s] = generations[s] /\ chunks'[s] = chunks[s]
      BY DEF TypeOK, Rewrites
    <2>3. jobs'[s][epoch] = RewrittenJob(p)
      <3>1. Supersede(s, {"Complete"}) \in [Epochs -> JobRow]
        BY SupersedeType
      <3> QED
        BY <2>0, <3>1 DEF TypeOK, Rewrites
    <2> HIDE DEF epoch, row
    <2>4. epoch # 0 /\ epoch > source[s].epoch /\ epoch \in Nat
      BY <2>0 DEF epoch
    <2>5. HeadIsWritten(s)'
      BY <2>1, <2>2, <2>4 DEF HeadIsWritten
    <2>6. WholePublication(s)'
      BY <1>2, <2>1, <2>2 DEF SourceInv, WholePublication
    <2>7. JobFollowsHead(s)'
      BY <2>1, <2>2, <2>3 DEF JobFollowsHead, RewrittenJob, NoJob
    <2>8. StoredFits(s)'
      <3> SUFFICES ASSUME NEW e \in Epochs, NEW i \in Ordinals, accepted[s][e][i] # NoVector
                   PROVE  e <= epoch /\ e # epoch
        BY <2>1, <2>2 DEF StoredFits
      <3>1. e <= source[s].epoch
        BY <1>2 DEF SourceInv, StoredFits
      <3>2. e \in Nat
        BY RetrievalAssumption DEF Epochs
      <3> QED
        BY <2>0, <2>4, <3>1, <3>2
    <2> QED
      BY <1>2, <2>5, <2>6, <2>7, <2>8 DEF SourceInv
  <1> QED
    BY <1>1, <1>2

\* A removal leaves neither head nor publication.
LEMMA RemoveKeepsSource ==
  ASSUME TypeOK, NEW s \in Sources, Remove(s), NEW t \in Sources, SourceInv(t)
  PROVE  SourceInv(t)'
  <1> DEFINE epoch == source[s].epoch + 1
             row == [source[s] EXCEPT !.eligible = FALSE, !.shown = FALSE, !.epoch = epoch,
                                      !.published = 0, !.heads = FALSE]
  <1>1. CASE t # s
    <2>1. /\ source'[t] = source[t] /\ head'[t] = head[t] /\ jobs'[t] = jobs[t] /\ accepted'[t] = accepted[t]
          /\ generations'[t] = generations[t] /\ chunks'[t] = chunks[t]
      BY <1>1 DEF TypeOK, Remove
    <2> QED
      BY <2>1, UntouchedSource
  <1>2. CASE t = s
    <2>0. source[s] \in SourceRow /\ source[s].epoch \in Nat /\ epoch \in Epochs
      BY RowTypes DEF Remove
    <2>1. row.epoch = epoch /\ row.published = 0 /\ row.heads = FALSE /\ row.eligible = FALSE
      BY <2>0 DEF SourceRow
    <2>2. /\ source'[s] = row /\ head'[s] = <<>> /\ chunks'[s] = NoChunks
          /\ accepted'[s] = accepted[s] /\ generations'[s] = generations[s]
      BY DEF TypeOK, Remove
    <2> HIDE DEF epoch, row
    <2>3. epoch > source[s].epoch /\ epoch \in Nat
      BY <2>0 DEF epoch
    <2>4. HeadIsWritten(s)' /\ JobFollowsHead(s)'
      BY <2>1, <2>2 DEF HeadIsWritten, JobFollowsHead
    <2>5. WholePublication(s)'
      <3>1. DOMAIN NoChunks = {} /\ 0 \in 0..Len(generations[s])
        BY RowTypes DEF NoChunks
      <3> QED
        BY <2>1, <2>2, <3>1 DEF WholePublication
    <2>6. StoredFits(s)'
      <3> SUFFICES ASSUME NEW e \in Epochs, NEW i \in Ordinals, accepted[s][e][i] # NoVector
                   PROVE  e <= epoch
        BY <2>1, <2>2 DEF StoredFits
      <3>1. e <= source[s].epoch
        BY <1>2 DEF SourceInv, StoredFits
      <3>2. e \in Nat
        BY RetrievalAssumption DEF Epochs
      <3> QED
        BY <2>0, <2>3, <3>1, <3>2
    <2> QED
      BY <1>2, <2>4, <2>5, <2>6 DEF SourceInv
  <1> QED
    BY <1>1, <1>2

\* Relabelling everything of a profile together keeps generations whole: the
\* canonical space of their vectors is the same under the new label.
LEMMA MigrationKeepsSource ==
  ASSUME TypeOK, NEW q \in Profiles, NEW approved \in SUBSET Profiles,
         MigrateModelIdentities(q, approved), NEW s \in Sources, SourceInv(s)
  PROVE  SourceInv(s)'
  <1> DEFINE L(p) == Label(q, approved, p)
  <1>1. Relabelled(s, q, approved) /\ UNCHANGED <<head, accepted>>
    BY MigrationRelabels
  <1>2. /\ \A p \in Profiles : L(p) \in Profiles /\ Canonical[L(p)] = Canonical[p]
        /\ L(NoProfile) = NoProfile
    BY LabelIsCanonical
  <1>3. /\ source'[s].epoch = source[s].epoch /\ source'[s].content = source[s].content
        /\ source'[s].version = source[s].version /\ source'[s].target = L(source[s].target)
        /\ source'[s].heads = source[s].heads /\ source'[s].eligible = source[s].eligible
        /\ source'[s].published = source[s].published
    BY <1>1 DEF Relabelled
  <1>4. /\ Len(generations'[s]) = Len(generations[s])
        /\ \A g \in 1..Len(generations[s]) :
             generations'[s][g] = [version |-> generations[s][g].version, profile |-> L(generations[s][g].profile)]
    BY <1>1 DEF Relabelled
  <1>5. /\ DOMAIN chunks'[s] = DOMAIN chunks[s]
        /\ \A i \in DOMAIN chunks[s] :
             /\ chunks'[s][i].text = chunks[s][i].text /\ chunks'[s][i].vector = chunks[s][i].vector
             /\ chunks'[s][i].generation = chunks[s][i].generation
             /\ chunks'[s][i].profile = L(chunks[s][i].profile)
    BY <1>1 DEF Relabelled
  <1>6. \A e \in Epochs : jobs'[s][e].profile = L(jobs[s][e].profile) /\ jobs'[s][e].state = jobs[s][e].state
    BY <1>1 DEF Relabelled
  <1>7. generations[s] \in Seq(GenerationRow) /\ source[s].target \in Targets /\ source[s].published \in Nat
    BY RowTypes
  <1> HIDE DEF L
  <1>8. HeadIsWritten(s)'
    BY <1>1, <1>3 DEF SourceInv, HeadIsWritten
  <1>9. StoredFits(s)'
    BY <1>1, <1>2, <1>3 DEF SourceInv, StoredFits
  <1>10. WholePublication(s)'
    <2> DEFINE g == source[s].published
    <2>1. g \in 0..Len(generations'[s]) /\ (g = 0 => DOMAIN chunks'[s] = {})
      BY <1>4, <1>5 DEF SourceInv, WholePublication
    <2>2. ASSUME g # 0
          PROVE  \E n \in 0..MaxChunks :
                   /\ DOMAIN chunks'[s] = 1..n
                   /\ \A i \in 1..n :
                        LET row == chunks'[s][i] IN
                        /\ row.generation = g /\ row.profile = generations'[s][g].profile
                        /\ row.vector.text = row.text
                        /\ row.vector.space = Canonical[generations'[s][g].profile]
      <3>1. g \in 1..Len(generations[s])
        BY <2>2, <1>7 DEF SourceInv, WholePublication
      <3> HIDE DEF g
      <3>2. generations[s][g].profile \in Profiles
        <4>1. generations[s][g] \in GenerationRow
          BY <1>7, <3>1
        <4> QED
          BY <4>1 DEF GenerationRow
      <3>3. generations'[s][g].profile = L(generations[s][g].profile)
        <4>1. generations'[s][g] = [version |-> generations[s][g].version, profile |-> L(generations[s][g].profile)]
          BY <1>4, <3>1
        <4> QED
          BY <4>1
      <3>4. PICK n \in 0..MaxChunks :
              /\ DOMAIN chunks[s] = 1..n
              /\ \A i \in 1..n :
                   LET row == chunks[s][i] IN
                   /\ row.generation = g /\ row.profile = generations[s][g].profile
                   /\ row.vector.text = row.text
                   /\ row.vector.space = Canonical[generations[s][g].profile]
        BY <2>2 DEF SourceInv, WholePublication, g
      <3>5. Canonical[generations'[s][g].profile] = Canonical[generations[s][g].profile]
        BY <1>2, <3>2, <3>3
      <3>6. \A i \in 1..n :
              LET row == chunks'[s][i] IN
              /\ row.generation = g /\ row.profile = generations'[s][g].profile
              /\ row.vector.text = row.text
              /\ row.vector.space = Canonical[generations'[s][g].profile]
        BY <1>5, <3>3, <3>4, <3>5
      <3> QED
        BY <1>5, <3>4, <3>6
    <2> QED
      BY <1>3, <2>1, <2>2 DEF WholePublication
  <1>11. JobFollowsHead(s)'
    <2> DEFINE e == source[s].epoch
               g == source[s].published
    <2> SUFFICES ASSUME source[s].heads, L(source[s].target) # NoProfile
                 PROVE  /\ jobs'[s][e].profile = L(source[s].target)
                        /\ jobs'[s][e].state \in {"Queued", "Running", "Failed", "Complete"}
                        /\ jobs'[s][e].state = "Complete" =>
                             /\ g # 0
                             /\ generations'[s][g] = [version |-> source[s].version, profile |-> L(source[s].target)]
                             /\ DOMAIN chunks'[s] = DOMAIN head[s]
                             /\ \A i \in DOMAIN head[s] : chunks'[s][i].text = head[s][i]
      BY <1>1, <1>3 DEF JobFollowsHead
    <2>1. source[s].target # NoProfile /\ e \in Epochs
      BY <1>2, RowTypes DEF SourceInv, HeadIsWritten
    <2>2. /\ jobs[s][e].profile = source[s].target
          /\ jobs[s][e].state \in {"Queued", "Running", "Failed", "Complete"}
          /\ jobs[s][e].state = "Complete" =>
               /\ g # 0
               /\ generations[s][g] = [version |-> source[s].version, profile |-> source[s].target]
               /\ DOMAIN chunks[s] = DOMAIN head[s]
               /\ \A i \in DOMAIN head[s] : chunks[s][i].text = head[s][i]
      BY <2>1 DEF SourceInv, JobFollowsHead
    <2>3. jobs'[s][e].profile = L(source[s].target) /\ jobs'[s][e].state = jobs[s][e].state
      BY <1>6, <2>1, <2>2
    <2>4. ASSUME g # 0, generations[s][g] = [version |-> source[s].version, profile |-> source[s].target]
          PROVE  generations'[s][g] = [version |-> source[s].version, profile |-> L(source[s].target)]
      <3>1. g \in 1..Len(generations[s])
        BY <1>7, <2>4 DEF SourceInv, WholePublication
      <3> QED
        BY <1>4, <2>4, <3>1
    <2> QED
      BY <1>5, <2>2, <2>3, <2>4
  <1> QED
    BY <1>8, <1>9, <1>10, <1>11 DEF SourceInv

\* The count of accepted vectors is enough: together with StoredFits it says that
\* there is one for every ordinal of the head.
LEMMA AllAcceptedIsWhole ==
  ASSUME TypeOK, NEW w \in Workers, Busy(w), Current(worker[w].claim),
         AllAccepted(worker[w].claim), SourceInv(worker[w].claim.source)
  PROVE  LET cl == worker[w].claim IN
         /\ source[cl.source].heads /\ head[cl.source] = cl.chunks
         /\ \A i \in 1..Len(cl.chunks) :
              /\ i \in Ordinals /\ accepted[cl.source][cl.epoch][i] # NoVector
              /\ accepted[cl.source][cl.epoch][i].text = cl.chunks[i]
              /\ accepted[cl.source][cl.epoch][i].space = Canonical[cl.profile]
  <1> DEFINE cl == worker[w].claim
             s == cl.source
             e == cl.epoch
             stored == {i \in Ordinals : accepted[s][e][i] # NoVector}
             n == Len(cl.chunks)
  <1>1. s \in Sources /\ e \in Epochs /\ n \in 0..MaxChunks
    BY ClaimTypes
  <1>2. /\ source[s].epoch = e /\ source[s].target = cl.profile /\ source[s].eligible
        /\ source[s].content = cl.chunks
    BY DEF Current, SourceIsClaimed
  <1>3. source[s].heads /\ head[s] = cl.chunks
    BY <1>2 DEF SourceInv, HeadIsWritten
  <1>4. \A i \in stored : /\ i <= n /\ accepted[s][e][i].text = cl.chunks[i]
                          /\ accepted[s][e][i].space = Canonical[cl.profile]
    <2>1. StoredFits(s)
      BY DEF SourceInv
    <2> SUFFICES ASSUME NEW i \in Ordinals, accepted[s][e][i] # NoVector
                 PROVE  /\ i <= n /\ accepted[s][e][i].text = cl.chunks[i]
                        /\ accepted[s][e][i].space = Canonical[cl.profile]
      OBVIOUS
    <2>2. source[s].epoch = e /\ source[s].heads =>
             /\ i <= Len(source[s].content)
             /\ accepted[s][e][i].text = source[s].content[i]
             /\ accepted[s][e][i].space = Canonical[source[s].target]
      BY <1>1, <2>1, Zenon DEF StoredFits
    <2> QED
      BY <1>2, <1>3, <2>2, Zenon
  <1>5. stored \subseteq 1..n
    <2>1. \A i \in stored : i \in 1..MaxChunks /\ i <= n
      BY <1>4 DEF Ordinals
    <2>2. n \in Nat /\ MaxChunks \in Nat
      BY <1>1, RetrievalAssumption
    <2> HIDE DEF n, stored
    <2> QED
      BY ONLY <2>1, <2>2
  <1>6. IsFiniteSet(1..n) /\ Cardinality(1..n) = n
    <2>1. n \in Int /\ 1 \in Int /\ n >= 0
      BY <1>1, RetrievalAssumption
    <2> HIDE DEF n
    <2>2. IsFiniteSet(1..n) /\ Cardinality(1..n) = IF 1 > n THEN 0 ELSE n - 1 + 1
      BY <2>1, FS_Interval
    <2> QED
      BY <2>1, <2>2
  <1>7. Cardinality(stored) = n
    BY DEF AllAccepted
  <1> HIDE DEF stored, n
  <1>8. stored = 1..n
    BY <1>5, <1>6, <1>7, FS_Subset
  <1> QED
    BY <1>3, <1>4, <1>8 DEF stored, n

\* What a commit leaves: the whole head as one new generation.
Published(w, s) ==
  LET cl == worker[w].claim
      g == Len(generations[s]) + 1
  IN /\ s = cl.source /\ cl.epoch \in Epochs
     /\ source[s].heads /\ source[s].epoch = cl.epoch /\ source[s].version = cl.version
     /\ source[s].target = cl.profile /\ cl.profile \in Profiles
     /\ head[s] = cl.chunks /\ source[s].content = cl.chunks
     /\ source'[s].epoch = source[s].epoch /\ source'[s].version = source[s].version
     /\ source'[s].content = source[s].content /\ source'[s].target = source[s].target
     /\ source'[s].heads = source[s].heads /\ source'[s].eligible = source[s].eligible
     /\ source'[s].published = g
     /\ g # 0 /\ Len(generations'[s]) = g
     /\ generations'[s][g] = [version |-> cl.version, profile |-> cl.profile]
     /\ jobs'[s][cl.epoch].profile = cl.profile /\ jobs'[s][cl.epoch].state = "Complete"
     /\ DOMAIN chunks'[s] = 1..Len(head[s])
     /\ \A i \in 1..Len(head[s]) :
          chunks'[s][i] = [text |-> head[s][i], vector |-> accepted[s][cl.epoch][i],
                           generation |-> g, profile |-> cl.profile]
     /\ UNCHANGED <<head, accepted>>
     /\ \A t \in Sources : t # s =>
          /\ source'[t] = source[t] /\ jobs'[t] = jobs[t]
          /\ generations'[t] = generations[t] /\ chunks'[t] = chunks[t]

\* The commit of publish publishes the whole head.
LEMMA CommitPublishes ==
  ASSUME TypeOK, NEW w \in Workers, Commits(w), NEW s \in Sources, s = worker[w].claim.source,
         SourceInv(s)
  PROVE  Published(w, s)
  <1> DEFINE cl == worker[w].claim
             e == cl.epoch
             g == Len(generations[s]) + 1
             label == [version |-> cl.version, profile |-> cl.profile]
             row == [source[s] EXCEPT !.published = g]
             done == [jobs[s][e] EXCEPT !.state = "Complete", !.lease = 0]
             rows == JoinedRows(cl, g)
  <1>1. /\ Busy(w) /\ Current(cl) /\ AllAccepted(cl)
        /\ generations' = [generations EXCEPT ![s] = Append(@, label)]
        /\ chunks' = [chunks EXCEPT ![s] = rows]
        /\ source' = [source EXCEPT ![s] = row]
        /\ jobs' = [jobs EXCEPT ![s][e] = done]
        /\ UNCHANGED <<head, accepted>>
    BY DEF Commits
  <1>2. /\ s \in Sources /\ e \in Epochs /\ cl.profile \in Profiles /\ cl.version \in Versions
        /\ cl.chunks \in Seq(Texts) /\ Len(cl.chunks) \in 0..MaxChunks
    BY <1>1, ClaimTypes
  <1>3. /\ source[s].epoch = e /\ source[s].version = cl.version /\ source[s].target = cl.profile
        /\ source[s].content = cl.chunks /\ jobs[s][e].profile = cl.profile
    BY <1>1 DEF Current, SourceIsClaimed
  <1>4. /\ source[s].heads /\ head[s] = cl.chunks
        /\ \A i \in 1..Len(cl.chunks) : accepted[s][e][i] # NoVector
    BY <1>1, AllAcceptedIsWhole
  <1>5. generations[s] \in Seq(GenerationRow) /\ g \in Nat /\ g # 0
    BY <1>2, RowTypes
  <1>6. label \in GenerationRow
    BY <1>2 DEF GenerationRow
  <1>7. source[s] \in SourceRow /\ jobs[s][e] \in JobRow
    BY <1>2, RowTypes
  <1>8. /\ DOMAIN rows = 1..Len(head[s])
        /\ \A i \in 1..Len(head[s]) :
             rows[i] = [text |-> head[s][i], vector |-> accepted[s][e][i], generation |-> g, profile |-> cl.profile]
    <2>1. DOMAIN head[s] = 1..Len(head[s])
      BY <1>2, <1>4
    <2>2. {n \in DOMAIN head[s] : accepted[s][e][n] # NoVector} = 1..Len(head[s])
      BY <1>4, <2>1
    <2> HIDE DEF g
    <2> QED
      BY <2>2 DEF JoinedRows
  <1>9. generations'[s] = Append(generations[s], label)
    BY <1>1, <1>2 DEF TypeOK
  <1>10. Len(generations'[s]) = g /\ generations'[s][g] = label
    <2> HIDE DEF label
    <2> QED
      BY <1>5, <1>6, <1>9
  <1> HIDE DEF g, rows
  <1>11. /\ row.epoch = source[s].epoch /\ row.version = source[s].version
         /\ row.content = source[s].content /\ row.target = source[s].target
         /\ row.heads = source[s].heads /\ row.eligible = source[s].eligible /\ row.published = g
    BY <1>7 DEF SourceRow
  <1>12. done.profile = jobs[s][e].profile /\ done.state = "Complete"
    BY <1>7 DEF JobRow
  <1> HIDE DEF row, done
  <1>13. source'[s] = row /\ chunks'[s] = rows /\ jobs'[s][e] = done
    BY <1>1, <1>2 DEF TypeOK
  <1>14. \A t \in Sources : t # s =>
          /\ source'[t] = source[t] /\ jobs'[t] = jobs[t]
          /\ generations'[t] = generations[t] /\ chunks'[t] = chunks[t]
    BY <1>1, <1>2 DEF TypeOK
  <1>15. /\ source'[s].epoch = source[s].epoch /\ source'[s].version = source[s].version
         /\ source'[s].content = source[s].content /\ source'[s].target = source[s].target
         /\ source'[s].heads = source[s].heads /\ source'[s].eligible = source[s].eligible
         /\ source'[s].published = g
    BY <1>11, <1>13, Zenon
  <1>16. /\ DOMAIN chunks'[s] = 1..Len(head[s])
         /\ \A i \in 1..Len(head[s]) :
              chunks'[s][i] = [text |-> head[s][i], vector |-> accepted[s][e][i],
                               generation |-> g, profile |-> cl.profile]
    BY <1>8, <1>13, Zenon
  <1>17. jobs'[s][e].profile = cl.profile /\ jobs'[s][e].state = "Complete"
    BY <1>3, <1>12, <1>13, Zenon
  <1>18. UNCHANGED <<head, accepted>>
    BY <1>1
  <1> QED
    BY <1>2, <1>3, <1>4, <1>5, <1>10, <1>14, <1>15, <1>16, <1>17, <1>18, Zenon DEF Published, g

\* Stored batches go on fitting their head when neither the row's head nor the
\* accepted vectors change.
LEMMA StoredFitsStays ==
  ASSUME NEW s, StoredFits(s), accepted' = accepted,
         source'[s].epoch = source[s].epoch, source'[s].content = source[s].content,
         source'[s].target = source[s].target, source'[s].heads = source[s].heads
  PROVE  StoredFits(s)'
  <1> SUFFICES ASSUME NEW e \in Epochs, NEW i \in Ordinals, accepted'[s][e][i] # NoVector
               PROVE  /\ e <= source'[s].epoch
                      /\ e = source'[s].epoch /\ source'[s].heads =>
                           /\ i <= Len(source'[s].content) /\ source'[s].target \in Profiles
                           /\ accepted'[s][e][i].text = source'[s].content[i]
                           /\ accepted'[s][e][i].space = Canonical[source'[s].target]
    BY Zenon DEF StoredFits
  <1>1. accepted[s][e][i] # NoVector
    OBVIOUS
  <1>2. /\ e <= source[s].epoch
        /\ e = source[s].epoch /\ source[s].heads =>
             /\ i <= Len(source[s].content) /\ source[s].target \in Profiles
             /\ accepted[s][e][i].text = source[s].content[i]
             /\ accepted[s][e][i].space = Canonical[source[s].target]
    BY <1>1, Zenon DEF StoredFits
  <1> QED
    BY <1>2

\* A commit keeps the invariant of every source.
LEMMA CommitKeepsSource ==
  ASSUME TypeOK, NEW w \in Workers, Commits(w), NEW t \in Sources, SourceInv(t),
         NEW s \in Sources, s = worker[w].claim.source, SourceInv(s)
  PROVE  SourceInv(t)'
  <1> DEFINE cl == worker[w].claim
             e == cl.epoch
             g == Len(generations[s]) + 1
  <1>0. Published(w, s)
    BY CommitPublishes
  <1>1. CASE t # s
    <2>1. /\ source'[t] = source[t] /\ jobs'[t] = jobs[t] /\ head' = head /\ accepted' = accepted
          /\ generations'[t] = generations[t] /\ chunks'[t] = chunks[t]
      BY <1>0, <1>1, Zenon DEF Published
    <2> QED
      BY <2>1, UntouchedSource
  <1>2. CASE t = s
    <2>a. /\ source'[s].epoch = source[s].epoch /\ source'[s].version = source[s].version
          /\ source'[s].content = source[s].content /\ source'[s].target = source[s].target
          /\ source'[s].heads = source[s].heads /\ source'[s].eligible = source[s].eligible
          /\ source'[s].published = g /\ head' = head /\ accepted' = accepted
      BY <1>0, Zenon DEF Published
    <2>b. /\ source[s].epoch = e /\ source[s].version = cl.version
          /\ source[s].target = cl.profile /\ head[s] = cl.chunks
      BY <1>0, Zenon DEF Published
    <2>c. /\ g # 0 /\ Len(generations'[s]) = g
          /\ generations'[s][g] = [version |-> cl.version, profile |-> cl.profile]
          /\ jobs'[s][e].profile = cl.profile /\ jobs'[s][e].state = "Complete"
      BY <1>0, Zenon DEF Published
    <2>d. /\ DOMAIN chunks'[s] = 1..Len(head[s])
          /\ \A i \in 1..Len(head[s]) :
               chunks'[s][i] = [text |-> head[s][i], vector |-> accepted[s][e][i],
                                generation |-> g, profile |-> cl.profile]
      BY <1>0, Zenon DEF Published
    <2>e. \A i \in 1..Len(cl.chunks) :
            accepted[s][e][i].text = cl.chunks[i] /\ accepted[s][e][i].space = Canonical[cl.profile]
      BY AllAcceptedIsWhole DEF Commits
    <2>f. DOMAIN head[s] = 1..Len(head[s]) /\ Len(head[s]) \in 0..MaxChunks /\ g \in Nat
      BY <2>b, RowTypes
    <2> HIDE DEF cl, e, g
    <2>g. \A i \in 1..Len(head[s]) :
            /\ chunks'[s][i].text = head[s][i] /\ chunks'[s][i].vector = accepted[s][e][i]
            /\ chunks'[s][i].generation = g /\ chunks'[s][i].profile = cl.profile
      <3> SUFFICES ASSUME NEW i \in 1..Len(head[s])
                   PROVE  /\ chunks'[s][i].text = head[s][i] /\ chunks'[s][i].vector = accepted[s][e][i]
                          /\ chunks'[s][i].generation = g /\ chunks'[s][i].profile = cl.profile
        OBVIOUS
      <3>1. chunks'[s][i] = [text |-> head[s][i], vector |-> accepted[s][e][i],
                             generation |-> g, profile |-> cl.profile]
        BY <2>d
      <3> QED
        BY <3>1
    <2>h. generations'[s][g].profile = cl.profile
      BY <2>c
    <2>0. HeadIsWritten(s)'
      BY <2>a DEF SourceInv, HeadIsWritten
    <2>1. StoredFits(s)'
      <3>1. StoredFits(s)
        BY DEF SourceInv
      <3> QED
        BY <2>a, <3>1, StoredFitsStays
    <2>2. WholePublication(s)'
      <3>1. \A i \in 1..Len(head[s]) :
              LET row == chunks'[s][i] IN
              /\ row.generation = g /\ row.profile = generations'[s][g].profile
              /\ row.vector.text = row.text
              /\ row.vector.space = Canonical[generations'[s][g].profile]
        BY ONLY <2>b, <2>e, <2>g, <2>h
      <3>2. g \in 0..Len(generations'[s])
        BY <2>c, <2>f
      <3>3. source'[s].published = g /\ g # 0 /\ DOMAIN chunks'[s] = 1..Len(head[s])
        BY <2>a, <2>c, <2>d
      <3> QED
        BY <2>f, <3>1, <3>2, <3>3 DEF WholePublication
    <2>3. JobFollowsHead(s)'
      <3>1. source'[s].published = g /\ source'[s].epoch = e /\ source'[s].version = cl.version
            /\ source'[s].target = cl.profile /\ head' = head
        BY <2>a, <2>b
      <3>2. DOMAIN chunks'[s] = DOMAIN head'[s] /\ \A i \in DOMAIN head'[s] : chunks'[s][i].text = head'[s][i]
        BY <2>d, <2>f, <2>g, <3>1
      <3> QED
        BY <2>c, <3>1, <3>2 DEF JobFollowsHead
    <2> QED
      BY <1>2, <2>0, <2>1, <2>2, <2>3 DEF SourceInv
  <1> QED
    BY <1>1, <1>2

\* Every step of the system keeps the index invariant.
LEMMA IndexInvNext == TypeOK /\ IndexInv /\ [Next]_vars => IndexInv'
  <1> SUFFICES ASSUME TypeOK, IndexInv, [Next]_vars PROVE IndexInv'
    OBVIOUS
  <1>1. EmbeddedFits'
    BY EmbeddedFitsNext DEF IndexInv
  <1>2. ASSUME NEW s \in Sources PROVE SourceInv(s)'
    <2>0. SourceInv(s)
      BY DEF IndexInv
    <2>1. ASSUME NEW w \in Workers, Stores(w) PROVE SourceInv(s)'
      <3>1. Quiet
        BY <2>1, StutterIsQuiet DEF Stores
      <3>2. StoredFits(s)'
        BY <2>0, <2>1, StoresFit DEF IndexInv
      <3> QED
        BY <2>0, <3>1, <3>2, QuietKeepsSource DEF SourceInv
    <2>2. CASE Quiet /\ UNCHANGED accepted
      BY <2>0, <2>2, QuietKeepsSource DEF SourceInv
    <2>3. ASSUME NEW t \in Sources, NEW v \in Versions, NEW c \in Contents, NEW f \in Flags,
                 NEW p \in Targets, Rewrites(t, v, c, f, p)
          PROVE  SourceInv(s)'
      BY <2>0, <2>3, RewriteKeepsSource
    <2>4. ASSUME NEW t \in Sources, Remove(t) PROVE SourceInv(s)'
      BY <2>0, <2>4, RemoveKeepsSource
    <2>5. ASSUME NEW q \in Profiles, NEW approved \in SUBSET Profiles, MigrateModelIdentities(q, approved)
          PROVE  SourceInv(s)'
      BY <2>0, <2>5, MigrationKeepsSource
    <2>6. ASSUME NEW w \in Workers, Commits(w) PROVE SourceInv(s)'
      <3>1. worker[w].claim.source \in Sources
        BY <2>6, ClaimTypes DEF Commits
      <3> QED
        BY <2>0, <2>6, <3>1, CommitKeepsSource DEF IndexInv
    <2> QED
      BY <2>1, <2>2, <2>3, <2>4, <2>5, <2>6, StepKinds, OnlyAcceptStores
  <1> QED
    BY <1>1, <1>2 DEF IndexInv

\* The index invariant holds always.
THEOREM IndexInvariant == Spec => [](TypeOK /\ IndexInv)
  <1> QED
    BY TypeCorrect, IndexInvInit, IndexInvNext, PTL DEF Spec

\* What search reads of a source is always one unbroken generation.
THEOREM PublicationIsWhole == Spec => []PublishedIsWhole
  <1>1. IndexInv => PublishedIsWhole
    BY DEF IndexInv, SourceInv, WholePublication, PublishedIsWhole
  <1> QED
    BY <1>1, IndexInvariant, PTL

\* No eligible source is ever left without a job for its target, and a Complete
\* job means that the current head is what is published.
THEOREM NoSourceStranded == Spec => []NotStranded
  <1>1. IndexInv => NotStranded
    BY DEF IndexInv, SourceInv, HeadIsWritten, JobFollowsHead, NotStranded
  <1> QED
    BY <1>1, IndexInvariant, PTL

-----------------------------------------------------------------------------
(* Search *)

\* The ranked row of ordinal i of source s.
Hit(s, i) ==
  [source |-> s, version |-> generations[s][chunks[s][i].generation].version,
   ordinal |-> i, text |-> chunks[s][i].text, vector |-> chunks[s][i].vector]

\* What a leg of search may return, one row at a time.
LEMMA HitsAreRows ==
  ASSUME NEW p, NEW hit
  PROVE  hit \in SemanticCandidates(p) <=>
           \E s \in Sources : \E i \in DOMAIN chunks[s] :
             /\ Visible(s) /\ chunks[s][i].profile = p
             /\ chunks[s][i].generation = source[s].published /\ hit = Hit(s, i)
  <1> DEFINE rows(s) == {n \in DOMAIN chunks[s] : /\ chunks[s][n].profile = p
                                                  /\ chunks[s][n].generation = source[s].published}
             hits(s) == {Hit(s, i) : i \in rows(s)}
  <1>1. SemanticCandidates(p) = UNION {hits(s) : s \in {x \in Sources : Visible(x)}}
    BY Zenon DEF SemanticCandidates, Hit
  <1> HIDE DEF hits
  <1>2. hit \in SemanticCandidates(p) <=> \E s \in Sources : Visible(s) /\ hit \in hits(s)
    BY <1>1
  <1>3. \A s : hit \in hits(s) <=> \E i \in DOMAIN chunks[s] :
             /\ chunks[s][i].profile = p
             /\ chunks[s][i].generation = source[s].published /\ hit = Hit(s, i)
    BY Zenon DEF hits
  <1> QED
    BY <1>2, <1>3

\* Whatever window of candidates the legs return, a semantic answer is never a
\* mixture of generations, profiles or versions, and every published row of every
\* visible source is within the reach of that window.
THEOREM SearchIsSound == Spec => []SemanticSearchSound
  <1>1. ASSUME TypeOK, IndexInv PROVE SemanticSearchSound
    <2> SUFFICES ASSUME NEW p \in Profiles, SemanticReady(p)
                 PROVE  /\ \A mode \in RetrievalModes : \A answer \in SemanticAnswers(p, mode) :
                             \A hit \in answer :
                               /\ hit.version = generations[hit.source][source[hit.source].published].version
                               /\ hit.vector.space = Canonical[p] /\ hit.vector.text = hit.text
                        /\ \A s \in Sources : Visible(s) =>
                             {hit.ordinal : hit \in {h \in SemanticCandidates(p) : h.source = s}} = DOMAIN chunks[s]
      BY DEF SemanticSearchSound
    <2>1. ASSUME NEW s \in Sources, Visible(s), NEW i \in DOMAIN chunks[s]
          PROVE  /\ chunks[s][i].profile = p /\ chunks[s][i].generation = source[s].published
                 /\ chunks[s][i].vector.text = chunks[s][i].text
                 /\ chunks[s][i].vector.space = Canonical[p]
      <3>1. source[s].published # 0 /\ generations[s][source[s].published].profile = p
        BY <2>1 DEF SemanticReady
      <3>2. WholePublication(s)
        BY <1>1 DEF IndexInv, SourceInv
      <3> QED
        BY <2>1, <3>1, <3>2 DEF WholePublication
    <2>2. ASSUME NEW hit \in SemanticCandidates(p)
          PROVE  /\ hit.version = generations[hit.source][source[hit.source].published].version
                 /\ hit.vector.space = Canonical[p] /\ hit.vector.text = hit.text
      <3>1. PICK s \in Sources : \E i \in DOMAIN chunks[s] : Visible(s) /\ hit = Hit(s, i)
        BY HitsAreRows
      <3>2. PICK i \in DOMAIN chunks[s] : Visible(s) /\ hit = Hit(s, i)
        BY <3>1
      <3>3. /\ hit.source = s /\ hit.version = generations[s][chunks[s][i].generation].version
            /\ hit.vector = chunks[s][i].vector /\ hit.text = chunks[s][i].text
        BY <3>2 DEF Hit
      <3> QED
        BY <2>1, <3>2, <3>3
    <2>3. ASSUME NEW s \in Sources, Visible(s)
          PROVE  {hit.ordinal : hit \in {h \in SemanticCandidates(p) : h.source = s}} = DOMAIN chunks[s]
      <3>1. ASSUME NEW hit \in SemanticCandidates(p), hit.source = s PROVE hit.ordinal \in DOMAIN chunks[s]
        <4>1. PICK t \in Sources : \E i \in DOMAIN chunks[t] : hit = Hit(t, i)
          BY HitsAreRows
        <4>2. PICK i \in DOMAIN chunks[t] : hit = Hit(t, i)
          BY <4>1
        <4>3. hit.source = t /\ hit.ordinal = i
          BY <4>2 DEF Hit
        <4> QED
          BY <3>1, <4>2, <4>3
      <3>2. ASSUME NEW i \in DOMAIN chunks[s]
            PROVE  Hit(s, i) \in SemanticCandidates(p) /\ Hit(s, i).source = s /\ Hit(s, i).ordinal = i
        <4>1. Hit(s, i) \in SemanticCandidates(p)
          BY <2>1, <2>3, HitsAreRows
        <4> QED
          BY <4>1 DEF Hit
      <3> QED
        BY <3>1, <3>2, Zenon
    <2>4. ASSUME NEW mode, NEW answer \in SemanticAnswers(p, mode) PROVE answer \subseteq SemanticCandidates(p)
      BY <2>4, Zenon DEF SemanticAnswers
    <2> QED
      BY <2>2, <2>3, <2>4
  <1> QED
    BY <1>1, IndexInvariant, PTL

-----------------------------------------------------------------------------
(* Batches of embeddings are stored whole and once: accept never meets another answer of   *)
(* the provider for a batch it may store, for any batch size and any number of workers,    *)
(* claims and retries.                                                                     *)


\* The ordinals of the batch number n, counted from 0.
InBlock(n, i) == n * BatchSize < i /\ i <= n * BatchSize + BatchSize

\* Every worker goes through the batches from the first one on.
BatchesAligned == \A w \in Workers : Busy(w) => \E n \in Nat : worker[w].first = n * BatchSize + 1

\* Of the batches of the current epoch, each is stored whole or not at all.
WholeBatches(s) ==
  LET row == source[s] IN
  row.heads =>
    \A n \in Nat, i, k \in Ordinals :
      /\ InBlock(n, i) /\ i <= Len(row.content) /\ accepted[s][row.epoch][i] # NoVector
      /\ InBlock(n, k) /\ k <= Len(row.content)
      => accepted[s][row.epoch][k] # NoVector

\* The claim is of the current epoch and nobody has claimed the job since.
NotRevoked(cl) ==
  cl.epoch = source[cl.source].epoch /\ cl.fence = jobs[cl.source][cl.epoch].fence

\* A batch that is being embedded is not stored, unless the claim was revoked; a
\* claim that only lost sight of its source for a while is not.
BatchIsNew(w) ==
  LET cl == worker[w].claim IN
  worker[w].pc \in {"embed", "accept"} /\ NotRevoked(cl) =>
    \A i \in Batch(w) : accepted[cl.source][cl.epoch][i] = NoVector

AcceptInv ==
  /\ BatchesAligned
  /\ \A s \in Sources : WholeBatches(s)
  /\ \A w \in Workers : BatchIsNew(w)

-----------------------------------------------------------------------------
(* Blocks *)

\* No ordinal is in two batches.
LEMMA OneBlock ==
  ASSUME NEW n \in Nat, NEW m \in Nat, NEW i \in Nat, InBlock(n, i), InBlock(m, i)
  PROVE  n = m
  <1> DEFINE B == BatchSize
  <1>0. B \in Nat /\ B > 0
    BY RetrievalAssumption
  <1>1. ASSUME NEW x \in Nat, NEW y \in Nat, x < y PROVE x * B + B <= y * B
    <2> DEFINE d == y - x - 1
    <2>1. d \in Nat /\ y = x + 1 + d
      BY <1>1
    <2> HIDE DEF d
    <2>2. y * B = x * B + B + d * B
      BY <1>0, <2>1
    <2>3. d * B >= 0
      BY <1>0, <2>1
    <2>4. x * B \in Nat /\ d * B \in Nat
      BY <1>0, <2>1
    <2> QED
      BY <1>0, <2>2, <2>3, <2>4
  <1>2. n * B \in Nat /\ m * B \in Nat
    BY <1>0
  <1>3. CASE n < m
    BY <1>0, <1>1, <1>2, <1>3 DEF InBlock
  <1>4. CASE m < n
    BY <1>0, <1>1, <1>2, <1>4 DEF InBlock
  <1> QED
    BY <1>3, <1>4

\* The batch of a worker is one block of its claim's ordinals.
LEMMA BatchIsBlock ==
  ASSUME NEW w \in Workers, NEW n \in Nat, worker[w].first = n * BatchSize + 1
  PROVE  \A i : i \in Batch(w) <=>
           i \in Ordinals /\ InBlock(n, i) /\ i <= Len(worker[w].claim.chunks)
  <1> DEFINE b == n * BatchSize
  <1>1. b \in Nat /\ BatchSize \in Nat
    BY RetrievalAssumption
  <1>2. \A i \in Ordinals : i \in Nat
    BY RetrievalAssumption DEF Ordinals
  <1> HIDE DEF b
  <1>3. \A i \in Ordinals : (b + 1 <= i /\ i < b + 1 + BatchSize) <=> (b < i /\ i <= b + BatchSize)
    BY <1>1, <1>2
  <1> QED
    BY <1>3 DEF Batch, InBlock, b

-----------------------------------------------------------------------------
(* The steps of one worker *)

WorkerStep(w) ==
  \/ worker'[w] = worker[w]
  \/ worker'[w].pc = "idle"
  \/ worker'[w].first = 1 /\ worker'[w].pc \in {"failing", "publish", "check"}
  \/ /\ Busy(w) /\ worker'[w].first = worker[w].first + BatchSize
     /\ worker'[w].pc \in {"publish", "check"}
  \/ /\ Busy(w) /\ worker'[w].first = worker[w].first /\ worker'[w].claim = worker[w].claim
     /\ UNCHANGED tables
     /\ \/ /\ worker'[w].pc = "embed" /\ Current(worker[w].claim)
           /\ \E i \in Batch(w) :
                accepted[worker[w].claim.source][worker[w].claim.epoch][i] = NoVector
        \/ worker[w].pc = "embed" /\ worker'[w].pc = "accept"

\* How a worker that abandons its work, or moves on, is left.
LEMMA WorkerMovesOn ==
  ASSUME TypeOK, NEW w \in Workers, Busy(w)
  PROVE  /\ Fails(w) => worker'[w].first = 1 /\ worker'[w].pc = "failing"
         /\ NextBatch(w) => /\ worker'[w].first = worker[w].first + BatchSize
                            /\ worker'[w].pc \in {"publish", "check"}
  <1>0. worker \in [Workers -> Working \cup {Idle}] /\ worker[w] \in Working
    BY BusyIsWorking DEF TypeOK
  <1>1. ASSUME Fails(w) PROVE worker'[w].first = 1 /\ worker'[w].pc = "failing"
    <2>1. worker'[w] = [worker[w] EXCEPT !.pc = "failing", !.first = 1, !.vectors = NoVectors]
      BY <1>0, <1>1 DEF Fails
    <2> QED
      BY <1>0, <2>1 DEF Working
  <1>2. ASSUME NextBatch(w)
        PROVE  worker'[w].first = worker[w].first + BatchSize /\ worker'[w].pc \in {"publish", "check"}
    <2> DEFINE next == worker[w].first + BatchSize
               pc == IF next > Len(worker[w].claim.chunks) THEN "publish" ELSE "check"
    <2>1. worker'[w] = [worker[w] EXCEPT !.first = next, !.vectors = NoVectors, !.pc = pc]
      BY <1>0, <1>2 DEF NextBatch
    <2>2. pc \in {"publish", "check"}
      OBVIOUS
    <2> HIDE DEF next, pc
    <2>3. worker'[w].first = next /\ worker'[w].pc = pc
      BY <1>0, <2>1 DEF Working
    <2> QED
      BY <2>2, <2>3 DEF next
  <1> QED
    BY <1>1, <1>2

\* Every step of the system leaves a worker in one of these ways.
LEMMA WorkerSteps ==
  ASSUME TypeOK, [Next]_vars, NEW w \in Workers
  PROVE  WorkerStep(w)
  <1>0. worker \in [Workers -> Working \cup {Idle}]
    BY DEF TypeOK
  <1>1. ASSUME NEW v \in Workers, NEW r, worker' = [worker EXCEPT ![v] = r]
        PROVE  /\ v # w => worker'[w] = worker[w]
               /\ v = w => worker'[w] = r
    BY <1>0, <1>1
  <1>2. ASSUME NEW v \in Workers, Process(v) \/ Renew(v) \/ WorkerError(v) \/ WorkerCrash(v)
        PROVE  WorkerStep(w)
    <2>1. Busy(v)
      BY <1>2 DEF Process, CheckBatch, Embed, Accept, Fail, Publish, Renew, WorkerError, WorkerCrash, Busy
    <2>2. CASE v # w
      <3>1. \/ Fails(v) \/ NextBatch(v) \/ UNCHANGED worker
            \/ worker' = [worker EXCEPT ![v] = Idle]
            \/ worker' = [worker EXCEPT ![v].pc = "embed"]
            \/ \E n \in Nonces : Embed(v, n)
        BY <1>2 DEF Process, CheckBatch, Accept, Fail, Publish, Renew, WorkerError, WorkerCrash
      <3>2. worker'[w] = worker[w]
        BY <1>0, <2>2, <3>1 DEF Fails, NextBatch, Embed
      <3> QED
        BY <3>2 DEF WorkerStep
    <2>3. CASE v = w
      <3>1. \/ Fails(w) \/ NextBatch(w) \/ UNCHANGED worker
            \/ worker' = [worker EXCEPT ![w] = Idle]
            \/ /\ worker' = [worker EXCEPT ![w].pc = "embed"] /\ UNCHANGED tables
               /\ Current(worker[w].claim)
               /\ \E i \in Batch(w) : accepted[worker[w].claim.source][worker[w].claim.epoch][i] = NoVector
            \/ \E n \in Nonces : Embed(w, n)
        BY <1>2, <2>3 DEF Process, CheckBatch, Accept, Fail, Publish, Renew, WorkerError, WorkerCrash
      <3>2. CASE Fails(w) \/ NextBatch(w)
        BY <2>1, <2>3, <3>2, WorkerMovesOn DEF WorkerStep
      <3>3. CASE UNCHANGED worker
        BY <3>3 DEF WorkerStep
      <3>4. CASE worker' = [worker EXCEPT ![w] = Idle]
        <4>1. worker'[w] = Idle
          BY <1>0, <3>4
        <4>2. worker'[w].pc = "idle"
          BY <4>1 DEF Idle
        <4> QED
          BY <4>2 DEF WorkerStep
      <3>5. CASE /\ worker' = [worker EXCEPT ![w].pc = "embed"] /\ UNCHANGED tables
                 /\ Current(worker[w].claim)
                 /\ \E i \in Batch(w) : accepted[worker[w].claim.source][worker[w].claim.epoch][i] = NoVector
        <4>1. worker[w] \in Working /\ worker'[w] = [worker[w] EXCEPT !.pc = "embed"]
          BY <1>0, <2>1, <2>3, <3>5, BusyIsWorking
        <4>2. worker'[w].pc = "embed" /\ worker'[w].first = worker[w].first /\ worker'[w].claim = worker[w].claim
          BY <4>1 DEF Working
        <4> QED
          BY <2>1, <2>3, <3>5, <4>2 DEF WorkerStep
      <3>6. ASSUME NEW n \in Nonces, Embed(w, n) PROVE WorkerStep(w)
        <4>1. \E vectors : worker'[w] = [worker[w] EXCEPT !.pc = "accept", !.vectors = vectors]
          BY <1>0, <3>6 DEF Embed
        <4>2. worker[w] \in Working /\ worker[w].pc = "embed" /\ UNCHANGED tables
          BY <2>1, <2>3, <3>6, BusyIsWorking DEF Embed
        <4>3. worker'[w].pc = "accept" /\ worker'[w].first = worker[w].first /\ worker'[w].claim = worker[w].claim
          BY <4>1, <4>2 DEF Working
        <4> QED
          BY <2>1, <2>3, <4>2, <4>3 DEF WorkerStep
      <3> QED
        BY <3>1, <3>2, <3>3, <3>4, <3>5, <3>6
    <2> QED
      BY <2>2, <2>3
  <1>3. ASSUME NEW v \in Workers, NEW p \in Profiles, NEW locked \in SUBSET Sources, Claim(v, p, locked)
        PROVE  WorkerStep(w)
    <2>1. ASSUME NEW s \in Claimable(p) \ locked, NEW cl,
                 worker' = [worker EXCEPT ![v] =
                   [pc |-> IF head[s] = <<>> THEN "publish" ELSE "check",
                    first |-> 1, vectors |-> NoVectors, claim |-> cl]]
          PROVE  WorkerStep(w)
      <3> DEFINE r == [pc |-> IF head[s] = <<>> THEN "publish" ELSE "check",
                       first |-> 1, vectors |-> NoVectors, claim |-> cl]
      <3>1. r.pc \in {"publish", "check"} /\ r.first = 1 /\ worker' = [worker EXCEPT ![v] = r]
        BY <2>1
      <3> HIDE DEF r
      <3> QED
        BY <1>1, <3>1 DEF WorkerStep
    <2> QED
      BY <1>3, <2>1 DEF Claim, WorkerStep
  <1>4. ASSUME UNCHANGED worker PROVE WorkerStep(w)
    BY <1>4 DEF WorkerStep
  <1>5. ASSUME NEW s \in Sources,
               \/ \E v \in Versions, c \in Contents, f \in Flags, p \in Targets : Put(s, v, c, f, p)
               \/ Remove(s) \/ SourceExpires(s) \/ \E e \in Epochs : LeaseTick(s, e)
        PROVE  UNCHANGED worker
    BY <1>5, Zenon DEF Put, Remove, SourceExpires, LeaseTick
  <1>6. ASSUME NEW q \in Profiles, NEW approved \in SUBSET Profiles, MigrateModelIdentities(q, approved)
        PROVE  UNCHANGED worker
    BY <1>6 DEF MigrateModelIdentities
  <1> QED
    BY <1>2, <1>3, <1>4, <1>5, <1>6 DEF Next, vars

-----------------------------------------------------------------------------
(* Growth, for the whole of Next *)

\* A claim counts fences up.
LEMMA ClaimGrows ==
  ASSUME TypeOK, NEW w \in Workers, NEW p \in Profiles, NEW locked \in SUBSET Sources,
         Claim(w, p, locked)
  PROVE  EpochsGrow /\ FencesGrow
  <1> DEFINE swept == FailExhausted(p, locked)
  <1>0. UNCHANGED source
    BY DEF Claim
  <1>1. EpochsGrow
    BY <1>0, FenceTypes DEF EpochsGrow
  <1>2. swept \in [Sources -> [Epochs -> JobRow]]
        /\ \A s \in Sources, e \in Epochs : swept[s][e].fence >= jobs[s][e].fence
    BY SweepType
  <1>3. CASE jobs' = swept
    BY <1>1, <1>2, <1>3 DEF FencesGrow
  <1>4. ASSUME NEW s \in Claimable(p) \ locked,
               jobs' = [swept EXCEPT ![s][source[s].epoch] = TakeJob(@)]
        PROVE  FencesGrow
    <2> DEFINE e == source[s].epoch
               j == jobs[s][e]
               taken == TakeJob(j)
    <2>1. s \in Sources /\ e \in Epochs /\ j \in JobRow /\ swept[s][e] = j
      BY ClaimableJob
    <2>2. taken.fence = j.fence + 1 /\ j.fence \in Nat
      BY <2>1, JobFences, FenceTypes
    <2>3. jobs' = [swept EXCEPT ![s][e] = taken]
      BY <1>2, <1>4, <2>1
    <2>4. taken.fence >= jobs[s][e].fence
      BY <2>2
    <2> HIDE DEF e, taken, swept
    <2>5. \A t \in Sources, d \in Epochs : jobs'[t][d] = IF t = s /\ d = e THEN taken ELSE swept[t][d]
      BY <1>2, <2>1, <2>3
    <2> QED
      BY <1>2, <2>4, <2>5 DEF FencesGrow
  <1> QED
    BY <1>1, <1>3, <1>4 DEF Claim

\* No step lowers an epoch, or a fence that a claim may carry.
LEMMA StepsGrow ==
  ASSUME TypeInv, [Next]_vars
  PROVE  EpochsGrow /\ FencesGrow
  <1>0. TypeOK
    BY DEF TypeInv
  <1>1. CASE UNCHANGED vars
    BY <1>0, <1>1, FenceTypes DEF vars, EpochsGrow, FencesGrow
  <1>2. ASSUME NEW s \in Sources,
               \/ \E v \in Versions, c \in Contents, f \in Flags, p \in Targets : Put(s, v, c, f, p)
               \/ Remove(s)
        PROVE  EpochsGrow /\ FencesGrow
    BY <1>2, WritesGrow
  <1>3. ASSUME NEW q \in Profiles, NEW approved \in SUBSET Profiles, MigrateModelIdentities(q, approved)
        PROVE  EpochsGrow /\ FencesGrow
    BY <1>3, MigrationGrows
  <1>4. ASSUME NEW w \in Workers, NEW p \in Profiles, NEW locked \in SUBSET Sources, Claim(w, p, locked)
        PROVE  EpochsGrow /\ FencesGrow
    BY <1>0, <1>4, ClaimGrows
  <1>5. ASSUME \/ \E w \in Workers : Process(w) \/ Renew(w) \/ WorkerError(w) \/ WorkerCrash(w)
               \/ \E s \in Sources : SourceExpires(s) \/ \E e \in Epochs : LeaseTick(s, e)
        PROVE  EpochsGrow /\ FencesGrow
    BY <1>0, <1>5, WorkGrows
  <1> QED
    BY <1>1, <1>2, <1>3, <1>4, <1>5 DEF Next

\* A claim that a step leaves unrevoked was not revoked before.
LEMMA StaysRevoked ==
  ASSUME TypeInv, TypeOK', FenceInv, [Next]_vars, NEW w \in Workers, Busy(w),
         worker'[w].claim = worker[w].claim, NotRevoked(worker[w].claim)'
  PROVE  NotRevoked(worker[w].claim)
  <1> DEFINE cl == worker[w].claim
             s == cl.source
             e == cl.epoch
  <1>0. TypeOK /\ EpochsGrow /\ FencesGrow
    BY StepsGrow DEF TypeInv
  <1>1. s \in Sources /\ e \in Epochs /\ e \in Nat /\ cl.fence \in Nat
    BY <1>0, FenceTypes
  <1>2. source[s].epoch \in Nat /\ jobs[s][e].fence \in Nat
    BY <1>0, <1>1, FenceTypes
  <1>3. e = source'[s].epoch /\ cl.fence = jobs'[s][e].fence
    BY DEF NotRevoked
  <1>4. e <= source[s].epoch /\ cl.fence <= jobs[s][e].fence
    BY DEF FenceInv, ClaimsAreNotAhead, FencesBoundClaims
  <1>5. source'[s].epoch >= source[s].epoch /\ jobs'[s][e].fence >= jobs[s][e].fence
    BY <1>0, <1>1, <1>4 DEF EpochsGrow, FencesGrow
  <1> HIDE DEF cl, s, e
  <1>6. e = source[s].epoch /\ cl.fence = jobs[s][e].fence
    BY <1>1, <1>2, <1>3, <1>4, <1>5
  <1> QED
    BY <1>6 DEF NotRevoked, cl, s, e

\* A step leaves the text of a source or starts another epoch.
LEMMA TextsStayOrEpochsStart ==
  ASSUME TypeOK, IndexInv, [Next]_vars, NEW s \in Sources
  PROVE  \/ /\ source'[s].epoch = source[s].epoch /\ source'[s].content = source[s].content
            /\ source'[s].heads = source[s].heads
         \/ source'[s].epoch = source[s].epoch + 1 /\ UNCHANGED accepted
  <1> DEFINE Same == /\ source'[s].epoch = source[s].epoch /\ source'[s].content = source[s].content
                     /\ source'[s].heads = source[s].heads
             Starts == source'[s].epoch = source[s].epoch + 1 /\ UNCHANGED accepted
             epoch == source[s].epoch + 1
  <1>0. source[s] \in SourceRow
    BY RowTypes
  <1>1. CASE Quiet
    BY <1>1 DEF Quiet, SourceStays
  <1>2. ASSUME NEW t \in Sources, NEW v \in Versions, NEW c \in Contents, NEW f \in Flags,
               NEW p \in Targets, Rewrites(t, v, c, f, p)
        PROVE  Same \/ Starts
    <2>1. source'[s] = source[s] \/ source'[s] = RewrittenRow(s, v, c, f, p)
      BY <1>2 DEF TypeOK, Rewrites
    <2>2. RewrittenRow(s, v, c, f, p).epoch = epoch
      BY <1>0 DEF RewrittenRow, SourceRow
    <2> QED
      BY <1>2, <2>1, <2>2 DEF Rewrites
  <1>3. ASSUME NEW t \in Sources, Remove(t) PROVE Same \/ Starts
    <2> DEFINE row == [source[s] EXCEPT !.eligible = FALSE, !.shown = FALSE, !.epoch = epoch,
                                        !.published = 0, !.heads = FALSE]
    <2>1. source'[s] = source[s] \/ source'[s] = row
      BY <1>3 DEF TypeOK, Remove
    <2> HIDE DEF epoch
    <2>2. row.epoch = epoch
      BY <1>0 DEF SourceRow
    <2> HIDE DEF row
    <2> QED
      BY <1>3, <2>1, <2>2 DEF Remove, epoch
  <1>4. ASSUME NEW q \in Profiles, NEW approved \in SUBSET Profiles, MigrateModelIdentities(q, approved)
        PROVE  Same
    BY <1>4, MigrationRelabels DEF Relabelled
  <1>5. ASSUME NEW w \in Workers, Commits(w) PROVE Same
    <2>1. PICK t \in Sources : t = worker[w].claim.source
      BY <1>5, ClaimTypes DEF Commits
    <2>2. Published(w, t)
      BY <1>5, <2>1, CommitPublishes DEF IndexInv
    <2> QED
      BY <2>2, Zenon DEF Published
  <1> QED
    BY <1>1, <1>2, <1>3, <1>4, <1>5, StepKinds

-----------------------------------------------------------------------------
(* The accept invariant *)

\* Workers keep to the batch boundaries.
LEMMA AlignedNext ==
  ASSUME TypeOK, BatchesAligned, [Next]_vars
  PROVE  BatchesAligned'
  <1> SUFFICES ASSUME NEW w \in Workers, worker'[w].pc # "idle"
               PROVE  \E n \in Nat : worker'[w].first = n * BatchSize + 1
    BY DEF BatchesAligned, Busy
  <1>0. BatchSize \in Nat
    BY RetrievalAssumption
  <1>1. CASE worker'[w].first = 1
    <2>1. 0 \in Nat /\ worker'[w].first = 0 * BatchSize + 1
      BY <1>0, <1>1
    <2> QED
      BY <2>1
  <1>2. CASE Busy(w) /\ worker'[w].first = worker[w].first
    BY <1>2 DEF BatchesAligned
  <1>3. CASE Busy(w) /\ worker'[w].first = worker[w].first + BatchSize
    <2>1. PICK n \in Nat : worker[w].first = n * BatchSize + 1
      BY <1>3 DEF BatchesAligned
    <2>2. n + 1 \in Nat /\ worker'[w].first = (n + 1) * BatchSize + 1
      BY <1>0, <1>3, <2>1
    <2> QED
      BY <2>2
  <1> QED
    BY <1>1, <1>2, <1>3, WorkerSteps DEF WorkerStep, Busy

\* accept stores a whole block; a new epoch has nothing stored.
LEMMA WholeBatchesNext ==
  ASSUME TypeOK, TypeOK', IndexInv, BatchesAligned, [Next]_vars, NEW s \in Sources,
         WholeBatches(s)
  PROVE  WholeBatches(s)'
  <1>1. ASSUME NEW w \in Workers, Stores(w) PROVE WholeBatches(s)'
    <2> DEFINE cl == worker[w].claim
               e == source[s].epoch
               stored == accepted[cl.source][cl.epoch]
               merged == [i \in Ordinals |-> IF i \in Batch(w) THEN worker[w].vectors[i] ELSE stored[i]]
    <2>1. /\ Busy(w) /\ worker[w].pc = "accept" /\ Current(cl)
          /\ accepted' = [accepted EXCEPT ![cl.source][cl.epoch] = merged]
          /\ UNCHANGED source
      BY <1>1 DEF Stores
    <2>2. cl.source \in Sources /\ cl.epoch \in Epochs
      BY <2>1, ClaimTypes
    <2>3. source[cl.source].epoch = cl.epoch /\ source[cl.source].content = cl.chunks
      BY <2>1 DEF Current, SourceIsClaimed
    <2>4. \A i \in Batch(w) : worker[w].vectors[i] # NoVector
      BY <2>1 DEF IndexInv, EmbeddedFits
    <2>5. PICK m \in Nat : worker[w].first = m * BatchSize + 1
      BY <2>1 DEF BatchesAligned
    <2>6. \A i : i \in Batch(w) <=> i \in Ordinals /\ InBlock(m, i) /\ i <= Len(cl.chunks)
      BY <2>5, BatchIsBlock
    <2>7. CASE s # cl.source
      <3>1. accepted'[s] = accepted[s]
        BY <2>1, <2>2, <2>7 DEF TypeOK
      <3> QED
        BY <2>1, <3>1 DEF WholeBatches
    <2>8. CASE s = cl.source
      <3>1. \A i \in Ordinals : merged[i] = IF i \in Batch(w) THEN worker[w].vectors[i] ELSE accepted[s][e][i]
        BY <2>3, <2>8
      <3> HIDE DEF merged
      <3>2. accepted'[s][e] = merged
        BY <2>1, <2>2, <2>3, <2>8 DEF TypeOK
      <3> SUFFICES ASSUME source[s].heads, NEW n \in Nat, NEW i \in Ordinals, NEW k \in Ordinals,
                          InBlock(n, i), i <= Len(source[s].content), merged[i] # NoVector,
                          InBlock(n, k), k <= Len(source[s].content)
                   PROVE  merged[k] # NoVector
        BY <2>1, <3>2 DEF WholeBatches
      <3>3. i \in Nat /\ k \in Nat
        BY RetrievalAssumption DEF Ordinals
      <3>4. CASE n = m
        BY <2>3, <2>4, <2>6, <2>8, <3>1, <3>4
      <3>5. CASE n # m
        <4>1. i \notin Batch(w) /\ k \notin Batch(w)
          BY <2>6, <3>3, <3>5, OneBlock
        <4>2. merged[i] = accepted[s][e][i] /\ merged[k] = accepted[s][e][k]
          BY <3>1, <4>1
        <4> QED
          BY <4>2 DEF WholeBatches
      <3> QED
        BY <3>4, <3>5
    <2> QED
      BY <2>7, <2>8
  <1>2. ASSUME UNCHANGED accepted, source'[s].epoch = source[s].epoch,
               source'[s].content = source[s].content, source'[s].heads = source[s].heads
        PROVE  WholeBatches(s)'
    BY <1>2 DEF WholeBatches
  <1>3. ASSUME UNCHANGED accepted, source'[s].epoch = source[s].epoch + 1
        PROVE  WholeBatches(s)'
    <2> DEFINE e == source[s].epoch + 1
    <2>1. source[s].epoch \in Nat
      BY RowTypes
    <2>2. e \in Epochs
      <3>1. source'[s].epoch \in 0..MaxEpoch
        BY DEF TypeOK, SourceRow
      <3> QED
        BY <1>3, <2>1, <3>1, RetrievalAssumption DEF Epochs
    <2>3. ASSUME NEW i \in Ordinals PROVE accepted'[s][e][i] = NoVector
      <3>1. StoredFits(s) /\ ~(e <= source[s].epoch)
        BY <2>1 DEF IndexInv, SourceInv
      <3> HIDE DEF e
      <3>2. accepted[s][e][i] = NoVector
        BY <2>2, <3>1 DEF StoredFits
      <3> QED
        BY <1>3, <3>2
    <2> QED
      BY <1>3, <2>3 DEF WholeBatches
  <1> QED
    BY <1>1, <1>2, <1>3, OnlyAcceptStores, TextsStayOrEpochsStart

\* The fence keeps every other worker from storing the batch that a worker embeds.
LEMMA BatchIsNewNext ==
  ASSUME TypeInv, TypeOK', FenceInv, IndexInv, AcceptInv, [Next]_vars, NEW w \in Workers
  PROVE  BatchIsNew(w)'
  <1> DEFINE cl == worker[w].claim
             s == cl.source
             e == cl.epoch
  <1>0. TypeOK
    BY DEF TypeInv
  <1> SUFFICES ASSUME worker'[w].pc \in {"embed", "accept"}, NotRevoked(worker[w].claim)'
               PROVE  \A i \in Batch(w)' : accepted'[worker'[w].claim.source][worker'[w].claim.epoch][i] = NoVector
    BY DEF BatchIsNew
  <1>1. CASE worker'[w] = worker[w]
    <2>1. Busy(w) /\ worker[w].pc \in {"embed", "accept"}
      BY <1>1 DEF Busy
    <2>2. NotRevoked(cl)
      BY <1>1, <2>1, StaysRevoked
    <2>3. \A i \in Batch(w) : accepted[s][e][i] = NoVector
      BY <2>1, <2>2 DEF AcceptInv, BatchIsNew
    <2>4. s \in Sources /\ e \in Epochs
      BY <1>0, <2>1, ClaimTypes
    <2>5. accepted'[s][e] = accepted[s][e]
      <3>1. ASSUME NEW v \in Workers, Stores(v) PROVE accepted'[s][e] = accepted[s][e]
        <4> DEFINE dl == worker[v].claim
        <4>1. Busy(v) /\ Current(dl) /\ NextBatch(v)
              /\ \E vectors : accepted' = [accepted EXCEPT ![dl.source][dl.epoch] = vectors]
          BY <3>1 DEF Stores
        <4>2. dl.source \in Sources /\ dl.epoch \in Epochs
          BY <1>0, <4>1, ClaimTypes
        <4>3. v # w
          <5>1. NextBatch(v) => worker'[v].pc \in {"publish", "check"}
            BY <1>0, <4>1, WorkerMovesOn
          <5> QED
            BY <1>1, <2>1, <4>1, <5>1
        <4>4. dl.fence = jobs[dl.source][dl.epoch].fence
          BY <4>1 DEF Current
        <4>5. ~(dl.source = s /\ dl.epoch = e)
          <5>1. cl.fence = jobs[s][e].fence
            BY <2>2 DEF NotRevoked
          <5>2. dl.source = s /\ dl.epoch = e => dl.fence = cl.fence
            BY ONLY <4>4, <5>1
          <5>3. FencesAreUnique
            BY DEF FenceInv
          <5> QED
            BY <2>1, <4>1, <4>3, <5>2, <5>3, Zenon DEF FencesAreUnique
        <4> QED
          BY <1>0, <2>4, <4>1, <4>2, <4>5 DEF TypeOK
      <3> QED
        BY <3>1, OnlyAcceptStores
    <2>6. Batch(w)' = Batch(w)
      BY <1>1 DEF Batch
    <2> QED
      BY <1>1, <2>3, <2>5, <2>6
  <1>2. CASE /\ Busy(w) /\ worker'[w].first = worker[w].first /\ worker'[w].claim = worker[w].claim
             /\ UNCHANGED tables
             /\ \/ /\ worker'[w].pc = "embed" /\ Current(cl)
                   /\ \E i \in Batch(w) : accepted[s][e][i] = NoVector
                \/ worker[w].pc = "embed" /\ worker'[w].pc = "accept"
    <2>0. Batch(w)' = Batch(w) /\ accepted' = accepted
      BY <1>2 DEF Batch, tables
    <2>1. CASE worker[w].pc = "embed"
      <3>1. NotRevoked(cl)
        BY <1>2, StaysRevoked
      <3> QED
        BY <1>2, <2>0, <2>1, <3>1 DEF AcceptInv, BatchIsNew
    <2>2. CASE Current(cl) /\ \E i \in Batch(w) : accepted[s][e][i] = NoVector
      <3>1. s \in Sources /\ source[s].epoch = e /\ source[s].content = cl.chunks /\ source[s].eligible
        BY <1>0, <1>2, <2>2, ClaimTypes DEF Current, SourceIsClaimed
      <3>2. source[s].heads
        BY <3>1 DEF IndexInv, SourceInv, HeadIsWritten
      <3>3. PICK n \in Nat : worker[w].first = n * BatchSize + 1
        BY <1>2 DEF AcceptInv, BatchesAligned
      <3>4. \A i : i \in Batch(w) <=> i \in Ordinals /\ InBlock(n, i) /\ i <= Len(cl.chunks)
        BY <3>3, BatchIsBlock
      <3>5. WholeBatches(s)
        BY <3>1 DEF AcceptInv
      <3> HIDE DEF s, e, cl
      <3>6. \A i \in Batch(w) : accepted[s][e][i] = NoVector
        BY <2>2, <3>1, <3>2, <3>4, <3>5 DEF WholeBatches
      <3> QED
        BY <1>2, <2>0, <3>6 DEF s, e, cl
    <2> QED
      BY <1>2, <2>1, <2>2
  <1> QED
    BY <1>0, <1>1, <1>2, WorkerSteps DEF WorkerStep

\* The accept invariant holds always: batches are aligned, stored whole, and new
\* to whoever still has the right to store them.
THEOREM AcceptInvariant == Spec => []AcceptInv
  <1>1. Init => AcceptInv
    <2> SUFFICES ASSUME Init PROVE AcceptInv
      OBVIOUS
    <2>1. BatchesAligned /\ \A w \in Workers : BatchIsNew(w)
      BY DEF Init, BatchesAligned, BatchIsNew, Busy, Idle
    <2>2. \A s \in Sources : WholeBatches(s)
      BY DEF Init, WholeBatches, NoRow
    <2> QED
      BY <2>1, <2>2 DEF AcceptInv
  <1>2. TypeInv /\ FenceInv /\ IndexInv /\ AcceptInv /\ [Next]_vars => AcceptInv'
    <2> SUFFICES ASSUME TypeInv, FenceInv, IndexInv, AcceptInv, [Next]_vars PROVE AcceptInv'
      OBVIOUS
    <2>1. TypeOK /\ TypeOK'
      BY TypeInvNext DEF TypeInv
    <2> QED
      BY <2>1, AlignedNext, WholeBatchesNext, BatchIsNewNext DEF AcceptInv
  <1> QED
    BY <1>1, <1>2, FenceInvariant, IndexInvariant, PTL DEF Spec

\* accept never raises "accepted embedding batch changed", whatever the provider
\* answers, and however often the work was claimed before.
THEOREM AcceptIsConsistent == Spec => []AcceptNeverConflicts
  <1>1. AcceptInv => AcceptNeverConflicts
    BY DEF AcceptInv, BatchIsNew, NotRevoked, AcceptNeverConflicts, WorkerHolds, Current, SourceIsClaimed
  <1> QED
    BY <1>1, AcceptInvariant, PTL
=============================================================================
