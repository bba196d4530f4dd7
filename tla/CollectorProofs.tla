-------------------------- MODULE CollectorProofs --------------------------
(***************************************************************************)
(* The collector and the archive, for any number of files, sources,        *)
(* policies, requests and attempts.  The spool and the server are one      *)
(* ledger: which requests are queued, which may still be delivered, which  *)
(* were executed.  The daemon's locals follow the ledger through a cycle.  *)
(***************************************************************************)
EXTENDS Collector, TLAPS

-----------------------------------------------------------------------------
(* The inductive invariant *)

\* A queued request is on the wire only as it was enqueued, and no id names two
\* requests; what was executed had been sent.
WireIsHonest ==
  /\ \A m \in wire : m.id \in Queued => m = Payload(m.id)
  /\ \A m, n \in wire : m.id = n.id => m = n
  /\ \A id \in Ids : receipts[id] # 0 => \E m \in wire : m.id = id

\* A request on the wire that the server has not executed.
Unexecuted(m) == m \in wire /\ receipts[m.id] = 0

\* An unexecuted request is the next revision of its source for both sides, the only one
\* of that source, and still queued unless it was dropped.
UnexecutedIsNext ==
  /\ \A m \in wire : Unexecuted(m) =>
       /\ archive[m.source].revision = m.expectedRevision
       /\ head[m.source].revision = m.expectedRevision
       /\ ~head[m.source].tombstone => m.id \in Queued
  /\ \A m, n \in wire : Unexecuted(m) /\ Unexecuted(n) /\ m.source = n.source => m = n

\* A queued request that was executed made the archived revision.
ExecutedIsArchived ==
  \A id \in Queued : receipts[id] # 0 =>
    LET s == pending[id].source IN
    /\ receipts[id] = pending[id].expectedRevision + 1
    /\ archive[s].revision = receipts[id]
    /\ archive[s].tombstone \/ archive[s].digest = pending[id].digest

LedgerInv ==
  WireIsHonest /\ UnexecutedIsNext /\ ExecutedIsArchived /\ OneRequestPerSource /\ HeadFollowsArchive

\* What a policy leaves of a complete transcript.
UsableDigest(d, p) == \E c \in Usable : d = Redacted[c][p]

\* Digests are those of the policy they are filed under; once the sweep is over
\* that is the policy of the cycle.
DigestsFollowPolicy ==
  /\ daemon.pc \notin {"off", "idle"} => daemon.policy \in Policies
  /\ \A c \in daemon.candidates : UsableDigest(c.digest, daemon.policy)
  /\ \A id \in Queued : UsableDigest(pending[id].digest, pending[id].policyDigest)
  /\ daemon.pc \in {"scan", "enqueue", "upload", "sending"} =>
       \A id \in Queued : pending[id].policyDigest = daemon.policy

\* A request that may be attempted once more.
Ready(id) ==
  /\ id \in Queued /\ pending[id].status = "pending"
  /\ ~Held(pending[id].source)

\* What the upload loop has still to send may be sent, and what it sends was.
UploadsAreReady ==
  /\ \A id \in Queued : pending[id].status = "pending" => pending[id].attempts < maxAttempts
  /\ daemon.pc \notin {"upload", "sending"} => daemon.uploads = {}
  /\ \A id \in daemon.uploads : Ready(id)
  /\ daemon.pc = "sending" =>
       /\ Ready(daemon.current) /\ daemon.current \notin daemon.uploads
       /\ Payload(daemon.current) \in wire

\* An answer is about the request that is being sent, and a receipt is the
\* server's.
RepliesAreTrue ==
  /\ daemon.pc # "sending" => daemon.reply = NoReply
  /\ daemon.reply.code # "conflict"
  /\ daemon.reply.code = "receipt" =>
       receipts[daemon.current] # 0 /\ daemon.reply.revision = receipts[daemon.current]
  /\ \A id \in Queued : pending[id].status # "conflict"

CollectorInv == LedgerInv /\ DigestsFollowPolicy /\ UploadsAreReady /\ RepliesAreTrue

-----------------------------------------------------------------------------
(* Types *)

DaemonType ==
  [pc: {"off", "idle", "sweep", "scan", "enqueue", "upload", "sending"},
   policy: Policies \cup {NoPolicy}, files: SUBSET Files,
   candidates: SUBSET [key: Sources, digest: Digests], keys: SUBSET Sources,
   uploads: SUBSET Ids, current: Nat, reply: Reply]
HeadType == [revision: Nat, digest: Digests \cup {NoContent}, tombstone: BOOLEAN]

\* The types of the variables that several actions leave alone together.
WorldType ==
  /\ file \in [Files -> Contents \cup {NoContent}]
  /\ observation \in [Files -> [content: Contents \cup {NoContent}, quiet: BOOLEAN]]
  /\ policy \in Policies \cup {NoPolicy} /\ config \in Restrictions
  /\ disturbances \in 0..MaxDisturbances
LedgerType ==
  /\ head \in [Sources -> HeadType]
  /\ pending \in [Ids -> Entry \cup {NoEntry}]
  /\ wire \subseteq Message
  /\ archive \in [Sources -> HeadType]
  /\ receipts \in [Ids -> Nat]

\* TypeOK, part by part.
LEMMA TypeParts ==
  TypeOK <=> /\ WorldType /\ LedgerType /\ daemon \in DaemonType
             /\ daemon.pc = "sending" => daemon.current \in Queued
  BY DEF TypeOK, WorldType, LedgerType, DaemonType, HeadType

\* The same of the state a step leaves.
LEMMA TypePartsNext ==
  TypeOK' <=> /\ WorldType' /\ LedgerType' /\ daemon' \in DaemonType
              /\ daemon'.pc = "sending" => daemon'.current \in Queued'
  BY DEF TypeOK, WorldType, LedgerType, DaemonType, HeadType

\* A queued request is an entry.
LEMMA QueuedEntry ==
  ASSUME LedgerType, NEW id \in Queued
  PROVE  /\ id \in Ids /\ pending[id] \in Entry
         /\ pending[id].source \in Sources /\ pending[id].digest \in Digests
         /\ pending[id].expectedRevision \in Nat /\ pending[id].policyDigest \in Policies
         /\ pending[id].attempts \in 0..maxAttempts /\ pending[id].attempts \in Nat
  <1>1. id \in Ids /\ pending[id] \in Entry
    BY DEF LedgerType, Queued
  <1> QED
    BY <1>1, CollectorAssumption DEF Entry

\* An entry is not the absence of one.
LEMMA EntryIsSomething ==
  ASSUME NEW e \in Entry
  PROVE  e # NoEntry
  BY DEF Entry, NoEntry

\* The locals of a process or cycle that begins or ends.
LEMMA FreshDaemon ==
  ASSUME NEW pc \in {"off", "idle", "sweep"}
  PROVE  /\ Daemon(pc) \in DaemonType /\ Daemon(pc).pc = pc /\ Daemon(pc).policy = NoPolicy
         /\ Daemon(pc).candidates = {} /\ Daemon(pc).uploads = {} /\ Daemon(pc).reply = NoReply
  BY DEF Daemon, DaemonType, Reply

-----------------------------------------------------------------------------
(* The spool *)

\* The same request, whatever became of its attempts.
SameRequest(old, new) ==
  /\ new = NoEntry <=> old = NoEntry
  /\ old # NoEntry => /\ new.source = old.source /\ new.digest = old.digest
                      /\ new.expectedRevision = old.expectedRevision
                      /\ new.policyDigest = old.policyDigest

\* What fail, retry and the passing of the backoff make of an entry.
Rescheduled(id, tries, due, status) ==
  pending' = [pending EXCEPT ![id] = [pending[id] EXCEPT !.attempts = tries, !.due = due, !.status = status]]

\* Rescheduling one request touches no other, and nothing of it that is sent.
LEMMA ReschedulingKeeps ==
  ASSUME LedgerType, NEW id \in Queued, NEW tries \in 0..maxAttempts, NEW due \in BOOLEAN,
         NEW status \in {"pending", "stopped", "conflict"}, Rescheduled(id, tries, due, status)
  PROVE  /\ pending' \in [Ids -> Entry \cup {NoEntry}] /\ Queued' = Queued
         /\ \A i \in Ids : SameRequest(pending[i], pending'[i])
         /\ \A i \in Ids : i # id => pending'[i] = pending[i]
         /\ pending'[id].attempts = tries /\ pending'[id].due = due /\ pending'[id].status = status
  <1> DEFINE e == [pending[id] EXCEPT !.attempts = tries, !.due = due, !.status = status]
  <1>1. id \in Ids /\ pending[id] \in Entry
    BY QueuedEntry
  <1>2. /\ e \in Entry /\ e.attempts = tries /\ e.due = due /\ e.status = status
        /\ e.source = pending[id].source /\ e.digest = pending[id].digest
        /\ e.expectedRevision = pending[id].expectedRevision
        /\ e.policyDigest = pending[id].policyDigest
    BY <1>1 DEF Entry
  <1>3. pending[id] # NoEntry /\ e # NoEntry
    BY <1>1, <1>2, EntryIsSomething
  <1>4. pending' = [pending EXCEPT ![id] = e]
    BY DEF Rescheduled
  <1> HIDE DEF e
  <1>5. pending' \in [Ids -> Entry \cup {NoEntry}] /\ pending'[id] = e
        /\ \A i \in Ids : i # id => pending'[i] = pending[i]
    BY <1>1, <1>2, <1>4 DEF LedgerType
  <1>6. Queued' = Queued
    BY <1>3, <1>5 DEF Queued
  <1>7. \A i \in Ids : SameRequest(pending[i], pending'[i])
    BY <1>2, <1>3, <1>5 DEF SameRequest
  <1> QED
    BY <1>2, <1>5, <1>6, <1>7

\* A failed attempt is one rescheduling; while one is left it is not the last.
LEMMA FailedReschedules ==
  ASSUME LedgerType, NEW id \in Queued, pending[id].attempts < maxAttempts,
         NEW retryable \in BOOLEAN, NEW conflict \in BOOLEAN, Failed(id, retryable, conflict)
  PROVE  \E tries \in 0..maxAttempts, due \in BOOLEAN, status \in {"pending", "stopped", "conflict"} :
           /\ Rescheduled(id, tries, due, status)
           /\ status = "pending" => tries < maxAttempts
           /\ status = "conflict" => conflict
  <1> DEFINE tries == pending[id].attempts + 1
             status == IF conflict THEN "conflict"
                       ELSE IF ~retryable \/ tries >= maxAttempts THEN "stopped" ELSE "pending"
  <1>1. tries \in 0..maxAttempts
    BY QueuedEntry, CollectorAssumption
  <1>2. Rescheduled(id, tries, FALSE, status)
    BY QueuedEntry DEF Failed, Rescheduled, LedgerType
  <1>3. status \in {"pending", "stopped", "conflict"} /\ (status = "conflict" => conflict)
    OBVIOUS
  <1>4. status = "pending" => tries < maxAttempts
    BY <1>1, CollectorAssumption
  <1> HIDE DEF tries, status
  <1> QED
    BY <1>1, <1>2, <1>3, <1>4

\* So is an operator's retry, and the end of a backoff.
LEMMA RetryReschedules ==
  ASSUME LedgerType, NEW id \in Ids, OperatorRetry(id)
  PROVE  id \in Queued /\ Rescheduled(id, 0, TRUE, "pending") /\ 0 \in 0..maxAttempts /\ 0 < maxAttempts
  BY CollectorAssumption DEF OperatorRetry, Rescheduled, Queued, LedgerType

\* The end of a backoff is a rescheduling with the same attempts and status.
LEMMA BackoffReschedules ==
  ASSUME LedgerType, NEW id \in Ids, BackoffPasses(id)
  PROVE  id \in Queued /\ Rescheduled(id, pending[id].attempts, TRUE, pending[id].status)
         /\ pending[id].status \in {"pending", "stopped", "conflict"}
  <1>1. id \in Queued /\ pending[id] \in Entry
    BY QueuedEntry DEF BackoffPasses
  <1>2. [pending[id] EXCEPT !.due = TRUE]
        = [pending[id] EXCEPT !.attempts = pending[id].attempts, !.due = TRUE, !.status = pending[id].status]
    BY <1>1 DEF Entry
  <1> QED
    BY <1>1, <1>2 DEF BackoffPasses, Rescheduled, Entry

\* Dropping a request takes it from the queue and closes its source.
LEMMA DroppedKeeps ==
  ASSUME LedgerType, NEW id \in Queued, Dropped(id)
  PROVE  LET s == pending[id].source IN
         /\ pending' \in [Ids -> Entry \cup {NoEntry}] /\ head' \in [Sources -> HeadType]
         /\ Queued' = Queued \ {id}
         /\ \A i \in Queued' : pending'[i] = pending[i]
         /\ head'[s].revision = head[s].revision /\ head'[s].digest = head[s].digest
         /\ head'[s].tombstone
         /\ \A t \in Sources : t # s => head'[t] = head[t]
  <1> DEFINE s == pending[id].source
  <1>1. id \in Ids /\ s \in Sources
    BY QueuedEntry
  <1> HIDE DEF s
  <1>2. pending' = [pending EXCEPT ![id] = NoEntry]
    BY DEF Dropped
  <1>3. head' = [head EXCEPT ![s] = [head[s] EXCEPT !.tombstone = TRUE]]
    BY DEF Dropped, s
  <1>4. head[s] \in HeadType
    BY <1>1 DEF LedgerType
  <1>5. /\ head'[s].revision = head[s].revision /\ head'[s].digest = head[s].digest
        /\ head'[s].tombstone /\ head'[s] \in HeadType
    BY <1>1, <1>3, <1>4 DEF LedgerType, HeadType
  <1>6. \A t \in Sources : t # s => head'[t] = head[t]
    BY <1>3 DEF LedgerType
  <1>7. head' \in [Sources -> HeadType]
    BY <1>3, <1>5, <1>6 DEF LedgerType
  <1>8. pending' \in [Ids -> Entry \cup {NoEntry}] /\ Queued' = Queued \ {id}
        /\ \A i \in Queued' : pending'[i] = pending[i]
    BY <1>1, <1>2 DEF LedgerType, Queued
  <1> QED
    BY <1>5, <1>6, <1>7, <1>8 DEF s

\* The entry that enqueue writes.
NewEntry(s, d) ==
  [source |-> s, digest |-> d, expectedRevision |-> head[s].revision,
   policyDigest |-> daemon.policy, attempts |-> 0, due |-> TRUE, status |-> "pending"]

Enqueues(s, d, id) ==
  /\ id \in Fresh /\ Wanted(s, d) /\ daemon.policy \in Policies
  /\ pending' = [pending EXCEPT ![id] = NewEntry(s, d)]

\* A new request joins the queue under an id of its own.
LEMMA EnqueueAdds ==
  ASSUME LedgerType, NEW s \in Sources, NEW d \in Digests, NEW id \in Ids, Enqueues(s, d, id)
  PROVE  /\ pending' \in [Ids -> Entry \cup {NoEntry}] /\ id \notin Queued
         /\ Queued' = Queued \cup {id} /\ pending'[id] = NewEntry(s, d)
         /\ \A i \in Queued : pending'[i] = pending[i]
  <1>1. NewEntry(s, d) \in Entry
    <2>1. head[s].revision \in Nat
      BY DEF LedgerType, HeadType
    <2>2. 0 \in 0..maxAttempts
      BY CollectorAssumption
    <2> QED
      BY <2>1, <2>2 DEF NewEntry, Entry, Enqueues
  <1>2. NewEntry(s, d) # NoEntry
    BY <1>1, EntryIsSomething
  <1> QED
    BY <1>1, <1>2 DEF Enqueues, LedgerType, Queued, Fresh

\* A receipt moves the head to the revision it confirms.
LEMMA AckMoves ==
  ASSUME LedgerType, NEW id \in Queued, NEW revision \in Nat, Ack(id, revision)
  PROVE  LET s == pending[id].source IN
         /\ pending' \in [Ids -> Entry \cup {NoEntry}] /\ head' \in [Sources -> HeadType]
         /\ Queued' = Queued \ {id}
         /\ \A i \in Queued' : pending'[i] = pending[i]
         /\ head'[s].revision = revision /\ head'[s].digest = pending[id].digest
         /\ ~head'[s].tombstone
         /\ \A t \in Sources : t # s => head'[t] = head[t]
  <1> DEFINE s == pending[id].source
             d == pending[id].digest
             h == [revision |-> revision, digest |-> d, tombstone |-> FALSE]
  <1>1. id \in Ids /\ s \in Sources /\ d \in Digests
    BY QueuedEntry
  <1>2. pending' = [pending EXCEPT ![id] = NoEntry] /\ head' = [head EXCEPT ![s] = h]
    BY DEF Ack
  <1> HIDE DEF s, d
  <1>3. h \in HeadType /\ h.revision = revision /\ h.digest = d /\ h.tombstone = FALSE
    BY <1>1 DEF HeadType
  <1> HIDE DEF h
  <1>4. /\ head' \in [Sources -> HeadType] /\ head'[s] = h
        /\ \A t \in Sources : t # s => head'[t] = head[t]
    BY <1>1, <1>2, <1>3 DEF LedgerType
  <1>5. /\ pending' \in [Ids -> Entry \cup {NoEntry}] /\ Queued' = Queued \ {id}
        /\ \A i \in Queued' : pending'[i] = pending[i]
    BY <1>1, <1>2 DEF LedgerType, Queued
  <1> QED
    BY <1>3, <1>4, <1>5 DEF s, d

-----------------------------------------------------------------------------
(* The kinds of steps the ledger takes *)

LedgerStays ==
  /\ \A id \in Ids : SameRequest(pending[id], pending'[id])
  /\ UNCHANGED <<head, wire, archive, receipts>>

Drops(id) == id \in Queued /\ Dropped(id) /\ UNCHANGED <<wire, archive, receipts>>

Sends(id) == /\ id \in Queued /\ wire' = wire \cup {Payload(id)}
             /\ UNCHANGED <<head, pending, archive, receipts>>

Executes(m) ==
  /\ m \in wire /\ Unexecuted(m) /\ ~archive[m.source].tombstone
  /\ archive[m.source].revision = m.expectedRevision
  /\ archive' = [archive EXCEPT ![m.source] =
       [archive[m.source] EXCEPT !.revision = m.expectedRevision + 1, !.digest = m.digest]]
  /\ receipts' = [receipts EXCEPT ![m.id] = m.expectedRevision + 1]
  /\ UNCHANGED <<head, pending, wire>>

Acks(id) ==
  /\ id \in Queued /\ receipts[id] = pending[id].expectedRevision + 1
  /\ Ack(id, receipts[id])
  /\ UNCHANGED <<wire, archive, receipts>>

LedgerStep ==
  \/ LedgerStays
  \/ \E id \in Ids : Drops(id) \/ Sends(id) \/ Acks(id)
  \/ \E s \in Sources, d \in Digests, id \in Ids :
       Enqueues(s, d, id) /\ UNCHANGED <<head, wire, archive, receipts>>
  \/ \E m \in wire : Executes(m)
  \/ \E s \in Sources : Purge(s)

\* Nothing queued moves when no variable of the ledger does.
LEMMA UnchangedLedgerStays ==
  ASSUME UNCHANGED <<head, pending, wire, archive, receipts>>
  PROVE  LedgerStays
  BY DEF LedgerStays, SameRequest

\* A rescheduling is no step of the ledger.
LEMMA ReschedulingStays ==
  ASSUME LedgerType, NEW id \in Queued, NEW tries \in 0..maxAttempts, NEW due \in BOOLEAN,
         NEW status \in {"pending", "stopped", "conflict"}, Rescheduled(id, tries, due, status),
         UNCHANGED <<head, wire, archive, receipts>>
  PROVE  LedgerStays
  BY ReschedulingKeeps DEF LedgerStays

\* What the server answers, and what it executes: a request it has not executed
\* is the next one, so it never answers "conflict".
LEMMA IngestExecutes ==
  ASSUME LedgerType, LedgerInv, NEW m \in wire, NEW heard \in BOOLEAN, Ingest(m, heard)
  PROVE  /\ LedgerStays \/ Executes(m)
         /\ Answer(m) \in Reply /\ Answer(m).code \in {"receipt", "gone"}
         /\ Answer(m).code = "receipt" =>
              receipts'[m.id] # 0 /\ Answer(m).revision = receipts'[m.id]
         /\ \A id \in Ids : receipts[id] # 0 => receipts'[id] = receipts[id]
  <1>0. m \in Message /\ m.id \in Ids /\ m.source \in Sources /\ m.expectedRevision \in Nat
        /\ m.digest \in Digests
    BY DEF LedgerType, Message
  <1>1. UNCHANGED <<head, pending, wire>>
    BY DEF Ingest, spool
  <1>2. CASE receipts[m.id] # 0
    <2>1. Answer(m) = [code |-> "receipt", revision |-> receipts[m.id]]
      BY <1>2 DEF Answer
    <2>2. UNCHANGED <<archive, receipts>>
      BY <1>2 DEF Ingest, server
    <2>3. receipts[m.id] \in Nat
      BY <1>0 DEF LedgerType
    <2> QED
      BY <1>1, <1>2, <2>1, <2>2, <2>3, UnchangedLedgerStays DEF Reply
  <1>3. CASE receipts[m.id] = 0 /\ archive[m.source].tombstone
    <2>1. Answer(m) = [code |-> "gone"]
      BY <1>3 DEF Answer
    <2>2. UNCHANGED <<archive, receipts>>
      BY <2>1 DEF Ingest, server
    <2> QED
      BY <1>1, <2>1, <2>2, UnchangedLedgerStays DEF Reply
  <1>4. CASE receipts[m.id] = 0 /\ ~archive[m.source].tombstone
    <2>1. archive[m.source].revision = m.expectedRevision
      BY <1>4 DEF LedgerInv, UnexecutedIsNext, Unexecuted
    <2>2. Answer(m) = [code |-> "receipt", revision |-> m.expectedRevision + 1]
      BY <1>4, <2>1 DEF Answer
    <2>3. Answer(m).code = "receipt" /\ Answer(m).revision = m.expectedRevision + 1
          /\ Answer(m) \in Reply
      BY <1>0, <2>2 DEF Reply
    <2>4. /\ archive' = [archive EXCEPT ![m.source] =
               [archive[m.source] EXCEPT !.revision = m.expectedRevision + 1, !.digest = m.digest]]
          /\ receipts' = [receipts EXCEPT ![m.id] = m.expectedRevision + 1]
      BY <1>0, <1>4, <2>3 DEF Ingest, LedgerType
    <2>5. Executes(m)
      BY <1>1, <1>4, <2>1, <2>4 DEF Executes, Unexecuted
    <2>6. receipts'[m.id] = m.expectedRevision + 1 /\ \A id \in Ids : id # m.id => receipts'[id] = receipts[id]
      BY <1>0, <2>4 DEF LedgerType
    <2> QED
      BY <1>0, <1>4, <2>3, <2>5, <2>6
  <1> QED
    BY <1>2, <1>3, <1>4

-----------------------------------------------------------------------------
(* The ledger invariant *)

\* Rescheduling does not disturb it.
LEMMA StayingKeepsLedger ==
  ASSUME LedgerType, LedgerInv, LedgerStays
  PROVE  LedgerInv'
  <1>1. Queued' = Queued
    BY DEF LedgerStays, SameRequest, Queued
  <1>2. \A id \in Queued : /\ pending'[id].source = pending[id].source
                           /\ pending'[id].digest = pending[id].digest
                           /\ pending'[id].expectedRevision = pending[id].expectedRevision
    BY DEF LedgerStays, SameRequest, Queued
  <1>3. \A id \in Queued : Payload(id)' = Payload(id)
    BY <1>2 DEF Payload
  <1>4. UNCHANGED <<head, wire, archive, receipts>>
    BY DEF LedgerStays
  <1>5. WireIsHonest'
    BY <1>1, <1>3, <1>4 DEF LedgerInv, WireIsHonest
  <1>6. UnexecutedIsNext'
    BY <1>1, <1>4 DEF LedgerInv, UnexecutedIsNext, Unexecuted
  <1>7. ExecutedIsArchived'
    BY <1>1, <1>2, <1>4 DEF LedgerInv, ExecutedIsArchived
  <1>8. OneRequestPerSource'
    BY <1>1, <1>2, <1>4 DEF LedgerInv, OneRequestPerSource
  <1>9. HeadFollowsArchive'
    BY <1>1, <1>2, <1>4 DEF LedgerInv, HeadFollowsArchive
  <1> QED
    BY <1>5, <1>6, <1>7, <1>8, <1>9 DEF LedgerInv

\* A dropped request may still be executed: its source is closed first.
LEMMA DropKeepsLedger ==
  ASSUME LedgerType, LedgerInv, NEW id \in Ids, Drops(id)
  PROVE  LedgerInv'
  <1> DEFINE s == pending[id].source
  <1>0. id \in Queued /\ Dropped(id) /\ UNCHANGED <<wire, archive, receipts>>
    BY DEF Drops
  <1>1. /\ Queued' = Queued \ {id} /\ \A i \in Queued' : pending'[i] = pending[i]
        /\ head'[s].revision = head[s].revision /\ head'[s].digest = head[s].digest
        /\ head'[s].tombstone
        /\ \A t \in Sources : t # s => head'[t] = head[t]
    BY <1>0, DroppedKeeps
  <1>2. \A i \in Queued : pending[i].source \in Sources
    BY QueuedEntry
  <1>3. \A i \in Queued : pending[i].source = s => i = id
    BY <1>0 DEF LedgerInv, OneRequestPerSource
  <1>4. \A m \in wire : m.source \in Sources
    BY DEF LedgerType, Message
  <1>5. \A i \in Queued' : Payload(i)' = Payload(i)
    BY <1>1 DEF Payload
  <1>6. \A t \in Sources : head'[t].revision = head[t].revision /\ head'[t].digest = head[t].digest
    BY <1>1
  <1>7. WireIsHonest'
    BY <1>0, <1>1, <1>5 DEF LedgerInv, WireIsHonest
  <1>8. UnexecutedIsNext'
    <2>1. ASSUME NEW m \in wire, Unexecuted(m), ~head'[m.source].tombstone PROVE m.id \in Queued'
      <3>1. m.source # s /\ m.id \in Queued
        BY <1>1, <1>4, <2>1 DEF LedgerInv, UnexecutedIsNext
      <3>2. m.id # id
        BY <3>1, <1>0 DEF LedgerInv, WireIsHonest, Payload
      <3> QED
        BY <1>1, <3>1, <3>2
    <2> QED
      BY <1>0, <1>4, <1>6, <2>1 DEF LedgerInv, UnexecutedIsNext, Unexecuted
  <1>9. ExecutedIsArchived'
    BY <1>0, <1>1 DEF LedgerInv, ExecutedIsArchived
  <1>10. OneRequestPerSource'
    <2>1. \A i \in Queued' : i \in Queued /\ pending[i].source # s
      BY <1>1, <1>3
    <2>2. \A i \in Queued' : head'[pending[i].source] = head[pending[i].source]
      BY <1>1, <1>2, <2>1
    <2> QED
      BY <1>1, <2>1, <2>2 DEF LedgerInv, OneRequestPerSource
  <1>11. HeadFollowsArchive'
    <2>1. ASSUME NEW t \in Sources, archive[t].revision # head[t].revision, ~head'[t].tombstone
          PROVE  \E i \in Queued' : pending'[i].source = t /\ receipts[i] = archive[t].revision
      <3>1. t # s /\ ~head[t].tombstone
        BY <1>1, <2>1
      <3>2. PICK i \in Queued : pending[i].source = t /\ receipts[i] = archive[t].revision
        BY <2>1, <3>1 DEF LedgerInv, HeadFollowsArchive
      <3> QED
        BY <1>1, <3>1, <3>2
    <2> QED
      BY <1>0, <1>6, <2>1 DEF LedgerInv, HeadFollowsArchive
  <1> QED
    BY <1>7, <1>8, <1>9, <1>10, <1>11 DEF LedgerInv

\* A new request expects the archived revision: whatever made a difference between
\* head and archive would still be queued, or have closed the source.
LEMMA EnqueueKeepsLedger ==
  ASSUME LedgerType, LedgerInv, NEW s \in Sources, NEW d \in Digests, NEW id \in Ids,
         Enqueues(s, d, id), UNCHANGED <<head, wire, archive, receipts>>
  PROVE  LedgerInv'
  <1>1. /\ id \notin Queued /\ Queued' = Queued \cup {id} /\ pending'[id] = NewEntry(s, d)
        /\ \A i \in Queued : pending'[i] = pending[i]
    BY EnqueueAdds
  <1>2. /\ pending'[id].source = s /\ pending'[id].digest = d
        /\ pending'[id].expectedRevision = head[s].revision
    BY <1>1 DEF NewEntry
  <1>3. ~head[s].tombstone /\ \A i \in Queued : pending[i].source # s
    BY DEF Enqueues, Wanted, QueuedSources
  <1>4. (\A m \in wire : m.id # id) /\ receipts[id] = 0
    BY DEF Enqueues, Fresh, LedgerInv, WireIsHonest
  <1>5. \A i \in Queued : Payload(i)' = Payload(i)
    BY <1>1 DEF Payload
  <1>6. WireIsHonest'
    BY <1>1, <1>4, <1>5 DEF LedgerInv, WireIsHonest
  <1>7. UnexecutedIsNext'
    BY <1>1 DEF LedgerInv, UnexecutedIsNext, Unexecuted
  <1>8. ExecutedIsArchived'
    BY <1>1, <1>4 DEF LedgerInv, ExecutedIsArchived
  <1>9. OneRequestPerSource'
    BY <1>1, <1>2, <1>3 DEF LedgerInv, OneRequestPerSource
  <1>10. HeadFollowsArchive'
    BY <1>1 DEF LedgerInv, HeadFollowsArchive
  <1> QED
    BY <1>6, <1>7, <1>8, <1>9, <1>10 DEF LedgerInv

\* Sending once more what is queued adds nothing new to the wire.
LEMMA SendKeepsLedger ==
  ASSUME LedgerType, LedgerInv, NEW id \in Ids, Sends(id)
  PROVE  LedgerInv'
  <1> DEFINE p == Payload(id)
             s == pending[id].source
  <1>0. id \in Queued /\ wire' = wire \cup {p} /\ UNCHANGED <<head, pending, archive, receipts>>
    BY DEF Sends
  <1>1. p.id = id /\ p.source = s /\ p.expectedRevision = pending[id].expectedRevision
    BY DEF Payload
  <1>2. s \in Sources
    BY <1>0, QueuedEntry
  <1>3. Queued' = Queued /\ \A i \in Queued : Payload(i)' = Payload(i)
    BY <1>0 DEF Queued, Payload
  <1>4. head[s].revision = pending[id].expectedRevision /\ ~head[s].tombstone
    BY <1>0 DEF LedgerInv, OneRequestPerSource
  <1>5. receipts[id] = 0 => archive[s].revision = pending[id].expectedRevision
    <2>1. \A i \in Queued : pending[i].source = s => i = id
      BY <1>0 DEF LedgerInv, OneRequestPerSource
    <2>2. archive[s].revision # 0 \/ archive[s].revision = head[s].revision
      BY <1>2 DEF LedgerInv, HeadFollowsArchive, LedgerType, HeadType
    <2> QED
      BY <1>2, <1>4, <2>1, <2>2 DEF LedgerInv, HeadFollowsArchive
  <1> HIDE DEF p
  <1>6. \A m \in wire : m.id = id => m = p
    BY <1>0 DEF LedgerInv, WireIsHonest, p
  <1>7. WireIsHonest'
    <2>1. \A m \in wire' : m.id \in Queued => m = Payload(m.id)
      BY <1>0, <1>1 DEF LedgerInv, WireIsHonest, p
    <2>2. \A m, n \in wire' : m.id = n.id => m = n
      BY <1>0, <1>1, <1>6 DEF LedgerInv, WireIsHonest
    <2>3. \A i \in Ids : receipts[i] # 0 => \E m \in wire' : m.id = i
      BY <1>0 DEF LedgerInv, WireIsHonest
    <2> QED
      BY <1>0, <1>3, <2>1, <2>2, <2>3 DEF WireIsHonest
  <1>8. UnexecutedIsNext'
    <2>1. ASSUME NEW m \in wire', receipts[m.id] = 0
          PROVE  /\ archive[m.source].revision = m.expectedRevision
                 /\ head[m.source].revision = m.expectedRevision
                 /\ ~head[m.source].tombstone => m.id \in Queued
      BY <1>0, <1>1, <1>4, <1>5, <2>1 DEF LedgerInv, UnexecutedIsNext, Unexecuted
    <2>2. ASSUME NEW m \in wire, receipts[m.id] = 0, m.source = s PROVE m = p
      <3>1. m.id \in Queued
        BY <1>4, <2>2 DEF LedgerInv, UnexecutedIsNext, Unexecuted
      <3>2. pending[m.id].source = s
        BY <2>2, <3>1 DEF LedgerInv, WireIsHonest, Payload
      <3>3. m.id = id
        BY <1>0, <3>1, <3>2 DEF LedgerInv, OneRequestPerSource
      <3> QED
        BY <1>6, <3>3
    <2>3. ASSUME NEW m \in wire', NEW n \in wire', receipts[m.id] = 0, receipts[n.id] = 0,
                 m.source = n.source
          PROVE  m = n
      BY <1>0, <1>1, <2>2, <2>3 DEF LedgerInv, UnexecutedIsNext, Unexecuted
    <2> QED
      BY <1>0, <1>3, <2>1, <2>3 DEF UnexecutedIsNext, Unexecuted
  <1>9. ExecutedIsArchived' /\ OneRequestPerSource' /\ HeadFollowsArchive'
    BY <1>0, <1>3 DEF LedgerInv, ExecutedIsArchived, OneRequestPerSource, HeadFollowsArchive
  <1> QED
    BY <1>7, <1>8, <1>9 DEF LedgerInv

\* Executing the one open request of a source archives what the spool still holds,
\* or what it dropped.
LEMMA ExecuteKeepsLedger ==
  ASSUME LedgerType, LedgerInv, NEW m \in wire, Executes(m)
  PROVE  LedgerInv'
  <1> DEFINE s == m.source
             r == m.expectedRevision + 1
  <1>0. /\ m.id \in Ids /\ s \in Sources /\ m.digest \in Digests
        /\ m.expectedRevision \in Nat /\ r \in Nat /\ r # 0 /\ r # m.expectedRevision
    BY DEF LedgerType, Message
  <1>1. /\ Unexecuted(m) /\ ~archive[s].tombstone /\ UNCHANGED <<head, pending, wire>>
        /\ archive[s].revision = m.expectedRevision /\ head[s].revision = m.expectedRevision
    BY DEF Executes, LedgerInv, UnexecutedIsNext
  <1>2. receipts'[m.id] = r /\ \A i \in Ids : i # m.id => receipts'[i] = receipts[i]
    BY <1>0 DEF Executes, LedgerType
  <1>3. /\ archive'[s].revision = r /\ archive'[s].digest = m.digest
        /\ ~archive'[s].tombstone
        /\ \A t \in Sources : t # s => archive'[t] = archive[t]
    <2>1. archive[s] \in HeadType
      BY <1>0 DEF LedgerType
    <2>2. archive' = [archive EXCEPT ![s] = [archive[s] EXCEPT !.revision = r, !.digest = m.digest]]
      BY DEF Executes
    <2> HIDE DEF r, s
    <2>3. archive'[s] = [archive[s] EXCEPT !.revision = r, !.digest = m.digest]
          /\ \A t \in Sources : t # s => archive'[t] = archive[t]
      BY <1>0, <2>2 DEF LedgerType
    <2> QED
      BY <1>1, <2>1, <2>3 DEF HeadType
  <1>4. Queued' = Queued /\ \A i \in Queued : i \in Ids /\ Payload(i)' = Payload(i)
    BY <1>1 DEF Queued, Payload
  <1>5. \A n \in wire : n.id \in Ids /\ n.source \in Sources
    BY DEF LedgerType, Message
  <1>6. \A n \in wire : n.id = m.id => n = m
    BY DEF LedgerInv, WireIsHonest
  <1>7. \A n \in wire : receipts'[n.id] = 0 => Unexecuted(n) /\ n.source # s
    BY <1>0, <1>1, <1>2, <1>5 DEF LedgerInv, UnexecutedIsNext, Unexecuted
  <1> HIDE DEF r, s
  <1>8. WireIsHonest'
    BY <1>1, <1>2, <1>4 DEF LedgerInv, WireIsHonest
  <1>9. UnexecutedIsNext'
    <2>1. ASSUME NEW n \in wire, receipts'[n.id] = 0
          PROVE  /\ archive'[n.source].revision = n.expectedRevision
                 /\ head[n.source].revision = n.expectedRevision
                 /\ ~head[n.source].tombstone => n.id \in Queued
      BY <1>3, <1>5, <1>7, <2>1 DEF LedgerInv, UnexecutedIsNext
    <2>2. ASSUME NEW n \in wire, NEW k \in wire, receipts'[n.id] = 0, receipts'[k.id] = 0,
                 n.source = k.source
          PROVE  n = k
      BY <1>7, <2>2 DEF LedgerInv, UnexecutedIsNext
    <2> QED
      BY <1>1, <1>4, <2>1, <2>2 DEF UnexecutedIsNext, Unexecuted
  <1>10. ExecutedIsArchived'
    <2> SUFFICES ASSUME NEW id \in Queued, receipts'[id] # 0
                 PROVE  /\ receipts'[id] = pending[id].expectedRevision + 1
                        /\ archive'[pending[id].source].revision = receipts'[id]
                        /\ \/ archive'[pending[id].source].tombstone
                           \/ archive'[pending[id].source].digest = pending[id].digest
      BY <1>1, <1>4 DEF ExecutedIsArchived
    <2>0. id \in Ids /\ pending[id].source \in Sources
      BY QueuedEntry
    <2>1. CASE id = m.id
      <3>1. m = Payload(id)
        BY <2>1 DEF LedgerInv, WireIsHonest
      <3>2. /\ pending[id].source = s /\ pending[id].digest = m.digest
            /\ pending[id].expectedRevision = m.expectedRevision
        BY <3>1 DEF Payload, s
      <3> QED
        BY <1>2, <1>3, <2>1, <3>2 DEF r
    <2>2. CASE id # m.id
      <3>1. receipts[id] # 0 /\ receipts'[id] = receipts[id]
        BY <1>2, <2>0, <2>2
      <3>2. /\ receipts[id] = pending[id].expectedRevision + 1
            /\ archive[pending[id].source].revision = receipts[id]
            /\ \/ archive[pending[id].source].tombstone
               \/ archive[pending[id].source].digest = pending[id].digest
        BY <3>1 DEF LedgerInv, ExecutedIsArchived
      <3>3. pending[id].expectedRevision = head[pending[id].source].revision
            /\ pending[id].expectedRevision \in Nat
        BY QueuedEntry DEF LedgerInv, OneRequestPerSource
      <3>4. pending[id].source # s
        BY <1>1, <3>2, <3>3
      <3> QED
        BY <1>3, <2>0, <3>1, <3>2, <3>4
    <2> QED
      BY <2>1, <2>2
  <1>11. OneRequestPerSource'
    BY <1>1, <1>4 DEF LedgerInv, OneRequestPerSource
  <1>12. HeadFollowsArchive'
    <2> SUFFICES ASSUME NEW t \in Sources
                 PROVE  /\ archive'[t].revision \in {head[t].revision, head[t].revision + 1}
                        /\ archive'[t].revision = head[t].revision /\ ~archive'[t].tombstone =>
                             archive'[t].digest = head[t].digest
                        /\ archive'[t].revision # head[t].revision =>
                             \/ head[t].tombstone
                             \/ \E id \in Queued : /\ pending[id].source = t
                                                   /\ receipts'[id] = archive'[t].revision
      BY <1>1, <1>4 DEF HeadFollowsArchive
    <2>1. CASE t = s
      <3>1. ~head[s].tombstone => m.id \in Queued
        BY <1>1 DEF LedgerInv, UnexecutedIsNext, s
      <3>2. m.id \in Queued => pending[m.id].source = s
        BY DEF LedgerInv, WireIsHonest, Payload, s
      <3>3. archive'[t].revision = r /\ r = head[t].revision + 1 /\ r # head[t].revision
        BY <1>0, <1>1, <1>3, <2>1 DEF r
      <3> QED
        BY <1>2, <2>1, <3>1, <3>2, <3>3
    <2>2. CASE t # s
      <3>1. archive'[t] = archive[t]
        BY <1>3, <2>2
      <3>2. ASSUME NEW id \in Queued, pending[id].source = t, receipts[id] = archive[t].revision
            PROVE  receipts'[id] = archive[t].revision
        <4>1. id # m.id
          BY <2>2, <3>2 DEF LedgerInv, WireIsHonest, Payload, s
        <4> QED
          BY <1>2, <1>4, <3>2, <4>1
      <3> QED
        BY <3>1, <3>2 DEF LedgerInv, HeadFollowsArchive
    <2> QED
      BY <2>1, <2>2
  <1> QED
    BY <1>8, <1>9, <1>10, <1>11, <1>12 DEF LedgerInv

\* A purge keeps revisions, so that the request still under way is told.
LEMMA PurgeKeepsLedger ==
  ASSUME LedgerType, LedgerInv, NEW s \in Sources, Purge(s)
  PROVE  LedgerInv'
  <1>1. UNCHANGED <<head, pending, wire, receipts>>
    BY DEF Purge, spool
  <1>2. \A t \in Sources : /\ archive'[t].revision = archive[t].revision
                           /\ archive'[t].tombstone \/ archive'[t] = archive[t]
    <2>1. archive[s] \in HeadType
      BY DEF LedgerType
    <2>2. archive'[s] = [archive[s] EXCEPT !.digest = NoContent, !.tombstone = TRUE]
          /\ \A t \in Sources : t # s => archive'[t] = archive[t]
      BY DEF Purge, LedgerType
    <2> QED
      BY <2>1, <2>2 DEF HeadType
  <1>3. Queued' = Queued /\ \A i \in Queued : Payload(i)' = Payload(i) /\ pending[i].source \in Sources
    BY <1>1, QueuedEntry DEF Queued, Payload
  <1>4. \A m \in wire : m.source \in Sources
    BY DEF LedgerType, Message
  <1>5. WireIsHonest' /\ OneRequestPerSource'
    BY <1>1, <1>3 DEF LedgerInv, WireIsHonest, OneRequestPerSource
  <1>6. UnexecutedIsNext'
    BY <1>1, <1>2, <1>3, <1>4 DEF LedgerInv, UnexecutedIsNext, Unexecuted
  <1>7. ExecutedIsArchived'
    BY <1>1, <1>2, <1>3 DEF LedgerInv, ExecutedIsArchived
  <1>8. HeadFollowsArchive'
    BY <1>1, <1>2, <1>3 DEF LedgerInv, HeadFollowsArchive
  <1> QED
    BY <1>5, <1>6, <1>7, <1>8 DEF LedgerInv

\* A receipt brings the head level with the archive.
LEMMA AckKeepsLedger ==
  ASSUME LedgerType, LedgerInv, NEW id \in Ids, Acks(id)
  PROVE  LedgerInv'
  <1> DEFINE s == pending[id].source
             r == receipts[id]
  <1>0. /\ id \in Queued /\ s \in Sources /\ r \in Nat /\ UNCHANGED <<wire, archive, receipts>>
        /\ r = pending[id].expectedRevision + 1 /\ pending[id].expectedRevision \in Nat /\ r # 0
    BY QueuedEntry DEF Acks, LedgerType
  <1>1. /\ Queued' = Queued \ {id} /\ \A i \in Queued' : pending'[i] = pending[i]
        /\ head'[s].revision = r /\ head'[s].digest = pending[id].digest
        /\ ~head'[s].tombstone
        /\ \A t \in Sources : t # s => head'[t] = head[t]
    BY <1>0, AckMoves DEF Acks
  <1>2. \A i \in Queued : pending[i].source \in Sources
    BY QueuedEntry
  <1>3. \A i \in Queued : pending[i].source = s => i = id
    BY <1>0 DEF LedgerInv, OneRequestPerSource
  <1>4. \A m \in wire : m.source \in Sources
    BY DEF LedgerType, Message
  <1>5. \A i \in Queued' : Payload(i)' = Payload(i)
    BY <1>1 DEF Payload
  <1>6. archive[s].revision = r /\ (archive[s].tombstone \/ archive[s].digest = pending[id].digest)
    BY <1>0 DEF LedgerInv, ExecutedIsArchived
  <1>7. \A m \in wire : Unexecuted(m) => m.source # s
    <2>1. head[s].revision = pending[id].expectedRevision
      BY <1>0 DEF LedgerInv, OneRequestPerSource
    <2> QED
      BY <1>0, <1>6, <2>1 DEF LedgerInv, UnexecutedIsNext
  <1> HIDE DEF r
  <1>8. WireIsHonest'
    BY <1>0, <1>1, <1>5 DEF LedgerInv, WireIsHonest
  <1>9. UnexecutedIsNext'
    <2>1. ASSUME NEW m \in wire, Unexecuted(m), ~head'[m.source].tombstone PROVE m.id \in Queued'
      <3>1. m.source # s /\ m.id \in Queued
        BY <1>1, <1>4, <1>7, <2>1 DEF LedgerInv, UnexecutedIsNext
      <3>2. m.id # id
        BY <3>1, <1>0 DEF LedgerInv, WireIsHonest, Payload
      <3> QED
        BY <1>1, <3>1, <3>2
    <2> QED
      BY <1>0, <1>1, <1>4, <1>7, <2>1 DEF LedgerInv, UnexecutedIsNext, Unexecuted
  <1>10. ExecutedIsArchived'
    BY <1>0, <1>1 DEF LedgerInv, ExecutedIsArchived
  <1>11. OneRequestPerSource'
    <2>1. \A i \in Queued' : i \in Queued /\ pending[i].source # s
      BY <1>1, <1>3
    <2>2. \A i \in Queued' : head'[pending[i].source] = head[pending[i].source]
      BY <1>1, <1>2, <2>1
    <2> QED
      BY <1>1, <2>1, <2>2 DEF LedgerInv, OneRequestPerSource
  <1>12. HeadFollowsArchive'
    <2> SUFFICES ASSUME NEW t \in Sources
                 PROVE  /\ archive[t].revision \in {head'[t].revision, head'[t].revision + 1}
                        /\ archive[t].revision = head'[t].revision /\ ~archive[t].tombstone =>
                             archive[t].digest = head'[t].digest
                        /\ archive[t].revision # head'[t].revision =>
                             \/ head'[t].tombstone
                             \/ \E i \in Queued' : /\ pending'[i].source = t
                                                   /\ receipts[i] = archive[t].revision
      BY <1>0 DEF HeadFollowsArchive
    <2>1. CASE t = s
      BY <1>1, <1>6, <2>1
    <2>2. CASE t # s
      <3>1. head'[t] = head[t]
        BY <1>1, <2>2
      <3>2. ASSUME NEW i \in Queued, pending[i].source = t PROVE i \in Queued' /\ pending'[i] = pending[i]
        BY <1>1, <2>2, <3>2
      <3> QED
        BY <3>1, <3>2 DEF LedgerInv, HeadFollowsArchive
    <2> QED
      BY <2>1, <2>2
  <1> QED
    BY <1>8, <1>9, <1>10, <1>11, <1>12 DEF LedgerInv

-----------------------------------------------------------------------------
(* The cycle of the daemon *)

CycleInv == DigestsFollowPolicy /\ UploadsAreReady /\ RepliesAreTrue

\* What every action owes.
StepOK == LedgerStep /\ TypeOK' /\ CycleInv'

\* Part of the cycle's invariant that is about the queue alone.
EntriesAreGood ==
  \A id \in Queued :
    /\ UsableDigest(pending[id].digest, pending[id].policyDigest)
    /\ pending[id].status = "pending" => pending[id].attempts < maxAttempts
    /\ pending[id].status # "conflict"

\* The queue's part follows from the whole.
LEMMA CycleHasGoodEntries ==
  ASSUME CycleInv
  PROVE  EntriesAreGood
  BY DEF CycleInv, DigestsFollowPolicy, UploadsAreReady, RepliesAreTrue, EntriesAreGood

\* Between two cycles, and until the sweep is over, only the queue matters.
LEMMA OutsideTheCycle ==
  ASSUME EntriesAreGood', daemon'.pc \in {"off", "idle", "sweep"}, daemon'.uploads = {},
         daemon'.reply = NoReply, daemon'.pc = "sweep" => daemon'.policy \in Policies,
         \A c \in daemon'.candidates : UsableDigest(c.digest, daemon'.policy)
  PROVE  CycleInv'
  <1>1. NoReply.code = "none"
    BY DEF NoReply
  <1>2. RepliesAreTrue'
    BY <1>1 DEF RepliesAreTrue, EntriesAreGood
  <1>3. DigestsFollowPolicy'
    BY DEF DigestsFollowPolicy, EntriesAreGood, UsableDigest
  <1>4. UploadsAreReady'
    BY DEF UploadsAreReady, EntriesAreGood
  <1> QED
    BY <1>2, <1>3, <1>4 DEF CycleInv

\* The daemon does not notice what leaves its locals, its configuration and its
\* entries alone, nor a receipt or the end of a backoff.
Unnoticed ==
  /\ UNCHANGED <<daemon, config, wire>>
  /\ \A id \in Ids : SameRequest(pending[id], pending'[id])
  /\ \A id \in Queued : pending'[id].status = pending[id].status /\ pending'[id].attempts = pending[id].attempts
  /\ \A id \in Ids : receipts[id] # 0 => receipts'[id] = receipts[id]

\* Such a step keeps the cycle's invariant.
LEMMA UnnoticedKeepsCycle ==
  ASSUME TypeOK, CycleInv, Unnoticed
  PROVE  CycleInv' /\ (daemon.pc = "sending" => daemon.current \in Queued')
  <1>1. Queued' = Queued
    BY DEF Unnoticed, SameRequest, Queued
  <1>2. \A id \in Queued : /\ pending'[id].source = pending[id].source
                           /\ pending'[id].digest = pending[id].digest
                           /\ pending'[id].expectedRevision = pending[id].expectedRevision
                           /\ pending'[id].policyDigest = pending[id].policyDigest
                           /\ pending'[id].status = pending[id].status
                           /\ pending'[id].attempts = pending[id].attempts
    BY DEF Unnoticed, SameRequest, Queued
  <1>3. \A id \in Queued : Payload(id)' = Payload(id)
    BY <1>2 DEF Payload
  <1>4. UNCHANGED <<daemon, config, wire>>
    BY DEF Unnoticed
  <1>5. \A s : Held(s)' = Held(s)
    BY <1>4 DEF Held
  <1>6. \A id \in Queued : Ready(id) => Ready(id)'
    BY <1>1, <1>2, <1>5 DEF Ready
  <1>7. DigestsFollowPolicy'
    BY <1>1, <1>2, <1>4 DEF CycleInv, DigestsFollowPolicy, UsableDigest
  <1>8. UploadsAreReady'
    <2>1. \A id : Ready(id) => id \in Queued
      BY DEF Ready
    <2>2. \A id : Ready(id) => Ready(id)'
      BY <1>6, <2>1
    <2> QED
      BY <1>1, <1>2, <1>3, <1>4, <2>1, <2>2 DEF CycleInv, UploadsAreReady
  <1>9. RepliesAreTrue'
    <2>1. daemon.reply.code = "receipt" => daemon.pc = "sending"
      BY DEF CycleInv, RepliesAreTrue, NoReply
    <2>2. daemon.reply.code = "receipt" => daemon.current \in Ids
      BY <2>1 DEF TypeOK, Queued
    <2> QED
      BY <1>1, <1>2, <1>4, <2>2 DEF CycleInv, RepliesAreTrue, Unnoticed
  <1>10. daemon.pc = "sending" => daemon.current \in Queued'
    BY <1>1 DEF TypeOK
  <1> QED
    BY <1>7, <1>8, <1>9, <1>10 DEF CycleInv

\* The file system, the secrets and the quiet period.
LEMMA WorldSteps ==
  ASSUME TypeOK, CollectorInv,
         \/ UNCHANGED vars
         \/ \E f \in Files : QuietPasses(f)
         \/ \E f \in Files, c \in Contents \cup {NoContent} : Edit(f, c)
         \/ \E p \in Policies \cup {NoPolicy} : ChangePolicy(p)
  PROVE  StepOK
  <1>1. UNCHANGED <<head, pending, wire, archive, receipts, daemon, config>>
    BY DEF vars, QuietPasses, Edit, ChangePolicy, world, server, spool
  <1>2. WorldType'
    <2>1. WorldType
      BY TypeParts
    <2>2. CASE UNCHANGED vars
      BY <2>1, <2>2 DEF vars, WorldType
    <2>3. ASSUME NEW f \in Files, QuietPasses(f) PROVE WorldType'
      BY <2>1, <2>3 DEF WorldType, QuietPasses, world
    <2>4. ASSUME NEW f \in Files, NEW c \in Contents \cup {NoContent}, Edit(f, c) PROVE WorldType'
      BY <2>1, <2>4, CollectorAssumption DEF WorldType, Edit, Disturb, spool
    <2>5. ASSUME NEW p \in Policies \cup {NoPolicy}, ChangePolicy(p) PROVE WorldType'
      BY <2>1, <2>5, CollectorAssumption DEF WorldType, ChangePolicy, Disturb, spool
    <2> QED
      BY <2>2, <2>3, <2>4, <2>5
  <1>3. Unnoticed
    BY <1>1 DEF Unnoticed, SameRequest
  <1>4. CycleInv' /\ (daemon.pc = "sending" => daemon.current \in Queued')
    BY <1>3, UnnoticedKeepsCycle DEF CollectorInv, CycleInv
  <1>5. LedgerType' /\ daemon' \in DaemonType
    BY <1>1, TypeParts DEF LedgerType
  <1>6. TypeOK'
    BY <1>1, <1>2, <1>4, <1>5, TypePartsNext
  <1> QED
    BY <1>1, <1>4, <1>6, UnchangedLedgerStays DEF StepOK, LedgerStep

\* An archive the server writes and a backoff that ends go unnoticed.
LEMMA BackoffStep ==
  ASSUME TypeOK, CollectorInv, NEW id \in Ids, BackoffPasses(id)
  PROVE  StepOK
  <1>0. WorldType /\ LedgerType /\ daemon \in DaemonType
    BY TypeParts
  <1>1. /\ id \in Queued /\ Rescheduled(id, pending[id].attempts, TRUE, pending[id].status)
        /\ pending[id].status \in {"pending", "stopped", "conflict"}
        /\ pending[id].attempts \in 0..maxAttempts
    BY <1>0, BackoffReschedules, QueuedEntry
  <1>2. UNCHANGED <<head, wire, archive, receipts, daemon, config, file, observation, policy, disturbances>>
    BY DEF BackoffPasses, world, server
  <1>3. LedgerStays
    BY <1>0, <1>1, <1>2, ReschedulingStays
  <1>4. /\ pending' \in [Ids -> Entry \cup {NoEntry}] /\ Queued' = Queued
        /\ \A i \in Ids : i # id => pending'[i] = pending[i]
        /\ pending'[id].attempts = pending[id].attempts /\ pending'[id].status = pending[id].status
    BY <1>0, <1>1, ReschedulingKeeps, SMTT(20), ZenonT(60)
  <1>5. Unnoticed
    BY <1>2, <1>3, <1>4 DEF Unnoticed, LedgerStays, Queued
  <1>6. CycleInv' /\ (daemon.pc = "sending" => daemon.current \in Queued')
    BY <1>5, UnnoticedKeepsCycle DEF CollectorInv, CycleInv
  <1>7. WorldType' /\ LedgerType' /\ daemon' \in DaemonType
    BY <1>0, <1>2, <1>4 DEF WorldType, LedgerType
  <1>8. TypeOK'
    BY <1>2, <1>6, <1>7, TypePartsNext
  <1> QED
    BY <1>3, <1>6, <1>8 DEF StepOK, LedgerStep

\* The daemon does not see a purge until the server answers "gone".
LEMMA PurgeStep ==
  ASSUME TypeOK, CollectorInv, NEW s \in Sources, Purge(s)
  PROVE  StepOK
  <1>0. WorldType /\ LedgerType /\ daemon \in DaemonType
    BY TypeParts
  <1>1. UNCHANGED <<head, pending, wire, receipts, daemon, config, file, observation, policy, disturbances>>
    BY DEF Purge, world, spool
  <1>2. archive' \in [Sources -> HeadType]
    <2>1. archive[s] \in HeadType
      BY <1>0 DEF LedgerType
    <2>2. [archive[s] EXCEPT !.digest = NoContent, !.tombstone = TRUE] \in HeadType
      BY <2>1 DEF HeadType
    <2>3. archive' = [archive EXCEPT ![s] = [archive[s] EXCEPT !.digest = NoContent, !.tombstone = TRUE]]
      BY <1>0 DEF Purge, LedgerType
    <2> QED
      BY <1>0, <2>2, <2>3 DEF LedgerType
  <1>3. Unnoticed
    BY <1>1 DEF Unnoticed, SameRequest
  <1>4. CycleInv' /\ (daemon.pc = "sending" => daemon.current \in Queued')
    BY <1>3, UnnoticedKeepsCycle DEF CollectorInv, CycleInv
  <1>5. WorldType' /\ LedgerType' /\ daemon' \in DaemonType
    BY <1>0, <1>1, <1>2 DEF WorldType, LedgerType
  <1>6. TypeOK'
    BY <1>1, <1>4, <1>5, TypePartsNext
  <1> QED
    BY <1>4, <1>6 DEF StepOK, LedgerStep

\* The operator works on the spool of a daemon that is off.
LEMMA OperatorSteps ==
  ASSUME TypeOK, CollectorInv, NEW id \in Ids, OperatorDrop(id) \/ OperatorRetry(id)
  PROVE  StepOK
  <1>0. WorldType /\ LedgerType /\ daemon \in DaemonType
    BY TypeParts
  <1>1. /\ id \in Queued /\ daemon.pc = "off"
        /\ UNCHANGED <<wire, archive, receipts, daemon, config, file, observation, policy, disturbances>>
    BY DEF OperatorDrop, OperatorRetry, world, server
  <1>2. EntriesAreGood
    BY CycleHasGoodEntries DEF CollectorInv, CycleInv
  <1>3. /\ daemon.uploads = {} /\ daemon.reply = NoReply
        /\ \A c \in daemon.candidates : UsableDigest(c.digest, daemon.policy)
    BY <1>1 DEF CollectorInv, UploadsAreReady, RepliesAreTrue, DigestsFollowPolicy
  <1>4. CASE OperatorDrop(id)
    <2>1. Drops(id)
      BY <1>1, <1>4 DEF Drops, OperatorDrop
    <2>2. /\ pending' \in [Ids -> Entry \cup {NoEntry}] /\ head' \in [Sources -> HeadType]
          /\ Queued' = Queued \ {id} /\ \A i \in Queued' : pending'[i] = pending[i]
      BY <1>0, <1>1, <2>1, DroppedKeeps DEF Drops
    <2>3. EntriesAreGood'
      BY <1>2, <2>2 DEF EntriesAreGood, UsableDigest
    <2>4. CycleInv'
      BY <1>1, <1>3, <2>3, OutsideTheCycle DEF UsableDigest
    <2>5. WorldType' /\ LedgerType' /\ daemon' \in DaemonType
      BY <1>0, <1>1, <2>2 DEF WorldType, LedgerType
    <2>6. TypeOK'
      BY <1>1, <2>5, TypePartsNext
    <2> QED
      BY <2>1, <2>4, <2>6 DEF StepOK, LedgerStep
  <1>5. CASE OperatorRetry(id)
    <2>1. Rescheduled(id, 0, TRUE, "pending") /\ 0 \in 0..maxAttempts /\ 0 < maxAttempts
          /\ head' = head
      BY <1>0, <1>5, RetryReschedules DEF OperatorRetry
    <2>2. /\ pending' \in [Ids -> Entry \cup {NoEntry}] /\ Queued' = Queued
          /\ \A i \in Ids : SameRequest(pending[i], pending'[i])
          /\ \A i \in Ids : i # id => pending'[i] = pending[i]
          /\ pending'[id].attempts = 0 /\ pending'[id].status = "pending"
      BY <1>0, <1>1, <2>1, ReschedulingKeeps
    <2>3. LedgerStays
      BY <1>1, <2>1, <2>2 DEF LedgerStays
    <2>4. EntriesAreGood'
      BY <1>2, <2>1, <2>2 DEF EntriesAreGood, UsableDigest, SameRequest, Queued
    <2>5. CycleInv'
      BY <1>1, <1>3, <2>4, OutsideTheCycle DEF UsableDigest
    <2>6. WorldType' /\ LedgerType' /\ daemon' \in DaemonType
      BY <1>0, <1>1, <2>1, <2>2 DEF WorldType, LedgerType
    <2>7. TypeOK'
      BY <1>1, <2>6, TypePartsNext
    <2> QED
      BY <2>3, <2>5, <2>7 DEF StepOK, LedgerStep
  <1> QED
    BY <1>4, <1>5

\* A cycle begins and ends, or the process does, with its locals cleared.
LEMMA ProcessSteps ==
  ASSUME TypeOK, CollectorInv,
         Crash \/ BeginRun \/ EndRun \/ DiscoveryFails \/ \E r \in Restrictions : Start(r)
  PROVE  StepOK
  <1>0. WorldType /\ LedgerType
    BY TypeParts
  <1>1. UNCHANGED <<head, pending, wire, archive, receipts, file, observation, policy>>
    BY DEF Crash, BeginRun, EndRun, DiscoveryFails, Start, world, spool, server
  <1>2. config' \in Restrictions /\ disturbances' \in 0..MaxDisturbances
    BY <1>0, CollectorAssumption
       DEF Crash, BeginRun, EndRun, DiscoveryFails, Start, Disturb, world, WorldType
  <1>3. /\ daemon' \in DaemonType /\ daemon'.pc \in {"off", "idle", "sweep"}
        /\ daemon'.uploads = {} /\ daemon'.candidates = {} /\ daemon'.reply = NoReply
        /\ daemon'.pc = "sweep" => daemon'.policy \in Policies
    <2>1. CASE BeginRun
      <3>1. daemon' = [Daemon("sweep") EXCEPT !.policy = policy] /\ policy \in Policies
        BY <1>0, <2>1 DEF BeginRun, WorldType
      <3> QED
        BY <3>1, FreshDaemon DEF DaemonType
    <2>2. CASE ~BeginRun
      <3>1. daemon' = Daemon("off") \/ daemon' = Daemon("idle")
        BY <2>2 DEF Crash, EndRun, DiscoveryFails, Start
      <3> QED
        BY <3>1, FreshDaemon
    <2> QED
      BY <2>1, <2>2
  <1>4. EntriesAreGood'
    <2>1. EntriesAreGood
      BY CycleHasGoodEntries DEF CollectorInv, CycleInv
    <2> QED
      BY <1>1, <2>1 DEF EntriesAreGood, Queued, UsableDigest
  <1>5. CycleInv'
    BY <1>3, <1>4, OutsideTheCycle
  <1>6. WorldType' /\ LedgerType'
    BY <1>0, <1>1, <1>2 DEF WorldType, LedgerType
  <1>7. TypeOK'
    BY <1>3, <1>6, TypePartsNext
  <1> QED
    BY <1>1, <1>5, <1>7, UnchangedLedgerStays DEF StepOK, LedgerStep

\* A step of the cycle that moves the daemon's locals and nothing else of the spool.
LEMMA LocalsMove ==
  ASSUME TypeOK, CollectorInv,
         UNCHANGED <<head, pending, wire, archive, receipts, config, file, policy, disturbances>>,
         observation' \in [Files -> [content: Contents \cup {NoContent}, quiet: BOOLEAN]],
         daemon' \in DaemonType, daemon.pc \in {"sweep", "scan", "enqueue"},
         daemon'.pc \in {"scan", "enqueue", "upload"},
         daemon'.policy = daemon.policy, daemon'.reply = daemon.reply,
         \A c \in daemon'.candidates : UsableDigest(c.digest, daemon.policy),
         \A id \in Queued : pending[id].policyDigest = daemon.policy,
         \A id \in daemon'.uploads : Ready(id), daemon'.pc # "upload" => daemon'.uploads = {}
  PROVE  StepOK
  <1>0. WorldType /\ LedgerType /\ Queued' = Queued
    BY TypeParts DEF Queued
  <1>1. daemon.reply = NoReply /\ daemon.policy \in Policies
    BY DEF CollectorInv, RepliesAreTrue, DigestsFollowPolicy
  <1>2. DigestsFollowPolicy'
    BY <1>0, <1>1 DEF CollectorInv, DigestsFollowPolicy, UsableDigest
  <1>3. UploadsAreReady'
    <2>1. \A id : Ready(id) => Ready(id)'
      BY <1>0 DEF Ready, Held
    <2> QED
      BY <1>0, <2>1 DEF CollectorInv, UploadsAreReady
  <1>4. RepliesAreTrue'
    <2>1. NoReply.code = "none"
      BY DEF NoReply
    <2> QED
      BY <1>0, <1>1, <2>1 DEF CollectorInv, RepliesAreTrue
  <1>5. WorldType' /\ LedgerType'
    BY <1>0 DEF WorldType, LedgerType
  <1>6. TypeOK'
    BY <1>5, TypePartsNext
  <1> QED
    BY <1>2, <1>3, <1>4, <1>6, UnchangedLedgerStays DEF StepOK, LedgerStep, CycleInv

\* The sweep drops a stale request, or finds none and starts the scan.
LEMMA SweepStep ==
  ASSUME TypeOK, CollectorInv, Sweep
  PROVE  StepOK
  <1>0. WorldType /\ LedgerType /\ daemon \in DaemonType
    BY TypeParts
  <1>1. daemon.pc = "sweep" /\ UNCHANGED <<wire, archive, receipts, config, file, observation, policy, disturbances>>
    BY DEF Sweep, world, server
  <1>2. /\ daemon.uploads = {} /\ daemon.reply = NoReply /\ daemon.policy \in Policies
        /\ \A c \in daemon.candidates : UsableDigest(c.digest, daemon.policy)
    BY <1>1 DEF CollectorInv, UploadsAreReady, RepliesAreTrue, DigestsFollowPolicy
  <1>3. ASSUME NEW id \in Queued, Dropped(id), UNCHANGED daemon PROVE StepOK
    <2>1. Drops(id) /\ id \in Ids
      BY <1>1, <1>3 DEF Drops, Queued
    <2>2. /\ pending' \in [Ids -> Entry \cup {NoEntry}] /\ head' \in [Sources -> HeadType]
          /\ Queued' = Queued \ {id} /\ \A i \in Queued' : pending'[i] = pending[i]
      BY <1>0, <1>3, DroppedKeeps
    <2>3. EntriesAreGood'
      <3>1. EntriesAreGood
        BY CycleHasGoodEntries DEF CollectorInv, CycleInv
      <3> QED
        BY <2>2, <3>1 DEF EntriesAreGood, UsableDigest
    <2>4. CycleInv'
      BY <1>1, <1>2, <1>3, <2>3, OutsideTheCycle DEF UsableDigest
    <2>5. WorldType' /\ LedgerType' /\ daemon' \in DaemonType
      BY <1>0, <1>1, <1>3, <2>2 DEF WorldType, LedgerType
    <2>6. TypeOK'
      BY <1>1, <1>3, <2>5, TypePartsNext
    <2> QED
      BY <2>1, <2>4, <2>6 DEF StepOK, LedgerStep
  <1>4. ASSUME \A id \in Queued : ~Stale(id), NEW files \in SUBSET Files,
               daemon' = [daemon EXCEPT !.pc = "scan", !.files = files], UNCHANGED <<head, pending>>
        PROVE  StepOK
    <2>1. /\ daemon' \in DaemonType /\ daemon'.pc = "scan" /\ daemon'.policy = daemon.policy
          /\ daemon'.reply = daemon.reply /\ daemon'.candidates = daemon.candidates
          /\ daemon'.uploads = daemon.uploads
      BY <1>0, <1>4 DEF DaemonType
    <2>2. \A id \in Queued : pending[id].policyDigest = daemon.policy
      BY <1>4 DEF Stale
    <2>3. observation' \in [Files -> [content: Contents \cup {NoContent}, quiet: BOOLEAN]]
      BY <1>0, <1>1 DEF WorldType
    <2> QED
      BY <1>1, <1>2, <1>4, <2>1, <2>2, <2>3, LocalsMove
  <1> QED
    BY <1>3, <1>4 DEF Sweep

\* A scanned file becomes a candidate only under the policy of the cycle.
LEMMA ScanStep ==
  ASSUME TypeOK, CollectorInv, NEW f \in Files, Scan(f)
  PROVE  StepOK
  <1>0. WorldType /\ LedgerType /\ daemon \in DaemonType
    BY TypeParts
  <1>1. daemon.pc = "scan" /\ UNCHANGED <<head, pending, wire, archive, receipts, config, file, policy, disturbances>>
    BY DEF Scan, world, server
  <1>2. /\ daemon.uploads = {} /\ daemon.policy \in Policies
        /\ \A c \in daemon.candidates : UsableDigest(c.digest, daemon.policy)
        /\ \A id \in Queued : pending[id].policyDigest = daemon.policy
    BY <1>1 DEF CollectorInv, UploadsAreReady, DigestsFollowPolicy
  <1>3. observation' \in [Files -> [content: Contents \cup {NoContent}, quiet: BOOLEAN]]
    <2> DEFINE seen == [content |-> file[f], quiet |-> FALSE]
    <2>1. seen \in [content: Contents \cup {NoContent}, quiet: BOOLEAN]
      BY <1>0 DEF WorldType
    <2>2. observation' = observation \/ observation' = [observation EXCEPT ![f] = seen]
      BY DEF Scan, Observe
    <2> HIDE DEF seen
    <2> QED
      BY <1>0, <2>1, <2>2 DEF WorldType
  <1>4. PICK candidates \in {daemon.candidates,
                            daemon.candidates \cup {[key |-> KeyOf[f], digest |-> Redacted[file[f]][daemon.policy]]}} :
          /\ candidates # daemon.candidates => file[f] \in Usable
          /\ daemon' = [daemon EXCEPT !.files = daemon.files \ {f}, !.candidates = candidates]
    <2>1. CASE observation'[f].quiet /\ file[f] \in Usable
      BY <1>0, <2>1 DEF Scan, DaemonType
    <2>2. CASE ~(observation'[f].quiet /\ file[f] \in Usable)
      BY <1>0, <2>2 DEF Scan, DaemonType
    <2> QED
      BY <2>1, <2>2
  <1>5. /\ candidates \in SUBSET [key: Sources, digest: Digests]
        /\ \A c \in candidates : UsableDigest(c.digest, daemon.policy)
    <2>1. CASE candidates = daemon.candidates
      BY <1>0, <1>2, <2>1 DEF DaemonType
    <2>2. CASE candidates # daemon.candidates
      <3> DEFINE d == Redacted[file[f]][daemon.policy]
      <3>1. file[f] \in Usable /\ file[f] \in Contents /\ KeyOf[f] \in Sources
        BY <1>4, <2>2, CollectorAssumption
      <3>2. d \in Digests
        BY <1>2, <3>1, CollectorAssumption
      <3>3. UsableDigest(d, daemon.policy)
        BY <3>1 DEF UsableDigest
      <3> HIDE DEF d
      <3>4. candidates = daemon.candidates \cup {[key |-> KeyOf[f], digest |-> d]}
        BY <1>4, <2>2 DEF d
      <3>5. daemon.candidates \in SUBSET [key: Sources, digest: Digests]
        BY <1>0 DEF DaemonType
      <3> QED
        BY <1>2, <3>1, <3>2, <3>3, <3>4, <3>5
    <2> QED
      BY <2>1, <2>2
  <1>6. /\ daemon' \in DaemonType /\ daemon'.pc = "scan" /\ daemon'.policy = daemon.policy
        /\ daemon'.reply = daemon.reply /\ daemon'.candidates = candidates
        /\ daemon'.uploads = daemon.uploads
    <2>1. daemon.files \ {f} \in SUBSET Files
      BY <1>0 DEF DaemonType
    <2> QED
      BY <1>0, <1>1, <1>4, <1>5, <2>1 DEF DaemonType
  <1> QED
    BY <1>1, <1>2, <1>3, <1>5, <1>6, LocalsMove

\* The scan ends, complete or not.
LEMMA EndScanStep ==
  ASSUME TypeOK, CollectorInv, EndScan
  PROVE  StepOK
  <1>0. WorldType /\ daemon \in DaemonType
    BY TypeParts
  <1>1. daemon.pc = "scan" /\ UNCHANGED <<head, pending, wire, archive, receipts, config, file, observation, policy, disturbances>>
    BY DEF EndScan, world, spool, server
  <1>2. /\ daemon.uploads = {}
        /\ \A c \in daemon.candidates : UsableDigest(c.digest, daemon.policy)
        /\ \A id \in Queued : pending[id].policyDigest = daemon.policy
    BY <1>1 DEF CollectorInv, UploadsAreReady, DigestsFollowPolicy
  <1>3. /\ daemon' \in DaemonType /\ daemon'.pc = "enqueue" /\ daemon'.policy = daemon.policy
        /\ daemon'.reply = daemon.reply /\ daemon'.candidates = daemon.candidates
        /\ daemon'.uploads = daemon.uploads
    <2> DEFINE keys == {c.key : c \in daemon.candidates}
    <2>1. keys \in SUBSET Sources
      BY <1>0 DEF DaemonType
    <2>2. daemon' = [daemon EXCEPT !.pc = "enqueue", !.keys = keys]
      BY DEF EndScan
    <2> HIDE DEF keys
    <2> QED
      BY <1>0, <2>1, <2>2 DEF DaemonType
  <1>4. observation' \in [Files -> [content: Contents \cup {NoContent}, quiet: BOOLEAN]]
    BY <1>0, <1>1 DEF WorldType
  <1> QED
    BY <1>1, <1>2, <1>3, <1>4, LocalsMove

\* The uploads of the cycle are chosen among the ready requests.
LEMMA EndEnqueueStep ==
  ASSUME TypeOK, CollectorInv, EndEnqueue
  PROVE  StepOK
  <1>0. WorldType /\ daemon \in DaemonType
    BY TypeParts
  <1>1. daemon.pc = "enqueue" /\ UNCHANGED <<head, pending, wire, archive, receipts, config, file, observation, policy, disturbances>>
    BY DEF EndEnqueue, world, spool, server
  <1>2. \A id \in Queued : pending[id].policyDigest = daemon.policy
    BY <1>1 DEF CollectorInv, DigestsFollowPolicy
  <1> DEFINE uploads == {id \in Queued : pending[id].status = "pending" /\ pending[id].due
                                         /\ ~Held(pending[id].source)}
  <1>3. uploads \in SUBSET Ids /\ \A id \in uploads : Ready(id)
    BY DEF Queued, Ready
  <1>4. daemon' = [daemon EXCEPT !.pc = "upload", !.candidates = {}, !.uploads = uploads]
    BY DEF EndEnqueue
  <1> HIDE DEF uploads
  <1>5. /\ daemon' \in DaemonType /\ daemon'.pc = "upload" /\ daemon'.policy = daemon.policy
        /\ daemon'.reply = daemon.reply /\ daemon'.candidates = {} /\ daemon'.uploads = uploads
    BY <1>0, <1>3, <1>4 DEF DaemonType
  <1>6. observation' \in [Files -> [content: Contents \cup {NoContent}, quiet: BOOLEAN]]
    BY <1>0, <1>1 DEF WorldType
  <1> QED
    BY <1>1, <1>2, <1>3, <1>5, <1>6, LocalsMove

\* A candidate is enqueued under the policy of the cycle, or passed over.
LEMMA EnqueueStep ==
  ASSUME TypeOK, CollectorInv, NEW s \in Sources, Enqueue(s)
  PROVE  StepOK
  <1>0. WorldType /\ LedgerType /\ daemon \in DaemonType
    BY TypeParts
  <1>1. daemon.pc = "enqueue" /\ UNCHANGED <<head, wire, archive, receipts, config, file, observation, policy, disturbances>>
    BY DEF Enqueue, world, server
  <1>2. /\ daemon.uploads = {} /\ daemon.policy \in Policies /\ daemon.reply = NoReply
        /\ \A c \in daemon.candidates : UsableDigest(c.digest, daemon.policy)
        /\ \A id \in Queued : pending[id].policyDigest = daemon.policy
    BY <1>1 DEF CollectorInv, UploadsAreReady, DigestsFollowPolicy, RepliesAreTrue
  <1>3. /\ daemon' \in DaemonType /\ daemon'.pc = "enqueue" /\ daemon'.policy = daemon.policy
        /\ daemon'.reply = daemon.reply /\ daemon'.candidates = daemon.candidates
        /\ daemon'.uploads = daemon.uploads
    <2>1. daemon' = [daemon EXCEPT !.keys = daemon.keys \ {s}] /\ daemon.keys \ {s} \in SUBSET Sources
      BY <1>0 DEF Enqueue, DaemonType
    <2> QED
      BY <1>0, <1>1, <2>1 DEF DaemonType
  <1>4. observation' \in [Files -> [content: Contents \cup {NoContent}, quiet: BOOLEAN]]
    BY <1>0, <1>1 DEF WorldType
  <1>5. CASE UNCHANGED pending
    BY <1>1, <1>2, <1>3, <1>4, <1>5, LocalsMove
  <1>6. ASSUME NEW d \in Digests, Wanted(s, d), NEW id \in Fresh,
               pending' = [pending EXCEPT ![id] = NewEntry(s, d)]
        PROVE  StepOK
    <2>1. id \in Ids /\ Enqueues(s, d, id)
      BY <1>2, <1>6 DEF Fresh, Enqueues
    <2>2. /\ pending' \in [Ids -> Entry \cup {NoEntry}]
          /\ Queued' = Queued \cup {id} /\ pending'[id] = NewEntry(s, d)
          /\ \A i \in Queued : pending'[i] = pending[i]
      BY <1>0, <2>1, EnqueueAdds
    <2>3. /\ pending'[id].digest = d /\ pending'[id].policyDigest = daemon.policy
          /\ pending'[id].attempts = 0 /\ pending'[id].status = "pending"
      BY <2>2 DEF NewEntry
    <2>4. UsableDigest(d, daemon.policy)
      <3>1. PICK c \in daemon.candidates : c.digest = d
        BY <1>6 DEF Wanted, CopyDigests
      <3> QED
        BY <1>2, <3>1
    <2>5. 0 < maxAttempts
      BY CollectorAssumption
    <2>6. DigestsFollowPolicy'
      BY <1>2, <1>3, <2>2, <2>3, <2>4 DEF CollectorInv, DigestsFollowPolicy, UsableDigest
    <2>7. UploadsAreReady'
      BY <1>2, <1>3, <2>2, <2>3, <2>5 DEF CollectorInv, UploadsAreReady
    <2>8. RepliesAreTrue'
      <3>1. NoReply.code = "none"
        BY DEF NoReply
      <3> QED
        BY <1>2, <1>3, <2>2, <2>3, <3>1 DEF CollectorInv, RepliesAreTrue
    <2>9. WorldType' /\ LedgerType'
      BY <1>0, <1>1, <2>2 DEF WorldType, LedgerType
    <2>10. TypeOK'
      BY <1>3, <2>9, TypePartsNext
    <2> QED
      BY <1>1, <2>1, <2>6, <2>7, <2>8, <2>10 DEF StepOK, LedgerStep, CycleInv
  <1> QED
    BY <1>5, <1>6 DEF Enqueue, NewEntry

\* The bytes leave.
LEMMA SendStep ==
  ASSUME TypeOK, CollectorInv, NEW id \in Ids, Send(id)
  PROVE  StepOK
  <1>0. WorldType /\ LedgerType /\ daemon \in DaemonType
    BY TypeParts
  <1>1. /\ daemon.pc = "upload" /\ id \in daemon.uploads /\ wire' = wire \cup {Payload(id)}
        /\ UNCHANGED <<head, pending, archive, receipts, config, file, observation, policy, disturbances>>
    BY DEF Send, world, spool, server
  <1>2. /\ Ready(id) /\ id \in Queued /\ daemon.policy \in Policies /\ daemon.reply = NoReply
        /\ \A c \in daemon.candidates : UsableDigest(c.digest, daemon.policy)
        /\ \A i \in Queued : pending[i].policyDigest = daemon.policy
    BY <1>1 DEF CollectorInv, UploadsAreReady, DigestsFollowPolicy, RepliesAreTrue, Ready
  <1>3. /\ daemon' \in DaemonType /\ daemon'.pc = "sending" /\ daemon'.policy = daemon.policy
        /\ daemon'.reply = daemon.reply /\ daemon'.candidates = daemon.candidates
        /\ daemon'.uploads = daemon.uploads \ {id} /\ daemon'.current = id
    <2>1. daemon.uploads \ {id} \in SUBSET Ids /\ id \in Nat
      BY <1>0, CollectorAssumption DEF DaemonType, Ids
    <2>2. daemon' = [daemon EXCEPT !.pc = "sending", !.current = id, !.uploads = daemon.uploads \ {id}]
      BY <1>0 DEF Send, DaemonType
    <2> QED
      BY <1>0, <2>1, <2>2 DEF DaemonType
  <1>4. Queued' = Queued /\ Payload(id)' = Payload(id)
    BY <1>1 DEF Queued, Payload
  <1>5. \A i : Ready(i) => Ready(i)'
    BY <1>1, <1>4 DEF Ready, Held
  <1>6. DigestsFollowPolicy'
    BY <1>1, <1>2, <1>3, <1>4 DEF CollectorInv, DigestsFollowPolicy, UsableDigest
  <1>7. UploadsAreReady'
    BY <1>1, <1>2, <1>3, <1>4, <1>5 DEF CollectorInv, UploadsAreReady
  <1>8. RepliesAreTrue'
    <2>1. NoReply.code = "none"
      BY DEF NoReply
    <2> QED
      BY <1>1, <1>2, <1>3, <1>4, <2>1 DEF CollectorInv, RepliesAreTrue
  <1>9. Payload(id) \in Message
    <2>1. /\ pending[id].source \in Sources /\ pending[id].digest \in Digests
          /\ pending[id].expectedRevision \in Nat
      BY <1>0, <1>2, QueuedEntry
    <2> QED
      BY <2>1 DEF Payload, Message
  <1>10. WorldType' /\ LedgerType'
    BY <1>0, <1>1, <1>9 DEF WorldType, LedgerType
  <1>11. TypeOK'
    BY <1>2, <1>3, <1>4, <1>10, TypePartsNext
  <1>12. Sends(id)
    BY <1>1, <1>2 DEF Sends
  <1> QED
    BY <1>6, <1>7, <1>8, <1>11, <1>12 DEF StepOK, LedgerStep, CycleInv

\* The upload loop goes on after a request that was acknowledged or has failed.
LEMMA UploadEnds ==
  ASSUME TypeOK, CollectorInv, daemon.pc = "sending", NextUpload, UNCHANGED config,
         Queued \ {daemon.current} \subseteq Queued', Queued' \subseteq Queued,
         \A i \in Queued : i # daemon.current => pending'[i] = pending[i],
         \A i \in Queued' : SameRequest(pending[i], pending'[i]),
         EntriesAreGood'
  PROVE  daemon' \in DaemonType /\ daemon'.pc = "upload" /\ CycleInv'
  <1>0. daemon \in DaemonType
    BY TypeParts
  <1>1. /\ daemon' \in DaemonType /\ daemon'.pc = "upload" /\ daemon'.policy = daemon.policy
        /\ daemon'.candidates = daemon.candidates /\ daemon'.uploads = daemon.uploads
        /\ daemon'.reply = NoReply
    <2>1. NoReply \in Reply
      BY DEF Reply
    <2> QED
      BY <1>0, <2>1 DEF NextUpload, DaemonType
  <1>2. /\ daemon.policy \in Policies /\ daemon.current \notin daemon.uploads
        /\ \A c \in daemon.candidates : UsableDigest(c.digest, daemon.policy)
        /\ \A i \in Queued : pending[i].policyDigest = daemon.policy
        /\ \A i \in daemon.uploads : Ready(i)
    BY DEF CollectorInv, UploadsAreReady, DigestsFollowPolicy
  <1>3. \A i \in Queued : pending[i] # NoEntry
    BY DEF Queued
  <1>4. \A i \in Queued' : pending'[i].policyDigest = daemon.policy
    BY <1>2, <1>3 DEF SameRequest
  <1>5. \A i \in daemon.uploads : Ready(i)'
    <2> SUFFICES ASSUME NEW i \in daemon.uploads PROVE Ready(i)'
      OBVIOUS
    <2>1. i # daemon.current /\ Ready(i) /\ i \in Queued
      BY <1>2 DEF Ready
    <2>2. i \in Queued' /\ pending'[i] = pending[i]
      BY <2>1
    <2> QED
      BY <2>1, <2>2 DEF Ready, Held
  <1>6. DigestsFollowPolicy'
    BY <1>1, <1>2, <1>4 DEF DigestsFollowPolicy, EntriesAreGood, UsableDigest
  <1>7. UploadsAreReady'
    BY <1>1, <1>5 DEF UploadsAreReady, EntriesAreGood
  <1>8. RepliesAreTrue'
    <2>1. NoReply.code = "none"
      BY DEF NoReply
    <2> QED
      BY <1>1, <2>1 DEF RepliesAreTrue, EntriesAreGood
  <1> QED
    BY <1>1, <1>6, <1>7, <1>8 DEF CycleInv

\* A failed attempt, final or not.
LEMMA FailureStep ==
  ASSUME TypeOK, CollectorInv, daemon.pc = "sending", NEW retryable \in BOOLEAN,
         Failed(daemon.current, retryable, FALSE), NextUpload,
         UNCHANGED <<head, wire, archive, receipts, config, file, observation, policy, disturbances>>
  PROVE  StepOK
  <1>0. WorldType /\ LedgerType /\ daemon.current \in Queued
    BY TypeParts
  <1>p. PICK id \in Queued : id = daemon.current
    BY <1>0
  <1>1. pending[id].attempts < maxAttempts
    BY <1>p DEF CollectorInv, UploadsAreReady, Ready
  <1>2. PICK tries \in 0..maxAttempts, due \in BOOLEAN, status \in {"pending", "stopped", "conflict"} :
          /\ Rescheduled(id, tries, due, status)
          /\ status = "pending" => tries < maxAttempts
          /\ status # "conflict"
    BY <1>0, <1>1, <1>p, FailedReschedules
  <1>3. /\ pending' \in [Ids -> Entry \cup {NoEntry}] /\ Queued' = Queued
        /\ \A i \in Ids : SameRequest(pending[i], pending'[i])
        /\ \A i \in Ids : i # id => pending'[i] = pending[i]
        /\ pending'[id].attempts = tries /\ pending'[id].status = status
    BY <1>0, <1>2, ReschedulingKeeps
  <1>4. EntriesAreGood'
    <2>1. EntriesAreGood
      BY CycleHasGoodEntries DEF CollectorInv, CycleInv
    <2> QED
      BY <1>2, <1>3, <2>1 DEF EntriesAreGood, UsableDigest, SameRequest, Queued
  <1>5. daemon' \in DaemonType /\ daemon'.pc = "upload" /\ CycleInv'
    BY <1>0, <1>3, <1>4, <1>p, UploadEnds DEF Queued
  <1>6. LedgerStays
    BY <1>3 DEF LedgerStays
  <1>7. WorldType' /\ LedgerType'
    BY <1>0, <1>3 DEF WorldType, LedgerType
  <1>8. TypeOK'
    BY <1>5, <1>7, TypePartsNext
  <1> QED
    BY <1>5, <1>6, <1>8 DEF StepOK, LedgerStep

\* A receipt acknowledges the request that is being sent: revision and head are
\* those that spool.ack asks for.
LEMMA ReceiptAcknowledges ==
  ASSUME TypeOK, CollectorInv, daemon.pc = "sending", daemon.reply.code = "receipt"
  PROVE  Acknowledges(daemon.reply, daemon.current) /\ daemon.reply.revision = receipts[daemon.current]
         /\ receipts[daemon.current] = pending[daemon.current].expectedRevision + 1
  <1> DEFINE id == daemon.current
  <1>1. id \in Queued /\ receipts[id] # 0 /\ daemon.reply.revision = receipts[id]
    BY DEF CollectorInv, RepliesAreTrue, TypeOK
  <1>2. receipts[id] = pending[id].expectedRevision + 1
    BY <1>1 DEF CollectorInv, LedgerInv, ExecutedIsArchived
  <1>3. head[pending[id].source].revision = pending[id].expectedRevision
    BY <1>1 DEF CollectorInv, LedgerInv, OneRequestPerSource
  <1> QED
    BY <1>1, <1>2, <1>3 DEF Acknowledges

\* An answer is a receipt, which is acknowledged, or a final failure.
LEMMA ReceiveStep ==
  ASSUME TypeOK, CollectorInv, Receive
  PROVE  StepOK
  <1> DEFINE id == daemon.current
  <1>0. /\ WorldType /\ LedgerType /\ daemon.pc = "sending" /\ id \in Queued /\ NextUpload
        /\ UNCHANGED <<wire, archive, receipts, config, file, observation, policy, disturbances>>
    BY TypeParts DEF Receive, world, server
  <1>1. CASE daemon.reply.code = "receipt"
    <2>1. /\ Acknowledges(daemon.reply, id) /\ daemon.reply.revision = receipts[id]
          /\ receipts[id] = pending[id].expectedRevision + 1
      BY <1>0, <1>1, ReceiptAcknowledges
    <2>2. Ack(id, receipts[id]) /\ receipts[id] \in Nat
      BY <1>0, <2>1 DEF Receive, LedgerType, Queued
    <2>3. Acks(id)
      BY <1>0, <2>1, <2>2 DEF Acks
    <2>4. /\ pending' \in [Ids -> Entry \cup {NoEntry}] /\ head' \in [Sources -> HeadType]
          /\ Queued' = Queued \ {id}
          /\ \A i \in Queued' : pending'[i] = pending[i]
      BY <1>0, <2>2, AckMoves
    <2>5. EntriesAreGood'
      <3>1. EntriesAreGood
        BY CycleHasGoodEntries DEF CollectorInv, CycleInv
      <3> QED
        BY <2>4, <3>1 DEF EntriesAreGood, UsableDigest
    <2>6. daemon' \in DaemonType /\ daemon'.pc = "upload" /\ CycleInv'
      BY <1>0, <2>4, <2>5, UploadEnds DEF SameRequest
    <2>7. WorldType' /\ LedgerType'
      BY <1>0, <2>4 DEF WorldType, LedgerType
    <2>8. TypeOK'
      BY <2>6, <2>7, TypePartsNext
    <2>9. id \in Ids
      BY <1>0 DEF Queued
    <2> QED
      BY <2>3, <2>6, <2>8, <2>9 DEF StepOK, LedgerStep
  <1>2. CASE daemon.reply.code # "receipt"
    <2>1. daemon.reply.code # "conflict"
      BY DEF CollectorInv, RepliesAreTrue
    <2>2. Failed(id, FALSE, FALSE) /\ head' = head
      BY <1>2, <2>1 DEF Receive, Acknowledges
    <2> QED
      BY <1>0, <2>2, FailureStep
  <1> QED
    BY <1>1, <1>2

\* A timeout is a failed attempt.
LEMMA UploadFailsStep ==
  ASSUME TypeOK, CollectorInv, NEW retryable \in BOOLEAN, UploadFails(retryable)
  PROVE  StepOK
  BY FailureStep DEF UploadFails, world, server

\* The server executes or replays; the answer is true of what it now holds.
LEMMA IngestStep ==
  ASSUME TypeOK, CollectorInv, NEW m \in wire, NEW heard \in BOOLEAN, Ingest(m, heard)
  PROVE  StepOK
  <1>0. WorldType /\ LedgerType /\ daemon \in DaemonType
    BY TypeParts
  <1>1. UNCHANGED <<head, pending, wire, config, file, observation, policy, disturbances>>
    BY DEF Ingest, world, spool
  <1>2. /\ LedgerStays \/ Executes(m)
        /\ Answer(m) \in Reply /\ Answer(m).code \in {"receipt", "gone"}
        /\ Answer(m).code = "receipt" => receipts'[m.id] # 0 /\ Answer(m).revision = receipts'[m.id]
        /\ \A id \in Ids : receipts[id] # 0 => receipts'[id] = receipts[id]
    BY <1>0, IngestExecutes DEF CollectorInv
  <1>3. archive' \in [Sources -> HeadType] /\ receipts' \in [Ids -> Nat]
    <2>1. CASE LedgerStays
      BY <1>0, <2>1 DEF LedgerStays, LedgerType
    <2>2. CASE Executes(m)
      <3> DEFINE r == m.expectedRevision + 1
                 row == [archive[m.source] EXCEPT !.revision = r, !.digest = m.digest]
      <3>1. m.id \in Ids /\ m.source \in Sources /\ m.digest \in Digests /\ r \in Nat
        BY <1>0 DEF LedgerType, Message
      <3>2. archive' = [archive EXCEPT ![m.source] = row] /\ receipts' = [receipts EXCEPT ![m.id] = r]
        BY <2>2 DEF Executes
      <3> HIDE DEF r
      <3>3. archive[m.source] \in HeadType
        BY <1>0, <3>1 DEF LedgerType
      <3>4. row \in HeadType
        BY <3>1, <3>3 DEF HeadType
      <3> HIDE DEF row
      <3> QED
        BY <1>0, <3>1, <3>2, <3>4 DEF LedgerType
    <2> QED
      BY <1>2, <2>1, <2>2
  <1>4. WorldType' /\ LedgerType'
    BY <1>0, <1>1, <1>3 DEF WorldType, LedgerType
  <1>5. CASE ~heard
    <2>1. UNCHANGED daemon
      BY <1>5 DEF Ingest
    <2>2. Unnoticed
      BY <1>1, <1>2, <2>1 DEF Unnoticed, SameRequest
    <2>3. CycleInv' /\ (daemon.pc = "sending" => daemon.current \in Queued')
      BY <2>2, UnnoticedKeepsCycle DEF CollectorInv, CycleInv
    <2>4. TypeOK'
      BY <1>0, <1>4, <2>1, <2>3, TypePartsNext
    <2> QED
      BY <1>2, <2>3, <2>4 DEF StepOK, LedgerStep
  <1>6. CASE heard
    <2>1. daemon.pc = "sending" /\ daemon.current = m.id /\ daemon.current \in Queued
      BY <1>6 DEF Ingest, TypeOK
    <2>2. daemon' = [daemon EXCEPT !.reply = Answer(m)]
      BY <1>6 DEF Ingest
    <2>3. /\ daemon' \in DaemonType /\ daemon'.pc = daemon.pc /\ daemon'.policy = daemon.policy
          /\ daemon'.candidates = daemon.candidates /\ daemon'.uploads = daemon.uploads
          /\ daemon'.current = daemon.current /\ daemon'.reply = Answer(m)
      BY <1>0, <1>2, <2>2 DEF DaemonType
    <2>4. Queued' = Queued /\ \A i \in Queued : Payload(i)' = Payload(i)
      BY <1>1 DEF Queued, Payload
    <2>5. \A i : Ready(i) => Ready(i)'
      BY <1>1, <2>4 DEF Ready, Held
    <2>6. DigestsFollowPolicy'
      BY <1>1, <2>3, <2>4 DEF CollectorInv, DigestsFollowPolicy, UsableDigest
    <2>7. UploadsAreReady'
      BY <1>1, <2>1, <2>3, <2>4, <2>5 DEF CollectorInv, UploadsAreReady
    <2>8. RepliesAreTrue'
      <3>1. daemon'.pc = "sending" /\ daemon'.reply.code # "conflict"
        BY <1>2, <2>1, <2>3
      <3>2. daemon'.reply.code = "receipt" =>
              receipts'[daemon'.current] # 0 /\ daemon'.reply.revision = receipts'[daemon'.current]
        BY <1>2, <2>1, <2>3
      <3>3. \A id \in Queued' : pending'[id].status # "conflict"
        BY <1>1, <2>4 DEF CollectorInv, RepliesAreTrue
      <3> QED
        BY <3>1, <3>2, <3>3 DEF RepliesAreTrue
    <2>9. TypeOK'
      BY <1>4, <2>1, <2>3, <2>4, TypePartsNext
    <2> QED
      BY <1>2, <2>6, <2>7, <2>8, <2>9 DEF StepOK, LedgerStep, CycleInv
  <1> QED
    BY <1>5, <1>6

\* Every action keeps its side of the invariant.
LEMMA EveryStepIsOK ==
  ASSUME TypeOK, CollectorInv, [Next]_vars
  PROVE  StepOK
  <1>1. CASE RunOnce
    BY <1>1, ProcessSteps, SweepStep, EndScanStep, EndEnqueueStep, ReceiveStep, ScanStep,
       EnqueueStep, SendStep DEF RunOnce
  <1>2. CASE UNCHANGED vars
    BY <1>2, WorldSteps
  <1>3. CASE Next /\ ~RunOnce
    BY <1>3, WorldSteps, ProcessSteps, OperatorSteps, BackoffStep, IngestStep, UploadFailsStep,
       PurgeStep DEF Next
  <1> QED
    BY <1>1, <1>2, <1>3

-----------------------------------------------------------------------------
(* The theorems *)

\* An empty spool and an empty archive agree.
LEMMA CollectorInvInit == Init => TypeOK /\ CollectorInv
  <1> SUFFICES ASSUME Init PROVE TypeOK /\ CollectorInv
    OBVIOUS
  <1>1. Queued = {} /\ wire = {} /\ daemon = Daemon("off")
    BY DEF Init, Queued
  <1>2. /\ daemon \in DaemonType /\ daemon.pc = "off" /\ daemon.uploads = {}
        /\ daemon.candidates = {} /\ daemon.reply = NoReply
    BY <1>1, FreshDaemon
  <1>3. NoHead \in HeadType /\ NoHead.revision = 0 /\ NoHead.digest = NoContent
    BY DEF NoHead, HeadType
  <1>4. WorldType /\ LedgerType
    BY <1>3, CollectorAssumption DEF Init, WorldType, LedgerType
  <1>5. TypeOK
    BY <1>2, <1>4, TypeParts
  <1>6. \A s \in Sources : archive[s] = NoHead /\ head[s] = NoHead
    BY DEF Init
  <1>7. \A id \in Ids : receipts[id] = 0
    BY DEF Init
  <1>8. LedgerInv
    BY <1>1, <1>3, <1>6, <1>7 DEF LedgerInv, WireIsHonest, UnexecutedIsNext, ExecutedIsArchived,
       OneRequestPerSource, HeadFollowsArchive
  <1>9. NoReply.code = "none"
    BY DEF NoReply
  <1>10. DigestsFollowPolicy /\ UploadsAreReady /\ RepliesAreTrue
    BY <1>1, <1>2, <1>9 DEF DigestsFollowPolicy, UploadsAreReady, RepliesAreTrue
  <1> QED
    BY <1>5, <1>8, <1>10 DEF CollectorInv

\* Every step keeps the invariant.
LEMMA CollectorInvNext == TypeOK /\ CollectorInv /\ [Next]_vars => TypeOK' /\ CollectorInv'
  <1> SUFFICES ASSUME TypeOK, CollectorInv, [Next]_vars PROVE TypeOK' /\ CollectorInv'
    OBVIOUS
  <1>1. StepOK /\ LedgerType /\ LedgerInv
    BY EveryStepIsOK, TypeParts DEF CollectorInv
  <1>2. LedgerInv'
    BY <1>1, StayingKeepsLedger, DropKeepsLedger, EnqueueKeepsLedger, SendKeepsLedger,
       ExecuteKeepsLedger, PurgeKeepsLedger, AckKeepsLedger DEF StepOK, LedgerStep
  <1> QED
    BY <1>1, <1>2 DEF StepOK, CycleInv, CollectorInv

\* Spool, wire, archive and daemon agree in every reachable state.
THEOREM CollectorInvariant == Spec => [](TypeOK /\ CollectorInv)
  <1> QED
    BY CollectorInvInit, CollectorInvNext, PTL DEF Spec

\* The variables keep their types; no request is tried more than maxAttempts times.
THEOREM CollectorTypes == Spec => []TypeOK
  <1> QED
    BY CollectorInvariant, PTL

\* The spool knows what the server holds, but for one request that is still queued
\* or was dropped.
THEOREM HeadKnowsArchive == Spec => []HeadFollowsArchive
  <1>1. CollectorInv => HeadFollowsArchive
    BY DEF CollectorInv, LedgerInv
  <1> QED
    BY <1>1, CollectorInvariant, PTL

\* No lost reply, late delivery, crash, retry or drop runs into a CAS conflict.
THEOREM UploadsNeverConflict == Spec => []NeverConflicts
  <1>1. CollectorInv => NeverConflicts
    BY DEF CollectorInv, RepliesAreTrue, NeverConflicts
  <1> QED
    BY <1>1, CollectorInvariant, PTL

\* There is at most one queued request of a source, and it expects its head.
THEOREM OneRequest == Spec => []OneRequestPerSource
  <1>1. CollectorInv => OneRequestPerSource
    BY DEF CollectorInv, LedgerInv
  <1> QED
    BY <1>1, CollectorInvariant, PTL

\* What is uploaded is admitted, redacted by the policy of the cycle, and of a
\* source that was not closed.
THEOREM AdmittedBytesOnly == Spec => []OnlyAdmittedBytesLeave
  <1>1. TypeOK /\ CollectorInv => OnlyAdmittedBytesLeave
    BY DEF TypeOK, CollectorInv, LedgerInv, OneRequestPerSource, DigestsFollowPolicy, UsableDigest,
       UploadsAreReady, Ready, OnlyAdmittedBytesLeave
  <1> QED
    BY <1>1, CollectorInvariant, PTL

\* A closed source stays closed and nothing of it is sent again.
THEOREM TombstonesStay == Spec => TombstonesAreFinal
  <1> DEFINE Kept == \A s \in Sources : head[s].tombstone =>
                       head'[s].tombstone /\ {m \in wire' : m.source = s} = {m \in wire : m.source = s}
  <1>1. ASSUME TypeOK, CollectorInv, [Next]_vars PROVE Kept
    <2>0. LedgerStep /\ LedgerType
      BY <1>1, EveryStepIsOK, TypeParts DEF StepOK
    <2>1. CASE LedgerStays
      BY <2>1 DEF LedgerStays
    <2>2. ASSUME NEW id \in Ids, Drops(id) PROVE Kept
      <3>1. id \in Queued /\ Dropped(id) /\ wire' = wire
        BY <2>2 DEF Drops
      <3>2. /\ head'[pending[id].source].tombstone
            /\ \A t \in Sources : t # pending[id].source => head'[t] = head[t]
        BY <2>0, <3>1, DroppedKeeps
      <3> QED
        BY <3>1, <3>2
    <2>3. ASSUME NEW id \in Ids, Sends(id) PROVE Kept
      <3>1. /\ id \in Queued /\ wire' = wire \cup {Payload(id)} /\ head' = head
            /\ Payload(id).source = pending[id].source
        BY <2>3 DEF Sends, Payload
      <3>2. ~head[pending[id].source].tombstone
        BY <1>1, <3>1 DEF CollectorInv, LedgerInv, OneRequestPerSource
      <3> QED
        BY <3>1, <3>2
    <2>4. ASSUME NEW id \in Ids, Acks(id) PROVE Kept
      <3>1. id \in Queued /\ Ack(id, receipts[id]) /\ wire' = wire /\ receipts[id] \in Nat
        BY <2>0, <2>4 DEF Acks, LedgerType
      <3>2. \A t \in Sources : t # pending[id].source => head'[t] = head[t]
        BY <2>0, <3>1, AckMoves
      <3>3. ~head[pending[id].source].tombstone
        BY <1>1, <3>1 DEF CollectorInv, LedgerInv, OneRequestPerSource
      <3> QED
        BY <3>1, <3>2, <3>3
    <2>5. CASE UNCHANGED <<head, wire>>
      BY <2>5
    <2> QED
      BY <2>0, <2>1, <2>2, <2>3, <2>4, <2>5 DEF LedgerStep, Executes, Purge, spool
  <1>2. TypeOK /\ CollectorInv /\ [Next]_vars => [Kept]_vars
    BY <1>1
  <1> QED
    BY <1>2, CollectorInvariant, PTL DEF Spec, TombstonesAreFinal
=============================================================================
