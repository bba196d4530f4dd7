------------------------------ MODULE Collector ------------------------------
(***************************************************************************)
(* The Chronicle collector: the daemon that snapshots transcript files,    *)
(* spools them in SQLite and uploads them to the server's ingest endpoint, *)
(* which archives one revision per accepted request.                       *)
(*                                                                         *)
(* One process holds the DaemonLock, so its only company is the file       *)
(* system, the network, the server and its own restarts: an upload that    *)
(* timed out may still be executed, much later or twice; the process may   *)
(* die between any two spool transactions.                                 *)
(*                                                                         *)
(* A digest is that of the redacted transcript; a request id stands for    *)
(* its payload.  Backoff and the quiet period are flags that time sets at  *)
(* any moment.                                                             *)
(***************************************************************************)
EXTENDS Naturals, FiniteSets

CONSTANTS
  Files,            \* transcript files
  Sources,          \* source identities
  KeyOf,            \* file -> its source identity; copies share one
  OriginOf,         \* source -> where its root was discovered
  Contents,         \* what a file may hold
  Usable,           \* contents that pass limits, exclusions and the parser, with
                    \* a complete last line
  Policies,         \* privacy and discovery policies (policyDigest); the endpoint stays
  Digests,          \* of redacted transcripts
  Redacted,         \* content -> policy -> digest of what the policy leaves of it
  Restrictions,     \* admission settings of the configuration
  maxAttempts,      \* of one upload
  MaxRequests,      \* bound: requests ever enqueued
  MaxDisturbances   \* bound: edits, crashes and policy changes

NoContent == "none"
NoPolicy == "unavailable"

ASSUME CollectorAssumption ==
  /\ KeyOf \in [Files -> Sources]
  /\ Redacted \in [Contents -> [Policies -> Digests]]
  /\ NoContent \notin Contents \cup Digests /\ Usable \subseteq Contents /\ NoPolicy \notin Policies
  /\ \A r \in Restrictions : r.excludeDefaultProfile \in BOOLEAN
  /\ maxAttempts \in Nat \ {0} /\ MaxRequests \in Nat /\ MaxDisturbances \in Nat

VARIABLES
  file,        \* content of each file
  observation, \* spool: content last seen, and whether it has been quiet long enough
  head,        \* spool: last acknowledged revision of each source
  pending,     \* spool: queued requests
  policy,      \* policy that resolveRuntimePrivacy would find now
  config,      \* admission settings of the running or next process
  daemon,      \* the process: where it is in runOnce, and its locals
  wire,        \* requests that the network may still deliver
  archive,     \* server: ch_sources, with the content of the newest revision
  receipts,    \* server: ch_ingest_receipts
  disturbances

spool == <<observation, head, pending>>
server == <<archive, receipts>>
world == <<file, policy, config, disturbances>>
vars == <<file, observation, head, pending, policy, config, daemon, wire, archive, receipts,
          disturbances>>

Ids == 1..MaxRequests
NoEntry == [status |-> "none"]
NoReply == [code |-> "none"]
Entry == [source: Sources, digest: Digests, expectedRevision: Nat, policyDigest: Policies,
          attempts: 0..maxAttempts, due: BOOLEAN, status: {"pending", "stopped", "conflict"}]
Queued == {id \in Ids : pending[id] # NoEntry}
Message == [id: Ids, source: Sources, digest: Digests, expectedRevision: Nat]
Payload(id) == [id |-> id, source |-> pending[id].source, digest |-> pending[id].digest,
                expectedRevision |-> pending[id].expectedRevision]
QueuedSources == {pending[id].source : id \in Queued}
Reply == {NoReply} \cup [code: {"receipt"}, revision: Nat] \cup [code: {"gone", "conflict"}]

\* The locals of runOnce that outlive a step.
Daemon(pc) == [pc |-> pc, policy |-> NoPolicy, files |-> {}, candidates |-> {}, keys |-> {},
               uploads |-> {}, current |-> 0, reply |-> NoReply]

TypeOK ==
  /\ file \in [Files -> Contents \cup {NoContent}]
  /\ observation \in [Files -> [content: Contents \cup {NoContent}, quiet: BOOLEAN]]
  /\ head \in [Sources -> [revision: Nat, digest: Digests \cup {NoContent}, tombstone: BOOLEAN]]
  /\ pending \in [Ids -> Entry \cup {NoEntry}]
  /\ policy \in Policies \cup {NoPolicy} /\ config \in Restrictions
  /\ daemon \in [pc: {"off", "idle", "sweep", "scan", "enqueue", "upload", "sending"},
                 policy: Policies \cup {NoPolicy}, files: SUBSET Files,
                 candidates: SUBSET [key: Sources, digest: Digests], keys: SUBSET Sources,
                 uploads: SUBSET Ids, current: Nat, reply: Reply]
  /\ daemon.pc = "sending" => daemon.current \in Queued
  /\ wire \subseteq Message
  /\ archive \in [Sources -> [revision: Nat, digest: Digests \cup {NoContent}, tombstone: BOOLEAN]]
  /\ receipts \in [Ids -> Nat]
  /\ disturbances \in 0..MaxDisturbances

NoHead == [revision |-> 0, digest |-> NoContent, tombstone |-> FALSE]

Init ==
  /\ file = [f \in Files |-> NoContent]
  /\ observation = [f \in Files |-> [content |-> NoContent, quiet |-> FALSE]]
  /\ head = [s \in Sources |-> NoHead]
  /\ pending = [id \in Ids |-> NoEntry]
  /\ policy \in Policies /\ config \in Restrictions
  /\ daemon = Daemon("off")
  /\ wire = {}
  /\ archive = [s \in Sources |-> NoHead]
  /\ receipts = [id \in Ids |-> 0]
  /\ disturbances = 0

-----------------------------------------------------------------------------
(* The world *)

Disturb == disturbances < MaxDisturbances /\ disturbances' = disturbances + 1

Edit(f, c) ==
  /\ Disturb /\ c # file[f]
  /\ file' = [file EXCEPT ![f] = c]
  /\ UNCHANGED <<policy, config, spool, daemon, wire, server>>

\* A secret file is rotated or disappears; each run resolves them anew.
ChangePolicy(p) ==
  /\ Disturb /\ p # policy
  /\ policy' = p
  /\ UNCHANGED <<file, config, spool, daemon, wire, server>>

QuietPasses(f) ==
  /\ ~observation[f].quiet /\ observation[f].content # NoContent
  /\ observation' = [observation EXCEPT ![f].quiet = TRUE]
  /\ UNCHANGED <<head, pending, world, daemon, wire, server>>

BackoffPasses(id) ==
  /\ id \in Queued /\ ~pending[id].due
  /\ pending' = [pending EXCEPT ![id].due = TRUE]
  /\ UNCHANGED <<observation, head, world, daemon, wire, server>>

-----------------------------------------------------------------------------
(* The process *)

\* Everything but the spool is lost; what was sent is still on the wire.
Crash ==
  /\ Disturb /\ daemon.pc # "off"
  /\ daemon' = Daemon("off")
  /\ UNCHANGED <<file, policy, config, spool, wire, server>>

\* main: the configuration is read once per process.
Start(r) ==
  /\ daemon.pc = "off"
  /\ daemon' = Daemon("idle")
  /\ config' = r
  /\ UNCHANGED <<file, policy, disturbances, spool, wire, server>>

\* admissionReason(origin, config) is not null.
Held(s) ==
  LET origin == OriginOf[s] IN
  CASE origin.kind = "named-yolo" -> origin.name \in config.excludedYoloProfiles
    [] origin.kind = "native" -> config.excludeDefaultProfile
    [] OTHER -> config.excludeDefaultProfile \/ config.excludedYoloProfiles # {}

\* Mutant of Dropped: the dropped request may have committed, yet its source is
\* open for a new one.
DroppedWithoutTombstone(id) ==
  /\ UNCHANGED head
  /\ pending' = [pending EXCEPT ![id] = NoEntry]

Dropped(id) ==
  /\ head' = [head EXCEPT ![pending[id].source].tombstone = TRUE]
  /\ pending' = [pending EXCEPT ![id] = NoEntry]

\* spool.drop and spool.retry by the operator, who needs the DaemonLock too.
OperatorDrop(id) ==
  /\ daemon.pc = "off" /\ id \in Queued
  /\ Dropped(id)
  /\ UNCHANGED <<observation, world, daemon, wire, server>>

OperatorRetry(id) ==
  /\ daemon.pc = "off" /\ id \in Queued
  /\ pending' = [pending EXCEPT ![id] = [@ EXCEPT !.attempts = 0, !.due = TRUE, !.status = "pending"]]
  /\ UNCHANGED <<observation, head, world, daemon, wire, server>>

\* runOnce begins; a missing secret ends it at once ("privacy-secret-unavailable").
BeginRun ==
  /\ daemon.pc = "idle" /\ policy # NoPolicy
  /\ daemon' = [Daemon("sweep") EXCEPT !.policy = policy]
  /\ UNCHANGED <<world, spool, wire, server>>

\* Mutant of Stale: a policy change does not touch what is queued.
NeverStale(id) == FALSE

\* Queued bytes of another policy or destination must never leave.
Stale(id) == pending[id].policyDigest # daemon.policy

Sweep ==
  /\ daemon.pc = "sweep"
  /\ \/ \E id \in Queued : Stale(id) /\ Dropped(id) /\ UNCHANGED daemon
     \/ /\ \A id \in Queued : ~Stale(id)
        /\ daemon' = [daemon EXCEPT !.pc = "scan",
             !.files = {f \in Files : file[f] # NoContent /\ ~Held(KeyOf[f])}]
        /\ UNCHANGED <<head, pending>>
  /\ UNCHANGED <<observation, world, wire, server>>

\* An unreadable root or a discovery limit ends the run ("discovery-failed").
DiscoveryFails ==
  /\ Disturb /\ daemon.pc = "sweep" /\ \A id \in Queued : ~Stale(id)
  /\ daemon' = Daemon("idle")
  /\ UNCHANGED <<file, policy, config, spool, wire, server>>

\* Mutant of Observe: every observation starts the quiet period again.
ObserveRestless(f) == observation' = [observation EXCEPT ![f] = [content |-> file[f], quiet |-> FALSE]]

\* spool.observe.  The fingerprint's mtime is left out: an edit that is undone
\* counts as quiet sooner, which only adds behaviours.
Observe(f) ==
  observation' = IF observation[f].content = file[f] THEN observation
                 ELSE [observation EXCEPT ![f] = [content |-> file[f], quiet |-> FALSE]]

\* The file may have vanished since it was listed.
Scan(f) ==
  /\ daemon.pc = "scan" /\ f \in daemon.files
  /\ IF file[f] = NoContent THEN UNCHANGED observation ELSE Observe(f)
  /\ daemon' = [daemon EXCEPT !.files = @ \ {f}, !.candidates =
       IF observation'[f].quiet /\ file[f] \in Usable
       THEN @ \cup {[key |-> KeyOf[f], digest |-> Redacted[file[f]][daemon.policy]]} ELSE @]
  /\ UNCHANGED <<head, pending, world, wire, server>>

\* maxScanBytes may leave all files but the first unread.
EndScan ==
  /\ daemon.pc = "scan"
  /\ daemon.files = {} \/ \E f \in Files : file[f] # NoContent /\ ~Held(KeyOf[f]) /\ f \notin daemon.files
  /\ daemon' = [daemon EXCEPT !.pc = "enqueue", !.keys = {c.key : c \in daemon.candidates}]
  /\ UNCHANGED <<world, spool, wire, server>>

CopyDigests(s) == {c.digest : c \in {x \in daemon.candidates : x.key = s}}

\* Mutant of Wanted: forgets the request that is still queued.
WantedTwice(s, d) ==
  CopyDigests(s) = {d} /\ ~head[s].tombstone /\ head[s].digest # d

\* Mutant of Wanted: forgets the tombstone.
WantedAgain(s, d) ==
  CopyDigests(s) = {d} /\ head[s].digest # d /\ s \notin QueuedSources

\* Copies that diverge ("source-identity-collision"), tombstones, unchanged and
\* already queued sources are not enqueued.
Wanted(s, d) ==
  /\ CopyDigests(s) = {d}
  /\ ~head[s].tombstone /\ head[s].digest # d /\ s \notin QueuedSources

\* randomUUID: never one that was sent before.
Fresh == {id \in Ids : id \notin Queued /\ ~\E m \in wire : m.id = id}

\* spool.enqueue under a fresh request id.
Enqueue(s) ==
  LET wanted == {d \in Digests : Wanted(s, d)} IN
  /\ daemon.pc = "enqueue" /\ s \in daemon.keys
  /\ daemon' = [daemon EXCEPT !.keys = @ \ {s}]
  /\ \/ wanted = {} /\ UNCHANGED pending
     \/ \E d \in wanted, id \in Fresh :
          /\ \A i \in Fresh : id <= i
          /\ pending' = [pending EXCEPT ![id] =
               [source |-> s, digest |-> d, expectedRevision |-> head[s].revision,
                policyDigest |-> daemon.policy, attempts |-> 0, due |-> TRUE,
                status |-> "pending"]]
  /\ UNCHANGED <<observation, head, world, wire, server>>

EndEnqueue ==
  /\ daemon.pc = "enqueue" /\ daemon.keys = {}
  /\ daemon' = [daemon EXCEPT !.pc = "upload", !.candidates = {}, !.uploads =
       {id \in Queued : pending[id].status = "pending" /\ pending[id].due /\ ~Held(pending[id].source)}]
  /\ UNCHANGED <<world, spool, wire, server>>

\* Admission is asked again right before the bytes leave.
Send(id) ==
  /\ daemon.pc = "upload" /\ id \in daemon.uploads
  /\ ~Held(pending[id].source)
  /\ daemon' = [daemon EXCEPT !.pc = "sending", !.current = id, !.uploads = @ \ {id}]
  /\ wire' = wire \cup {Payload(id)}
  /\ UNCHANGED <<world, spool, server>>

EndRun ==
  /\ daemon.pc = "upload" /\ daemon.uploads = {}
  /\ daemon' = Daemon("idle")
  /\ UNCHANGED <<world, spool, wire, server>>

\* Mutant of Answer: no receipt lookup, so a replay is a new request.
AnswerWithoutReceipts(m) ==
  IF archive[m.source].tombstone THEN [code |-> "gone"]
  ELSE IF archive[m.source].revision # m.expectedRevision THEN [code |-> "conflict"]
  ELSE [code |-> "receipt", revision |-> m.expectedRevision + 1]

\* ingest: a replay gets the receipt of the first execution, whatever happened since.
Answer(m) ==
  IF receipts[m.id] # 0 THEN [code |-> "receipt", revision |-> receipts[m.id]]
  ELSE IF archive[m.source].tombstone THEN [code |-> "gone"]
  ELSE IF archive[m.source].revision # m.expectedRevision THEN [code |-> "conflict"]
  ELSE [code |-> "receipt", revision |-> m.expectedRevision + 1]

\* The server executes a request; its answer reaches the collector only if that
\* still waits on this connection.
Ingest(m, heard) ==
  LET answer == Answer(m) IN
  /\ m \in wire
  /\ heard => daemon.pc = "sending" /\ daemon.current = m.id /\ daemon.reply = NoReply
  /\ IF answer.code = "receipt" /\ receipts[m.id] = 0
     THEN /\ archive' = [archive EXCEPT ![m.source] =
               [@ EXCEPT !.revision = answer.revision, !.digest = m.digest]]
          /\ receipts' = [receipts EXCEPT ![m.id] = answer.revision]
     ELSE UNCHANGED server
  /\ daemon' = IF heard THEN [daemon EXCEPT !.reply = answer] ELSE daemon
  /\ UNCHANGED <<world, spool, wire>>

\* Purge of a session by its owner.  Receipts stay.
Purge(s) ==
  /\ archive[s].revision > 0 /\ ~archive[s].tombstone
  /\ archive' = [archive EXCEPT ![s] = [@ EXCEPT !.digest = NoContent, !.tombstone = TRUE]]
  /\ UNCHANGED <<receipts, world, spool, daemon, wire>>

NextUpload == daemon' = [daemon EXCEPT !.pc = "upload", !.current = 0, !.reply = NoReply]

\* Mutant of Failed: one attempt too many.
FailedOnceMore(id, retryable, conflict) ==
  LET tries == pending[id].attempts + 1 IN
  pending' = [pending EXCEPT ![id] = [@ EXCEPT
    !.attempts = tries, !.due = FALSE,
    !.status = IF conflict THEN "conflict"
               ELSE IF ~retryable \/ tries > maxAttempts THEN "stopped" ELSE "pending"]]

\* spool.fail
Failed(id, retryable, conflict) ==
  LET tries == pending[id].attempts + 1 IN
  pending' = [pending EXCEPT ![id] = [@ EXCEPT
    !.attempts = tries, !.due = FALSE,
    !.status = IF conflict THEN "conflict"
               ELSE IF ~retryable \/ tries >= maxAttempts THEN "stopped" ELSE "pending"]]

\* spool.ack: the receipt must be the next revision of the head that was sent.
Acknowledges(reply, id) ==
  /\ reply.code = "receipt" /\ reply.revision = pending[id].expectedRevision + 1
  /\ head[pending[id].source].revision = pending[id].expectedRevision

Ack(id, revision) ==
  /\ head' = [head EXCEPT ![pending[id].source] =
       [revision |-> revision, digest |-> pending[id].digest, tombstone |-> FALSE]]
  /\ pending' = [pending EXCEPT ![id] = NoEntry]

\* Any other answer than a receipt is final.
Receive ==
  LET id == daemon.current
      reply == daemon.reply
  IN /\ daemon.pc = "sending" /\ reply # NoReply
     /\ IF Acknowledges(reply, id) THEN Ack(id, reply.revision)
        ELSE Failed(id, FALSE, reply.code = "conflict") /\ UNCHANGED head
     /\ NextUpload
     /\ UNCHANGED <<observation, world, wire, server>>

\* The upload times out, or network, server or credentials fail: whether the
\* request was executed, or will be, is unknown.
UploadFails(retryable) ==
  /\ daemon.pc = "sending"
  /\ Failed(daemon.current, retryable, FALSE)
  /\ NextUpload
  /\ UNCHANGED <<observation, head, world, wire, server>>

-----------------------------------------------------------------------------
RunOnce ==
  \/ BeginRun \/ Sweep \/ EndScan \/ EndEnqueue \/ EndRun \/ Receive
  \/ \E f \in Files : Scan(f)
  \/ \E s \in Sources : Enqueue(s)
  \/ \E id \in Ids : Send(id)

Next ==
  \/ RunOnce
  \/ \E f \in Files : QuietPasses(f)
  \/ \E f \in Files, c \in Contents \cup {NoContent} : Edit(f, c)
  \/ \E p \in Policies \cup {NoPolicy} : ChangePolicy(p)
  \/ \E r \in Restrictions : Start(r)
  \/ \E id \in Ids : OperatorDrop(id) \/ OperatorRetry(id) \/ BackoffPasses(id)
  \/ \E m \in wire, heard \in BOOLEAN : Ingest(m, heard)
  \/ \E retryable \in BOOLEAN : UploadFails(retryable)
  \/ \E s \in Sources : Purge(s)
  \/ Crash \/ DiscoveryFails

Spec == Init /\ [][Next]_vars

\* Time passes, the service manager restarts the daemon, the daemon runs, and
\* AbortSignal.timeout ends every upload that is not answered.
FairSpec ==
  /\ Spec
  /\ WF_vars(RunOnce)
  /\ WF_vars(\E r \in Restrictions : Start(r))
  /\ WF_vars(\E retryable \in BOOLEAN : UploadFails(retryable))
  /\ \A f \in Files : WF_vars(QuietPasses(f))
  /\ \A id \in Ids : WF_vars(BackoffPasses(id))

-----------------------------------------------------------------------------
(* Properties *)

\* The spool knows what the server holds: the local head is the archived
\* revision and digest, or one behind it while the request that made the
\* difference is still queued (a lost reply) or was dropped.
HeadFollowsArchive ==
  \A s \in Sources :
    /\ archive[s].revision \in {head[s].revision, head[s].revision + 1}
    /\ archive[s].revision = head[s].revision /\ ~archive[s].tombstone =>
         archive[s].digest = head[s].digest
    /\ archive[s].revision # head[s].revision =>
         \/ head[s].tombstone
         \/ \E id \in Queued : pending[id].source = s /\ receipts[id] = archive[s].revision

\* With one collector per namespace no interleaving of lost replies, late
\* deliveries, crashes, retries and drops runs into a CAS conflict, which only
\* an operator could resolve.
NeverConflicts ==
  /\ daemon.reply.code # "conflict"
  /\ \A id \in Queued : pending[id].status # "conflict"

\* The bytes of an upload are what the privacy policy of the running cycle leaves
\* of a complete transcript, their origin is admitted, and their source is not
\* tombstoned.
OnlyAdmittedBytesLeave ==
  daemon.pc = "sending" =>
    LET entry == pending[daemon.current] IN
    /\ entry.policyDigest = daemon.policy
    /\ \E c \in Usable : entry.digest = Redacted[c][daemon.policy]
    /\ ~Held(entry.source)
    /\ ~head[entry.source].tombstone

\* source-pending: one request per source, so enqueue never throws
\* "source-already-pending" or "source-head-mismatch" out of runOnce.
OneRequestPerSource ==
  \A i, j \in Queued :
    /\ pending[i].source = pending[j].source => i = j
    /\ pending[i].expectedRevision = head[pending[i].source].revision
    /\ ~head[pending[i].source].tombstone

\* A request that was dropped (by the operator or by a policy change) or whose
\* source is tombstoned is never put on the wire again.
TombstonesAreFinal ==
  [][\A s \in Sources : head[s].tombstone =>
       head'[s].tombstone /\ {m \in wire' : m.source = s} = {m \in wire : m.source = s}]_vars

\* A file that stops changing is archived as the present policy redacts it, unless an operator has something to
\* look at: a tombstone, a stopped request, a held origin, diverging copies, an
\* unusable file or an unreadable secret.
EventuallyArchived ==
  \A f \in Files :
    LET s == KeyOf[f] IN
    []<>(\/ file[f] \notin Usable \/ policy = NoPolicy
         \/ archive[s].digest = Redacted[file[f]][policy]
         \/ \E g \in Files : KeyOf[g] = s /\ file[g] # file[f] /\ file[g] \in Usable
         \/ head[s].tombstone \/ archive[s].tombstone \/ Held(s)
         \/ \E id \in Queued : pending[id].source = s /\ pending[id].status # "pending")
=============================================================================
