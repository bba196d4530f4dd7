------------------------------ MODULE Admission ------------------------------
(***************************************************************************)
(* The bounded gate in front of every JDBC transaction of the Scala        *)
(* services: at most maxActive callers run, at most maxQueued more wait,   *)
(* and closing the resource waits for everyone inside.                     *)
(*                                                                         *)
(* The gate is a Ref (closed, count), a semaphore and a Deferred.  Each    *)
(* access to one of them is a step of its own: between any two, other      *)
(* fibers run, a waiter times out or a caller is cancelled.                *)
(***************************************************************************)
EXTENDS Integers, FiniteSets

CONSTANTS
  Callers,     \* fibers that call run, again and again
  maxActive,   \* semaphore permits
  maxQueued    \* reservations beyond them

ASSUME AdmissionAssumption ==
  /\ IsFiniteSet(Callers)
  /\ maxActive \in Nat \ {0} /\ maxQueued \in Nat

VARIABLES
  closed,    \* first half of the Ref
  count,     \* second half of the Ref: reservations
  permits,   \* of the semaphore
  drained,   \* the Deferred is completed
  caller,    \* where each fiber is in run
  closer     \* where the fiber that closes the resource is in close

vars == <<closed, count, permits, drained, caller, closer>>

\* out        not in run
\* waiting    reserved, in poll(permits.acquire)
\* permitted  holds a permit, has not read "closed" yet
\* working    has read "closed" as false: about to run, or in, the caller's work
\* leaving    permit returned (if it had one), reservation not yet released
\* signalling released the last reservation of a closed gate
Places == {"out", "waiting", "permitted", "working", "leaving", "signalling"}

Reserved == {"waiting", "permitted", "working", "leaving"}
Holding == {"permitted", "working"}
At(places) == {c \in Callers : caller[c] \in places}

TypeOK ==
  /\ closed \in BOOLEAN /\ drained \in BOOLEAN
  /\ count \in 0..(maxActive + maxQueued)
  /\ permits \in 0..maxActive
  /\ caller \in [Callers -> Places]
  /\ closer \in {"open", "draining", "returned"}

Init ==
  /\ closed = FALSE /\ count = 0
  /\ permits = maxActive
  /\ drained = FALSE
  /\ caller = [c \in Callers |-> "out"]
  /\ closer = "open"

Goes(c, place) == caller' = [caller EXCEPT ![c] = place]

\* Mutant of Full: counts the active callers only once they work.
FullOfWorkers == Cardinality(At({"working"})) >= maxActive + maxQueued

\* The answer "admission-full".
Full == count >= maxActive + maxQueued

\* reserve; "runtime-closed" and "admission-full" leave the caller out.
Reserve(c) ==
  /\ caller[c] = "out"
  /\ ~closed /\ ~Full
  /\ count' = count + 1
  /\ Goes(c, "waiting")
  /\ UNCHANGED <<closed, permits, drained, closer>>

Acquire(c) ==
  /\ caller[c] = "waiting" /\ permits > 0
  /\ permits' = permits - 1
  /\ Goes(c, "permitted")
  /\ UNCHANGED <<closed, count, drained, closer>>

\* "admission-timeout", or the caller is cancelled while it waits.
GiveUp(c) ==
  /\ caller[c] = "waiting"
  /\ Goes(c, "leaving")
  /\ UNCHANGED <<closed, count, permits, drained, closer>>

\* The second look at "closed": a caller that waited across close does not work.
\* Close may still happen between this read and the first step of the work.
Enter(c) ==
  /\ caller[c] = "permitted" /\ ~closed
  /\ Goes(c, "working")
  /\ UNCHANGED <<closed, count, permits, drained, closer>>

\* Mutant of ReturnPermit: a cancelled caller keeps its permit.
ForgetPermit(c) ==
  /\ caller[c] \in Holding
  /\ permits' = IF caller[c] = "working" THEN permits + 1 ELSE permits
  /\ Goes(c, "leaving")
  /\ UNCHANGED <<closed, count, drained, closer>>

\* The inner resource ends: work ended, failed or was cancelled, or the gate had closed.
ReturnPermit(c) ==
  /\ caller[c] \in Holding
  /\ permits' = permits + 1
  /\ Goes(c, "leaving")
  /\ UNCHANGED <<closed, count, drained, closer>>

\* Mutant of Release: signals when nobody was inside before it.
ReleaseSignalsEarly(c) ==
  /\ caller[c] = "leaving"
  /\ count' = count - 1
  /\ Goes(c, IF closed THEN "signalling" ELSE "out")
  /\ UNCHANGED <<closed, permits, drained, closer>>

\* Mutant of Release: compares the count after its decrement.
ReleaseOffByOne(c) ==
  /\ caller[c] = "leaving"
  /\ count' = count - 1
  /\ Goes(c, IF closed /\ count = 0 THEN "signalling" ELSE "out")
  /\ UNCHANGED <<closed, permits, drained, closer>>

\* release: the outer resource ends.
Release(c) ==
  /\ caller[c] = "leaving"
  /\ count' = count - 1
  /\ Goes(c, IF closed /\ count = 1 THEN "signalling" ELSE "out")
  /\ UNCHANGED <<closed, permits, drained, closer>>

Signal(c) ==
  /\ caller[c] = "signalling"
  /\ drained' = TRUE
  /\ Goes(c, "out")
  /\ UNCHANGED <<closed, count, permits, closer>>

\* close: an empty gate closes at once.
Close ==
  /\ closer = "open"
  /\ closed' = TRUE
  /\ closer' = IF count = 0 THEN "returned" ELSE "draining"
  /\ UNCHANGED <<count, permits, drained, caller>>

Drain ==
  /\ closer = "draining" /\ drained
  /\ closer' = "returned"
  /\ UNCHANGED <<closed, count, permits, drained, caller>>

Run(c) == Acquire(c) \/ GiveUp(c) \/ Enter(c) \/ ReturnPermit(c) \/ Release(c) \/ Signal(c)

Next == (\E c \in Callers : Reserve(c) \/ Run(c)) \/ Close \/ Drain

Spec == Init /\ [][Next]_vars

\* queueTimeout bounds every wait and the callbacks "must terminate".
Fairness ==
  /\ \A c \in Callers : WF_vars(Run(c))
  /\ WF_vars(Drain)

FairSpec == Spec /\ Fairness

-----------------------------------------------------------------------------
(* Properties *)

\* Neither cancellation nor a timeout leaks or duplicates a permit or a
\* reservation, so the two bounds hold.
CapacityIsConserved ==
  /\ permits + Cardinality(At(Holding)) = maxActive
  /\ count = Cardinality(At(Reserved))

\* Once close has returned no callback runs and none can start: the database can
\* be torn down.
ClosedIsQuiet == closer = "returned" => At(Reserved) = {}

\* close answers even if every caller it waits for times out, fails or is cancelled.
CloseReturns == (closer = "draining") ~> (closer = "returned")
=============================================================================
