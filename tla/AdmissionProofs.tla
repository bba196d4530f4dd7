--------------------------- MODULE AdmissionProofs ---------------------------
(***************************************************************************)
(* Proofs about the admission gate, for any number of callers and any      *)
(* capacity.                                                               *)
(***************************************************************************)
EXTENDS Admission, FiniteSetTheorems, TLAPS

\* What close and release know of each other: the gate is closed once close has
\* looked at it, and whoever may complete or has completed the Deferred saw the
\* last reservation go.
DrainedIsEmpty ==
  /\ closed <=> closer # "open"
  /\ drained \/ At({"signalling"}) # {} => closed /\ count = 0
  /\ closer = "returned" => count = 0

\* The inductive invariant.
GateInv == TypeOK /\ CapacityIsConserved /\ DrainedIsEmpty

\* A move of one caller adds it to, or removes it from, a set of places.
LEMMA MoveChangesOne ==
  ASSUME caller \in [Callers -> Places], NEW c \in Callers, NEW place, Goes(c, place),
         NEW P
  PROVE  At(P)' = IF place \in P THEN At(P) \cup {c} ELSE At(P) \ {c}
  BY DEF At, Goes

\* The sets of callers that the capacities are counted by are finite.
LEMMA PlacesAreFinite ==
  ASSUME NEW P
  PROVE  IsFiniteSet(At(P)) /\ Cardinality(At(P)) \in Nat
  <1>1. At(P) \in SUBSET Callers
    BY DEF At
  <1>2. IsFiniteSet(At(P))
    BY <1>1, AdmissionAssumption, FS_Subset
  <1> QED
    BY <1>2, FS_CardinalityType

\* What a move does to the number of callers in a set of places.
LEMMA MoveCounts ==
  ASSUME caller \in [Callers -> Places], NEW c \in Callers, NEW place, Goes(c, place),
         NEW P
  PROVE  /\ Cardinality(At(P)) \in Nat
         /\ caller[c] \in P => Cardinality(At(P)) >= 1
         /\ Cardinality(At(P)') =
              IF caller[c] \in P
              THEN IF place \in P THEN Cardinality(At(P)) ELSE Cardinality(At(P)) - 1
              ELSE IF place \in P THEN Cardinality(At(P)) + 1 ELSE Cardinality(At(P))
  <1>1. IsFiniteSet(At(P)) /\ Cardinality(At(P)) \in Nat
    BY PlacesAreFinite
  <1>2. c \in At(P) <=> caller[c] \in P
    BY DEF At
  <1>3. At(P)' = IF place \in P THEN At(P) \cup {c} ELSE At(P) \ {c}
    BY MoveChangesOne
  <1>4. Cardinality(At(P) \cup {c}) = IF c \in At(P) THEN Cardinality(At(P)) ELSE Cardinality(At(P)) + 1
    BY <1>1, FS_AddElement
  <1>5. /\ IsFiniteSet(At(P) \ {c})
        /\ Cardinality(At(P) \ {c}) = IF c \in At(P) THEN Cardinality(At(P)) - 1 ELSE Cardinality(At(P))
    BY <1>1, FS_RemoveElement
  <1>6. Cardinality(At(P) \ {c}) \in Nat
    BY <1>5, FS_CardinalityType
  <1> QED
    BY <1>1, <1>2, <1>3, <1>4, <1>5, <1>6

\* A gate that nobody has entered satisfies the invariant.
LEMMA GateInvInit == Init => GateInv
  <1> SUFFICES ASSUME Init PROVE GateInv
    OBVIOUS
  <1>1. At(Holding) = {} /\ At(Reserved) = {} /\ At({"signalling"}) = {}
    BY DEF Init, At, Holding, Reserved
  <1>2. Cardinality({}) = 0
    BY FS_EmptySet
  <1>3. TypeOK
    <2>1. closed \in BOOLEAN /\ drained \in BOOLEAN
      BY DEF Init
    <2>2. count \in 0..(maxActive + maxQueued) /\ permits \in 0..maxActive
      BY AdmissionAssumption DEF Init
    <2>3. caller \in [Callers -> Places] /\ closer \in {"open", "draining", "returned"}
      BY DEF Init, Places
    <2> QED
      BY <2>1, <2>2, <2>3 DEF TypeOK
  <1>4. CapacityIsConserved
    BY <1>1, <1>2, AdmissionAssumption DEF Init, CapacityIsConserved
  <1>5. DrainedIsEmpty
    BY <1>1 DEF Init, DrainedIsEmpty
  <1> QED
    BY <1>3, <1>4, <1>5 DEF GateInv

\* A step of one caller keeps the invariant.
LEMMA CallerKeepsGateInv ==
  ASSUME GateInv, NEW c \in Callers, Reserve(c) \/ Run(c)
  PROVE  GateInv'
  <1> USE AdmissionAssumption DEF Places, Holding, Reserved
  <1>0. caller \in [Callers -> Places]
    BY DEF GateInv, TypeOK
  <1> DEFINE H == Cardinality(At(Holding))
             R == Cardinality(At(Reserved))
  <1>h. H \in Nat /\ R \in Nat
    BY PlacesAreFinite
  <1>s. At({"signalling"}) = {} <=> \A d \in Callers : caller[d] # "signalling"
    BY DEF At
  <1>1. CASE Reserve(c)
    <2>1. Cardinality(At(Holding)') = H /\ Cardinality(At(Reserved)') = R + 1
      BY <1>0, <1>1, MoveCounts, "waiting" \in Reserved DEF Reserve
    <2>2. At({"signalling"})' = At({"signalling"}) \ {c}
      BY <1>0, <1>1, MoveChangesOne DEF Reserve
    <2> QED
      BY <1>1, <1>h, <2>1, <2>2 DEF Reserve, Full, Goes, GateInv, TypeOK, CapacityIsConserved, DrainedIsEmpty
  <1>2. CASE Acquire(c)
    <2>1. Cardinality(At(Holding)') = H + 1 /\ Cardinality(At(Reserved)') = R
      BY <1>0, <1>2, MoveCounts DEF Acquire
    <2>2. At({"signalling"})' = At({"signalling"}) \ {c}
      BY <1>0, <1>2, MoveChangesOne DEF Acquire
    <2> QED
      BY <1>2, <1>h, <2>1, <2>2 DEF Acquire, Goes, GateInv, TypeOK, CapacityIsConserved, DrainedIsEmpty
  <1>3. CASE GiveUp(c)
    <2>1. Cardinality(At(Holding)') = H /\ Cardinality(At(Reserved)') = R
      BY <1>0, <1>3, MoveCounts DEF GiveUp
    <2>2. At({"signalling"})' = At({"signalling"}) \ {c}
      BY <1>0, <1>3, MoveChangesOne DEF GiveUp
    <2> QED
      BY <1>3, <1>h, <2>1, <2>2 DEF GiveUp, Goes, GateInv, TypeOK, CapacityIsConserved, DrainedIsEmpty
  <1>4. CASE Enter(c)
    <2>1. Cardinality(At(Holding)') = H /\ Cardinality(At(Reserved)') = R
      BY <1>0, <1>4, MoveCounts DEF Enter
    <2>2. At({"signalling"})' = At({"signalling"}) \ {c}
      BY <1>0, <1>4, MoveChangesOne DEF Enter
    <2> QED
      BY <1>4, <1>h, <2>1, <2>2 DEF Enter, Goes, GateInv, TypeOK, CapacityIsConserved, DrainedIsEmpty
  <1>5. CASE ReturnPermit(c)
    <2>1. H >= 1 /\ Cardinality(At(Holding)') = H - 1 /\ Cardinality(At(Reserved)') = R
      BY <1>0, <1>5, MoveCounts DEF ReturnPermit
    <2>2. At({"signalling"})' = At({"signalling"}) \ {c}
      BY <1>0, <1>5, MoveChangesOne DEF ReturnPermit
    <2> QED
      BY <1>5, <1>h, <2>1, <2>2 DEF ReturnPermit, Goes, GateInv, TypeOK, CapacityIsConserved, DrainedIsEmpty
  <1>6. CASE Release(c)
    <2> DEFINE place == IF closed /\ count = 1 THEN "signalling" ELSE "out"
    <2>0. Goes(c, place) /\ caller[c] = "leaving" /\ place \notin Holding /\ place \notin Reserved
      BY <1>6 DEF Release
    <2>1. R >= 1 /\ Cardinality(At(Holding)') = H /\ Cardinality(At(Reserved)') = R - 1
      BY <1>0, <2>0, MoveCounts
    <2>2. At({"signalling"})' = IF place \in {"signalling"} THEN At({"signalling"}) \cup {c} ELSE At({"signalling"}) \ {c}
      BY <1>0, <2>0, MoveChangesOne, ZenonT(60)
    <2>3. ~drained /\ At({"signalling"}) = {}
      BY <2>1, <1>h DEF GateInv, CapacityIsConserved, DrainedIsEmpty, TypeOK
    <2>4. (TypeOK /\ CapacityIsConserved)'
      BY <1>6, <1>h, <2>1 DEF Release, Goes, GateInv, TypeOK, CapacityIsConserved
    <2>5. DrainedIsEmpty'
      BY <1>6, <2>1, <2>2, <2>3 DEF Release, GateInv, CapacityIsConserved, TypeOK, DrainedIsEmpty
    <2> QED
      BY <2>4, <2>5 DEF GateInv
  <1>7. CASE Signal(c)
    <2>1. Cardinality(At(Holding)') = H /\ Cardinality(At(Reserved)') = R
      BY <1>0, <1>7, MoveCounts DEF Signal
    <2>2. At({"signalling"})' = At({"signalling"}) \ {c}
      BY <1>0, <1>7, MoveChangesOne DEF Signal
    <2>3. c \in At({"signalling"})
      BY <1>7 DEF Signal, At
    <2> QED
      BY <1>7, <1>h, <2>1, <2>2, <2>3 DEF Signal, Goes, GateInv, TypeOK, CapacityIsConserved, DrainedIsEmpty
  <1> QED
    BY <1>1, <1>2, <1>3, <1>4, <1>5, <1>6, <1>7 DEF Run

\* And so does every step: closing and draining move no caller.
LEMMA GateInvNext == GateInv /\ [Next]_vars => GateInv'
  <1> SUFFICES ASSUME GateInv, [Next]_vars PROVE GateInv'
    OBVIOUS
  <1>1. ASSUME NEW c \in Callers, Reserve(c) \/ Run(c) PROVE GateInv'
    BY <1>1, CallerKeepsGateInv
  <1>2. CASE Close
    BY <1>2 DEF Close, GateInv, TypeOK, CapacityIsConserved, DrainedIsEmpty, At
  <1>3. CASE Drain
    BY <1>3 DEF Drain, GateInv, TypeOK, CapacityIsConserved, DrainedIsEmpty, At
  <1>4. CASE UNCHANGED vars
    BY <1>4 DEF vars, GateInv, TypeOK, CapacityIsConserved, DrainedIsEmpty, At
  <1> QED
    BY <1>1, <1>2, <1>3, <1>4 DEF Next

\* The inductive invariant holds always: the counts match the callers, and a
\* completed Deferred or a returned close means that nobody is inside.
THEOREM GateInvariant == Spec => []GateInv
  BY GateInvInit, GateInvNext, PTL DEF Spec

\* The counter never passes the two capacities together and no permit is ever
\* made up: the types of Admission's Ref and semaphore.
THEOREM TypeCorrect == Spec => []TypeOK
  <1>1. GateInv => TypeOK
    BY DEF GateInv
  <1> QED
    BY <1>1, GateInvariant, PTL

\* Admission.run returns every permit and every reservation it took, whether the
\* work ends, fails, times out or is cancelled.
THEOREM CapacityConserved == Spec => []CapacityIsConserved
  <1>1. GateInv => CapacityIsConserved
    BY DEF GateInv
  <1> QED
    BY <1>1, GateInvariant, PTL

\* When Admission.close has returned nobody is inside run.
THEOREM ClosedQuiet == Spec => []ClosedIsQuiet
  <1>1. GateInv => ClosedIsQuiet
    <2> SUFFICES ASSUME GateInv, closer = "returned" PROVE At(Reserved) = {}
      BY DEF ClosedIsQuiet
    <2>1. Cardinality(At(Reserved)) = 0
      BY DEF GateInv, CapacityIsConserved, DrainedIsEmpty
    <2>2. IsFiniteSet(At(Reserved))
      BY PlacesAreFinite
    <2> QED
      BY <2>1, <2>2, FS_EmptySet
  <1> QED
    BY <1>1, GateInvariant, PTL
=============================================================================
