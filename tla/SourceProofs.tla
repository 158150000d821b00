---------------------------- MODULE SourceProofs ----------------------------
(***************************************************************************)
(* Lemmas about the rows between watch and case: their types, and that the *)
(* counter is the number of pending rows, for any set of intervals.        *)
(***************************************************************************)
EXTENDS SourceQueue, FiniteSetTheorems, TLAPS

(* The events are finitely many, so every set of them can be counted. *)
LEMMA EventsFinite == IsFiniteSet(Events)
<1>1. IsFiniteSet(Intervals)
  BY SourceAssumption
<1>2. IsFiniteSet(1 .. MaxEventRev)
  BY FS_Interval, SourceAssumption
<1>3. QED
  BY <1>1, <1>2, FS_Product DEF Events

(* A poll's sealing keeps the types of the queue. *)
LEMMA SealType ==
  ASSUME SourceTypeOK, NEW S \in SUBSET Sealable, SealEvents(S)
  PROVE  SourceTypeOK'
<1>1. S \in SUBSET Events
  BY DEF Sealable
<1>2. Cardinality(S) \in Nat
  BY <1>1, EventsFinite, FS_Subset, FS_CardinalityType
<1>3. QED
  BY <1>2 DEF SourceTypeOK, SealEvents

(* So does an acknowledgement. *)
LEMMA AcknowledgeType ==
  ASSUME SourceTypeOK, NEW f, DOMAIN f \subseteq Events,
         \A e \in DOMAIN f : f[e] \in Dispositions, Acknowledge(f)
  PROVE  SourceTypeOK'
<1>1. Cardinality(DOMAIN f) \in Nat
  BY EventsFinite, FS_Subset, FS_CardinalityType
<1>2. QED
  BY <1>1 DEF SourceTypeOK, Acknowledge

(* The rows and the counter after a sealing. *)
LEMMA SealCounts ==
  ASSUME SourceTypeOK, PendingCountExact, NEW S \in SUBSET Sealable, SealEvents(S)
  PROVE  PendingCountExact'
<1>1. Pending' = Pending \cup S
  BY DEF Pending, Sealable, SealEvents, SourceTypeOK
<1>2. Pending \cap S = {}
  BY DEF Pending, Sealable
<1>3. IsFiniteSet(Pending) /\ IsFiniteSet(S)
  BY EventsFinite, FS_Subset DEF Pending, Sealable
<1>4. Cardinality(Pending \cup S) = Cardinality(Pending) + Cardinality(S)
  <2>1. Cardinality(Pending \cup S) =
          Cardinality(Pending) + Cardinality(S) - Cardinality(Pending \cap S)
    BY <1>3, FS_Union
  <2>2. Cardinality(Pending) \in Nat /\ Cardinality(S) \in Nat
    BY <1>3, FS_CardinalityType
  <2>3. QED
    BY <1>2, <2>1, <2>2, FS_EmptySet
<1>5. QED
  BY <1>1, <1>4 DEF PendingCountExact, SealEvents

(* The rows and the counter after an acknowledgement. *)
LEMMA AcknowledgeCounts ==
  ASSUME SourceTypeOK, PendingCountExact, NEW f, DOMAIN f \subseteq Events,
         \A e \in DOMAIN f : f[e] \in Dispositions, Acknowledge(f)
  PROVE  PendingCountExact'
<1>1. Pending' = Pending \ DOMAIN f
  BY DEF Pending, Acknowledge, Dispositions, SourceTypeOK
<1>2. DOMAIN f \subseteq Pending
  BY DEF Pending, Acknowledge
<1>3. IsFiniteSet(Pending) /\ IsFiniteSet(DOMAIN f)
  BY EventsFinite, FS_Subset DEF Pending
<1>4. Cardinality(Pending \ DOMAIN f) = Cardinality(Pending) - Cardinality(DOMAIN f)
  <2>1. Cardinality(Pending \ DOMAIN f) =
          Cardinality(Pending) - Cardinality(Pending \cap DOMAIN f)
    BY <1>3, FS_Difference
  <2>2. Pending \cap DOMAIN f = DOMAIN f
    BY <1>2
  <2>3. QED
    BY <2>1, <2>2
<1>5. QED
  BY <1>1, <1>4 DEF PendingCountExact, Acknowledge
=============================================================================
