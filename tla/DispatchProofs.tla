--------------------------- MODULE DispatchProofs ---------------------------
(***************************************************************************)
(* Proofs about the delivery journal and about selective dispatch, for any *)
(* number of cases, runners, attempts, events and people.  First what each *)
(* operation of the journal does to the types, the ledger and the queue,   *)
(* and from this the safety properties of Delivery, whoever uses it; then  *)
(* the dispatcher: its types, its agreement with the journal and the       *)
(* outbox, its baselines and counters, and the promise it implements.      *)
(***************************************************************************)
EXTENDS Dispatch, LedgerProofs

----------------------------------------------------------------------------
(* The journal *)

LEMMA AttemptRecord ==
  ASSUME JournalTypeOK, NEW a \in Attempts, attempts[a].status \in AttemptStatuses
  PROVE  attempts[a] \in Attempt
BY DEF JournalTypeOK, NoAttempt, AttemptStatuses

(* What the agent is shown of the active plans is well formed. *)
LEMMA SnapshotType ==
  ASSUME LedgerTypeOK, NEW c \in Cases
  PROVE  Snapshot(c) \subseteq ReviewRef
<1>1. \A q \in ActiveOf(c) : q \in Requests /\ reviews[c][q] \in Review
  BY ActiveIsReview
<1>2. QED
  BY <1>1 DEF Snapshot, ReviewRef, Review

LEMMA ReserveType ==
  ASSUME LedgerTypeOK, JournalTypeOK, NEW a \in Attempts, NEW c \in Cases, NEW e \in Events,
         NEW source \in BOOLEAN, NEW t \in Times, ReserveRow(a, c, e, source, t)
  PROVE  JournalTypeOK'
<1> DEFINE row == [status |-> "RESERVED", case |-> c, event |-> e, source |-> source,
                   caseRev |-> caseRev[c], refs |-> Snapshot(c), at |-> t]
<1>1. caseRev[c] \in Nat
  BY DEF LedgerTypeOK
<1>2. Snapshot(c) \in SUBSET ReviewRef
  BY SnapshotType
<1>3. row \in Attempt
  BY <1>1, <1>2 DEF Attempt, AttemptStatuses
<1>4. attempts' \in [Attempts -> Attempt \cup {NoAttempt}]
  BY <1>3 DEF ReserveRow, JournalTypeOK
<1>5. Profile[c] \in Modes
  BY DeliveryAssumption
<1>6. used' \in [Modes -> Nat]
  BY <1>5 DEF ReserveRow, JournalTypeOK
<1>7. QED
  BY <1>4, <1>6 DEF JournalTypeOK

LEMMA SettleType ==
  ASSUME JournalTypeOK, NEW a \in Attempts, NEW status \in AttemptStatuses, NEW t \in Times,
         attempts[a].status \in AttemptStatuses, Settle(a, status, t)
  PROVE  attempts' \in [Attempts -> Attempt \cup {NoAttempt}]
<1>1. attempts[a] \in Attempt
  BY AttemptRecord
<1>2. [attempts[a] EXCEPT !.status = status, !.at = t] \in Attempt
  BY <1>1 DEF Attempt
<1>3. QED
  BY <1>2 DEF Settle, JournalTypeOK

(* What an answer decides per kind. *)
LEMMA DecisionFacts ==
  ASSUME NEW d \in Decisions, NEW k \in Kinds
  PROVE  /\ d[k].what \in {"PROPOSE", "NONE", "CONTINUE"}
         /\ Proposes(d, k) => d[k].due \in Dues
         /\ d[k].what # "NONE" => (Proposes(d, k) \/ Continues(d, k))
<1>1. d[k] \in [what : {"PROPOSE"}, due : Dues] \cup [what : {"NONE", "CONTINUE"}, due : {NoDue}]
  BY DEF Decisions
<1>2. QED
  BY <1>1 DEF Proposes, Continues

(* The decisions of a completed answer, staged on its case, at the expense *)
(* of any number of case revisions.                                        *)
LEMMA StagedFacts ==
  ASSUME LedgerTypeOK, NEW a \in Attempts, attempts[a] \in Attempt, NEW d \in Decisions,
         NEW t \in Times, ValidAnswer(a, d), StageWork(a, d, t),
         NEW n \in Nat \ {0}, Bump(attempts[a].case, n, t)
  PROVE  LedgerTypeOK' /\ Advances(attempts[a].case)
<1> DEFINE c == attempts[a].case
           e == attempts[a].event
           Task(k) == IF Proposes(d, k) THEN <<a, k>> ELSE Target(a, k)
           Linked == {Task(k) : k \in Decided(d)}
           Proposed == {<<a, k>> : k \in {j \in Kinds : Proposes(d, j)}}
           Written == {<<a, k>> : k \in Decided(d)}
<1>1. c \in Cases /\ e \in Events
  BY DEF Attempt
<1>2. \A k \in Kinds : Continues(d, k) =>
        Target(a, k) \in Requests /\ reviews[c][Target(a, k)] \in Review
  <2> SUFFICES ASSUME NEW k \in Kinds, Continues(d, k)
               PROVE  Target(a, k) \in Requests /\ reviews[c][Target(a, k)] \in Review
    OBVIOUS
  <2>1. k \in Decided(d)
    BY DEF Continues, Decided
  <2>2. Target(a, k) \in ActiveOf(c)
    BY <2>1 DEF StageWork, Decided
  <2>3. QED
    BY <1>1, <2>2, ActiveIsReview
<1>3. \A q \in Proposed : /\ q[2] \in Kinds /\ Proposes(d, q[2])
                          /\ Proposal(q[2], d[q[2]].due) \in Review
  <2> SUFFICES ASSUME NEW k \in Kinds, Proposes(d, k)
               PROVE  Proposal(k, d[k].due) \in Review
    OBVIOUS
  <2>1. d[k].due \in Dues
    BY DecisionFacts
  <2>2. QED
    BY <2>1, ProposalType
<1>4. \A q \in Written : q \in Requests /\ q[2] \in Kinds
                         /\ (q \in Proposed \/ Continues(d, q[2]))
  <2> SUFFICES ASSUME NEW k \in Kinds, d[k].what # "NONE"
               PROVE  <<a, k>> \in Requests /\ (<<a, k>> \in Proposed \/ Continues(d, k))
    BY DEF Decided
  <2>1. <<a, k>> \in Requests
    BY DeliveryAssumption
  <2>2. QED
    BY <2>1, DecisionFacts
<1>5. reviews' \in [Cases -> [Requests -> Review \cup {NoReview}]]
  <2>1. reviews' = [reviews EXCEPT ![c] =
          [q \in Requests |-> IF q \in Proposed THEN Proposal(q[2], d[q[2]].due) ELSE @[q]]]
    BY DEF StageWork, Decided
  <2>2. QED
    BY <1>1, <1>3, <2>1 DEF LedgerTypeOK
<1>6. links' \in [Cases -> [Requests -> SUBSET Events]]
  <2>1. links' = [links EXCEPT ![c] =
          [q \in Requests |-> IF q \in Linked THEN @[q] \cup {e} ELSE @[q]]]
    BY DEF StageWork, Decided
  <2>2. QED
    BY <1>1, <2>1 DEF LedgerTypeOK
<1>7. receipts' \in [Cases -> [Requests -> Receipt \cup {NoReceipt}]]
  <2> DEFINE New(q) == IF q \in Proposed
                       THEN ReceiptOf("STAGE", q, Proposal(q[2], d[q[2]].due))
                       ELSE ReceiptOf("LINK", Target(a, q[2]), reviews[c][Target(a, q[2])])
  <2>1. \A q \in Written : New(q) \in Receipt
    BY <1>2, <1>3, <1>4, ReceiptType
  <2>2. receipts' = [receipts EXCEPT ![c] =
          [q \in Requests |-> IF q \in Written THEN New(q) ELSE @[q]]]
    BY DEF StageWork, Decided
  <2> HIDE DEF New
  <2>3. QED
    BY <1>1, <2>1, <2>2 DEF LedgerTypeOK
<1>8. /\ caseRev' \in [Cases -> Nat]
      /\ caseTime' \in [Cases -> Times]
      /\ caseRev'[c] > caseRev[c]
      /\ \A x \in Cases \ {c} : caseRev'[x] = caseRev[x]
  BY <1>1, BumpFacts
<1>9. \A x \in Cases \ {c} : reviews'[x] = reviews[x]
  BY <1>1 DEF LedgerTypeOK, StageWork, Decided
<1>10. QED
  BY <1>5, <1>6, <1>7, <1>8, <1>9 DEF LedgerTypeOK, Advances

----------------------------------------------------------------------------
(* Steps of the journal, as every client of it takes them *)

(* No case's plans change while its revision stands still. *)
LedgerMoves ==
  \A c \in Cases :
    caseRev'[c] > caseRev[c] \/ (caseRev'[c] = caseRev[c] /\ reviews'[c] = reviews[c])

(* An answer is applied: what _commit does on an unchanged case, whatever  *)
(* else is saved on the case in the same transaction.                      *)
Applies(a, d, t) ==
  /\ attempts[a].status = "RESERVED"
  /\ ValidAnswer(a, d)
  /\ StageWork(a, d, t)
  /\ \E n \in Nat \ {0} : Bump(attempts[a].case, n, t)
  /\ IF Acknowledges(a)
     THEN Acknowledge([e \in {attempts[a].event} |-> "DONE"])
     ELSE UNCHANGED sourceVars
  /\ Settle(a, "COMMITTED", t)
  /\ UNCHANGED used

LEMMA CompleteApplies ==
  ASSUME NEW a, NEW d \in Decisions, NEW t, Complete(a, d, t)
  PROVE  Applies(a, d, t)
<1>1. Cardinality(Decided(d)) \in Nat
  BY LedgerAssumption, FS_Subset, FS_CardinalityType DEF Decided
<1>2. Cardinality(Decided(d)) + 1 \in Nat \ {0}
  BY <1>1
<1>3. Bump(attempts[a].case, Cardinality(Decided(d)) + 1, t) /\ StageWork(a, d, t)
  BY DEF Complete, StageDecisions
<1>4. QED
  BY <1>2, <1>3 DEF Complete, Applies

LEMMA AppliesFacts ==
  ASSUME DeliveryTypeOK, NEW a \in Attempts, NEW d \in Decisions, NEW t \in Times,
         Applies(a, d, t)
  PROVE  DeliveryTypeOK' /\ LedgerMoves
<1>1. attempts[a].status \in AttemptStatuses
  BY DEF Applies, AttemptStatuses
<1>2. attempts[a] \in Attempt
  BY <1>1, AttemptRecord DEF DeliveryTypeOK
<1>3. LedgerTypeOK' /\ Advances(attempts[a].case)
  BY <1>2, StagedFacts DEF Applies, DeliveryTypeOK
<1>4. attempts' \in [Attempts -> Attempt \cup {NoAttempt}]
  BY <1>1, SettleType DEF Applies, DeliveryTypeOK, AttemptStatuses
<1>5. JournalTypeOK'
  BY <1>4 DEF JournalTypeOK, DeliveryTypeOK, Applies
<1>6. SourceTypeOK'
  <2>1. CASE Acknowledges(a)
    <3> DEFINE f == [e \in {attempts[a].event} |-> "DONE"]
    <3>1. Acknowledge(f)
      BY <2>1 DEF Applies
    <3>2. DOMAIN f \subseteq Events /\ \A e \in DOMAIN f : f[e] \in Dispositions
      BY <1>2 DEF Attempt, Dispositions
    <3> HIDE DEF f
    <3>3. QED
      BY <3>1, <3>2, AcknowledgeType DEF DeliveryTypeOK
  <2>2. CASE ~Acknowledges(a)
    BY <2>2 DEF Applies, DeliveryTypeOK, SourceTypeOK, sourceVars
  <2>3. QED
    BY <2>1, <2>2
<1>7. LedgerMoves
  BY <1>2, <1>3 DEF Advances, LedgerMoves, Attempt
<1>8. QED
  BY <1>3, <1>5, <1>6, <1>7 DEF DeliveryTypeOK

(* Settling without applying anything: stale, failed and abandoned. *)
LEMMA ReleaseFacts ==
  ASSUME DeliveryTypeOK, NEW a \in Attempts, NEW t \in Times,
         NEW status \in AttemptStatuses, attempts[a].status \in Held,
         Settle(a, status, t), UNCHANGED <<used, sourceVars, ledgerVars>>
  PROVE  DeliveryTypeOK' /\ LedgerMoves
<1>1. attempts[a].status \in AttemptStatuses
  BY DEF Held, AttemptStatuses
<1>2. attempts' \in [Attempts -> Attempt \cup {NoAttempt}]
  BY <1>1, SettleType DEF DeliveryTypeOK
<1>3. LedgerTypeOK' /\ SourceTypeOK'
  BY DEF DeliveryTypeOK, LedgerTypeOK, SourceTypeOK, ledgerVars, sourceVars
<1>4. LedgerMoves
  BY DEF LedgerMoves, ledgerVars
<1>5. QED
  BY <1>2, <1>3, <1>4 DEF DeliveryTypeOK, JournalTypeOK

(* Every way to release is a settlement of an unresolved attempt. *)
Releasing(a, t) ==
  \E status \in {"STALE", "FAILED", "ABANDONED"} :
    /\ attempts[a].status \in Held
    /\ Settle(a, status, t)
    /\ UNCHANGED <<used, sourceVars, ledgerVars>>

LEMMA Releases ==
  ASSUME NEW a, NEW d, NEW t, KeepStale(a, d, t) \/ Fail(a, t) \/ Abandon(a, t)
  PROVE  Releasing(a, t)
BY DEF KeepStale, Fail, Abandon, Held, Releasing

(* An operation of the ledger leaves the rest of the database alone. *)
LEMMA LedgerOperation ==
  ASSUME DeliveryTypeOK, NEW c \in Cases, LedgerTypeOK', Advances(c),
         UNCHANGED <<sourceVars, journalVars>>
  PROVE  DeliveryTypeOK' /\ LedgerMoves
BY DEF DeliveryTypeOK, SourceTypeOK, JournalTypeOK, sourceVars, journalVars, Advances, LedgerMoves

LEMMA PersonFacts ==
  ASSUME DeliveryTypeOK, NEW q \in Requests, NEW t \in Times, PersonActs(q, t)
  PROVE  DeliveryTypeOK' /\ LedgerMoves /\ UNCHANGED <<sourceVars, journalVars>>
<1>1. PICK c \in Cases, action \in HumanActions, due \in Dues :
        \E task \in ActiveOf(c) :
          /\ Act(c, q, task, reviews[c][task].rev, action, due, t)
          /\ UNCHANGED <<sourceVars, journalVars>>
  BY DEF PersonActs
<1>2. PICK task \in ActiveOf(c) :
        /\ Act(c, q, task, reviews[c][task].rev, action, due, t)
        /\ UNCHANGED <<sourceVars, journalVars>>
  BY <1>1
<1>3. LedgerTypeOK' /\ Advances(c)
  BY <1>2, ActFacts DEF DeliveryTypeOK
<1>4. QED
  BY <1>2, <1>3, LedgerOperation

LEMMA ScriptFacts ==
  ASSUME DeliveryTypeOK, NEW q \in Requests, NEW t \in Times, ScriptWrites(q, t)
  PROVE  DeliveryTypeOK' /\ LedgerMoves /\ UNCHANGED <<sourceVars, journalVars>>
<1>1. UNCHANGED <<sourceVars, journalVars>>
  BY DEF ScriptWrites
<1>2. PICK c \in Cases, e \in Sealed :
        \/ \E k \in Kinds, due \in Dues : StageReview(c, q, caseRev[c], k, e, due, t)
        \/ \E task \in ActiveOf(c) : LinkEvidence(c, q, caseRev[c], task, e, t)
  BY DEF ScriptWrites
<1>3. LedgerTypeOK' /\ Advances(c)
  <2>1. CASE \E k \in Kinds, due \in Dues : StageReview(c, q, caseRev[c], k, e, due, t)
    BY <2>1, StageFacts DEF DeliveryTypeOK
  <2>2. CASE \E task \in ActiveOf(c) : LinkEvidence(c, q, caseRev[c], task, e, t)
    BY <2>2, LinkFacts DEF DeliveryTypeOK
  <2>3. QED
    BY <1>2, <2>1, <2>2
<1>4. QED
  BY <1>1, <1>3, LedgerOperation

LEMMA SealFacts ==
  ASSUME DeliveryTypeOK, NEW S \in SUBSET Sealable, SealEvents(S),
         UNCHANGED <<ledgerVars, journalVars>>
  PROVE  DeliveryTypeOK' /\ LedgerMoves
<1>1. SourceTypeOK'
  BY SealType DEF DeliveryTypeOK
<1>2. QED
  BY <1>1 DEF DeliveryTypeOK, LedgerTypeOK, JournalTypeOK, ledgerVars, journalVars, LedgerMoves

LEMMA ReserveFacts ==
  ASSUME DeliveryTypeOK, NEW a \in Attempts, NEW c \in Cases, NEW e \in Events,
         NEW source \in BOOLEAN, NEW t \in Times, Reserve(a, c, e, source, t)
  PROVE  DeliveryTypeOK' /\ LedgerMoves
<1>1. JournalTypeOK'
  BY ReserveType DEF Reserve, DeliveryTypeOK
<1>2. QED
  BY <1>1
     DEF Reserve, DeliveryTypeOK, LedgerTypeOK, SourceTypeOK, ledgerVars, sourceVars, LedgerMoves

(* Every reachable state of the journal and the ledger is well formed.     *)
(* Initially: *)
LEMMA InitType == DeliveryInit => DeliveryTypeOK
<1> SUFFICES ASSUME DeliveryInit PROVE DeliveryTypeOK
  OBVIOUS
<1>1. SourceTypeOK
  BY DEF DeliveryInit, SourceInit, SourceTypeOK
<1>2. LedgerTypeOK
  BY LedgerAssumption DEF DeliveryInit, LedgerInit, LedgerTypeOK, Times
<1>3. JournalTypeOK
  BY DEF DeliveryInit, JournalInit, JournalTypeOK
<1>4. QED
  BY <1>1, <1>2, <1>3 DEF DeliveryTypeOK

(* And after every step, which also moves revisions only forward. *)
LEMMA StepType ==
  ASSUME DeliveryTypeOK, [DeliveryNext]_deliveryVars
  PROVE  DeliveryTypeOK' /\ LedgerMoves
<1>1. ASSUME NEW S \in SUBSET Sealable, SealEvents(S), UNCHANGED <<ledgerVars, journalVars>>
      PROVE  DeliveryTypeOK' /\ LedgerMoves
  BY <1>1, SealFacts
<1>2. ASSUME NEW q \in Requests, NEW t \in Times, PersonActs(q, t)
      PROVE  DeliveryTypeOK' /\ LedgerMoves
  BY <1>2, PersonFacts
<1>3. ASSUME NEW q \in Requests, NEW t \in Times, ScriptWrites(q, t)
      PROVE  DeliveryTypeOK' /\ LedgerMoves
  BY <1>3, ScriptFacts
<1>4. ASSUME NEW a \in Attempts, NEW t \in Times, NEW c \in Cases, NEW e \in Events,
             NEW source \in BOOLEAN, Reserve(a, c, e, source, t)
      PROVE  DeliveryTypeOK' /\ LedgerMoves
  BY <1>4, ReserveFacts
<1>5. ASSUME NEW a \in Attempts, NEW t \in Times, NEW d \in Decisions, KeepStale(a, d, t)
      PROVE  DeliveryTypeOK' /\ LedgerMoves
  <2>1. PICK status \in {"STALE", "FAILED", "ABANDONED"} :
          /\ attempts[a].status \in Held
          /\ Settle(a, status, t)
          /\ UNCHANGED <<used, sourceVars, ledgerVars>>
    BY <1>5, Releases DEF Releasing
  <2>2. QED
    BY <2>1, ReleaseFacts DEF AttemptStatuses
<1>6. ASSUME NEW a \in Attempts, NEW t \in Times, NEW d \in Decisions, Complete(a, d, t)
      PROVE  DeliveryTypeOK' /\ LedgerMoves
  BY <1>6, CompleteApplies, AppliesFacts
<1>7. ASSUME NEW a \in Attempts, NEW t \in Times, Fail(a, t) \/ Abandon(a, t)
      PROVE  DeliveryTypeOK' /\ LedgerMoves
  <2>1. PICK status \in {"STALE", "FAILED", "ABANDONED"} :
          /\ attempts[a].status \in Held
          /\ Settle(a, status, t)
          /\ UNCHANGED <<used, sourceVars, ledgerVars>>
    BY <1>7, Releases DEF Releasing
  <2>2. QED
    BY <2>1, ReleaseFacts DEF AttemptStatuses
<1>8. CASE UNCHANGED deliveryVars
  BY <1>8 DEF deliveryVars, sourceVars, ledgerVars, journalVars, DeliveryTypeOK, SourceTypeOK,
              LedgerTypeOK, JournalTypeOK, LedgerMoves
<1>9. QED
  BY <1>1, <1>2, <1>3, <1>4, <1>5, <1>6, <1>7, <1>8 DEF DeliveryNext

THEOREM DeliveryTypes == DeliverySpec => []DeliveryTypeOK
<1>1. DeliveryInit => DeliveryTypeOK
  BY InitType
<1>2. DeliveryTypeOK /\ [DeliveryNext]_deliveryVars => DeliveryTypeOK'
  BY StepType
<1>3. QED
  BY <1>1, <1>2, PTL DEF DeliverySpec

----------------------------------------------------------------------------
(* One unresolved invocation per case                                      *)

LEMMA UnresolvedReserve ==
  ASSUME JournalTypeOK, OneUnresolved, NEW a \in Attempts, NEW c \in Cases, NEW e \in Events,
         NEW source, NEW t, ReserveRow(a, c, e, source, t)
  PROVE  OneUnresolved'
<1> SUFFICES ASSUME NEW x \in Attempts, NEW y \in Attempts, x # y,
                    attempts'[x].status \in Held, attempts'[y].status \in Held
             PROVE  attempts'[x].case # attempts'[y].case
  BY DEF OneUnresolved, Held
<1>1. attempts'[a].case = c /\ \A z \in Attempts \ {a} : attempts'[z] = attempts[z]
  BY DEF ReserveRow, JournalTypeOK
<1>2. \A z \in Attempts : attempts[z].status \in Held => attempts[z].case # c
  BY DEF ReserveRow, HeldOf, AttemptsOf
<1>3. CASE x = a
  BY <1>1, <1>2, <1>3
<1>4. CASE y = a
  BY <1>1, <1>2, <1>4
<1>5. CASE x # a /\ y # a
  BY <1>1, <1>5 DEF OneUnresolved, Held
<1>6. QED
  BY <1>3, <1>4, <1>5

LEMMA UnresolvedSettle ==
  ASSUME JournalTypeOK, OneUnresolved, NEW a \in Attempts, NEW status, NEW t,
         attempts[a].status \in Held, Settle(a, status, t)
  PROVE  OneUnresolved'
<1>1. attempts[a] \in Attempt
  BY AttemptRecord DEF Held, AttemptStatuses
<1>2. \A z \in Attempts : /\ attempts'[z].case = attempts[z].case
                          /\ attempts'[z].status \in Held => attempts[z].status \in Held
  BY <1>1 DEF Settle, JournalTypeOK, Attempt
<1>3. QED
  BY <1>2 DEF OneUnresolved, Held

(* A case has at most one unresolved invocation, in every reachable state, *)
(* for any number of cases, attempts and clients.                          *)
THEOREM OneUnresolvedHolds == DeliverySpec => []OneUnresolved
<1>1. DeliveryInit => OneUnresolved
  BY DEF DeliveryInit, JournalInit, NoAttempt, OneUnresolved
<1>2. DeliveryTypeOK /\ OneUnresolved /\ [DeliveryNext]_deliveryVars => OneUnresolved'
  <2> SUFFICES ASSUME DeliveryTypeOK, OneUnresolved, [DeliveryNext]_deliveryVars
               PROVE  OneUnresolved'
    OBVIOUS
  <2> USE DEF DeliveryTypeOK
  <2>1. CASE attempts' = attempts
    BY <2>1 DEF OneUnresolved
  <2>2. ASSUME NEW a \in Attempts, NEW t \in Times, NEW c \in Cases, NEW e \in Events,
               NEW source \in BOOLEAN, Reserve(a, c, e, source, t)
        PROVE  OneUnresolved'
    BY <2>2, UnresolvedReserve DEF Reserve
  <2>3. ASSUME NEW a \in Attempts, NEW t \in Times, NEW d,
               KeepStale(a, d, t) \/ Fail(a, t) \/ Abandon(a, t)
        PROVE  OneUnresolved'
    BY <2>3, Releases, UnresolvedSettle DEF Releasing
  <2>4. ASSUME NEW a \in Attempts, NEW t \in Times, NEW d \in Decisions, Complete(a, d, t)
        PROVE  OneUnresolved'
    BY <2>4, UnresolvedSettle DEF Complete, Held
  <2>5. QED
    BY <2>1, <2>2, <2>3, <2>4
    DEF DeliveryNext, deliveryVars, journalVars, PersonActs, ScriptWrites
<1>3. QED
  BY <1>1, <1>2, DeliveryTypes, PTL DEF DeliverySpec

----------------------------------------------------------------------------
(* The snapshot an invocation reserved                                     *)

LEMMA SnapshotReserve ==
  ASSUME DeliveryTypeOK, SnapshotCurrent, NEW a \in Attempts, NEW c \in Cases, NEW e \in Events,
         NEW source, NEW t, ReserveRow(a, c, e, source, t), UNCHANGED ledgerVars
  PROVE  SnapshotCurrent'
<1>1. /\ attempts'[a].case = c /\ attempts'[a].caseRev = caseRev[c]
      /\ attempts'[a].refs = Snapshot(c)
      /\ \A z \in Attempts \ {a} : attempts'[z] = attempts[z]
  BY DEF ReserveRow, JournalTypeOK, DeliveryTypeOK
<1>2. \A x : Snapshot(x)' = Snapshot(x)
  BY DEF Snapshot, ActiveOf, ledgerVars
<1>3. caseRev' = caseRev /\ caseRev[c] \in Nat
  BY DEF ledgerVars, DeliveryTypeOK, LedgerTypeOK
<1>4. QED
  BY <1>1, <1>2, <1>3 DEF SnapshotCurrent

(* Every other step only moves revisions forward and settles attempts. *)
LEMMA SnapshotMoves ==
  ASSUME DeliveryTypeOK, DeliveryTypeOK', SnapshotCurrent, LedgerMoves,
         \A a \in Attempts : attempts'[a].status = "RESERVED" => attempts'[a] = attempts[a]
  PROVE  SnapshotCurrent'
<1> SUFFICES ASSUME NEW a \in Attempts, attempts'[a].status = "RESERVED"
             PROVE  LET c == attempts[a].case
                    IN /\ attempts[a].caseRev <= caseRev'[c]
                       /\ attempts[a].caseRev = caseRev'[c] => attempts[a].refs = Snapshot(c)'
  BY DEF SnapshotCurrent
<1> DEFINE c == attempts[a].case
<1>1. attempts[a].status = "RESERVED"
  OBVIOUS
<1>2. c \in Cases /\ attempts[a].caseRev \in Nat
  BY <1>1, AttemptRecord DEF AttemptStatuses, Attempt, DeliveryTypeOK
<1>3. caseRev[c] \in Nat /\ caseRev'[c] \in Nat
  BY <1>2 DEF DeliveryTypeOK, LedgerTypeOK
<1>4. /\ attempts[a].caseRev <= caseRev[c]
      /\ attempts[a].caseRev = caseRev[c] => attempts[a].refs = Snapshot(c)
  BY <1>1 DEF SnapshotCurrent
<1>5. CASE caseRev'[c] > caseRev[c]
  BY <1>2, <1>3, <1>4, <1>5
<1>6. CASE caseRev'[c] = caseRev[c] /\ reviews'[c] = reviews[c]
  <2>1. Snapshot(c)' = Snapshot(c)
    BY <1>6 DEF Snapshot, ActiveOf
  <2>2. QED
    BY <1>4, <1>6, <2>1
<1>7. QED
  BY <1>2, <1>5, <1>6 DEF LedgerMoves

LEMMA SettledNotReserved ==
  ASSUME JournalTypeOK, NEW a \in Attempts, attempts[a].status \in Held, NEW t,
         NEW status \in {"STALE", "FAILED", "ABANDONED", "COMMITTED"}, Settle(a, status, t)
  PROVE  \A x \in Attempts : attempts'[x].status = "RESERVED" => attempts'[x] = attempts[x]
<1>1. attempts[a] \in Attempt
  BY AttemptRecord DEF Held, AttemptStatuses
<1>2. QED
  BY <1>1 DEF Settle, JournalTypeOK, Attempt

(* While the case revision equals the one an invocation reserved, the      *)
(* plans are those the agent was shown: applying its answer on an          *)
(* unchanged revision never overwrites a person's change.                  *)
THEOREM SnapshotCurrentHolds == DeliverySpec => []SnapshotCurrent
<1>1. DeliveryInit => SnapshotCurrent
  BY DEF DeliveryInit, JournalInit, NoAttempt, SnapshotCurrent
<1>2. DeliveryTypeOK /\ SnapshotCurrent /\ [DeliveryNext]_deliveryVars => SnapshotCurrent'
  <2> SUFFICES ASSUME DeliveryTypeOK, SnapshotCurrent, [DeliveryNext]_deliveryVars
               PROVE  SnapshotCurrent'
    OBVIOUS
  <2>1. DeliveryTypeOK' /\ LedgerMoves
    BY StepType
  <2>2. CASE attempts' = attempts
    BY <2>1, <2>2, SnapshotMoves
  <2>3. ASSUME NEW a \in Attempts, NEW t \in Times, NEW c \in Cases, NEW e \in Events,
               NEW source \in BOOLEAN, Reserve(a, c, e, source, t)
        PROVE  SnapshotCurrent'
    BY <2>3, SnapshotReserve DEF Reserve
  <2>4. ASSUME NEW a \in Attempts, NEW t \in Times, NEW d,
               KeepStale(a, d, t) \/ Fail(a, t) \/ Abandon(a, t)
        PROVE  SnapshotCurrent'
    <3>1. PICK status \in {"STALE", "FAILED", "ABANDONED"} :
            attempts[a].status \in Held /\ Settle(a, status, t)
      BY <2>4, Releases DEF Releasing
    <3>2. \A x \in Attempts : attempts'[x].status = "RESERVED" => attempts'[x] = attempts[x]
      BY <3>1, SettledNotReserved DEF DeliveryTypeOK
    <3>3. QED
      BY <2>1, <3>2, SnapshotMoves
  <2>5. ASSUME NEW a \in Attempts, NEW t \in Times, NEW d \in Decisions, Complete(a, d, t)
        PROVE  SnapshotCurrent'
    <3>1. \A x \in Attempts : attempts'[x].status = "RESERVED" => attempts'[x] = attempts[x]
      BY <2>5, SettledNotReserved DEF Complete, Held, DeliveryTypeOK
    <3>2. QED
      BY <2>1, <3>1, SnapshotMoves
  <2>6. QED
    BY <2>2, <2>3, <2>4, <2>5
    DEF DeliveryNext, deliveryVars, journalVars, PersonActs, ScriptWrites
<1>3. QED
  BY <1>1, <1>2, DeliveryTypes, PTL DEF DeliverySpec

----------------------------------------------------------------------------
(* The allowance                                                           *)

(* The attempts ever reserved in a mode. *)
Invoked(m) == {a \in Attempts : attempts[a] # NoAttempt /\ Profile[attempts[a].case] = m}

LEMMA InvokedFinite == \A m : IsFiniteSet(Invoked(m)) /\ Cardinality(Invoked(m)) \in Nat
BY DeliveryAssumption, FS_Subset, FS_CardinalityType DEF Invoked

LEMMA AllowanceReserve ==
  ASSUME JournalTypeOK, AllowanceExact, NEW a \in Attempts, NEW c \in Cases, NEW e \in Events,
         NEW source, NEW t, ReserveRow(a, c, e, source, t)
  PROVE  AllowanceExact'
<1> DEFINE p == Profile[c]
<1>1. /\ attempts[a] = NoAttempt
      /\ attempts'[a].case = c /\ attempts'[a].status = "RESERVED"
      /\ \A z \in Attempts \ {a} : attempts'[z] = attempts[z]
  BY DEF ReserveRow, JournalTypeOK
<1>2. attempts'[a] # NoAttempt
  BY <1>1 DEF NoAttempt
<1>3. Invoked(p)' = Invoked(p) \cup {a} /\ a \notin Invoked(p)
  BY <1>1, <1>2 DEF Invoked
<1>4. \A m \in Modes \ {p} : Invoked(m)' = Invoked(m)
  BY <1>1, <1>2 DEF Invoked
<1>5. Cardinality(Invoked(p)') = Cardinality(Invoked(p)) + 1
  BY <1>3, InvokedFinite, FS_AddElement
<1>6. p \in Modes /\ used[p] < Limit[p] /\ used' = [used EXCEPT ![p] = @ + 1]
  BY DeliveryAssumption DEF ReserveRow
<1>7. \A m \in Modes : used[m] \in Nat /\ Limit[m] \in Nat
  BY DeliveryAssumption DEF JournalTypeOK
<1>8. \A m \in Modes : used[m] = Cardinality(Invoked(m)) /\ used[m] <= Limit[m]
  BY DEF AllowanceExact, Invoked
<1>9. used'[p] = Cardinality(Invoked(p)') /\ used'[p] <= Limit[p]
  BY <1>5, <1>6, <1>7, <1>8 DEF JournalTypeOK
<1>10. \A m \in Modes \ {p} : used'[m] = Cardinality(Invoked(m)') /\ used'[m] <= Limit[m]
  BY <1>4, <1>6, <1>8 DEF JournalTypeOK
<1>11. QED
  BY <1>9, <1>10 DEF AllowanceExact, Invoked

LEMMA AllowanceSettle ==
  ASSUME JournalTypeOK, AllowanceExact, NEW a \in Attempts, NEW status, NEW t,
         status # "NONE", attempts[a].status \in Held, Settle(a, status, t), used' = used
  PROVE  AllowanceExact'
<1>1. attempts[a] \in Attempt
  BY AttemptRecord DEF Held, AttemptStatuses
<1>2. /\ attempts[a] # NoAttempt /\ attempts'[a] # NoAttempt
      /\ attempts'[a].case = attempts[a].case
      /\ \A z \in Attempts \ {a} : attempts'[z] = attempts[z]
  <2>1. attempts[a].status # "NONE"
    BY DEF Held
  <2>2. /\ attempts'[a].status = status /\ attempts'[a].case = attempts[a].case
        /\ \A z \in Attempts \ {a} : attempts'[z] = attempts[z]
    BY <1>1 DEF Settle, JournalTypeOK, Attempt
  <2>3. NoAttempt.status = "NONE"
    BY DEF NoAttempt
  <2>4. QED
    BY <2>1, <2>2, <2>3
<1>3. \A m : Invoked(m)' = Invoked(m)
  BY <1>2 DEF Invoked
<1>4. QED
  BY <1>3 DEF AllowanceExact, Invoked

(* The counter of every mode is the number of invocations ever reserved in *)
(* it and never exceeds the installed limit: no failure, abandonment or    *)
(* completion gives one back, whatever the number of cases sharing it.     *)
THEOREM AllowanceExactHolds == DeliverySpec => []AllowanceExact
<1>1. DeliveryInit => AllowanceExact
  <2> SUFFICES ASSUME DeliveryInit, NEW m \in Modes
               PROVE  used[m] = Cardinality(Invoked(m)) /\ used[m] <= Limit[m]
    BY DEF AllowanceExact, Invoked
  <2>1. Invoked(m) = {}
    BY DEF DeliveryInit, JournalInit, Invoked
  <2>2. QED
    BY <2>1, FS_EmptySet, DeliveryAssumption DEF DeliveryInit, JournalInit
<1>2. DeliveryTypeOK /\ AllowanceExact /\ [DeliveryNext]_deliveryVars => AllowanceExact'
  <2> SUFFICES ASSUME DeliveryTypeOK, AllowanceExact, [DeliveryNext]_deliveryVars
               PROVE  AllowanceExact'
    OBVIOUS
  <2> USE DEF DeliveryTypeOK
  <2>1. CASE UNCHANGED journalVars
    BY <2>1 DEF AllowanceExact, journalVars
  <2>2. ASSUME NEW a \in Attempts, NEW t \in Times, NEW c \in Cases, NEW e \in Events,
               NEW source \in BOOLEAN, Reserve(a, c, e, source, t)
        PROVE  AllowanceExact'
    BY <2>2, AllowanceReserve DEF Reserve
  <2>3. ASSUME NEW a \in Attempts, NEW t \in Times, NEW d,
               KeepStale(a, d, t) \/ Fail(a, t) \/ Abandon(a, t)
        PROVE  AllowanceExact'
    BY <2>3, Releases, AllowanceSettle DEF Releasing
  <2>4. ASSUME NEW a \in Attempts, NEW t \in Times, NEW d \in Decisions, Complete(a, d, t)
        PROVE  AllowanceExact'
    BY <2>4, AllowanceSettle DEF Complete, Held
  <2>5. QED
    BY <2>1, <2>2, <2>3, <2>4
    DEF DeliveryNext, deliveryVars, PersonActs, ScriptWrites
<1>3. QED
  BY <1>1, <1>2, DeliveryTypes, PTL DEF DeliverySpec

----------------------------------------------------------------------------
(* Source events are acknowledged once                                     *)

(* The source invocations that committed for an event. *)
Answering(e) == {a \in Committed(Canonical) : attempts[a].source /\ attempts[a].event = e}

(* Only the canonical case reserves source invocations. *)
SourceIsCanonical == \A a \in Attempts : attempts[a].source => attempts[a].case = Canonical

AcknowledgedInv == SourceIsCanonical /\ SourceAcknowledgedOnce

LEMMA AnsweringFinite == \A e : IsFiniteSet(Answering(e))
BY DeliveryAssumption, FS_Subset DEF Answering, Committed, AttemptsOf

LEMMA CanonicalReserve ==
  ASSUME JournalTypeOK, SourceIsCanonical, NEW a \in Attempts, NEW c, NEW e, NEW source, NEW t,
         ReserveRow(a, c, e, source, t)
  PROVE  /\ SourceIsCanonical'
         /\ \A x : Answering(x)' = Answering(x)
<1>1. /\ attempts'[a].case = c /\ attempts'[a].status = "RESERVED" /\ attempts'[a].source = source
      /\ \A z \in Attempts \ {a} : attempts'[z] = attempts[z]
      /\ source => c = Canonical
      /\ attempts[a].status # "COMMITTED"
  BY DEF ReserveRow, JournalTypeOK, NoAttempt
<1>2. SourceIsCanonical'
  BY <1>1 DEF SourceIsCanonical
<1>3. \A x : Answering(x)' = Answering(x)
  BY <1>1 DEF Answering, Committed, AttemptsOf
<1>4. QED
  BY <1>2, <1>3

LEMMA CanonicalSettle ==
  ASSUME JournalTypeOK, SourceIsCanonical, NEW a \in Attempts, NEW status, NEW t,
         attempts[a].status \in Held, Settle(a, status, t)
  PROVE  /\ SourceIsCanonical'
         /\ \A z \in Attempts : /\ attempts'[z].case = attempts[z].case
                                /\ attempts'[z].source = attempts[z].source
                                /\ attempts'[z].event = attempts[z].event
                                /\ attempts'[z].status = (IF z = a THEN status ELSE attempts[z].status)
<1>1. attempts[a] \in Attempt
  BY AttemptRecord DEF Held, AttemptStatuses
<1>2. \A z \in Attempts : /\ attempts'[z].case = attempts[z].case
                          /\ attempts'[z].source = attempts[z].source
                          /\ attempts'[z].event = attempts[z].event
                          /\ attempts'[z].status = (IF z = a THEN status ELSE attempts[z].status)
  BY <1>1 DEF Settle, JournalTypeOK, Attempt
<1>3. QED
  BY <1>2 DEF SourceIsCanonical

(* A step that keeps the journal's answers and disposes of nothing. *)
LEMMA AnswersKept ==
  ASSUME SourceAcknowledgedOnce, \A e : Answering(e)' = Answering(e),
         \A e \in Events : outbox'[e] = "DONE" <=> outbox[e] = "DONE"
  PROVE  SourceAcknowledgedOnce'
BY DEF SourceAcknowledgedOnce, Answering

LEMMA AcknowledgedComplete ==
  ASSUME DeliveryTypeOK, AcknowledgedInv, NEW a \in Attempts, NEW d \in Decisions, NEW t \in Times,
         Complete(a, d, t)
  PROVE  AcknowledgedInv'
<1>0. PICK f : f = attempts[a].event
  OBVIOUS
<1>1. attempts[a].status = "RESERVED" /\ attempts[a] \in Attempt
  BY AttemptRecord DEF Complete, AttemptStatuses, DeliveryTypeOK
<1>2. /\ SourceIsCanonical'
      /\ \A z \in Attempts : /\ attempts'[z].case = attempts[z].case
                             /\ attempts'[z].source = attempts[z].source
                             /\ attempts'[z].event = attempts[z].event
                             /\ attempts'[z].status = (IF z = a THEN "COMMITTED" ELSE attempts[z].status)
  BY <1>1, CanonicalSettle DEF Complete, Held, AcknowledgedInv, DeliveryTypeOK
<1>3. CASE attempts[a].source
  <2>1. attempts[a].case = Canonical /\ f \in Events
    BY <1>0, <1>1, <1>3 DEF AcknowledgedInv, SourceIsCanonical, Attempt
  <2>2. Acknowledge([e \in {f} |-> "DONE"])
    BY <1>0, <1>3 DEF Complete, Acknowledges
  <2>3. outbox[f] = "PENDING" /\ outbox' = [e \in Events |-> IF e \in {f} THEN "DONE" ELSE outbox[e]]
    BY <2>2 DEF Acknowledge
  <2>4. Answering(f)' = Answering(f) \cup {a} /\ a \notin Answering(f)
    BY <1>0, <1>1, <1>2, <1>3, <2>1 DEF Answering, Committed, AttemptsOf
  <2>5. Cardinality(Answering(f)) = 0
    BY <2>1, <2>3 DEF AcknowledgedInv, SourceAcknowledgedOnce, Answering
  <2>6. Cardinality(Answering(f)') = 1
    BY <2>4, <2>5, AnsweringFinite, FS_AddElement
  <2>7. \A e \in Events \ {f} : Answering(e)' = Answering(e)
    BY <1>0, <1>1, <1>2 DEF Answering, Committed, AttemptsOf
  <2>8. \A e \in Events : Cardinality(Answering(e)') = (IF outbox'[e] = "DONE" THEN 1 ELSE 0)
    BY <2>1, <2>3, <2>6, <2>7 DEF AcknowledgedInv, SourceAcknowledgedOnce, Answering
  <2>9. QED
    BY <1>2, <2>8 DEF AcknowledgedInv, SourceAcknowledgedOnce, Answering
<1>4. CASE ~attempts[a].source
  <2>1. outbox' = outbox
    BY <1>4 DEF Complete, Acknowledges, sourceVars
  <2>2. \A e : Answering(e)' = Answering(e)
    BY <1>1, <1>2, <1>4 DEF Answering, Committed, AttemptsOf
  <2>3. QED
    BY <1>2, <2>1, <2>2, AnswersKept DEF AcknowledgedInv
<1>5. QED
  BY <1>3, <1>4

(* An event is DONE exactly when one source invocation of the canonical    *)
(* case committed for it: crashes, stale answers and other cases' work     *)
(* never acknowledge it, and nothing acknowledges it twice.                *)
THEOREM SourceAcknowledgedOnceHolds == DeliverySpec => []SourceAcknowledgedOnce
<1>1. DeliveryInit => AcknowledgedInv
  <2> SUFFICES ASSUME DeliveryInit PROVE AcknowledgedInv
    OBVIOUS
  <2>1. SourceIsCanonical
    BY DEF DeliveryInit, JournalInit, NoAttempt, SourceIsCanonical
  <2>2. \A e : Answering(e) = {}
    BY DEF DeliveryInit, JournalInit, NoAttempt, Answering, Committed, AttemptsOf
  <2>3. QED
    BY <2>1, <2>2, FS_EmptySet
    DEF DeliveryInit, SourceInit, AcknowledgedInv, SourceAcknowledgedOnce, Answering
<1>2. DeliveryTypeOK /\ AcknowledgedInv /\ [DeliveryNext]_deliveryVars => AcknowledgedInv'
  <2> SUFFICES ASSUME DeliveryTypeOK, AcknowledgedInv, [DeliveryNext]_deliveryVars
               PROVE  AcknowledgedInv'
    OBVIOUS
  <2>1. CASE UNCHANGED <<sourceVars, journalVars>>
    BY <2>1 DEF AcknowledgedInv, SourceIsCanonical, SourceAcknowledgedOnce, Committed, AttemptsOf,
                sourceVars, journalVars
  <2>2. ASSUME NEW S \in SUBSET Sealable, SealEvents(S), UNCHANGED journalVars
        PROVE  AcknowledgedInv'
    <3>1. \A e \in Events : outbox'[e] = "DONE" <=> outbox[e] = "DONE"
      BY <2>2 DEF SealEvents, Sealable
    <3>2. \A e : Answering(e)' = Answering(e)
      BY <2>2 DEF Answering, Committed, AttemptsOf, journalVars
    <3>3. QED
      BY <2>2, <3>1, <3>2, AnswersKept DEF AcknowledgedInv, SourceIsCanonical, journalVars
  <2>3. ASSUME NEW a \in Attempts, NEW t \in Times, NEW c \in Cases, NEW e \in Events,
               NEW source \in BOOLEAN, Reserve(a, c, e, source, t)
        PROVE  AcknowledgedInv'
    <3>1. SourceIsCanonical' /\ \A x : Answering(x)' = Answering(x)
      BY <2>3, CanonicalReserve DEF Reserve, AcknowledgedInv, DeliveryTypeOK
    <3>2. outbox' = outbox
      BY <2>3 DEF Reserve, sourceVars
    <3>3. QED
      BY <3>1, <3>2, AnswersKept DEF AcknowledgedInv
  <2>4. ASSUME NEW a \in Attempts, NEW t \in Times, NEW d,
               KeepStale(a, d, t) \/ Fail(a, t) \/ Abandon(a, t)
        PROVE  AcknowledgedInv'
    <3>1. PICK status \in {"STALE", "FAILED", "ABANDONED"} :
            /\ attempts[a].status \in Held
            /\ Settle(a, status, t)
            /\ UNCHANGED <<used, sourceVars, ledgerVars>>
      BY <2>4, Releases DEF Releasing
    <3>2. /\ SourceIsCanonical'
          /\ \A z \in Attempts : /\ attempts'[z].case = attempts[z].case
                                 /\ attempts'[z].source = attempts[z].source
                                 /\ attempts'[z].event = attempts[z].event
                                 /\ attempts'[z].status = (IF z = a THEN status ELSE attempts[z].status)
      BY <3>1, CanonicalSettle DEF AcknowledgedInv, DeliveryTypeOK
    <3>3. \A e : Answering(e)' = Answering(e)
      BY <3>1, <3>2 DEF Answering, Committed, AttemptsOf, Held
    <3>4. QED
      BY <3>1, <3>2, <3>3, AnswersKept DEF AcknowledgedInv, sourceVars
  <2>5. ASSUME NEW a \in Attempts, NEW t \in Times, NEW d \in Decisions, Complete(a, d, t)
        PROVE  AcknowledgedInv'
    BY <2>5, AcknowledgedComplete
  <2>6. QED
    BY <2>1, <2>2, <2>3, <2>4, <2>5
    DEF DeliveryNext, deliveryVars, journalVars, sourceVars, PersonActs, ScriptWrites
<1>3. AcknowledgedInv => SourceAcknowledgedOnce
  BY DEF AcknowledgedInv
<1>4. QED
  BY <1>1, <1>2, <1>3, DeliveryTypes, PTL DEF DeliverySpec
----------------------------------------------------------------------------
(* Reviews and their rows                                                  *)

(* What StageWork writes of one answer: proposals where their kind has no  *)
(* open review, and links.                                                 *)
Stages(a, c, d, P, L) ==
  /\ P \cup L = Decided(d)
  /\ \A k \in P : /\ receipts[c][<<a, k>>] = NoReceipt /\ ActiveOfKind(c, k) = {}
                  /\ reviews'[c][<<a, k>>] = Proposal(k, d[k].due)
                  /\ receipts'[c][<<a, k>>] = ReceiptOf("STAGE", <<a, k>>, Proposal(k, d[k].due))
  /\ \A k \in L : receipts[c][<<a, k>>] = NoReceipt /\ receipts'[c][<<a, k>>].op = "LINK"
  /\ \A q \in Requests : q \notin {<<a, k>> : k \in P} => reviews'[c][q] = reviews[c][q]
  /\ \A q \in Requests : q \notin {<<a, k>> : k \in P \cup L} => receipts'[c][q] = receipts[c][q]
  /\ \A x \in Cases \ {c} : reviews'[x] = reviews[x] /\ receipts'[x] = receipts[x]

LEMMA StagedRows ==
  ASSUME LedgerTypeOK, NEW a \in Attempts, attempts[a] \in Attempt, NEW d \in Decisions,
         NEW t, StageWork(a, d, t), NEW c, c = attempts[a].case
  PROVE  \E P \in SUBSET Kinds, L \in SUBSET Kinds : Stages(a, c, d, P, L)
<1> DEFINE P == {k \in Kinds : Proposes(d, k)}
           W == Decided(d)
           Proposed == {<<a, k>> : k \in P}
           Written == {<<a, k>> : k \in W}
           Row(q) == IF q \in Proposed THEN ReceiptOf("STAGE", q, Proposal(q[2], d[q[2]].due))
                     ELSE ReceiptOf("LINK", Target(a, q[2]), reviews[c][Target(a, q[2])])
<1>1. c \in Cases /\ \A k \in Kinds : <<a, k>> \in Requests
  BY DeliveryAssumption DEF Attempt
<1>2. P \subseteq W /\ W \subseteq Kinds
  BY DEF Decided, Proposes
<1>3. /\ \A q \in Written : receipts[c][q] = NoReceipt
      /\ \A k \in W : Proposes(d, k) => ActiveOfKind(c, k) = {}
      /\ reviews' = [reviews EXCEPT ![c] =
           [q \in Requests |-> IF q \in Proposed THEN Proposal(q[2], d[q[2]].due) ELSE @[q]]]
      /\ receipts' = [receipts EXCEPT ![c] =
           [q \in Requests |-> IF q \in Written THEN Row(q) ELSE @[q]]]
  BY DEF StageWork
<1> HIDE DEF Row, Proposed, Written
<1>4. /\ reviews'[c] = [q \in Requests |-> IF q \in Proposed THEN Proposal(q[2], d[q[2]].due)
                                           ELSE reviews[c][q]]
      /\ receipts'[c] = [q \in Requests |-> IF q \in Written THEN Row(q) ELSE receipts[c][q]]
      /\ \A x \in Cases \ {c} : reviews'[x] = reviews[x] /\ receipts'[x] = receipts[x]
  BY <1>1, <1>3 DEF LedgerTypeOK
<1>5. ASSUME NEW k \in P
      PROVE  /\ receipts[c][<<a, k>>] = NoReceipt /\ ActiveOfKind(c, k) = {}
             /\ reviews'[c][<<a, k>>] = Proposal(k, d[k].due)
             /\ receipts'[c][<<a, k>>] = ReceiptOf("STAGE", <<a, k>>, Proposal(k, d[k].due))
  <2>1. <<a, k>> \in Proposed /\ <<a, k>> \in Written /\ <<a, k>> \in Requests
    BY <1>1, <1>2 DEF Proposed, Written
  <2>2. Row(<<a, k>>) = ReceiptOf("STAGE", <<a, k>>, Proposal(k, d[k].due))
    BY <2>1 DEF Row
  <2>3. QED
    BY <1>2, <1>3, <1>4, <2>1, <2>2
<1>6. ASSUME NEW k \in W \ P
      PROVE  receipts[c][<<a, k>>] = NoReceipt /\ receipts'[c][<<a, k>>].op = "LINK"
  <2>1. <<a, k>> \notin Proposed /\ <<a, k>> \in Written /\ <<a, k>> \in Requests
    BY <1>1, <1>2 DEF Proposed, Written
  <2>2. Row(<<a, k>>).op = "LINK"
    BY <2>1 DEF Row, ReceiptOf
  <2>3. QED
    BY <1>3, <1>4, <2>1, <2>2
<1>7. Written = {<<a, k>> : k \in P \cup (W \ P)}
  BY <1>2 DEF Written
<1>8. /\ \A q \in Requests : q \notin {<<a, k>> : k \in P} => reviews'[c][q] = reviews[c][q]
      /\ \A q \in Requests : q \notin {<<a, k>> : k \in P \cup (W \ P)} =>
           receipts'[c][q] = receipts[c][q]
  BY <1>4, <1>7 DEF Proposed
<1>9. P \cup (W \ P) = Decided(d) /\ P \in SUBSET Kinds /\ W \ P \in SUBSET Kinds
  BY <1>2
<1> HIDE DEF P, W
<1>10. Stages(a, c, d, P, W \ P)
  BY <1>4, <1>5, <1>6, <1>8, <1>9 DEF Stages
<1>11. QED
  BY <1>9, <1>10

LEMMA ActiveOnceStageWork ==
  ASSUME LedgerTypeOK, ActiveOnce, NEW a \in Attempts, attempts[a] \in Attempt, NEW d \in Decisions,
         NEW t, StageWork(a, d, t)
  PROVE  ActiveOnce'
<1>1. PICK c \in Cases : c = attempts[a].case
  BY DEF Attempt
<1>2. PICK P \in SUBSET Kinds, L \in SUBSET Kinds : Stages(a, c, d, P, L)
  BY <1>1, StagedRows
<1>3. \A k \in P : /\ <<a, k>> \in Requests /\ reviews'[c][<<a, k>>].kind = k
                   /\ \A r \in Requests : IsActive(c, r) => reviews[c][r].kind # k
  <2> SUFFICES ASSUME NEW k \in P
               PROVE  /\ <<a, k>> \in Requests /\ reviews'[c][<<a, k>>].kind = k
                      /\ \A r \in Requests : IsActive(c, r) => reviews[c][r].kind # k
    OBVIOUS
  <2>1. /\ ActiveOfKind(c, k) = {}
        /\ reviews'[c][<<a, k>>] = Proposal(k, d[k].due)
    BY <1>2 DEF Stages
  <2>2. reviews'[c][<<a, k>>].kind = k
    BY <2>1 DEF Proposal
  <2>3. \A r \in Requests : IsActive(c, r) => reviews[c][r].kind # k
    BY <2>1 DEF ActiveOfKind, ActiveOf, IsActive
  <2>4. <<a, k>> \in Requests
    BY DeliveryAssumption
  <2>5. QED
    BY <2>2, <2>3, <2>4
<1>4. ASSUME NEW q \in Requests, NEW r \in Requests,
             reviews'[c][q].status \in Active, reviews'[c][r].status \in Active,
             reviews'[c][q].kind = reviews'[c][r].kind
      PROVE  q = r
  <2> DEFINE Proposed == {<<a, k>> : k \in P}
  <2>1. ASSUME NEW x \in Proposed, NEW y \in Requests \ Proposed,
               reviews'[c][x].kind = reviews'[c][y].kind, reviews'[c][y].status \in Active
        PROVE  FALSE
    BY <1>2, <1>3, <2>1 DEF Stages, IsActive
  <2>2. ASSUME q \in Proposed, r \in Proposed PROVE q = r
    BY <1>3, <1>4, <2>2
  <2>3. ASSUME q \notin Proposed, r \notin Proposed PROVE q = r
    BY <1>2, <1>4, <2>3 DEF Stages, ActiveOnce, IsActive
  <2>4. QED
    BY <1>4, <2>1, <2>2, <2>3
<1>5. QED
  BY <1>2, <1>4 DEF Stages, ActiveOnce, IsActive

LEMMA RowsStageWork ==
  ASSUME LedgerTypeOK, AllRows, NEW a \in Attempts, attempts[a] \in Attempt, NEW d \in Decisions,
         NEW t, StageWork(a, d, t)
  PROVE  AllRows'
<1>1. PICK c \in Cases : c = attempts[a].case
  BY DEF Attempt
<1>2. PICK P \in SUBSET Kinds, L \in SUBSET Kinds : Stages(a, c, d, P, L)
  BY <1>1, StagedRows
<1> SUFFICES ASSUME NEW x \in Cases, NEW y \in Requests PROVE RowsComplete(x, y)'
  BY DEF AllRows
<1>3. RowsComplete(x, y)
  BY DEF AllRows
<1>4. CASE x # c
  BY <1>2, <1>3, <1>4, RowsKept DEF Stages
<1>5. ASSUME NEW q \in Requests, q # y
      PROVE  \/ receipts'[c][q] = receipts[c][q]
             \/ /\ receipts[c][q] = NoReceipt /\ receipts'[c][q] # NoReceipt
                /\ receipts'[c][q].op = "LINK" \/ receipts'[c][q].task # y
  <2>1. ASSUME NEW k \in P, q = <<a, k>>
        PROVE  receipts[c][q] = NoReceipt /\ receipts'[c][q].op = "STAGE" /\ receipts'[c][q].task = q
    <3>1. /\ receipts[c][<<a, k>>] = NoReceipt
          /\ receipts'[c][<<a, k>>] = ReceiptOf("STAGE", <<a, k>>, Proposal(k, d[k].due))
      BY <1>2 DEF Stages
    <3>2. /\ ReceiptOf("STAGE", <<a, k>>, Proposal(k, d[k].due)).op = "STAGE"
          /\ ReceiptOf("STAGE", <<a, k>>, Proposal(k, d[k].due)).task = <<a, k>>
      BY DEF ReceiptOf
    <3>3. QED
      BY <2>1, <3>1, <3>2
  <2>2. ASSUME NEW k \in L, q = <<a, k>>
        PROVE  receipts[c][q] = NoReceipt /\ receipts'[c][q].op = "LINK"
    BY <1>2, <2>2 DEF Stages
  <2>3. QED
    BY <1>2, <1>5, <2>1, <2>2 DEF Stages, NoReceipt
<1>6. CASE x = c /\ y \in {<<a, k>> : k \in P}
  <2>1. PICK k \in P : y = <<a, k>>
    BY <1>6
  <2> DEFINE next == Proposal(k, d[k].due)
  <2>2. /\ receipts[c][y] = NoReceipt /\ reviews'[c][y] = next
        /\ receipts'[c][y] = ReceiptOf("STAGE", y, next)
    BY <1>2, <2>1 DEF Stages
  <2>3. next.rev = 1 /\ next.status # "NONE"
    BY DEF Proposal
  <2>4. reviews[c][y].rev = 0
    BY <1>3, <1>6, <2>2, ReceiptRecord DEF RowsComplete
  <2> HIDE DEF next
  <2>5. QED
    BY <1>3, <1>5, <1>6, <2>2, <2>3, <2>4, RowsAdded
<1>7. CASE x = c /\ y \notin {<<a, k>> : k \in P}
  <2>1. reviews'[c][y] = reviews[c][y]
    BY <1>2, <1>7 DEF Stages
  <2>2. \/ receipts'[c][y] = receipts[c][y]
        \/ /\ receipts[c][y] = NoReceipt /\ receipts'[c][y] # NoReceipt
           /\ receipts'[c][y].op = "LINK" \/ receipts'[c][y].task # y
    BY <1>2, <1>7 DEF Stages, NoReceipt
  <2>3. QED
    BY <1>3, <1>5, <1>7, <2>1, <2>2, RowsKept
<1>8. QED
  BY <1>4, <1>6, <1>7

(* The steps that write to the ledger, and the rest. *)
LEMMA LedgerStepKeeps ==
  ASSUME DeliveryTypeOK, ActiveOnce, AllRows, [DeliveryNext]_deliveryVars
  PROVE  ActiveOnce' /\ AllRows'
<1>1. ASSUME ledgerVars' = ledgerVars PROVE ActiveOnce' /\ AllRows'
  <2>1. reviews' = reviews /\ receipts' = receipts
    BY <1>1 DEF ledgerVars
  <2>2. ASSUME NEW c \in Cases, NEW task \in Requests PROVE RowsComplete(c, task)'
    BY <2>1, RowsKept DEF DeliveryTypeOK, AllRows
  <2>3. QED
    BY <2>1, <2>2, ActiveOnceKept DEF AllRows, DeliveryTypeOK
<1>2. ASSUME NEW q \in Requests, NEW t \in Times, PersonActs(q, t)
      PROVE  ActiveOnce' /\ AllRows'
  <2>1. PICK c \in Cases, action \in HumanActions, due \in Dues :
          \E task \in ActiveOf(c) : Act(c, q, task, reviews[c][task].rev, action, due, t)
    BY <1>2 DEF PersonActs
  <2>2. PICK task \in ActiveOf(c) : Act(c, q, task, reviews[c][task].rev, action, due, t)
    BY <2>1
  <2>3. QED
    BY <2>2, ActiveOnceAct, RowsAct DEF DeliveryTypeOK
<1>3. ASSUME NEW q \in Requests, NEW t \in Times, ScriptWrites(q, t)
      PROVE  ActiveOnce' /\ AllRows'
  <2>1. ASSUME NEW c \in Cases, NEW e \in Sealed, NEW k \in Kinds, NEW due \in Dues,
               StageReview(c, q, caseRev[c], k, e, due, t)
        PROVE  ActiveOnce' /\ AllRows'
    BY <2>1, ActiveOnceStage, RowsStage DEF DeliveryTypeOK
  <2>2. ASSUME NEW c \in Cases, NEW e \in Sealed, NEW task \in ActiveOf(c),
               LinkEvidence(c, q, caseRev[c], task, e, t)
        PROVE  ActiveOnce' /\ AllRows'
    <3>1. reviews' = reviews
      BY <2>2 DEF LinkEvidence
    <3>2. QED
      BY <2>2, <3>1, ActiveOnceKept, RowsLink DEF DeliveryTypeOK
  <2>3. QED
    BY <1>3, <2>1, <2>2 DEF ScriptWrites
<1>4. ASSUME NEW a \in Attempts, NEW t \in Times, NEW d \in Decisions, Complete(a, d, t)
      PROVE  ActiveOnce' /\ AllRows'
  <2>1. attempts[a] \in Attempt /\ StageWork(a, d, t)
    BY <1>4, AttemptRecord DEF Complete, StageDecisions, AttemptStatuses, DeliveryTypeOK
  <2>2. QED
    BY <2>1, ActiveOnceStageWork, RowsStageWork DEF DeliveryTypeOK
<1>5. QED
  BY <1>1, <1>2, <1>3, <1>4 DEF DeliveryNext, Reserve, KeepStale, Fail, Abandon, deliveryVars

LEMMA LedgerHolds == DeliverySpec => [](ActiveOnce /\ AllRows)
<1>1. DeliveryInit => ActiveOnce /\ AllRows
  BY ActiveOnceInit, RowsInit DEF DeliveryInit
<1>2. DeliveryTypeOK /\ (ActiveOnce /\ AllRows) /\ [DeliveryNext]_deliveryVars
        => (ActiveOnce /\ AllRows)'
  BY LedgerStepKeeps
<1>3. QED
  BY <1>1, <1>2, DeliveryTypes, PTL DEF DeliverySpec

(* No case ever has two open reviews of one kind: the check of             *)
(* stage_review, made again for every proposal of an agent's answer, is    *)
(* enough for any number of scripts, people and invocations.               *)
THEOREM OneActivePerKindHolds == DeliverySpec => []OneActivePerKind
<1>1. DeliveryTypeOK /\ (ActiveOnce /\ AllRows) => OneActivePerKind
  BY ActiveOnceCounts DEF DeliveryTypeOK
<1>2. QED
  BY <1>1, LedgerHolds, DeliveryTypes, PTL

(* The immutable revision rows of every review are exactly 1 .. its        *)
(* revision and end with its current plan, whatever wrote to the case:     *)
(* stage_review, act, link_evidence and the commits of invocations.        *)
THEOREM RevisionRowsHold == DeliverySpec => []RevisionRowsComplete
<1>1. (ActiveOnce /\ AllRows) => RevisionRowsComplete
  BY RowsAreComplete
<1>2. QED
  BY <1>1, LedgerHolds, PTL

----------------------------------------------------------------------------
(* Dispatch: the types                                                     *)


(* The checks due at a time are keys of dispatch_due. *)
LEMMA DueChecksType ==
  ASSUME LedgerTypeOK, NEW t
  PROVE  DueChecks(t) \subseteq DueKey
<1>1. \A r \in Snapshot(Canonical) : r \in ReviewRef
  BY SnapshotType, DeliveryAssumption
<1>2. QED
  BY <1>1 DEF DueChecks, DueKey, ReviewRef

(* A runner's attempt is one. *)
LEMMA RunnerAttempt ==
  ASSUME DispatchTypeOK, NEW r \in Runners, runner[r] # Idle
  PROVE  runner[r].attempt \in Attempts
BY DEF DispatchTypeOK

(* The events one admission files as history are finitely many. *)
LEMMA EarlierFinite ==
  ASSUME NEW S \in SUBSET Events
  PROVE  Cardinality(S) \in Nat
BY EventsFinite, FS_Subset, FS_CardinalityType

LEMMA ActivateType ==
  ASSUME TypeOK, NEW t \in Times, Activate(t)
  PROVE  TypeOK'
BY DEF TypeOK, DeliveryTypeOK, DispatchTypeOK, SourceTypeOK, LedgerTypeOK, JournalTypeOK,
       Activate, recordVars, sourceVars, ledgerVars, journalVars

LEMMA SuppressType ==
  ASSUME TypeOK, NEW e \in Sealed, NEW t \in Times, Suppress(e, t)
  PROVE  TypeOK'
<1>1. SourceTypeOK'
  <2> DEFINE f == [x \in {e} |-> "SUPPRESSED"]
  <2>1. Acknowledge(f)
    BY DEF Suppress
  <2>2. DOMAIN f \subseteq Events /\ \A x \in DOMAIN f : f[x] \in Dispositions
    BY DEF Sealed, Dispositions
  <2> HIDE DEF f
  <2>3. QED
    BY <2>1, <2>2, AcknowledgeType DEF TypeOK, DeliveryTypeOK
<1>2. LedgerTypeOK' /\ JournalTypeOK'
  BY DEF TypeOK, DeliveryTypeOK, LedgerTypeOK, JournalTypeOK, Suppress, ledgerVars, journalVars
<1>3. DispatchTypeOK'
  <2>1. /\ outcomes' = [outcomes EXCEPT ![e] = "SUPPRESSED"]
        /\ counts' = [counts EXCEPT !.suppressed = @ + 1]
        /\ dispatchTime' = t
        /\ UNCHANGED <<activated, initial, numeric, health, active, admission, handled, runner>>
    BY DEF Suppress
  <2>2. counts' \in [history : Nat, suppressed : Nat, assessed : Nat]
    BY <2>1 DEF TypeOK, DispatchTypeOK
  <2>3. QED
    BY <2>1, <2>2 DEF TypeOK, DispatchTypeOK
<1>4. QED
  BY <1>1, <1>2, <1>3 DEF TypeOK, DeliveryTypeOK

LEMMA AdmitType ==
  ASSUME TypeOK, NEW r \in Runners, NEW e \in Sealed, NEW a \in Attempts, NEW t \in Times,
         Admit(r, e, a, t)
  PROVE  TypeOK'
<1> DEFINE earlier == IF initial = NULL THEN Pending \ {e} ELSE {}
           record == [numeric |-> numeric, health |-> health,
                      move |-> MovesNumeric(e, Basis), due |-> DueChecks(t)]
<1>1. e \in Events /\ earlier \in SUBSET Events
  BY DEF Sealed, Pending
<1>2. SourceTypeOK'
  <2> DEFINE f == [d \in earlier |-> "HISTORY"]
  <2>1. Acknowledge(f)
    BY DEF Admit
  <2>2. DOMAIN f \subseteq Events /\ \A x \in DOMAIN f : f[x] \in Dispositions
    BY <1>1 DEF Dispositions
  <2> HIDE DEF f
  <2>3. QED
    BY <2>1, <2>2, AcknowledgeType DEF TypeOK, DeliveryTypeOK
<1>3. LedgerTypeOK'
  BY DEF TypeOK, DeliveryTypeOK, LedgerTypeOK, Admit, ledgerVars
<1>4. JournalTypeOK'
  BY <1>1, ReserveType, DeliveryAssumption DEF TypeOK, DeliveryTypeOK, Admit
<1>5. record \in Admission
  <2>1. MovesNumeric(e, Basis) \in BOOLEAN
    BY DEF MovesNumeric
  <2>2. DueChecks(t) \in SUBSET DueKey
    BY DueChecksType DEF TypeOK, DeliveryTypeOK
  <2>3. QED
    BY <2>1, <2>2 DEF Admission, TypeOK, DispatchTypeOK
<1>6. [pc |-> "planning", attempt |-> a] \in [pc : {"planning", "failing"}, attempt : Attempts]
  OBVIOUS
<1>7. Cardinality(earlier) \in Nat
  BY <1>1, EarlierFinite
<1>8. /\ admission' = [admission EXCEPT ![a] = record]
      /\ counts' = [counts EXCEPT !.history = @ + Cardinality(earlier)]
      /\ outcomes' = [d \in Events |-> IF d \in earlier THEN "HISTORY" ELSE outcomes[d]]
      /\ runner' = [runner EXCEPT ![r] = [pc |-> "planning", attempt |-> a]]
      /\ initial' = IF initial = NULL THEN e ELSE initial
      /\ active' = a /\ dispatchTime' = t
      /\ UNCHANGED <<activated, numeric, health, handled>>
  BY DEF Admit
<1> HIDE DEF earlier, record
<1>9. DispatchTypeOK'
  BY <1>1, <1>5, <1>6, <1>7, <1>8 DEF TypeOK, DispatchTypeOK
<1>10. QED
  BY <1>2, <1>3, <1>4, <1>9 DEF TypeOK, DeliveryTypeOK

(* A runner records an answer: finish on an unchanged case, whatever else  *)
(* is saved on the case in the same transaction.                           *)
Records(r, a, d, t) ==
  /\ MayFinish(a, t)
  /\ Applies(a, d, t)
  /\ RecordAssessed(a, t)
  /\ runner' = [runner EXCEPT ![r] = Idle]

LEMMA FinishRecords ==
  ASSUME TypeOK, NEW r \in Runners, NEW d \in Decisions, NEW t \in Times, Finish(r, d, t)
  PROVE  \E a \in Attempts : Records(r, a, d, t)
<1>1. PICK a \in Attempts : a = runner[r].attempt
  BY RunnerAttempt DEF Finish, RecordAssessed, Idle, TypeOK
<1>2. QED
  BY <1>1, CompleteApplies DEF Finish, Records

LEMMA RecordsType ==
  ASSUME TypeOK, NEW r \in Runners, NEW a \in Attempts, NEW d \in Decisions, NEW t \in Times,
         Records(r, a, d, t)
  PROVE  TypeOK'
<1>1. DeliveryTypeOK'
  BY AppliesFacts DEF Records, TypeOK
<1>2. admission[a].due \subseteq DueKey
  BY DEF TypeOK, DispatchTypeOK, Admission, NoAdmission
<1>3. AssessedAfter(a) \in Nat
  BY DEF AssessedAfter, TypeOK, DispatchTypeOK
<1>4. HandledAfter(a) \subseteq DueKey
  BY <1>2 DEF HandledAfter, TypeOK, DispatchTypeOK
<1>5. DispatchTypeOK'
  BY <1>3, <1>4 DEF TypeOK, DispatchTypeOK, Records, RecordAssessed
<1>6. QED
  BY <1>1, <1>5 DEF TypeOK

(* Steps that settle an attempt without applying anything. *)
LEMMA ReleaseType ==
  ASSUME DeliveryTypeOK, NEW a \in Attempts, NEW t \in Times, Releasing(a, t)
  PROVE  DeliveryTypeOK'
<1>1. PICK status \in {"STALE", "FAILED", "ABANDONED"} :
        /\ attempts[a].status \in Held
        /\ Settle(a, status, t)
        /\ UNCHANGED <<used, sourceVars, ledgerVars>>
  BY DEF Releasing
<1>2. QED
  BY <1>1, ReleaseFacts DEF AttemptStatuses

(* The steps of a runner that change nothing but the attempt in hand. *)
LEMMA RunnerStepType ==
  ASSUME TypeOK, NEW r \in Runners, DeliveryTypeOK', UNCHANGED dispatchVars,
         runner' = [runner EXCEPT ![r] = Idle]
                \/ (runner[r] # Idle /\ runner' = [runner EXCEPT ![r].pc = "failing"])
  PROVE  TypeOK'
<1>1. runner' \in [Runners -> [pc : {"planning", "failing"}, attempt : Attempts] \cup {Idle}]
  BY DEF TypeOK, DispatchTypeOK
<1>2. QED
  BY <1>1 DEF TypeOK, DispatchTypeOK, dispatchVars, settingsVars, recordVars

(* What goes on around the dispatcher, and past it. *)
Elsewhere == Surroundings \/ JournalCalls

LEMMA ElsewhereType ==
  ASSUME TypeOK, Elsewhere
  PROVE  TypeOK'
<1>1. ASSUME NEW S \in SUBSET Sealable, SealEvents(S), UNCHANGED <<ledgerVars, journalVars>>
      PROVE  DeliveryTypeOK'
  BY <1>1, SealFacts DEF TypeOK
<1>2. ASSUME NEW q \in Requests, NEW t \in Times, PersonActs(q, t)
      PROVE  DeliveryTypeOK'
  BY <1>2, PersonFacts DEF TypeOK
<1>3. ASSUME NEW a \in Attempts, NEW t \in Times, NEW c \in Cases, NEW e \in Events,
             NEW source \in BOOLEAN, Reserve(a, c, e, source, t)
      PROVE  DeliveryTypeOK'
  BY <1>3, ReserveFacts DEF TypeOK
<1>4. ASSUME NEW a \in Attempts, NEW t \in Times, NEW d \in Decisions, KeepStale(a, d, t)
      PROVE  DeliveryTypeOK'
  BY <1>4, Releases, ReleaseType DEF TypeOK
<1>5. ASSUME NEW a \in Attempts, NEW t \in Times, NEW d \in Decisions, Complete(a, d, t)
      PROVE  DeliveryTypeOK'
  BY <1>5, CompleteApplies, AppliesFacts DEF TypeOK
<1>6. ASSUME NEW a \in Attempts, NEW t \in Times, Fail(a, t) \/ Abandon(a, t)
      PROVE  DeliveryTypeOK'
  BY <1>6, Releases, ReleaseType DEF TypeOK
<1>7. DeliveryTypeOK'
  BY <1>1, <1>2, <1>3, <1>4, <1>5, <1>6, DispatchAssumption
  DEF Elsewhere, Surroundings, JournalCalls
<1>8. QED
  BY <1>7 DEF Elsewhere, Surroundings, JournalCalls, TypeOK, DispatchTypeOK, dispatchVars,
              settingsVars, recordVars

LEMMA DispatchInitType == Init => TypeOK
<1> SUFFICES ASSUME Init PROVE TypeOK
  OBVIOUS
<1>1. DeliveryTypeOK
  BY InitType DEF Init, DeliveryInit
<1>2. DispatchTypeOK
  <2>1. dispatchTime \in Times
    BY LedgerAssumption DEF Init, Times
  <2>2. counts \in [history : Nat, suppressed : Nat, assessed : Nat]
    BY DEF Init
  <2>3. /\ admission \in [Attempts -> Admission \cup {NoAdmission}]
        /\ runner \in [Runners -> [pc : {"planning", "failing"}, attempt : Attempts] \cup {Idle}]
        /\ outcomes \in [Events -> {"NONE", "HISTORY", "SUPPRESSED", "ASSESSED"}]
    BY DEF Init
  <2>4. activated \in BOOLEAN /\ {initial, numeric, health, active} = {NULL} /\ handled = {}
    BY DEF Init
  <2>5. QED
    BY <2>1, <2>2, <2>3, <2>4 DEF DispatchTypeOK
<1>3. QED
  BY <1>1, <1>2 DEF TypeOK

LEMMA DispatchStepType ==
  ASSUME TypeOK, [Next]_vars
  PROVE  TypeOK'
<1>1. ASSUME NEW t \in Times, Activate(t)
      PROVE  TypeOK'
  BY <1>1, ActivateType
<1>2. ASSUME NEW r \in Runners, Prepare(r)
      PROVE  TypeOK'
  <2>1. PICK e \in Sealed, t \in Times :
          Suppress(e, t) \/ \E a \in Attempts \ Direct : Admit(r, e, a, t)
    BY <1>2 DEF Prepare
  <2>2. QED
    BY <2>1, SuppressType, AdmitType
<1>3. ASSUME NEW r \in Runners, Conclude(r)
      PROVE  TypeOK'
  <2>1. PICK t \in Times :
          (\E d \in Decisions : Finish(r, d, t) \/ FinishStale(r, d, t)) \/ FailWrite(r, t)
    BY <1>3 DEF Conclude
  <2>2. ASSUME NEW d \in Decisions, Finish(r, d, t)
        PROVE  TypeOK'
    BY <2>2, FinishRecords, RecordsType
  <2>3. ASSUME NEW d \in Decisions, FinishStale(r, d, t)
        PROVE  TypeOK'
    <3>1. runner[r].attempt \in Attempts
      BY <2>3, RunnerAttempt DEF FinishStale, Idle, TypeOK
    <3>2. DeliveryTypeOK'
      BY <2>3, <3>1, Releases, ReleaseType DEF FinishStale, TypeOK
    <3>3. QED
      BY <2>3, <3>2, RunnerStepType DEF FinishStale
  <2>4. ASSUME FailWrite(r, t)
        PROVE  TypeOK'
    <3>1. runner[r].attempt \in Attempts
      BY <2>4, RunnerAttempt DEF FailWrite, Idle, TypeOK
    <3>2. DeliveryTypeOK'
      BY <2>4, <3>1, Releases, ReleaseType DEF FailWrite, TypeOK
    <3>3. QED
      BY <2>4, <3>2, RunnerStepType DEF FailWrite
  <2>5. QED
    BY <2>1, <2>2, <2>3, <2>4
<1>4. ASSUME NEW r \in Runners, FailCheck(r) \/ Lose(r)
      PROVE  TypeOK'
  <2>1. UNCHANGED <<dispatchVars, sourceVars, ledgerVars, journalVars>>
    BY <1>4 DEF FailCheck, Lose
  <2>2. DeliveryTypeOK'
    BY <2>1 DEF TypeOK, DeliveryTypeOK, SourceTypeOK, LedgerTypeOK, JournalTypeOK,
                sourceVars, ledgerVars, journalVars
  <2>3. QED
    BY <1>4, <2>1, <2>2, RunnerStepType DEF FailCheck, Lose, Idle
<1>5. CASE Elsewhere
  BY <1>5, ElsewhereType
<1>6. CASE UNCHANGED vars
  BY <1>6 DEF vars, sourceVars, ledgerVars, journalVars, dispatchVars, settingsVars, recordVars,
              TypeOK, DeliveryTypeOK, SourceTypeOK, LedgerTypeOK, JournalTypeOK, DispatchTypeOK
<1>7. QED
  BY <1>1, <1>2, <1>3, <1>4, <1>5, <1>6 DEF Next, Elsewhere

(* The whole database and every runner stay well formed, whatever the      *)
(* dispatcher, people, polls, crashes and direct users of the journal do:  *)
(* a check that is due keeps being a key, a baseline an attempt.           *)
THEOREM DispatchTypes == Spec => []TypeOK
<1>1. Init => TypeOK
  BY DispatchInitType
<1>2. TypeOK /\ [Next]_vars => TypeOK'
  BY DispatchStepType
<1>3. QED
  BY <1>1, <1>2, PTL DEF Spec

----------------------------------------------------------------------------
(* What a step does to the journal: nothing, a reservation, or settling    *)
(* one unresolved attempt.                                                 *)
Reserves ==
  \E a \in Attempts, c \in Cases, e \in Events, source \in BOOLEAN, t \in Times :
    ReserveRow(a, c, e, source, t)
Settles ==
  \E a \in Attempts, status \in {"STALE", "FAILED", "ABANDONED", "COMMITTED"}, t \in Times :
    attempts[a].status \in Held /\ Settle(a, status, t) /\ used' = used
JournalMoves == UNCHANGED journalVars \/ Reserves \/ Settles

LEMMA ReleaseSettles ==
  ASSUME NEW a \in Attempts, NEW t \in Times, Releasing(a, t)
  PROVE  Settles
BY DEF Releasing, Settles

LEMMA AppliesSettles ==
  ASSUME NEW a \in Attempts, NEW d, NEW t \in Times, Applies(a, d, t)
  PROVE  Settles
BY DEF Applies, Settles, Held

LEMMA JournalSteps ==
  ASSUME TypeOK, [Next]_vars
  PROVE  JournalMoves
<1>1. ASSUME NEW r \in Runners, Prepare(r)
      PROVE  JournalMoves
  <2>1. PICK e \in Sealed, t \in Times :
          Suppress(e, t) \/ \E a \in Attempts \ Direct : Admit(r, e, a, t)
    BY <1>1 DEF Prepare
  <2>2. CASE Suppress(e, t)
    BY <2>2 DEF Suppress, JournalMoves
  <2>3. ASSUME NEW a \in Attempts \ Direct, Admit(r, e, a, t)
        PROVE  JournalMoves
    <3>1. ReserveRow(a, Canonical, e, Pending # {}, t)
      BY <2>3 DEF Admit
    <3>2. e \in Events /\ (Pending # {}) \in BOOLEAN /\ Canonical \in Cases
      BY DeliveryAssumption DEF Sealed
    <3>3. QED
      BY <3>1, <3>2 DEF Reserves, JournalMoves
  <2>4. QED
    BY <2>1, <2>2, <2>3
<1>2. ASSUME NEW r \in Runners, Conclude(r)
      PROVE  JournalMoves
  <2>1. runner[r].attempt \in Attempts
    BY <1>2, RunnerAttempt
       DEF Conclude, Finish, RecordAssessed, FinishStale, FailWrite, Idle, TypeOK
  <2>2. QED
    BY <1>2, <2>1, Releases, ReleaseSettles, CompleteApplies, AppliesSettles
       DEF Conclude, Finish, RecordAssessed, FinishStale, FailWrite, JournalMoves
<1>3. CASE Elsewhere
  <2>1. ASSUME NEW a \in Direct, NEW t \in Times, NEW c \in Cases, NEW e \in Events,
               NEW source \in BOOLEAN, Reserve(a, c, e, source, t)
        PROVE  JournalMoves
    BY <2>1, DispatchAssumption DEF Reserve, Reserves, JournalMoves
  <2>2. ASSUME NEW q \in Requests, NEW t \in Times, PersonActs(q, t)
        PROVE  JournalMoves
    BY <2>2 DEF PersonActs, JournalMoves, journalVars
  <2>3. ASSUME NEW a \in Attempts, NEW t \in Times, NEW d \in Decisions,
               KeepStale(a, d, t) \/ Complete(a, d, t) \/ Fail(a, t) \/ Abandon(a, t)
        PROVE  JournalMoves
    BY <2>3, Releases, ReleaseSettles, CompleteApplies, AppliesSettles DEF JournalMoves
  <2>4. ASSUME NEW a \in Attempts, NEW t \in Times, Abandon(a, t) \/ Fail(a, t)
        PROVE  JournalMoves
    BY <2>4, Releases, ReleaseSettles DEF JournalMoves
  <2>5. QED
    BY <1>3, <2>1, <2>2, <2>3, <2>4, DispatchAssumption
    DEF Elsewhere, Surroundings, JournalCalls, JournalMoves
<1>4. ASSUME \/ \E t \in Times : Activate(t)
             \/ \E r \in Runners : FailCheck(r) \/ Lose(r)
             \/ UNCHANGED vars
      PROVE  JournalMoves
  BY <1>4 DEF Activate, FailCheck, Lose, vars, JournalMoves
<1>5. QED
  BY <1>1, <1>2, <1>3, <1>4 DEF Next, Elsewhere

(* Dispatch keeps the journal's promise: no case ever has two unresolved   *)
(* invocations, whoever reserved them.                                     *)
THEOREM DispatchOneUnresolved == Spec => []OneUnresolved
<1>1. Init => OneUnresolved
  BY DEF Init, JournalInit, NoAttempt, OneUnresolved
<1>2. TypeOK /\ OneUnresolved /\ [Next]_vars => OneUnresolved'
  <2> SUFFICES ASSUME TypeOK, OneUnresolved, [Next]_vars
               PROVE  OneUnresolved'
    OBVIOUS
  <2>1. JournalMoves
    BY JournalSteps
  <2>2. CASE UNCHANGED journalVars
    BY <2>2 DEF journalVars, OneUnresolved
  <2>3. CASE Reserves
    BY <2>3, UnresolvedReserve DEF Reserves, TypeOK, DeliveryTypeOK
  <2>4. CASE Settles
    BY <2>4, UnresolvedSettle DEF Settles, TypeOK, DeliveryTypeOK
  <2>5. QED
    BY <2>1, <2>2, <2>3, <2>4 DEF JournalMoves
<1>3. QED
  BY <1>1, <1>2, DispatchTypes, PTL DEF Spec

(* And the allowance counts exactly the attempts ever reserved.            *)
THEOREM DispatchAllowanceExact == Spec => []AllowanceExact
<1>1. Init => AllowanceExact
  <2> SUFFICES ASSUME Init, NEW m \in Modes
               PROVE  used[m] = Cardinality(Invoked(m)) /\ used[m] <= Limit[m]
    BY DEF AllowanceExact, Invoked
  <2>1. Invoked(m) = {}
    BY DEF Init, JournalInit, Invoked
  <2>2. QED
    BY <2>1, FS_EmptySet, DeliveryAssumption DEF Init, JournalInit
<1>2. TypeOK /\ AllowanceExact /\ [Next]_vars => AllowanceExact'
  <2> SUFFICES ASSUME TypeOK, AllowanceExact, [Next]_vars
               PROVE  AllowanceExact'
    OBVIOUS
  <2>1. JournalMoves
    BY JournalSteps
  <2>2. CASE UNCHANGED journalVars
    BY <2>2 DEF journalVars, AllowanceExact
  <2>3. CASE Reserves
    BY <2>3, AllowanceReserve DEF Reserves, TypeOK, DeliveryTypeOK
  <2>4. CASE Settles
    BY <2>4, AllowanceSettle DEF Settles, TypeOK, DeliveryTypeOK
  <2>5. QED
    BY <2>1, <2>2, <2>3, <2>4 DEF JournalMoves
<1>3. QED
  BY <1>1, <1>2, DispatchTypes, PTL DEF Spec

----------------------------------------------------------------------------
(* The pointer and the journal.  An attempt that was admitted belongs to   *)
(* the case, was not reserved outside dispatch, and is the active one for  *)
(* as long as it is unresolved; the active one was admitted, and has not   *)
(* become a baseline.                                                      *)
AdmittedHere ==
  \A a \in Attempts : admission[a] # NoAdmission => a \notin Direct /\ attempts[a].case = Canonical
ActiveAdmitted ==
  active # NULL => /\ admission[active] # NoAdmission
                   /\ attempts[active].status \in Held \cup {"ABANDONED", "COMMITTED"}
HeldIsActive ==
  \A a \in HeldOf(Canonical) : admission[a] # NoAdmission => active = a
BaselinesSettled ==
  \A b \in {numeric, health} : b # NULL => attempts[b].status = "COMMITTED" /\ active # b
PointerInv == AdmittedHere /\ ActiveAdmitted /\ HeldIsActive /\ BaselinesSettled

(* An admission is never mistaken for its absence: the first one moves the *)
(* baseline.                                                               *)
LEMMA AdmissionIsOne ==
  ASSUME NEW e, NEW t
  PROVE  [numeric |-> numeric, health |-> health,
          move |-> MovesNumeric(e, Basis), due |-> DueChecks(t)] # NoAdmission
<1> DEFINE x == [numeric |-> numeric, health |-> health,
                 move |-> MovesNumeric(e, Basis), due |-> DueChecks(t)]
<1>1. CASE numeric = NULL
  <2>1. MovesNumeric(e, Basis)
    BY <1>1 DEF MovesNumeric, Basis
  <2>2. x.move # NoAdmission.move
    BY <2>1 DEF NoAdmission
  <2>3. QED
    BY <2>2
<1>2. CASE numeric # NULL
  <2>1. x.numeric # NoAdmission.numeric
    BY <1>2 DEF NoAdmission
  <2>2. QED
    BY <2>1
<1>3. QED
  BY <1>1, <1>2

(* Settling an attempt: nothing but its status (and time) changes. *)
LEMMA SettleKeeps ==
  ASSUME JournalTypeOK, NEW a \in Attempts, NEW status, NEW t, attempts[a].status \in Held,
         Settle(a, status, t)
  PROVE  \A z \in Attempts :
           /\ attempts'[z].case = attempts[z].case
           /\ attempts'[z].event = attempts[z].event
           /\ attempts'[z].source = attempts[z].source
           /\ attempts'[z].status = (IF z = a THEN status ELSE attempts[z].status)
<1>1. attempts[a] \in Attempt
  BY AttemptRecord DEF Held, AttemptStatuses
<1>2. QED
  BY <1>1 DEF Settle, JournalTypeOK, Attempt

(* The settings name attempts that were reserved. *)
LEMMA ActiveAttempt ==
  ASSUME TypeOK, PointerInv, active # NULL
  PROVE  /\ active \in Attempts /\ admission[active] # NoAdmission
         /\ attempts[active].case = Canonical /\ attempts[active].status # "NONE"
BY DEF TypeOK, DispatchTypeOK, PointerInv, ActiveAdmitted, AdmittedHere, Held

(* A reservation for the canonical case by the dispatcher. *)
LEMMA PointerAdmit ==
  ASSUME TypeOK, PointerInv, NEW r \in Runners, NEW e \in Sealed, NEW a \in Attempts \ Direct,
         NEW t \in Times, Admit(r, e, a, t)
  PROVE  PointerInv'
<1> USE DEF TypeOK, DeliveryTypeOK
<1>1. /\ attempts'[a].case = Canonical /\ attempts'[a].status = "RESERVED"
      /\ \A z \in Attempts \ {a} : attempts'[z] = attempts[z]
      /\ attempts[a].status = "NONE"
  BY DEF Admit, ReserveRow, JournalTypeOK, NoAttempt
<1>2. /\ active' = a /\ numeric' = numeric /\ health' = health
      /\ admission'[a] # NoAdmission
      /\ \A z \in Attempts \ {a} : admission'[z] = admission[z]
  BY AdmissionIsOne DEF Admit, DispatchTypeOK
<1>3. \A z \in Attempts : attempts[z].case = Canonical => attempts[z].status \notin Held
  BY DEF Admit, Ready, HeldOf, AttemptsOf
<1>4. AdmittedHere'
  BY <1>1, <1>2 DEF AdmittedHere, PointerInv
<1>5. ActiveAdmitted'
  BY <1>1, <1>2 DEF ActiveAdmitted, Held
<1>6. HeldIsActive'
  BY <1>1, <1>2, <1>3 DEF HeldIsActive, HeldOf, AttemptsOf
<1>7. BaselinesSettled'
  BY <1>1, <1>2 DEF BaselinesSettled, PointerInv, DispatchTypeOK
<1>8. QED
  BY <1>4, <1>5, <1>6, <1>7 DEF PointerInv

LEMMA PointerRecords ==
  ASSUME TypeOK, PointerInv, NEW r \in Runners, NEW a \in Attempts, NEW d \in Decisions,
         NEW t \in Times, Records(r, a, d, t)
  PROVE  PointerInv'
<1> USE DEF TypeOK, DeliveryTypeOK
<1>1. \A z \in Attempts : /\ attempts'[z].case = attempts[z].case
                          /\ attempts'[z].status =
                               (IF z = a THEN "COMMITTED" ELSE attempts[z].status)
  BY SettleKeeps DEF Records, Applies, Held
<1>2. /\ active = a /\ active' = NULL /\ admission' = admission
      /\ numeric' \in {numeric, a} /\ health' = a
  BY DEF Records, RecordAssessed, MayFinish
<1>3. AdmittedHere' /\ ActiveAdmitted' /\ HeldIsActive'
  BY <1>1, <1>2 DEF PointerInv, AdmittedHere, ActiveAdmitted, HeldIsActive, HeldOf, AttemptsOf, Held
<1>4. BaselinesSettled'
  BY <1>1, <1>2 DEF BaselinesSettled, PointerInv, DispatchTypeOK
<1>5. QED
  BY <1>3, <1>4 DEF PointerInv

(* Unresolved attempts that stay so, are abandoned, or are committed       *)
(* through the journal.                                                    *)
LEMMA PointerSettle ==
  ASSUME TypeOK, PointerInv, NEW a \in Attempts, NEW t,
         NEW status \in {"STALE", "FAILED", "ABANDONED", "COMMITTED"},
         attempts[a].status \in Held, Settle(a, status, t),
         UNCHANGED dispatchVars
  PROVE  PointerInv'
<1> USE DEF TypeOK, DeliveryTypeOK
<1>1. \A z \in Attempts : /\ attempts'[z].case = attempts[z].case
                          /\ attempts'[z].status = (IF z = a THEN status ELSE attempts[z].status)
  BY SettleKeeps
<1>2. active' = active /\ admission' = admission /\ numeric' = numeric /\ health' = health
  BY DEF dispatchVars, settingsVars, recordVars
<1>3. AdmittedHere'
  BY <1>1, <1>2 DEF PointerInv, AdmittedHere
<1>4. ActiveAdmitted'
  <2> SUFFICES ASSUME active # NULL
               PROVE  attempts'[active].status \in Held \cup {"ABANDONED", "COMMITTED"}
    BY <1>2 DEF PointerInv, ActiveAdmitted
  <2>1. active \in Attempts
    BY DEF DispatchTypeOK
  <2>2. QED
    BY <1>1, <2>1 DEF PointerInv, ActiveAdmitted, Held
<1>5. HeldIsActive'
  BY <1>1, <1>2 DEF PointerInv, HeldIsActive, HeldOf, AttemptsOf
<1>6. BaselinesSettled'
  BY <1>1, <1>2 DEF PointerInv, BaselinesSettled, DispatchTypeOK, Held
<1>7. QED
  BY <1>3, <1>4, <1>5, <1>6 DEF PointerInv

LEMMA PointerReserve ==
  ASSUME TypeOK, PointerInv, NEW a \in Direct, NEW c, NEW e, NEW source, NEW t,
         ReserveRow(a, c, e, source, t), UNCHANGED dispatchVars
  PROVE  PointerInv'
<1> USE DEF TypeOK, DeliveryTypeOK
<1>1. a \in Attempts /\ admission[a] = NoAdmission
  BY DispatchAssumption DEF PointerInv, AdmittedHere
<1>2. /\ \A z \in Attempts \ {a} : attempts'[z] = attempts[z]
      /\ attempts[a].status = "NONE"
  BY <1>1 DEF ReserveRow, JournalTypeOK, NoAttempt
<1>3. active' = active /\ admission' = admission /\ numeric' = numeric /\ health' = health
  BY DEF dispatchVars, settingsVars, recordVars
<1>4. AdmittedHere' /\ ActiveAdmitted' /\ HeldIsActive'
  BY <1>1, <1>2, <1>3 DEF PointerInv, AdmittedHere, ActiveAdmitted, HeldIsActive, HeldOf,
                          AttemptsOf, DispatchTypeOK
<1>5. BaselinesSettled'
  BY <1>1, <1>2, <1>3 DEF PointerInv, BaselinesSettled, DispatchTypeOK
<1>6. QED
  BY <1>4, <1>5 DEF PointerInv

LEMMA PointerKept ==
  ASSUME PointerInv, UNCHANGED <<attempts, active, admission, numeric, health>>
  PROVE  PointerInv'
BY DEF PointerInv, AdmittedHere, ActiveAdmitted, HeldIsActive, BaselinesSettled, HeldOf, AttemptsOf

LEMMA PointerRelease ==
  ASSUME TypeOK, PointerInv, NEW a \in Attempts, NEW t, Releasing(a, t), UNCHANGED dispatchVars
  PROVE  PointerInv'
<1>1. PICK status \in {"STALE", "FAILED", "ABANDONED"} :
        attempts[a].status \in Held /\ Settle(a, status, t)
  BY DEF Releasing
<1>2. QED
  BY <1>1, PointerSettle

LEMMA PointerElsewhere ==
  ASSUME TypeOK, PointerInv, Elsewhere
  PROVE  PointerInv'
<1>1. UNCHANGED dispatchVars
  BY DEF Elsewhere, Surroundings, JournalCalls
<1>2. ASSUME UNCHANGED journalVars
      PROVE  PointerInv'
  BY <1>1, <1>2, PointerKept DEF dispatchVars, settingsVars, recordVars, journalVars
<1>3. ASSUME NEW a \in Attempts, NEW t \in Times, Abandon(a, t)
      PROVE  PointerInv'
  BY <1>1, <1>3, Releases, PointerRelease
<1>4. ASSUME NEW a \in Direct, NEW t \in Times, NEW c, NEW e, NEW source,
             Reserve(a, c, e, source, t)
      PROVE  PointerInv'
  BY <1>1, <1>4, PointerReserve DEF Reserve
<1>5. ASSUME NEW a \in Attempts, NEW t \in Times, NEW d, KeepStale(a, d, t) \/ Fail(a, t)
      PROVE  PointerInv'
  BY <1>1, <1>5, Releases, PointerRelease
<1>6. ASSUME NEW a \in Attempts, NEW t \in Times, NEW d, Complete(a, d, t)
      PROVE  PointerInv'
  <2>1. attempts[a].status \in Held /\ Settle(a, "COMMITTED", t)
    BY <1>6 DEF Complete, Held
  <2>2. QED
    BY <1>1, <2>1, PointerSettle
<1>7. QED
  BY <1>2, <1>3, <1>4, <1>5, <1>6 DEF Elsewhere, Surroundings, JournalCalls, PersonActs

LEMMA PointerInit == Init => PointerInv
<1> SUFFICES ASSUME Init PROVE PointerInv
  OBVIOUS
<1>1. /\ active = NULL /\ numeric = NULL /\ health = NULL
      /\ \A a \in Attempts : admission[a] = NoAdmission
  BY DEF Init
<1>2. QED
  BY <1>1 DEF PointerInv, AdmittedHere, ActiveAdmitted, HeldIsActive, BaselinesSettled, HeldOf,
              AttemptsOf

LEMMA PointerStep ==
  ASSUME TypeOK, PointerInv, [Next]_vars
  PROVE  PointerInv'
<1>1. ASSUME NEW t \in Times, Activate(t)
      PROVE  PointerInv'
  BY <1>1, PointerKept DEF Activate, recordVars, journalVars
<1>2. ASSUME NEW e, NEW t, Suppress(e, t)
      PROVE  PointerInv'
  BY <1>2, PointerKept DEF Suppress, journalVars
<1>3. ASSUME NEW r \in Runners, NEW e \in Sealed, NEW a \in Attempts \ Direct,
             NEW t \in Times, Admit(r, e, a, t)
      PROVE  PointerInv'
  BY <1>3, PointerAdmit
<1>4. ASSUME NEW r \in Runners, NEW d \in Decisions, NEW t \in Times, Finish(r, d, t)
      PROVE  PointerInv'
  BY <1>4, FinishRecords, PointerRecords
<1>5. ASSUME NEW r \in Runners, NEW d \in Decisions, NEW t \in Times,
             FinishStale(r, d, t)
      PROVE  PointerInv'
  <2>1. runner[r].attempt \in Attempts
    BY <1>5, RunnerAttempt DEF FinishStale, Idle, TypeOK
  <2>2. QED
    BY <1>5, <2>1, Releases, PointerRelease DEF FinishStale
<1>6. ASSUME NEW r \in Runners, NEW t \in Times, FailWrite(r, t)
      PROVE  PointerInv'
  <2>1. runner[r].attempt \in Attempts
    BY <1>6, RunnerAttempt DEF FailWrite, Idle, TypeOK
  <2>2. QED
    BY <1>6, <2>1, Releases, PointerRelease DEF FailWrite
<1>7. ASSUME NEW r \in Runners, FailCheck(r) \/ Lose(r)
      PROVE  PointerInv'
  BY <1>7, PointerKept DEF FailCheck, Lose, dispatchVars, settingsVars, recordVars, journalVars
<1>8. CASE Elsewhere
  BY <1>8, PointerElsewhere
<1>9. CASE UNCHANGED vars
  BY <1>9, PointerKept DEF vars, dispatchVars, settingsVars, recordVars, journalVars
<1>10. QED
  BY <1>1, <1>2, <1>3, <1>4, <1>5, <1>6, <1>7, <1>8, <1>9 DEF Next, Prepare, Conclude, Elsewhere

----------------------------------------------------------------------------
(* The outbox and the outcomes.                                            *)

(* What dispatch admitted and recorded the answer of: an invocation that   *)
(* was completed through the journal keeps the pointer.                    *)
Assessed ==
  {a \in Attempts :
     admission[a] # NoAdmission /\ attempts[a].status = "COMMITTED" /\ active # a}

LEMMA AccountedAssessed == PointerInv => Accounted = Assessed
BY DEF PointerInv, AdmittedHere, Accounted, Committed, Outside, Bypassed, AttemptsOf, Assessed

OutcomesFiled ==
  \A e \in Events :
    /\ outcomes[e] \in {"HISTORY", "SUPPRESSED"} <=> outbox[e] \in {"HISTORY", "SUPPRESSED"}
    /\ outcomes[e] \in {"HISTORY", "SUPPRESSED"} => outcomes[e] = outbox[e]
    /\ outcomes[e] = "ASSESSED" => outbox[e] = "DONE"
AssessedRecorded ==
  \A e \in Events : outcomes[e] = "ASSESSED" <=>
    \E a \in Assessed : attempts[a].source /\ attempts[a].event = e
DoneAnswered ==
  \A e \in Events : outbox[e] = "DONE" =>
    \E a \in Committed(Canonical) : attempts[a].source /\ attempts[a].event = e
ActiveUndecided ==
  active # NULL /\ attempts[active].source => outcomes[attempts[active].event] = "NONE"
OutboxInv ==
  OutcomesFiled /\ AssessedRecorded /\ DoneAnswered /\ ActiveUndecided /\ SourceIsCanonical

LEMMA OutboxMatches == PointerInv /\ OutboxInv => OutcomesMatchOutbox
<1> SUFFICES ASSUME PointerInv, OutboxInv PROVE OutcomesMatchOutbox
  OBVIOUS
<1>1. Accounted = Assessed
  BY AccountedAssessed
<1>2. ASSUME NEW e \in Events, outbox[e] = "DONE", outcomes[e] = "NONE"
      PROVE  \E a \in Committed(Canonical) \ Accounted :
               attempts[a].source /\ attempts[a].event = e
  <2>1. PICK a \in Committed(Canonical) : attempts[a].source /\ attempts[a].event = e
    BY <1>2 DEF OutboxInv, DoneAnswered
  <2>2. a \notin Accounted
    BY <1>1, <1>2, <2>1 DEF OutboxInv, AssessedRecorded
  <2>3. QED
    BY <2>1, <2>2
<1>3. QED
  BY <1>1, <1>2 DEF OutboxInv, OutcomesFiled, AssessedRecorded, OutcomesMatchOutbox

LEMMA PointerMatches == PointerInv /\ OutboxInv => PointerMatchesJournal
<1> SUFFICES ASSUME PointerInv, OutboxInv PROVE PointerMatchesJournal
  OBVIOUS
<1>1. Outside = {} => \A a \in HeldOf(Canonical) : active = a
  BY DEF PointerInv, HeldIsActive, Outside, HeldOf
<1>2. active # NULL => /\ admission[active] # NoAdmission
                       /\ numeric # active /\ health # active
  BY DEF PointerInv, ActiveAdmitted, BaselinesSettled
<1>3. QED
  BY <1>1, <1>2 DEF OutboxInv, ActiveUndecided, PointerMatchesJournal

(* A pending event has no outcome yet. *)
LEMMA PendingUndecided ==
  ASSUME TypeOK, OutboxInv, NEW e \in Events, outbox[e] = "PENDING"
  PROVE  outcomes[e] = "NONE"
BY DEF TypeOK, DispatchTypeOK, OutboxInv, OutcomesFiled

(* No step of the journal changes what an attempt is for, or takes back an *)
(* answer.                                                                 *)
JournalStays ==
  \A z \in Attempts : attempts[z].status # "NONE" =>
    /\ attempts'[z].case = attempts[z].case
    /\ attempts'[z].event = attempts[z].event
    /\ attempts'[z].source = attempts[z].source
    /\ attempts[z].status = "COMMITTED" => attempts'[z].status = "COMMITTED"

LEMMA ReserveStays ==
  ASSUME JournalTypeOK, NEW a \in Attempts, NEW c, NEW e, NEW source, NEW t,
         ReserveRow(a, c, e, source, t)
  PROVE  /\ JournalStays
         /\ \A z \in Attempts : attempts'[z].status = "COMMITTED" <=> attempts[z].status = "COMMITTED"
<1>1. /\ \A z \in Attempts \ {a} : attempts'[z] = attempts[z]
      /\ attempts[a].status = "NONE" /\ attempts'[a].status = "RESERVED"
  BY DEF ReserveRow, JournalTypeOK, NoAttempt
<1>2. QED
  BY <1>1 DEF JournalStays

LEMMA SettleStays ==
  ASSUME JournalTypeOK, NEW a \in Attempts, NEW status, NEW t, attempts[a].status \in Held,
         Settle(a, status, t)
  PROVE  JournalStays
BY SettleKeeps DEF JournalStays, Held

(* Answers once given stay given. *)
LEMMA DoneStays ==
  ASSUME DoneAnswered, JournalStays, NEW e \in Events, outbox[e] = "DONE"
  PROVE  \E a \in Committed(Canonical)' : attempts'[a].source /\ attempts'[a].event = e
BY DEF DoneAnswered, JournalStays, Committed, AttemptsOf

(* The recorded ones stay what they answer. *)
LEMMA AssessedStays ==
  ASSUME AssessedRecorded, JournalStays, Assessed' = Assessed, NEW e \in Events,
         outcomes'[e] = "ASSESSED" <=> outcomes[e] = "ASSESSED"
  PROVE  outcomes'[e] = "ASSESSED" <=>
           \E a \in Assessed' : attempts'[a].source /\ attempts'[a].event = e
<1>1. \A a \in Assessed : /\ attempts'[a].source = attempts[a].source
                          /\ attempts'[a].event = attempts[a].event
  BY DEF JournalStays, Assessed
<1>2. QED
  BY <1>1 DEF AssessedRecorded

(* Steps that record nothing, but may seal events. *)
LEMMA OutboxStands ==
  ASSUME TypeOK, PointerInv, OutboxInv, SourceIsCanonical', JournalStays, Assessed' = Assessed,
         UNCHANGED <<active, outcomes>>,
         \A e \in Events : outbox'[e] # outbox[e] => outbox[e] = "NONE" /\ outbox'[e] = "PENDING"
  PROVE  OutboxInv'
<1>1. OutcomesFiled'
  BY DEF OutboxInv, OutcomesFiled, TypeOK, DispatchTypeOK
<1>2. AssessedRecorded'
  BY AssessedStays DEF OutboxInv, AssessedRecorded
<1>3. DoneAnswered'
  BY DoneStays DEF OutboxInv, DoneAnswered
<1>4. ActiveUndecided'
  BY ActiveAttempt DEF OutboxInv, ActiveUndecided, JournalStays
<1>5. QED
  BY <1>1, <1>2, <1>3, <1>4 DEF OutboxInv

LEMMA OutboxKept ==
  ASSUME TypeOK, PointerInv, OutboxInv, UNCHANGED <<attempts, active, admission, outcomes>>,
         \A e \in Events : outbox'[e] # outbox[e] => outbox[e] = "NONE" /\ outbox'[e] = "PENDING"
  PROVE  OutboxInv'
<1>1. JournalStays /\ Assessed' = Assessed
  BY DEF JournalStays, Assessed
<1>2. SourceIsCanonical'
  BY DEF OutboxInv, SourceIsCanonical
<1>3. QED
  BY <1>1, <1>2, OutboxStands

LEMMA OutboxSuppress ==
  ASSUME TypeOK, OutboxInv, NEW e \in Sealed, NEW t \in Times, Suppress(e, t)
  PROVE  OutboxInv'
<1>1. e \in Events /\ outbox[e] = "PENDING" /\ outcomes[e] = "NONE"
  BY DEF Suppress, Acknowledge, Sealed
<1>2. /\ outbox'[e] = "SUPPRESSED" /\ outcomes'[e] = "SUPPRESSED"
      /\ \A x \in Events \ {e} : outbox'[x] = outbox[x] /\ outcomes'[x] = outcomes[x]
  BY <1>1 DEF Suppress, Acknowledge, TypeOK, DispatchTypeOK
<1>3. attempts' = attempts /\ admission' = admission /\ active = NULL /\ active' = NULL
  BY DEF Suppress, Ready, journalVars
<1>4. SourceIsCanonical' /\ JournalStays /\ Assessed' = Assessed
  BY <1>3 DEF OutboxInv, SourceIsCanonical, JournalStays, Assessed
<1>5. OutcomesFiled'
  BY <1>2 DEF OutboxInv, OutcomesFiled
<1>6. \A x \in Events : /\ outcomes'[x] = "ASSESSED" <=> outcomes[x] = "ASSESSED"
                        /\ outbox'[x] = "DONE" <=> outbox[x] = "DONE"
  BY <1>1, <1>2
<1>7. AssessedRecorded'
  BY <1>4, <1>6, AssessedStays DEF OutboxInv, AssessedRecorded
<1>8. DoneAnswered'
  BY <1>4, <1>6, DoneStays DEF OutboxInv, DoneAnswered
<1>9. QED
  BY <1>3, <1>4, <1>5, <1>7, <1>8 DEF OutboxInv, ActiveUndecided

LEMMA OutboxAdmit ==
  ASSUME TypeOK, OutboxInv, NEW r \in Runners, NEW e \in Sealed, NEW a \in Attempts,
         NEW t \in Times, Admit(r, e, a, t)
  PROVE  OutboxInv'
<1> USE DEF TypeOK, DeliveryTypeOK
<1> DEFINE earlier == IF initial = NULL THEN Pending \ {e} ELSE {}
<1>1. \A x \in Events :
        IF x \in earlier THEN outbox'[x] = "HISTORY" /\ outcomes'[x] = "HISTORY"
                        ELSE outbox'[x] = outbox[x] /\ outcomes'[x] = outcomes[x]
  BY DEF Admit, Acknowledge
<1>2. ReserveRow(a, Canonical, e, Pending # {}, t) /\ \A x \in earlier : outcomes[x] = "NONE"
  BY DEF Admit
<1>3. SourceIsCanonical' /\ JournalStays
  BY <1>2, CanonicalReserve, ReserveStays DEF OutboxInv
<1>4. /\ attempts'[a].event = e /\ attempts'[a].source = (Pending # {})
      /\ attempts[a].status = "NONE" /\ attempts'[a].status = "RESERVED"
      /\ \A z \in Attempts \ {a} : attempts'[z] = attempts[z] /\ admission'[z] = admission[z]
      /\ active = NULL /\ active' = a
  BY <1>2 DEF Admit, Ready, ReserveRow, NoAttempt, JournalTypeOK, DispatchTypeOK
<1>5. Assessed' = Assessed
  BY <1>4, DeliveryAssumption DEF Assessed
<1>6. e \in Events /\ e \notin earlier /\ (Pending # {} => outbox[e] = "PENDING")
  BY DEF Admit, Ready, Candidate, Newest, Oldest, Pending, Sealed
<1>7. \A x \in earlier : outbox[x] = "PENDING"
  BY DEF Pending
<1>8. ActiveUndecided'
  BY <1>1, <1>4, <1>6, PendingUndecided DEF ActiveUndecided
<1> HIDE DEF earlier
<1>9. OutcomesFiled'
  BY <1>1 DEF OutboxInv, OutcomesFiled
<1>10. \A x \in Events : /\ outcomes'[x] = "ASSESSED" <=> outcomes[x] = "ASSESSED"
                         /\ outbox'[x] = "DONE" <=> outbox[x] = "DONE"
  BY <1>1, <1>2, <1>7
<1>11. AssessedRecorded'
  BY <1>3, <1>5, <1>10, AssessedStays DEF OutboxInv, AssessedRecorded
<1>12. DoneAnswered'
  BY <1>3, <1>10, DoneStays DEF OutboxInv, DoneAnswered
<1>13. QED
  BY <1>3, <1>8, <1>9, <1>11, <1>12 DEF OutboxInv

(* A recorded answer joins the assessed ones, and gives its event both its *)
(* outcome and its disposition.                                            *)
LEMMA AssessedRecords ==
  ASSUME TypeOK, PointerInv, NEW r \in Runners, NEW a \in Attempts, NEW d \in Decisions,
         NEW t \in Times, Records(r, a, d, t)
  PROVE  Assessed' = Assessed \cup {a}
<1> USE DEF TypeOK, DeliveryTypeOK
<1>1. \A z \in Attempts : attempts'[z].status = (IF z = a THEN "COMMITTED" ELSE attempts[z].status)
  BY SettleKeeps DEF Records, Applies, Held
<1>2. active = a /\ active' = NULL /\ admission' = admission /\ NULL \notin Attempts
  BY DeliveryAssumption DEF Records, RecordAssessed, MayFinish
<1>3. admission[a] # NoAdmission
  BY <1>2 DEF PointerInv, ActiveAdmitted
<1>4. QED
  BY <1>1, <1>2, <1>3 DEF Assessed

LEMMA OutboxRecords ==
  ASSUME TypeOK, PointerInv, OutboxInv, NEW r \in Runners, NEW a \in Attempts, NEW d \in Decisions,
         NEW t \in Times, Records(r, a, d, t)
  PROVE  OutboxInv'
<1> USE DEF TypeOK, DeliveryTypeOK
<1>1. /\ attempts[a].status \in Held /\ Settle(a, "COMMITTED", t)
      /\ Applies(a, d, t) /\ RecordAssessed(a, t)
  BY DEF Records, Applies, Held
<1>2. SourceIsCanonical' /\ JournalStays /\ Assessed' = Assessed \cup {a}
  BY <1>1, CanonicalSettle, SettleStays, AssessedRecords DEF OutboxInv
<1>3. ActiveUndecided'
  BY <1>1 DEF RecordAssessed, ActiveUndecided
<1>4. /\ \A z \in Assessed \cup {a} : /\ attempts'[z].source = attempts[z].source
                                      /\ attempts'[z].event = attempts[z].event
      /\ attempts'[a].status = "COMMITTED" /\ attempts'[a].case = attempts[a].case
  BY <1>1, SettleKeeps DEF Assessed
<1>5. CASE attempts[a].source
  <2>1. PICK e : e = attempts[a].event
    OBVIOUS
  <2>2. /\ outbox[e] = "PENDING"
        /\ \A x \in Events : outbox'[x] = IF x = e THEN "DONE" ELSE outbox[x]
    BY <1>1, <1>5, <2>1 DEF Applies, Acknowledges, Acknowledge
  <2>3. \A x \in Events : outcomes'[x] = IF x = e THEN "ASSESSED" ELSE outcomes[x]
    BY <1>1, <1>5, <2>1 DEF RecordAssessed, DispatchTypeOK
  <2>4. OutcomesFiled'
    BY <2>2, <2>3 DEF OutboxInv, OutcomesFiled
  <2>5. AssessedRecorded'
    <3> SUFFICES ASSUME NEW x \in Events
                 PROVE  outcomes'[x] = "ASSESSED" <=>
                          \E z \in Assessed \cup {a} : attempts[z].source /\ attempts[z].event = x
      BY <1>2, <1>4 DEF AssessedRecorded
    <3>1. outcomes[x] = "ASSESSED" <=> \E z \in Assessed : attempts[z].source /\ attempts[z].event = x
      BY DEF OutboxInv, AssessedRecorded
    <3>2. QED
      BY <1>5, <2>1, <2>3, <3>1
  <2>6. a \in Committed(Canonical)'
    BY <1>4, <1>5 DEF Committed, AttemptsOf, OutboxInv, SourceIsCanonical
  <2>7. DoneAnswered'
    BY <1>2, <1>4, <1>5, <2>1, <2>2, <2>6, DoneStays DEF OutboxInv, DoneAnswered
  <2>8. QED
    BY <1>2, <1>3, <2>4, <2>5, <2>7 DEF OutboxInv
<1>6. CASE ~attempts[a].source
  <2>1. outcomes' = outcomes /\ outbox' = outbox
    BY <1>1, <1>6 DEF RecordAssessed, Applies, Acknowledges, sourceVars
  <2>2. AssessedRecorded'
    BY <1>2, <1>4, <1>6, <2>1 DEF OutboxInv, AssessedRecorded
  <2>3. DoneAnswered'
    BY <1>2, <2>1, DoneStays DEF OutboxInv, DoneAnswered
  <2>4. OutcomesFiled'
    BY <2>1 DEF OutboxInv, OutcomesFiled
  <2>5. QED
    BY <1>2, <1>3, <2>2, <2>3, <2>4 DEF OutboxInv
<1>7. QED
  BY <1>5, <1>6

LEMMA OutboxSettle ==
  ASSUME TypeOK, PointerInv, OutboxInv, NEW a \in Attempts, NEW t, Releasing(a, t),
         UNCHANGED dispatchVars
  PROVE  OutboxInv'
<1> USE DEF TypeOK, DeliveryTypeOK
<1>1. PICK status \in {"STALE", "FAILED", "ABANDONED"} :
        /\ attempts[a].status \in Held /\ Settle(a, status, t)
        /\ UNCHANGED <<used, sourceVars, ledgerVars>>
  BY DEF Releasing
<1>2. SourceIsCanonical' /\ JournalStays
  BY <1>1, CanonicalSettle, SettleStays DEF OutboxInv
<1>3. UNCHANGED <<outbox, outcomes, active, admission>>
  BY <1>1 DEF dispatchVars, settingsVars, recordVars, sourceVars
<1>4. Assessed' = Assessed
  BY <1>1, <1>3, SettleKeeps DEF Assessed, Held
<1>5. QED
  BY <1>2, <1>3, <1>4, OutboxStands

(* An answer applied through the journal: dispatch records nothing of it,  *)
(* whether it admitted the attempt or not.                                 *)
LEMMA DirectUnrecorded ==
  ASSUME TypeOK, PointerInv, NEW a \in Attempts, NEW d, NEW t, Complete(a, d, t),
         UNCHANGED dispatchVars
  PROVE  Assessed' = Assessed /\ (admission[a] # NoAdmission => active = a)
<1> USE DEF TypeOK, DeliveryTypeOK
<1>1. attempts[a].status \in Held /\ Settle(a, "COMMITTED", t)
  BY DEF Complete, Held
<1>2. \A z \in Attempts : attempts'[z].status = (IF z = a THEN "COMMITTED" ELSE attempts[z].status)
  BY <1>1, SettleKeeps
<1>3. admission[a] # NoAdmission => active = a
  BY <1>1 DEF PointerInv, AdmittedHere, HeldIsActive, HeldOf, AttemptsOf
<1>4. admission' = admission /\ active' = active
  BY DEF dispatchVars, settingsVars, recordVars
<1>5. QED
  BY <1>1, <1>2, <1>3, <1>4 DEF Assessed, Held

LEMMA OutboxDirect ==
  ASSUME TypeOK, OutboxInv, PointerInv, NEW a \in Attempts, NEW d \in Decisions, NEW t \in Times,
         Complete(a, d, t), UNCHANGED dispatchVars
  PROVE  OutboxInv'
<1> USE DEF TypeOK, DeliveryTypeOK
<1>1. attempts[a].status \in Held /\ Settle(a, "COMMITTED", t)
  BY DEF Complete, Held
<1>2. SourceIsCanonical' /\ JournalStays /\ Assessed' = Assessed
  BY <1>1, CanonicalSettle, SettleStays, DirectUnrecorded DEF OutboxInv
<1>3. outcomes' = outcomes /\ active' = active
  BY DEF dispatchVars, settingsVars, recordVars
<1>4. CASE attempts[a].source
  <2>1. PICK e : e = attempts[a].event
    OBVIOUS
  <2>2. /\ e \in Events /\ outbox[e] = "PENDING"
        /\ \A x \in Events : outbox'[x] = IF x = e THEN "DONE" ELSE outbox[x]
    BY <1>1, <1>4, <2>1, AttemptRecord
    DEF Complete, Acknowledges, Acknowledge, Held, AttemptStatuses, Attempt
  <2>3. outcomes[e] = "NONE"
    BY <2>2, PendingUndecided
  <2>4. OutcomesFiled'
    BY <1>3, <2>2, <2>3 DEF OutboxInv, OutcomesFiled
  <2>5. AssessedRecorded'
    BY <1>2, <1>3, AssessedStays DEF OutboxInv, AssessedRecorded
  <2>6. a \in Committed(Canonical)' /\ attempts'[a].source /\ attempts'[a].event = e
    BY <1>1, <1>4, <2>1, SettleKeeps DEF Committed, AttemptsOf, OutboxInv, SourceIsCanonical
  <2>7. DoneAnswered'
    BY <1>2, <2>2, <2>6, DoneStays DEF OutboxInv, DoneAnswered
  <2>8. ActiveUndecided'
    BY <1>2, <1>3, ActiveAttempt DEF OutboxInv, ActiveUndecided, JournalStays
  <2>9. QED
    BY <1>2, <2>4, <2>5, <2>7, <2>8 DEF OutboxInv
<1>5. CASE ~attempts[a].source
  <2>1. outbox' = outbox
    BY <1>5 DEF Complete, Acknowledges, sourceVars
  <2>2. QED
    BY <1>2, <1>3, <2>1, OutboxStands
<1>6. QED
  BY <1>4, <1>5

LEMMA OutboxElsewhere ==
  ASSUME TypeOK, OutboxInv, PointerInv, Elsewhere
  PROVE  OutboxInv'
<1> USE DEF TypeOK, DeliveryTypeOK
<1>1. /\ UNCHANGED dispatchVars
      /\ UNCHANGED <<outcomes, admission, active>>
  BY DEF Elsewhere, Surroundings, JournalCalls, dispatchVars, settingsVars, recordVars
<1>2. ASSUME NEW S \in SUBSET Sealable, SealEvents(S), UNCHANGED journalVars
      PROVE  OutboxInv'
  <2>1. \A e \in Events : outbox'[e] # outbox[e] => outbox[e] = "NONE" /\ outbox'[e] = "PENDING"
    BY <1>2 DEF SealEvents, Sealable
  <2>2. QED
    BY <1>1, <1>2, <2>1, OutboxKept DEF journalVars
<1>3. ASSUME NEW q \in Requests, NEW t \in Times, PersonActs(q, t)
      PROVE  OutboxInv'
  <2>1. UNCHANGED <<sourceVars, journalVars>>
    BY <1>3, PersonFacts
  <2>2. QED
    BY <1>1, <2>1, OutboxKept DEF sourceVars, journalVars
<1>4. ASSUME NEW a \in Attempts, NEW t \in Times, Abandon(a, t)
      PROVE  OutboxInv'
  BY <1>1, <1>4, Releases, OutboxSettle
<1>5. ASSUME NEW a \in Direct, NEW t \in Times, NEW c, NEW e, NEW source,
             Reserve(a, c, e, source, t)
      PROVE  OutboxInv'
  <2>1. a \in Attempts /\ ReserveRow(a, c, e, source, t) /\ outbox' = outbox
    BY <1>5, DispatchAssumption DEF Reserve, sourceVars
  <2>2. /\ SourceIsCanonical' /\ JournalStays
        /\ \A z \in Attempts : attempts'[z].status = "COMMITTED" <=> attempts[z].status = "COMMITTED"
    BY <2>1, CanonicalReserve, ReserveStays DEF OutboxInv
  <2>3. Assessed' = Assessed
    BY <1>1, <2>2 DEF Assessed
  <2>4. QED
    BY <1>1, <2>1, <2>2, <2>3, OutboxStands
<1>6. ASSUME NEW a \in Attempts, NEW t \in Times, NEW d, KeepStale(a, d, t) \/ Fail(a, t)
      PROVE  OutboxInv'
  BY <1>1, <1>6, Releases, OutboxSettle
<1>7. ASSUME NEW a \in Attempts, NEW t \in Times, NEW d \in Decisions, Complete(a, d, t)
      PROVE  OutboxInv'
  BY <1>1, <1>7, OutboxDirect
<1>8. QED
  BY <1>2, <1>3, <1>4, <1>5, <1>6, <1>7 DEF Elsewhere, Surroundings, JournalCalls

(* Pointer and outbox, together inductive with the types. *)
DispatchInv == TypeOK /\ PointerInv /\ OutboxInv

LEMMA OutboxStep ==
  ASSUME DispatchInv, [Next]_vars
  PROVE  OutboxInv'
<1> USE DEF DispatchInv
<1>1. ASSUME \/ \E t \in Times : Activate(t)
             \/ \E r \in Runners : FailCheck(r) \/ Lose(r)
             \/ UNCHANGED vars
      PROVE  OutboxInv'
  <2>1. UNCHANGED <<attempts, active, admission, outcomes, outbox>>
    BY <1>1 DEF Activate, FailCheck, Lose, vars, dispatchVars, settingsVars, recordVars,
                journalVars, sourceVars
  <2>2. QED
    BY <2>1, OutboxKept
<1>2. ASSUME NEW r \in Runners, Prepare(r)
      PROVE  OutboxInv'
  BY <1>2, OutboxSuppress, OutboxAdmit DEF Prepare
<1>3. ASSUME NEW r \in Runners, Conclude(r)
      PROVE  OutboxInv'
  <2>1. runner[r].attempt \in Attempts
    BY <1>3, RunnerAttempt
       DEF Conclude, Finish, RecordAssessed, FinishStale, FailWrite, Idle, TypeOK
  <2>2. ASSUME NEW d \in Decisions, NEW t \in Times, Finish(r, d, t)
        PROVE  OutboxInv'
    BY <2>2, FinishRecords, OutboxRecords DEF DispatchInv
  <2>3. ASSUME NEW d \in Decisions, NEW t \in Times, FinishStale(r, d, t)
        PROVE  OutboxInv'
    BY <2>1, <2>3, Releases, OutboxSettle DEF FinishStale
  <2>4. ASSUME NEW t \in Times, FailWrite(r, t)
        PROVE  OutboxInv'
    BY <2>1, <2>4, Releases, OutboxSettle DEF FailWrite
  <2>5. QED
    BY <1>3, <2>2, <2>3, <2>4 DEF Conclude
<1>4. CASE Elsewhere
  BY <1>4, OutboxElsewhere
<1>5. QED
  BY <1>1, <1>2, <1>3, <1>4 DEF Next, Elsewhere

LEMMA InitDispatchInv == Init => DispatchInv
<1>1. Init => OutboxInv
  <2> SUFFICES ASSUME Init PROVE OutboxInv
    OBVIOUS
  <2>1. (\A e \in Events : outbox[e] = "NONE" /\ outcomes[e] = "NONE") /\ active = NULL
    BY DEF Init, SourceInit
  <2>2. \A a \in Attempts : attempts[a].source = FALSE /\ attempts[a].status = "NONE"
    BY DEF Init, JournalInit, NoAttempt
  <2>3. QED
    BY <2>1, <2>2 DEF OutboxInv, OutcomesFiled, AssessedRecorded, DoneAnswered, ActiveUndecided,
                      Assessed, SourceIsCanonical
<1>2. QED
  BY <1>1, DispatchInitType, PointerInit DEF DispatchInv

LEMMA DispatchInvHolds == Spec => []DispatchInv
<1>1. DispatchInv /\ [Next]_vars => DispatchInv'
  BY DispatchStepType, PointerStep, OutboxStep DEF DispatchInv
<1>2. QED
  BY <1>1, InitDispatchInv, PTL DEF Spec

(* For any number of runners, restarts, people and uses of the journal,    *)
(* the settings never point at one attempt while another admitted one is   *)
(* unresolved, nor at one whose answer became a baseline or the outcome of *)
(* its event.                                                              *)
THEOREM PointerMatchesJournalHolds == Spec => []PointerMatchesJournal
<1>1. DispatchInv => PointerMatchesJournal
  BY PointerMatches DEF DispatchInv
<1>2. QED
  BY <1>1, DispatchInvHolds, PTL

(* Bootstrap, suppression, completion and direct uses of the journal       *)
(* dispose of events in different tables; what dispatch recorded is what   *)
(* the outbox says, for any number of events, attempts and runners, and    *)
(* what it did not record is the answer of one that went past it.          *)
THEOREM OutcomesMatchOutboxHolds == Spec => []OutcomesMatchOutbox
<1>1. DispatchInv => OutcomesMatchOutbox
  BY OutboxMatches DEF DispatchInv
<1>2. QED
  BY <1>1, DispatchInvHolds, PTL

----------------------------------------------------------------------------
(* What an invocation in flight relies on stays put.                       *)

(* A new admission is valid. *)
LEMMA ValidAdmit ==
  ASSUME TypeOK, OutboxInv, NEW r \in Runners, NEW e \in Sealed, NEW a \in Attempts,
         NEW t \in Times, Admit(r, e, a, t)
  PROVE  AdmissionStaysValid'
<1> USE DEF TypeOK, DeliveryTypeOK
<1> DEFINE earlier == IF initial = NULL THEN Pending \ {e} ELSE {}
<1>1. /\ active' = a /\ numeric' = numeric /\ health' = health /\ handled' = handled
      /\ admission'[a].numeric = numeric /\ admission'[a].health = health
      /\ admission'[a].due = DueChecks(t)
  BY DEF Admit, DispatchTypeOK
<1>2. attempts'[a].event = e /\ attempts'[a].source = (Pending # {})
  BY DEF Admit, ReserveRow, JournalTypeOK
<1>3. e \in Events /\ (Pending # {} => outbox[e] = "PENDING")
  BY DEF Admit, Ready, Candidate, Newest, Oldest, Pending, Sealed
<1>4. outbox'[e] = outbox[e] /\ outcomes'[e] = outcomes[e]
  <2>1. e \notin earlier
    OBVIOUS
  <2>2. QED
    BY <1>3, <2>1 DEF Admit, Acknowledge
<1>5. DueChecks(t) \cap handled = {}
  BY DEF DueChecks
<1>6. Pending # {} => outcomes[e] = "NONE"
  BY <1>3, PendingUndecided
<1>7. QED
  BY <1>1, <1>2, <1>3, <1>4, <1>5, <1>6 DEF AdmissionStaysValid

(* Nothing it relies on moves while an attempt stays reserved. *)
LEMMA ValidKept ==
  ASSUME AdmissionStaysValid,
         UNCHANGED <<active, numeric, health, admission, handled, outcomes>>,
         \A a \in Attempts : active = a /\ attempts'[a].status = "RESERVED" =>
           /\ attempts[a].status = "RESERVED"
           /\ attempts'[a].event = attempts[a].event
           /\ attempts'[a].source = attempts[a].source
           /\ attempts[a].source /\ outbox[attempts[a].event] = "PENDING" =>
                outbox'[attempts[a].event] = "PENDING"
  PROVE  AdmissionStaysValid'
BY DEF AdmissionStaysValid

LEMMA ValidSettle ==
  ASSUME TypeOK, AdmissionStaysValid, NEW a \in Attempts, NEW t, Releasing(a, t),
         UNCHANGED dispatchVars
  PROVE  AdmissionStaysValid'
<1>1. PICK status \in {"STALE", "FAILED", "ABANDONED"} :
        /\ attempts[a].status \in Held /\ Settle(a, status, t)
        /\ UNCHANGED <<used, sourceVars, ledgerVars>>
  BY DEF Releasing
<1>2. outbox' = outbox
  BY <1>1 DEF sourceVars
<1>3. \A z \in Attempts : attempts'[z].status = "RESERVED" => attempts'[z] = attempts[z]
  BY <1>1, SettledNotReserved DEF TypeOK, DeliveryTypeOK
<1>4. QED
  BY <1>2, <1>3, ValidKept DEF dispatchVars, settingsVars, recordVars

(* A completion through the journal answers for the event of an invocation *)
(* that dispatch waits for only when it completes that very invocation.    *)
LEMMA ValidDirect ==
  ASSUME DispatchInv, OneUnresolved, AdmissionStaysValid, NEW a \in Attempts,
         NEW d \in Decisions, NEW t \in Times, Complete(a, d, t), UNCHANGED dispatchVars
  PROVE  AdmissionStaysValid'
<1> USE DEF DispatchInv, TypeOK, DeliveryTypeOK
<1>1. attempts[a].status = "RESERVED" /\ Settle(a, "COMMITTED", t)
  BY DEF Complete
<1>2. /\ \A z \in Attempts : attempts'[z].status = "RESERVED" => attempts'[z] = attempts[z]
      /\ attempts'[a].status = "COMMITTED"
  BY <1>1, SettledNotReserved, SettleKeeps DEF Held
<1>3. ASSUME NEW z \in Attempts, active = z, attempts'[z].status = "RESERVED"
      PROVE  outbox' = outbox
  <2>1. z # a /\ attempts[z].status = "RESERVED" /\ attempts[z].case = Canonical
    BY <1>2, <1>3, DeliveryAssumption, ActiveAttempt
  <2>2. attempts[a].case # Canonical
    BY <1>1, <2>1 DEF OneUnresolved
  <2>3. ~attempts[a].source
    BY <1>1, <2>2 DEF OutboxInv, SourceIsCanonical
  <2>4. QED
    BY <2>3 DEF Complete, Acknowledges, sourceVars
<1>4. QED
  BY <1>2, <1>3, ValidKept DEF dispatchVars, settingsVars, recordVars

LEMMA ValidElsewhere ==
  ASSUME DispatchInv, OneUnresolved, AdmissionStaysValid, Elsewhere
  PROVE  AdmissionStaysValid'
<1> USE DEF DispatchInv
<1>1. UNCHANGED dispatchVars
  BY DEF Elsewhere, Surroundings, JournalCalls
<1>2. UNCHANGED <<active, numeric, health, admission, handled, outcomes>>
  BY <1>1 DEF dispatchVars, settingsVars, recordVars
<1>3. ASSUME NEW S \in SUBSET Sealable, SealEvents(S), UNCHANGED journalVars
      PROVE  AdmissionStaysValid'
  <2>1. \A e \in Events : outbox[e] = "PENDING" => outbox'[e] = "PENDING"
    BY <1>3 DEF SealEvents, Sealable
  <2>2. \A a \in Attempts : attempts[a].status = "RESERVED" => attempts[a].event \in Events
    BY AttemptRecord DEF TypeOK, DeliveryTypeOK, AttemptStatuses, Attempt
  <2>3. QED
    BY <1>2, <1>3, <2>1, <2>2, ValidKept DEF journalVars
<1>4. ASSUME NEW q \in Requests, NEW t \in Times, PersonActs(q, t)
      PROVE  AdmissionStaysValid'
  <2>1. UNCHANGED <<sourceVars, journalVars>>
    BY <1>4, PersonFacts DEF TypeOK
  <2>2. QED
    BY <1>2, <2>1, ValidKept DEF sourceVars, journalVars
<1>5. ASSUME NEW a \in Attempts, NEW t \in Times, Abandon(a, t)
      PROVE  AdmissionStaysValid'
  BY <1>1, <1>5, Releases, ValidSettle
<1>6. ASSUME NEW a \in Direct, NEW t \in Times, NEW c, NEW e, NEW source,
             Reserve(a, c, e, source, t)
      PROVE  AdmissionStaysValid'
  <2>1. a \in Attempts /\ active # a
    BY DispatchAssumption, LedgerAssumption, DeliveryAssumption
       DEF PointerInv, AdmittedHere, ActiveAdmitted
  <2>2. \A z \in Attempts \ {a} : attempts'[z] = attempts[z]
    BY <1>6 DEF Reserve, ReserveRow, JournalTypeOK, TypeOK, DeliveryTypeOK
  <2>3. outbox' = outbox
    BY <1>6 DEF Reserve, sourceVars
  <2>4. QED
    BY <1>2, <2>1, <2>2, <2>3, ValidKept
<1>7. ASSUME NEW a \in Attempts, NEW t \in Times, NEW d, KeepStale(a, d, t) \/ Fail(a, t)
      PROVE  AdmissionStaysValid'
  BY <1>1, <1>7, Releases, ValidSettle
<1>8. ASSUME NEW a \in Attempts, NEW t \in Times, NEW d \in Decisions, Complete(a, d, t)
      PROVE  AdmissionStaysValid'
  BY <1>1, <1>8, ValidDirect
<1>9. QED
  BY <1>3, <1>4, <1>5, <1>6, <1>7, <1>8 DEF Elsewhere, Surroundings, JournalCalls

(* Once an answer is applied no invocation is out. *)
LEMMA ValidRecords ==
  ASSUME NEW r, NEW a, NEW d, NEW t, Records(r, a, d, t)
  PROVE  AdmissionStaysValid'
BY DeliveryAssumption DEF Records, RecordAssessed, AdmissionStaysValid

LEMMA ValidStep ==
  ASSUME DispatchInv, OneUnresolved, AdmissionStaysValid, [Next]_vars
  PROVE  AdmissionStaysValid'
<1> USE DEF DispatchInv
<1>1. NULL \notin Attempts
  BY DeliveryAssumption
<1>2. ASSUME NEW r \in Runners, Prepare(r)
      PROVE  AdmissionStaysValid'
  <2>1. PICK e \in Sealed, t \in Times :
          Suppress(e, t) \/ \E a \in Attempts \ Direct : Admit(r, e, a, t)
    BY <1>2 DEF Prepare
  <2>2. CASE Suppress(e, t)
    BY <1>1, <2>2 DEF Suppress, Ready, AdmissionStaysValid
  <2>3. ASSUME NEW a \in Attempts \ Direct, Admit(r, e, a, t)
        PROVE  AdmissionStaysValid'
    BY <2>3, ValidAdmit
  <2>4. QED
    BY <2>1, <2>2, <2>3
<1>3. ASSUME NEW r \in Runners, Conclude(r)
      PROVE  AdmissionStaysValid'
  <2>1. runner[r].attempt \in Attempts
    BY <1>3, RunnerAttempt
       DEF Conclude, Finish, RecordAssessed, FinishStale, FailWrite, Idle, TypeOK
  <2>2. ASSUME NEW d \in Decisions, NEW t \in Times, Finish(r, d, t)
        PROVE  AdmissionStaysValid'
    BY <1>1, <2>2 DEF Finish, RecordAssessed, AdmissionStaysValid
  <2>3. ASSUME NEW d \in Decisions, NEW t \in Times, FinishStale(r, d, t)
        PROVE  AdmissionStaysValid'
    BY <2>1, <2>3, Releases, ValidSettle DEF FinishStale
  <2>4. ASSUME NEW t \in Times, FailWrite(r, t)
        PROVE  AdmissionStaysValid'
    BY <2>1, <2>4, Releases, ValidSettle DEF FailWrite
  <2>5. QED
    BY <1>3, <2>2, <2>3, <2>4 DEF Conclude
<1>4. ASSUME \/ \E t \in Times : Activate(t)
             \/ \E r \in Runners : FailCheck(r) \/ Lose(r)
             \/ UNCHANGED vars
      PROVE  AdmissionStaysValid'
  <2>1. /\ UNCHANGED <<active, numeric, health, admission, handled, outcomes>>
        /\ attempts' = attempts /\ outbox' = outbox
    BY <1>4 DEF Activate, FailCheck, Lose, vars, dispatchVars, settingsVars, recordVars,
                sourceVars, journalVars
  <2>2. QED
    BY <2>1, ValidKept
<1>5. CASE Elsewhere
  BY <1>5, ValidElsewhere
<1>6. QED
  BY <1>2, <1>3, <1>4, <1>5 DEF Next, Elsewhere

(* While an answer is being computed, baselines, event, outcome and due    *)
(* checks stay as they were admitted, so the transaction that records it   *)
(* is never refused for one of them: a paid answer is not lost to a race   *)
(* of the dispatcher with itself, with polls or with outside invocations.  *)
THEOREM AdmissionStaysValidHolds == Spec => []AdmissionStaysValid
<1>1. Init => AdmissionStaysValid
  BY DeliveryAssumption DEF Init, AdmissionStaysValid
<1>2. DispatchInv /\ OneUnresolved /\ AdmissionStaysValid /\ [Next]_vars => AdmissionStaysValid'
  BY ValidStep
<1>3. QED
  BY <1>1, <1>2, DispatchInvHolds, DispatchOneUnresolved, PTL DEF Spec

----------------------------------------------------------------------------
(* The counter of the queue *)

(* What a step does to the queue: seal, acknowledge, or nothing. *)
QueueStep ==
  \/ UNCHANGED sourceVars
  \/ \E S \in SUBSET Sealable : SealEvents(S)
  \/ \E f : /\ DOMAIN f \subseteq Events
            /\ \A e \in DOMAIN f : f[e] \in Dispositions
            /\ Acknowledge(f)

LEMMA AppliesQueue ==
  ASSUME DeliveryTypeOK, NEW a \in Attempts, NEW d \in Decisions, NEW t \in Times, Applies(a, d, t)
  PROVE  QueueStep
<1>1. CASE Acknowledges(a)
  <2> DEFINE f == [e \in {attempts[a].event} |-> "DONE"]
  <2>1. attempts[a].event \in Events
    BY DEF Applies, Held, DeliveryTypeOK, JournalTypeOK, Attempt, NoAttempt
  <2>2. Acknowledge(f)
    BY <1>1 DEF Applies
  <2>3. DOMAIN f \subseteq Events /\ \A e \in DOMAIN f : f[e] \in Dispositions
    BY <2>1 DEF Dispositions
  <2> HIDE DEF f
  <2>4. QED
    BY <2>2, <2>3 DEF QueueStep
<1>2. CASE ~Acknowledges(a)
  BY <1>2 DEF Applies, QueueStep
<1>3. QED
  BY <1>1, <1>2

LEMMA ReleaseQueue ==
  ASSUME NEW a \in Attempts, NEW t \in Times, Releasing(a, t)
  PROVE  QueueStep
<1>1. UNCHANGED sourceVars
  BY DEF Releasing
<1>2. QED
  BY <1>1 DEF QueueStep

LEMMA PrepareQueue ==
  ASSUME NEW e \in Sealed, NEW t \in Times, NEW r, NEW a, Suppress(e, t) \/ Admit(r, e, a, t)
  PROVE  QueueStep
<1>1. CASE Suppress(e, t)
  <2> DEFINE f == [x \in {e} |-> "SUPPRESSED"]
  <2>1. Acknowledge(f)
    BY <1>1 DEF Suppress
  <2>2. DOMAIN f \subseteq Events /\ \A x \in DOMAIN f : f[x] \in Dispositions
    BY DEF Sealed, Dispositions
  <2> HIDE DEF f
  <2>3. QED
    BY <2>1, <2>2 DEF QueueStep
<1>2. CASE Admit(r, e, a, t)
  <2> DEFINE f == [d \in (IF initial = NULL THEN Pending \ {e} ELSE {}) |-> "HISTORY"]
  <2>1. Acknowledge(f)
    BY <1>2 DEF Admit
  <2>2. DOMAIN f \subseteq Events /\ \A x \in DOMAIN f : f[x] \in Dispositions
    BY DEF Pending, Dispositions
  <2> HIDE DEF f
  <2>3. QED
    BY <2>1, <2>2 DEF QueueStep
<1>3. QED
  BY <1>1, <1>2

LEMMA DispatchQueue ==
  ASSUME TypeOK, [Next]_vars
  PROVE  QueueStep
<1>1. ASSUME NEW t \in Times, Activate(t)
      PROVE  QueueStep
  BY <1>1 DEF Activate, QueueStep
<1>2. ASSUME NEW r \in Runners, Prepare(r)
      PROVE  QueueStep
  <2>1. PICK e \in Sealed, t \in Times :
          Suppress(e, t) \/ \E a \in Attempts \ Direct : Admit(r, e, a, t)
    BY <1>2 DEF Prepare
  <2>2. QED
    BY <2>1, PrepareQueue
<1>3. ASSUME NEW r \in Runners, Conclude(r)
      PROVE  QueueStep
  <2>1. PICK t \in Times :
          (\E d \in Decisions : Finish(r, d, t) \/ FinishStale(r, d, t)) \/ FailWrite(r, t)
    BY <1>3 DEF Conclude
  <2>2. runner[r] # Idle
    BY <2>1 DEF Finish, RecordAssessed, FinishStale, FailWrite, Idle
  <2>3. runner[r].attempt \in Attempts
    BY <2>2, RunnerAttempt DEF TypeOK
  <2>4. QED
    BY <2>1, <2>3, CompleteApplies, AppliesQueue, Releases, ReleaseQueue
       DEF Finish, RecordAssessed, FinishStale, FailWrite, TypeOK
<1>4. ASSUME NEW r \in Runners, FailCheck(r) \/ Lose(r)
      PROVE  QueueStep
  BY <1>4 DEF FailCheck, Lose, QueueStep
<1>5. CASE Elsewhere
  <2>1. ASSUME NEW q \in Requests, NEW t \in Times, PersonActs(q, t)
        PROVE  UNCHANGED sourceVars
    BY <2>1 DEF PersonActs
  <2>2. ASSUME NEW a \in Attempts, NEW c \in Cases, NEW e \in Events, NEW source \in BOOLEAN,
               NEW t \in Times, Reserve(a, c, e, source, t)
        PROVE  UNCHANGED sourceVars
    BY <2>2 DEF Reserve
  <2>3. QED
    BY <1>5, <2>1, <2>2, CompleteApplies, AppliesQueue, Releases, ReleaseQueue, DispatchAssumption
       DEF Elsewhere, Surroundings, JournalCalls, QueueStep, TypeOK
<1>6. CASE UNCHANGED vars
  BY <1>6 DEF vars, QueueStep
<1>7. QED
  BY <1>1, <1>2, <1>3, <1>4, <1>5, <1>6 DEF Next, Elsewhere

(* The pending counter is the number of pending rows, whoever sealed or    *)
(* acknowledged, and whatever rolled back.                                 *)
THEOREM PendingCountExactHolds == Spec => []PendingCountExact
<1>1. Init => PendingCountExact
  <2>1. SUFFICES ASSUME Init PROVE PendingCountExact
    OBVIOUS
  <2>2. Pending = {} /\ pendingCount = 0
    BY <2>1 DEF Init, SourceInit, Pending
  <2>3. QED
    BY <2>2, FS_EmptySet DEF PendingCountExact
<1>2. TypeOK /\ PendingCountExact /\ [Next]_vars => PendingCountExact'
  <2> SUFFICES ASSUME TypeOK, PendingCountExact, [Next]_vars PROVE PendingCountExact'
    OBVIOUS
  <2>1. CASE UNCHANGED sourceVars
    BY <2>1 DEF sourceVars, PendingCountExact, Pending
  <2>2. ASSUME NEW S \in SUBSET Sealable, SealEvents(S)
        PROVE  PendingCountExact'
    BY <2>2, SealCounts DEF TypeOK, DeliveryTypeOK
  <2>3. ASSUME NEW f, DOMAIN f \subseteq Events, \A e \in DOMAIN f : f[e] \in Dispositions,
               Acknowledge(f)
        PROVE  PendingCountExact'
    BY <2>3, AcknowledgeCounts DEF TypeOK, DeliveryTypeOK
  <2>4. QED
    BY <2>1, <2>2, <2>3, DispatchQueue DEF QueueStep
<1>3. QED
  BY <1>1, <1>2, DispatchTypes, PTL DEF Spec
----------------------------------------------------------------------------
(* Admissions, baselines and the queue.                                    *)

OutcomeSet(outcome) == {e \in Events : outcomes[e] = outcome}

(* The event of a baseline. *)
EventOf(a) == IF a = NULL THEN NULL ELSE attempts[a].event

(* x was sealed after e, in the same interval. *)
Follows(x, e) == Interval(x) = Interval(e) /\ Revision(x) > Revision(e)

(* The counters are the rows they stand for, and say which rows there can  *)
(* be: nothing is recorded before the first admission, nothing suppressed  *)
(* before the first baseline.                                              *)
CountsInv ==
  /\ counts.history = Cardinality(OutcomeSet("HISTORY"))
  /\ counts.suppressed = Cardinality(OutcomeSet("SUPPRESSED"))
  /\ counts.assessed = Cardinality(Assessed)
StartInv ==
  /\ initial = NULL => /\ active = NULL /\ Assessed = {}
                       /\ \A e \in Events : outcomes[e] = "NONE"
  /\ initial # NULL /\ Assessed = {} => active # NULL
  /\ numeric = NULL <=> Assessed = {}
  /\ health = NULL <=> Assessed = {}
  /\ Assessed = {} => OutcomeSet("SUPPRESSED") = {}

(* An admission is of an event, on baselines that were assessed, and moves *)
(* the numeric one exactly when that is forward.                           *)
AdmissionInv ==
  \A a \in Attempts : admission[a] # NoAdmission =>
    /\ attempts[a].event \in Events
    /\ admission[a].numeric # NULL => admission[a].numeric \in Assessed
    /\ admission[a].move =
         (admission[a].numeric = NULL \/ Before(EventOf(admission[a].numeric), attempts[a].event))

(* The baseline is the latest of what was assessed, and no longer waits. *)
BasisInv ==
  /\ numeric # NULL =>
       /\ numeric \in Assessed
       /\ outbox[attempts[numeric].event] \notin {"NONE", "PENDING"}
  /\ \A a \in Assessed : attempts[a].event = Basis \/ Before(attempts[a].event, Basis)
  /\ \A a \in Attempts : active = a /\ attempts[a].status = "RESERVED" /\ ~attempts[a].source =>
       outbox[attempts[a].event] \notin {"NONE", "PENDING"}

(* The revisions of an interval are sealed one after another and served in *)
(* that order: later revisions than one that waits, than the baseline or   *)
(* than the event in hand still wait, and none before the latter does.     *)
SealedPrefix ==
  \A e, x \in Events : Follows(x, e) /\ outbox[x] # "NONE" => outbox[e] # "NONE"
WaitsAfter(e) == \A x \in Events : Follows(x, e) /\ outbox[x] # "NONE" => outbox[x] = "PENDING"
Clear(e) == \A x \in Events : Follows(e, x) => outbox[x] # "PENDING"
PendingServed == \A e \in Pending : WaitsAfter(e)
BasisServed == numeric # NULL => WaitsAfter(Basis)
HandServed ==
  \A a \in Attempts : active = a /\ attempts[a].status = "RESERVED" =>
    WaitsAfter(attempts[a].event) /\ (attempts[a].source => Clear(attempts[a].event))

(* Nothing of the case was completed behind dispatch's back. *)
Undisturbed ==
  Outside = {} /\ \A a \in Attempts : active = a => attempts[a].status # "COMMITTED"
QueueInv ==
  SealedPrefix /\ (Undisturbed => PendingServed /\ BasisServed /\ HandServed)

(* Deliveries outside dispatch are never forgotten. *)
OutsideStays == Outside \subseteq Outside'

LEMMA OutsideKept ==
  ASSUME \A a \in Attempts : attempts[a].case = Canonical => attempts'[a].case = Canonical,
         \A a \in AttemptsOf(Canonical) : admission'[a] = admission[a]
  PROVE  OutsideStays
BY DEF OutsideStays, Outside, AttemptsOf

(* What a step means for them: an event is set aside, an invocation is     *)
(* opened, its answer is recorded or applied past dispatch, or something   *)
(* happens around dispatch that no admitted invocation notices but for     *)
(* being released.                                                         *)
SetsAside(e) ==
  /\ Outside = {} /\ active = NULL /\ numeric # NULL
  /\ Candidate(e) /\ Judged(e, Basis) /\ ~Late(e, Basis)
  /\ ~(e # Basis /\ (Supersedes(e, Basis) \/ CorrectsWork(e)))
  /\ e \in Pending /\ outcomes[e] = "NONE"
  /\ outbox' = [outbox EXCEPT ![e] = "SUPPRESSED"]
  /\ outcomes' = [outcomes EXCEPT ![e] = "SUPPRESSED"]
  /\ counts' = [counts EXCEPT !.suppressed = @ + 1]
  /\ UNCHANGED <<attempts, initial, numeric, health, active, admission, handled>>

Earlier(e) == IF initial = NULL THEN Pending \ {e} ELSE {}
Opens(a, e, t) ==
  /\ Outside = {} /\ active = NULL
  /\ Candidate(e) /\ Judged(e, Basis) /\ e \in Sealed
  /\ attempts[a] = NoAttempt /\ admission[a] = NoAdmission
  /\ \A x \in Attempts \ {a} : attempts'[x] = attempts[x] /\ admission'[x] = admission[x]
  /\ attempts'[a].status = "RESERVED" /\ attempts'[a].event = e
  /\ attempts'[a].source = (Pending # {})
  /\ admission'[a] # NoAdmission
  /\ admission'[a] = [numeric |-> numeric, health |-> health,
                      move |-> MovesNumeric(e, Basis), due |-> DueChecks(t)]
  /\ \A d \in Earlier(e) : outcomes[d] = "NONE"
  /\ outbox' = [d \in Events |-> IF d \in Earlier(e) THEN "HISTORY" ELSE outbox[d]]
  /\ outcomes' = [d \in Events |-> IF d \in Earlier(e) THEN "HISTORY" ELSE outcomes[d]]
  /\ counts' = [counts EXCEPT !.history = @ + Cardinality(Earlier(e))]
  /\ initial' = (IF initial = NULL THEN e ELSE initial) /\ active' = a
  /\ UNCHANGED <<numeric, health, handled>>

Assesses(a) ==
  LET e == attempts[a].event
  IN /\ Outside = {} /\ active = a
     /\ attempts[a].status = "RESERVED" /\ admission[a] # NoAdmission
     /\ numeric = admission[a].numeric /\ health = admission[a].health
     /\ admission[a].due \cap handled = {}
     /\ \A x \in Attempts : /\ attempts'[x].event = attempts[x].event
                            /\ attempts'[x].source = attempts[x].source
                            /\ attempts'[x].status =
                                 IF x = a THEN "COMMITTED" ELSE attempts[x].status
     /\ IF attempts[a].source
        THEN /\ outbox[e] = "PENDING" /\ outcomes[e] = "NONE"
             /\ outbox' = [outbox EXCEPT ![e] = "DONE"]
             /\ outcomes' = [outcomes EXCEPT ![e] = "ASSESSED"]
        ELSE UNCHANGED <<outbox, outcomes>>
     /\ numeric' = (IF admission[a].move THEN a ELSE numeric)
     /\ health' = a /\ active' = NULL
     /\ counts' = [counts EXCEPT !.assessed = @ + 1]
     /\ handled' = handled \cup admission[a].due
     /\ UNCHANGED <<initial, admission>>

(* The queue moves by completions alone. *)
OnlyDone ==
  \A e \in Events : outbox'[e] # outbox[e] => outbox[e] = "PENDING" /\ outbox'[e] = "DONE"

Bypasses(a) ==
  /\ UNCHANGED <<initial, counts, numeric, health, active, admission, outcomes, handled>>
  /\ active = a /\ attempts[a].status = "RESERVED" /\ admission[a] # NoAdmission
  /\ \A x \in Attempts : /\ attempts'[x].event = attempts[x].event
                         /\ attempts'[x].source = attempts[x].source
                         /\ attempts'[x].status =
                              IF x = a THEN "COMMITTED" ELSE attempts[x].status
  /\ OutsideStays
  /\ OnlyDone

Around ==
  /\ UNCHANGED <<initial, counts, numeric, health, active, admission, outcomes, handled>>
  /\ \A x \in Attempts : admission[x] # NoAdmission =>
       /\ attempts'[x].event = attempts[x].event /\ attempts'[x].source = attempts[x].source
       /\ attempts'[x].status = "COMMITTED" <=> attempts[x].status = "COMMITTED"
       /\ attempts'[x].status = "RESERVED" => attempts[x].status = "RESERVED"
  /\ OutsideStays
  /\ \/ outbox' = outbox
     \/ \E S \in SUBSET Sealable : SealEvents(S)
     \/ Outside # {} /\ OnlyDone

DispatchMoves ==
  \/ \E e \in Events : SetsAside(e)
  \/ \E a \in Attempts, e \in Events, t \in Times : Opens(a, e, t)
  \/ \E a \in Attempts : Assesses(a) \/ Bypasses(a)
  \/ Around

LEMMA SuppressSetsAside ==
  ASSUME DispatchInv, NEW e \in Sealed, NEW t \in Times, Suppress(e, t)
  PROVE  SetsAside(e)
<1> USE DEF DispatchInv, TypeOK, DeliveryTypeOK
<1>1. e \in Events /\ e \in Pending
  BY DEF Suppress, Acknowledge, Sealed, Pending
<1>2. outbox' = [outbox EXCEPT ![e] = "SUPPRESSED"]
  BY DEF Suppress, Acknowledge, SourceTypeOK
<1>3. Basis # NULL /\ ~Late(e, Basis) /\ ~(e # Basis /\ (Supersedes(e, Basis) \/ CorrectsWork(e)))
  BY DEF Suppress, Compelling
<1>4. numeric # NULL
  BY <1>3 DEF Basis
<1>5. QED
  BY <1>1, <1>2, <1>3, <1>4 DEF Suppress, Ready, Bound, SetsAside, journalVars

LEMMA AdmitOpens ==
  ASSUME DispatchInv, NEW r \in Runners, NEW e \in Sealed, NEW a \in Attempts, NEW t \in Times,
         Admit(r, e, a, t)
  PROVE  Opens(a, e, t)
<1> USE DEF DispatchInv, TypeOK, DeliveryTypeOK
<1>1. attempts[a] = NoAttempt /\ admission[a] = NoAdmission
  BY DeliveryAssumption, LedgerAssumption
     DEF Admit, ReserveRow, NoAttempt, PointerInv, AdmittedHere
<1>2. /\ \A x \in Attempts \ {a} : attempts'[x] = attempts[x] /\ admission'[x] = admission[x]
      /\ attempts'[a].status = "RESERVED" /\ attempts'[a].event = e
      /\ attempts'[a].source = (Pending # {})
  BY DEF Admit, ReserveRow, JournalTypeOK, DispatchTypeOK
<1>3. admission'[a] = [numeric |-> numeric, health |-> health,
                       move |-> MovesNumeric(e, Basis), due |-> DueChecks(t)]
  BY DEF Admit, DispatchTypeOK
<1>4. admission'[a] # NoAdmission
  BY <1>3, AdmissionIsOne
<1>5. /\ \A d \in Earlier(e) : outcomes[d] = "NONE"
      /\ outcomes' = [d \in Events |-> IF d \in Earlier(e) THEN "HISTORY" ELSE outcomes[d]]
      /\ counts' = [counts EXCEPT !.history = @ + Cardinality(Earlier(e))]
  BY DEF Admit, Earlier
<1>6. outbox' = [d \in Events |-> IF d \in Earlier(e) THEN "HISTORY" ELSE outbox[d]]
  BY DEF Admit, Earlier, Acknowledge
<1>7. /\ Outside = {} /\ active = NULL /\ Candidate(e) /\ Judged(e, Basis)
      /\ initial' = (IF initial = NULL THEN e ELSE initial) /\ active' = a
      /\ UNCHANGED <<numeric, health, handled>>
  BY DEF Admit, Ready, Bound
<1>8. QED
  BY <1>1, <1>2, <1>3, <1>4, <1>5, <1>6, <1>7 DEF Opens

LEMMA RecordsAssesses ==
  ASSUME DispatchInv, NEW r \in Runners, NEW a \in Attempts, NEW d \in Decisions, NEW t \in Times,
         Records(r, a, d, t)
  PROVE  Assesses(a)
<1> USE DEF DispatchInv, TypeOK, DeliveryTypeOK
<1>1. MayFinish(a, t) /\ Applies(a, d, t) /\ RecordAssessed(a, t)
  BY DEF Records
<1>2. attempts[a].status = "RESERVED" /\ Settle(a, "COMMITTED", t)
  BY <1>1 DEF Applies
<1>3. \A x \in Attempts : /\ attempts'[x].event = attempts[x].event
                          /\ attempts'[x].source = attempts[x].source
                          /\ attempts'[x].status = (IF x = a THEN "COMMITTED" ELSE attempts[x].status)
  BY <1>2, SettleKeeps DEF Held
<1>4. active = a /\ admission[a] # NoAdmission /\ Outside = {}
  BY <1>1, DeliveryAssumption DEF MayFinish, Bound, PointerInv, ActiveAdmitted
<1>5. CASE attempts[a].source
  <2>1. outbox[attempts[a].event] = "PENDING"
    BY <1>1, <1>5 DEF Applies, Acknowledges, Acknowledge
  <2>2. outbox' = [outbox EXCEPT ![attempts[a].event] = "DONE"]
    BY <1>1, <1>5 DEF Applies, Acknowledges, Acknowledge, SourceTypeOK
  <2>3. QED
    BY <1>1, <1>2, <1>3, <1>4, <1>5, <2>1, <2>2
    DEF MayFinish, RecordAssessed, AssessedAfter, HandledAfter, Assesses
<1>6. CASE ~attempts[a].source
  BY <1>1, <1>2, <1>3, <1>4, <1>6
  DEF Applies, Acknowledges, sourceVars, MayFinish, RecordAssessed, AssessedAfter, HandledAfter,
      Assesses
<1>7. QED
  BY <1>5, <1>6

(* What happens around dispatch.                                           *)
LEMMA QuietAround ==
  ASSUME UNCHANGED <<initial, counts, numeric, health, active, admission, outcomes, handled>>,
         attempts' = attempts,
         outbox' = outbox \/ \E S \in SUBSET Sealable : SealEvents(S)
  PROVE  Around
BY OutsideKept DEF Around

LEMMA ReleaseAround ==
  ASSUME TypeOK, NEW a \in Attempts, NEW t, Releasing(a, t), UNCHANGED dispatchVars
  PROVE  Around
<1>1. PICK status \in {"STALE", "FAILED", "ABANDONED"} :
        /\ attempts[a].status \in Held /\ Settle(a, status, t)
        /\ UNCHANGED <<used, sourceVars, ledgerVars>>
  BY DEF Releasing
<1>2. \A x \in Attempts : /\ attempts'[x].case = attempts[x].case
                          /\ attempts'[x].event = attempts[x].event
                          /\ attempts'[x].source = attempts[x].source
                          /\ attempts'[x].status = (IF x = a THEN status ELSE attempts[x].status)
  BY <1>1, SettleKeeps DEF TypeOK, DeliveryTypeOK
<1>3. OutsideStays
  BY <1>2, OutsideKept DEF dispatchVars, recordVars
<1>4. QED
  BY <1>1, <1>2, <1>3 DEF Around, dispatchVars, settingsVars, recordVars, sourceVars, Held

LEMMA DirectPasses ==
  ASSUME DispatchInv, NEW a \in Attempts, NEW d, NEW t, Complete(a, d, t), UNCHANGED dispatchVars
  PROVE  Bypasses(a) \/ Around
<1> USE DEF DispatchInv, TypeOK, DeliveryTypeOK
<1>1. attempts[a].status = "RESERVED" /\ attempts[a].status \in Held /\ Settle(a, "COMMITTED", t)
  BY DEF Complete, Held
<1>2. \A x \in Attempts : /\ attempts'[x].case = attempts[x].case
                          /\ attempts'[x].event = attempts[x].event
                          /\ attempts'[x].source = attempts[x].source
                          /\ attempts'[x].status = (IF x = a THEN "COMMITTED" ELSE attempts[x].status)
  BY <1>1, SettleKeeps
<1>3. OutsideStays /\ (admission[a] # NoAdmission => active = a)
  BY <1>2, OutsideKept, DirectUnrecorded DEF dispatchVars, recordVars
<1>4. OnlyDone /\ (~attempts[a].source => outbox' = outbox)
  BY DEF Complete, Acknowledges, Acknowledge, sourceVars, OnlyDone
<1>5. CASE admission[a] # NoAdmission
  BY <1>1, <1>2, <1>3, <1>4, <1>5 DEF Bypasses, dispatchVars, settingsVars, recordVars
<1>6. CASE admission[a] = NoAdmission
  <2>1. attempts[a].source => a \in Outside
    BY <1>6 DEF Outside, AttemptsOf, OutboxInv, SourceIsCanonical
  <2>2. QED
    BY <1>2, <1>3, <1>4, <1>6, <2>1 DEF Around, dispatchVars, settingsVars, recordVars
<1>7. QED
  BY <1>5, <1>6

LEMMA ElsewherePasses ==
  ASSUME DispatchInv, Elsewhere
  PROVE  (\E a \in Attempts : Bypasses(a)) \/ Around
<1> USE DEF DispatchInv
<1>1. UNCHANGED dispatchVars
  BY DEF Elsewhere, Surroundings, JournalCalls
<1>2. ASSUME NEW S \in SUBSET Sealable, SealEvents(S), UNCHANGED journalVars
      PROVE  Around
  BY <1>1, <1>2, QuietAround DEF dispatchVars, settingsVars, recordVars, journalVars
<1>3. ASSUME NEW q \in Requests, NEW t \in Times, PersonActs(q, t)
      PROVE  Around
  BY <1>1, <1>3, QuietAround
  DEF PersonActs, dispatchVars, settingsVars, recordVars, journalVars, sourceVars
<1>4. ASSUME NEW a \in Attempts, NEW t \in Times, Abandon(a, t)
      PROVE  Around
  BY <1>1, <1>4, Releases, ReleaseAround
<1>5. ASSUME NEW a \in Direct, NEW t \in Times, NEW c, NEW e, NEW source,
             Reserve(a, c, e, source, t)
      PROVE  Around
  <2>1. a \in Attempts /\ admission[a] = NoAdmission /\ attempts[a] = NoAttempt
    BY <1>5, DispatchAssumption DEF PointerInv, AdmittedHere, Reserve, ReserveRow
  <2>2. \A x \in Attempts \ {a} : attempts'[x] = attempts[x]
    BY <1>5, <2>1 DEF Reserve, ReserveRow, JournalTypeOK, TypeOK, DeliveryTypeOK
  <2>3. attempts[a].case # Canonical
    BY <2>1, DeliveryAssumption, LedgerAssumption DEF NoAttempt
  <2>4. OutsideStays
    BY <1>1, <2>2, <2>3, OutsideKept DEF dispatchVars, recordVars
  <2>5. QED
    BY <1>1, <1>5, <2>1, <2>2, <2>4
    DEF Around, Reserve, dispatchVars, settingsVars, recordVars, sourceVars
<1>6. ASSUME NEW a \in Attempts, NEW t \in Times, NEW d, KeepStale(a, d, t) \/ Fail(a, t)
      PROVE  Around
  BY <1>1, <1>6, Releases, ReleaseAround
<1>7. ASSUME NEW a \in Attempts, NEW t \in Times, NEW d, Complete(a, d, t)
      PROVE  Bypasses(a) \/ Around
  BY <1>1, <1>7, DirectPasses
<1>8. QED
  BY <1>2, <1>3, <1>4, <1>5, <1>6, <1>7 DEF Elsewhere, Surroundings, JournalCalls

LEMMA DispatchStepMoves ==
  ASSUME DispatchInv, [Next]_vars
  PROVE  DispatchMoves
<1> USE DEF DispatchInv
<1>1. ASSUME NEW r \in Runners, Prepare(r)
      PROVE  DispatchMoves
  <2>1. PICK e \in Sealed, t \in Times :
          Suppress(e, t) \/ \E a \in Attempts \ Direct : Admit(r, e, a, t)
    BY <1>1 DEF Prepare
  <2>2. e \in Events
    BY DEF Sealed
  <2>3. QED
    BY <2>1, <2>2, SuppressSetsAside, AdmitOpens DEF DispatchMoves
<1>2. ASSUME NEW r \in Runners, Conclude(r)
      PROVE  DispatchMoves
  <2>1. runner[r].attempt \in Attempts
    BY <1>2, RunnerAttempt DEF Conclude, Finish, FinishStale, FailWrite, Idle, TypeOK
  <2>2. ASSUME NEW d \in Decisions, NEW t \in Times, Finish(r, d, t)
        PROVE  DispatchMoves
    BY <2>2, FinishRecords, RecordsAssesses DEF DispatchMoves
  <2>3. ASSUME NEW d \in Decisions, NEW t \in Times, FinishStale(r, d, t)
        PROVE  DispatchMoves
    BY <2>1, <2>3, Releases, ReleaseAround DEF FinishStale, DispatchMoves
  <2>4. ASSUME NEW t \in Times, FailWrite(r, t)
        PROVE  DispatchMoves
    BY <2>1, <2>4, Releases, ReleaseAround DEF FailWrite, DispatchMoves
  <2>5. QED
    BY <1>2, <2>2, <2>3, <2>4 DEF Conclude
<1>3. ASSUME \/ \E t \in Times : Activate(t)
             \/ \E r \in Runners : FailCheck(r) \/ Lose(r)
             \/ UNCHANGED vars
      PROVE  DispatchMoves
  BY <1>3, QuietAround
  DEF Activate, FailCheck, Lose, vars, dispatchVars, settingsVars, recordVars, sourceVars,
      journalVars, DispatchMoves
<1>4. CASE Elsewhere
  BY <1>4, ElsewherePasses DEF DispatchMoves
<1>5. QED
  BY <1>1, <1>2, <1>3, <1>4 DEF Next, Elsewhere

----------------------------------------------------------------------------
(* The order in which events are served.                                   *)
LEMMA EventNumbers ==
  ASSUME NEW e \in Events
  PROVE  /\ Interval(e) \in Nat /\ Revision(e) \in Nat /\ Revision(e) >= 1
         /\ Interval(e) \in Intervals /\ Revision(e) \in 1 .. MaxEventRev
         /\ e = <<Interval(e), Revision(e)>>
<1>1. e = <<Interval(e), Revision(e)>> /\ Interval(e) \in Intervals /\ Revision(e) \in 1 .. MaxEventRev
  BY DEF Events, Interval, Revision
<1>2. (\A n \in Intervals : n \in Nat) /\ \A n \in 1 .. MaxEventRev : n \in Nat /\ n >= 1
  BY SourceAssumption
<1>3. QED
  BY <1>1, <1>2

LEMMA SameEvent ==
  ASSUME NEW d \in Events, NEW e \in Events, Interval(d) = Interval(e), Revision(d) = Revision(e)
  PROVE  d = e
BY EventNumbers

LEMMA BeforeTotal ==
  ASSUME NEW d \in Events, NEW e \in Events
  PROVE  /\ d = e \/ Before(d, e) \/ Before(e, d)
         /\ Before(d, e) => d # e /\ ~Before(e, d)
<1>1. /\ Interval(d) \in Nat /\ Revision(d) \in Nat /\ Interval(e) \in Nat /\ Revision(e) \in Nat
      /\ Interval(d) = Interval(e) /\ Revision(d) = Revision(e) => d = e
  BY EventNumbers, SameEvent
<1>2. QED
  BY <1>1 DEF Before

LEMMA BeforeTransitive ==
  ASSUME NEW c \in Events, NEW d \in Events, NEW e \in Events, Before(c, d), Before(d, e)
  PROVE  Before(c, e)
<1>1. \A x \in {c, d, e} : Interval(x) \in Nat /\ Revision(x) \in Nat
  BY EventNumbers
<1>2. QED
  BY <1>1 DEF Before

(* A later revision comes later. *)
LEMMA FollowsBefore ==
  ASSUME NEW d, NEW e, Follows(e, d)
  PROVE  Before(d, e)
BY DEF Follows, Before

(* Where an event that can be judged stands with the baseline: moving the  *)
(* baseline to it is exactly moving it forward.                            *)
LEMMA JudgedForward ==
  ASSUME NEW e \in Events, NEW b \in Events, Judged(e, b)
  PROVE  MovesNumeric(e, b) <=> Before(b, e)
<1>1. \A x \in {b, e} : Interval(x) \in Nat /\ Revision(x) \in Nat
  BY EventNumbers
<1>2. b # NULL
  BY DeliveryAssumption
<1>3. e = b \/ Interval(b) < Interval(e) \/ Supersedes(e, b) \/ Interval(e) < Interval(b)
         \/ (Interval(e) = Interval(b) /\ Revision(e) < Revision(b))
  BY <1>2 DEF Judged, Comparable, Late, Older
<1>4. QED
  BY <1>1, <1>2, <1>3 DEF MovesNumeric, Before, Supersedes

----------------------------------------------------------------------------
(* What was assessed, after each kind of step.                             *)
LEMMA AssessedAside ==
  ASSUME NEW e, SetsAside(e)
  PROVE  Assessed' = Assessed /\ attempts' = attempts /\ admission' = admission
BY DEF SetsAside, Assessed

LEMMA AssessedOpens ==
  ASSUME NEW a \in Attempts, NEW e, NEW t, Opens(a, e, t)
  PROVE  /\ Assessed' = Assessed /\ a \notin Assessed
         /\ \A x \in Attempts \ {a} : attempts'[x] = attempts[x] /\ admission'[x] = admission[x]
         /\ attempts'[a].event = e
BY DeliveryAssumption DEF Opens, Assessed

LEMMA AssessedGrows ==
  ASSUME NEW a \in Attempts, Assesses(a)
  PROVE  /\ Assessed' = Assessed \cup {a} /\ a \notin Assessed
         /\ admission' = admission
         /\ \A x \in Attempts : attempts'[x].event = attempts[x].event
BY DeliveryAssumption DEF Assesses, Assessed

LEMMA AssessedAround ==
  ASSUME Around
  PROVE  /\ Assessed' = Assessed
         /\ admission' = admission
         /\ \A x \in Attempts : admission[x] # NoAdmission => attempts'[x].event = attempts[x].event
BY DEF Around, Assessed

LEMMA AssessedBypassed ==
  ASSUME NEW a \in Attempts, Bypasses(a)
  PROVE  /\ Assessed' = Assessed
         /\ admission' = admission
         /\ \A x \in Attempts : attempts'[x].event = attempts[x].event
BY DEF Bypasses, Assessed

----------------------------------------------------------------------------
(* What there is before the first admission and the first baseline.        *)
LEMMA StartStep ==
  ASSUME DispatchInv, AdmissionInv, StartInv, DispatchMoves
  PROVE  StartInv'
<1> USE DEF StartInv
<1>1. NULL \notin Attempts /\ NULL \notin Events
  BY DeliveryAssumption
<1>2. ASSUME NEW e \in Events, SetsAside(e)
      PROVE  StartInv'
  <2>1. Assessed' = Assessed /\ Assessed # {}
    BY <1>2, AssessedAside DEF SetsAside
  <2>2. QED
    BY <1>2, <2>1 DEF SetsAside
<1>3. ASSUME NEW a \in Attempts, NEW e \in Events, NEW t \in Times, Opens(a, e, t)
      PROVE  StartInv'
  <2>1. Assessed' = Assessed
    BY <1>3, AssessedOpens
  <2>2. /\ initial' # NULL /\ active' = a /\ numeric' = numeric /\ health' = health
        /\ \A x \in Events : outcomes'[x] = outcomes[x] \/ outcomes'[x] = "HISTORY"
    BY <1>1, <1>3 DEF Opens
  <2>3. Assessed = {} => OutcomeSet("SUPPRESSED")' = {}
    BY <2>2 DEF OutcomeSet
  <2>4. QED
    BY <1>1, <2>1, <2>2, <2>3
<1>4. ASSUME NEW a \in Attempts, Assesses(a)
      PROVE  StartInv'
  <2>1. Assessed' = Assessed \cup {a}
    BY <1>4, AssessedGrows
  <2>2. /\ active = a /\ initial' = initial /\ health' = a
        /\ admission[a] # NoAdmission /\ numeric = admission[a].numeric
        /\ numeric' = (IF admission[a].move THEN a ELSE numeric)
    BY <1>4 DEF Assesses
  <2>3. numeric = NULL => admission[a].move
    BY <2>2 DEF AdmissionInv
  <2>4. numeric' # NULL
    BY <1>1, <2>2, <2>3
  <2>5. QED
    BY <1>1, <2>1, <2>2, <2>4
<1>5. ASSUME Around
      PROVE  StartInv'
  <2>1. Assessed' = Assessed
    BY <1>5, AssessedAround
  <2>2. QED
    BY <1>5, <2>1 DEF Around, OutcomeSet
<1>6. ASSUME NEW a \in Attempts, Bypasses(a)
      PROVE  StartInv'
  <2>1. Assessed' = Assessed
    BY <1>6, AssessedBypassed
  <2>2. QED
    BY <1>6, <2>1 DEF Bypasses, OutcomeSet
<1>7. QED
  BY <1>2, <1>3, <1>4, <1>5, <1>6 DEF DispatchMoves

----------------------------------------------------------------------------
(* The counters.                                                           *)
LEMMA CountsAside ==
  ASSUME DispatchInv, CountsInv, NEW e \in Events, SetsAside(e)
  PROVE  CountsInv'
<1>1. outcomes \in [Events -> {"NONE", "HISTORY", "SUPPRESSED", "ASSESSED"}]
  BY DEF DispatchInv, TypeOK, DispatchTypeOK
<1>2. /\ outcomes[e] = "NONE" /\ outcomes' = [outcomes EXCEPT ![e] = "SUPPRESSED"]
      /\ counts' = [counts EXCEPT !.suppressed = @ + 1] /\ Assessed' = Assessed
  BY AssessedAside DEF SetsAside
<1>3. /\ OutcomeSet("SUPPRESSED")' = OutcomeSet("SUPPRESSED") \cup {e}
      /\ e \notin OutcomeSet("SUPPRESSED") /\ OutcomeSet("HISTORY")' = OutcomeSet("HISTORY")
  BY <1>1, <1>2 DEF OutcomeSet
<1>4. IsFiniteSet(OutcomeSet("SUPPRESSED"))
  BY EventsFinite, FS_Subset DEF OutcomeSet
<1>5. Cardinality(OutcomeSet("SUPPRESSED")') = Cardinality(OutcomeSet("SUPPRESSED")) + 1
  BY <1>3, <1>4, FS_AddElement
<1>6. counts \in [history : Nat, suppressed : Nat, assessed : Nat]
  BY DEF DispatchInv, TypeOK, DispatchTypeOK
<1>7. QED
  BY <1>2, <1>3, <1>5, <1>6 DEF CountsInv

LEMMA DisjointCount ==
  ASSUME NEW S, NEW T, IsFiniteSet(S), IsFiniteSet(T), S \cap T = {}
  PROVE  /\ Cardinality(S) \in Nat /\ Cardinality(T) \in Nat
         /\ Cardinality(S \cup T) = Cardinality(S) + Cardinality(T)
<1>1. Cardinality(S \cup T) = Cardinality(S) + Cardinality(T) - Cardinality(S \cap T)
  BY FS_Union
<1>2. Cardinality(S \cap T) = 0
  BY FS_EmptySet
<1>3. Cardinality(S) \in Nat /\ Cardinality(T) \in Nat
  BY FS_CardinalityType
<1>4. QED
  BY <1>1, <1>2, <1>3

LEMMA CountsOpens ==
  ASSUME DispatchInv, CountsInv, NEW a \in Attempts, NEW e \in Events, NEW t \in Times,
         Opens(a, e, t)
  PROVE  CountsInv'
<1>1. outcomes \in [Events -> {"NONE", "HISTORY", "SUPPRESSED", "ASSESSED"}]
  BY DEF DispatchInv, TypeOK, DispatchTypeOK
<1>2. /\ \A d \in Earlier(e) : outcomes[d] = "NONE"
      /\ outcomes' = [d \in Events |-> IF d \in Earlier(e) THEN "HISTORY" ELSE outcomes[d]]
      /\ counts' = [counts EXCEPT !.history = @ + Cardinality(Earlier(e))]
      /\ Assessed' = Assessed
  BY AssessedOpens DEF Opens
<1>3. Earlier(e) \subseteq Events
  BY DEF Earlier, Pending
<1>4. /\ OutcomeSet("HISTORY")' = OutcomeSet("HISTORY") \cup Earlier(e)
      /\ OutcomeSet("HISTORY") \cap Earlier(e) = {}
      /\ OutcomeSet("SUPPRESSED")' = OutcomeSet("SUPPRESSED")
  BY <1>1, <1>2, <1>3 DEF OutcomeSet
<1>5. IsFiniteSet(OutcomeSet("HISTORY")) /\ IsFiniteSet(Earlier(e))
  BY <1>3, EventsFinite, FS_Subset DEF OutcomeSet
<1>6. /\ Cardinality(OutcomeSet("HISTORY")) \in Nat /\ Cardinality(Earlier(e)) \in Nat
      /\ Cardinality(OutcomeSet("HISTORY")')
           = Cardinality(OutcomeSet("HISTORY")) + Cardinality(Earlier(e))
  BY <1>4, <1>5, DisjointCount
<1>7. counts \in [history : Nat, suppressed : Nat, assessed : Nat]
  BY DEF DispatchInv, TypeOK, DispatchTypeOK
<1>8. QED
  BY <1>2, <1>4, <1>6, <1>7 DEF CountsInv

LEMMA CountsAssesses ==
  ASSUME DispatchInv, CountsInv, NEW a \in Attempts, Assesses(a)
  PROVE  CountsInv'
<1>1. outcomes \in [Events -> {"NONE", "HISTORY", "SUPPRESSED", "ASSESSED"}]
  BY DEF DispatchInv, TypeOK, DispatchTypeOK
<1>2. Assessed' = Assessed \cup {a} /\ a \notin Assessed
  BY AssessedGrows
<1>3. \A x \in Events : \/ outcomes'[x] = outcomes[x]
                        \/ outcomes[x] = "NONE" /\ outcomes'[x] = "ASSESSED"
  BY <1>1 DEF Assesses
<1>4. /\ OutcomeSet("HISTORY")' = OutcomeSet("HISTORY")
      /\ OutcomeSet("SUPPRESSED")' = OutcomeSet("SUPPRESSED")
  BY <1>3 DEF OutcomeSet
<1>5. IsFiniteSet(Assessed)
  BY DeliveryAssumption, FS_Subset DEF Assessed
<1>6. Cardinality(Assessed') = Cardinality(Assessed) + 1
  BY <1>2, <1>5, FS_AddElement
<1>7. counts \in [history : Nat, suppressed : Nat, assessed : Nat]
  BY DEF DispatchInv, TypeOK, DispatchTypeOK
<1>8. counts' = [counts EXCEPT !.assessed = @ + 1]
  BY DEF Assesses
<1>9. QED
  BY <1>4, <1>6, <1>7, <1>8 DEF CountsInv

LEMMA CountsStep ==
  ASSUME DispatchInv, CountsInv, DispatchMoves
  PROVE  CountsInv'
<1>1. ASSUME Around \/ \E a \in Attempts : Bypasses(a)
      PROVE  CountsInv'
  <2>1. Assessed' = Assessed /\ counts' = counts /\ outcomes' = outcomes
    BY <1>1, AssessedAround, AssessedBypassed DEF Around, Bypasses
  <2>2. QED
    BY <2>1 DEF CountsInv, OutcomeSet
<1>2. QED
  BY <1>1, CountsAside, CountsOpens, CountsAssesses DEF DispatchMoves

----------------------------------------------------------------------------
(* Admissions.                                                             *)
LEMMA AssessedEvent ==
  ASSUME AdmissionInv, NEW a \in Assessed
  PROVE  a \in Attempts /\ a # NULL /\ attempts[a].event \in Events /\ attempts[a].event # NULL
BY DeliveryAssumption DEF AdmissionInv, Assessed

(* The baseline's event stays what it is while the baseline stays. *)
LEMMA BasisStays ==
  ASSUME AdmissionInv, BasisInv, numeric' = numeric,
         \A x \in Assessed : attempts'[x].event = attempts[x].event
  PROVE  Basis' = Basis
BY DEF Basis, BasisInv

LEMMA AdmissionOpens ==
  ASSUME DispatchInv, AdmissionInv, BasisInv, NEW a \in Attempts, NEW e \in Events,
         NEW t \in Times, Opens(a, e, t)
  PROVE  AdmissionInv'
<1>1. /\ Assessed' = Assessed /\ a \notin Assessed /\ attempts'[a].event = e
      /\ \A x \in Attempts \ {a} : attempts'[x] = attempts[x] /\ admission'[x] = admission[x]
  BY AssessedOpens
<1>2. /\ admission'[a] = [numeric |-> numeric, health |-> health,
                          move |-> MovesNumeric(e, Basis), due |-> DueChecks(t)]
      /\ Judged(e, Basis)
  BY DEF Opens
<1>3. numeric # NULL => /\ numeric \in Assessed /\ numeric # a
                        /\ Basis = attempts[numeric].event /\ Basis \in Events
  BY <1>1, AssessedEvent DEF BasisInv, Basis
<1>4. numeric = NULL => Basis = NULL
  BY DEF Basis
<1>5. MovesNumeric(e, Basis) = (numeric = NULL \/ Before(Basis, e))
  <2>1. CASE numeric = NULL
    BY <1>4, <2>1 DEF MovesNumeric
  <2>2. CASE numeric # NULL
    BY <1>2, <1>3, <2>2, JudgedForward DEF MovesNumeric, Before
  <2>3. QED
    BY <2>1, <2>2
<1> SUFFICES ASSUME NEW x \in Attempts, admission'[x] # NoAdmission
             PROVE  /\ attempts'[x].event \in Events
                    /\ admission'[x].numeric # NULL => admission'[x].numeric \in Assessed'
                    /\ admission'[x].move =
                         (\/ admission'[x].numeric = NULL
                          \/ Before(attempts'[admission'[x].numeric].event, attempts'[x].event))
  BY DEF AdmissionInv, EventOf, Before
<1>6. CASE x = a
  <2>1. numeric # NULL => attempts'[numeric].event = Basis
    BY <1>1, <1>3, AssessedEvent
  <2>2. admission'[a].numeric = numeric /\ admission'[a].move = MovesNumeric(e, Basis)
    BY <1>2
  <2>3. admission'[a].move =
          (numeric = NULL \/ Before(attempts'[numeric].event, attempts'[a].event))
    BY <1>1, <1>5, <2>1, <2>2
  <2>4. QED
    BY <1>1, <1>3, <1>6, <2>2, <2>3
<1>7. CASE x # a
  <2>1. /\ attempts'[x] = attempts[x] /\ admission'[x] = admission[x]
        /\ admission[x].numeric # NULL => admission[x].numeric \in Assessed
        /\ attempts[x].event \in Events
        /\ admission[x].move =
             (admission[x].numeric = NULL
                \/ Before(EventOf(admission[x].numeric), attempts[x].event))
    BY <1>1, <1>7 DEF AdmissionInv
  <2>2. admission[x].numeric # NULL =>
          attempts'[admission[x].numeric].event = EventOf(admission[x].numeric)
    BY <1>1, <2>1, AssessedEvent DEF EventOf
  <2>3. QED
    BY <1>1, <2>1, <2>2
<1>8. QED
  BY <1>6, <1>7

(* Steps that admit nothing.                                               *)
LEMMA AdmissionKept ==
  ASSUME AdmissionInv, admission' = admission, Assessed \subseteq Assessed',
         \A x \in Attempts : admission[x] # NoAdmission => attempts'[x].event = attempts[x].event
  PROVE  AdmissionInv'
<1> SUFFICES ASSUME NEW x \in Attempts, admission[x] # NoAdmission
             PROVE  /\ attempts'[x].event \in Events
                    /\ admission[x].numeric # NULL => admission[x].numeric \in Assessed'
                    /\ admission[x].move =
                         (\/ admission[x].numeric = NULL
                          \/ Before(attempts'[admission[x].numeric].event, attempts'[x].event))
  BY DEF AdmissionInv, EventOf, Before
<1>1. /\ attempts'[x].event = attempts[x].event /\ attempts[x].event \in Events
      /\ admission[x].numeric # NULL => admission[x].numeric \in Assessed
      /\ admission[x].move =
           (admission[x].numeric = NULL
              \/ Before(EventOf(admission[x].numeric), attempts[x].event))
  BY DEF AdmissionInv
<1>2. admission[x].numeric # NULL =>
        attempts'[admission[x].numeric].event = EventOf(admission[x].numeric)
  BY <1>1 DEF EventOf, Assessed
<1>3. QED
  BY <1>1, <1>2

LEMMA AdmissionStep ==
  ASSUME DispatchInv, AdmissionInv, BasisInv, DispatchMoves
  PROVE  AdmissionInv'
<1>1. ASSUME NEW e \in Events, SetsAside(e)
      PROVE  AdmissionInv'
  BY <1>1, AssessedAside, AdmissionKept
<1>2. ASSUME NEW a \in Attempts, Assesses(a)
      PROVE  AdmissionInv'
  BY <1>2, AssessedGrows, AdmissionKept
<1>3. ASSUME Around
      PROVE  AdmissionInv'
  BY <1>3, AssessedAround, AdmissionKept
<1>4. ASSUME NEW a \in Attempts, Bypasses(a)
      PROVE  AdmissionInv'
  BY <1>4, AssessedBypassed, AdmissionKept
<1>5. QED
  BY <1>1, <1>2, <1>3, <1>4, AdmissionOpens DEF DispatchMoves

----------------------------------------------------------------------------
(* The baseline.                                                           *)
Settled(e) == outbox[e] \notin {"NONE", "PENDING"}

LEMMA BasisEvent ==
  ASSUME AdmissionInv, BasisInv, numeric # NULL
  PROVE  /\ numeric \in Assessed /\ numeric \in Attempts
         /\ Basis = attempts[numeric].event /\ Basis \in Events /\ Basis # NULL
         /\ Settled(Basis)
BY AssessedEvent DEF BasisInv, Basis, Settled

(* Steps that keep the baseline and assess nothing. *)
LEMMA BasisKept ==
  ASSUME AdmissionInv, BasisInv, numeric' = numeric, Assessed' = Assessed,
         \A x \in Assessed : attempts'[x].event = attempts[x].event,
         \A x \in Events : Settled(x) => Settled(x)',
         \A a \in Attempts :
           active' = a /\ attempts'[a].status = "RESERVED" /\ ~attempts'[a].source =>
             Settled(attempts[a].event)'
  PROVE  BasisInv'
<1>1. Basis' = Basis
  BY BasisStays
<1>2. numeric' # NULL => /\ numeric' \in Assessed'
                         /\ outbox'[attempts'[numeric'].event] \notin {"NONE", "PENDING"}
  BY BasisEvent DEF Settled
<1>3. \A a \in Assessed' : attempts'[a].event = Basis' \/ Before(attempts'[a].event, Basis')
  BY <1>1 DEF BasisInv
<1>4. QED
  BY <1>2, <1>3 DEF BasisInv, Settled, Before

LEMMA BasisAside ==
  ASSUME DispatchInv, AdmissionInv, BasisInv, NEW e \in Events, SetsAside(e)
  PROVE  BasisInv'
<1>1. \A x \in Events : outbox'[x] = IF x = e THEN "SUPPRESSED" ELSE outbox[x]
  BY DEF SetsAside, DispatchInv, TypeOK, DeliveryTypeOK, SourceTypeOK
<1>2. numeric' = numeric /\ active' = NULL /\ NULL \notin Attempts
  BY DeliveryAssumption DEF SetsAside
<1>3. \A x \in Events : Settled(x) => Settled(x)'
  BY <1>1 DEF Settled
<1>4. QED
  BY <1>2, <1>3, AssessedAside, BasisKept

LEMMA BasisOpens ==
  ASSUME DispatchInv, AdmissionInv, BasisInv, NEW a \in Attempts, NEW e \in Events,
         NEW t \in Times, Opens(a, e, t)
  PROVE  BasisInv'
<1>1. /\ outbox' = [d \in Events |-> IF d \in Earlier(e) THEN "HISTORY" ELSE outbox[d]]
      /\ numeric' = numeric /\ active' = a /\ attempts'[a].source = (Pending # {})
      /\ attempts'[a].event = e /\ e \in Sealed
  BY DEF Opens
<1>2. \A x \in Events : Settled(x) => Settled(x)'
  BY <1>1 DEF Settled
<1>3. Pending = {} => outbox'[e] \notin {"NONE", "PENDING"}
  BY <1>1 DEF Earlier, Pending, Sealed
<1>4. Assessed' = Assessed /\ \A x \in Assessed : attempts'[x].event = attempts[x].event
  BY AssessedOpens DEF Assessed
<1>5. ~attempts'[a].source => Settled(attempts[a].event)'
  BY <1>1, <1>3 DEF Settled
<1>6. QED
  BY <1>1, <1>2, <1>4, <1>5, BasisKept

LEMMA BasisAssesses ==
  ASSUME DispatchInv, AdmissionInv, StartInv, BasisInv, NEW a \in Attempts, Assesses(a)
  PROVE  BasisInv'
<1>1. /\ Assessed' = Assessed \cup {a}
      /\ \A x \in Attempts : attempts'[x].event = attempts[x].event
  BY AssessedGrows
<1>2. PICK e : e = attempts[a].event
  OBVIOUS
<1>3. /\ active = a /\ attempts[a].status = "RESERVED" /\ admission[a] # NoAdmission
      /\ numeric = admission[a].numeric /\ active' = NULL
      /\ numeric' = (IF admission[a].move THEN a ELSE numeric)
  BY DEF Assesses
<1>4. /\ e \in Events
      /\ admission[a].move = (numeric = NULL \/ Before(Basis, e))
  BY <1>2, <1>3 DEF AdmissionInv, EventOf, Basis
<1>5. \A x \in Events : Settled(x) => Settled(x)'
  BY DEF Assesses, Settled, DispatchInv, TypeOK, DeliveryTypeOK, SourceTypeOK
<1>6. Settled(e)'
  <2>1. CASE attempts[a].source
    BY <1>2, <1>4, <2>1 DEF Assesses, Settled, DispatchInv, TypeOK, DeliveryTypeOK, SourceTypeOK
  <2>2. CASE ~attempts[a].source
    <3>1. Settled(e)
      BY <1>2, <1>3, <2>2 DEF BasisInv, Settled
    <3>2. QED
      BY <1>4, <1>5, <3>1
  <2>3. QED
    BY <2>1, <2>2
<1>7. a # NULL /\ NULL \notin Attempts
  BY DeliveryAssumption
<1>8. numeric = NULL => Assessed = {}
  BY DEF StartInv
<1>9. ASSUME NEW x \in Assessed
      PROVE  /\ x \in Attempts /\ attempts[x].event \in Events
             /\ numeric # NULL /\ Basis \in Events
             /\ attempts[x].event = Basis \/ Before(attempts[x].event, Basis)
  BY <1>8, AssessedEvent, BasisEvent DEF BasisInv
<1>10. CASE admission[a].move
  <2>1. numeric' = a /\ Basis' = e
    BY <1>1, <1>2, <1>3, <1>7, <1>10 DEF Basis
  <2>2. ASSUME NEW x \in Assessed
        PROVE  Before(attempts[x].event, e)
    BY <1>4, <1>9, <1>10, BeforeTransitive
  <2>3. \A x \in Assessed' : attempts'[x].event = Basis' \/ Before(attempts'[x].event, Basis')
    BY <1>1, <1>2, <1>9, <2>1, <2>2
  <2>4. numeric' \in Assessed' /\ outbox'[attempts'[numeric'].event] \notin {"NONE", "PENDING"}
    BY <1>1, <1>2, <1>6, <2>1 DEF Settled
  <2>5. QED
    BY <1>3, <1>7, <2>3, <2>4 DEF BasisInv, Before
<1>11. CASE ~admission[a].move
  <2>1. numeric' = numeric /\ numeric # NULL /\ ~Before(Basis, e)
    BY <1>3, <1>4, <1>11
  <2>2. /\ numeric \in Assessed /\ numeric \in Attempts /\ Basis = attempts[numeric].event
        /\ Basis \in Events /\ Settled(Basis)
    BY <2>1, BasisEvent
  <2>3. Basis' = Basis
    BY <1>1, <2>1, <2>2 DEF Basis
  <2>4. e = Basis \/ Before(e, Basis)
    BY <1>4, <2>1, <2>2, BeforeTotal
  <2>5. \A x \in Assessed' : attempts'[x].event = Basis' \/ Before(attempts'[x].event, Basis')
    BY <1>1, <1>2, <1>9, <2>3, <2>4
  <2>6. outbox'[attempts'[numeric'].event] \notin {"NONE", "PENDING"}
    BY <1>1, <1>5, <2>1, <2>2 DEF Settled
  <2>7. QED
    BY <1>1, <1>3, <1>7, <2>1, <2>2, <2>5, <2>6 DEF BasisInv, Before
<1>12. QED
  BY <1>10, <1>11

LEMMA BasisAround ==
  ASSUME DispatchInv, AdmissionInv, BasisInv, Around
  PROVE  BasisInv'
<1>1. /\ numeric' = numeric /\ active' = active
      /\ \A x \in Attempts : admission[x] # NoAdmission =>
           /\ attempts'[x].event = attempts[x].event /\ attempts'[x].source = attempts[x].source
           /\ attempts'[x].status = "RESERVED" => attempts[x].status = "RESERVED"
  BY DEF Around
<1>2. \A x \in Events : Settled(x) => Settled(x)'
  BY DEF Around, OnlyDone, Settled, SealEvents, Sealable
<1>3. Assessed' = Assessed /\ \A x \in Assessed : attempts'[x].event = attempts[x].event
  BY <1>1, AssessedAround DEF Assessed
<1>4. ASSUME NEW a \in Attempts, active' = a, attempts'[a].status = "RESERVED",
             ~attempts'[a].source
      PROVE  Settled(attempts[a].event)'
  <2>1. admission[a] # NoAdmission
    BY <1>1, <1>4, DeliveryAssumption DEF DispatchInv, PointerInv, ActiveAdmitted
  <2>2. attempts[a].event \in Events /\ attempts'[a].event = attempts[a].event
    BY <1>1, <2>1 DEF AdmissionInv
  <2>3. Settled(attempts[a].event)
    BY <1>1, <1>4, <2>1 DEF BasisInv, Settled
  <2>4. QED
    BY <1>2, <2>2, <2>3 DEF Settled
<1>5. QED
  BY <1>1, <1>2, <1>3, <1>4, BasisKept

LEMMA BasisBypassed ==
  ASSUME AdmissionInv, BasisInv, NEW a \in Attempts, Bypasses(a)
  PROVE  BasisInv'
<1>1. Assessed' = Assessed /\ \A x \in Assessed : attempts'[x].event = attempts[x].event
  BY AssessedBypassed DEF Assessed
<1>2. \A x \in Events : Settled(x) => Settled(x)'
  BY DEF Bypasses, OnlyDone, Settled
<1>3. numeric' = numeric /\ active' = a /\ attempts'[a].status = "COMMITTED"
  BY DEF Bypasses
<1>4. QED
  BY <1>1, <1>2, <1>3, BasisKept

LEMMA BasisStep ==
  ASSUME DispatchInv, AdmissionInv, StartInv, BasisInv, DispatchMoves
  PROVE  BasisInv'
BY BasisAside, BasisOpens, BasisAssesses, BasisAround, BasisBypassed DEF DispatchMoves

----------------------------------------------------------------------------
(* The queue.                                                              *)

(* The revision before one that follows e. *)
LEMMA PriorRevision ==
  ASSUME NEW e \in Events, NEW x \in Events, Follows(x, e)
  PROVE  \E p \in Events : Supersedes(x, p) /\ (p = e \/ Follows(p, e))
<1> DEFINE p == <<Interval(x), Revision(x) - 1>>
<1>1. /\ Interval(x) = Interval(e) /\ Revision(x) > Revision(e)
      /\ Revision(x) \in Nat /\ Revision(e) \in Nat /\ Revision(e) >= 1
      /\ Revision(x) \in 1 .. MaxEventRev /\ Interval(x) \in Intervals
  BY EventNumbers DEF Follows
<1>2. Revision(x) - 1 \in 1 .. MaxEventRev
  BY <1>1, SourceAssumption
<1>3. p \in Events /\ Interval(p) = Interval(x) /\ Revision(p) = Revision(x) - 1
  BY <1>1, <1>2 DEF Events, Interval, Revision
<1> HIDE DEF p
<1>4. Supersedes(x, p)
  BY <1>1, <1>3 DEF Supersedes
<1>5. p = e \/ Follows(p, e)
  <2>1. CASE Revision(p) = Revision(e)
    BY <1>1, <1>3, <2>1, SameEvent
  <2>2. CASE Revision(p) # Revision(e)
    BY <1>1, <1>3, <2>2 DEF Follows
  <2>3. QED
    BY <2>1, <2>2
<1>6. QED
  BY <1>3, <1>4, <1>5

LEMMA PrefixSeal ==
  ASSUME SealedPrefix, NEW S \in SUBSET Sealable, SealEvents(S)
  PROVE  SealedPrefix'
<1>1. \A x \in Events : outbox'[x] = IF x \in S THEN "PENDING" ELSE outbox[x]
  BY DEF SealEvents
<1> SUFFICES ASSUME NEW e \in Events, NEW x \in Events, Follows(x, e), outbox'[x] # "NONE"
             PROVE  outbox'[e] # "NONE"
  BY DEF SealedPrefix, Follows
<1>2. CASE x \in S
  <2>1. PICK p \in Events : Supersedes(x, p) /\ (p = e \/ Follows(p, e))
    BY PriorRevision
  <2>2. outbox[p] # "NONE"
    BY <1>2, <2>1 DEF Sealable
  <2>3. outbox[e] # "NONE"
    BY <2>1, <2>2 DEF SealedPrefix
  <2>4. QED
    BY <1>1, <2>3
<1>3. CASE x \notin S
  BY <1>1, <1>3 DEF SealedPrefix
<1>4. QED
  BY <1>2, <1>3

(* Steps that seal nothing. *)
LEMMA PrefixKept ==
  ASSUME SealedPrefix, \A x \in Events : outbox'[x] = "NONE" <=> outbox[x] = "NONE"
  PROVE  SealedPrefix'
BY DEF SealedPrefix, Follows

LEMMA PrefixDone ==
  ASSUME SealedPrefix, OnlyDone
  PROVE  SealedPrefix'
<1>1. \A x \in Events : outbox'[x] = "NONE" <=> outbox[x] = "NONE"
  BY DEF OnlyDone
<1>2. QED
  BY <1>1, PrefixKept

(* What an outbox row becomes in each kind of step. *)
LEMMA OutboxMoves ==
  ASSUME DispatchInv
  PROVE  /\ \A e \in Events : SetsAside(e) =>
              \A x \in Events : outbox'[x] = IF x = e THEN "SUPPRESSED" ELSE outbox[x]
         /\ \A a \in Attempts : Assesses(a) =>
              \A x \in Events : outbox'[x] = IF attempts[a].source /\ x = attempts[a].event
                                             THEN "DONE" ELSE outbox[x]
BY DEF SetsAside, Assesses, DispatchInv, TypeOK, DeliveryTypeOK, SourceTypeOK

LEMMA PrefixStep ==
  ASSUME DispatchInv, SealedPrefix, DispatchMoves
  PROVE  SealedPrefix'
<1>1. ASSUME NEW e \in Events, SetsAside(e)
      PROVE  SealedPrefix'
  <2>1. outbox[e] = "PENDING"
    BY <1>1 DEF SetsAside, Pending
  <2>2. \A x \in Events : outbox'[x] = "NONE" <=> outbox[x] = "NONE"
    BY <1>1, <2>1, OutboxMoves
  <2>3. QED
    BY <2>2, PrefixKept
<1>2. ASSUME NEW a \in Attempts, NEW e \in Events, NEW t \in Times, Opens(a, e, t)
      PROVE  SealedPrefix'
  <2>1. \A x \in Events : outbox'[x] = "NONE" <=> outbox[x] = "NONE"
    BY <1>2 DEF Opens, Earlier, Pending
  <2>2. QED
    BY <2>1, PrefixKept
<1>3. ASSUME NEW a \in Attempts, Assesses(a)
      PROVE  SealedPrefix'
  <2>1. attempts[a].source => outbox[attempts[a].event] = "PENDING"
    BY <1>3 DEF Assesses
  <2>2. \A x \in Events : outbox'[x] = "NONE" <=> outbox[x] = "NONE"
    BY <1>3, <2>1, OutboxMoves
  <2>3. QED
    BY <2>2, PrefixKept
<1>4. ASSUME Around
      PROVE  SealedPrefix'
  <2>1. CASE \E S \in SUBSET Sealable : SealEvents(S)
    BY <2>1, PrefixSeal
  <2>2. CASE outbox' = outbox
    BY <2>2, PrefixKept
  <2>3. CASE OnlyDone
    BY <2>3, PrefixDone
  <2>4. QED
    BY <1>4, <2>1, <2>2, <2>3 DEF Around
<1>5. ASSUME NEW a \in Attempts, Bypasses(a)
      PROVE  SealedPrefix'
  BY <1>5, PrefixDone DEF Bypasses
<1>6. QED
  BY <1>1, <1>2, <1>3, <1>4, <1>5 DEF DispatchMoves

(* Later revisions keep waiting as long as none of them is disposed of. *)
LEMMA WaitsKept ==
  ASSUME NEW e, WaitsAfter(e),
         \A x \in Events : Follows(x, e) => outbox'[x] = outbox[x] \/ outbox'[x] = "PENDING"
  PROVE  WaitsAfter(e)'
BY DEF WaitsAfter, Follows

(* Setting an event aside: it is the oldest that waits, and does not come  *)
(* after the baseline in its interval.                                     *)
LEMMA QueueAside ==
  ASSUME DispatchInv, AdmissionInv, StartInv, BasisInv, PendingServed, BasisServed,
         NEW e \in Events, SetsAside(e)
  PROVE  PendingServed' /\ BasisServed' /\ HandServed'
<1>1. \A x \in Events : outbox'[x] = IF x = e THEN "SUPPRESSED" ELSE outbox[x]
  BY OutboxMoves
<1>2. /\ numeric # NULL /\ numeric' = numeric /\ attempts' = attempts /\ active' = NULL
      /\ Candidate(e) /\ e \in Pending
      /\ Judged(e, Basis) /\ ~Late(e, Basis) /\ ~(e # Basis /\ Supersedes(e, Basis))
      /\ ~(e # Basis /\ CorrectsWork(e))
  BY DEF SetsAside
<1>3. initial # NULL /\ Oldest(e, Pending)
  BY <1>2 DEF StartInv, Candidate
<1>4. PendingServed'
  <2> SUFFICES ASSUME NEW d \in Events, outbox'[d] = "PENDING" PROVE WaitsAfter(d)'
    BY DEF PendingServed, Pending, WaitsAfter
  <2>1. d \in Pending /\ d # e
    BY <1>1 DEF Pending
  <2>2. Before(e, d)
    BY <1>3, <2>1 DEF Oldest
  <2>3. ~Follows(e, d)
    BY <2>2, BeforeTotal, FollowsBefore
  <2>4. WaitsAfter(d)
    BY <2>1 DEF PendingServed
  <2>5. QED
    BY <1>1, <2>3, <2>4, WaitsKept
<1>5. BasisServed'
  <2>1. PICK b \in Events : b = Basis /\ b # NULL
    BY <1>2, BasisEvent
  <2>2. ~Follows(e, b)
    <3> SUFFICES ASSUME Follows(e, b) PROVE FALSE
      OBVIOUS
    <3>1. Before(b, e) /\ e # b
      BY BeforeTotal, FollowsBefore
    <3>2. MovesNumeric(e, b)
      BY <1>2, <2>1, <3>1, JudgedForward
    <3>3. Interval(b) < Interval(e)
      BY <1>2, <2>1, <3>1, <3>2 DEF MovesNumeric
    <3>4. Interval(b) \in Nat /\ Interval(e) \in Nat /\ Interval(e) = Interval(b)
      BY EventNumbers DEF Follows
    <3>5. QED
      BY <3>3, <3>4
  <2>3. WaitsAfter(b)
    BY <1>2, <2>1 DEF BasisServed
  <2>4. WaitsAfter(b)'
    BY <1>1, <2>2, <2>3, WaitsKept
  <2>5. Basis' = b
    BY <1>2, <2>1 DEF Basis
  <2>6. QED
    BY <2>4, <2>5 DEF BasisServed, WaitsAfter
<1>6. HandServed'
  BY <1>2, DeliveryAssumption DEF HandServed
<1>7. QED
  BY <1>4, <1>5, <1>6

(* The first admission takes the newest event and files the others.        *)
LEMMA QueueFirst ==
  ASSUME DispatchInv, StartInv, NEW a \in Attempts, NEW e \in Events, NEW t \in Times,
         Opens(a, e, t), initial = NULL
  PROVE  PendingServed' /\ WaitsAfter(e)' /\ Clear(e)'
<1>1. \A x \in Events : outbox'[x] = IF x \in Pending \ {e} THEN "HISTORY" ELSE outbox[x]
  BY DEF Opens, Earlier
<1>2. Newest(e, Pending) /\ Outside = {} /\ active = NULL
  BY DEF Opens, Candidate
<1>3. \A x \in Events : outbox[x] # "NONE" => x \in Pending
  <2> SUFFICES ASSUME NEW x \in Events, outbox[x] # "NONE" PROVE outbox[x] = "PENDING"
    BY DEF Pending
  <2>1. outcomes[x] = "NONE"
    BY DEF StartInv
  <2>2. outbox[x] \notin {"HISTORY", "SUPPRESSED"}
    BY <2>1 DEF DispatchInv, OutboxInv, OutcomesFiled
  <2>3. outbox[x] # "DONE"
    <3> SUFFICES ASSUME outbox[x] = "DONE" PROVE FALSE
      OBVIOUS
    <3>1. PICK z \in Committed(Canonical) : attempts[z].source /\ attempts[z].event = x
      BY DEF DispatchInv, OutboxInv, DoneAnswered
    <3>2. z \in Assessed
      BY <1>2, <3>1, DeliveryAssumption DEF Outside, Committed, AttemptsOf, Assessed
    <3>3. QED
      BY <2>1, <3>1, <3>2 DEF DispatchInv, OutboxInv, AssessedRecorded
  <2>4. QED
    BY <2>2, <2>3 DEF DispatchInv, TypeOK, DeliveryTypeOK, SourceTypeOK, Dispositions
<1>4. \A x \in Events : Follows(x, e) => outbox'[x] = "NONE"
  <2> SUFFICES ASSUME NEW x \in Events, Follows(x, e) PROVE outbox'[x] = "NONE"
    OBVIOUS
  <2>1. Before(e, x) /\ x # e /\ ~Before(x, e)
    BY FollowsBefore, BeforeTotal
  <2>2. x \notin Pending
    BY <1>2, <2>1 DEF Newest
  <2>3. QED
    BY <1>1, <1>3, <2>2
<1>5. WaitsAfter(e)'
  BY <1>4 DEF WaitsAfter, Follows
<1>6. \A x \in Events : outbox'[x] = "PENDING" => x = e
  BY <1>1 DEF Pending
<1>7. Clear(e)'
  BY <1>6, FollowsBefore, BeforeTotal DEF Clear, Follows, Before
<1>8. PendingServed'
  BY <1>5, <1>6 DEF PendingServed, Pending
<1>9. QED
  BY <1>5, <1>7, <1>8

(* Later ones take the oldest event that waits, or the newest of all.      *)
LEMMA QueueNext ==
  ASSUME PendingServed, NEW a \in Attempts, NEW e \in Events, NEW t \in Times,
         Opens(a, e, t), initial # NULL
  PROVE  PendingServed' /\ WaitsAfter(e)' /\ (Pending # {} => Clear(e)')
<1>1. \A x \in Events : outbox'[x] = outbox[x]
  BY DEF Opens, Earlier
<1>2. \/ Oldest(e, Pending)
      \/ Pending = {} /\ Newest(e, Sealed)
  BY DEF Opens, Candidate
<1>3. PendingServed'
  BY <1>1 DEF PendingServed, Pending, WaitsAfter, Follows
<1>4. CASE Oldest(e, Pending)
  <2>1. WaitsAfter(e)'
    BY <1>1, <1>4, WaitsKept DEF Oldest, PendingServed
  <2>2. ASSUME NEW x \in Events, Follows(e, x)
        PROVE  outbox[x] # "PENDING"
    <3>1. Before(x, e) /\ x # e /\ ~Before(e, x)
      BY <2>2, FollowsBefore, BeforeTotal
    <3>2. QED
      BY <1>4, <3>1 DEF Oldest, Pending
  <2>3. Clear(e)'
    BY <1>1, <2>2 DEF Clear, Follows
  <2>4. QED
    BY <1>3, <2>1, <2>3
<1>5. CASE Pending = {} /\ Newest(e, Sealed)
  <2>1. ASSUME NEW x \in Events, Follows(x, e)
        PROVE  outbox[x] = "NONE"
    <3>1. Before(e, x) /\ x # e /\ ~Before(x, e)
      BY <2>1, FollowsBefore, BeforeTotal
    <3>2. QED
      BY <1>5, <3>1 DEF Newest, Sealed
  <2>2. WaitsAfter(e)'
    BY <1>1, <2>1 DEF WaitsAfter, Follows
  <2>3. QED
    BY <1>3, <1>5, <2>2
<1>6. QED
  BY <1>2, <1>4, <1>5

LEMMA QueueOpens ==
  ASSUME DispatchInv, AdmissionInv, StartInv, BasisInv, PendingServed, BasisServed,
         NEW a \in Attempts, NEW e \in Events, NEW t \in Times, Opens(a, e, t)
  PROVE  PendingServed' /\ BasisServed' /\ HandServed'
<1>1. PendingServed' /\ WaitsAfter(e)' /\ (Pending # {} => Clear(e)')
  BY QueueFirst, QueueNext
<1>2. /\ active' = a /\ attempts'[a].event = e /\ attempts'[a].source = (Pending # {})
      /\ numeric' = numeric
  BY DEF Opens
<1>3. HandServed'
  BY <1>1, <1>2 DEF HandServed, WaitsAfter, Clear
<1>4. BasisServed'
  <2> SUFFICES ASSUME numeric # NULL PROVE WaitsAfter(Basis)'
    BY <1>2 DEF BasisServed
  <2>1. PICK b \in Events : b = Basis /\ b = attempts[numeric].event /\ numeric \in Assessed
    BY BasisEvent
  <2>2. Basis' = b
    BY <1>2, <2>1, AssessedOpens DEF Basis, Assessed
  <2>3. initial # NULL
    BY <2>1 DEF StartInv
  <2>4. \A x \in Events : outbox'[x] = outbox[x]
    BY <2>3 DEF Opens, Earlier
  <2>5. WaitsAfter(b)'
    BY <2>1, <2>4, WaitsKept DEF BasisServed
  <2>6. QED
    BY <2>2, <2>5 DEF WaitsAfter
<1>5. QED
  BY <1>1, <1>3, <1>4

(* Recording an answer disposes of the event in hand, which no waiting     *)
(* event precedes in its interval.                                         *)
LEMMA QueueAssesses ==
  ASSUME DispatchInv, AdmissionInv, BasisInv, PendingServed, BasisServed, HandServed,
         NEW a \in Attempts, Assesses(a)
  PROVE  PendingServed' /\ BasisServed' /\ HandServed'
<1>1. PICK e : e = attempts[a].event
  OBVIOUS
<1>2. /\ \A x \in Events : outbox'[x] = IF attempts[a].source /\ x = e THEN "DONE" ELSE outbox[x]
      /\ \A x \in Attempts : attempts'[x].event = attempts[x].event
  BY <1>1, OutboxMoves, AssessedGrows
<1>3. /\ active = a /\ attempts[a].status = "RESERVED" /\ admission[a] # NoAdmission
      /\ numeric = admission[a].numeric /\ active' = NULL
      /\ numeric' = (IF admission[a].move THEN a ELSE numeric)
  BY DEF Assesses
<1>4. WaitsAfter(e) /\ (attempts[a].source => Clear(e))
  BY <1>1, <1>3 DEF HandServed
<1>5. /\ e \in Events
      /\ admission[a].move = (numeric = NULL \/ Before(Basis, e))
  BY <1>1, <1>3 DEF AdmissionInv, EventOf, Basis
<1>6. a # NULL /\ NULL \notin Attempts
  BY DeliveryAssumption
<1>7. PendingServed'
  <2> SUFFICES ASSUME NEW d \in Events, outbox'[d] = "PENDING" PROVE WaitsAfter(d)'
    BY DEF PendingServed, Pending, WaitsAfter
  <2>1. outbox[d] = "PENDING" /\ WaitsAfter(d)
    BY <1>2 DEF PendingServed, Pending
  <2>2. attempts[a].source => ~Follows(e, d)
    BY <1>4, <2>1 DEF Clear
  <2>3. QED
    BY <1>2, <2>1, <2>2, WaitsKept
<1>8. WaitsAfter(e)'
  BY <1>2, <1>4, <1>5, WaitsKept, FollowsBefore, BeforeTotal
<1>9. BasisServed'
  <2>1. CASE admission[a].move
    <3>1. Basis' = e
      BY <1>1, <1>2, <1>3, <1>6, <2>1 DEF Basis
    <3>2. QED
      BY <1>8, <3>1 DEF BasisServed, WaitsAfter
  <2>2. CASE ~admission[a].move
    <3>1. numeric' = numeric /\ numeric # NULL /\ ~Before(Basis, e)
      BY <1>3, <1>5, <2>2
    <3>2. PICK b \in Events : b = Basis /\ b = attempts[numeric].event /\ numeric \in Attempts
      BY <3>1, BasisEvent
    <3>3. WaitsAfter(b)
      BY <3>1, <3>2 DEF BasisServed
    <3>4. ~Follows(e, b)
      BY <3>1, <3>2, FollowsBefore
    <3>5. WaitsAfter(b)'
      BY <1>2, <3>3, <3>4, WaitsKept
    <3>6. Basis' = b
      BY <1>2, <3>1, <3>2 DEF Basis
    <3>7. QED
      BY <3>5, <3>6 DEF BasisServed, WaitsAfter
  <2>3. QED
    BY <2>1, <2>2
<1>10. HandServed'
  BY <1>3, <1>6 DEF HandServed
<1>11. QED
  BY <1>7, <1>9, <1>10

(* Polls seal later revisions than any that waits or was served.           *)
LEMMA QueueSeal ==
  ASSUME SealedPrefix, NEW S \in SUBSET Sealable, SealEvents(S)
  PROVE  /\ \A e \in Events : WaitsAfter(e) => WaitsAfter(e)'
         /\ \A e \in S : WaitsAfter(e)'
         /\ \A e \in Events : outbox[e] # "NONE" /\ Clear(e) => Clear(e)'
<1>1. \A x \in Events : outbox'[x] = IF x \in S THEN "PENDING" ELSE outbox[x]
  BY DEF SealEvents
<1>2. \A e \in Events : WaitsAfter(e) => WaitsAfter(e)'
  BY <1>1, WaitsKept
<1>3. \A e \in S : WaitsAfter(e)'
  BY <1>1 DEF SealedPrefix, WaitsAfter, Follows, Sealable
<1>4. \A e \in Events : outbox[e] # "NONE" /\ Clear(e) => Clear(e)'
  BY <1>1 DEF SealedPrefix, Clear, Follows, Sealable
<1>5. QED
  BY <1>2, <1>3, <1>4

LEMMA QueueAround ==
  ASSUME DispatchInv, AdmissionStaysValid, AdmissionInv, BasisInv, SealedPrefix,
         PendingServed, BasisServed, HandServed, Around, Outside = {}
  PROVE  PendingServed' /\ BasisServed' /\ HandServed'
<1>1. /\ numeric' = numeric /\ active' = active
      /\ \A x \in Attempts : admission[x] # NoAdmission =>
           /\ attempts'[x].event = attempts[x].event /\ attempts'[x].source = attempts[x].source
           /\ attempts'[x].status = "RESERVED" => attempts[x].status = "RESERVED"
      /\ outbox' = outbox \/ \E S \in SUBSET Sealable : SealEvents(S)
  BY DEF Around
<1>2. ASSUME NEW e \in Events
      PROVE  /\ WaitsAfter(e) => WaitsAfter(e)'
             /\ outbox[e] # "NONE" /\ Clear(e) => Clear(e)'
  BY <1>1, QueueSeal DEF WaitsAfter, Clear, Follows
<1>3. PendingServed'
  <2>1. CASE outbox' = outbox
    BY <2>1, <1>2 DEF PendingServed, Pending
  <2>2. ASSUME NEW S \in SUBSET Sealable, SealEvents(S)
        PROVE  PendingServed'
    BY <1>2, <2>2, QueueSeal DEF PendingServed, Pending, SealEvents
  <2>3. QED
    BY <1>1, <2>1, <2>2
<1>4. BasisServed'
  <2> SUFFICES ASSUME numeric # NULL PROVE WaitsAfter(Basis)'
    BY <1>1 DEF BasisServed
  <2>1. PICK b \in Events : b = Basis /\ b = attempts[numeric].event /\ numeric \in Assessed
    BY BasisEvent
  <2>2. Basis' = b
    BY <1>1, <2>1 DEF Basis, Assessed
  <2>3. WaitsAfter(b)'
    BY <1>2, <2>1 DEF BasisServed
  <2>4. QED
    BY <2>2, <2>3 DEF WaitsAfter
<1>5. ASSUME NEW a \in Attempts, active' = a, attempts'[a].status = "RESERVED"
      PROVE  /\ WaitsAfter(attempts[a].event)'
             /\ attempts'[a].source => Clear(attempts[a].event)'
  <2>1. admission[a] # NoAdmission /\ active = a
    BY <1>1, <1>5, DeliveryAssumption DEF DispatchInv, PointerInv, ActiveAdmitted
  <2>2. PICK e \in Events : e = attempts[a].event
    BY <2>1 DEF AdmissionInv
  <2>3. /\ attempts[a].status = "RESERVED"
        /\ attempts'[a].event = e /\ attempts'[a].source = attempts[a].source
    BY <1>1, <1>5, <2>1, <2>2
  <2>4. attempts[a].source => outbox[e] # "NONE"
    BY <2>1, <2>2, <2>3 DEF AdmissionStaysValid
  <2>5. WaitsAfter(e)' /\ (attempts'[a].source => Clear(e)')
    BY <1>2, <2>1, <2>2, <2>3, <2>4 DEF HandServed
  <2>6. QED
    BY <2>3, <2>5 DEF WaitsAfter, Clear
<1>6. HandServed'
  BY <1>5 DEF HandServed
<1>7. QED
  BY <1>3, <1>4, <1>6

LEMMA UndisturbedBefore ==
  ASSUME DispatchInv, DispatchMoves, Undisturbed'
  PROVE  Undisturbed /\ \A a \in Attempts : ~Bypasses(a)
<1>1. NULL \notin Attempts
  BY DeliveryAssumption
<1>2. ASSUME NEW e \in Events, SetsAside(e) PROVE Undisturbed
  BY <1>1, <1>2 DEF SetsAside, Undisturbed
<1>3. ASSUME NEW a \in Attempts, NEW e \in Events, NEW t \in Times, Opens(a, e, t)
      PROVE  Undisturbed
  BY <1>1, <1>3 DEF Opens, Undisturbed
<1>4. ASSUME NEW a \in Attempts, Assesses(a) PROVE Undisturbed
  BY <1>4 DEF Assesses, Undisturbed
<1>5. ASSUME NEW a \in Attempts, Bypasses(a) PROVE FALSE
  BY <1>5 DEF Bypasses, Undisturbed
<1>6. ASSUME Around PROVE Undisturbed
  <2>1. Outside = {}
    BY <1>6 DEF Around, OutsideStays, Undisturbed
  <2>2. ASSUME NEW a \in Attempts, active = a PROVE attempts[a].status # "COMMITTED"
    <3>1. admission[a] # NoAdmission /\ active' = a
      BY <1>1, <1>6, <2>2, ActiveAttempt DEF DispatchInv, Around
    <3>2. attempts'[a].status = "COMMITTED" <=> attempts[a].status = "COMMITTED"
      BY <1>6, <3>1 DEF Around
    <3>3. QED
      BY <3>1, <3>2 DEF Undisturbed
  <2>3. QED
    BY <2>1, <2>2 DEF Undisturbed
<1>7. QED
  BY <1>2, <1>3, <1>4, <1>5, <1>6 DEF DispatchMoves

LEMMA QueueInvStep ==
  ASSUME DispatchInv, AdmissionStaysValid, AdmissionInv, StartInv, BasisInv, QueueInv,
         DispatchMoves
  PROVE  QueueInv'
<1>1. SealedPrefix'
  BY PrefixStep DEF QueueInv
<1>2. ASSUME Undisturbed'
      PROVE  PendingServed' /\ BasisServed' /\ HandServed'
  <2>1. Undisturbed /\ \A a \in Attempts : ~Bypasses(a)
    BY <1>2, UndisturbedBefore
  <2>2. PendingServed /\ BasisServed /\ HandServed /\ Outside = {}
    BY <2>1 DEF QueueInv, Undisturbed
  <2>3. QED
    BY <2>1, <2>2, QueueAside, QueueOpens, QueueAssesses, QueueAround DEF QueueInv, DispatchMoves
<1>3. QED
  BY <1>1, <1>2 DEF QueueInv

----------------------------------------------------------------------------
(* Decisions, and the events and checks they were made on.                 *)

(* A check was carried by one assessed invocation, and not by the one that *)
(* still has the pointer.                                                  *)
DueInv ==
  /\ handled = UNION {admission[a].due : a \in Assessed}
  /\ \A a, b \in Assessed : a # b => admission[a].due \cap admission[b].due = {}
  /\ \A a \in Attempts : active = a => admission[a].due \cap handled = {}

LEMMA DueStep ==
  ASSUME DispatchInv, DueInv, DispatchMoves
  PROVE  DueInv'
<1>1. ASSUME Assessed' = Assessed, handled' = handled,
             \A x \in Assessed : admission'[x] = admission[x],
             \A x \in Attempts : active' = x => admission'[x].due \cap handled = {}
      PROVE  DueInv'
  <2>1. {admission'[x].due : x \in Assessed'} = {admission[x].due : x \in Assessed}
    BY <1>1
  <2>2. QED
    BY <1>1, <2>1 DEF DueInv
<1>2. NULL \notin Attempts
  BY DeliveryAssumption
<1>3. ASSUME NEW e \in Events, SetsAside(e)
      PROVE  DueInv'
  BY <1>1, <1>2, <1>3, AssessedAside DEF SetsAside
<1>4. ASSUME NEW a \in Attempts, NEW e \in Events, NEW t \in Times, Opens(a, e, t)
      PROVE  DueInv'
  <2>1. /\ Assessed' = Assessed /\ handled' = handled
        /\ \A x \in Assessed : admission'[x] = admission[x]
    BY <1>4, AssessedOpens DEF Opens, Assessed
  <2>2. active' = a /\ admission'[a].due = DueChecks(t)
    BY <1>4 DEF Opens
  <2>3. DueChecks(t) \cap handled = {}
    BY DEF DueChecks
  <2>4. QED
    BY <1>1, <2>1, <2>2, <2>3
<1>5. ASSUME NEW a \in Attempts, Assesses(a)
      PROVE  DueInv'
  <2>1. Assessed' = Assessed \cup {a} /\ a \notin Assessed /\ admission' = admission
    BY <1>5, AssessedGrows
  <2>2. /\ handled' = handled \cup admission[a].due /\ admission[a].due \cap handled = {}
        /\ active' = NULL
    BY <1>5 DEF Assesses
  <2>3. {admission'[x].due : x \in Assessed'}
          = {admission[x].due : x \in Assessed} \cup {admission[a].due}
    BY <2>1
  <2>4. handled' = UNION {admission'[x].due : x \in Assessed'}
    BY <2>2, <2>3 DEF DueInv
  <2>5. \A x \in Assessed : admission[x].due \cap admission[a].due = {}
    BY <2>2 DEF DueInv
  <2>6. \A x, y \in Assessed' : x # y => admission'[x].due \cap admission'[y].due = {}
    BY <2>1, <2>5 DEF DueInv
  <2>7. QED
    BY <1>2, <2>2, <2>4, <2>6 DEF DueInv
<1>6. ASSUME Around \/ \E a \in Attempts : Bypasses(a)
      PROVE  DueInv'
  <2>1. UNCHANGED <<Assessed, handled, admission, active>>
    BY <1>6, AssessedAround, AssessedBypassed DEF Around, Bypasses
  <2>2. QED
    BY <1>1, <2>1 DEF DueInv
<1>7. QED
  BY <1>3, <1>4, <1>5, <1>6 DEF DispatchMoves

(* What decisions were made on, or are being made on: the one in hand may  *)
(* still be committed past dispatch.                                       *)
Relied == Assessed \cup {a \in Attempts : active = a}

(* A correction of it is not filed away. *)
ReviewedInv ==
  \A e \in Events, a \in Relied :
    Supersedes(e, attempts[a].event) => outcomes[e] \notin {"SUPPRESSED", "HISTORY"}

LEMMA ReliedStays ==
  ASSUME DispatchInv, Around \/ \E a \in Attempts : Bypasses(a)
  PROVE  /\ Relied' = Relied /\ outcomes' = outcomes
         /\ \A a \in Relied : attempts'[a].event = attempts[a].event
<1>1. /\ Assessed' = Assessed /\ active' = active /\ outcomes' = outcomes
      /\ \A x \in Attempts : admission[x] # NoAdmission => attempts'[x].event = attempts[x].event
  BY AssessedAround, AssessedBypassed DEF Around, Bypasses
<1>2. \A a \in Relied : a \in Attempts /\ admission[a] # NoAdmission
  BY DeliveryAssumption, ActiveAttempt DEF Relied, Assessed, DispatchInv
<1>3. QED
  BY <1>1, <1>2 DEF Relied

(* What is set aside corrects nothing that was assessed: it is no revision *)
(* of the baseline, and below the baseline only what is late or corrects   *)
(* a review could be one.                                                  *)
LEMMA AsideCorrectsNothing ==
  ASSUME AdmissionInv, StartInv, BasisInv, NEW e \in Events, SetsAside(e), NEW a \in Assessed
  PROVE  ~Supersedes(e, attempts[a].event)
<1>1. /\ numeric # NULL /\ e \in Pending
      /\ Judged(e, Basis) /\ ~Late(e, Basis)
      /\ ~(e # Basis /\ (Supersedes(e, Basis) \/ CorrectsWork(e)))
  BY DEF SetsAside
<1>2. PICK b \in Events : b = Basis /\ b # NULL /\ Settled(b)
  BY <1>1, BasisEvent
<1>3. PICK p \in Events : p = attempts[a].event
  BY AssessedEvent
<1>4. p = b \/ Before(p, b)
  BY <1>2, <1>3 DEF BasisInv
<1>5. e # b
  BY <1>1, <1>2 DEF Settled, Pending
<1>6. \A x \in {e, p, b} : Interval(x) \in Nat /\ Revision(x) \in Nat
  BY EventNumbers
<1>7. /\ ~Supersedes(e, b) /\ ~CorrectsWork(e)
      /\ Comparable(e, b) \/ Late(e, b) \/ (Older(e, b) /\ CorrectsWork(e))
      /\ ~Late(e, b)
  BY <1>1, <1>2, <1>5 DEF Judged
<1>8. Interval(b) < Interval(e)
  BY <1>7 DEF Comparable
<1>9. Interval(p) <= Interval(b)
  BY <1>4, <1>6 DEF Before
<1>10. QED
  BY <1>3, <1>6, <1>8, <1>9 DEF Supersedes

LEMMA ReviewedStep ==
  ASSUME DispatchInv, AdmissionInv, StartInv, BasisInv, QueueInv, ReviewedInv, DispatchMoves
  PROVE  ReviewedInv'
<1>1. NULL \notin Attempts
  BY DeliveryAssumption
<1>2. ASSUME NEW d \in Events, SetsAside(d)
      PROVE  ReviewedInv'
  <2>1. Assessed' = Assessed /\ attempts' = attempts /\ active = NULL /\ active' = NULL
    BY <1>2, AssessedAside DEF SetsAside
  <2>2. outcomes' = [outcomes EXCEPT ![d] = "SUPPRESSED"]
    BY <1>2 DEF SetsAside
  <2>3. \A x \in Events \ {d} : outcomes'[x] = outcomes[x]
    BY <2>2 DEF DispatchInv, TypeOK, DispatchTypeOK
  <2>4. \A a \in Assessed : ~Supersedes(d, attempts[a].event)
    BY <1>2, AsideCorrectsNothing
  <2>5. Relied' = Assessed /\ Relied = Assessed
    BY <1>1, <2>1 DEF Relied
  <2>6. QED
    BY <2>1, <2>3, <2>4, <2>5 DEF ReviewedInv, Supersedes
<1>3. ASSUME NEW a \in Attempts, NEW d \in Events, NEW t \in Times, Opens(a, d, t)
      PROVE  ReviewedInv'
  <2>1. /\ Assessed' = Assessed /\ \A x \in Assessed : attempts'[x].event = attempts[x].event
        /\ attempts'[a].event = d
    BY <1>3, AssessedOpens DEF Assessed
  <2>2. active = NULL /\ active' = a /\ Undisturbed
    BY <1>1, <1>3 DEF Opens, Undisturbed
  <2>3. Relied' = Assessed \cup {a} /\ Relied = Assessed
    BY <1>1, <2>1, <2>2 DEF Relied
  <2>4. Assessed # {} => \A x \in Events : outcomes'[x] = outcomes[x]
    BY <1>3 DEF StartInv, Opens, Earlier
  <2>5. PendingServed' /\ WaitsAfter(d)'
    BY <1>3, <2>2, QueueFirst, QueueNext DEF QueueInv
  <2>6. ASSUME NEW e \in Events, Supersedes(e, d)
        PROVE  outcomes'[e] \notin {"SUPPRESSED", "HISTORY"}
    <3>1. Follows(e, d)
      BY <2>6, EventNumbers DEF Supersedes, Follows
    <3>2. outbox'[e] \notin {"SUPPRESSED", "HISTORY"}
      BY <2>5, <3>1 DEF WaitsAfter, Follows
    <3>3. outcomes'[e] = outcomes[e] /\ outbox'[e] = outbox[e]
      BY <1>3, <3>2 DEF Opens
    <3>4. QED
      BY <3>2, <3>3 DEF DispatchInv, OutboxInv, OutcomesFiled
  <2>7. QED
    BY <2>1, <2>3, <2>4, <2>6 DEF ReviewedInv, Supersedes
<1>4. ASSUME NEW a \in Attempts, Assesses(a)
      PROVE  ReviewedInv'
  <2>1. /\ Assessed' = Assessed \cup {a}
        /\ \A x \in Attempts : attempts'[x].event = attempts[x].event
    BY <1>4, AssessedGrows
  <2>2. \A x \in Events : outcomes'[x] = outcomes[x] \/ outcomes'[x] = "ASSESSED"
    BY <1>4 DEF Assesses, DispatchInv, TypeOK, DispatchTypeOK
  <2>3. Relied' = Relied /\ Relied \subseteq Attempts
    BY <1>1, <1>4, <2>1 DEF Relied, Assesses, Assessed
  <2>4. QED
    BY <2>1, <2>2, <2>3 DEF ReviewedInv, Supersedes
<1>5. ASSUME Around \/ \E a \in Attempts : Bypasses(a)
      PROVE  ReviewedInv'
  BY <1>5, ReliedStays DEF ReviewedInv, Supersedes
<1>6. QED
  BY <1>2, <1>3, <1>4, <1>5 DEF DispatchMoves

----------------------------------------------------------------------------
(* All of it together.                                                     *)
DecisionInv ==
  /\ StartInv /\ CountsInv /\ AdmissionInv /\ BasisInv /\ QueueInv /\ DueInv /\ ReviewedInv

LEMMA DecisionInit == Init => DecisionInv
<1> SUFFICES ASSUME Init PROVE DecisionInv
  OBVIOUS
<1>1. /\ Assessed = {} /\ \A e \in Events : outcomes[e] = "NONE" /\ outbox[e] = "NONE"
      /\ initial = NULL /\ numeric = NULL /\ health = NULL /\ active = NULL /\ handled = {}
      /\ \A a \in Attempts : admission[a] = NoAdmission /\ attempts[a].status = "NONE"
      /\ counts = [history |-> 0, suppressed |-> 0, assessed |-> 0]
  BY DEF Init, SourceInit, JournalInit, Assessed, NoAttempt
<1>2. OutcomeSet("HISTORY") = {} /\ OutcomeSet("SUPPRESSED") = {}
  BY <1>1 DEF OutcomeSet
<1>3. StartInv /\ AdmissionInv
  BY <1>1, <1>2 DEF StartInv, AdmissionInv
<1>4. CountsInv
  BY <1>1, <1>2, FS_EmptySet DEF CountsInv
<1>5. BasisInv
  BY <1>1, DeliveryAssumption DEF BasisInv
<1>6. QueueInv
  BY <1>1, DeliveryAssumption
  DEF QueueInv, SealedPrefix, PendingServed, BasisServed, HandServed, Pending
<1>7. DueInv /\ ReviewedInv
  BY <1>1 DEF DueInv, ReviewedInv, Relied
<1>8. QED
  BY <1>3, <1>4, <1>5, <1>6, <1>7 DEF DecisionInv

LEMMA DecisionMoves ==
  ASSUME DispatchInv, AdmissionStaysValid, DecisionInv, DispatchMoves
  PROVE  DecisionInv'
BY StartStep, CountsStep, AdmissionStep, BasisStep, QueueInvStep, DueStep, ReviewedStep
DEF DecisionInv

LEMMA DecisionStep ==
  ASSUME DispatchInv, AdmissionStaysValid, DecisionInv, [Next]_vars
  PROVE  DecisionInv'
BY DispatchStepMoves, DecisionMoves

LEMMA DecisionInvHolds == Spec => []DecisionInv
BY DecisionInit, DecisionStep, DispatchInvHolds, AdmissionStaysValidHolds, PTL DEF Spec

LEMMA StatusIsReadable == DispatchInv /\ DecisionInv => StatusReadable
<1> SUFFICES ASSUME DispatchInv, DecisionInv PROVE StatusReadable
  OBVIOUS
<1>1. Accounted = Assessed
  BY AccountedAssessed DEF DispatchInv
<1>2. /\ IsFiniteSet(Assessed) /\ IsFiniteSet(OutcomeSet("SUPPRESSED"))
      /\ IsFiniteSet(OutcomeSet("HISTORY"))
  BY EventsFinite, DeliveryAssumption, FS_Subset DEF Assessed, OutcomeSet
<1>3. /\ Cardinality(Assessed) \in Nat /\ (Cardinality(Assessed) = 0) = (Assessed = {})
      /\ (Cardinality(OutcomeSet("SUPPRESSED")) = 0) = (OutcomeSet("SUPPRESSED") = {})
      /\ Cardinality(OutcomeSet("SUPPRESSED")) \in Nat
      /\ (Cardinality(OutcomeSet("HISTORY")) = 0) = (OutcomeSet("HISTORY") = {})
  BY <1>2, FS_CardinalityType, FS_EmptySet
<1>4. initial = NULL => OutcomeSet("HISTORY") = {}
  BY DEF DecisionInv, StartInv, OutcomeSet
<1>5. /\ counts.history = Cardinality({e \in Events : outcomes[e] = "HISTORY"})
      /\ counts.suppressed = Cardinality({e \in Events : outcomes[e] = "SUPPRESSED"})
      /\ counts.assessed = Cardinality(Accounted)
  BY <1>1 DEF DecisionInv, CountsInv, OutcomeSet
<1>6. /\ counts.assessed = Cardinality(Assessed)
      /\ counts.suppressed = Cardinality(OutcomeSet("SUPPRESSED"))
      /\ counts.history = Cardinality(OutcomeSet("HISTORY"))
  BY DEF DecisionInv, CountsInv
<1>7. counts.assessed > 0 <=> Assessed # {}
  BY <1>3, <1>6
<1>8. counts.suppressed > 0 => counts.assessed > 0
  BY <1>3, <1>6, <1>7 DEF DecisionInv, StartInv
<1>9. (numeric = NULL) = (health = NULL) /\ (counts.assessed > 0) = (numeric # NULL)
  BY <1>7 DEF DecisionInv, StartInv
<1>10. /\ initial = NULL => counts.history = 0 /\ counts.assessed = 0 /\ active = NULL
       /\ initial # NULL /\ counts.assessed = 0 => active # NULL
  BY <1>3, <1>4, <1>6 DEF DecisionInv, StartInv
<1>11. QED
  BY <1>5, <1>8, <1>9, <1>10 DEF StatusReadable

(* Whatever interleaving of runners, people, polls and crashes led there,  *)
(* the settings row can be read back: its counters are the rows they count *)
(* and its pointers and baselines are set together or not at all.          *)
THEOREM StatusReadableHolds == Spec => []StatusReadable
BY StatusIsReadable, DispatchInvHolds, DecisionInvHolds, PTL

LEMMA DueIsHandledOnce == DispatchInv /\ DecisionInv => DueChecksHandledOnce
<1> SUFFICES ASSUME DispatchInv, DecisionInv PROVE DueChecksHandledOnce
  OBVIOUS
<1> DEFINE Done == {a \in Committed(Canonical) : admission[a] # NoAdmission}
<1>1. Accounted = Assessed /\ DueInv
  BY AccountedAssessed DEF DispatchInv, DecisionInv
<1>2. \A a \in Done : a \in Attempts /\ (a \in Assessed \/ active = a)
  BY DEF Committed, AttemptsOf, Assessed
<1>3. \A b \in Assessed : admission[b].due \subseteq handled
  BY <1>1 DEF DueInv
<1>4. ASSUME NEW a \in Done, NEW b \in Done, a # b
      PROVE  admission[a].due \cap admission[b].due = {}
  <2>1. CASE a \in Assessed /\ b \in Assessed
    BY <1>1, <1>4, <2>1 DEF DueInv
  <2>2. CASE active = a
    BY <1>1, <1>2, <1>3, <1>4, <2>2 DEF DueInv
  <2>3. CASE active = b
    BY <1>1, <1>2, <1>3, <1>4, <2>3 DEF DueInv
  <2>4. QED
    BY <1>2, <2>1, <2>2, <2>3
<1>5. QED
  BY <1>1, <1>4 DEF DueInv, DueChecksHandledOnce

(* A check that came due is handled by exactly one recorded answer, however *)
(* many invocations were lost, failed or abandoned while it waited.         *)
THEOREM DueChecksHandledOnceHolds == Spec => []DueChecksHandledOnce
BY DueIsHandledOnce, DispatchInvHolds, DecisionInvHolds, PTL

LEMMA CorrectionsAreReviewed == DispatchInv /\ DecisionInv => CorrectionsReviewed
<1>1. Committed(Canonical) \ Outside \subseteq Relied
  BY DEF Committed, Outside, AttemptsOf, Assessed, Relied
<1>2. QED
  BY <1>1 DEF DecisionInv, ReviewedInv, CorrectionsReviewed

(* A revision of an event a decision was made on is never set aside, nor   *)
(* filed as history, wherever the baseline and the reviews have moved.     *)
THEOREM CorrectionsReviewedHolds == Spec => []CorrectionsReviewed
BY CorrectionsAreReviewed, DispatchInvHolds, DecisionInvHolds, PTL

LEMMA QueueIsComparable == DispatchInv /\ DecisionInv => QueueNeverIncomparable
<1> SUFFICES ASSUME DispatchInv, DecisionInv, NEW e \in Events, Bound, active = NULL, Candidate(e)
             PROVE  Judged(e, Basis)
  BY DEF QueueNeverIncomparable
<1> USE DEF DecisionInv
<1>1. CASE numeric = NULL
  BY <1>1 DEF Judged, Basis
<1>2. CASE numeric # NULL
  <2>1. PICK b \in Events : b = Basis /\ b # NULL
    BY <1>2, BasisEvent
  <2>2. /\ WaitsAfter(b) /\ SealedPrefix
        /\ initial # NULL
    BY <1>2, <2>1, DeliveryAssumption DEF QueueInv, Undisturbed, Bound, BasisServed, StartInv
  <2>3. Oldest(e, Pending) \/ (Pending = {} /\ e \in Sealed)
    BY <2>2 DEF Candidate, Newest
  <2>4. outbox[e] # "NONE"
    BY <2>3 DEF Oldest, Pending, Sealed
  <2>5. \A x \in {b, e} : Interval(x) \in Nat /\ Revision(x) \in Nat
    BY EventNumbers
  <2>6. ASSUME Follows(e, b), ~Supersedes(e, b)
        PROVE  FALSE
    <3>1. PICK p \in Events : Supersedes(e, p) /\ Follows(p, b)
      BY <2>6, PriorRevision
    <3>2. Follows(e, p)
      BY <3>1, EventNumbers DEF Supersedes, Follows
    <3>3. outbox[p] = "PENDING"
      BY <2>2, <2>4, <3>1, <3>2 DEF SealedPrefix, WaitsAfter
    <3>4. Before(p, e) /\ ~Before(e, p) /\ p # e
      BY <3>2, FollowsBefore, BeforeTotal
    <3>5. QED
      BY <2>3, <3>3, <3>4 DEF Oldest, Pending
  <2>7. Interval(e) = Interval(b) /\ Revision(e) = Revision(b) => e = b
    BY SameEvent
  <2>8. \/ e = b
        \/ Comparable(e, b)
        \/ Older(e, b)
        \/ Interval(e) = Interval(b) /\ Revision(e) < Revision(b)
    BY <2>5, <2>6, <2>7 DEF Follows, Comparable, Older
  <2>9. QED
    BY <2>1, <2>8 DEF Judged, Late
<1>3. QED
  BY <1>1, <1>2

(* The next event in line never stands at a distance from the baseline on  *)
(* which evaluate_attention raises: between the baseline and a revision    *)
(* two further there would be one that waits and is older.                 *)
THEOREM QueueNeverIncomparableHolds == Spec => []QueueNeverIncomparable
BY QueueIsComparable, DispatchInvHolds, DecisionInvHolds, PTL

(* The baseline of the main comparison only ever moves to later evidence:  *)
(* a recheck or a late correction leaves it where it is.                   *)
THEOREM BaselineForwardHolds == Spec => BaselineForward
<1> DEFINE Forward ==
      numeric # NULL /\ numeric' # numeric =>
        Before(attempts[numeric].event, attempts[numeric'].event)
<1>1. DispatchInv /\ DecisionInv /\ [Next]_vars => Forward
  <2> SUFFICES ASSUME DispatchInv, DecisionInv, [Next]_vars, numeric # NULL, numeric' # numeric
               PROVE  Before(attempts[numeric].event, attempts[numeric'].event)
    OBVIOUS
  <2>1. DispatchMoves
    BY DispatchStepMoves
  <2>2. PICK a \in Attempts : Assesses(a)
    BY <2>1 DEF DispatchMoves, SetsAside, Opens, Bypasses, Around
  <2>3. /\ numeric' = a /\ admission[a].move /\ admission[a] # NoAdmission
        /\ admission[a].numeric = numeric
    BY <2>2 DEF Assesses
  <2>4. Before(EventOf(numeric), attempts[a].event)
    BY <2>3 DEF DecisionInv, AdmissionInv
  <2>5. QED
    BY <2>3, <2>4 DEF EventOf
<1>2. QED
  BY <1>1, DispatchInvHolds, DecisionInvHolds, PTL DEF Spec, BaselineForward

----------------------------------------------------------------------------
(* Dispatch implements its promise when it makes every reservation.        *)

(* The open decision made on attempt a. *)
DecisionOf(a) ==
  [evidence |-> attempts[a].event, answers |-> attempts[a].source, plans |-> attempts[a].caseRev]

LEMMA HeldRecord ==
  ASSUME TypeOK, NEW a \in HeldOf(Canonical)
  PROVE  a \in Attempts /\ attempts[a] \in Attempt /\ DecisionOf(a) # NULL
<1>1. a \in Attempts /\ attempts[a] \in Attempt
  BY AttemptRecord DEF HeldOf, AttemptsOf, Held, AttemptStatuses, TypeOK, DeliveryTypeOK
<1>2. DecisionOf(a) \in [evidence : Events, answers : BOOLEAN, plans : Nat]
  BY <1>1 DEF DecisionOf, Attempt
<1>3. QED
  BY <1>1, <1>2, DispatchAssumption

LEMMA OpenIs ==
  ASSUME OneUnresolved, NEW a \in HeldOf(Canonical)
  PROVE  HeldOf(Canonical) = {a} /\ OpenDecision = DecisionOf(a)
<1>1. HeldOf(Canonical) = {a}
  BY DEF OneUnresolved, HeldOf, AttemptsOf, Held
<1>2. (CHOOSE x \in {a} : TRUE) = a
  OBVIOUS
<1>3. QED
  BY <1>1, <1>2 DEF OpenDecision, DecisionOf

LEMMA NothingOpen == HeldOf(Canonical) = {} => OpenDecision = NULL
BY DEF OpenDecision

(* The same two facts about the state after a step. *)
LEMMA OpenBecomes ==
  ASSUME OneUnresolved', NEW a, a \in HeldOf(Canonical)'
  PROVE  HeldOf(Canonical)' = {a} /\ OpenDecision' = DecisionOf(a)'
<1>1. HeldOf(Canonical)' = {a}
  BY DEF OneUnresolved, HeldOf, AttemptsOf, Held
<1>2. (CHOOSE x \in {a} : TRUE) = a
  OBVIOUS
<1>3. QED
  BY <1>1, <1>2 DEF OpenDecision, DecisionOf

LEMMA OpenCloses == HeldOf(Canonical)' = {} => OpenDecision' = NULL
BY DEF OpenDecision

(* The decision stays open while the unresolved attempt stays what it is.  *)
LEMMA OpenKept ==
  ASSUME OneUnresolved, OneUnresolved', HeldOf(Canonical)' = HeldOf(Canonical),
         \A a \in HeldOf(Canonical) : /\ attempts'[a].event = attempts[a].event
                                      /\ attempts'[a].source = attempts[a].source
                                      /\ attempts'[a].caseRev = attempts[a].caseRev
  PROVE  OpenDecision' = OpenDecision
<1>1. CASE HeldOf(Canonical) = {}
  BY <1>1, NothingOpen, OpenCloses
<1>2. ASSUME NEW a \in HeldOf(Canonical)
      PROVE  OpenDecision' = OpenDecision
  <2>1. OpenDecision = DecisionOf(a) /\ OpenDecision' = DecisionOf(a)'
    BY <1>2, OpenIs, OpenBecomes
  <2>2. DecisionOf(a)' = DecisionOf(a)
    BY <1>2 DEF DecisionOf
  <2>3. QED
    BY <2>1, <2>2
<1>3. QED
  BY <1>1, <1>2

(* A step that touches no outbox row, no reservation of the case and not   *)
(* its revision does nothing the promise speaks of.                        *)
LEMMA PromiseStutters ==
  ASSUME UNCHANGED <<outbox, initial>>, caseRev'[Canonical] = caseRev[Canonical],
         OpenDecision' = OpenDecision
  PROVE  UNCHANGED Promise!vars
BY DEF Promise!vars

LEMMA AttemptsKeepOpen ==
  ASSUME attempts' = attempts
  PROVE  OpenDecision' = OpenDecision
BY DEF OpenDecision, HeldOf, AttemptsOf

LEMMA PromiseSetsAside ==
  ASSUME DispatchInv, DecisionInv, NEW e \in Sealed, NEW t \in Times, Suppress(e, t)
  PROVE  Promise!SetAside(e)
<1>1. SetsAside(e) /\ HeldOf(Canonical) = {} /\ caseRev' = caseRev
  BY SuppressSetsAside DEF Suppress, Ready, ledgerVars
<1>2. /\ numeric # NULL /\ e \in Pending /\ outbox' = [outbox EXCEPT ![e] = "SUPPRESSED"]
      /\ attempts' = attempts /\ initial' = initial
  BY <1>1 DEF SetsAside
<1>3. initial # NULL
  BY <1>2 DEF DecisionInv, StartInv
<1>4. OpenDecision = NULL /\ OpenDecision' = OpenDecision
  BY <1>1, <1>2, NothingOpen, AttemptsKeepOpen
<1>5. QED
  BY <1>1, <1>2, <1>3, <1>4 DEF Promise!SetAside, Promise!Waiting, Pending

LEMMA PromiseOpens ==
  ASSUME DispatchInv, OneUnresolved', NEW r \in Runners, NEW e \in Sealed, NEW a \in Attempts,
         NEW t \in Times, Admit(r, e, a, t)
  PROVE  Promise!Open(e)
<1>1. Opens(a, e, t) /\ HeldOf(Canonical) = {} /\ caseRev' = caseRev
  BY AdmitOpens DEF Admit, Ready, ledgerVars
<1>2. e \in Events /\ NULL \notin Events
  BY DeliveryAssumption DEF Sealed
<1>3. /\ attempts'[a].case = Canonical /\ attempts'[a].status = "RESERVED"
      /\ attempts'[a].event = e /\ attempts'[a].source = (Pending # {})
      /\ attempts'[a].caseRev = caseRev[Canonical]
  BY DEF Admit, ReserveRow, DispatchInv, TypeOK, DeliveryTypeOK, JournalTypeOK
<1>4. a \in HeldOf(Canonical)'
  BY <1>3 DEF HeldOf, AttemptsOf, Held
<1>5. (Pending # {}) = (e \in Pending)
  BY <1>1 DEF Opens, Candidate, Newest, Oldest
<1>6. Promise!Waiting = Pending
  BY DEF Promise!Waiting, Pending
<1>7. OpenDecision = NULL
  BY <1>1, NothingOpen
<1>8. OpenDecision' = [evidence |-> e, answers |-> e \in Pending, plans |-> caseRev[Canonical]]
  BY <1>3, <1>4, <1>5, OpenBecomes DEF DecisionOf
<1>9. initial # NULL \/ e \in Pending
  BY <1>1 DEF Opens, Candidate, Newest
<1>10. initial' # NULL
  BY <1>1, <1>2 DEF Opens
<1>11. outbox' = IF initial # NULL THEN outbox
                 ELSE [d \in Events |-> IF d \in Pending \ {e} THEN "HISTORY" ELSE outbox[d]]
  BY <1>1 DEF Opens, Earlier, DispatchInv, TypeOK, DeliveryTypeOK, SourceTypeOK
<1>12. QED
  BY <1>1, <1>6, <1>7, <1>8, <1>9, <1>10, <1>11 DEF Promise!Open

(* An answer is applied, by the runner that asked for it or through the    *)
(* journal.                                                                *)
LEMMA PromiseApplies ==
  ASSUME DispatchInv, OneUnresolved, NEW a \in Attempts, NEW d \in Decisions, NEW t \in Times,
         Complete(a, d, t), attempts[a].case = Canonical, initial' = initial
  PROVE  Promise!Apply
<1> USE DEF DispatchInv, TypeOK, DeliveryTypeOK
<1>1. attempts[a].status = "RESERVED" /\ Settle(a, "COMMITTED", t) /\ attempts[a] \in Attempt
  BY AttemptRecord DEF Complete, AttemptStatuses
<1>2. a \in HeldOf(Canonical)
  BY <1>1 DEF HeldOf, AttemptsOf, Held
<1>3. HeldOf(Canonical) = {a} /\ OpenDecision = DecisionOf(a) /\ OpenDecision # NULL
  BY <1>2, OpenIs, HeldRecord
<1>4. HeldOf(Canonical)' = {}
  <2>1. \A z \in Attempts : /\ attempts'[z].case = attempts[z].case
                            /\ attempts'[z].status = (IF z = a THEN "COMMITTED" ELSE attempts[z].status)
    BY <1>1, SettleKeeps DEF Held
  <2>2. QED
    BY <1>3, <2>1 DEF HeldOf, AttemptsOf, Held
<1>5. OpenDecision' = NULL
  BY <1>4, OpenCloses
<1>6. attempts[a].caseRev = caseRev[Canonical]
  BY DEF Complete, CaseUnchanged
<1>7. caseRev'[Canonical] > caseRev[Canonical]
  BY <1>1, CompleteApplies, StagedFacts DEF Applies, Advances
<1>8. outbox' = IF attempts[a].source THEN [outbox EXCEPT ![attempts[a].event] = "DONE"]
                ELSE outbox
  BY DEF Complete, Acknowledges, Acknowledge, sourceVars, SourceTypeOK
<1>9. QED
  BY <1>3, <1>5, <1>6, <1>7, <1>8 DEF Promise!Apply, DecisionOf

(* An answer for another case is no business of the promise. *)
LEMMA PromiseElsewhere ==
  ASSUME DispatchInv, OneUnresolved, OneUnresolved', NEW a \in Attempts, NEW d \in Decisions,
         NEW t \in Times, Complete(a, d, t), attempts[a].case # Canonical, initial' = initial
  PROVE  UNCHANGED Promise!vars
<1> USE DEF DispatchInv, TypeOK, DeliveryTypeOK
<1>1. attempts[a].status = "RESERVED" /\ Settle(a, "COMMITTED", t) /\ attempts[a] \in Attempt
  BY AttemptRecord DEF Complete, AttemptStatuses
<1>2. \A z \in Attempts \ {a} : attempts'[z] = attempts[z]
  BY <1>1 DEF Settle, JournalTypeOK
<1>3. attempts'[a].case = attempts[a].case
  BY <1>1, SettleKeeps DEF Held
<1>4. HeldOf(Canonical)' = HeldOf(Canonical) /\ a \notin HeldOf(Canonical)
  BY <1>2, <1>3 DEF HeldOf, AttemptsOf
<1>5. OpenDecision' = OpenDecision
  <2>1. HeldOf(Canonical) \subseteq Attempts \ {a}
    BY <1>4 DEF HeldOf, AttemptsOf
  <2>2. QED
    BY <1>2, <1>4, <2>1, OpenKept
<1>6. outbox' = outbox
  <2>1. ~attempts[a].source
    BY DEF OutboxInv, SourceIsCanonical
  <2>2. QED
    BY <2>1 DEF Complete, Acknowledges, sourceVars
<1>7. caseRev'[Canonical] = caseRev[Canonical]
  <2>1. Applies(a, d, t)
    BY CompleteApplies
  <2>2. PICK n \in Nat \ {0} : Bump(attempts[a].case, n, t)
    BY <2>1 DEF Applies
  <2>3. QED
    BY <2>2, DeliveryAssumption DEF Bump, LedgerTypeOK
<1>8. QED
  BY <1>5, <1>6, <1>7, PromiseStutters

(* Releasing an attempt that stays unresolved changes nothing; abandoning  *)
(* the one of the case drops the decision.                                 *)
LEMMA PromiseReleases ==
  ASSUME DispatchInv, OneUnresolved, OneUnresolved', NEW a \in Attempts, NEW t, Releasing(a, t),
         UNCHANGED dispatchVars
  PROVE  Promise!Drop \/ UNCHANGED Promise!vars
<1> USE DEF DispatchInv, TypeOK, DeliveryTypeOK
<1>1. PICK status \in {"STALE", "FAILED", "ABANDONED"} :
        /\ attempts[a].status \in Held /\ Settle(a, status, t)
        /\ UNCHANGED <<used, sourceVars, ledgerVars>>
  BY DEF Releasing
<1>2. \A z \in Attempts : /\ attempts'[z].case = attempts[z].case
                          /\ attempts'[z].event = attempts[z].event
                          /\ attempts'[z].source = attempts[z].source
                          /\ attempts'[z].status = (IF z = a THEN status ELSE attempts[z].status)
  BY <1>1, SettleKeeps
<1>3. \A z \in Attempts : attempts'[z].caseRev = attempts[z].caseRev
  <2>1. attempts[a] \in Attempt
    BY <1>1, AttemptRecord DEF Held, AttemptStatuses
  <2>2. QED
    BY <1>1, <2>1 DEF Settle, JournalTypeOK, Attempt
<1>4. UNCHANGED <<outbox, initial, caseRev>>
  BY <1>1 DEF sourceVars, ledgerVars, dispatchVars, settingsVars
<1>5. CASE a \in HeldOf(Canonical) /\ status = "ABANDONED"
  <2>1. HeldOf(Canonical) = {a} /\ OpenDecision # NULL
    BY <1>5, OpenIs, HeldRecord
  <2>2. HeldOf(Canonical)' = {}
    BY <1>2, <1>5, <2>1 DEF HeldOf, AttemptsOf, Held
  <2>3. OpenDecision' = NULL
    BY <2>2, OpenCloses
  <2>4. QED
    BY <1>4, <2>1, <2>3 DEF Promise!Drop
<1>6. CASE ~(a \in HeldOf(Canonical) /\ status = "ABANDONED")
  <2>1. HeldOf(Canonical)' = HeldOf(Canonical)
    BY <1>1, <1>2, <1>6 DEF HeldOf, AttemptsOf, Held
  <2>2. HeldOf(Canonical) \subseteq Attempts
    BY DEF HeldOf, AttemptsOf
  <2>3. OpenDecision' = OpenDecision
    BY <1>2, <1>3, <2>1, <2>2, OpenKept
  <2>4. QED
    BY <1>4, <2>3, PromiseStutters
<1>7. QED
  BY <1>5, <1>6

(* People edit the plans of the canonical case, or of another one. *)
LEMMA PromiseEdits ==
  ASSUME DispatchInv, NEW q \in Requests, NEW t \in Times, PersonActs(q, t), UNCHANGED dispatchVars
  PROVE  Promise!Edit \/ UNCHANGED Promise!vars
<1>1. PICK c \in Cases, action \in HumanActions, due \in Dues :
        \E task \in ActiveOf(c) :
          /\ Act(c, q, task, reviews[c][task].rev, action, due, t)
          /\ UNCHANGED <<sourceVars, journalVars>>
  BY DEF PersonActs
<1>2. Bump(c, 1, t) /\ UNCHANGED <<outbox, initial, attempts>>
  BY <1>1 DEF Act, sourceVars, journalVars, dispatchVars, settingsVars
<1>3. caseRev \in [Cases -> Nat] /\ Canonical \in Cases
  BY DeliveryAssumption DEF DispatchInv, TypeOK, DeliveryTypeOK, LedgerTypeOK
<1>4. OpenDecision' = OpenDecision
  BY <1>2, AttemptsKeepOpen
<1>5. caseRev'[Canonical] = IF c = Canonical THEN caseRev[Canonical] + 1 ELSE caseRev[Canonical]
  BY <1>2, <1>3 DEF Bump
<1>6. QED
  BY <1>2, <1>4, <1>5 DEF Promise!Edit, Promise!vars

LEMMA PromiseArrives ==
  ASSUME NEW S \in SUBSET Sealable, SealEvents(S), UNCHANGED <<ledgerVars, journalVars,
         dispatchVars>>
  PROVE  Promise!Arrive(S)
<1>1. UNCHANGED <<initial, caseRev, attempts>>
  BY DEF ledgerVars, journalVars, dispatchVars, settingsVars
<1>2. OpenDecision' = OpenDecision
  BY <1>1, AttemptsKeepOpen
<1>3. QED
  BY <1>1, <1>2 DEF SealEvents, Sealable, Promise!Arrive

LEMMA PromiseStep ==
  ASSUME Direct = {}, DispatchInv, DecisionInv, OneUnresolved, OneUnresolved', [Next]_vars
  PROVE  [Promise!Next]_(Promise!vars)
<1> DEFINE Kept == [Promise!Next]_(Promise!vars)
<1> USE DEF Promise!Next
<1>1. ASSUME NEW r \in Runners, Prepare(r)
      PROVE  Kept
  <2>1. PICK e \in Sealed, t \in Times :
          Suppress(e, t) \/ \E a \in Attempts \ Direct : Admit(r, e, a, t)
    BY <1>1 DEF Prepare
  <2>2. e \in Events
    BY DEF Sealed
  <2>3. QED
    BY <2>1, <2>2, PromiseSetsAside, PromiseOpens
<1>2. ASSUME NEW r \in Runners, Conclude(r)
      PROVE  Kept
  <2>1. runner[r].attempt \in Attempts
    BY <1>2, RunnerAttempt DEF Conclude, Finish, FinishStale, FailWrite, Idle, DispatchInv, TypeOK
  <2>2. ASSUME NEW d \in Decisions, NEW t \in Times, Finish(r, d, t)
        PROVE  Kept
    <3>1. PICK a \in Attempts : a = runner[r].attempt
      BY <2>1
    <3>2. MayFinish(a, t) /\ Complete(a, d, t) /\ initial' = initial
      BY <2>2, <3>1 DEF Finish, RecordAssessed
    <3>3. attempts[a].case = Canonical
      BY <3>2, DeliveryAssumption, ActiveAttempt DEF MayFinish, DispatchInv
    <3>4. QED
      BY <3>2, <3>3, PromiseApplies
  <2>3. ASSUME NEW d \in Decisions, NEW t \in Times, FinishStale(r, d, t)
        PROVE  Kept
    BY <2>1, <2>3, Releases, PromiseReleases DEF FinishStale
  <2>4. ASSUME NEW t \in Times, FailWrite(r, t)
        PROVE  Kept
    BY <2>1, <2>4, Releases, PromiseReleases DEF FailWrite
  <2>5. QED
    BY <1>2, <2>2, <2>3, <2>4 DEF Conclude
<1>3. ASSUME \/ \E t \in Times : Activate(t)
             \/ \E r \in Runners : FailCheck(r) \/ Lose(r)
             \/ UNCHANGED vars
      PROVE  Kept
  <2>1. UNCHANGED <<outbox, initial, caseRev, attempts>>
    BY <1>3 DEF Activate, FailCheck, Lose, vars, dispatchVars, settingsVars, sourceVars,
                ledgerVars, journalVars
  <2>2. QED
    BY <2>1, AttemptsKeepOpen, PromiseStutters
<1>4. CASE Elsewhere
  <2>1. UNCHANGED dispatchVars /\ initial' = initial
    BY <1>4 DEF Elsewhere, Surroundings, JournalCalls, dispatchVars, settingsVars
  <2>2. ASSUME NEW S \in SUBSET Sealable, SealEvents(S), UNCHANGED <<ledgerVars, journalVars>>
        PROVE  Kept
    <3>1. S \in SUBSET Events
      BY DEF Sealable
    <3>2. QED
      BY <2>1, <2>2, <3>1, PromiseArrives
  <2>3. ASSUME NEW q \in Requests, NEW t \in Times, PersonActs(q, t)
        PROVE  Kept
    BY <2>1, <2>3, PromiseEdits
  <2>4. ASSUME NEW a \in Attempts, NEW t \in Times, NEW d,
               Abandon(a, t) \/ KeepStale(a, d, t) \/ Fail(a, t)
        PROVE  Kept
    BY <2>1, <2>4, Releases, PromiseReleases
  <2>5. ASSUME NEW a \in Attempts, NEW t \in Times, NEW d \in Decisions, Complete(a, d, t)
        PROVE  Kept
    BY <2>1, <2>5, PromiseApplies, PromiseElsewhere
  <2>6. QED
    BY <1>4, <2>2, <2>3, <2>4, <2>5 DEF Elsewhere, Surroundings, JournalCalls
<1>5. QED
  BY <1>1, <1>2, <1>3, <1>4 DEF Next, Elsewhere

(* While dispatch makes every reservation, whatever runners, people, polls *)
(* and crashes do, and whoever applies an answer, is a step of the promise *)
(* or none of its business: one open decision, applied to the plans it was *)
(* made on together with the acknowledgement of its evidence.              *)
THEOREM KeepsPromiseHolds ==
  ASSUME Direct = {}
  PROVE  Spec => KeepsPromise
<1>1. Init => Promise!Init
  <2> SUFFICES ASSUME Init PROVE Promise!Init
    OBVIOUS
  <2>1. /\ outbox = [e \in Events |-> "NONE"] /\ initial = NULL /\ caseRev[Canonical] = 0
        /\ \A a \in Attempts : attempts[a].status = "NONE"
    BY DeliveryAssumption DEF Init, SourceInit, LedgerInit, JournalInit, NoAttempt
  <2>2. HeldOf(Canonical) = {}
    BY <2>1 DEF HeldOf, AttemptsOf, Held
  <2>3. QED
    BY <2>1, <2>2, NothingOpen DEF Promise!Init
<1>2. DispatchInv /\ DecisionInv /\ OneUnresolved /\ OneUnresolved' /\ [Next]_vars
        => [Promise!Next]_(Promise!vars)
  BY PromiseStep
<1>3. QED
  BY <1>1, <1>2, DispatchInvHolds, DecisionInvHolds, DispatchOneUnresolved, PTL
  DEF Spec, KeepsPromise, Promise!Spec
=============================================================================
