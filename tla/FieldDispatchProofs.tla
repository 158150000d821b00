------------------------ MODULE FieldDispatchProofs ------------------------
(***************************************************************************)
(* Theorems about dispatch that knows of field work, for any number of     *)
(* people, runners, invocations, sites and events.  Every step of it is    *)
(* one of seven moves; the invariants of dispatch and of field work, each  *)
(* proved of its own specification, survive all of them, and with them the *)
(* invariants about the two together are shown.                            *)
(***************************************************************************)
EXTENDS FieldDispatch, DispatchProofs, FieldWorkProofs

----------------------------------------------------------------------------
(* The moves                                                               *)

(* Nothing is saved on the case. *)
Quiet ==
  /\ [Next]_vars
  /\ UNCHANGED <<ledgerVars, journalVars, fieldVars, extensionVars, active, admission>>
  /\ activated => activated'
  /\ \A e \in Events : outcomes[e] = "ASSESSED" => outcomes'[e] = "ASSESSED"

ActsOnReview(q, t) ==
  PersonActs(q, t) /\ UNCHANGED <<dispatchVars, runner, fieldVars, extensionVars>>

WorksInField(c, t) ==
  Worked(c, t) /\ UNCHANGED <<sourceVars, journalVars, dispatchVars, runner, extensionVars>>

(* An invocation begins: without field work, or with what there is pinned. *)
Begun(r, e, a, t) ==
  /\ runner[r] = Idle /\ Admit(r, e, a, t)
  /\ \/ ~upgraded /\ LegacyAllowed /\ UNCHANGED <<fieldVars, extensionVars>>
     \/ upgraded /\ \E reg \in Registries : PinContext(a, reg)

(* One ends without effect on the case. *)
Released(a, t) ==
  /\ Releasing(a, t) /\ UNCHANGED <<dispatchVars, fieldVars, extensionVars>>
  /\ runner' = runner \/ \E r \in Runners : runner' = [runner EXCEPT ![r] = Idle]

(* Its answer is applied, with a plan or without. *)
Answered(r, a, d, proposal, t) ==
  /\ Records(r, a, d, t)
  /\ CaseUnchanged(a) /\ MaySettle(a, t)
  /\ Bump(attempts[a].case, Cardinality(Decided(d)) + (IF proposal = NULL THEN 0 ELSE 1) + 1, t)
  /\ IF proposal = NULL THEN UNCHANGED <<fieldVars, proposals>>
     ELSE ValidProposal(a, proposal) /\ StageAgentPlan(a, d, proposal, t)
  /\ UNCHANGED <<upgraded, pins>>

SavesAnswer ==
  \E r \in Runners, a \in Attempts, t \in Times, d \in Decisions,
     proposal \in PlanProposals \cup {NULL} :
    Answered(r, a, d, proposal, t)

FieldDispatchMoves ==
  \/ Quiet
  \/ \E q \in Requests \ (Attempts \X Kinds), t \in Times : ActsOnReview(q, t)
  \/ \E c \in Cases, t \in Times : WorksInField(c, t)
  \/ \E t \in Times : Upgrade(t)
  \/ \E r \in Runners, e \in Sealed, a \in Attempts, t \in Times : Begun(r, e, a, t)
  \/ \E a \in Attempts, t \in Times : Released(a, t)
  \/ SavesAnswer

LEMMA SuppressIsQuiet ==
  ASSUME TypeOK, Next, NEW e \in Sealed, NEW t \in Times, Suppress(e, t),
         UNCHANGED <<fieldVars, extensionVars>>
  PROVE  Quiet
<1>1. outcomes' = [outcomes EXCEPT ![e] = "SUPPRESSED"] /\ outcomes[e] = "NONE"
  BY DEF Suppress
<1>2. \A x \in Events : outcomes[x] = "ASSESSED" => outcomes'[x] = "ASSESSED"
  BY <1>1 DEF TypeOK, DispatchTypeOK
<1>3. QED
  BY <1>2 DEF Suppress, Quiet

LEMMA SurroundingsField ==
  ASSUME Surroundings, UNCHANGED <<fieldVars, extensionVars>>
  PROVE  FieldDispatchMoves
<1>1. UNCHANGED <<dispatchVars, runner>>
  BY DEF Surroundings
<1>2. ASSUME NEW S \in SUBSET Sealable, SealEvents(S), UNCHANGED <<ledgerVars, journalVars>>
      PROVE  FieldDispatchMoves
  BY <1>1, <1>2 DEF Next, Quiet, FieldDispatchMoves, dispatchVars, settingsVars, recordVars
<1>3. ASSUME NEW q \in Requests \ (Attempts \X Kinds), NEW t \in Times, PersonActs(q, t)
      PROVE  FieldDispatchMoves
  BY <1>1, <1>3 DEF ActsOnReview, FieldDispatchMoves
<1>4. ASSUME NEW a \in Attempts, NEW t \in Times, Abandon(a, t)
      PROVE  FieldDispatchMoves
  BY <1>1, <1>4, Releases DEF Released, FieldDispatchMoves
<1>5. QED
  BY <1>2, <1>3, <1>4, FieldDispatchAssumption DEF Surroundings

LEMMA LegacyField ==
  ASSUME TypeOK, NEW r \in Runners, PrepareLegacy(r) \/ ConcludeLegacy(r)
  PROVE  FieldDispatchMoves
<1>1. UNCHANGED <<fieldVars, extensionVars>>
  BY DEF PrepareLegacy, ConcludeLegacy
<1>2. CASE PrepareLegacy(r)
  <2>1. PICK e \in Sealed, t \in Times :
          Suppress(e, t) \/ \E a \in Attempts \ Direct : Admit(r, e, a, t)
    BY <1>2 DEF PrepareLegacy, Prepare
  <2>2. CASE Suppress(e, t)
    <3>1. Next
      BY <1>2 DEF PrepareLegacy, Next
    <3>2. QED
      BY <1>1, <2>2, <3>1, SuppressIsQuiet DEF FieldDispatchMoves
  <2>3. ASSUME NEW a \in Attempts \ Direct, Admit(r, e, a, t)
        PROVE  FieldDispatchMoves
    BY <1>1, <1>2, <2>3 DEF PrepareLegacy, Prepare, Begun, FieldDispatchMoves
  <2>4. QED
    BY <2>1, <2>2, <2>3
<1>3. CASE FailCheck(r)
  BY <1>1, <1>3 DEF Next, FailCheck, Quiet, FieldDispatchMoves, dispatchVars, settingsVars, recordVars
<1>4. ASSUME NEW d \in Decisions, NEW t \in Times, Finish(r, d, t)
      PROVE  FieldDispatchMoves
  <2>1. PICK a : a = runner[r].attempt
    OBVIOUS
  <2>2. a \in Attempts
    BY <1>4, <2>1, RunnerAttempt DEF Finish, Idle, TypeOK
  <2>3. Complete(a, d, t) /\ MayFinish(a, t) /\ RecordAssessed(a, t)
        /\ runner' = [runner EXCEPT ![r] = Idle]
    BY <1>4, <2>1 DEF Finish
  <2>4. Records(r, a, d, t)
    BY <2>2, <2>3, CompleteApplies DEF Records
  <2>5. Bump(attempts[a].case, Cardinality(Decided(d)) + 0 + 1, t)
    <3>1. Cardinality(Decided(d)) \in Nat
      BY LedgerAssumption, FS_Subset, FS_CardinalityType DEF Decided
    <3>2. Cardinality(Decided(d)) + 0 + 1 = Cardinality(Decided(d)) + 1
      BY <3>1
    <3>3. QED
      BY <2>3, <3>2 DEF Complete, StageDecisions
  <2>6. Answered(r, a, d, NULL, t)
    BY <1>1, <2>3, <2>4, <2>5 DEF Complete, Answered, extensionVars
  <2>7. QED
    BY <2>2, <2>6 DEF SavesAnswer, FieldDispatchMoves
<1>5. ASSUME NEW d \in Decisions, NEW t \in Times, FinishStale(r, d, t) \/ FailWrite(r, t)
      PROVE  FieldDispatchMoves
  <2>1. PICK a : a = runner[r].attempt
    OBVIOUS
  <2>2. a \in Attempts
    BY <1>5, <2>1, RunnerAttempt DEF FinishStale, FailWrite, Idle, TypeOK
  <2>3. KeepStale(a, d, t) \/ Fail(a, t)
    BY <1>5, <2>1 DEF FinishStale, FailWrite
  <2>4. Releasing(a, t)
    BY <2>3, Releases
  <2>5. Released(a, t)
    BY <1>1, <1>5, <2>4 DEF FinishStale, FailWrite, Released
  <2>6. QED
    BY <2>2, <2>5 DEF FieldDispatchMoves
<1>6. ASSUME NEW t \in Times, FailWrite(r, t)
      PROVE  FieldDispatchMoves
  <2>1. PICK d \in Decisions : TRUE
    <3>1. [k \in Kinds |-> [what |-> "NONE", due |-> NoDue]] \in Decisions
      BY DEF Decisions
    <3>2. QED
      BY <3>1
  <2>2. QED
    BY <1>5, <1>6, <2>1
<1>7. QED
  BY <1>2, <1>3, <1>4, <1>5, <1>6 DEF ConcludeLegacy, Conclude

LEMMA UpgradedField ==
  ASSUME TypeOK, NEW r \in Runners, PrepareV3(r) \/ ConcludeV3(r)
  PROVE  FieldDispatchMoves
<1>1. ASSUME NEW e \in Sealed, NEW t \in Times, runner[r] = Idle, Suppress(e, t),
             UNCHANGED <<fieldVars, extensionVars>>
      PROVE  FieldDispatchMoves
  <2>1. Next
    BY <1>1 DEF Prepare, Next
  <2>2. QED
    BY <1>1, <2>1, SuppressIsQuiet DEF FieldDispatchMoves
<1>2. CASE PrepareV3(r)
  BY <1>1, <1>2 DEF PrepareV3, BoundV3, Begun, FieldDispatchMoves
<1>3. ASSUME NEW reg \in Registries, NEW t \in Times, ReadBack(r, reg),
             \/ FailV3(r, t)
             \/ \E d \in Decisions, proposal \in PlanProposals \cup {NULL} :
                  FinishStaleV3(r, d, proposal, reg, t)
      PROVE  FieldDispatchMoves
  <2>1. PICK a : a = runner[r].attempt
    OBVIOUS
  <2>2. a \in Attempts
    BY <1>3, <2>1, RunnerAttempt DEF ReadBack, Idle, TypeOK
  <2>3. Releasing(a, t)
    <3>1. CASE FailV3(r, t)
      BY <2>1, <3>1, Releases DEF FailV3
    <3>2. ASSUME NEW d \in Decisions, NEW proposal \in PlanProposals \cup {NULL},
                 FinishStaleV3(r, d, proposal, reg, t)
          PROVE  Releasing(a, t)
      BY <2>1, <3>2 DEF FinishStaleV3, MayFinishV3, Releasing, Held
    <3>3. QED
      BY <1>3, <3>1, <3>2
  <2>4. /\ UNCHANGED <<dispatchVars, fieldVars, extensionVars>>
        /\ runner' = [runner EXCEPT ![r] = Idle]
    BY <1>3 DEF FailV3, FinishStaleV3
  <2>5. QED
    BY <2>2, <2>3, <2>4 DEF Released, FieldDispatchMoves
<1>4. ASSUME NEW reg \in Registries, NEW t \in Times, ReadBack(r, reg), NEW d \in Decisions,
             NEW proposal \in PlanProposals \cup {NULL}, FinishV3(r, d, proposal, reg, t)
      PROVE  FieldDispatchMoves
  <2>1. PICK a : a = runner[r].attempt
    OBVIOUS
  <2>2. a \in Attempts
    BY <1>4, <2>1, RunnerAttempt DEF ReadBack, Idle, TypeOK
  <2> DEFINE n == Cardinality(Decided(d)) + (IF proposal = NULL THEN 0 ELSE 1) + 1
  <2>3. n \in Nat \ {0}
    <3>1. Cardinality(Decided(d)) \in Nat
      BY LedgerAssumption, FS_Subset, FS_CardinalityType DEF Decided
    <3>2. QED
      BY <3>1
  <2>4. /\ MayFinishV3(r, d, proposal, t) /\ Applicable(a, proposal, reg, t) /\ StageWork(a, d, t)
        /\ IF proposal = NULL THEN UNCHANGED <<fieldVars, proposals>>
           ELSE StageAgentPlan(a, d, proposal, t)
        /\ Bump(attempts[a].case, n, t)
        /\ IF Acknowledges(a)
           THEN Acknowledge([e \in {attempts[a].event} |-> "DONE"])
           ELSE UNCHANGED sourceVars
        /\ Settle(a, "COMMITTED", t) /\ RecordAssessed(a, t)
        /\ runner' = [runner EXCEPT ![r] = Idle]
        /\ used' = used /\ UNCHANGED <<upgraded, pins>>
    BY <1>4, <2>1 DEF FinishV3
  <2>5. /\ MayFinish(a, t) /\ attempts[a].status = "RESERVED" /\ MaySettle(a, t) /\ ValidAnswer(a, d)
        /\ proposal # NULL => ValidProposal(a, proposal)
        /\ CaseUnchanged(a)
    BY <2>1, <2>4 DEF MayFinishV3, Applicable
  <2> HIDE DEF n
  <2>6. Applies(a, d, t)
    BY <2>3, <2>4, <2>5 DEF Applies
  <2>7. Records(r, a, d, t)
    BY <2>4, <2>5, <2>6 DEF Records
  <2>8. Answered(r, a, d, proposal, t)
    BY <2>4, <2>5, <2>7 DEF Answered, n
  <2>9. QED
    BY <2>2, <2>8 DEF SavesAnswer, FieldDispatchMoves
<1>5. QED
  BY <1>2, <1>3, <1>4 DEF ConcludeV3

(* Every step is one of the moves. *)
LEMMA FieldDispatchSteps ==
  ASSUME TypeOK, FieldInv, [UpgradeNext]_upgradeVars
  PROVE  FieldDispatchMoves
<1>1. ASSUME FieldPeople, UNCHANGED <<sourceVars, journalVars, dispatchVars, runner, extensionVars>>
      PROVE  FieldDispatchMoves
  <2>1. LedgerTypeOK /\ FieldTypeOK /\ SoundPlans /\ SitesKeepMeaning
    BY DEF TypeOK, DeliveryTypeOK, FieldInv
  <2>2. PICK c \in Cases : \E t \in caseTime[c] .. MaxTime : Worked(c, t)
    BY <1>1, <2>1, PeopleWorked
  <2>3. caseTime[c] .. MaxTime \subseteq Times
    BY <2>1, LedgerAssumption DEF LedgerTypeOK, Times
  <2>4. QED
    BY <1>1, <2>2, <2>3 DEF WorksInField, FieldDispatchMoves
<1>2. ASSUME (\E t \in Times : Activate(t)) \/ (\E r \in Runners : Lose(r)),
             UNCHANGED <<fieldVars, extensionVars>>
      PROVE  FieldDispatchMoves
  BY <1>2 DEF Activate, Lose, Next, Quiet, FieldDispatchMoves, dispatchVars, settingsVars, recordVars
<1>3. CASE UNCHANGED upgradeVars
  BY <1>3 DEF upgradeVars, vars, Quiet, FieldDispatchMoves, dispatchVars, settingsVars, recordVars
<1>4. CASE \E t \in Times : Upgrade(t)
  BY <1>4 DEF FieldDispatchMoves
<1>5. QED
  BY <1>1, <1>2, <1>3, <1>4, LegacyField, UpgradedField, SurroundingsField DEF UpgradeNext

----------------------------------------------------------------------------
(* What dispatch promises survives                                         *)

DispatchKept == DispatchInv /\ OneUnresolved /\ AdmissionStaysValid /\ DecisionInv

(* A step of Dispatch itself. *)
LEMMA KeptByDispatch ==
  ASSUME DispatchKept, [Next]_vars
  PROVE  DispatchKept'
<1>1. DispatchInv'
  BY DispatchStepType, PointerStep, OutboxStep DEF DispatchKept, DispatchInv
<1>2. OneUnresolved'
  <2>1. JournalMoves
    BY JournalSteps DEF DispatchKept, DispatchInv
  <2>2. QED
    BY <2>1, UnresolvedReserve, UnresolvedSettle
    DEF JournalMoves, Reserves, Settles, journalVars, OneUnresolved, DispatchKept, DispatchInv,
        TypeOK, DeliveryTypeOK
<1>3. QED
  BY <1>1, <1>2, ValidStep, DecisionStep DEF DispatchKept

(* A step that leaves the dispatcher, the journal and the queue alone, but *)
(* for the dispatcher's clock.                                             *)
LEMMA KeptAside ==
  ASSUME DispatchKept, LedgerTypeOK', dispatchTime' \in Times,
         UNCHANGED <<sourceVars, journalVars, activated, initial, counts, numeric, health, active,
                     recordVars, runner>>
  PROVE  DispatchKept'
<1>1. UNCHANGED <<outbox, pendingCount, attempts, used, admission, outcomes, handled>>
  BY DEF sourceVars, journalVars, recordVars
<1>2. TypeOK'
  BY <1>1 DEF DispatchKept, DispatchInv, TypeOK, DeliveryTypeOK, SourceTypeOK, JournalTypeOK,
              DispatchTypeOK
<1>3. PointerInv'
  BY <1>1, PointerKept DEF DispatchKept, DispatchInv
<1>4. OutboxInv'
  BY <1>1, OutboxKept DEF DispatchKept, DispatchInv
<1>5. OneUnresolved'
  BY <1>1 DEF DispatchKept, OneUnresolved
<1>6. AdmissionStaysValid'
  BY <1>1, ValidKept DEF DispatchKept
<1>7. DispatchMoves
  BY <1>1, QuietAround DEF DispatchMoves
<1>8. QED
  BY <1>2, <1>3, <1>4, <1>5, <1>6, <1>7, DecisionMoves DEF DispatchKept, DispatchInv

LEMMA KeptReleased ==
  ASSUME DispatchKept, NEW a \in Attempts, NEW t \in Times, Released(a, t)
  PROVE  DispatchKept'
<1>1. Releasing(a, t) /\ UNCHANGED dispatchVars
  BY DEF Released
<1>2. TypeOK'
  <2>1. DeliveryTypeOK'
    BY <1>1, ReleaseType DEF DispatchKept, DispatchInv, TypeOK
  <2>2. CASE runner' = runner
    BY <1>1, <2>1, <2>2
    DEF DispatchKept, DispatchInv, TypeOK, DispatchTypeOK, dispatchVars, settingsVars, recordVars
  <2>3. QED
    BY <1>1, <2>1, <2>2, RunnerStepType DEF Released, DispatchKept, DispatchInv
<1>3. PointerInv' /\ OutboxInv' /\ AdmissionStaysValid'
  BY <1>1, PointerRelease, OutboxSettle, ValidSettle DEF DispatchKept, DispatchInv
<1>4. OneUnresolved'
  BY <1>1, UnresolvedSettle
  DEF Releasing, DispatchKept, DispatchInv, TypeOK, DeliveryTypeOK
<1>5. DispatchMoves
  BY <1>1, ReleaseAround DEF DispatchMoves, DispatchKept, DispatchInv
<1>6. QED
  BY <1>2, <1>3, <1>4, <1>5, DecisionMoves DEF DispatchKept, DispatchInv

LEMMA KeptRecords ==
  ASSUME DispatchKept, NEW r \in Runners, NEW a \in Attempts, NEW d \in Decisions,
         NEW t \in Times, Records(r, a, d, t)
  PROVE  DispatchKept'
<1>1. TypeOK' /\ PointerInv' /\ OutboxInv' /\ AdmissionStaysValid'
  BY RecordsType, PointerRecords, OutboxRecords, ValidRecords DEF DispatchKept, DispatchInv
<1>2. OneUnresolved'
  BY UnresolvedSettle
  DEF Records, Applies, Held, DispatchKept, DispatchInv, TypeOK, DeliveryTypeOK
<1>3. DispatchMoves
  BY RecordsAssesses DEF DispatchMoves, DispatchKept, DispatchInv
<1>4. QED
  BY <1>1, <1>2, <1>3, DecisionMoves DEF DispatchKept, DispatchInv

LEMMA KeptByMoves ==
  ASSUME DispatchKept, FieldInv, FieldDispatchMoves
  PROVE  DispatchKept'
<1>1. TypeOK /\ LedgerTypeOK /\ FieldTypeOK
  BY DEF DispatchKept, DispatchInv, TypeOK, DeliveryTypeOK, FieldInv
<1>2. CASE Quiet
  BY <1>2, KeptByDispatch DEF Quiet
<1>3. ASSUME NEW q \in Requests \ (Attempts \X Kinds), NEW t \in Times, ActsOnReview(q, t)
      PROVE  DispatchKept'
  <2>1. Next
    BY <1>3 DEF ActsOnReview, Surroundings, Next
  <2>2. QED
    BY <2>1, KeptByDispatch
<1>4. ASSUME NEW c \in Cases, NEW t \in Times, WorksInField(c, t)
      PROVE  DispatchKept'
  <2>1. LedgerTypeOK'
    BY <1>1, <1>4, WorkedRecords DEF WorksInField
  <2>2. dispatchTime' \in Times
    BY <1>1, <1>4 DEF WorksInField, dispatchVars, settingsVars, TypeOK, DispatchTypeOK
  <2>3. QED
    BY <1>4, <2>1, <2>2, KeptAside DEF WorksInField, dispatchVars, settingsVars
<1>5. ASSUME NEW t \in Times, Upgrade(t)
      PROVE  DispatchKept'
  <2>1. LedgerTypeOK'
    BY <1>1, <1>5 DEF Upgrade, ledgerVars, LedgerTypeOK
  <2>2. QED
    BY <1>5, <2>1, KeptAside DEF Upgrade
<1>6. ASSUME NEW r \in Runners, NEW e \in Sealed, NEW a \in Attempts, NEW t \in Times,
             Begun(r, e, a, t)
      PROVE  DispatchKept'
  <2>1. Next
    BY <1>6, FieldDispatchAssumption DEF Begun, Prepare, Next
  <2>2. QED
    BY <2>1, KeptByDispatch
<1>7. QED
  BY <1>2, <1>3, <1>4, <1>5, <1>6, KeptReleased, KeptRecords
  DEF FieldDispatchMoves, SavesAnswer, Answered

----------------------------------------------------------------------------
(* What is saved is kept                                                   *)

(* Once saved, a receipt of a request stands for ever. *)
ReceiptsStay ==
  \A q \in Requests :
    receipts[Canonical][q] # NoReceipt => receipts'[Canonical][q] = receipts[Canonical][q]

MovesOn == \A x \in Cases : caseRev[x] <= caseRev'[x] /\ caseTime[x] <= caseTime'[x]

(* While the revision of the case stands still, so does all of its work. *)
StandsStill ==
  caseRev'[Canonical] = caseRev[Canonical] =>
    /\ plans'[Canonical] = plans[Canonical] /\ work'[Canonical] = work[Canonical]
    /\ reviews'[Canonical] = reviews[Canonical]

Preserves == FieldInv' /\ KeepsSaved /\ ReceiptsStay /\ MovesOn /\ StandsStill

LEMMA PreservesUnchanged ==
  ASSUME LedgerTypeOK, FieldInv, UNCHANGED <<ledgerVars, fieldVars>>
  PROVE  Preserves
<1>1. /\ caseRev' = caseRev /\ caseTime' = caseTime /\ reviews' = reviews /\ receipts' = receipts
      /\ plans' = plans /\ work' = work
  BY DEF ledgerVars, fieldVars
<1>2. MovesOn
  BY <1>1 DEF LedgerTypeOK, MovesOn, Times
<1>3. LedgerTypeOK'
  BY DEF ledgerVars, LedgerTypeOK
<1>4. FieldInv'
  BY <1>2, <1>3, FieldInvKept DEF MovesOn
<1>5. KeepsSaved
  BY UnchangedKeepsSaved
<1>6. QED
  BY <1>1, <1>2, <1>4, <1>5 DEF Preserves, ReceiptsStay, StandsStill

LEMMA PreservesActs ==
  ASSUME DeliveryTypeOK, FieldInv, NEW q \in Requests, NEW t \in Times, PersonActs(q, t),
         UNCHANGED fieldVars
  PROVE  Preserves
<1>1. LedgerTypeOK /\ LedgerTypeOK' /\ LedgerMoves
  BY PersonFacts DEF DeliveryTypeOK
<1>2. PICK c \in Cases, action \in HumanActions, due \in Dues :
        \E task \in ActiveOf(c) : Act(c, q, task, reviews[c][task].rev, action, due, t)
  BY DEF PersonActs
<1>3. /\ t >= caseTime[c] /\ Bump(c, 1, t) /\ receipts[c][q] = NoReceipt
      /\ \E r : receipts' = [receipts EXCEPT ![c][q] = r]
  BY <1>2 DEF Act
<1>4. MovesOn /\ caseRev'[c] = caseRev[c] + 1
  BY <1>1, <1>3, BumpMovesOn DEF MovesOn
<1>5. FieldInv'
  BY <1>1, <1>4, FieldInvKept DEF MovesOn
<1>6. ReceiptsStay
  BY <1>1, <1>3 DEF ReceiptsStay, LedgerTypeOK
<1>7. StandsStill
  <2>1. caseRev[Canonical] \in Nat /\ Canonical \in Cases
    BY <1>1, DeliveryAssumption DEF LedgerTypeOK
  <2>2. QED
    BY <1>1, <2>1 DEF StandsStill, LedgerMoves, fieldVars
<1>8. QED
  BY <1>4, <1>5, <1>6, <1>7, UnchangedKeepsSaved DEF Preserves

LEMMA PreservesRecorded ==
  ASSUME LedgerTypeOK, LedgerTypeOK', FieldInv, FieldTypeOK', ReceiptsStay, LedgerMoves,
         NEW op, NEW c, NEW p, NEW plan, NEW rev, NEW t, Recorded(op, c, p, plan, rev, t)
  PROVE  Preserves
<1>1. FieldInv' /\ KeepsSaved
  BY RecordedKeeps, RecordedKeepsSaved DEF FieldInv
<1>2. MovesOn /\ c \in Cases /\ rev \in Nat /\ rev > caseRev[c] /\ rev <= caseRev'[c]
  BY DEF Recorded, MovesOn
<1>3. Canonical \in Cases /\ caseRev[Canonical] \in Nat /\ caseRev'[Canonical] \in Nat
  BY DeliveryAssumption DEF LedgerTypeOK
<1>4. caseRev'[Canonical] = caseRev[Canonical] => reviews'[Canonical] = reviews[Canonical]
  BY <1>3 DEF LedgerMoves
<1>5. StandsStill
  <2>1. CASE c = Canonical
    BY <1>2, <1>3, <2>1 DEF StandsStill
  <2>2. CASE c # Canonical
    BY <1>3, <1>4, <2>2 DEF StandsStill, Recorded, Saves
  <2>3. QED
    BY <2>1, <2>2
<1>6. QED
  BY <1>1, <1>2, <1>5 DEF Preserves

LEMMA PreservesWork ==
  ASSUME LedgerTypeOK, FieldInv, NEW c \in Cases, NEW t \in Times, Worked(c, t)
  PROVE  Preserves
<1>1. LedgerTypeOK' /\ FieldTypeOK'
  BY WorkedRecords DEF FieldInv
<1>2. PICK op, p, plan, rev : Recorded(op, c, p, plan, rev, t)
  BY WorkedRecords DEF FieldInv
<1>3. reviews' = reviews /\ receipts' = receipts
  BY DEF Worked, Mutate
<1>4. LedgerMoves
  <2>1. \A x \in Cases : caseRev[x] \in Nat /\ caseRev'[x] \in Nat /\ caseRev[x] <= caseRev'[x]
    BY <1>1, <1>2 DEF Recorded, LedgerTypeOK
  <2>2. QED
    BY <1>3, <2>1 DEF LedgerMoves
<1>5. ReceiptsStay
  BY <1>3 DEF ReceiptsStay
<1>6. QED
  BY <1>1, <1>2, <1>4, <1>5, PreservesRecorded

(* An answer writes receipts of its own. *)
LEMMA AnswerReceipts ==
  ASSUME LedgerTypeOK, NEW a \in Attempts, attempts[a] \in Attempt, NEW d \in Decisions, NEW t,
         StageWork(a, d, t)
  PROVE  \A x \in Cases : \A q \in Requests :
           receipts[x][q] # NoReceipt => receipts'[x][q] = receipts[x][q]
<1>1. PICK c \in Cases : c = attempts[a].case
  BY DEF Attempt
<1>2. PICK P \in SUBSET Kinds, L \in SUBSET Kinds : Stages(a, c, d, P, L)
  BY <1>1, StagedRows
<1>3. \A k \in P \cup L : receipts[c][<<a, k>>] = NoReceipt
  BY <1>2 DEF Stages
<1>4. QED
  BY <1>2, <1>3 DEF Stages

(* What is saved of an answer. *)
LEMMA AnswerFacts ==
  ASSUME DispatchKept, NEW r \in Runners, NEW a \in Attempts, NEW d \in Decisions,
         NEW proposal \in PlanProposals \cup {NULL}, NEW t \in Times,
         Answered(r, a, d, proposal, t)
  PROVE  /\ attempts[a] \in Attempt /\ attempts[a].case = Canonical
         /\ attempts[a].status = "RESERVED" /\ StageWork(a, d, t)
         /\ Cardinality(Decided(d)) \in Nat
         /\ LedgerTypeOK' /\ LedgerMoves /\ MovesOn /\ ReceiptsStay
         /\ t = caseTime'[Canonical]
         /\ attempts[a].caseRev = caseRev[Canonical]
         /\ caseRev'[Canonical] = attempts[a].caseRev + Cardinality(Decided(d))
                                    + (IF proposal = NULL THEN 0 ELSE 1) + 1
<1>1. DeliveryTypeOK /\ LedgerTypeOK /\ JournalTypeOK /\ PointerInv
  BY DEF DispatchKept, DispatchInv, TypeOK, DeliveryTypeOK
<1>2. /\ Applies(a, d, t) /\ MayFinish(a, t)
      /\ CaseUnchanged(a) /\ MaySettle(a, t)
      /\ Bump(attempts[a].case, Cardinality(Decided(d)) + (IF proposal = NULL THEN 0 ELSE 1) + 1, t)
  BY DEF Answered, Records
<1>3. attempts[a].status = "RESERVED" /\ StageWork(a, d, t)
  BY <1>2 DEF Applies
<1>4. attempts[a] \in Attempt
  BY <1>1, <1>3, AttemptRecord DEF AttemptStatuses
<1>5. attempts[a].case = Canonical
  BY <1>1, <1>2, DeliveryAssumption DEF MayFinish, PointerInv, ActiveAdmitted, AdmittedHere
<1>6. Canonical \in Cases
  BY DeliveryAssumption
<1>7. Cardinality(Decided(d)) \in Nat
  BY LedgerAssumption, FS_Subset, FS_CardinalityType DEF Decided
<1>8. DeliveryTypeOK' /\ LedgerMoves
  BY <1>1, <1>2, AppliesFacts
<1>9. PICK n \in Nat \ {0} : n = Cardinality(Decided(d)) + (IF proposal = NULL THEN 0 ELSE 1) + 1
  BY <1>7
<1>10. /\ MovesOn /\ caseRev'[Canonical] = caseRev[Canonical] + n
       /\ caseTime'[Canonical] = t
  BY <1>1, <1>2, <1>5, <1>6, <1>9, BumpMovesOn DEF MaySettle, MovesOn
<1>11. attempts[a].caseRev = caseRev[Canonical] /\ caseRev[Canonical] \in Nat
  BY <1>1, <1>2, <1>5, <1>6 DEF CaseUnchanged, LedgerTypeOK
<1>12. ReceiptsStay
  BY <1>1, <1>3, <1>4, <1>6, AnswerReceipts DEF ReceiptsStay
<1>13. QED
  BY <1>3, <1>4, <1>5, <1>7, <1>8, <1>9, <1>10, <1>11, <1>12 DEF DeliveryTypeOK

(* A proposed plan is saved as a person's would be, on the revision of the *)
(* review it was shown.                                                    *)
LEMMA PlanRecorded ==
  ASSUME DispatchKept, FieldInv, NEW r \in Runners, NEW a \in Attempts, NEW d \in Decisions,
         NEW proposal \in PlanProposals, proposal # NULL, NEW t \in Times,
         Answered(r, a, d, proposal, t)
  PROVE  /\ FieldTypeOK'
         /\ proposals' = [proposals EXCEPT ![a] = Len(plans[Canonical]) + 1]
         /\ \E ref \in attempts[a].refs :
              /\ ref.task = proposal.task /\ ref.rev \in Nat
              /\ Recorded("PROPOSE", Canonical, Len(plans[Canonical]) + 1,
                          NewPlan(proposal.task, ref.rev, proposal.site, proposal.ends, "AGENT", t),
                          attempts[a].caseRev + Cardinality(Decided(d)) + 1, t)
<1>1. /\ attempts[a] \in Attempt /\ attempts[a].case = Canonical
      /\ Cardinality(Decided(d)) \in Nat /\ MovesOn
      /\ attempts[a].caseRev = caseRev[Canonical] /\ t = caseTime'[Canonical]
      /\ caseRev'[Canonical] = attempts[a].caseRev + Cardinality(Decided(d))
                                 + (IF proposal = NULL THEN 0 ELSE 1) + 1
  BY AnswerFacts
<1>2. ValidProposal(a, proposal) /\ StageAgentPlan(a, d, proposal, t)
  BY DEF Answered
<1> DEFINE c == Canonical
           p == Len(plans[c]) + 1
           ref == CHOOSE x \in attempts[a].refs : x.task = proposal.task
           plan == NewPlan(proposal.task, ref.rev, proposal.site, proposal.ends, "AGENT", t)
           rev == attempts[a].caseRev + Cardinality(Decided(d)) + 1
<1>3. ref \in attempts[a].refs /\ ref.task = proposal.task
  BY <1>2 DEF ValidProposal
<1>4. ref.rev \in Nat
  BY <1>1, <1>3 DEF Attempt, ReviewRef
<1>5. c \in Cases /\ caseRev[c] \in Nat
  BY DeliveryAssumption DEF DispatchKept, DispatchInv, TypeOK, DeliveryTypeOK, LedgerTypeOK
<1>6. rev \in Nat /\ rev > caseRev[c] /\ rev <= caseRev'[c]
  BY <1>1, <1>5
<1>7. /\ OpenPlansOn(c, proposal.task) = {} /\ SiteUnchanged(c, proposal.site)
      /\ Log("PROPOSE", c, p, plan, rev, t)
      /\ proposals' = [proposals EXCEPT ![a] = p]
  <2>1. ProposalRevision(a, d) = rev
    BY <1>1 DEF ProposalRevision
  <2>2. attempts[a].case = c
    BY <1>1
  <2>3. QED
    BY <1>2, <2>1, <2>2 DEF StageAgentPlan
<1> HIDE DEF ref
<1>8. proposal.task \in Requests /\ proposal.site \in Entries /\ proposal.ends \in Dues
  BY DEF PlanProposals
<1>9. FieldTypeOK /\ FieldMove("PROPOSE", c, p, plan)
  BY <1>4, <1>5, <1>7, <1>8, ProposeMove DEF FieldInv
<1>10. plan \in Plan /\ plan.rows # <<>> /\ p \in 1 .. Len(plans[c]) + 1 /\ "PROPOSE" \in Operations
  <2>1. Len(plans[c]) \in Nat
    BY <1>5, <1>9 DEF FieldTypeOK
  <2>2. QED
    BY <1>9, <2>1 DEF FieldMove, Sound
<1> HIDE DEF c, plan, rev
<1>11. FieldTypeOK' /\ Saves("PROPOSE", c, p, plan, rev, t)
  <2>1. PICK v \in Nat : v = rev
    BY <1>6
  <2>2. PICK i \in 1 .. Len(plans[c]) + 1 : i = p
    BY <1>10
  <2>3. Log("PROPOSE", c, i, plan, v, t)
    BY <1>7, <2>1, <2>2
  <2> HIDE DEF p
  <2>4. FieldTypeOK' /\ Saves("PROPOSE", c, i, plan, v, t)
    BY <1>5, <1>9, <1>10, <2>3, LogSaves
  <2>5. QED
    BY <2>1, <2>2, <2>4
<1> HIDE DEF p
<1>12. Recorded("PROPOSE", c, p, plan, rev, t)
  <2>1. t <= caseTime'[c]
    BY <1>1 DEF c, Times
  <2>2. QED
    BY <1>1, <1>5, <1>6, <1>9, <1>10, <1>11, <2>1 DEF Recorded, MovesOn
<1>13. QED
  BY <1>3, <1>4, <1>7, <1>11, <1>12 DEF c, p, plan, rev

LEMMA PreservesAnswer ==
  ASSUME DispatchKept, FieldInv, NEW r \in Runners, NEW a \in Attempts, NEW d \in Decisions,
         NEW proposal \in PlanProposals \cup {NULL}, NEW t \in Times,
         Answered(r, a, d, proposal, t)
  PROVE  Preserves
<1>1. LedgerTypeOK /\ LedgerTypeOK' /\ LedgerMoves /\ MovesOn /\ ReceiptsStay
  BY AnswerFacts DEF DispatchKept, DispatchInv, TypeOK, DeliveryTypeOK
<1>2. CASE proposal = NULL
  <2>1. UNCHANGED fieldVars
    BY <1>2 DEF Answered
  <2>2. FieldInv' /\ KeepsSaved
    BY <1>1, <2>1, FieldInvKept, UnchangedKeepsSaved DEF MovesOn
  <2>3. Canonical \in Cases /\ caseRev[Canonical] \in Nat
    BY <1>1, DeliveryAssumption DEF LedgerTypeOK
  <2>4. StandsStill
    BY <1>1, <2>1, <2>3 DEF StandsStill, LedgerMoves, fieldVars
  <2>5. QED
    BY <1>1, <2>2, <2>4 DEF Preserves
<1>3. CASE proposal # NULL
  <2>1. FieldTypeOK' /\ \E op, c, p, plan, rev : Recorded(op, c, p, plan, rev, t)
    BY <1>3, PlanRecorded
  <2>2. QED
    BY <1>1, <2>1, PreservesRecorded
<1>4. QED
  BY <1>2, <1>3

(* Nothing that was saved is changed by any step. *)
LEMMA PreservesMoves ==
  ASSUME DispatchKept, FieldInv, FieldDispatchMoves
  PROVE  Preserves
<1>1. LedgerTypeOK /\ DeliveryTypeOK
  BY DEF DispatchKept, DispatchInv, TypeOK, DeliveryTypeOK
<1>2. ASSUME UNCHANGED <<ledgerVars, fieldVars>>
      PROVE  Preserves
  BY <1>1, <1>2, PreservesUnchanged
<1>3. ASSUME NEW q \in Requests \ (Attempts \X Kinds), NEW t \in Times, ActsOnReview(q, t)
      PROVE  Preserves
  BY <1>1, <1>3, PreservesActs DEF ActsOnReview
<1>4. ASSUME NEW c \in Cases, NEW t \in Times, WorksInField(c, t)
      PROVE  Preserves
  BY <1>1, <1>4, PreservesWork DEF WorksInField
<1>5. CASE Quiet
  BY <1>2, <1>5 DEF Quiet
<1>6. ASSUME NEW t \in Times, Upgrade(t)
      PROVE  Preserves
  BY <1>2, <1>6 DEF Upgrade
<1>7. ASSUME NEW r \in Runners, NEW e \in Sealed, NEW a \in Attempts, NEW t \in Times,
             Begun(r, e, a, t)
      PROVE  Preserves
  BY <1>2, <1>7 DEF Begun, Admit, PinContext
<1>8. ASSUME NEW a \in Attempts, NEW t \in Times, Released(a, t)
      PROVE  Preserves
  BY <1>2, <1>8 DEF Released, Releasing
<1>9. CASE SavesAnswer
  BY <1>9, PreservesAnswer DEF SavesAnswer
<1>10. QED
  BY <1>3, <1>4, <1>5, <1>6, <1>7, <1>8, <1>9 DEF FieldDispatchMoves

----------------------------------------------------------------------------
(* Types                                                                   *)

ExtensionTypeOK ==
  /\ upgraded \in BOOLEAN
  /\ pins \in [Attempts -> Reference \cup {NULL}]
  /\ proposals \in [Attempts -> 0 .. Len(plans[Canonical])]

LEMMA ReferenceType ==
  ASSUME LedgerTypeOK, FieldInv, NEW selection \in Selections, NEW p \in DOMAIN plans[Canonical]
  PROVE  ReferenceTo(selection, p) \in Activity
<1>1. Canonical \in Cases
  BY DeliveryAssumption
<1>2. PICK plan \in Plan : plan = PlanOf(p) /\ Sound(plan)
  BY <1>1, PlanType DEF FieldInv, PlanOf
<1>3. Now(plan) \in Row /\ ResultOf(plan) \in Result \cup {NoResult}
  BY <1>2, NowType, ResultType DEF Sound
<1>4. plan.activity \in Nat /\ plan.task \in Requests
  BY DEF Plan
<1>5. p \in Nat
  BY <1>1 DEF FieldInv, FieldTypeOK
<1>6. Parent(p).rev \in Nat
  <2>1. Parent(p) \in Review \cup {NoReview}
    BY <1>1, <1>2, <1>4 DEF Parent, LedgerTypeOK
  <2>2. QED
    BY <2>1 DEF Review, NoReview
<1>7. \A status, rev, review : BindingOf(status, rev, review) \in Bindings
  BY DEF BindingOf, Bindings
<1>8. QED
  BY <1>2, <1>3, <1>4, <1>5, <1>6, <1>7 DEF ReferenceTo, Activity, Snapshots

LEMMA ActivitiesType ==
  ASSUME LedgerTypeOK, FieldInv
  PROVE  Activities \in SUBSET Activity
<1>1. \A binding : OpenPlans(binding) \subseteq DOMAIN plans[Canonical]
  BY DEF OpenPlans
<1>2. Stranded \subseteq DOMAIN plans[Canonical]
  BY <1>1 DEF Stranded, Recent
<1>3. Recent(ShownLimit, ReportedPlans) \subseteq DOMAIN plans[Canonical]
  BY DEF Recent, ReportedPlans
<1>4. QED
  BY <1>1, <1>2, <1>3, ReferenceType DEF Activities, Selections

LEMMA PlansGrow ==
  ASSUME FieldTypeOK, FieldTypeOK', KeepsSaved
  PROVE  0 .. Len(plans[Canonical]) \subseteq 0 .. Len(plans'[Canonical])
<1>1. Canonical \in Cases
  BY DeliveryAssumption
<1>2. /\ Len(plans[Canonical]) \in Nat /\ Len(plans'[Canonical]) \in Nat
      /\ DOMAIN plans[Canonical] = 1 .. Len(plans[Canonical])
      /\ DOMAIN plans'[Canonical] = 1 .. Len(plans'[Canonical])
  BY <1>1 DEF FieldTypeOK
<1>3. \A p \in 1 .. Len(plans[Canonical]) : p \in 1 .. Len(plans'[Canonical])
  BY <1>1, <1>2 DEF KeepsSaved
<1>4. Len(plans[Canonical]) <= Len(plans'[Canonical])
  BY <1>2, <1>3
<1>5. QED
  BY <1>2, <1>4

LEMMA ExtensionMoves ==
  ASSUME DispatchKept, FieldInv, ExtensionTypeOK, FieldDispatchMoves
  PROVE  ExtensionTypeOK'
<1>1. Preserves /\ LedgerTypeOK
  BY PreservesMoves DEF DispatchKept, DispatchInv, TypeOK, DeliveryTypeOK
<1>2. 0 .. Len(plans[Canonical]) \subseteq 0 .. Len(plans'[Canonical])
  BY <1>1, PlansGrow DEF Preserves, FieldInv
<1>3. proposals \in [Attempts -> 0 .. Len(plans'[Canonical])]
  BY <1>2 DEF ExtensionTypeOK
<1>4. CASE UNCHANGED extensionVars
  BY <1>3, <1>4 DEF ExtensionTypeOK, extensionVars
<1>5. ASSUME NEW t \in Times, Upgrade(t)
      PROVE  ExtensionTypeOK'
  BY <1>3, <1>5 DEF Upgrade, ExtensionTypeOK
<1>6. ASSUME NEW a \in Attempts, NEW reg \in Registries, PinContext(a, reg)
      PROVE  ExtensionTypeOK'
  <2>1. Activities \in SUBSET Activity
    BY <1>1, ActivitiesType
  <2>2. Approved(reg) \in SUBSET Entries
    BY DEF Approved, Entries
  <2>3. [activities |-> Activities, sites |-> Approved(reg)] \in Reference
    BY <2>1, <2>2 DEF Reference
  <2>4. QED
    BY <1>3, <1>6, <2>3 DEF PinContext, ExtensionTypeOK
<1>7. ASSUME NEW r \in Runners, NEW a \in Attempts, NEW d \in Decisions,
             NEW proposal \in PlanProposals \cup {NULL}, NEW t \in Times,
             Answered(r, a, d, proposal, t)
      PROVE  ExtensionTypeOK'
  <2>1. UNCHANGED <<upgraded, pins>>
    BY <1>7 DEF Answered
  <2>2. CASE proposal = NULL
    BY <1>3, <1>7, <2>1, <2>2 DEF Answered, ExtensionTypeOK
  <2>3. CASE proposal # NULL
    <3>1. /\ proposals' = [proposals EXCEPT ![a] = Len(plans[Canonical]) + 1]
          /\ FieldTypeOK'
          /\ \E op, plan, rev : Recorded(op, Canonical, Len(plans[Canonical]) + 1, plan, rev, t)
      BY <1>7, <2>3, PlanRecorded
    <3>2. Len(plans[Canonical]) + 1 \in DOMAIN plans'[Canonical]
      BY <3>1 DEF Recorded, Saves
    <3>3. Len(plans[Canonical]) + 1 \in 0 .. Len(plans'[Canonical])
      BY <3>1, <3>2, DeliveryAssumption DEF FieldTypeOK
    <3>4. QED
      BY <1>3, <2>1, <3>1, <3>3 DEF ExtensionTypeOK
  <2>4. QED
    BY <2>2, <2>3
<1>8. QED
  BY <1>4, <1>5, <1>6, <1>7
  DEF FieldDispatchMoves, Quiet, ActsOnReview, WorksInField, Begun, Released, SavesAnswer

(* The invariants of dispatch, of field work and of the extension tables   *)
(* hold together.                                                          *)
PartsInv == DispatchKept /\ FieldInv /\ ExtensionTypeOK

LEMMA PartsInit == UpgradeInit => PartsInv
<1> SUFFICES ASSUME UpgradeInit PROVE PartsInv
  OBVIOUS
<1>1. Init /\ SourceInit /\ LedgerInit
  BY DEF UpgradeInit, Init
<1>2. DispatchInv /\ DecisionInv
  BY <1>1, InitDispatchInv, DecisionInit
<1>3. OneUnresolved
  BY <1>1 DEF Init, JournalInit, NoAttempt, OneUnresolved
<1>4. AdmissionStaysValid
  BY <1>1, DeliveryAssumption DEF Init, AdmissionStaysValid
<1>5. FieldInit
  BY <1>1 DEF UpgradeInit, FieldInit
<1>6. FieldInv
  BY <1>5, FieldInvInit
<1>7. ExtensionTypeOK
  <2>1. Canonical \in Cases
    BY DeliveryAssumption
  <2>2. 0 \in 0 .. Len(plans[Canonical])
    <3>1. Len(plans[Canonical]) \in Nat
      BY <1>6, <2>1 DEF FieldInv, FieldTypeOK
    <3>2. QED
      BY <3>1
  <2>3. /\ upgraded = FALSE /\ pins = [a \in Attempts |-> NULL]
        /\ proposals = [a \in Attempts |-> 0]
    BY DEF UpgradeInit
  <2>4. QED
    BY <2>2, <2>3 DEF ExtensionTypeOK
<1>8. QED
  BY <1>2, <1>3, <1>4, <1>6, <1>7 DEF PartsInv, DispatchKept

LEMMA PartsMoves == PartsInv /\ FieldDispatchMoves => PartsInv'
<1> SUFFICES ASSUME PartsInv, FieldDispatchMoves PROVE PartsInv'
  OBVIOUS
<1>1. QED
  BY KeptByMoves, PreservesMoves, ExtensionMoves DEF PartsInv, Preserves

LEMMA PartsSteps == PartsInv /\ [UpgradeNext]_upgradeVars => FieldDispatchMoves
BY FieldDispatchSteps DEF PartsInv, DispatchKept, DispatchInv

LEMMA PartsHold == UpgradeSpec => []PartsInv
BY PartsInit, PartsMoves, PartsSteps, PTL DEF UpgradeSpec

(* Every variable keeps its type: what an invocation is shown is a         *)
(* reference that can be saved, and what it proposed a plan of the case.   *)
THEOREM FieldDispatchTypes == UpgradeSpec => []FieldDispatchTypeOK
<1>1. PartsInv => FieldDispatchTypeOK
  BY DEF PartsInv, DispatchKept, DispatchInv, FieldInv, ExtensionTypeOK, FieldDispatchTypeOK
<1>2. QED
  BY <1>1, PartsHold, PTL

----------------------------------------------------------------------------
(* Invocations, move by move                                               *)

KeepsAttempt(x) ==
  /\ attempts'[x].case = attempts[x].case /\ attempts'[x].event = attempts[x].event
  /\ attempts'[x].source = attempts[x].source /\ attempts'[x].caseRev = attempts[x].caseRev
  /\ attempts'[x].refs = attempts[x].refs /\ admission'[x] = admission[x]
  /\ attempts'[x].status \in Held => attempts[x].status \in Held
  /\ attempts'[x].status = "RESERVED" => attempts[x].status = "RESERVED"
  /\ attempts'[x].status = "NONE" <=> attempts[x].status = "NONE"

(* A move that begins no invocation and applies no answer. *)
MovesAside ==
  /\ \A x \in Attempts : /\ KeepsAttempt(x)
                         /\ attempts'[x].status = "COMMITTED" <=> attempts[x].status = "COMMITTED"
  /\ UNCHANGED <<pins, proposals, active>>
  /\ activated => activated'
  /\ \A e \in Events : outcomes[e] = "ASSESSED" => outcomes'[e] = "ASSESSED"

LEMMA SettleIs ==
  ASSUME JournalTypeOK, NEW a \in Attempts, NEW status, NEW t, attempts[a].status \in Held,
         Settle(a, status, t)
  PROVE  \A x \in Attempts :
           /\ attempts'[x].case = attempts[x].case /\ attempts'[x].event = attempts[x].event
           /\ attempts'[x].source = attempts[x].source
           /\ attempts'[x].caseRev = attempts[x].caseRev /\ attempts'[x].refs = attempts[x].refs
           /\ attempts'[x].status = IF x = a THEN status ELSE attempts[x].status
<1>1. attempts[a] \in Attempt
  BY AttemptRecord DEF Held, AttemptStatuses
<1>2. attempts' = [attempts EXCEPT ![a] = [attempts[a] EXCEPT !.status = status, !.at = t]]
  BY DEF Settle, JournalTypeOK
<1>3. \A x \in Attempts : attempts'[x] = IF x = a THEN [attempts[a] EXCEPT !.status = status, !.at = t]
                                        ELSE attempts[x]
  BY <1>2 DEF JournalTypeOK
<1>4. QED
  BY <1>1, <1>3 DEF Attempt

LEMMA SameAttempts ==
  ASSUME attempts' = attempts, admission' = admission
  PROVE  \A x \in Attempts : /\ KeepsAttempt(x)
                             /\ attempts'[x].status = "COMMITTED" <=> attempts[x].status = "COMMITTED"
BY DEF KeepsAttempt

LEMMA AsideMoves ==
  ASSUME PartsInv,
         \/ Quiet
         \/ \E q \in Requests \ (Attempts \X Kinds), t \in Times : ActsOnReview(q, t)
         \/ \E c \in Cases, t \in Times : WorksInField(c, t)
         \/ \E t \in Times : Upgrade(t)
         \/ \E a \in Attempts, t \in Times : Released(a, t)
  PROVE  MovesAside
<1>1. ASSUME attempts' = attempts, admission' = admission, UNCHANGED <<pins, proposals, active>>,
             activated => activated',
             \A e \in Events : outcomes[e] = "ASSESSED" => outcomes'[e] = "ASSESSED"
      PROVE  MovesAside
  BY <1>1, SameAttempts DEF MovesAside
<1>2. CASE Quiet
  BY <1>1, <1>2 DEF Quiet, journalVars, extensionVars
<1>3. ASSUME NEW q \in Requests, NEW t \in Times, ActsOnReview(q, t)
      PROVE  MovesAside
  BY <1>1, <1>3 DEF ActsOnReview, PersonActs, journalVars, extensionVars, dispatchVars, settingsVars,
                    recordVars
<1>4. ASSUME NEW c \in Cases, NEW t \in Times, WorksInField(c, t)
      PROVE  MovesAside
  BY <1>1, <1>4 DEF WorksInField, journalVars, extensionVars, dispatchVars, settingsVars, recordVars
<1>5. ASSUME NEW t \in Times, Upgrade(t)
      PROVE  MovesAside
  BY <1>1, <1>5 DEF Upgrade, journalVars, recordVars
<1>6. ASSUME NEW a \in Attempts, NEW t \in Times, Released(a, t)
      PROVE  MovesAside
  <2>1. JournalTypeOK
    BY DEF PartsInv, DispatchKept, DispatchInv, TypeOK, DeliveryTypeOK
  <2>2. PICK status \in {"STALE", "FAILED", "ABANDONED"} :
          attempts[a].status \in Held /\ Settle(a, status, t)
    BY <1>6 DEF Released, Releasing
  <2>3. UNCHANGED <<admission, outcomes, activated, active, pins, proposals>>
    BY <1>6 DEF Released, dispatchVars, settingsVars, recordVars, extensionVars
  <2>4. \A x \in Attempts :
          /\ attempts'[x].case = attempts[x].case /\ attempts'[x].event = attempts[x].event
          /\ attempts'[x].source = attempts[x].source
          /\ attempts'[x].caseRev = attempts[x].caseRev /\ attempts'[x].refs = attempts[x].refs
          /\ attempts'[x].status = IF x = a THEN status ELSE attempts[x].status
    BY <2>1, <2>2, SettleIs
  <2>5. QED
    BY <2>2, <2>3, <2>4 DEF MovesAside, KeepsAttempt, Held
<1>7. QED
  BY <1>2, <1>3, <1>4, <1>5, <1>6

LEMMA BegunFacts ==
  ASSUME PartsInv, NEW r \in Runners, NEW e \in Sealed, NEW a \in Attempts, NEW t \in Times,
         Begun(r, e, a, t)
  PROVE  /\ attempts[a] = NoAttempt /\ HeldOf(Canonical) = {}
         /\ attempts'[a] = [status |-> "RESERVED", case |-> Canonical, event |-> e,
                            source |-> (Pending # {}), caseRev |-> caseRev[Canonical],
                            refs |-> Snapshot(Canonical), at |-> t]
         /\ admission'[a] # NoAdmission
         /\ \A x \in Attempts \ {a} : /\ attempts'[x] = attempts[x] /\ admission'[x] = admission[x]
                                      /\ pins'[x] = pins[x]
         /\ UNCHANGED <<ledgerVars, fieldVars, upgraded, proposals, activated>>
         /\ active' = a
         /\ \A x \in Events : outcomes[x] = "ASSESSED" => outcomes'[x] = "ASSESSED"
<1>1. Admit(r, e, a, t)
  BY DEF Begun
<1>2. JournalTypeOK /\ DispatchTypeOK
  BY DEF PartsInv, DispatchKept, DispatchInv, TypeOK, DeliveryTypeOK
<1>3. Opens(a, e, t)
  BY <1>1, AdmitOpens DEF PartsInv, DispatchKept
<1>4. /\ admission'[a] # NoAdmission
      /\ \A x \in Attempts \ {a} : attempts'[x] = attempts[x] /\ admission'[x] = admission[x]
      /\ \A d \in Earlier(e) : outcomes[d] = "NONE"
      /\ outcomes' = [d \in Events |-> IF d \in Earlier(e) THEN "HISTORY" ELSE outcomes[d]]
  BY <1>3 DEF Opens
<1>5. ReserveRow(a, Canonical, e, Pending # {}, t)
  BY <1>1 DEF Admit
<1>6. /\ attempts[a] = NoAttempt /\ HeldOf(Canonical) = {}
      /\ attempts'[a] = [status |-> "RESERVED", case |-> Canonical, event |-> e,
                         source |-> (Pending # {}), caseRev |-> caseRev[Canonical],
                         refs |-> Snapshot(Canonical), at |-> t]
  BY <1>2, <1>5 DEF ReserveRow, JournalTypeOK
<1>7. \A x \in Events : outcomes[x] = "ASSESSED" => outcomes'[x] = "ASSESSED"
  BY <1>4
<1>8. UNCHANGED <<ledgerVars, activated>> /\ active' = a
  BY <1>1 DEF Admit
<1>9. UNCHANGED <<fieldVars, upgraded, proposals>> /\ \A x \in Attempts \ {a} : pins'[x] = pins[x]
  BY DEF Begun, PinContext, extensionVars, PartsInv, ExtensionTypeOK
<1>10. QED
  BY <1>4, <1>6, <1>7, <1>8, <1>9

LEMMA AnsweredKeeps ==
  ASSUME PartsInv, NEW r \in Runners, NEW a \in Attempts, NEW d \in Decisions,
         NEW proposal \in PlanProposals \cup {NULL}, NEW t \in Times,
         Answered(r, a, d, proposal, t)
  PROVE  /\ \A x \in Attempts :
              /\ KeepsAttempt(x)
              /\ attempts'[x].status = IF x = a THEN "COMMITTED" ELSE attempts[x].status
         /\ UNCHANGED <<pins, upgraded, activated>>
         /\ active' = NULL
         /\ \A e \in Events : outcomes[e] = "ASSESSED" => outcomes'[e] = "ASSESSED"
         /\ attempts[a].source => outcomes'[attempts[a].event] = "ASSESSED"
<1>1. JournalTypeOK /\ DispatchTypeOK
  BY DEF PartsInv, DispatchKept, DispatchInv, TypeOK, DeliveryTypeOK
<1>2. attempts[a].status = "RESERVED" /\ Settle(a, "COMMITTED", t) /\ RecordAssessed(a, t)
  BY DEF Answered, Records, Applies
<1>3. attempts[a].event \in Events
  BY <1>1, <1>2, AttemptRecord DEF AttemptStatuses, Attempt
<1>4. /\ admission' = admission /\ activated' = activated /\ active' = NULL
      /\ attempts[a].source => outcomes[attempts[a].event] = "NONE"
      /\ outcomes' = IF attempts[a].source
                     THEN [outcomes EXCEPT ![attempts[a].event] = "ASSESSED"] ELSE outcomes
  BY <1>2 DEF RecordAssessed
<1>5. \A x \in Attempts :
        /\ attempts'[x].case = attempts[x].case /\ attempts'[x].event = attempts[x].event
        /\ attempts'[x].source = attempts[x].source
        /\ attempts'[x].caseRev = attempts[x].caseRev /\ attempts'[x].refs = attempts[x].refs
        /\ attempts'[x].status = IF x = a THEN "COMMITTED" ELSE attempts[x].status
  BY <1>1, <1>2, SettleIs DEF Held
<1>6. \A x \in Attempts : KeepsAttempt(x)
  BY <1>2, <1>4, <1>5 DEF KeepsAttempt, Held
<1>7. UNCHANGED <<pins, upgraded>>
  BY DEF Answered
<1>8. QED
  BY <1>1, <1>3, <1>4, <1>5, <1>6, <1>7 DEF DispatchTypeOK

----------------------------------------------------------------------------
(* Which invocations there are                                             *)

(* Every invocation was admitted, at a revision of the case no later than  *)
(* it is at; a source event it answered is recorded as assessed; none was  *)
(* completed through the journal.                                          *)
InvocationsInv ==
  \A a \in Attempts : attempts[a].status # "NONE" =>
    /\ admission[a] # NoAdmission /\ attempts[a].caseRev <= caseRev[Canonical]
    /\ attempts[a].status = "COMMITTED" => active # a
    /\ attempts[a].status = "COMMITTED" /\ attempts[a].source =>
         outcomes[attempts[a].event] = "ASSESSED"

(* One without a pinned context was made before the upgrade and before any *)
(* field work of the case.                                                 *)
VersionInv ==
  /\ upgraded => activated
  /\ \A a \in Attempts :
       /\ pins[a] # NULL => upgraded /\ attempts[a].status # "NONE"
       /\ pins[a] = NULL /\ attempts[a].status # "NONE" =>
            \A i \in DOMAIN work[Canonical] : work[Canonical][i].rev > attempts[a].caseRev
       /\ pins[a] = NULL /\ upgraded => attempts[a].status \notin Held

LEMMA CaseNumbers ==
  ASSUME PartsInv
  PROVE  /\ Canonical \in Cases /\ caseRev[Canonical] \in Nat
         /\ \A a \in Attempts : attempts[a].caseRev \in Nat
         /\ \A i \in DOMAIN work[Canonical] : work[Canonical][i].rev \in Nat
<1>1. LedgerTypeOK /\ JournalTypeOK /\ FieldTypeOK /\ Canonical \in Cases
  BY DeliveryAssumption
  DEF PartsInv, DispatchKept, DispatchInv, TypeOK, DeliveryTypeOK, FieldInv
<1>2. \A a \in Attempts : attempts[a].caseRev \in Nat
  BY <1>1 DEF JournalTypeOK, Attempt, NoAttempt
<1>3. \A i \in DOMAIN work[Canonical] : work[Canonical][i] \in FieldReceipt
  BY <1>1 DEF FieldTypeOK
<1>4. QED
  BY <1>1, <1>2, <1>3 DEF LedgerTypeOK, FieldReceipt

(* A step saves one receipt of field work or none. *)
LEMMA RecordsWork ==
  ASSUME PartsInv, FieldDispatchMoves
  PROVE  UNCHANGED fieldVars \/ \E op, c, p, plan, rev, t : Recorded(op, c, p, plan, rev, t)
<1>1. DispatchKept /\ FieldInv /\ LedgerTypeOK /\ FieldTypeOK
  BY DEF PartsInv, DispatchKept, DispatchInv, TypeOK, DeliveryTypeOK, FieldInv
<1>2. CASE UNCHANGED fieldVars
  BY <1>2
<1>3. ASSUME NEW c \in Cases, NEW t \in Times, WorksInField(c, t)
      PROVE  \E op, x, p, plan, rev, s : Recorded(op, x, p, plan, rev, s)
  <2>1. \E op, p, plan, rev : Recorded(op, c, p, plan, rev, t)
    BY <1>1, <1>3, WorkedRecords DEF WorksInField
  <2>2. QED
    BY <2>1
<1>4. ASSUME NEW r \in Runners, NEW a \in Attempts, NEW d \in Decisions,
             NEW proposal \in PlanProposals \cup {NULL}, NEW t \in Times,
             Answered(r, a, d, proposal, t), proposal # NULL
      PROVE  \E op, x, p, plan, rev, s : Recorded(op, x, p, plan, rev, s)
  <2>1. \E op, c, p, plan, rev : Recorded(op, c, p, plan, rev, t)
    BY <1>1, <1>4, PlanRecorded
  <2>2. QED
    BY <2>1
<1>5. ASSUME SavesAnswer
      PROVE  UNCHANGED fieldVars \/ \E op, c, p, plan, rev, t : Recorded(op, c, p, plan, rev, t)
  <2>1. PICK r \in Runners, a \in Attempts, d \in Decisions,
             proposal \in PlanProposals \cup {NULL}, t \in Times : Answered(r, a, d, proposal, t)
    BY <1>5 DEF SavesAnswer
  <2>2. CASE proposal = NULL
    BY <2>1, <2>2 DEF Answered
  <2>3. CASE proposal # NULL
    BY <1>4, <2>1, <2>3
  <2>4. QED
    BY <2>2, <2>3
<1>6. QED
  BY <1>2, <1>3, <1>5
  DEF FieldDispatchMoves, Quiet, ActsOnReview, Upgrade, Begun, PinContext, Released

(* What a step saves of field work is later than the case was. *)
LEMMA LaterWork ==
  ASSUME PartsInv, FieldDispatchMoves, NEW i \in DOMAIN work'[Canonical]
  PROVE  /\ i \in DOMAIN work[Canonical] => work'[Canonical][i] = work[Canonical][i]
         /\ i \notin DOMAIN work[Canonical] => work'[Canonical][i].rev > caseRev[Canonical]
<1>1. CASE UNCHANGED fieldVars
  BY <1>1 DEF fieldVars
<1>2. ASSUME NEW op, NEW c, NEW p, NEW plan, NEW rev, NEW t, Recorded(op, c, p, plan, rev, t)
      PROVE  /\ i \in DOMAIN work[Canonical] => work'[Canonical][i] = work[Canonical][i]
             /\ i \notin DOMAIN work[Canonical] => work'[Canonical][i].rev > caseRev[Canonical]
  <2>1. CASE c = Canonical
    BY <1>2, <2>1 DEF Recorded, Saves
  <2>2. CASE c # Canonical
    BY <1>2, <2>2, DeliveryAssumption DEF Recorded, Saves
  <2>3. QED
    BY <2>1, <2>2
<1>3. QED
  BY <1>1, <1>2, RecordsWork

LEMMA InvocationsStep ==
  ASSUME PartsInv, InvocationsInv, FieldDispatchMoves
  PROVE  InvocationsInv'
<1>1. /\ JournalTypeOK /\ Preserves
  BY PreservesMoves DEF PartsInv, DispatchKept, DispatchInv, TypeOK, DeliveryTypeOK
<1>2. /\ PartsInv' /\ caseRev[Canonical] <= caseRev'[Canonical]
      /\ caseRev[Canonical] \in Nat /\ caseRev'[Canonical] \in Nat
      /\ \A a \in Attempts : attempts[a].caseRev \in Nat
  <2>1. PartsInv'
    BY PartsMoves
  <2>2. Canonical \in Cases /\ caseRev[Canonical] \in Nat
        /\ \A a \in Attempts : attempts[a].caseRev \in Nat
    BY CaseNumbers
  <2>3. caseRev'[Canonical] \in Nat
    BY <2>1, <2>2 DEF PartsInv, DispatchKept, DispatchInv, TypeOK, DeliveryTypeOK, LedgerTypeOK
  <2>4. QED
    BY <1>1, <2>1, <2>2, <2>3 DEF Preserves, MovesOn
<1>3. \A a \in Attempts : attempts[a].status # "NONE" => attempts[a].event \in Events
  BY <1>1 DEF JournalTypeOK, Attempt, NoAttempt
<1>4. CASE MovesAside
  BY <1>2, <1>3, <1>4 DEF InvocationsInv, MovesAside, KeepsAttempt
<1>5. ASSUME NEW r \in Runners, NEW e \in Sealed, NEW a \in Attempts, NEW t \in Times,
             Begun(r, e, a, t)
      PROVE  InvocationsInv'
  <2>1. /\ attempts'[a].status = "RESERVED" /\ attempts'[a].caseRev = caseRev[Canonical]
        /\ admission'[a] # NoAdmission
        /\ \A x \in Attempts \ {a} : attempts'[x] = attempts[x] /\ admission'[x] = admission[x]
        /\ \A x \in Events : outcomes[x] = "ASSESSED" => outcomes'[x] = "ASSESSED"
        /\ active' = a
    <3>1. attempts'[a] = [status |-> "RESERVED", case |-> Canonical, event |-> e,
                          source |-> (Pending # {}), caseRev |-> caseRev[Canonical],
                          refs |-> Snapshot(Canonical), at |-> t]
      BY <1>5, BegunFacts, Zenon
    <3>2. /\ admission'[a] # NoAdmission
          /\ \A x \in Attempts \ {a} : attempts'[x] = attempts[x] /\ admission'[x] = admission[x]
          /\ \A x \in Events : outcomes[x] = "ASSESSED" => outcomes'[x] = "ASSESSED"
          /\ active' = a
      BY <1>5, BegunFacts, Zenon
    <3>3. QED
      BY <3>1, <3>2
  <2>2. QED
    BY <1>2, <1>3, <2>1 DEF InvocationsInv
<1>6. ASSUME NEW r \in Runners, NEW a \in Attempts, NEW d \in Decisions,
             NEW proposal \in PlanProposals \cup {NULL}, NEW t \in Times,
             Answered(r, a, d, proposal, t)
      PROVE  InvocationsInv'
  <2>1. /\ \A x \in Attempts :
             /\ KeepsAttempt(x)
             /\ attempts'[x].status = IF x = a THEN "COMMITTED" ELSE attempts[x].status
        /\ active' = NULL
        /\ \A e \in Events : outcomes[e] = "ASSESSED" => outcomes'[e] = "ASSESSED"
        /\ attempts[a].source => outcomes'[attempts[a].event] = "ASSESSED"
    BY <1>6, AnsweredKeeps
  <2>2. QED
    BY <1>2, <1>3, <2>1, DeliveryAssumption DEF InvocationsInv, KeepsAttempt
<1>7. QED
  BY <1>4, <1>5, <1>6, AsideMoves DEF FieldDispatchMoves, SavesAnswer

(* So what was earlier than all field work stays so. *)
LEMMA EarlierThanWork ==
  ASSUME PartsInv, FieldDispatchMoves, NEW n, n \in Nat, n <= caseRev[Canonical],
         \A i \in DOMAIN work[Canonical] : work[Canonical][i].rev > n,
         NEW i \in DOMAIN work'[Canonical]
  PROVE  work'[Canonical][i].rev > n
<1>1. CASE i \in DOMAIN work[Canonical]
  BY <1>1, LaterWork
<1>2. CASE i \notin DOMAIN work[Canonical]
  <2>1. PICK m : m = work'[Canonical][i].rev
    OBVIOUS
  <2>2. work'[Canonical] \in Seq(FieldReceipt)
    BY PartsMoves, DeliveryAssumption DEF PartsInv, FieldInv, FieldTypeOK
  <2>3. m \in Nat
    <3>1. work'[Canonical][i] \in FieldReceipt
      BY <2>2
    <3>2. QED
      BY <2>1, <3>1 DEF FieldReceipt
  <2>4. m > caseRev[Canonical]
    BY <1>2, <2>1, LaterWork
  <2>5. caseRev[Canonical] \in Nat
    BY CaseNumbers
  <2>6. QED
    BY <2>1, <2>3, <2>4, <2>5
<1>3. QED
  BY <1>1, <1>2

LEMMA VersionAside ==
  ASSUME PartsInv, InvocationsInv, VersionInv, FieldDispatchMoves, MovesAside,
         upgraded' = upgraded \/ \E t \in Times : Upgrade(t)
  PROVE  VersionInv'
<1>1. /\ \A a \in Attempts : KeepsAttempt(a) /\ pins'[a] = pins[a]
      /\ activated => activated'
  BY DEF MovesAside
<1>2. upgraded => upgraded'
  BY DEF Upgrade
<1>3. upgraded' => activated'
  BY <1>1 DEF VersionInv, Upgrade, Bound
<1>4. ASSUME NEW a \in Attempts, pins[a] = NULL, attempts'[a].status # "NONE",
             NEW i \in DOMAIN work'[Canonical]
      PROVE  work'[Canonical][i].rev > attempts'[a].caseRev
  <2>1. attempts[a].status # "NONE" /\ attempts'[a].caseRev = attempts[a].caseRev
    BY <1>1, <1>4 DEF KeepsAttempt
  <2>2. attempts[a].caseRev <= caseRev[Canonical]
    BY <2>1 DEF InvocationsInv
  <2>3. caseRev[Canonical] \in Nat /\ attempts[a].caseRev \in Nat
    BY CaseNumbers
  <2>4. QED
    BY <1>4, <2>1, <2>2, <2>3, EarlierThanWork DEF VersionInv
<1>5. ASSUME NEW a \in Attempts, pins[a] = NULL, upgraded'
      PROVE  attempts'[a].status \notin Held
  <2>1. CASE upgraded
    BY <1>1, <1>5, <2>1 DEF VersionInv, KeepsAttempt
  <2>2. CASE ~upgraded
    <3>1. HeldOf(Canonical) = {}
      BY <1>5, <2>2 DEF Upgrade
    <3>2. attempts[a].status \in Held => attempts[a].case = Canonical
      BY DEF InvocationsInv, PartsInv, DispatchKept, DispatchInv, PointerInv, AdmittedHere, Held
    <3>3. QED
      BY <1>1, <3>1, <3>2 DEF HeldOf, AttemptsOf, KeepsAttempt
  <2>3. QED
    BY <2>1, <2>2
<1>6. QED
  BY <1>1, <1>2, <1>3, <1>4, <1>5 DEF VersionInv, KeepsAttempt

LEMMA VersionBegun ==
  ASSUME PartsInv, InvocationsInv, VersionInv, NEW r \in Runners, NEW e \in Sealed,
         NEW a \in Attempts, NEW t \in Times, Begun(r, e, a, t)
  PROVE  VersionInv'
<1>1. /\ attempts[a] = NoAttempt
      /\ \A x \in Attempts \ {a} : attempts'[x] = attempts[x] /\ pins'[x] = pins[x]
      /\ fieldVars' = fieldVars /\ upgraded' = upgraded /\ activated' = activated
  BY BegunFacts, Zenon
<1>2. attempts'[a].status = "RESERVED"
  <2>1. attempts'[a] = [status |-> "RESERVED", case |-> Canonical, event |-> e,
                        source |-> (Pending # {}), caseRev |-> caseRev[Canonical],
                        refs |-> Snapshot(Canonical), at |-> t]
    BY BegunFacts, Zenon
  <2>2. QED
    BY <2>1
<1>3. work' = work
  BY <1>1 DEF fieldVars
<1>4. pins'[a] # NULL => upgraded
  BY DEF Begun, VersionInv, extensionVars
<1>5. pins'[a] = NULL => ~upgraded /\ DOMAIN work[Canonical] = {}
  <2>1. CASE ~upgraded /\ LegacyAllowed
    <3>1. plans[Canonical] = <<>>
      BY <2>1 DEF LegacyAllowed
    <3>2. \A i \in DOMAIN work[Canonical] : work[Canonical][i].plan \in DOMAIN plans[Canonical]
      BY DeliveryAssumption DEF PartsInv, FieldInv, ReceiptsKept
    <3>3. DOMAIN work[Canonical] = {}
      BY <3>1, <3>2
    <3>4. QED
      BY <2>1, <3>3
  <2>2. ASSUME NEW reg \in Registries, PinContext(a, reg)
        PROVE  pins'[a] # NULL
    <3>1. pins'[a] = [activities |-> Activities, sites |-> Approved(reg)]
      BY <2>2 DEF PinContext, PartsInv, ExtensionTypeOK
    <3>2. LedgerTypeOK /\ FieldInv
      BY DEF PartsInv, DispatchKept, DispatchInv, TypeOK, DeliveryTypeOK
    <3>3. Activities \in SUBSET Activity /\ Approved(reg) \in SUBSET Entries
      BY <3>2, ActivitiesType DEF Approved, Entries
    <3>4. pins'[a] \in Reference
      BY <3>1, <3>3 DEF Reference
    <3>5. QED
      BY <3>4, FieldDispatchAssumption
  <2>3. QED
    BY <2>1, <2>2 DEF Begun
<1>6. QED
  BY <1>1, <1>2, <1>3, <1>4, <1>5 DEF VersionInv

LEMMA VersionAnswered ==
  ASSUME PartsInv, InvocationsInv, VersionInv, NEW r \in Runners, NEW a \in Attempts,
         NEW d \in Decisions, NEW proposal \in PlanProposals \cup {NULL}, NEW t \in Times,
         Answered(r, a, d, proposal, t)
  PROVE  VersionInv'
<1>1. /\ \A x \in Attempts :
           /\ KeepsAttempt(x)
           /\ attempts'[x].status = IF x = a THEN "COMMITTED" ELSE attempts[x].status
      /\ pins' = pins /\ upgraded' = upgraded /\ activated' = activated
  BY AnsweredKeeps
<1>2. FieldDispatchMoves
  BY DEF FieldDispatchMoves, SavesAnswer
<1>3. ASSUME NEW x \in Attempts, pins[x] = NULL, attempts'[x].status # "NONE",
             NEW i \in DOMAIN work'[Canonical]
      PROVE  work'[Canonical][i].rev > attempts'[x].caseRev
  <2>1. attempts[x].status # "NONE" /\ attempts'[x].caseRev = attempts[x].caseRev
    BY <1>1, <1>3 DEF KeepsAttempt
  <2>2. attempts[x].caseRev <= caseRev[Canonical]
    BY <2>1 DEF InvocationsInv
  <2>3. attempts[x].caseRev \in Nat
    BY CaseNumbers
  <2>4. QED
    BY <1>2, <1>3, <2>1, <2>2, <2>3, EarlierThanWork DEF VersionInv
<1>4. QED
  BY <1>1, <1>3 DEF VersionInv, KeepsAttempt, Held

AccountInv == PartsInv /\ InvocationsInv /\ VersionInv

LEMMA AccountInit == UpgradeInit => AccountInv
<1> SUFFICES ASSUME UpgradeInit PROVE AccountInv
  OBVIOUS
<1>1. PartsInv
  BY PartsInit
<1>2. /\ \A a \in Attempts : attempts[a].status = "NONE" /\ pins[a] = NULL
      /\ upgraded = FALSE
  BY DEF UpgradeInit, Init, JournalInit, NoAttempt
<1>3. QED
  BY <1>1, <1>2 DEF AccountInv, InvocationsInv, VersionInv

LEMMA AccountMoves == AccountInv /\ FieldDispatchMoves => AccountInv'
<1> SUFFICES ASSUME AccountInv, FieldDispatchMoves PROVE AccountInv'
  OBVIOUS
<1>1. PartsInv /\ InvocationsInv /\ VersionInv
  BY DEF AccountInv
<1>2. PartsInv' /\ InvocationsInv'
  BY <1>1, PartsMoves, InvocationsStep
<1>3. ASSUME \/ Quiet
             \/ \E q \in Requests \ (Attempts \X Kinds), t \in Times : ActsOnReview(q, t)
             \/ \E c \in Cases, t \in Times : WorksInField(c, t)
             \/ \E t \in Times : Upgrade(t)
             \/ \E a \in Attempts, t \in Times : Released(a, t)
      PROVE  VersionInv'
  <2>1. MovesAside
    BY <1>1, <1>3, AsideMoves
  <2>2. upgraded' = upgraded \/ \E t \in Times : Upgrade(t)
    BY <1>3 DEF Quiet, ActsOnReview, WorksInField, Released, extensionVars
  <2>3. QED
    BY <1>1, <2>1, <2>2, VersionAside
<1>4. VersionInv'
  BY <1>1, <1>3, VersionBegun, VersionAnswered DEF FieldDispatchMoves, SavesAnswer
<1>5. QED
  BY <1>2, <1>4 DEF AccountInv

LEMMA AccountHolds == UpgradeSpec => []AccountInv
<1>1. AccountInv /\ [UpgradeNext]_upgradeVars => FieldDispatchMoves
  BY PartsSteps DEF AccountInv
<1>2. QED
  BY <1>1, AccountInit, AccountMoves, PTL DEF UpgradeSpec

LEMMA NothingOutside ==
  ASSUME PartsInv, InvocationsInv
  PROVE  Outside = {}
<1>1. \A a \in Attempts : attempts[a].case = Canonical => attempts[a].status # "NONE"
  <2>1. JournalTypeOK
    BY DEF PartsInv, DispatchKept, DispatchInv, TypeOK, DeliveryTypeOK
  <2>2. NULL # Canonical
    BY DeliveryAssumption, LedgerAssumption
  <2>3. QED
    BY <2>1, <2>2 DEF JournalTypeOK, Attempt, AttemptStatuses, NoAttempt
<1>2. QED
  BY <1>1 DEF Outside, AttemptsOf, InvocationsInv

(* No answer that was not shown the field work of the case is applied to a *)
(* case that has any, none crosses the upgrade unresolved, and the         *)
(* upgraded settings pass the checks that every operation makes of them,   *)
(* unless a person abandoned the active invocation.                        *)
THEOREM LegacyEndsAtUpgradeHolds == UpgradeSpec => []LegacyEndsAtUpgrade
<1>1. AccountInv => LegacyEndsAtUpgrade
  <2> SUFFICES ASSUME AccountInv PROVE LegacyEndsAtUpgrade
    OBVIOUS
  <2>1. PartsInv /\ InvocationsInv /\ VersionInv /\ PointerInv /\ DispatchTypeOK /\ CountsInv
    BY DEF AccountInv, PartsInv, DispatchKept, DispatchInv, DecisionInv, TypeOK
  <2>2. ASSUME NEW a \in AttemptsOf(Canonical)
        PROVE  /\ pins[a] = NULL /\ attempts[a].status = "COMMITTED" =>
                    \A i \in DOMAIN work[Canonical] : work[Canonical][i].rev > attempts[a].caseRev
               /\ pins[a] # NULL => upgraded
               /\ pins[a] = NULL /\ upgraded => attempts[a].status \notin Held
    BY <2>1 DEF AttemptsOf, VersionInv
  <2>3. ASSUME upgraded, active # NULL => attempts[active].status # "ABANDONED"
        PROVE  BoundV3
    <3>1. upgraded /\ Bound
      BY <2>1, <2>3, NothingOutside DEF Bound, VersionInv
    <3>2. HeldOf(Canonical) = IF active = NULL THEN {} ELSE {active}
      <4>1. \A a \in HeldOf(Canonical) : active = a
        BY <2>1 DEF HeldOf, AttemptsOf, Held, InvocationsInv, PointerInv, HeldIsActive
      <4>2. active # NULL => active \in HeldOf(Canonical)
        <5>1. active # NULL => /\ active \in Attempts /\ attempts[active].case = Canonical
                               /\ attempts[active].status \in Held \cup {"ABANDONED", "COMMITTED"}
          BY <2>1 DEF DispatchTypeOK, PointerInv, ActiveAdmitted, AdmittedHere
        <5>2. active # NULL => attempts[active].status # "COMMITTED"
          BY <2>1, <5>1 DEF InvocationsInv
        <5>3. QED
          BY <2>3, <5>1, <5>2 DEF HeldOf, AttemptsOf
      <4>3. NULL \notin HeldOf(Canonical)
        BY DeliveryAssumption DEF HeldOf, AttemptsOf
      <4>4. QED
        BY <4>1, <4>2, <4>3
    <3>3. counts.assessed = Cardinality(Committed(Canonical))
      <4>1. Committed(Canonical) = Assessed
        BY <2>1 DEF Committed, AttemptsOf, Assessed, InvocationsInv, PointerInv, AdmittedHere
      <4>2. QED
        BY <2>1, <4>1 DEF CountsInv
    <3>4. \A a \in HeldOf(Canonical) : pins[a] # NULL
      BY <2>1, <3>1 DEF VersionInv, HeldOf, AttemptsOf
    <3>5. \A a \in Committed(Canonical) :
            attempts[a].source => outcomes[attempts[a].event] = "ASSESSED"
      BY <2>1 DEF InvocationsInv, Committed, AttemptsOf
    <3>6. QED
      BY <3>1, <3>2, <3>3, <3>4, <3>5 DEF BoundV3
  <2>4. QED
    BY <2>2, <2>3 DEF LegacyEndsAtUpgrade
<1>2. QED
  BY <1>1, AccountHolds, PTL

----------------------------------------------------------------------------
(* The case revision counts every operation                                *)

Receipted(c) == {q \in Requests : receipts[c][q] # NoReceipt}

LEMMA ReceiptOp ==
  ASSUME NEW op, NEW task, NEW review
  PROVE  ReceiptOf(op, task, review).op = op
BY DEF ReceiptOf

(* What an answer writes receipts of: what it decided.                     *)
LEMMA AnswerWrites ==
  ASSUME LedgerTypeOK, NEW a \in Attempts, attempts[a] \in Attempt, NEW d \in Decisions, NEW t,
         StageWork(a, d, t), NEW c, c = attempts[a].case
  PROVE  /\ \A k \in Decided(d) : receipts[c][<<a, k>>] = NoReceipt
         /\ \A q \in Requests : receipts'[c][q] # NoReceipt <=>
              receipts[c][q] # NoReceipt \/ \E k \in Decided(d) : q = <<a, k>>
         /\ \A x \in Cases \ {c} : receipts'[x] = receipts[x]
<1>1. PICK P \in SUBSET Kinds, L \in SUBSET Kinds : Stages(a, c, d, P, L)
  BY StagedRows
<1>2. P \cup L = Decided(d)
  BY <1>1 DEF Stages
<1>3. \A k \in P \cup L : receipts[c][<<a, k>>] = NoReceipt
  BY <1>1 DEF Stages
<1>4. \A k \in P \cup L : receipts'[c][<<a, k>>] # NoReceipt
  <2>1. \A k \in P : receipts'[c][<<a, k>>] = ReceiptOf("STAGE", <<a, k>>, Proposal(k, d[k].due))
    BY <1>1 DEF Stages
  <2>2. \A k \in P : receipts'[c][<<a, k>>].op = "STAGE"
    BY <2>1, ReceiptOp
  <2>3. \A k \in L : receipts'[c][<<a, k>>].op = "LINK"
    BY <1>1 DEF Stages
  <2>4. QED
    BY <2>2, <2>3 DEF NoReceipt
<1>5. \A q \in Requests : q \notin {<<a, k>> : k \in P \cup L} => receipts'[c][q] = receipts[c][q]
  BY <1>1 DEF Stages
<1>6. \A x \in Cases \ {c} : receipts'[x] = receipts[x]
  BY <1>1 DEF Stages
<1>7. QED
  BY <1>2, <1>3, <1>4, <1>5, <1>6

LEMMA CountDecided ==
  ASSUME NEW a, NEW d
  PROVE  LET T == {<<a, k>> : k \in Decided(d)}
         IN IsFiniteSet(T) /\ Cardinality(T) = Cardinality(Decided(d))
<1> DEFINE T == {<<a, k>> : k \in Decided(d)}
           f == [k \in Decided(d) |-> <<a, k>>]
<1>1. f \in Bijection(Decided(d), T)
  <2>1. f \in [Decided(d) -> T] /\ \A x \in T : \E k \in Decided(d) : f[k] = x
    OBVIOUS
  <2>2. \A j, k \in Decided(d) : f[j] = f[k] => j = k
    OBVIOUS
  <2>3. QED
    BY <2>1, <2>2 DEF Bijection, Injection, Surjection, IsInjective
<1>2. ExistsBijection(Decided(d), T)
  BY <1>1 DEF ExistsBijection
<1>3. IsFiniteSet(Decided(d))
  BY LedgerAssumption, FS_Subset DEF Decided
<1>4. QED
  BY <1>2, <1>3, FS_Bijection

Counted(c) == caseRev[c] = Cardinality(Receipted(c)) + Len(work[c]) + Cardinality(Committed(c))

LEMMA CountNumbers ==
  ASSUME PartsInv, NEW c \in Cases
  PROVE  /\ IsFiniteSet(Receipted(c)) /\ Cardinality(Receipted(c)) \in Nat
         /\ IsFiniteSet(Committed(c)) /\ Cardinality(Committed(c)) \in Nat
         /\ Len(work[c]) \in Nat /\ caseRev[c] \in Nat
<1>1. IsFiniteSet(Receipted(c)) /\ IsFiniteSet(Committed(c))
  BY LedgerAssumption, DeliveryAssumption, FS_Subset DEF Receipted, Committed, AttemptsOf
<1>2. work[c] \in Seq(FieldReceipt)
  BY DEF PartsInv, FieldInv, FieldTypeOK
<1>3. caseRev[c] \in Nat
  BY DEF PartsInv, DispatchKept, DispatchInv, TypeOK, DeliveryTypeOK, LedgerTypeOK
<1>4. QED
  BY <1>1, <1>2, <1>3, FS_CardinalityType

LEMMA CountStays ==
  ASSUME NEW c, Counted(c), caseRev'[c] = caseRev[c], receipts'[c] = receipts[c],
         work'[c] = work[c], Committed(c)' = Committed(c)
  PROVE  Counted(c)'
<1>1. Receipted(c)' = Receipted(c)
  BY DEF Receipted
<1>2. QED
  BY <1>1 DEF Counted

LEMMA CommittedAside ==
  ASSUME NEW c, \A x \in Attempts : attempts'[x].case = attempts[x].case
                                    /\ (attempts'[x].status = "COMMITTED" <=> attempts[x].status = "COMMITTED")
  PROVE  Committed(c)' = Committed(c)
BY DEF Committed, AttemptsOf

LEMMA CountActs ==
  ASSUME PartsInv, NEW q \in Requests, NEW t \in Times, ActsOnReview(q, t),
         NEW c \in Cases, Counted(c)
  PROVE  Counted(c)'
<1>1. Committed(c)' = Committed(c) /\ work' = work
  BY DEF ActsOnReview, PersonActs, journalVars, fieldVars, Committed, AttemptsOf
<1>2. PICK x \in Cases, action \in HumanActions, due \in Dues :
        \E task \in ActiveOf(x) : Act(x, q, task, reviews[x][task].rev, action, due, t)
  BY DEF ActsOnReview, PersonActs
<1> DEFINE next(task) == [Transition(reviews[x][task], action, due, t) EXCEPT !.rev = @ + 1]
<1>3. PICK r : /\ receipts[x][q] = NoReceipt /\ r.op = "HUMAN"
               /\ receipts' = [receipts EXCEPT ![x][q] = r]
               /\ caseRev' = [caseRev EXCEPT ![x] = @ + 1]
  <2>1. PICK task : Act(x, q, task, reviews[x][task].rev, action, due, t)
    BY <1>2
  <2>2. /\ receipts[x][q] = NoReceipt /\ Bump(x, 1, t)
        /\ receipts' = [receipts EXCEPT ![x][q] = ReceiptOf("HUMAN", task, next(task))]
    BY <2>1 DEF Act
  <2> HIDE DEF next
  <2>3. QED
    BY <2>2, ReceiptOp DEF Bump
<1>4. LedgerTypeOK
  BY DEF PartsInv, DispatchKept, DispatchInv, TypeOK, DeliveryTypeOK
<1>5. CASE x # c
  BY <1>1, <1>3, <1>4, <1>5, CountStays DEF LedgerTypeOK
<1>6. CASE x = c
  <2>1. Receipted(c)' = Receipted(c) \cup {q} /\ q \notin Receipted(c)
    BY <1>3, <1>4, <1>6 DEF Receipted, LedgerTypeOK, NoReceipt
  <2>2. Cardinality(Receipted(c)') = Cardinality(Receipted(c)) + 1
    BY <2>1, CountNumbers, FS_AddElement
  <2>3. caseRev'[c] = caseRev[c] + 1
    BY <1>3, <1>4, <1>6 DEF LedgerTypeOK
  <2>4. QED
    BY <1>1, <2>2, <2>3, CountNumbers DEF Counted
<1>7. QED
  BY <1>5, <1>6

LEMMA RecordedCounts ==
  ASSUME FieldTypeOK, FieldTypeOK', NEW op, NEW c \in Cases, NEW p, NEW plan, NEW rev, NEW t,
         Saves(op, c, p, plan, rev, t)
  PROVE  Len(work'[c]) = Len(work[c]) + 1
<1>1. PICK n \in Nat, m \in Nat : /\ n = Len(work[c]) /\ DOMAIN work[c] = 1 .. n
                                 /\ m = Len(work'[c]) /\ DOMAIN work'[c] = 1 .. m
  BY DEF FieldTypeOK
<1>2. 1 .. m = (1 .. n) \cup {n + 1}
  BY <1>1 DEF Saves
<1>3. m = n + 1
  <2>1. \A i \in Nat : i \in 1 .. m <=> i \in 1 .. n \/ i = n + 1
    BY <1>2
  <2>2. n + 1 \in 1 .. m
    BY <2>1
  <2>3. m \in 1 .. m
    BY <2>2
  <2>4. m \in 1 .. n \/ m = n + 1
    BY <2>1, <2>3
  <2>5. QED
    BY <2>2, <2>4
<1>4. QED
  BY <1>1, <1>3

LEMMA CountWork ==
  ASSUME PartsInv, NEW x \in Cases, NEW t \in Times, WorksInField(x, t), NEW c \in Cases, Counted(c)
  PROVE  Counted(c)'
<1>1. /\ Committed(c)' = Committed(c) /\ LedgerTypeOK /\ FieldTypeOK
  BY DEF WorksInField, journalVars, Committed, AttemptsOf, PartsInv, DispatchKept, DispatchInv,
         TypeOK, DeliveryTypeOK, FieldInv
<1>2. PICK op \in Operations, p \in Nat, plan \in Plan :
        FieldMove(op, x, p, plan) /\ Mutate(op, x, caseRev[x], p, plan, t)
  BY DEF WorksInField, Worked
<1>3. /\ Log(op, x, p, plan, caseRev[x] + 1, t)
      /\ receipts' = receipts /\ caseRev' = [caseRev EXCEPT ![x] = @ + 1]
  BY <1>2 DEF Mutate, Bump
<1>4. FieldTypeOK' /\ \E y, i, z, rev : Recorded(y, x, i, z, rev, t)
  BY <1>1, WorkedRecords DEF WorksInField
<1>5. PICK y, i, z, rev : Recorded(y, x, i, z, rev, t)
  BY <1>4
<1>6. CASE x # c
  <2>1. work'[c] = work[c] /\ caseRev'[c] = caseRev[c]
    BY <1>1, <1>3, <1>5, <1>6 DEF Recorded, Saves, LedgerTypeOK
  <2>2. QED
    BY <1>1, <1>3, <2>1, CountStays
<1>7. CASE x = c
  <2>1. Len(work'[c]) = Len(work[c]) + 1
    BY <1>1, <1>4, <1>5, <1>7, RecordedCounts DEF Recorded
  <2>2. caseRev'[c] = caseRev[c] + 1 /\ Receipted(c)' = Receipted(c)
    BY <1>1, <1>3, <1>7 DEF LedgerTypeOK, Receipted
  <2>3. QED
    BY <1>1, <2>1, <2>2, CountNumbers DEF Counted
<1>8. QED
  BY <1>6, <1>7

LEMMA CountAnswered ==
  ASSUME PartsInv, NEW r \in Runners, NEW a \in Attempts, NEW d \in Decisions,
         NEW proposal \in PlanProposals \cup {NULL}, NEW t \in Times,
         Answered(r, a, d, proposal, t), NEW c \in Cases, Counted(c)
  PROVE  Counted(c)'
<1>1. /\ attempts[a] \in Attempt /\ attempts[a].case = Canonical
      /\ attempts[a].status = "RESERVED" /\ StageWork(a, d, t)
      /\ Cardinality(Decided(d)) \in Nat
      /\ attempts[a].caseRev = caseRev[Canonical]
      /\ caseRev'[Canonical] = attempts[a].caseRev + Cardinality(Decided(d))
                                 + (IF proposal = NULL THEN 0 ELSE 1) + 1
  BY AnswerFacts DEF PartsInv
<1>2. LedgerTypeOK /\ FieldTypeOK /\ DispatchKept /\ FieldInv /\ Canonical \in Cases
  BY DeliveryAssumption
  DEF PartsInv, DispatchKept, DispatchInv, TypeOK, DeliveryTypeOK, FieldInv
<1>3. \A x \in Attempts :
        /\ attempts'[x].case = attempts[x].case
        /\ attempts'[x].status = IF x = a THEN "COMMITTED" ELSE attempts[x].status
  BY AnsweredKeeps DEF KeepsAttempt
<1>4. /\ \A k \in Decided(d) : receipts[Canonical][<<a, k>>] = NoReceipt
      /\ \A q \in Requests : receipts'[Canonical][q] # NoReceipt <=>
           receipts[Canonical][q] # NoReceipt \/ \E k \in Decided(d) : q = <<a, k>>
      /\ \A x \in Cases \ {Canonical} : receipts'[x] = receipts[x]
  BY <1>1, <1>2, AnswerWrites
<1>5. ASSUME proposal # NULL
      PROVE  /\ Len(work'[Canonical]) = Len(work[Canonical]) + 1
             /\ \A x \in Cases \ {Canonical} : work'[x] = work[x]
  <2>1. FieldTypeOK' /\ \E op, p, plan, rev : Recorded(op, Canonical, p, plan, rev, t)
    BY <1>2, <1>5, PlanRecorded
  <2>2. PICK op, p, plan, rev : Recorded(op, Canonical, p, plan, rev, t)
    BY <2>1
  <2>3. Saves(op, Canonical, p, plan, rev, t)
    BY <2>2 DEF Recorded
  <2>4. Len(work'[Canonical]) = Len(work[Canonical]) + 1
    BY <1>2, <2>1, <2>3, RecordedCounts
  <2>5. QED
    BY <2>3, <2>4 DEF Saves
<1>6. proposal = NULL => work' = work
  BY DEF Answered, fieldVars
<1>7. CASE c # Canonical
  <2>1. Committed(c)' = Committed(c)
    BY <1>1, <1>3, <1>7 DEF Committed, AttemptsOf
  <2>2. work'[c] = work[c] /\ receipts'[c] = receipts[c]
    BY <1>4, <1>5, <1>6, <1>7
  <2>3. caseRev'[c] = caseRev[c]
    BY <1>1, <1>2, <1>7 DEF Answered, Bump, LedgerTypeOK
  <2>4. QED
    BY <2>1, <2>2, <2>3, CountStays
<1>8. CASE c = Canonical
  <2> DEFINE T == {<<a, k>> : k \in Decided(d)}
  <2>1. IsFiniteSet(T) /\ Cardinality(T) = Cardinality(Decided(d))
    BY CountDecided
  <2>2. T \subseteq Requests
    BY DeliveryAssumption DEF Decided
  <2>3. Receipted(c)' = Receipted(c) \cup T /\ Receipted(c) \cap T = {}
    BY <1>4, <1>8, <2>2 DEF Receipted
  <2> HIDE DEF T
  <2>4. Cardinality(Receipted(c)') = Cardinality(Receipted(c)) + Cardinality(Decided(d))
    BY <2>1, <2>3, CountNumbers, DisjointCount
  <2>5. Committed(c)' = Committed(c) \cup {a} /\ a \notin Committed(c)
    BY <1>1, <1>3, <1>8 DEF Committed, AttemptsOf
  <2>6. Cardinality(Committed(c)') = Cardinality(Committed(c)) + 1
    BY <2>5, CountNumbers, FS_AddElement
  <2>7. Len(work'[c]) = Len(work[c]) + (IF proposal = NULL THEN 0 ELSE 1)
    <3>1. Len(work[c]) \in Nat
      BY CountNumbers
    <3>2. CASE proposal = NULL
      BY <1>6, <3>1, <3>2
    <3>3. CASE proposal # NULL
      BY <1>5, <1>8, <3>3
    <3>4. QED
      BY <3>2, <3>3
  <2>8. caseRev'[c] = caseRev[c] + Cardinality(Decided(d)) + (IF proposal = NULL THEN 0 ELSE 1) + 1
    BY <1>1, <1>8
  <2>9. PICK n \in Nat, p \in Nat, q \in Nat, l \in Nat :
          /\ n = Cardinality(Receipted(c)) /\ p = Cardinality(Committed(c))
          /\ q = Cardinality(Decided(d)) /\ l = Len(work[c])
    BY <1>1, CountNumbers
  <2>10. caseRev[c] = n + l + p
    BY <2>9 DEF Counted
  <2>11. caseRev'[c] = n + q + (l + (IF proposal = NULL THEN 0 ELSE 1)) + (p + 1)
    <3>1. PICK k \in Nat : k = IF proposal = NULL THEN 0 ELSE 1
      OBVIOUS
    <3>2. caseRev'[c] = caseRev[c] + q + k + 1
      BY <2>8, <2>9, <3>1
    <3>3. caseRev'[c] = (n + l + p) + q + k + 1
      BY <2>10, <3>2
    <3>4. QED
      BY <3>1, <3>3
  <2>12. /\ Cardinality(Receipted(c)') = n + q /\ Cardinality(Committed(c)') = p + 1
         /\ Len(work'[c]) = l + (IF proposal = NULL THEN 0 ELSE 1)
    BY <2>4, <2>6, <2>7, <2>9
  <2>13. QED
    BY <2>11, <2>12 DEF Counted
<1>9. QED
  BY <1>7, <1>8

LEMMA CountMoves ==
  ASSUME PartsInv, FieldDispatchMoves, NEW c \in Cases, Counted(c)
  PROVE  Counted(c)'
<1>1. ASSUME UNCHANGED <<ledgerVars, fieldVars>>, Committed(c)' = Committed(c)
      PROVE  Counted(c)'
  BY <1>1, CountStays DEF ledgerVars, fieldVars
<1>2. ASSUME MovesAside
      PROVE  Committed(c)' = Committed(c)
  BY <1>2, CommittedAside DEF MovesAside, KeepsAttempt
<1>3. CASE Quiet
  BY <1>1, <1>2, <1>3, AsideMoves DEF Quiet
<1>4. ASSUME NEW t \in Times, Upgrade(t)
      PROVE  Counted(c)'
  BY <1>1, <1>2, <1>4, AsideMoves DEF Upgrade
<1>5. ASSUME NEW a \in Attempts, NEW t \in Times, Released(a, t)
      PROVE  Counted(c)'
  BY <1>1, <1>2, <1>5, AsideMoves DEF Released, Releasing
<1>6. ASSUME NEW r \in Runners, NEW e \in Sealed, NEW a \in Attempts, NEW t \in Times,
             Begun(r, e, a, t)
      PROVE  Counted(c)'
  <2>1. /\ attempts[a] = NoAttempt
        /\ attempts'[a] = [status |-> "RESERVED", case |-> Canonical, event |-> e,
                           source |-> (Pending # {}), caseRev |-> caseRev[Canonical],
                           refs |-> Snapshot(Canonical), at |-> t]
        /\ \A x \in Attempts \ {a} : attempts'[x] = attempts[x]
        /\ UNCHANGED <<ledgerVars, fieldVars>>
    BY <1>6, BegunFacts, Zenon
  <2>2. attempts[a].status # "COMMITTED" /\ attempts'[a].status # "COMMITTED"
    BY <2>1 DEF NoAttempt
  <2>3. Committed(c)' = Committed(c)
    BY <2>1, <2>2 DEF Committed, AttemptsOf
  <2>4. QED
    BY <1>1, <2>1, <2>3
<1>7. QED
  BY <1>3, <1>4, <1>5, <1>6, CountActs, CountWork, CountAnswered DEF FieldDispatchMoves, SavesAnswer

(* Whoever saved what on the case, its revision is the number of reviews   *)
(* and links saved, of field work, and of committed answers: no operation  *)
(* is free, and none is counted twice.                                     *)
THEOREM EveryOperationCountedHolds == UpgradeSpec => []EveryOperationCounted
<1> DEFINE Inv == \A c \in Cases : Counted(c)
<1>1. UpgradeInit => Inv
  <2> SUFFICES ASSUME UpgradeInit, NEW c \in Cases PROVE Counted(c)
    OBVIOUS
  <2>1. caseRev[c] = 0 /\ work[c] = <<>> /\ \A q \in Requests : receipts[c][q] = NoReceipt
    BY DEF UpgradeInit, Init, LedgerInit
  <2>2. \A a \in Attempts : attempts[a].status = "NONE"
    BY DEF UpgradeInit, Init, JournalInit, NoAttempt
  <2>3. Receipted(c) = {} /\ Committed(c) = {}
    BY <2>1, <2>2 DEF Receipted, Committed, AttemptsOf
  <2>4. Cardinality({}) = 0 /\ Len(<<>>) = 0
    BY FS_EmptySet
  <2>5. QED
    BY <2>1, <2>3, <2>4 DEF Counted
<1>2. PartsInv /\ Inv /\ [UpgradeNext]_upgradeVars => Inv'
  BY PartsSteps, CountMoves
<1>3. Inv => EveryOperationCounted
  BY DEF Counted, Receipted, EveryOperationCounted
<1>4. QED
  BY <1>1, <1>2, <1>3, PartsHold, PTL DEF UpgradeSpec

----------------------------------------------------------------------------
(* What an invocation was shown stays what can be restored                 *)

NamedReplays ==
  \A c \in Cases : \A i \in DOMAIN work[c] :
    Replay(c, i) = [value |-> work[c][i].value, result |-> work[c][i].result]

LEMMA ReplaysNamed == FieldInv => NamedReplays
BY ReplayIsNamed DEF NamedReplays

LEMMA ReplaysNamedNext == FieldInv' => NamedReplays'
BY ReplaysNamed, PTL

(* The receipt and the revision row that say what was shown are kept, and  *)
(* what they say of the plan and its review.                               *)
LEMMA RestoresStays ==
  ASSUME PartsInv, FieldDispatchMoves, NEW item, Restores(item)
  PROVE  Restores(item)'
<1>1. Preserves /\ FieldInv /\ FieldInv'
  BY PreservesMoves DEF PartsInv, Preserves
<1>2. Canonical \in Cases
  BY DeliveryAssumption
<1>3. PICK i \in DOMAIN work[Canonical] :
        /\ work[Canonical][i].plan = item.plan /\ work[Canonical][i].rev = item.rev
        /\ \E q \in RowsOf(Canonical, PlanOf(item.plan).task) :
             /\ receipts[Canonical][q].rev = item.parent
             /\ item.shown =
                  [value |-> Replay(Canonical, i).value, result |-> Replay(Canonical, i).result,
                   binding |-> BindingOf(receipts[Canonical][q].status, receipts[Canonical][q].rev,
                                         PlanOf(item.plan).review)]
  BY DEF Restores
<1>4. PICK q \in RowsOf(Canonical, PlanOf(item.plan).task) :
        /\ receipts[Canonical][q].rev = item.parent
        /\ item.shown =
             [value |-> Replay(Canonical, i).value, result |-> Replay(Canonical, i).result,
              binding |-> BindingOf(receipts[Canonical][q].status, receipts[Canonical][q].rev,
                                    PlanOf(item.plan).review)]
  BY <1>3
<1>5. i \in DOMAIN work'[Canonical] /\ work'[Canonical][i] = work[Canonical][i]
  BY <1>1, <1>2 DEF Preserves, KeepsSaved
<1>6. Replay(Canonical, i)' = Replay(Canonical, i)
  <2>1. Replay(Canonical, i) = [value |-> work[Canonical][i].value,
                                result |-> work[Canonical][i].result]
    BY <1>1, <1>2, ReplaysNamed DEF NamedReplays
  <2>2. Replay(Canonical, i)' = [value |-> work'[Canonical][i].value,
                                 result |-> work'[Canonical][i].result]
    BY <1>1, <1>2, <1>5, ReplaysNamedNext DEF NamedReplays
  <2>3. QED
    BY <1>5, <2>1, <2>2
<1>7. PlanOf(item.plan)'.task = PlanOf(item.plan).task
      /\ PlanOf(item.plan)'.review = PlanOf(item.plan).review
  <2>1. item.plan \in DOMAIN plans[Canonical]
    BY <1>1, <1>2, <1>3 DEF FieldInv, ReceiptsKept
  <2>2. Extends(plans[Canonical][item.plan], plans'[Canonical][item.plan])
    BY <1>1, <1>2, <2>1 DEF Preserves, KeepsSaved
  <2>3. QED
    BY <2>2 DEF Extends, PlanOf
<1>8. q \in Requests /\ receipts'[Canonical][q] = receipts[Canonical][q]
  <2>1. q \in Requests /\ receipts[Canonical][q] # NoReceipt
    BY DEF RowsOf, NoReceipt
  <2>2. QED
    BY <1>1, <2>1 DEF Preserves, ReceiptsStay
<1>9. q \in RowsOf(Canonical, PlanOf(item.plan).task)'
  BY <1>7, <1>8 DEF RowsOf
<1>10. BindingOf(receipts[Canonical][q].status, receipts[Canonical][q].rev,
                 PlanOf(item.plan).review)'
         = BindingOf(receipts[Canonical][q].status, receipts[Canonical][q].rev,
                     PlanOf(item.plan).review)
  BY <1>7, <1>8 DEF BindingOf
<1>11. QED
  BY <1>3, <1>4, <1>5, <1>6, <1>8, <1>9, <1>10 DEF Restores

(* What would be shown depends on the plans and reviews of the case alone. *)
LEMMA ActivitiesSame ==
  ASSUME plans'[Canonical] = plans[Canonical], reviews'[Canonical] = reviews[Canonical]
  PROVE  Activities' = Activities
<1>1. \A p : PlanOf(p)' = PlanOf(p) /\ Parent(p)' = Parent(p)
  BY DEF PlanOf, Parent
<1>2. \A p : Now(PlanOf(p))' = Now(PlanOf(p)) /\ ResultOf(PlanOf(p))' = ResultOf(PlanOf(p))
  BY <1>1 DEF Now, ResultOf
<1>3. \A binding : OpenPlans(binding)' = OpenPlans(binding)
  BY <1>1, <1>2 DEF OpenPlans
<1>4. ReportedPlans' = ReportedPlans
  BY <1>2 DEF ReportedPlans
<1>5. \A n, S : Recent(n, S)' = Recent(n, S)
  BY <1>1 DEF Recent
<1>6. Stranded' = Stranded
  BY <1>3, <1>5 DEF Stranded
<1>7. \A selection, p : ReferenceTo(selection, p)' = ReferenceTo(selection, p)
  BY <1>1, <1>2 DEF ReferenceTo
<1>8. Recent(ShownLimit, ReportedPlans)' = Recent(ShownLimit, ReportedPlans)
  BY <1>4, <1>5
<1>9. QED
  BY <1>3, <1>6, <1>7, <1>8 DEF Activities

LEMMA PinKept ==
  ASSUME AccountInv, FieldDispatchMoves, PinnedContextHolds, NEW a \in Attempts, pins'[a] # NULL,
         pins'[a] = pins[a], KeepsAttempt(a)
  PROVE  /\ \A item \in pins'[a].activities : Restores(item)'
         /\ attempts'[a].status = "RESERVED" /\ CaseUnchanged(a)' => pins'[a].activities = Activities'
<1>1. PartsInv /\ InvocationsInv /\ VersionInv /\ Preserves
  BY PreservesMoves DEF AccountInv, PartsInv
<1>2. \A item \in pins'[a].activities : Restores(item)'
  BY <1>1, RestoresStays DEF PinnedContextHolds
<1>3. ASSUME attempts'[a].status = "RESERVED", CaseUnchanged(a)'
      PROVE  pins'[a].activities = Activities'
  <2>1. attempts[a].status = "RESERVED" /\ attempts[a].caseRev = attempts'[a].caseRev
        /\ attempts[a].case = attempts'[a].case
    BY <1>3 DEF KeepsAttempt
  <2>2. attempts[a].case = Canonical /\ attempts[a].caseRev <= caseRev[Canonical]
    BY <1>1, <2>1 DEF InvocationsInv, PartsInv, DispatchKept, DispatchInv, PointerInv, AdmittedHere
  <2>3. caseRev'[Canonical] = attempts[a].caseRev
    BY <1>3, <2>1, <2>2 DEF CaseUnchanged
  <2>4. /\ caseRev[Canonical] \in Nat /\ attempts[a].caseRev \in Nat
        /\ caseRev[Canonical] <= caseRev'[Canonical]
    BY <1>1, CaseNumbers DEF Preserves, MovesOn
  <2>5. caseRev'[Canonical] = caseRev[Canonical] /\ caseRev[Canonical] = attempts[a].caseRev
    BY <2>2, <2>3, <2>4
  <2>6. Activities' = Activities
    BY <1>1, <2>5, ActivitiesSame DEF Preserves, StandsStill
  <2>7. pins[a].activities = Activities
    BY <2>1, <2>2, <2>5 DEF PinnedContextHolds, CaseUnchanged
  <2>8. QED
    BY <2>6, <2>7
<1>4. QED
  BY <1>2, <1>3

LEMMA PinBegun ==
  ASSUME AccountInv, FieldDispatchMoves, NEW r \in Runners, NEW e \in Sealed, NEW a \in Attempts,
         NEW t \in Times, Begun(r, e, a, t), pins'[a] # NULL
  PROVE  /\ \A item \in pins'[a].activities : Restores(item)'
         /\ pins'[a].activities = Activities'
<1>1. PartsInv /\ VersionInv
  BY DEF AccountInv
<1>2. attempts[a] = NoAttempt /\ UNCHANGED <<ledgerVars, fieldVars>>
  BY <1>1, BegunFacts, Zenon
<1>3. pins[a] = NULL
  BY <1>1, <1>2 DEF VersionInv, NoAttempt
<1>4. PICK reg \in Registries : PinContext(a, reg)
  BY <1>3 DEF Begun, extensionVars
<1>5. pins'[a] = [activities |-> Activities, sites |-> Approved(reg)]
  BY <1>1, <1>4 DEF PinContext, PartsInv, ExtensionTypeOK
<1>6. \A item \in Activities : Restores(item)
  BY <1>4 DEF PinContext
<1>7. \A item \in Activities : Restores(item)'
  BY <1>1, <1>6, RestoresStays
<1>8. Activities' = Activities
  BY <1>2, ActivitiesSame DEF ledgerVars, fieldVars
<1>9. pins'[a].activities = Activities
  BY <1>5
<1>10. QED
  BY <1>7, <1>8, <1>9

LEMMA PinMoves == AccountInv /\ PinnedContextHolds /\ FieldDispatchMoves => PinnedContextHolds'
<1> SUFFICES ASSUME AccountInv, PinnedContextHolds, FieldDispatchMoves,
                    NEW x \in Attempts, pins'[x] # NULL
             PROVE  /\ \A item \in pins'[x].activities : Restores(item)'
                    /\ attempts'[x].status = "RESERVED" /\ CaseUnchanged(x)' =>
                         pins'[x].activities = Activities'
  BY DEF PinnedContextHolds
<1>1. PartsInv
  BY DEF AccountInv
<1>2. CASE MovesAside
  BY <1>2, PinKept DEF MovesAside
<1>3. ASSUME NEW r \in Runners, NEW e \in Sealed, NEW a \in Attempts, NEW t \in Times,
             Begun(r, e, a, t)
      PROVE  /\ \A item \in pins'[x].activities : Restores(item)'
             /\ attempts'[x].status = "RESERVED" /\ CaseUnchanged(x)' =>
                  pins'[x].activities = Activities'
  <2>1. CASE x = a
    BY <1>3, <2>1, PinBegun
  <2>2. CASE x # a
    <3>1. \A y \in Attempts \ {a} : /\ attempts'[y] = attempts[y] /\ admission'[y] = admission[y]
                                   /\ pins'[y] = pins[y]
      BY <1>1, <1>3, BegunFacts, Zenon
    <3>2. attempts'[x] = attempts[x] /\ admission'[x] = admission[x] /\ pins'[x] = pins[x]
      BY <2>2, <3>1
    <3>3. KeepsAttempt(x)
      BY <3>2 DEF KeepsAttempt
    <3>4. QED
      BY <3>2, <3>3, PinKept
  <2>3. QED
    BY <2>1, <2>2
<1>4. ASSUME NEW r \in Runners, NEW a \in Attempts, NEW d \in Decisions,
             NEW proposal \in PlanProposals \cup {NULL}, NEW t \in Times,
             Answered(r, a, d, proposal, t)
      PROVE  /\ \A item \in pins'[x].activities : Restores(item)'
             /\ attempts'[x].status = "RESERVED" /\ CaseUnchanged(x)' =>
                  pins'[x].activities = Activities'
  <2>1. KeepsAttempt(x) /\ pins' = pins
    BY <1>1, <1>4, AnsweredKeeps
  <2>2. QED
    BY <2>1, PinKept
<1>5. QED
  BY <1>1, <1>2, <1>3, <1>4, AsideMoves DEF FieldDispatchMoves, SavesAnswer

(* What an invocation was shown of the field work can be restored for ever *)
(* from receipts and revision rows, and while the revision of its case     *)
(* stands still it is what would be shown now: an answer is never applied  *)
(* to other work than it was given for.                                    *)
THEOREM PinnedContextHoldsAlways == UpgradeSpec => []PinnedContextHolds
<1>1. UpgradeInit => PinnedContextHolds
  BY DEF UpgradeInit, PinnedContextHolds
<1>2. AccountInv /\ PinnedContextHolds /\ [UpgradeNext]_upgradeVars => PinnedContextHolds'
  BY PartsSteps, PinMoves DEF AccountInv
<1>3. QED
  BY <1>1, <1>2, AccountHolds, PTL DEF UpgradeSpec

----------------------------------------------------------------------------
(* The agent's plans                                                       *)

AnsweredKinds(a) == {k \in Kinds : receipts[Canonical][<<a, k>>] # NoReceipt}

(* A proposed plan, as its answer saved it. *)
ProposalStands(a) ==
  LET p == proposals[a]
  IN /\ a \in Committed(Canonical)
     /\ PlanOf(p).rows[1].author = "AGENT" /\ PlanOf(p).rows[1].status = "PROPOSED"
     /\ PlanOf(p).rows[1].site \in pins[a].sites
     /\ \E ref \in attempts[a].refs : ref.task = PlanOf(p).task /\ ref.rev = PlanOf(p).review
     /\ \E i \in DOMAIN work[Canonical] :
          /\ work[Canonical][i].op = "PROPOSE" /\ work[Canonical][i].plan = p
          /\ work[Canonical][i].rev = attempts[a].caseRev + Cardinality(AnsweredKinds(a)) + 1

(* Only a committed answer has written receipts of its own. *)
WrittenInv ==
  \A a \in Attempts : attempts[a].status # "COMMITTED" => AnsweredKinds(a) = {}

AgentRows ==
  \A p \in DOMAIN plans[Canonical] : \A i \in DOMAIN PlanOf(p).rows :
    PlanOf(p).rows[i].author = "AGENT" => i = 1 /\ \E a \in Attempts : proposals[a] = p

OwnProposals ==
  \A a, b \in Attempts : proposals[a] # 0 /\ proposals[a] = proposals[b] => a = b

AgentInv ==
  /\ WrittenInv /\ AgentRows /\ OwnProposals
  /\ \A a \in Attempts : proposals[a] # 0 => ProposalStands(a)

LEMMA WorkedSigns ==
  ASSUME LedgerTypeOK, FieldTypeOK, NEW c \in Cases, NEW t \in Times, Worked(c, t),
         NEW q \in DOMAIN plans'[c], NEW i \in DOMAIN plans'[c][q].rows
  PROVE  plans'[c][q].rows[i].author = "HUMAN"
         \/ (q \in DOMAIN plans[c] /\ i \in DOMAIN plans[c][q].rows)
<1>1. PICK op \in Operations, p \in Nat, plan \in Plan :
        /\ FieldMove(op, c, p, plan) /\ Signs(c, p, plan)
        /\ Mutate(op, c, caseRev[c], p, plan, t)
  BY DEF Worked
<1>2. PICK rev \in Nat : rev = caseRev[c] + 1
  BY DEF LedgerTypeOK
<1>3. p \in 1 .. Len(plans[c]) + 1 /\ plan.rows # <<>>
  <2>1. plans[c] \in Seq(Plan)
    BY DEF FieldTypeOK
  <2>2. QED
    BY <1>1, <2>1 DEF FieldMove, Begins, Sound
<1>4. Saves(op, c, p, plan, rev, t)
  <2>1. FieldTypeOK /\ Log(op, c, p, plan, rev, t)
    BY <1>1, <1>2 DEF Mutate
  <2>2. QED
    BY <1>3, <2>1, LogSaves
<1>5. CASE q = p
  <2>1. PICK saved : saved = [plan EXCEPT !.activity = rev]
    OBVIOUS
  <2>2. saved.rows = plan.rows
    BY <2>1, SavedFields
  <2>3. plans'[c][q] = saved
    BY <1>4, <1>5, <2>1 DEF Saves
  <2>4. QED
    BY <1>1, <1>5, <2>2, <2>3 DEF Signs
<1>6. CASE q # p
  BY <1>4, <1>6 DEF Saves
<1>7. QED
  BY <1>5, <1>6

(* No step but an answer adds a row in another name than a person's. *)
LEMMA PeopleSign ==
  ASSUME PartsInv, FieldDispatchMoves, ~SavesAnswer,
         NEW q \in DOMAIN plans'[Canonical], NEW i \in DOMAIN plans'[Canonical][q].rows
  PROVE  plans'[Canonical][q].rows[i].author = "HUMAN"
         \/ (q \in DOMAIN plans[Canonical] /\ i \in DOMAIN plans[Canonical][q].rows)
<1>1. LedgerTypeOK /\ FieldTypeOK /\ Canonical \in Cases
  BY DeliveryAssumption DEF PartsInv, DispatchKept, DispatchInv, TypeOK, DeliveryTypeOK, FieldInv
<1>2. CASE UNCHANGED fieldVars
  BY <1>2 DEF fieldVars
<1>3. ASSUME NEW c \in Cases, NEW t \in Times, WorksInField(c, t)
      PROVE  plans'[Canonical][q].rows[i].author = "HUMAN"
             \/ (q \in DOMAIN plans[Canonical] /\ i \in DOMAIN plans[Canonical][q].rows)
  <2>1. Worked(c, t)
    BY <1>3 DEF WorksInField
  <2>2. CASE c = Canonical
    <3>1. Worked(Canonical, t)
      BY <2>1, <2>2
    <3>2. QED
      BY <1>1, <3>1, WorkedSigns
  <2>3. CASE c # Canonical
    <3>1. PICK op, p, plan, rev : Recorded(op, c, p, plan, rev, t)
      BY <1>1, <2>1, WorkedRecords
    <3>2. plans'[Canonical] = plans[Canonical]
      BY <1>1, <2>3, <3>1 DEF Recorded, Saves
    <3>3. QED
      BY <3>2
  <2>4. QED
    BY <2>2, <2>3
<1>4. QED
  BY <1>2, <1>3
  DEF FieldDispatchMoves, Quiet, ActsOnReview, Upgrade, Begun, PinContext, Released

(* Nor does one write receipts in the name of an invocation. *)
LEMMA OthersWrite ==
  ASSUME PartsInv, FieldDispatchMoves, ~SavesAnswer
  PROVE  \A a \in Attempts : \A k \in Kinds :
           receipts'[Canonical][<<a, k>>] = receipts[Canonical][<<a, k>>]
<1>1. LedgerTypeOK /\ Canonical \in Cases
  BY DeliveryAssumption DEF PartsInv, DispatchKept, DispatchInv, TypeOK, DeliveryTypeOK
<1>2. CASE UNCHANGED receipts
  BY <1>2
<1>3. ASSUME NEW q \in Requests \ (Attempts \X Kinds), NEW t \in Times, ActsOnReview(q, t)
      PROVE  \A a \in Attempts : \A k \in Kinds :
               receipts'[Canonical][<<a, k>>] = receipts[Canonical][<<a, k>>]
  <2>1. PICK x \in Cases, action \in HumanActions, due \in Dues :
          \E task \in ActiveOf(x) : Act(x, q, task, reviews[x][task].rev, action, due, t)
    BY <1>3 DEF ActsOnReview, PersonActs
  <2>2. PICK r : receipts' = [receipts EXCEPT ![x][q] = r]
    BY <2>1 DEF Act
  <2>3. \A z \in Requests : z # q => receipts'[Canonical][z] = receipts[Canonical][z]
    BY <1>1, <2>2 DEF LedgerTypeOK
  <2>4. \A a \in Attempts : \A k \in Kinds : <<a, k>> \in Requests /\ <<a, k>> # q
    BY DeliveryAssumption
  <2>5. QED
    BY <2>3, <2>4
<1>4. ASSUME NEW c \in Cases, NEW t \in Times, WorksInField(c, t)
      PROVE  UNCHANGED receipts
  BY <1>4 DEF WorksInField, Worked, Mutate
<1>5. QED
  BY <1>2, <1>3, <1>4
  DEF FieldDispatchMoves, Quiet, Upgrade, Begun, Admit, Released, Releasing, ledgerVars

LEMMA StandsKept ==
  ASSUME PartsInv, FieldDispatchMoves, NEW a \in Attempts, proposals[a] # 0, ProposalStands(a),
         KeepsAttempt(a), attempts'[a].status = "COMMITTED",
         proposals'[a] = proposals[a], pins'[a] = pins[a], AnsweredKinds(a)' = AnsweredKinds(a)
  PROVE  ProposalStands(a)'
<1>1. Preserves /\ FieldInv /\ FieldInv' /\ Canonical \in Cases
  BY PreservesMoves, DeliveryAssumption DEF PartsInv, Preserves
<1>2. PICK p : p = proposals[a]
  OBVIOUS
<1>3. p \in DOMAIN plans[Canonical]
  BY <1>1, <1>2 DEF PartsInv, ExtensionTypeOK, FieldInv, FieldTypeOK
<1>4. Extends(plans[Canonical][p], plans'[Canonical][p])
  BY <1>1, <1>3 DEF Preserves, KeepsSaved
<1>5. 1 \in DOMAIN plans[Canonical][p].rows
  <2>1. plans[Canonical][p] \in Plan /\ plans[Canonical][p].rows # <<>>
    BY <1>1, <1>3, PlanType DEF FieldInv, SoundPlans, Sound
  <2>2. plans[Canonical][p].rows \in Seq(Row)
    BY <2>1 DEF Plan
  <2>3. QED
    BY <2>1, <2>2
<1>6. /\ plans'[Canonical][p].task = plans[Canonical][p].task
      /\ plans'[Canonical][p].review = plans[Canonical][p].review
      /\ plans'[Canonical][p].rows[1] = plans[Canonical][p].rows[1]
  BY <1>4, <1>5 DEF Extends
<1>7. /\ attempts'[a].refs = attempts[a].refs /\ attempts'[a].caseRev = attempts[a].caseRev
      /\ a \in Committed(Canonical)'
  BY DEF KeepsAttempt, ProposalStands, Committed, AttemptsOf
<1>8. PICK i \in DOMAIN work[Canonical] :
        /\ work[Canonical][i].op = "PROPOSE" /\ work[Canonical][i].plan = p
        /\ work[Canonical][i].rev = attempts[a].caseRev + Cardinality(AnsweredKinds(a)) + 1
  BY <1>2 DEF ProposalStands
<1>9. i \in DOMAIN work'[Canonical] /\ work'[Canonical][i] = work[Canonical][i]
  BY <1>1 DEF Preserves, KeepsSaved
<1>10. /\ plans[Canonical][p].rows[1].author = "AGENT"
       /\ plans[Canonical][p].rows[1].status = "PROPOSED"
       /\ plans[Canonical][p].rows[1].site \in pins[a].sites
       /\ \E ref \in attempts[a].refs :
            ref.task = plans[Canonical][p].task /\ ref.rev = plans[Canonical][p].review
  BY <1>2 DEF ProposalStands, PlanOf
<1>11. Cardinality(AnsweredKinds(a))' = Cardinality(AnsweredKinds(a))
  OBVIOUS
<1>12. QED
  BY <1>2, <1>6, <1>7, <1>8, <1>9, <1>10, <1>11 DEF ProposalStands, PlanOf

(* What a move that applies no answer leaves of every invocation. *)
LEMMA OthersLeave ==
  ASSUME PartsInv, AgentInv, FieldDispatchMoves, ~SavesAnswer
  PROVE  /\ proposals' = proposals
         /\ \A x \in Attempts :
              /\ attempts'[x].status # "COMMITTED" => attempts[x].status # "COMMITTED"
              /\ proposals[x] # 0 => KeepsAttempt(x) /\ attempts'[x].status = "COMMITTED"
                                     /\ pins'[x] = pins[x]
<1>1. \A x \in Attempts : proposals[x] # 0 => attempts[x].status = "COMMITTED"
  BY DEF AgentInv, ProposalStands, Committed
<1>2. CASE MovesAside
  BY <1>1, <1>2 DEF MovesAside
<1>3. ASSUME NEW r \in Runners, NEW e \in Sealed, NEW a \in Attempts, NEW t \in Times,
             Begun(r, e, a, t)
      PROVE  /\ proposals' = proposals
             /\ \A x \in Attempts :
                  /\ attempts'[x].status # "COMMITTED" => attempts[x].status # "COMMITTED"
                  /\ proposals[x] # 0 => KeepsAttempt(x) /\ attempts'[x].status = "COMMITTED"
                                         /\ pins'[x] = pins[x]
  <2>1. /\ attempts[a] = NoAttempt /\ proposals' = proposals
        /\ \A x \in Attempts \ {a} : /\ attempts'[x] = attempts[x] /\ admission'[x] = admission[x]
                                     /\ pins'[x] = pins[x]
    BY <1>3, BegunFacts, Zenon
  <2>2. attempts[a].status # "COMMITTED" /\ proposals[a] = 0
    BY <1>1, <2>1 DEF NoAttempt
  <2>3. ASSUME NEW x \in Attempts, x # a
        PROVE  attempts'[x] = attempts[x] /\ admission'[x] = admission[x] /\ pins'[x] = pins[x]
    BY <2>1, <2>3
  <2>4. ASSUME NEW x \in Attempts
        PROVE  attempts'[x].status # "COMMITTED" => attempts[x].status # "COMMITTED"
    BY <2>2, <2>3
  <2>5. ASSUME NEW x \in Attempts, proposals[x] # 0
        PROVE  KeepsAttempt(x) /\ attempts'[x].status = "COMMITTED" /\ pins'[x] = pins[x]
    BY <1>1, <2>2, <2>3, <2>5 DEF KeepsAttempt
  <2>6. QED
    BY <2>1, <2>4, <2>5
<1>4. QED
  BY <1>2, <1>3, AsideMoves DEF FieldDispatchMoves

LEMMA AgentOthers ==
  ASSUME PartsInv, AgentInv, FieldDispatchMoves, ~SavesAnswer
  PROVE  AgentInv'
<1>1. /\ proposals' = proposals
      /\ \A x \in Attempts :
           /\ attempts'[x].status # "COMMITTED" => attempts[x].status # "COMMITTED"
           /\ proposals[x] # 0 => KeepsAttempt(x) /\ attempts'[x].status = "COMMITTED"
                                  /\ pins'[x] = pins[x]
  BY OthersLeave
<1>2. \A x \in Attempts : AnsweredKinds(x)' = AnsweredKinds(x)
  BY OthersWrite DEF AnsweredKinds
<1>3. WrittenInv'
  BY <1>1, <1>2 DEF AgentInv, WrittenInv
<1>4. OwnProposals'
  BY <1>1 DEF AgentInv, OwnProposals
<1>5. \A x \in Attempts : proposals[x] # 0 => ProposalStands(x)'
  BY <1>1, <1>2, StandsKept DEF AgentInv
<1>6. ASSUME NEW p \in DOMAIN plans'[Canonical], NEW i \in DOMAIN plans'[Canonical][p].rows,
             plans'[Canonical][p].rows[i].author = "AGENT"
      PROVE  i = 1 /\ \E a \in Attempts : proposals[a] = p
  <2>1. p \in DOMAIN plans[Canonical] /\ i \in DOMAIN plans[Canonical][p].rows
    BY <1>6, PeopleSign
  <2>2. Extends(plans[Canonical][p], plans'[Canonical][p])
    BY <2>1, PreservesMoves, DeliveryAssumption DEF PartsInv, Preserves, KeepsSaved
  <2>3. plans[Canonical][p].rows[i].author = "AGENT"
    BY <1>6, <2>1, <2>2 DEF Extends
  <2>4. QED
    BY <2>1, <2>3 DEF AgentInv, AgentRows, PlanOf
<1>7. AgentRows'
  BY <1>1, <1>6 DEF AgentRows, PlanOf
<1>8. QED
  BY <1>1, <1>3, <1>4, <1>5, <1>7 DEF AgentInv

(* What an answer wrote receipts of is what it decided, and it had written *)
(* and proposed nothing before.                                            *)
LEMMA AnswerIsFirst ==
  ASSUME PartsInv, AgentInv, NEW r \in Runners, NEW a \in Attempts, NEW d \in Decisions,
         NEW proposal \in PlanProposals \cup {NULL}, NEW t \in Times,
         Answered(r, a, d, proposal, t)
  PROVE  /\ proposals[a] = 0
         /\ AnsweredKinds(a)' = Decided(d)
         /\ \A x \in Attempts \ {a} : AnsweredKinds(x)' = AnsweredKinds(x)
<1>1. /\ attempts[a] \in Attempt /\ attempts[a].case = Canonical
      /\ attempts[a].status = "RESERVED" /\ StageWork(a, d, t)
  BY AnswerFacts DEF PartsInv
<1>2. LedgerTypeOK
  BY DEF PartsInv, DispatchKept, DispatchInv, TypeOK, DeliveryTypeOK
<1>3. \A q \in Requests : receipts'[Canonical][q] # NoReceipt <=>
        receipts[Canonical][q] # NoReceipt \/ \E k \in Decided(d) : q = <<a, k>>
  BY <1>1, <1>2, AnswerWrites
<1>4. \A x \in Attempts : \A k \in Kinds : <<x, k>> \in Requests
  BY DeliveryAssumption
<1>5. proposals[a] = 0 /\ AnsweredKinds(a) = {}
  BY <1>1 DEF AgentInv, WrittenInv, ProposalStands, Committed
<1>6. \A x \in Attempts : \A k \in Kinds :
        receipts'[Canonical][<<x, k>>] # NoReceipt <=>
          receipts[Canonical][<<x, k>>] # NoReceipt \/ (x = a /\ k \in Decided(d))
  <2> SUFFICES ASSUME NEW x \in Attempts, NEW k \in Kinds
               PROVE  receipts'[Canonical][<<x, k>>] # NoReceipt <=>
                        receipts[Canonical][<<x, k>>] # NoReceipt \/ (x = a /\ k \in Decided(d))
    OBVIOUS
  <2>1. (\E j \in Decided(d) : <<x, k>> = <<a, j>>) <=> x = a /\ k \in Decided(d)
    OBVIOUS
  <2>2. <<x, k>> \in Requests
    BY <1>4
  <2>3. QED
    BY <1>3, <2>1, <2>2
<1>7. \A k \in Kinds : receipts[Canonical][<<a, k>>] = NoReceipt
  BY <1>5 DEF AnsweredKinds
<1>8. Decided(d) \subseteq Kinds
  BY DEF Decided
<1>9. AnsweredKinds(a)' = Decided(d)
  BY <1>6, <1>7, <1>8 DEF AnsweredKinds
<1>10. \A x \in Attempts \ {a} : AnsweredKinds(x)' = AnsweredKinds(x)
  BY <1>6 DEF AnsweredKinds
<1>11. QED
  BY <1>5, <1>9, <1>10

(* A proposed plan, once it is saved. *)
LEMMA ProposedStands ==
  ASSUME PartsInv, AgentInv, NEW r \in Runners, NEW a \in Attempts, NEW d \in Decisions,
         NEW proposal \in PlanProposals, proposal # NULL, NEW t \in Times,
         Answered(r, a, d, proposal, t)
  PROVE  /\ proposals' = [proposals EXCEPT ![a] = Len(plans[Canonical]) + 1]
         /\ ProposalStands(a)'
         /\ \A q \in DOMAIN plans'[Canonical] :
              IF q = Len(plans[Canonical]) + 1 THEN DOMAIN plans'[Canonical][q].rows = {1}
              ELSE q \in DOMAIN plans[Canonical] /\ plans'[Canonical][q] = plans[Canonical][q]
<1> DEFINE c == Canonical
           p == Len(plans[c]) + 1
<1>1. PICK ref \in attempts[a].refs :
        /\ proposals' = [proposals EXCEPT ![a] = p]
        /\ ref.task = proposal.task /\ ref.rev \in Nat
        /\ Recorded("PROPOSE", c, p,
                    NewPlan(proposal.task, ref.rev, proposal.site, proposal.ends, "AGENT", t),
                    attempts[a].caseRev + Cardinality(Decided(d)) + 1, t)
  BY PlanRecorded DEF PartsInv
<1>2. PICK plan : plan = NewPlan(proposal.task, ref.rev, proposal.site, proposal.ends, "AGENT", t)
  OBVIOUS
<1>3. PICK rev : rev = attempts[a].caseRev + Cardinality(Decided(d)) + 1
  OBVIOUS
<1>4. Recorded("PROPOSE", c, p, plan, rev, t)
  BY <1>1, <1>2, <1>3
<1>5. /\ plan.task = proposal.task /\ plan.review = ref.rev
      /\ plan.rows = <<[status |-> "PROPOSED", site |-> proposal.site, ends |-> proposal.ends,
                        author |-> "AGENT", at |-> t]>>
  BY <1>2 DEF NewPlan
<1>6. PICK saved : saved = [plan EXCEPT !.activity = rev]
  OBVIOUS
<1>7. saved.task = plan.task /\ saved.review = plan.review /\ saved.rows = plan.rows
  BY <1>4, <1>6, SavedFields DEF Recorded
<1>8. /\ DOMAIN plans'[c] = DOMAIN plans[c] \cup {p} /\ plans'[c][p] = saved
      /\ \A q \in DOMAIN plans[c] \ {p} : plans'[c][q] = plans[c][q]
      /\ DOMAIN work'[c] = DOMAIN work[c] \cup {Len(work[c]) + 1}
      /\ work'[c][Len(work[c]) + 1] =
           [op |-> "PROPOSE", rev |-> rev, plan |-> p, row |-> Len(plan.rows),
            value |-> Now(plan), result |-> ResultOf(plan), at |-> t]
  BY <1>4, <1>6 DEF Recorded, Saves
<1>9. proposals'[a] = p
  BY <1>1 DEF PartsInv, ExtensionTypeOK
<1>10. /\ pins'[a] = pins[a] /\ attempts'[a].refs = attempts[a].refs
       /\ attempts'[a].caseRev = attempts[a].caseRev
       /\ attempts'[a].status = "COMMITTED" /\ attempts'[a].case = Canonical
  <2>1. KeepsAttempt(a) /\ attempts'[a].status = "COMMITTED" /\ pins' = pins
    BY AnsweredKeeps
  <2>2. attempts[a].case = Canonical
    BY AnswerFacts DEF PartsInv
  <2>3. QED
    BY <2>1, <2>2 DEF KeepsAttempt
<1>11. AnsweredKinds(a)' = Decided(d) /\ Cardinality(AnsweredKinds(a))' = Cardinality(Decided(d))
  BY AnswerIsFirst
<1>12. proposal.site \in pins[a].sites
  BY DEF Answered, ValidProposal
<1>13. PICK i \in DOMAIN work'[c] :
         /\ work'[c][i].op = "PROPOSE" /\ work'[c][i].plan = p /\ work'[c][i].rev = rev
  BY <1>8
<1> HIDE DEF p
<1>14. ProposalStands(a)'
  <2>1. a \in Committed(Canonical)'
    BY <1>10 DEF Committed, AttemptsOf
  <2>2. /\ plans'[c][p].rows[1].author = "AGENT" /\ plans'[c][p].rows[1].status = "PROPOSED"
        /\ plans'[c][p].rows[1].site = proposal.site
        /\ plans'[c][p].task = ref.task /\ plans'[c][p].review = ref.rev
    BY <1>1, <1>5, <1>7, <1>8
  <2>3. work'[c][i].rev = attempts'[a].caseRev + Cardinality(AnsweredKinds(a))' + 1
    BY <1>3, <1>10, <1>11, <1>13
  <2>4. /\ plans'[c][p].rows[1].site \in pins'[a].sites
        /\ \E x \in attempts'[a].refs : x.task = plans'[c][p].task /\ x.rev = plans'[c][p].review
    BY <1>10, <1>12, <2>2
  <2>5. QED
    BY <1>9, <1>13, <2>1, <2>2, <2>3, <2>4 DEF ProposalStands, PlanOf
<1>15. DOMAIN plans'[c][p].rows = {1}
  BY <1>5, <1>7, <1>8
<1>16. QED
  BY <1>1, <1>8, <1>14, <1>15 DEF p

LEMMA AgentAnswered ==
  ASSUME PartsInv, AgentInv, FieldDispatchMoves, NEW r \in Runners, NEW a \in Attempts,
         NEW d \in Decisions, NEW proposal \in PlanProposals \cup {NULL}, NEW t \in Times,
         Answered(r, a, d, proposal, t)
  PROVE  AgentInv'
<1>1. /\ proposals[a] = 0 /\ AnsweredKinds(a)' = Decided(d)
      /\ \A x \in Attempts \ {a} : AnsweredKinds(x)' = AnsweredKinds(x)
  BY AnswerIsFirst
<1>2. /\ \A x \in Attempts :
           /\ KeepsAttempt(x)
           /\ attempts'[x].status = IF x = a THEN "COMMITTED" ELSE attempts[x].status
      /\ pins' = pins
  BY AnsweredKeeps
<1>3. proposals \in [Attempts -> 0 .. Len(plans[Canonical])] /\ Len(plans[Canonical]) \in Nat
  BY DeliveryAssumption DEF PartsInv, ExtensionTypeOK, FieldInv, FieldTypeOK
<1>4. WrittenInv'
  BY <1>1, <1>2 DEF AgentInv, WrittenInv
<1>5. ASSUME NEW x \in Attempts, x # a, proposals'[x] = proposals[x], proposals[x] # 0
      PROVE  ProposalStands(x)'
  <2>1. ProposalStands(x) /\ attempts[x].status = "COMMITTED"
    BY <1>5 DEF AgentInv, ProposalStands, Committed
  <2>2. attempts'[x].status = "COMMITTED" /\ KeepsAttempt(x) /\ pins'[x] = pins[x]
    BY <1>2, <1>5, <2>1
  <2>3. AnsweredKinds(x)' = AnsweredKinds(x)
    BY <1>1, <1>5
  <2>4. QED
    BY <1>5, <2>1, <2>2, <2>3, StandsKept
<1>6. CASE proposal = NULL
  <2>1. proposals' = proposals /\ plans' = plans
    BY <1>6 DEF Answered, fieldVars
  <2>2. AgentRows' /\ OwnProposals'
    BY <2>1 DEF AgentInv, AgentRows, OwnProposals, PlanOf
  <2>3. \A x \in Attempts : proposals'[x] # 0 => ProposalStands(x)'
    BY <1>1, <1>5, <2>1
  <2>4. QED
    BY <1>4, <2>2, <2>3 DEF AgentInv
<1>7. CASE proposal # NULL
  <2>1. PICK p \in Nat : p = Len(plans[Canonical]) + 1
    BY <1>3
  <2>2. /\ proposals' = [proposals EXCEPT ![a] = p] /\ ProposalStands(a)'
        /\ \A q \in DOMAIN plans'[Canonical] :
              IF q = p THEN DOMAIN plans'[Canonical][q].rows = {1}
              ELSE q \in DOMAIN plans[Canonical] /\ plans'[Canonical][q] = plans[Canonical][q]
    BY <1>7, <2>1, ProposedStands
  <2>3. proposals'[a] = p /\ \A x \in Attempts \ {a} : proposals'[x] = proposals[x]
    BY <1>3, <2>2
  <2>4. \A x \in Attempts : proposals[x] # p
    BY <1>3, <2>1
  <2>5. OwnProposals'
    <3> SUFFICES ASSUME NEW x \in Attempts, NEW y \in Attempts,
                        proposals'[x] # 0, proposals'[x] = proposals'[y]
                 PROVE  x = y
      BY DEF OwnProposals
    <3>1. CASE x = a \/ y = a
      BY <2>3, <2>4, <3>1
    <3>2. CASE x # a /\ y # a
      BY <2>3, <3>2 DEF AgentInv, OwnProposals
    <3>3. QED
      BY <3>1, <3>2
  <2>6. ASSUME NEW q \in DOMAIN plans'[Canonical], NEW i \in DOMAIN plans'[Canonical][q].rows,
               plans'[Canonical][q].rows[i].author = "AGENT"
        PROVE  i = 1 /\ \E x \in Attempts : proposals'[x] = q
    <3>1. CASE q = p
      BY <2>2, <2>3, <2>6, <3>1
    <3>2. CASE q # p
      <4>1. q \in DOMAIN plans[Canonical] /\ plans'[Canonical][q] = plans[Canonical][q]
        BY <2>2, <2>6, <3>2
      <4>2. i = 1 /\ \E x \in Attempts : proposals[x] = q
        BY <2>6, <4>1 DEF AgentInv, AgentRows, PlanOf
      <4>3. PICK x \in Attempts : proposals[x] = q
        BY <4>2
      <4>4. q # 0
        BY <1>3, <4>1, DeliveryAssumption DEF PartsInv, FieldInv, FieldTypeOK
      <4>5. proposals'[x] = q
        BY <1>1, <2>3, <4>3, <4>4
      <4>6. QED
        BY <4>2, <4>5
    <3>3. QED
      BY <3>1, <3>2
  <2>7. AgentRows'
    BY <2>6 DEF AgentRows, PlanOf
  <2>8. \A x \in Attempts : proposals'[x] # 0 => ProposalStands(x)'
    BY <1>5, <2>2, <2>3
  <2>9. QED
    BY <1>4, <2>5, <2>7, <2>8 DEF AgentInv
<1>8. QED
  BY <1>6, <1>7

LEMMA AgentMoves == PartsInv /\ AgentInv /\ FieldDispatchMoves => AgentInv'
<1> SUFFICES ASSUME PartsInv, AgentInv, FieldDispatchMoves PROVE AgentInv'
  OBVIOUS
<1>1. CASE SavesAnswer
  BY <1>1, AgentAnswered DEF SavesAnswer
<1>2. CASE ~SavesAnswer
  BY <1>2, AgentOthers
<1>3. QED
  BY <1>1, <1>2

LEMMA AgentStart == UpgradeInit => AgentInv
<1> SUFFICES ASSUME UpgradeInit PROVE AgentInv
  OBVIOUS
<1>1. /\ plans[Canonical] = <<>> /\ \A a \in Attempts : proposals[a] = 0
      /\ \A q \in Requests : receipts[Canonical][q] = NoReceipt
  BY DeliveryAssumption DEF UpgradeInit, Init, DeliveryInit, LedgerInit
<1>2. \A a \in Attempts : \A k \in Kinds : <<a, k>> \in Requests
  BY DeliveryAssumption
<1>3. QED
  BY <1>1, <1>2 DEF AgentInv, WrittenInv, AgentRows, OwnProposals, AnsweredKinds

(* A plan is in the agent's name exactly when one committed invocation     *)
(* proposed it, on the review and at a site it was shown, and its receipt  *)
(* stands at its place in the sequence of the answer.                      *)
THEOREM AgentPlansProposedHolds == UpgradeSpec => []AgentPlansProposed
<1>1. PartsInv /\ AgentInv /\ [UpgradeNext]_upgradeVars => AgentInv'
  BY PartsSteps, AgentMoves
<1>2. PartsInv /\ AgentInv => AgentPlansProposed
  <2> SUFFICES ASSUME PartsInv, AgentInv PROVE AgentPlansProposed
    OBVIOUS
  <2>1. ASSUME NEW p \in DOMAIN plans[Canonical], NEW i \in DOMAIN PlanOf(p).rows,
               PlanOf(p).rows[i].author = "AGENT"
        PROVE  i = 1 /\ Cardinality({a \in Attempts : proposals[a] = p}) = 1
    <3>1. PICK b \in Attempts : i = 1 /\ proposals[b] = p
      BY <2>1 DEF AgentInv, AgentRows
    <3>2. p # 0
      BY DeliveryAssumption DEF PartsInv, FieldInv, FieldTypeOK
    <3>3. {a \in Attempts : proposals[a] = p} = {b}
      BY <3>1, <3>2 DEF AgentInv, OwnProposals
    <3>4. QED
      BY <3>1, <3>3, FS_Singleton
  <2>2. QED
    BY <2>1 DEF AgentInv, ProposalStands, AnsweredKinds, AgentPlansProposed
<1>3. QED
  BY <1>1, <1>2, AgentStart, PartsHold, PTL DEF UpgradeSpec

----------------------------------------------------------------------------
(* What each half promises of itself, together                             *)

(* What dispatch promises of the case holds as well with people at work in *)
(* the field and plans in the answers: one invocation in flight, on the    *)
(* event, baseline and checks it was admitted with; settings that can be   *)
(* read back; every check handled once, every correction reviewed.         *)
THEOREM DispatchSurvivesFieldWork ==
  UpgradeSpec => [](/\ OneUnresolved /\ AdmissionStaysValid /\ PointerMatchesJournal
                    /\ OutcomesMatchOutbox /\ StatusReadable /\ DueChecksHandledOnce
                    /\ CorrectionsReviewed /\ QueueNeverIncomparable)
<1>1. PartsInv => /\ OneUnresolved /\ AdmissionStaysValid
                  /\ PointerInv /\ OutboxInv /\ DispatchInv /\ DecisionInv
  BY DEF PartsInv, DispatchKept, DispatchInv
<1>2. QED
  BY <1>1, PartsHold, PointerMatches, OutboxMatches, StatusIsReadable, DueIsHandledOnce,
     CorrectionsAreReviewed, QueueIsComparable, PTL

(* And what the field-work ledger promises survives an agent that writes   *)
(* plans into it: every receipt can be replayed, work follows a person's   *)
(* approval, one plan at a time, and nothing saved is changed.             *)
THEOREM FieldWorkSurvivesDispatch ==
  UpgradeSpec => /\ [](/\ FieldWorkReplays /\ VerifiedIsLatest
                       /\ WorkFollowsApproval /\ SitesKeepMeaning)
                 /\ [][KeepsSaved]_upgradeVars
<1>1. PartsInv => LedgerTypeOK /\ FieldInv /\ SitesKeepMeaning
  BY DEF PartsInv, DispatchKept, DispatchInv, TypeOK, DeliveryTypeOK, FieldInv
<1>2. PartsInv /\ [UpgradeNext]_upgradeVars => KeepsSaved
  BY PartsSteps, PreservesMoves DEF PartsInv, Preserves
<1>3. QED
  BY <1>1, <1>2, PartsHold, WorkIsReplayed, VerifiedIsShown, WorkIsApproved, PTL DEF UpgradeSpec

============================================================================
