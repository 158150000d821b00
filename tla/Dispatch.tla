------------------------------ MODULE Dispatch ------------------------------
(***************************************************************************)
(* Selective dispatch (current/dispatch_store.py, dispatch_replay.py,      *)
(* dispatch_runner.py): the monitor's canonical case decides inside one    *)
(* transaction whether the next source event deserves a paid invocation,   *)
(* the model runs outside, and a second transaction applies its answer.    *)
(* Polls, people, other runners and crashes interleave with all of it.     *)
(*                                                                         *)
(* A reference to an assessed context (the numeric and the health          *)
(* baselines) is named by the attempt that assessed it.  Whether measured  *)
(* values, coverage or source health differ enough to matter is data: it   *)
(* is a free choice wherever no other reason decides.                      *)
(***************************************************************************)
EXTENDS Delivery

CONSTANTS
  Runners,      \* processes or threads that tick the case
  Direct        \* invocations reserved through the journal, bypassing dispatch

ASSUME DispatchAssumption ==
  /\ Direct \subseteq Attempts
  /\ NULL \notin [evidence : Events, answers : BOOLEAN, plans : Nat]

VARIABLES
  activated,    \* dispatch_settings has a row for the case
  dispatchTime, \* its updated_at
  initial,      \* initial_event_id
  counts,       \* history_count, suppressed_count, assessment_count
  numeric,      \* numeric_context_json
  health,       \* health_context_json
  active,       \* active_attempt_id
  admission,    \* dispatch_attempts
  outcomes,     \* dispatch_source_outcomes
  handled,      \* dispatch_due
  runner        \* DispatchRunner.tick: program counter and attempt in hand

settingsVars == <<activated, dispatchTime, initial, counts, numeric, health, active>>
recordVars == <<admission, outcomes, handled>>
dispatchVars == <<settingsVars, recordVars>>
vars == <<sourceVars, ledgerVars, journalVars, dispatchVars, runner>>

DueKey == Requests \X Nat \X Dues
Admission == [numeric : Attempts \cup {NULL}, health : Attempts \cup {NULL},
              move : BOOLEAN, due : SUBSET DueKey]
NoAdmission == [numeric |-> NULL, health |-> NULL, move |-> FALSE, due |-> {}]
Idle == [pc |-> "idle", attempt |-> NULL]

DispatchTypeOK ==
  /\ activated \in BOOLEAN
  /\ dispatchTime \in Times
  /\ initial \in Events \cup {NULL}
  /\ counts \in [history : Nat, suppressed : Nat, assessed : Nat]
  /\ numeric \in Attempts \cup {NULL}
  /\ health \in Attempts \cup {NULL}
  /\ active \in Attempts \cup {NULL}
  /\ admission \in [Attempts -> Admission \cup {NoAdmission}]
  /\ outcomes \in [Events -> {"NONE", "HISTORY", "SUPPRESSED", "ASSESSED"}]
  /\ handled \subseteq DueKey
  /\ runner \in [Runners -> [pc : {"planning", "failing"}, attempt : Attempts] \cup {Idle}]

Init ==
  /\ SourceInit /\ LedgerInit /\ JournalInit
  /\ activated = FALSE
  /\ dispatchTime = 0
  /\ initial = NULL
  /\ counts = [history |-> 0, suppressed |-> 0, assessed |-> 0]
  /\ numeric = NULL /\ health = NULL /\ active = NULL
  /\ admission = [a \in Attempts |-> NoAdmission]
  /\ outcomes = [e \in Events |-> "NONE"]
  /\ handled = {}
  /\ runner = [r \in Runners |-> Idle]

(* Deliveries of the case that dispatch never admitted. *)
Outside == {a \in AttemptsOf(Canonical) : admission[a] = NoAdmission}

(* An admitted invocation completed through the journal: the pointer       *)
(* stays, nothing is recorded, and prepare and finish refuse from then on. *)
Bypassed == {a \in Committed(Canonical) : active = a}

(* The invocations whose answers dispatch recorded. *)
Accounted == Committed(Canonical) \ (Outside \cup Bypassed)

(* _settings: every operation first refuses a case worked on elsewhere. *)
Bound == activated /\ Outside = {}

----------------------------------------------------------------------------
(* Which event, and is it attended to?                                     *)
Newest(e, S) == e \in S /\ \A d \in S \ {e} : Before(d, e)
Oldest(e, S) == e \in S /\ \A d \in S \ {e} : Before(e, d)

(* The newest event starts a watch; later the queue is served in order,    *)
(* and an empty queue looks at the newest event again.                     *)
Candidate(e) ==
  \/ initial = NULL /\ Newest(e, Pending)
  \/ initial # NULL /\ Oldest(e, Pending)
  \/ initial # NULL /\ Pending = {} /\ Newest(e, Sealed)

Basis == IF numeric = NULL THEN NULL ELSE attempts[numeric].event

Comparable(e, b) == Interval(b) < Interval(e) \/ Supersedes(e, b)
Older(e, b) == Interval(e) < Interval(b)

(* The predecessor of e is evidence of an active review. *)
CorrectsWork(e) ==
  \E q \in ActiveOf(Canonical) : \E p \in links[Canonical][q] : Supersedes(e, p)

LateRevisionOnly(e, b) ==                           \* seeded error: older intervals forgotten
  Interval(e) = Interval(b) /\ Revision(e) < Revision(b)

Late(e, b) ==
  /\ e # b /\ ~Comparable(e, b)
  /\ Older(e, b) \/ (Interval(e) = Interval(b) /\ Revision(e) < Revision(b))
  /\ ~(Older(e, b) /\ CorrectsWork(e))

(* evaluate_attention raises on any other relation. *)
Judged(e, b) ==
  b # NULL =>
    e = b \/ Comparable(e, b) \/ Late(e, b) \/ (Older(e, b) /\ CorrectsWork(e))

DueChecksByRevision(t) ==                           \* seeded error: no time in the key
  {<<r.task, r.rev>> : r \in {s \in Snapshot(Canonical) : s.due # NoDue /\ s.due <= t}}
DueChecksAgain(t) ==                                \* seeded error: dispatch_due unread
  {<<r.task, r.rev, r.due>> : r \in {s \in Snapshot(Canonical) : s.due # NoDue /\ s.due <= t}}

(* Open checks whose time has come and that no assessment handled yet. *)
DueChecks(t) ==
  {<<r.task, r.rev, r.due>> : r \in {s \in Snapshot(Canonical) : s.due # NoDue /\ s.due <= t}}
    \ handled

CompellingButLate(e, b, t) ==                       \* seeded error
  b = NULL \/ (e # b /\ (Supersedes(e, b) \/ CorrectsWork(e))) \/ DueChecks(t) # {}

(* The reasons that do not depend on measured values. *)
Compelling(e, b, t) ==
  \/ b = NULL
  \/ Late(e, b)
  \/ e # b /\ (Supersedes(e, b) \/ CorrectsWork(e))
  \/ DueChecks(t) # {}

MovesAlways(e, b) == TRUE                           \* seeded error
MovesToLaterInterval(e, b) == IF b = NULL THEN TRUE ELSE Interval(b) < Interval(e)  \* seeded error

(* Does assessing e move the main comparison away from b? *)
MovesNumeric(e, b) == b = NULL \/ Interval(b) < Interval(e) \/ Supersedes(e, b)

----------------------------------------------------------------------------
(* Transactions of the dispatcher                                          *)
Activate(t) ==
  /\ ~activated
  /\ caseRev[Canonical] = 0
  /\ AttemptsOf(Canonical) = {}
  /\ t >= caseTime[Canonical]
  /\ activated' = TRUE
  /\ dispatchTime' = t
  /\ UNCHANGED <<initial, counts, numeric, health, active, recordVars,
                 sourceVars, ledgerVars, journalVars, runner>>

ReadyUnreconciled(e, t) ==                          \* seeded error: pointer not looked at
  /\ Bound
  /\ t >= dispatchTime /\ t >= caseTime[Canonical]
  /\ HeldOf(Canonical) = {}
  /\ Candidate(e)
  /\ Judged(e, Basis)

(* prepare goes on only when nothing of the case is unresolved, and none   *)
(* was resolved behind its back.                                           *)
Ready(e, t) ==
  /\ Bound
  /\ t >= dispatchTime /\ t >= caseTime[Canonical]
  /\ HeldOf(Canonical) = {}
  /\ active = NULL
  /\ Candidate(e)
  /\ Judged(e, Basis)

(* prepare without a reason to attend: a source event is set aside. *)
Suppress(e, t) ==
  /\ Ready(e, t)
  /\ Pending # {}
  /\ ~Compelling(e, Basis, t)
  /\ outcomes[e] = "NONE"
  /\ outcomes' = [outcomes EXCEPT ![e] = "SUPPRESSED"]
  /\ Acknowledge([x \in {e} |-> "SUPPRESSED"])
  /\ counts' = [counts EXCEPT !.suppressed = @ + 1]
  /\ dispatchTime' = t
  /\ UNCHANGED <<activated, initial, numeric, health, active, admission, handled,
                 ledgerVars, journalVars, runner>>

(* prepare with a reason: bootstrap, reservation and admission commit      *)
(* together, or the exhausted allowance rolls all of them back.            *)
Admit(r, e, a, t) ==
  LET earlier == IF initial = NULL THEN Pending \ {e} ELSE {}
  IN /\ Ready(e, t)
     /\ ReserveRow(a, Canonical, e, Pending # {}, t)
     /\ \A d \in earlier : outcomes[d] = "NONE"
     /\ outcomes' = [d \in Events |-> IF d \in earlier THEN "HISTORY" ELSE outcomes[d]]
     /\ Acknowledge([d \in earlier |-> "HISTORY"])
     /\ initial' = IF initial = NULL THEN e ELSE initial
     /\ counts' = [counts EXCEPT !.history = @ + Cardinality(earlier)]
     /\ admission' = [admission EXCEPT ![a] =
          [numeric |-> numeric, health |-> health,
           move |-> MovesNumeric(e, Basis), due |-> DueChecks(t)]]
     /\ active' = a
     /\ dispatchTime' = t
     /\ runner' = [runner EXCEPT ![r] = [pc |-> "planning", attempt |-> a]]
     /\ UNCHANGED <<activated, numeric, health, handled, ledgerVars>>

(* The parts of finish's bookkeeping. *)
HandledUnrecorded(a) == handled                     \* seeded error
HandledAfter(a) == handled \cup admission[a].due
AssessedAfter(a) == counts.assessed + 1

(* finish: the admission must still be the active one, on its baselines. *)
MayFinish(a, t) ==
  /\ Bound
  /\ active = a
  /\ numeric = admission[a].numeric /\ health = admission[a].health
  /\ t >= dispatchTime

(* What finish records of an answer that was applied. *)
RecordAssessed(a, t) ==
  LET e == attempts[a].event
  IN /\ attempts[a].source => outcomes[e] = "NONE"
     /\ admission[a].due \cap handled = {}
     /\ outcomes' = IF attempts[a].source
                    THEN [outcomes EXCEPT ![e] = "ASSESSED"] ELSE outcomes
     /\ numeric' = IF admission[a].move THEN a ELSE numeric
     /\ health' = a
     /\ active' = NULL
     /\ counts' = [counts EXCEPT !.assessed = AssessedAfter(a)]
     /\ handled' = HandledAfter(a)
     /\ dispatchTime' = t
     /\ UNCHANGED <<activated, initial, admission>>

Finish(r, d, t) ==
  LET a == runner[r].attempt
  IN /\ runner[r].pc = "planning"
     /\ MayFinish(a, t)
     /\ Complete(a, d, t)
     /\ RecordAssessed(a, t)
     /\ runner' = [runner EXCEPT ![r] = Idle]

FinishStaleReleased(r, d, t) ==                     \* seeded error: pointer cleared
  /\ runner[r].pc = "planning"
  /\ MayFinish(runner[r].attempt, t)
  /\ KeepStale(runner[r].attempt, d, t)
  /\ active' = NULL
  /\ runner' = [runner EXCEPT ![r] = Idle]
  /\ UNCHANGED <<activated, dispatchTime, initial, counts, numeric, health, recordVars>>

(* finish on a changed case: the answer is kept, the case stays held. *)
FinishStale(r, d, t) ==
  /\ runner[r].pc = "planning"
  /\ MayFinish(runner[r].attempt, t)
  /\ KeepStale(runner[r].attempt, d, t)
  /\ runner' = [runner EXCEPT ![r] = Idle]
  /\ UNCHANGED dispatchVars

(* fail reads the pointer in one transaction and writes in another. *)
FailCheck(r) ==
  /\ runner[r].pc = "planning"
  /\ Bound
  /\ active = runner[r].attempt
  /\ runner' = [runner EXCEPT ![r].pc = "failing"]
  /\ UNCHANGED <<dispatchVars, sourceVars, ledgerVars, journalVars>>

FailWrite(r, t) ==
  /\ runner[r].pc = "failing"
  /\ Fail(runner[r].attempt, t)
  /\ runner' = [runner EXCEPT ![r] = Idle]
  /\ UNCHANGED dispatchVars

LoseAndClear(r) ==                                  \* seeded error
  /\ runner[r] # Idle
  /\ runner' = [runner EXCEPT ![r] = Idle]
  /\ active' = NULL
  /\ UNCHANGED <<activated, dispatchTime, initial, counts, numeric, health, recordVars,
                 sourceVars, ledgerVars, journalVars>>

(* OUTCOME_UNKNOWN, or the process dies: the reservation stays. *)
Lose(r) ==
  /\ runner[r] # Idle
  /\ runner' = [runner EXCEPT ![r] = Idle]
  /\ UNCHANGED <<dispatchVars, sourceVars, ledgerVars, journalVars>>

----------------------------------------------------------------------------
(* What goes on around it: polls and people.                               *)
Surroundings ==
  /\ UNCHANGED <<dispatchVars, runner>>
  /\ \/ \E S \in SUBSET Sealable : SealEvents(S) /\ UNCHANGED <<ledgerVars, journalVars>>
     \/ \E q \in Requests \ (Attempts \X Kinds), t \in Times : PersonActs(q, t)
     \/ \E a \in Attempts, t \in Times : Abandon(a, t)

(* Direct uses of the journal, whose operations take any unresolved        *)
(* attempt: one reserved there, or one that dispatch admitted.  Dispatch   *)
(* records nothing of either.                                              *)
JournalCalls ==
  /\ UNCHANGED <<dispatchVars, runner>>
  /\ \E t \in Times :
       \/ \E a \in Direct, c \in Cases, e \in Events, source \in BOOLEAN :
            Reserve(a, c, e, source, t)
       \/ \E a \in Attempts, d \in Decisions : KeepStale(a, d, t) \/ Complete(a, d, t)
       \/ \E a \in Attempts : Fail(a, t)

Prepare(r) ==
  /\ runner[r] = Idle
  /\ \E e \in Sealed, t \in Times :
       Suppress(e, t) \/ \E a \in Attempts \ Direct : Admit(r, e, a, t)

Conclude(r) ==
  \E t \in Times :
    \/ \E d \in Decisions : Finish(r, d, t) \/ FinishStale(r, d, t)
    \/ FailWrite(r, t)

Next ==
  \/ \E t \in Times : Activate(t)
  \/ \E r \in Runners : Prepare(r) \/ Conclude(r) \/ FailCheck(r) \/ Lose(r)
  \/ Surroundings
  \/ JournalCalls

Spec == Init /\ [][Next]_vars
----------------------------------------------------------------------------
TypeOK == DeliveryTypeOK /\ DispatchTypeOK

(* What the dispatcher recorded about an event is what the outbox says,    *)
(* whichever of bootstrap, suppression and completion disposed of it.  An  *)
(* event is ASSESSED exactly when an answer that dispatch recorded was for *)
(* it; DONE without an outcome is the mark of one given through the        *)
(* journal.                                                                *)
OutcomesMatchOutbox ==
  \A e \in Events :
    /\ outcomes[e] \in {"HISTORY", "SUPPRESSED"} <=> outbox[e] \in {"HISTORY", "SUPPRESSED"}
    /\ outcomes[e] \in {"HISTORY", "SUPPRESSED"} => outcomes[e] = outbox[e]
    /\ outcomes[e] = "ASSESSED" => outbox[e] = "DONE"
    /\ outcomes[e] = "ASSESSED" <=>
         \E a \in Accounted : attempts[a].source /\ attempts[a].event = e
    /\ outbox[e] = "DONE" /\ outcomes[e] = "NONE" =>
         \E a \in Committed(Canonical) \ Accounted :
           attempts[a].source /\ attempts[a].event = e

(* The journal's unresolved attempt and the settings' active pointer never *)
(* name two different attempts, although a person abandons through the     *)
(* journal and two runners, or a restarted one, share the case.  One that  *)
(* was completed through the journal keeps the pointer, so that it is      *)
(* never taken for one that dispatch completed: none of it is recorded.    *)
PointerMatchesJournal ==
  /\ Outside = {} => \A a \in HeldOf(Canonical) : active = a
  /\ active # NULL =>
       /\ admission[active] # NoAdmission
       /\ numeric # active /\ health # active
       /\ attempts[active].source => outcomes[attempts[active].event] = "NONE"

(* While an invocation is out, nothing its completion relies on can move:  *)
(* the baselines are those it was admitted with, its event is pending and  *)
(* without an outcome, its due checks are unhandled.  So a paid answer is  *)
(* not lost to the dispatcher's own races or to a key collision.           *)
AdmissionStaysValid ==
  \A a \in Attempts : active = a /\ attempts[a].status = "RESERVED" =>
    /\ numeric = admission[a].numeric /\ health = admission[a].health
    /\ attempts[a].source => /\ outbox[attempts[a].event] = "PENDING"
                             /\ outcomes[attempts[a].event] = "NONE"
    /\ admission[a].due \cap handled = {}

(* A due check, a task revision at its time, is delivered once.  It is     *)
(* handled exactly when an answer dispatch recorded was asked about it,    *)
(* and no two committed invocations were, the one completed through the    *)
(* journal included.                                                       *)
DueChecksHandledOnce ==
  LET Done == {a \in Committed(Canonical) : admission[a] # NoAdmission}
  IN /\ handled = UNION {admission[a].due : a \in Accounted}
     /\ \A a, b \in Done : a # b => admission[a].due \cap admission[b].due = {}

(* No interleaving saves a settings row that could not be read back: its   *)
(* counters are the rows they stand for, and the checks a DispatchStatus   *)
(* makes of it pass, all but the one on the status of the active attempt.  *)
StatusReadable ==
  /\ counts.history = Cardinality({e \in Events : outcomes[e] = "HISTORY"})
  /\ counts.suppressed = Cardinality({e \in Events : outcomes[e] = "SUPPRESSED"})
  /\ counts.assessed = Cardinality(Accounted)
  /\ (numeric = NULL) = (health = NULL)
  /\ (counts.assessed > 0) = (numeric # NULL)
  /\ counts.suppressed > 0 => counts.assessed > 0
  /\ initial = NULL => counts.history = 0 /\ counts.assessed = 0 /\ active = NULL
  /\ initial # NULL /\ counts.assessed = 0 => active # NULL

(* Evidence that corrects something a decision was made on is never filed  *)
(* as routine, however the baseline, the reviews and the queue moved       *)
(* between the decision and the correction.                                *)
CorrectionsReviewed ==
  \A e, p \in Events :
    Supersedes(e, p) /\ (\E a \in Committed(Canonical) \ Outside : attempts[a].event = p)
      => outcomes[e] \notin {"SUPPRESSED", "HISTORY"}

(* The next event in line can always be compared with the baseline or is   *)
(* late: evaluate_attention never raises on it and blocks the queue.       *)
QueueNeverIncomparable ==
  Bound /\ HeldOf(Canonical) = {} /\ active = NULL =>
    \A e \in Events : Candidate(e) => Judged(e, Basis)

(* The numeric baseline only moves to later evidence; a late correction    *)
(* does not drag the main comparison back.                                 *)
BaselineForward ==
  [][numeric # NULL /\ numeric' # numeric =>
       Before(attempts[numeric].event, attempts[numeric'].event)]_vars

(* DispatchStatus refuses an active attempt that is neither RESERVED, nor  *)
(* FAILED, nor STALE (dispatch_types.py:138-144).  One completed through   *)
(* the journal is refused on purpose, and is left out.                     *)
ActivePointsAtHeld ==
  active # NULL /\ active \notin Bypassed => attempts[active].status \in Held

----------------------------------------------------------------------------
(* Progress.  A runner that is restarted whenever its bounded run ends     *)
(* keeps preparing, and a call in flight comes back, fails or is lost;     *)
(* nothing is assumed of people, polls, or direct users of the journal.    *)
Return(r) == Conclude(r) \/ FailCheck(r) \/ Lose(r)
Fairness == \A r \in Runners : WF_vars(Prepare(r)) /\ WF_vars(Return(r))
FairSpec == Spec /\ Fairness

InHand(a) == \E r \in Runners : runner[r] # Idle /\ runner[r].attempt = a

(* Only a person can move the case on.  Once the active attempt is         *)
(* abandoned, or completed through the journal, dispatch refuses the case  *)
(* for ever.                                                               *)
NeedsPerson ==
  \/ Outside # {}
  \/ \E a \in HeldOf(Canonical) : ~InHand(a)
  \/ active # NULL /\ attempts[active].status \in {"ABANDONED", "COMMITTED"}

Exhausted == used[Profile[Canonical]] >= Limit[Profile[Canonical]]

(* Evidence that arrives while the watch is activated does not wait for    *)
(* ever behind other evidence, rechecks or suppressed updates: it is       *)
(* disposed of, unless the case visibly waits for a person or the          *)
(* installation has no invocations left.                                   *)
EvidenceDisposed ==
  \A e \in Events :
    activated /\ outbox[e] = "PENDING" ~> outbox[e] # "PENDING" \/ NeedsPerson \/ Exhausted

(* Dispatch implements its promise.  The open decision is the unresolved   *)
(* attempt of the canonical case; a failed, stale or lost one stays open.  *)
OpenDecision ==
  IF HeldOf(Canonical) = {} THEN NULL
  ELSE LET a == CHOOSE x \in HeldOf(Canonical) : TRUE
       IN [evidence |-> attempts[a].event, answers |-> attempts[a].source,
           plans |-> attempts[a].caseRev]

Promise == INSTANCE EvidenceDecisions WITH
  Evidence <- Events, Nothing <- NULL, disposition <- outbox,
  started <- initial # NULL, open <- OpenDecision, plans <- caseRev[Canonical]

(* Every step of polls, people, runners, crashes and the journal is a step *)
(* of the promise or none, while no invocation is reserved but by dispatch *)
(* (Direct = {}): an answer applied through the journal keeps it as well.  *)
KeepsPromise == Promise!Spec
============================================================================
