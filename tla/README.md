# Watershed Memory: TLA+ models and proofs

Watershed Memory watches public readings of a burned watershed, seals them into
events, asks a language model what to review, and lets people decide. This
directory holds TLA+ models of its Python and JavaScript code, the TLC
configurations that check them, and proofs checked by TLAPS. Paths below are
relative to `src/`; `current/` and `watch/` are short for
`watershed_memory/current/` and `watershed_memory/watch/`.

## 1. Inventory

Everything the system remembers lives in SQLite files. A store opens a
connection per operation, takes the write lock with `BEGIN IMMEDIATE`, reads,
checks, writes and commits; an exception rolls everything back. So one
transaction is one action in the models, and the interesting interleavings are
those between transactions: processes (a watcher, one or more dispatch runners,
the web server, scripts), threads of the server, and browser tabs.

| | Component | State | Operations |
|---|---|---|---|
| A | Historical replay service: `service.py`, `planning.py`, `budget.py`, `persistent_budget.py`, `api.py`, `public_http.py` | sessions, requests (receipts), claims, live_budgets, hits of the burst window | create, advance (claim, plan, commit), respond, plan within a budget, allowed |
| B | Continuous watch: `watch/*.py` | monitors, leases, observation versions, dirty intervals, watch_events, watch_outbox | register, acquire_poll, commit_poll (ingest, seal), fail_poll, runner tick and run |
| C | Current-work ledger: `current/case_store.py`, `case_records.py`, `case_types.py` | current_cases (revision, updated_at), current_reviews, review revisions, evidence links, receipts | register, stage_review, link_evidence, act |
| D | Delivery journal: `current/delivery_store.py`, `tools.py`, `assessment_types.py` | delivery_attempts, delivery_allowance | reserve, commit, fail, abandon, release |
| E | Selective dispatch: `current/dispatch_store.py`, `dispatch_replay.py`, `dispatch_runner.py`, `attention.py`, `context.py` | dispatch_settings, dispatch_attempts, source outcomes, handled due checks | activate, prepare, finish, fail, runner tick and run |
| F | Field-work ledger: `current/field_store.py`, `field_actions.py`, `field_records.py`, `field_receipts.py`, `locations.py` | field plans, reports, evidence, verifications, their revisions and receipts; the registry of sites of a process | propose, decide, modify, report, correct, attach, verify |
| G | Field-aware dispatch (third context version): `current/field_dispatch_store.py`, `field_delivery_store.py`, `field_agent.py` | the tables of D and E plus context3_dispatch_settings, context3_attempts (pinned contexts), context3_agent_proposals | upgrade_to_v3, prepare, finish, fail |
| H | Desk and browser: `current/desk.py`, `http.py`, `static/current-state.mjs`, `static/field-state.mjs` | session storage of a tab; nothing on the server beyond C and F | snapshot, respond, begin, attempt, discard |

How they interact. B writes events and their outbox rows and counts them in
`monitors.pending_count`; E and D consume them by acknowledging transactions in
the same file. E calls D inside its own transaction (`_reserve`, `_commit`), and
D calls C inside that one (`_stage_review`, `_link_evidence`). The model runs
between two transactions of E, for minutes, with no lock held. People write C
(through H) and F at any time. Every write of C bumps the revision of its case,
which D compares at completion.

What is hard:

- an answer computed minutes ago meets a case that moved (D, E, G);
- events arrive late, corrected and superseded, while the baseline they are
  compared with was moved by earlier answers (E);
- three modules acknowledge from one queue, one counter and one outcome table;
- two runners, a restarted runner, a person reconciling, and direct users of the
  journal act on the same attempt;
- a process dies between a reservation that has been paid for and its answer;
- a tab loses a confirmation, reloads and retries while the first call is still
  on its way (H);
- leases and claims expire under a slow holder (A, B), backoffs and windows have
  boundaries (B);
- field work is a web of revisions that refer to each other, and an invocation
  pins part of it by reference while people go on working (F, G);
- processes run with different registries of approved sites (F, G);
- a case changes from one version of dispatch to another between invocations (G).

`PROJECT.json` lists each of these as a hazard at its line, with the properties
that would catch it.

Correctness, per component: A a request is applied once, a turn that lost its
claim never commits, the allowance is never exceeded; B an expired lease never
commits, nothing between two polls is skipped, revisions form a chain; C one
open review per kind, complete and immutable revision history, one revision per
operation; D one unresolved attempt per case, exact allowance, answers applied
only to the case they were made on, events acknowledged once; E readable and
exact settings, admissions that stay valid, due checks delivered once,
corrections never filed as routine, evidence disposed of in the end; F parents
and windows respected, verification of the exact revision reported; G the same
as D and E across the upgrade; H a confirmed response is saved, a refused one is
not, a pending one is never forgotten.

## 2. The modules

```
SourceQueue ── CaseLedger ── Delivery ── Dispatch ──(refines)── EvidenceDecisions
     │              │                          └───┐
     └── Watch      ├── FieldWork ────────────── FieldDispatch
                    └── DeskResponse
CaseService

SourceProofs ── LedgerProofs ── DispatchProofs ───┐
     │               ├── FieldWorkProofs ── FieldDispatchProofs
     └── WatchProofs └── DeskResponseProofs
CaseServiceProofs
```

**SourceQueue** is the part of B that D and E see: `outbox[e]` is
`watch_outbox.status` (`"NONE"`: not sealed yet), `pendingCount` is
`monitors.pending_count`. `SealEvents` is what a committed poll leaves there: any
set of next revisions of any intervals, since readings are published late. An
event is `<<interval, revision>>`; `supersedes_event_id` is always the
immediately preceding revision. `Acknowledge` is the pair of guarded UPDATEs.

**Watch** is the rest of B, for one monitor. A reading is named by the moment it
was observed at; `source` is what the provider shows, `current` what
`observations_current` and its version hold, `members` the `event_members` of
each sealed event. `AcquirePoll` takes the lease row and the window;
`Fetch` reads the window while no lock is held; `CommitPoll` is the whole
transaction: guard, `ingest` (`After`, `Marked`), `seal_events` (`Closed`,
`ToSeal`, through the same `SealEvents` as every other module uses), the cursor,
the next poll and the lease. `Conflict` is that transaction rolled back, after
which the runner calls `fail_poll` in another one; `RejectBatch` is
`validate_batch` refusing a publication time more than 60 s past the admission.
A time used in a transaction was read before it, so it is any time between the
process's last reading and now. The readings in `Erratic` may change without a
newer publication time.

**CaseLedger** is C. `StageReview`, `LinkEvidence` and `Act` are the three
transactions, with the checks of the code in their guards: an unused request id,
the expected case revision (or, for `Act`, the review's own revision), a time not
before the case's, an active review, a permitted transition, a future check
time. A receipt and the immutable revision row are written by the same
transaction and stand in one record. Calls that raise and repeated calls that
return a saved receipt change nothing and are not actions.

**Delivery** is D. An attempt records the case revision and the plans it showed
the agent. The agent is every answer that `validate_assessment` accepts on that
snapshot: for each kind a proposal, the continuation of the review shown, or
nothing. `Complete` stages the decisions, acknowledges the event and settles the
attempt in one action; `KeepStale` only settles. `Reserve` and the rest are also
composed directly into `DeliverySpec`, the journal without a dispatcher.

**Dispatch** is E on top of D. `Suppress` and `Admit` are the two outcomes of
`prepare` that write; `Admit` includes the bootstrap that files the earlier
backlog as history. The runner's program counter separates `prepare`, the model
call, and `finish` or `fail`; `fail` is two transactions (`FailCheck`,
`FailWrite`) because it is in the code. `Lose` is a runner that dies, or that reports
OUTCOME_UNKNOWN because `finish` raised. `Surroundings` is what goes on around
dispatch: polls, people, and abandoning. `JournalCalls` are the public operations of
the journal used directly, on an attempt reserved there (`Direct`) or on one that
dispatch admitted: `commit` takes any reserved attempt, and dispatch records nothing
of it. The first kind is `Outside`, and every operation of dispatch then refuses the
case (`Bound`); the second is `Bypassed`: the pointer stays at a committed attempt,
and `prepare` and `finish` refuse from then on (`current/dispatch_store.py:239-240` and
`382-384`, and `tests/test_current_dispatch_edges.py:56-64`). `Accounted` are the
committed invocations that are neither. A saved context is
named by the attempt that captured it. Which relation an event has to the
baseline (comparable, late, correcting, none) is computed as in
`compare_intervals` and `evaluate_admission`; whether measured values or source
health differ enough is a free choice wherever no other reason decides.

**EvidenceDecisions** is the promise: evidence arrives, each piece ends as
history, set aside or done, one decision at a time is open, and it is applied
with its acknowledgement and only to the plans it was made on. Dispatch
implements it under `Promise` (the property `KeepsPromise`).

**DeskResponse** is H's response machine over C: a tab that saves before it
sends, lost and delayed calls, retries of the same bytes, reloads, the route
that stamps the time on arrival and runs when it gets the database, and the
mapping of errors to 400, 409 and 503.

**CaseService** is A, which has a database of its own. A caller is one running
call of `advance` or `respond`; its program counter stands between the
transactions of that call, and it keeps what it read: `revision` and the copy of
the whole case. `Claim` is the first transaction of `advance`, `ReadCase` the
read in `_advance_claimed`, `Spend` the transaction of
`PersistentBudgetPlanner.plan`, `CommitTurn` that of `_commit`, `Release` the
`finally` clause. A claim holds the ticks it has left, and `Tick` takes one from
every claim in force. A plan that `finish` accepts addresses exactly the required
kinds, each on the unfinished review of the kind or a new one, so its effect
(`AfterTurn`) is determined and only its wording is free.

**FieldWork** is F over C. A plan has `rows`, its immutable revisions, and
`reports`, the revisions of its one report with their evidence and
verifications; `work` is `field_receipts`. `Mutate` is what the seven operations
share: the case revision the person saw, the clock, the new case revision, the
receipt and the plan's last activity. `Verified` and `ResultOf` are what `result`
reads, `Replay` is `restore`: it rebuilds a receipt from the rows it refers to.
A registry is the site configuration of a process; every operation may run with
any of them.

**FieldDispatch** is G over E and F. `upgraded`, `pins` and `proposals` are the
three tables it adds. `Upgrade` is `upgrade_to_v3`; `BoundV3` the checks
`_settings_v3` makes before every operation. `PrepareV3` admits as Dispatch does and
pins `Activities`, what `_load_field_context` selects, with the receipt and the review
revision that say what was shown; `ReadBack` is `restore_reserved`, which `finish`
and `fail` need to succeed. `FinishV3` applies the source decisions (`StageWork`,
shared with Delivery), the proposed plan, the acknowledgement and the records of
dispatch (`RecordAssessed`, shared with Dispatch) in one transaction;
`FinishStaleV3` keeps the answer if the case, the site or the window has moved.
Before the upgrade the actions of Dispatch run as they are, but for the check
that the case has no field work (`LegacyAllowed`).

**SourceProofs** and **LedgerProofs** prove lemmas about the operators of the
queue and of the ledger, **DispatchProofs** (about Dispatch and, first, about
Delivery by itself), **WatchProofs**, **CaseServiceProofs**, **FieldWorkProofs**,
**FieldDispatchProofs** and **DeskResponseProofs** theorems about the modules they
are named after. **MC...** modules give the
constants their values for TLC. Definitions marked `seeded error` are plausible
bugs; each shows that some property would notice it.

## 3. What the runs check

| Run | Question | Bounds |
|---|---|---|
| `delivery` | two cases sharing an allowance of 2; people, scripts and direct invocations | 2 attempts, 2 kinds of review, 1 event, 1 human request id, clock frozen |
| `dispatch` | queue, counters, settings row, baseline and corrections | 2 intervals x 3 revisions, 3 invocations, 1 runner, clock frozen |
| `dispatch_people` | due checks and admissions while people edit and time passes | 2 intervals x 1 revision, 3 invocations, times 0..2, horizon 1 |
| `dispatch_races` | two runners, an invocation made outside dispatch, and journal calls on those dispatch admitted | 2 x 2 events, 2 dispatched and 1 direct attempt |
| `dispatch_promise` | refinement of EvidenceDecisions and disposal of evidence | 2 x 1 events, 2 invocations, times 0..1, no symmetry |
| `dispatch_abandoned` | the settings row after the active invocation is abandoned: refused by `DispatchStatus` (a finding) | 2 x 1 events, 2 invocations |
| `watch` | two processes on one source, one moment erratic | 2 moments in 2 intervals x 2 revisions, times 0..4, window 3, overlap 1, lease 2 |
| `desk` | two tabs, three calls, two responses, a script | 1 event, times 0..1 |
| `service` | turns, responses, duplicates, expiry and death on one replay session | 1 session, 2 windows requiring 1 and 2 kinds, 3 requests, 3 callers, claims of 1 tick, 3 paid turns |
| `field` | plans, reports, corrections, evidence and verification, with registries that differ | 1 review, 6 field operations, 3 registries of one site (approved, withdrawn, redefined), 2 references, times 0..1 |
| `field_dispatch` | the upgrade, pinned field contexts, agent plans and the shared case revision | 1 interval x 2 revisions, 2 invocations, 3 field operations, 2 registries (approved, withdrawn), clock frozen |
| `desk_rejected` | whether a refusal is definite: it is not (a finding) | as `desk` |

Why these bounds are enough to be interesting. Three revisions of two intervals
give every relation `evaluate_admission` distinguishes, and a correction of a
correction. Three attempts give a first (bootstrap) assessment, a second that
moves or does not move the baseline, and a third on top of it, one of which may
fail, go stale or be abandoned. A check time needs two clock steps to lie ahead,
pass and be handled. Two runners and one outside attempt are all the parties
whose transactions can alternate on one pointer. Three calls allow a lost one,
its retry and one of another tab. Where the clock is frozen, time only adds
guards (`t >= updated_at`) that cannot enable anything. Attempts, requests,
runners and tabs are symmetric in every safety run; the run with liveness uses
no symmetry. No run checks for deadlock: the system stops when its bounded
attempts, requests, events and clock are used up.

In `service` three callers are a turn, the turn that takes its claim over and a
response; claims of one tick expire in one step, and three turns are more than the
two windows, so that the allowance is also spent on turns that fail. Six field
operations reach a correction of a verified report that is verified again, or a
second plan after a reported one. In `field_dispatch` three are a plan that is
proposed, approved and reported before an invocation that follows it up; two
invocations fall on either side of the upgrade or both after it. Its clock stands
still, so an answer goes stale there through the case or a withdrawn site; a
window that ends while the answer is under way is in the model (`SiteStands`)
and was only reached in exploratory runs with two moments.

In `watch` time 4 is late enough for a lease to expire and be replaced twice, for
a window to hit its length limit after an outage, and for the scan to be more
than the overlap past the first moment; the second moment is in the next
interval, so that a window boundary falls between the two, and a sealed interval
can be corrected.

What they show that a test would hardly reach: `CorrectionsReviewed` and
`QueueNeverIncomparable` range over all orders of sealing, suppressing and
assessing six events; `AdmissionStaysValid` says a paid answer is lost only to a
person's change, never to a key that collides; `StatusReadable` and
`PointerMatchesJournal` hold through crashes at every point, and while others use the
journal directly. An answer given around dispatch is then never half recorded: its
event is done without an outcome (`OutcomesMatchOutbox`), it is missing from the
counters and from the handled checks alike (`StatusReadable`, `DueChecksHandledOnce`),
and, if dispatch had admitted it, the pointer keeps naming it, which is why nothing
later builds on it. `ConflictIsFinal`
holds although delayed copies of calls arrive at any time. `OverlapSuffices` says
that whatever is published within the overlap is stored, for every order of
publications, polls, failures and take-overs; `OnlyErraticConflicts` that the
persisted lease keeps older evidence from arriving after newer, since otherwise
a well-behaved source could be refused as conflicting; `SealedIsCurrent` that no
correction stays behind unsealed; `WholeOrNothing` that a poll is stored with
all of its window, or not at all.

`TurnUndisturbed` says that a claim protects what it was taken for, whoever
overstays an older one; `RequestsAppliedOnce` that whole-case writes from old
copies lose nothing. `FieldWorkReplays` follows every receipt through the rows
that later work adds; `VerifiedIsLatest` and `WorkFollowsApproval` relate what
people see of a result to the order in which people did things.
`EveryOperationCounted` ranges over the three modules that write the case, since
every staleness check rests on that number; `PinnedContextHolds` says that what
the agent was shown can be read back whatever people did since, and is still true
when its answer is applied; `LegacyEndsAtUpgrade` that no answer given without
the field work is applied to a case that has any, in either version.

Findings. Two runs are expected to fail. `dispatch_abandoned`: `abandon` leaves
`active_attempt_id` behind, and `DispatchStatus` (`current/dispatch_types.py:138-144`)
refuses to read such a row, so the case can neither be shown nor continued.
`desk_rejected`: `docs/CURRENT_DESK.md:42` calls a rejection definite, but a
delayed copy of the same call, stamped earlier, can still be applied.

## 4. Fairness

Only `FairSpec` of Dispatch assumes any: weak fairness of `Prepare(r)` (a runner
whose bounded run ends is started again, and `run` calls `tick` in a loop) and
of `Return(r)` (a model call has a time limit; it returns, fails, or the process
is gone). Nothing is assumed of people, of polls, or of direct users. So
`EvidenceDisposed` excludes the cases that only a person can move on
(`NeedsPerson`: an invocation made outside dispatch, one that no runner has in hand,
an active one that was abandoned or completed through the journal) and an exhausted
allowance.

## 5. What is proved

TLAPS checks these for every value of the constants that satisfies the named
assumptions: finitely many intervals, attempts, requests, kinds and cases, a
`NULL` that is none of them nor any of the records it stands in for, the agent's request ids `<<attempt, kind>>` among
the request ids, one canonical case, and a profile and a limit per case and
mode. The code justifies them: ids are strings, tables are finite, and
`delivery_store.py` stages decisions under ids made of the attempt's.

`DispatchProofs`, about `DeliverySpec`: `DeliveryTypes`, `OneUnresolvedHolds`,
`SnapshotCurrentHolds`, `AllowanceExactHolds`, `SourceAcknowledgedOnceHolds`.
Types are inductive by themselves. `SnapshotCurrent` follows from a fact about
steps, `LedgerMoves`: no plan of a case changes in a step that leaves the
revision of the case alone. `SourceAcknowledgedOnce` needs
`SourceIsCanonical` beside it (only the canonical case answers for the source),
and the counting lemmas about one attempt joining a finite set.
`OneActivePerKindHolds` and `RevisionRowsHold` are about the ledger under all its
writers; their invariants and one lemma per operation are in `LedgerProofs`.
`ActiveOnce` says "at most one open review of a kind" without cardinalities.
`RowsComplete` strengthens the property it is for: the rows of a review are as many
as its revision and have exactly the revisions `1 .. rev`, so a step that adds a row
numbered one higher keeps both; the first one is the receipt under the review's
own id; and a review exists just when its revision is positive. An answer that
opens several reviews at once is the step `Stages`: the reviews proposed have
different kinds, each without an open review, and nothing else is touched.

The same module, about `Spec` of Dispatch: `DispatchTypes`,
`DispatchOneUnresolved`, `DispatchAllowanceExact`, `PointerMatchesJournalHolds`,
`OutcomesMatchOutboxHolds`, `AdmissionStaysValidHolds`, `PendingCountExactHolds`.
The inductive invariant is `DispatchInv`, the conjunction of the types, `PointerInv` and `OutboxInv`. A
pointer that matches the journal is not inductive: an attempt reserved outside
dispatch could be the one it points at, so `PointerInv` adds that admitted
attempts belong to the case and are never direct (`AdmittedHere`), that the
active one was admitted (`ActiveAdmitted`), that an admitted unresolved one
is the active one (`HeldIsActive`), and that the baselines are committed and no
longer active (`BaselinesSettled`), so that completing the active one through the
journal moves no baseline. `OutboxInv` says where outcomes come from: those set aside
are in the outbox (`OutcomesFiled`), those assessed are of an answer that dispatch
recorded (`AssessedRecorded`), an event that is done was answered by a committed
invocation of the case (`DoneAnswered`), and that of the active one has no outcome
yet, even when it is done (`ActiveUndecided`). `SourceIsCanonical` makes an answer to
a source event given around dispatch show up among those of the case.
`AdmissionStaysValid` is inductive together with `DispatchInv` and
`OneUnresolved`: the unresolved attempt blocks every other one that could
acknowledge its event. `PendingCountExact` reduces every step to one of three
(`QueueStep`: the queue is left alone, events are sealed, or pending ones are
acknowledged) and uses what `SourceProofs` says of the last two (`SealCounts`,
`AcknowledgeCounts`).

The rest of dispatch rests on what a step means to it (`DispatchMoves`): an event
is set aside, an invocation is opened, its answer is recorded, its answer is applied
through the journal (`Bypasses`), or something happens around dispatch that no
admitted invocation notices but for being released. Every action is one of the five,
and each invariant is kept by each of the five.
`StatusReadableHolds` needs that the counters are their rows (`CountsInv`) and
which rows there can be before the first admission and the first baseline
(`StartInv`). `DueChecksHandledOnceHolds` is inductive as it stands beside
`AdmissionStaysValid`. `BaselineForwardHolds` needs that every admission computed
its move against a baseline that was assessed (`AdmissionInv`) and that the
baseline is the latest of what was assessed (`BasisInv`), or a move computed
before the baseline changed could drag it back.
`CorrectionsReviewedHolds` follows because a revision set aside neither
corrects the baseline, nor a review, nor is late (`AsideCorrectsNothing`).
`QueueNeverIncomparableHolds` needs the order of the queue (`QueueInv`): the
revisions of an interval are sealed one after another, and whatever is later than
one that waits, than the baseline or than the event in hand still waits, as long as
nothing was completed behind dispatch's back (`Undisturbed`); if something was, the
queue is not looked at again. For the same reason `CorrectionsReviewed` is proved of
everything decisions may come to rest on, the invocation in hand included (`Relied`).
`KeepsPromiseHolds` is the refinement of `EvidenceDecisions`, every initial state
and every step mapped, with `Direct = {}`: the promise is about what dispatch
decides, and an invocation made around it is none of its decisions. An answer to
one of its own that is applied through the journal keeps the promise like any other.

`WatchProofs`, about `Spec` of Watch: `WatchTypes`, `OverlapSufficesHolds`,
`OnlyErraticConflictsHolds`, `WholeOrNothingHolds`, `WatchPendingCount`,
`SealedIsCurrentHolds`. Assumed are
a clock that starts in the naturals, positive widths, polls, leases and overlap,
and a window longer than the overlap (`WatchAssumption`; the checks of the
settings in `watch/store.py` give these), and a `Nothing` that is none of
the records it stands in for (`NothingAssumption`). `OverlapSuffices` speaks of the
store alone, so it is not inductive: whether a commit keeps it depends on what
the process fetched, minutes before, under which lease. `WatchInv` adds that. The
window of the process that holds the lease still meets the scan (`ScopeOK`), its
batch holds everything published before the lease that has not changed since
(`BatchOK`), neither batch nor store is ahead of the source (`StoredOK`), and the
holder's batch is not behind the store (`NewerOK`). The last is what the
persisted lease is for: it fails for a process that was replaced, whose commit the
guard refuses. `OnlyErraticConflicts` follows from `NewerOK`, `WholeOrNothing` from
the types. `SealedIsCurrent` speaks of intervals the scan has passed, and what
keeps it is said of all the others (`SealInv`): an interval that is not dirty is up to
date, even while it is open, and one whose readings changed stays dirty until
its end is scanned. Revisions are numbered without gaps (`Consecutive`), so that a
new one is the latest.

`CaseServiceProofs`, about `ServiceSpec`: `ServiceTypes`, `TurnUndisturbedHolds`,
`TurnsPaidHolds`, `RequestsAppliedOnceHolds`, `EvidenceCarriedOnceHolds`. Assumed
are finitely many sessions, requests and callers, a finite sequence of windows, and a
positive claim life and allowance (`ServiceAssumption`). `ServiceInv` adds to the types what a call
knows between its transactions (`CallOK`): its revision is not ahead of the saved
one, and where the two are equal its copy is the saved case. This is why writing
the whole case back from a copy, guarded by the revision, loses nothing, and all
the rest builds on it. `TurnUndisturbed` needs `HolderCurrent`, that a call that
holds its claim has the saved revision; `TurnsPaid` is inductive with the types
once the saved turns and the running ones are counted as disjoint parts of what
was spent. `AppliedOnce` and `CarriedOnce` are each their property with the facts
that keep it inductive: that a session not created yet has answered nothing;
that the id of a review names the window that opened it, which is never ahead of
the windows processed, and that a kind has one unfinished review at most.

`FieldWorkProofs`, about `FieldSpec`: `FieldInvHolds`, `SavedWorkIsKept`,
`SitesKeepMeaningHolds`, `WorkFollowsApprovalHolds`, `VerifiedIsLatestHolds`,
`FieldWorkReplaysHolds`. The properties speak of all the rows and receipts of all
plans, but an operation writes one plan and one receipt. So the proof has two
halves. Operation by operation, the plan it hands to `Mutate` only adds to what
was saved, is at a site that was checked, and is `Sound` by itself (`FieldMove`):
reported exactly when it has a report, each revision of the report about the row
before it, which a person approved. And from what is saved alone (`Saves`) the
invariant is kept: no review has two open plans, receipts name rows as they are
saved (`ReceiptsKept`), and the last receipt of a plan shows it as it is
(`LastReceipts`). `FieldWorkReplays` says that a receipt restored from the rows it
names is what was said first, which needs both of these and that nothing saved
is ever changed: that is `SavedWorkIsKept`, a theorem of its own.

`FieldDispatchProofs`, about `UpgradeSpec`: `FieldDispatchTypes`,
`LegacyEndsAtUpgradeHolds`, `EveryOperationCountedHolds`, `PinnedContextHoldsAlways`,
`AgentPlansProposedHolds`, and `DispatchSurvivesFieldWork` and
`FieldWorkSurvivesDispatch`, which state what Dispatch and FieldWork promise of
themselves about the two together. Assumed beside the above are at most as many kinds
as plans are shown, so that every blocking plan is among them, no direct invocations, and
a `NULL` that is no reference (`FieldDispatchAssumption`). Every step is one of seven moves
(`FieldDispatchMoves`): nothing is saved on the case, a person acts on a review, a
person works in the field, the upgrade, an invocation begins, one ends without
effect, an answer is applied. The invariants of the two halves survive each
(`PartsInv`). Dispatch meets a step that is new to it, an answer after which the
revision of the case is one higher for the plan; field work meets a plan written at a
revision in the middle of those the answer takes, which is why `Recorded` lets the
case move beyond the revision of the receipt.

Of the two together: an invocation that was not shown the field work is older than all
of it (`VersionInv`), for it was admitted on a case without plans and at a revision
no receipt is below. `EveryOperationCounted` is inductive move by move, and an answer
that decided n things and proposed a plan writes n receipts of reviews and one of field
work, is committed itself, and moves the case by n + 2 (`AnswerWrites`: exactly what
it decided gets receipts, under its own ids). `PinnedContextHolds` joins the halves: nothing saved changes, so what could be
restored can be; and in a step that leaves the case revision alone, plans, reviews and
receipts of field work are the same (`StandsStill`), so what is shown is the same.
`AgentPlansProposed` needs that an invocation has written nothing before it is
committed (`WrittenInv`), that only an answer writes in the agent's name
(`PeopleSign`, `OthersWrite`) and that two invocations never propose one plan
(`OwnProposals`).

`DeskResponseProofs`, about `Spec` of DeskResponse: `DeskInvHolds`, `DeskTypes`,
`ConfirmedIsSavedHolds`, `ConflictIsFinalHolds`, `NothingForgottenHolds`. Assumed are
at least one case, and response ids among the request ids (`DeskAssumption`). A promise to a person is about the ledger, but is made from an
answer that a call got some time ago. `DeskInv` closes the gap: a request id
belongs to one response of one tab (`OwnIds`), what is told is what some call of
the response got (`ToldByCalls`), a receipt under the id of a response says what
the response says (`ReceiptsOfResponses`), what was seen of a review is no later
than what it is (`SeenBefore`), and answers stay true (`AnswersHold`). The last is
inductive because the ledger only grows (`Grows`): receipts are kept, revisions
only rise, so what conflicted once conflicts for ever.

## 6. What is only model-checked

`EvidenceDisposed`, for want of a proof calculus for fairness: that evidence is
disposed of in the end is checked on the instance of `dispatch_promise`, the steps
it is made of are what `KeepsPromise` proves. The two runs that are expected to fail. That the monitor catches up after an outage or backoff
is not stated: it would need a clock without bound.

## 7. What is not modelled

Measured values and thresholds (a free choice in Dispatch), contents of notes,
reasons and wording, encodings and digests, the model transports, source health
reconstruction, read-only projections of the desk, deployment scripts and demo
data. Two guards of the ledger compare an event's interval with the clock (an
interval must have ended); events are sealed only after their interval ends, so
they hold whenever an event exists. A call that raises and rolls back changes
nothing and is not an action, except where what the caller does next matters
(`Lose`, and the replies of the desk's route).

Field work leaves out the checks of one input (roles, activities, kinds of
evidence, the simulation flag), and a plan's window is only its end. Nothing in
the code opens a RESULT_VERIFICATION review, so no model has one. In
FieldDispatch a process whose registry no longer holds a site revision that an
invocation was shown cannot read that invocation back (`Restorable`): neither
`finish` nor `fail` settles it from there, and it stays reserved until a process
that has the revision, or a person who abandons it, acts. Nobody uses the journal
directly there but to abandon: what direct commits, failures and reservations do to
dispatch is modelled in Dispatch, and beside field work they are left out.
The burst limiter of the public boundary is a sequential list behind one lock and
is left to its unit tests.

## 8. Plan

Next: that field-aware dispatch implements `EvidenceDecisions` as Dispatch does,
from `FieldDispatchMoves` and the steps of `KeepsPromiseHolds`; that the baselines
only move to later evidence there too (`BaselineForward`). Then the thresholds of
`attention.py` as operators against a reference definition.
