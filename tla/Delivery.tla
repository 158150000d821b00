------------------------------ MODULE Delivery ------------------------------
(***************************************************************************)
(* The delivery journal (current/delivery_store.py): one paid invocation   *)
(* of the agent is reserved, then committed together with the work it      *)
(* proposes and the acknowledgement of its source event, or held as        *)
(* failed or stale, or abandoned by a person.  Reservations spend an       *)
(* installation-wide allowance that is never refunded.                     *)
(*                                                                         *)
(* An attempt is named by its request id (unique per case in the code);    *)
(* its decisions are staged under the request ids <<attempt, kind>>.       *)
(***************************************************************************)
EXTENDS CaseLedger

CONSTANTS
  Attempts,     \* request ids of invocations
  Canonical,    \* the case the monitor names as its own
  Modes,        \* SCRIPTED_SDK, STRANDS_CURRENT
  Profile,      \* the mode a case is invoked in
  Limit         \* delivery_allowance: the limit of each mode

ASSUME DeliveryAssumption ==
  /\ IsFiniteSet(Attempts)
  /\ Attempts \X Kinds \subseteq Requests
  /\ NULL \notin Attempts \cup Events
  /\ Canonical \in Cases
  /\ Profile \in [Cases -> Modes]
  /\ Limit \in [Modes -> Nat]

VARIABLES
  attempts,     \* delivery_attempts
  used          \* delivery_allowance: the counter of each mode

journalVars == <<attempts, used>>

HeldButFailed == {"RESERVED", "STALE"}              \* seeded error
Held == {"RESERVED", "FAILED", "STALE"}
AttemptStatuses == {"RESERVED", "FAILED", "STALE", "COMMITTED", "ABANDONED"}

(* review_refs_json: the plans the agent was shown. *)
ReviewRef == [task : Requests, kind : Kinds, rev : Nat, due : Dues]
Attempt == [status : AttemptStatuses, case : Cases, event : Events,
            source : BOOLEAN, caseRev : Nat, refs : SUBSET ReviewRef, at : Times]
NoAttempt == [status |-> "NONE", case |-> NULL, event |-> NULL,
              source |-> FALSE, caseRev |-> 0, refs |-> {}, at |-> 0]

JournalTypeOK ==
  /\ attempts \in [Attempts -> Attempt \cup {NoAttempt}]
  /\ used \in [Modes -> Nat]

JournalInit ==
  /\ attempts = [a \in Attempts |-> NoAttempt]
  /\ used = [m \in Modes |-> 0]

AttemptsOf(c) == {a \in Attempts : attempts[a].case = c}
HeldOf(c) == {a \in AttemptsOf(c) : attempts[a].status \in Held}
Committed(c) == {a \in AttemptsOf(c) : attempts[a].status = "COMMITTED"}

SnapshotOfRequests(c) ==                            \* seeded error: not only the active ones
  {[task |-> q, kind |-> reviews[c][q].kind, rev |-> reviews[c][q].rev,
    due |-> reviews[c][q].due] : q \in Requests}

(* The active plans of a case, as a context shows them to the agent. *)
Snapshot(c) ==
  {[task |-> q, kind |-> reviews[c][q].kind, rev |-> reviews[c][q].rev,
    due |-> reviews[c][q].due] : q \in ActiveOf(c)}

----------------------------------------------------------------------------
(* _reserve, inside the caller's transaction.  The caller says what the    *)
(* outbox row of the event is at that point of its transaction.            *)
ReserveRow(a, c, e, source, t) ==
  /\ attempts[a] = NoAttempt
  /\ HeldOf(c) = {}
  /\ t >= caseTime[c]
  /\ source => c = Canonical
  /\ used[Profile[c]] < Limit[Profile[c]]
  /\ used' = [used EXCEPT ![Profile[c]] = @ + 1]
  /\ attempts' = [attempts EXCEPT ![a] =
       [status |-> "RESERVED", case |-> c, event |-> e, source |-> source,
        caseRev |-> caseRev[c], refs |-> Snapshot(c), at |-> t]]

Reserve(a, c, e, source, t) ==
  /\ e \in Sealed
  /\ source => outbox[e] = "PENDING"
  /\ ReserveRow(a, c, e, source, t)
  /\ UNCHANGED <<sourceVars, ledgerVars>>

(* What the agent may answer: per kind nothing, a proposal with a due      *)
(* time, or to continue the active review of that kind it was shown.       *)
Decisions ==
  [Kinds -> [what : {"PROPOSE"}, due : Dues]
              \cup [what : {"NONE", "CONTINUE"}, due : {NoDue}]]
Proposes(d, k) == d[k].what = "PROPOSE"
Continues(d, k) == d[k].what = "CONTINUE"

(* validate_assessment replays the agent's tools on the reserved context. *)
ValidAnswer(a, d) ==
  \A k \in Kinds :
    /\ Proposes(d, k) => /\ \A r \in attempts[a].refs : r.kind # k
                         /\ Future(d[k].due, attempts[a].at)
    /\ Continues(d, k) => \E r \in attempts[a].refs : r.kind = k

Target(a, k) == (CHOOSE r \in attempts[a].refs : r.kind = k).task

Decided(d) == {k \in Kinds : d[k].what # "NONE"}

(* The decisions staged one after another on the case: every one writes a  *)
(* receipt and links the source event.                                     *)
StageWork(a, d, t) ==
  LET c == attempts[a].case
      e == attempts[a].event
      Task(k) == IF Proposes(d, k) THEN <<a, k>> ELSE Target(a, k)
      Linked == {Task(k) : k \in Decided(d)}
      Proposed == {<<a, k>> : k \in {j \in Kinds : Proposes(d, j)}}
      Written == {<<a, k>> : k \in Decided(d)}
  IN /\ \A q \in Written : receipts[c][q] = NoReceipt
     /\ \A k \in Decided(d) :
          /\ Proposes(d, k) => ActiveOfKind(c, k) = {} /\ Future(d[k].due, t)
          /\ Continues(d, k) => Target(a, k) \in ActiveOf(c)
     /\ reviews' = [reviews EXCEPT ![c] =
          [q \in Requests |-> IF q \in Proposed THEN Proposal(q[2], d[q[2]].due) ELSE @[q]]]
     /\ links' = [links EXCEPT ![c] =
          [q \in Requests |-> IF q \in Linked THEN @[q] \cup {e} ELSE @[q]]]
     /\ receipts' = [receipts EXCEPT ![c] =
          [q \in Requests |->
             IF q \in Written
             THEN IF q \in Proposed
                  THEN ReceiptOf("STAGE", q, Proposal(q[2], d[q[2]].due))
                  ELSE ReceiptOf("LINK", Target(a, q[2]), reviews[c][Target(a, q[2])])
             ELSE @[q]]]

(* Each of them spends a case revision, and the invocation itself another. *)
StageDecisions(a, d, t) ==
  /\ StageWork(a, d, t)
  /\ Bump(attempts[a].case, Cardinality(Decided(d)) + 1, t)

MaySettle(a, t) == t >= attempts[a].at /\ t >= caseTime[attempts[a].case]

Settle(a, status, t) ==
  attempts' = [attempts EXCEPT ![a].status = status, ![a].at = t]

(* Has anything been saved on the case since the reservation? *)
AssumeUnchanged(a) == TRUE                          \* seeded error
CaseUnchanged(a) == caseRev[attempts[a].case] = attempts[a].caseRev

(* Only the canonical case's own delivery acknowledges the source. *)
AcknowledgeAlways(a) == TRUE                        \* seeded error
Acknowledges(a) == attempts[a].source

(* _commit of a valid answer on a case that changed meanwhile: the answer  *)
(* is kept for a person to read, and nothing of it is applied.             *)
KeepStale(a, d, t) ==
  /\ attempts[a].status = "RESERVED"
  /\ MaySettle(a, t)
  /\ ValidAnswer(a, d)
  /\ ~CaseUnchanged(a)
  /\ Settle(a, "STALE", t)
  /\ UNCHANGED <<used, sourceVars, ledgerVars>>

(* _commit on an unchanged case: the decisions, the acknowledgement of the *)
(* source and the attempt itself change in one transaction.                *)
Complete(a, d, t) ==
  /\ attempts[a].status = "RESERVED"
  /\ MaySettle(a, t)
  /\ ValidAnswer(a, d)
  /\ CaseUnchanged(a)
  /\ StageDecisions(a, d, t)
  /\ IF Acknowledges(a)
     THEN Acknowledge([e \in {attempts[a].event} |-> "DONE"])
     ELSE UNCHANGED sourceVars
  /\ Settle(a, "COMMITTED", t)
  /\ UNCHANGED used

Fail(a, t) ==
  /\ attempts[a].status = "RESERVED"
  /\ MaySettle(a, t)
  /\ Settle(a, "FAILED", t)
  /\ UNCHANGED <<used, sourceVars, ledgerVars>>

AbandonRefunding(a, t) ==                           \* seeded error
  /\ attempts[a].status \in Held
  /\ MaySettle(a, t)
  /\ Settle(a, "ABANDONED", t)
  /\ used' = [used EXCEPT ![Profile[attempts[a].case]] = @ - 1]
  /\ UNCHANGED <<sourceVars, ledgerVars>>

(* A person reconciles an unresolved invocation; nothing is refunded. *)
Abandon(a, t) ==
  /\ attempts[a].status \in Held
  /\ MaySettle(a, t)
  /\ Settle(a, "ABANDONED", t)
  /\ UNCHANGED <<used, sourceVars, ledgerVars>>

----------------------------------------------------------------------------
(* The journal used directly, without a dispatcher, by any case.  People   *)
(* act on the revision they last saw; the agent answers at any time.       *)
deliveryVars == <<sourceVars, ledgerVars, journalVars>>

DeliveryInit == SourceInit /\ LedgerInit /\ JournalInit

PersonActs(q, t) ==
  \E c \in Cases, action \in HumanActions, due \in Dues :
    \E task \in ActiveOf(c) :
      /\ Act(c, q, task, reviews[c][task].rev, action, due, t)
      /\ UNCHANGED <<sourceVars, journalVars>>

(* Seeding scripts and other callers of the ledger, on a case revision     *)
(* they read; a stale one is refused and changes nothing.                  *)
ScriptWrites(q, t) ==
  /\ \E c \in Cases, e \in Sealed :
       \/ \E k \in Kinds, due \in Dues : StageReview(c, q, caseRev[c], k, e, due, t)
       \/ \E task \in ActiveOf(c) : LinkEvidence(c, q, caseRev[c], task, e, t)
  /\ UNCHANGED <<sourceVars, journalVars>>

DeliveryNext ==
  \/ \E S \in SUBSET Sealable : SealEvents(S) /\ UNCHANGED <<ledgerVars, journalVars>>
  \/ \E q \in Requests \ (Attempts \X Kinds), t \in Times :
       PersonActs(q, t) \/ ScriptWrites(q, t)
  \/ \E a \in Attempts, t \in Times :
       \/ \E c \in Cases, e \in Events, source \in BOOLEAN : Reserve(a, c, e, source, t)
       \/ \E d \in Decisions : KeepStale(a, d, t) \/ Complete(a, d, t)
       \/ Fail(a, t)
       \/ Abandon(a, t)

DeliverySpec == DeliveryInit /\ [][DeliveryNext]_deliveryVars
----------------------------------------------------------------------------
DeliveryTypeOK == SourceTypeOK /\ LedgerTypeOK /\ JournalTypeOK

(* A case has at most one unresolved invocation, whatever the order of     *)
(* reservations, failures, stale answers and reconciliations.              *)
OneUnresolved ==
  \A a, b \in Attempts :
    /\ a # b
    /\ attempts[a].status \in {"RESERVED", "FAILED", "STALE"}
    /\ attempts[b].status \in {"RESERVED", "FAILED", "STALE"}
    => attempts[a].case # attempts[b].case

(* The allowance counts every invocation ever reserved, in every case that *)
(* shares it: no failure, restart or reconciliation gives one back.        *)
AllowanceExact ==
  \A m \in Modes :
    /\ used[m] = Cardinality({a \in Attempts : attempts[a] # NoAttempt
                                /\ Profile[attempts[a].case] = m})
    /\ used[m] <= Limit[m]

(* The case revision is a version stamp of the plans: while it equals the  *)
(* one an invocation reserved, the plans are those the agent was shown.    *)
SnapshotCurrent ==
  \A a \in Attempts : attempts[a].status = "RESERVED" =>
    LET c == attempts[a].case
    IN /\ attempts[a].caseRev <= caseRev[c]
       /\ attempts[a].caseRev = caseRev[c] => attempts[a].refs = Snapshot(c)

(* An event is acknowledged as DONE exactly when one source invocation of  *)
(* the canonical case committed for it, and never twice.                   *)
SourceAcknowledgedOnce ==
  \A e \in Events :
    Cardinality({a \in Committed(Canonical) : attempts[a].source /\ attempts[a].event = e})
      = (IF outbox[e] = "DONE" THEN 1 ELSE 0)
============================================================================
