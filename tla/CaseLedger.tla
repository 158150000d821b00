----------------------------- MODULE CaseLedger -----------------------------
(***************************************************************************)
(* The current-work ledger (current/case_store.py, case_records.py):       *)
(* reviews of a case, their immutable revision rows, evidence links and    *)
(* request receipts, under one case revision that every operation bumps.   *)
(* Every operation is one BEGIN IMMEDIATE transaction, hence one action.   *)
(*                                                                         *)
(* A review id is a fresh uuid; it is named here after the request that    *)
(* staged it.  A revision row is written together with each STAGE or HUMAN *)
(* receipt, with the same record, so the receipt stands for both.  A       *)
(* request whose id already has a receipt changes nothing (it gets the     *)
(* saved record or a conflict).                                            *)
(***************************************************************************)
EXTENDS SourceQueue

CONSTANTS
  Cases,
  Kinds,        \* kinds of review that can be drafted
  Requests,     \* request ids, and so the ids of the reviews they stage
  MaxTime,      \* bound on the callers' clocks
  Horizon,      \* the thirty days a new check may lie ahead
  NULL          \* SQL's NULL, and "no such row"

ASSUME LedgerAssumption ==
  /\ MaxTime \in Nat
  /\ Horizon \in Nat \ {0}
  /\ IsFiniteSet(Requests) /\ IsFiniteSet(Kinds) /\ IsFiniteSet(Cases)
  /\ NULL \notin Requests \cup Kinds \cup Cases

VARIABLES
  caseRev,      \* current_cases.revision
  caseTime,     \* current_cases.updated_at
  reviews,      \* current_reviews
  links,        \* current_review_evidence
  receipts      \* current_receipts and current_review_revisions

ledgerVars == <<caseRev, caseTime, reviews, links, receipts>>

Times == 0 .. MaxTime
NoDue == 0
Dues == 0 .. MaxTime + Horizon
ActiveButDeferred == {"PROPOSED", "APPROVED"}     \* seeded error
Active == {"PROPOSED", "APPROVED", "DEFERRED"}
Statuses == {"PROPOSED", "APPROVED", "DEFERRED", "DISMISSED", "CANCELLED"}
HumanActions == {"APPROVE", "MODIFY", "DEFER", "DISMISS", "CANCEL"}

Review == [kind : Kinds, status : Statuses, rev : Nat, due : Dues]
NoReview == [kind |-> NULL, status |-> "NONE", rev |-> 0, due |-> NoDue]
Receipt == [op : {"STAGE", "LINK", "HUMAN"}, task : Requests, rev : Nat,
            status : Statuses, due : Dues]
NoReceipt == [op |-> "NONE", task |-> NULL, rev |-> 0, status |-> "NONE", due |-> NoDue]

LedgerTypeOK ==
  /\ caseRev \in [Cases -> Nat]
  /\ caseTime \in [Cases -> Times]
  /\ reviews \in [Cases -> [Requests -> Review \cup {NoReview}]]
  /\ links \in [Cases -> [Requests -> SUBSET Events]]
  /\ receipts \in [Cases -> [Requests -> Receipt \cup {NoReceipt}]]

LedgerInit ==
  /\ caseRev = [c \in Cases |-> 0]
  /\ caseTime = [c \in Cases |-> 0]
  /\ reviews = [c \in Cases |-> [q \in Requests |-> NoReview]]
  /\ links = [c \in Cases |-> [q \in Requests |-> {}]]
  /\ receipts = [c \in Cases |-> [q \in Requests |-> NoReceipt]]

ActiveOf(c) == {q \in Requests : reviews[c][q].status \in Active}
ActiveOfKind(c, k) == {q \in ActiveOf(c) : reviews[c][q].kind = k}

Future(due, t) == due # NoDue => (t < due /\ due <= t + Horizon)

Proposal(k, due) == [kind |-> k, status |-> "PROPOSED", rev |-> 1, due |-> due]

ReceiptOfPrior(op, task, review) ==                 \* seeded error
  [op |-> op, task |-> task, rev |-> review.rev - 1, status |-> review.status,
   due |-> review.due]
ReceiptOf(op, task, review) ==
  [op |-> op, task |-> task, rev |-> review.rev, status |-> review.status,
   due |-> review.due]

(* Every receipt spends one case revision; a committed invocation one more *)
(* than its receipts.                                                      *)
BumpTimeOnly(c, n, t) ==                            \* seeded error
  /\ caseTime' = [caseTime EXCEPT ![c] = t]
  /\ UNCHANGED caseRev
Bump(c, n, t) ==
  /\ caseRev' = [caseRev EXCEPT ![c] = @ + n]
  /\ caseTime' = [caseTime EXCEPT ![c] = t]

----------------------------------------------------------------------------
(* stage_review: a script drafts a review directly, on the case revision   *)
(* it has read.                                                            *)
StageReview(c, q, expected, k, e, due, t) ==
  /\ receipts[c][q] = NoReceipt
  /\ caseRev[c] = expected
  /\ t >= caseTime[c]
  /\ Future(due, t)
  /\ ActiveOfKind(c, k) = {}
  /\ e \in Sealed
  /\ reviews' = [reviews EXCEPT ![c][q] = Proposal(k, due)]
  /\ links' = [links EXCEPT ![c][q] = {e}]
  /\ receipts' = [receipts EXCEPT ![c][q] = ReceiptOf("STAGE", q, Proposal(k, due))]
  /\ Bump(c, 1, t)

(* link_evidence: the review's own revision is left alone. *)
LinkEvidence(c, q, expected, task, e, t) ==
  /\ receipts[c][q] = NoReceipt
  /\ caseRev[c] = expected
  /\ t >= caseTime[c]
  /\ task \in ActiveOf(c)
  /\ e \in Sealed
  /\ links' = [links EXCEPT ![c][task] = @ \cup {e}]
  /\ receipts' = [receipts EXCEPT ![c][q] = ReceiptOf("LINK", task, reviews[c][task])]
  /\ Bump(c, 1, t)
  /\ UNCHANGED reviews

(* _transition: the plan after a human action, when the action is allowed. *)
Transition(prior, action, due, t) ==
  CASE action = "APPROVE" -> [prior EXCEPT !.status = "APPROVED"]
    [] action = "MODIFY"  -> [prior EXCEPT !.status = "APPROVED", !.due = due]
    [] action = "DEFER"   -> [prior EXCEPT !.status = "DEFERRED", !.due = due]
    [] action = "DISMISS" -> [prior EXCEPT !.status = "DISMISSED", !.due = NoDue]
    [] action = "CANCEL"  -> [prior EXCEPT !.status = "CANCELLED", !.due = NoDue]

Permitted(prior, action, due, t) ==
  /\ action = "APPROVE" => prior.status # "APPROVED" /\ Future(prior.due, t)
  /\ action \in {"MODIFY", "DEFER"} => due # NoDue /\ Future(due, t)
  /\ action \notin {"MODIFY", "DEFER"} => due = NoDue

ActOnAny(c, q, task, expected, action, due, t) ==   \* seeded error: revision unchecked
  LET next == [Transition(reviews[c][task], action, due, t) EXCEPT !.rev = @ + 1]
  IN /\ receipts[c][q] = NoReceipt
     /\ t >= caseTime[c]
     /\ task \in ActiveOf(c)
     /\ Permitted(reviews[c][task], action, due, t)
     /\ reviews' = [reviews EXCEPT ![c][task] = next]
     /\ receipts' = [receipts EXCEPT ![c][q] = ReceiptOf("HUMAN", task, next)]
     /\ Bump(c, 1, t)
     /\ UNCHANGED links

(* act: optimistic on the revision of the review, not of the case. *)
Act(c, q, task, expected, action, due, t) ==
  LET prior == reviews[c][task]
      next == [Transition(prior, action, due, t) EXCEPT !.rev = @ + 1]
  IN /\ receipts[c][q] = NoReceipt
     /\ t >= caseTime[c]
     /\ prior.rev = expected
     /\ task \in ActiveOf(c)
     /\ Permitted(prior, action, due, t)
     /\ reviews' = [reviews EXCEPT ![c][task] = next]
     /\ receipts' = [receipts EXCEPT ![c][q] = ReceiptOf("HUMAN", task, next)]
     /\ Bump(c, 1, t)
     /\ UNCHANGED links

----------------------------------------------------------------------------
(* A case never has two open reviews of one kind, whoever staged them and  *)
(* however people approved, deferred or closed the earlier ones: the agent *)
(* may only continue an open review, never duplicate it.                   *)
OneActivePerKind ==
  \A c \in Cases, k \in Kinds :
    Cardinality({q \in Requests :
      /\ reviews[c][q].kind = k
      /\ reviews[c][q].status \notin {"NONE", "DISMISSED", "CANCELLED"}}) <= 1

(* The revision rows of a review are exactly 1 .. its revision, one per    *)
(* STAGE or HUMAN request, and the last one is the current plan: every     *)
(* reserved snapshot <<task, revision>> can be replayed for ever, and      *)
(* after its proposal only people changed a plan.                          *)
RowsOf(c, task) ==
  {q \in Requests : receipts[c][q].task = task /\ receipts[c][q].op \in {"STAGE", "HUMAN"}}

RevisionRowsComplete ==
  \A c \in Cases, task \in Requests :
    /\ {receipts[c][q].rev : q \in RowsOf(c, task)} = 1 .. reviews[c][task].rev
    /\ Cardinality(RowsOf(c, task)) = reviews[c][task].rev
    /\ \A q \in RowsOf(c, task) :
         /\ receipts[c][q].op = "STAGE" <=> q = task
         /\ receipts[c][q].rev = reviews[c][task].rev =>
              /\ receipts[c][q].status = reviews[c][task].status
              /\ receipts[c][q].due = reviews[c][task].due
============================================================================
