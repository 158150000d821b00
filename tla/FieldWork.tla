----------------------------- MODULE FieldWork -----------------------------
(***************************************************************************)
(* Field work on a review (current/field_store.py, field_actions.py,       *)
(* field_records.py, field_receipts.py, locations.py): a plan to visit an  *)
(* approved site, its decisions, the report of what was done, the evidence *)
(* of the report and its verification.  Every operation is one BEGIN       *)
(* IMMEDIATE transaction of a person with the right role, on the case      *)
(* revision that person last saw, and spends one case revision.            *)
(*                                                                         *)
(* Plans and receipts of a case are numbered in the order they are saved   *)
(* (the code has fresh uuids and the caller's request ids); a plan has at  *)
(* most one report, so a report is named by its plan.  A call that repeats *)
(* a saved request id gets the saved receipt or a conflict: it changes     *)
(* nothing.  The approved sites are process configuration: every call may  *)
(* run with any of the registries.                                         *)
(***************************************************************************)
EXTENDS CaseLedger, Sequences

CONSTANTS
  Registries,      \* configurations of the approved sites
  References,      \* what a piece of evidence refers to
  EvidenceLimit,   \* the eight references of a report revision
  MaxFieldWork     \* bound on the field operations of a case

ASSUME FieldAssumption ==
  /\ \A reg \in Registries : \A x, y \in reg : x.site = y.site /\ x.rev = y.rev => x = y
  /\ IsFiniteSet(References)
  /\ EvidenceLimit \in Nat \ {0}
  /\ MaxFieldWork \in Nat
  /\ \A x \in UNION Registries : x.rev \in Nat /\ x.approved \in BOOLEAN
  /\ NULL \notin [covers : SUBSET [ref : References, at : Times], at : Times]

VARIABLES
  plans,           \* field_plans and all that hangs on them
  work             \* field_receipts

fieldVars == <<plans, work>>
fieldWorkVars == <<sourceVars, ledgerVars, fieldVars>>

Entries == UNION Registries
Outcomes == {"COMPLETE", "UNFINISHED"}      \* PARTIAL and NOT_DONE are UNFINISHED
Open == {"PROPOSED", "APPROVED", "DEFERRED"}
Operations == {"PROPOSE", "DECIDE", "MODIFY", "REPORT", "CORRECT", "ATTACH", "VERIFY"}

Row == [status : Open \cup {"CANCELLED", "REPORTED"}, site : Entries, ends : Dues,
        author : {"HUMAN", "AGENT"}, at : Times]
Item == [ref : References, at : Times]
Verification == [covers : SUBSET Item, at : Times]
Report == [performed : Nat, outcome : Outcomes, start : Times, at : Times,
           evidence : SUBSET Item, verified : Seq(Verification)]
Plan == [task : Requests, review : Nat, rows : Seq(Row), reports : Seq(Report), activity : Nat]
Result == [revision : Nat, performed : Nat, outcome : Outcomes, start : Times, at : Times,
           evidence : SUBSET Item, verification : Verification \cup {NULL}]
NoResult == [revision |-> 0]
FieldReceipt == [op : Operations, rev : Nat, plan : Nat, row : Nat, value : Row,
                 result : Result \cup {NoResult}, at : Times]

FieldTypeOK ==
  /\ plans \in [Cases -> Seq(Plan)]
  /\ work \in [Cases -> Seq(FieldReceipt)]

FieldInit ==
  /\ SourceInit /\ LedgerInit
  /\ plans = [c \in Cases |-> <<>>]
  /\ work = [c \in Cases |-> <<>>]

----------------------------------------------------------------------------
(* What is read.                                                           *)
Latest(s) == s[Len(s)]
Now(plan) == Latest(plan.rows)
PlansOn(c, task) == {p \in DOMAIN plans[c] : plans[c][p].task = task}
OpenPlansOn(c, task) == {p \in PlansOn(c, task) : Now(plans[c][p]).status \in Open}

VerifiedOnce(report) ==                             \* seeded error: coverage not compared
  IF report.verified = <<>> THEN NULL ELSE Latest(report.verified)

(* The latest verification counts only while it covers all the evidence.   *)
Verified(report) ==
  IF report.verified = <<>> \/ Latest(report.verified).covers # report.evidence
  THEN NULL ELSE Latest(report.verified)

(* result(): the report revision with its evidence and its verification. *)
ResultOf(plan) ==
  IF plan.reports = <<>> THEN NoResult
  ELSE LET report == Latest(plan.reports)
       IN [revision |-> Len(plan.reports), performed |-> report.performed,
           outcome |-> report.outcome, start |-> report.start, at |-> report.at,
           evidence |-> report.evidence, verification |-> Verified(report)]

(* require_approved: the registry's latest revision of the site, approved. *)
Approved(reg) == {x \in reg : x.approved /\ \A y \in reg : y.site = x.site => y.rev <= x.rev}

AnySite(c, x) == TRUE                               \* seeded error

(* require_location_versions: a saved revision of a site keeps its meaning.*)
SiteUnchanged(c, x) ==
  \A p \in DOMAIN plans[c] : \A i \in DOMAIN plans[c][p].rows :
    LET saved == plans[c][p].rows[i].site
    IN saved.site = x.site /\ saved.rev = x.rev => saved = x

(* _parent: the review is open, and is the one the plan was made for. *)
ParentOpen(c, task, review) == task \in ActiveOf(c) /\ reviews[c][task].rev = review

(* _window *)
Window(ends, t) == t < ends /\ ends <= t + Horizon

----------------------------------------------------------------------------
LogUnmarked(op, c, p, plan, rev, t) ==              \* seeded error: last activity not moved
  /\ plans' = [plans EXCEPT ![c] =
       IF p \in DOMAIN @ THEN [@ EXCEPT ![p] = plan]
       ELSE Append(@, [plan EXCEPT !.activity = rev])]
  /\ work' = [work EXCEPT ![c] = Append(@,
       [op |-> op, rev |-> rev, plan |-> p, row |-> Len(plan.rows),
        value |-> Now(plan), result |-> ResultOf(plan), at |-> t])]

(* _save_mutation: the plan, its receipt, and the revision they have.      *)
Log(op, c, p, plan, rev, t) ==
  LET saved == [plan EXCEPT !.activity = rev]
  IN /\ plans' = [plans EXCEPT ![c] =
          IF p \in DOMAIN @ THEN [@ EXCEPT ![p] = saved] ELSE Append(@, saved)]
     /\ work' = [work EXCEPT ![c] = Append(@,
          [op |-> op, rev |-> rev, plan |-> p, row |-> Len(plan.rows),
           value |-> Now(plan), result |-> ResultOf(plan), at |-> t])]

MutateAtAny(op, c, expected, p, plan, t) ==         \* seeded error: no case revision
  /\ t >= caseTime[c]
  /\ Log(op, c, p, plan, caseRev[c], t)
  /\ caseTime' = [caseTime EXCEPT ![c] = t]
  /\ UNCHANGED <<caseRev, reviews, links, receipts>>

(* _mutate: the case is the one the caller saw, and the clock is not late. *)
Mutate(op, c, expected, p, plan, t) ==
  /\ caseRev[c] = expected
  /\ t >= caseTime[c]
  /\ Log(op, c, p, plan, caseRev[c] + 1, t)
  /\ Bump(c, 1, t)
  /\ UNCHANGED <<reviews, links, receipts>>

Revised(plan, row) == [plan EXCEPT !.rows = Append(@, row)]

NewPlan(task, review, x, ends, author, t) ==
  [task |-> task, review |-> review, reports |-> <<>>, activity |-> 0,
   rows |-> <<[status |-> "PROPOSED", site |-> x, ends |-> ends, author |-> author, at |-> t]>>]

Propose(c, expected, task, review, x, ends, reg, t) ==
  /\ ParentOpen(c, task, review)
  /\ Window(ends, t)
  /\ x \in Approved(reg)
  /\ OpenPlansOn(c, task) = {}
  /\ SiteUnchanged(c, x)
  /\ Mutate("PROPOSE", c, expected, Len(plans[c]) + 1,
            NewPlan(task, review, x, ends, "HUMAN", t), t)

(* _target: an open plan at the revision the person decided on. *)
Decidable(plan, row) == row = Len(plan.rows) /\ Now(plan).status \in Open

DecideInPlace(c, expected, p, row, action, reg, t) ==      \* seeded error: the revision overwritten
  LET plan == plans[c][p]
      old == Now(plan)
      status == CASE action = "APPROVE" -> "APPROVED"
                  [] action = "DEFER" -> "DEFERRED"
                  [] action = "CANCEL" -> "CANCELLED"
  IN /\ Decidable(plan, row)
     /\ action # "CANCEL" => ParentOpen(c, plan.task, plan.review) /\ t < old.ends
     /\ Mutate("DECIDE", c, expected, p,
               [plan EXCEPT !.rows[row] = [old EXCEPT !.status = status, !.author = "HUMAN", !.at = t]], t)

(* decide.  A deferral ends before the window: there is such a time.  *)
Decide(c, expected, p, row, action, reg, t) ==
  LET plan == plans[c][p]
      old == Now(plan)
      status == CASE action = "APPROVE" -> "APPROVED"
                  [] action = "DEFER" -> "DEFERRED"
                  [] action = "CANCEL" -> "CANCELLED"
  IN /\ Decidable(plan, row)
     /\ action # "CANCEL" => ParentOpen(c, plan.task, plan.review) /\ t < old.ends
     /\ action = "APPROVE" => old.status # "APPROVED" /\ old.site \in Approved(reg)
     /\ SiteUnchanged(c, old.site)
     /\ Mutate("DECIDE", c, expected, p,
               Revised(plan, [old EXCEPT !.status = status, !.author = "HUMAN", !.at = t]), t)

Modify(c, expected, p, row, x, ends, reg, t) ==
  LET plan == plans[c][p]
  IN /\ Decidable(plan, row)
     /\ ParentOpen(c, plan.task, plan.review)
     /\ Window(ends, t)
     /\ x \in Approved(reg)
     /\ SiteUnchanged(c, x)
     /\ Mutate("MODIFY", c, expected, p,
               Revised(plan, [status |-> "APPROVED", site |-> x, ends |-> ends,
                              author |-> "HUMAN", at |-> t]), t)

(* _performed: work follows its approval and precedes its report. *)
Performed(approved, start, t) == approved.at <= start /\ start <= t

ReportOpen(c, expected, p, row, outcome, start, t) ==       \* seeded error: any open plan
  LET plan == plans[c][p]
  IN /\ Now(plan).status \in Open
     /\ plan.reports = <<>>
     /\ Performed(Now(plan), start, t)
     /\ Mutate("REPORT", c, expected, p,
          [Revised(plan, [Now(plan) EXCEPT !.status = "REPORTED", !.author = "HUMAN", !.at = t])
             EXCEPT !.reports = <<[performed |-> Len(plan.rows), outcome |-> outcome,
                                   start |-> start, at |-> t, evidence |-> {},
                                   verified |-> <<>>]>>], t)

(* report: exactly the approved plan that is current is reported on. *)
ReportResult(c, expected, p, row, outcome, start, t) ==
  LET plan == plans[c][p]
  IN /\ Now(plan).status = "APPROVED" /\ row = Len(plan.rows)
     /\ ParentOpen(c, plan.task, plan.review)
     /\ Performed(Now(plan), start, t)
     /\ plan.reports = <<>>
     /\ Mutate("REPORT", c, expected, p,
          [Revised(plan, [Now(plan) EXCEPT !.status = "REPORTED", !.author = "HUMAN", !.at = t])
             EXCEPT !.reports = <<[performed |-> row, outcome |-> outcome, start |-> start,
                                   at |-> t, evidence |-> {}, verified |-> <<>>]>>], t)

(* _current_result: the report at the revision the person saw. *)
Seen(plan, revision) == plan.reports # <<>> /\ revision = Len(plan.reports)

(* correct: a new report revision, with evidence and verification to come. *)
Correct(c, expected, p, revision, outcome, start, t) ==
  LET plan == plans[c][p]
      old == Latest(plan.reports)
  IN /\ Seen(plan, revision)
     /\ Performed(plan.rows[old.performed], start, t)
     /\ Mutate("CORRECT", c, expected, p,
          [plan EXCEPT !.reports = Append(@,
             [old EXCEPT !.outcome = outcome, !.start = start, !.at = t,
                         !.evidence = {}, !.verified = <<>>])], t)

Amended(plan, report) == [plan EXCEPT !.reports[Len(plan.reports)] = report]

Attach(c, expected, p, revision, ref, t) ==
  LET plan == plans[c][p]
      old == Latest(plan.reports)
  IN /\ Seen(plan, revision)
     /\ Cardinality(old.evidence) < EvidenceLimit
     /\ \A item \in old.evidence : item.ref # ref
     /\ Mutate("ATTACH", c, expected, p,
               Amended(plan, [old EXCEPT !.evidence = @ \cup {[ref |-> ref, at |-> t]}]), t)

(* verify: exactly the evidence the report has now. *)
Verify(c, expected, p, revision, covers, t) ==
  LET plan == plans[c][p]
      old == Latest(plan.reports)
  IN /\ Seen(plan, revision)
     /\ covers # {} /\ covers = old.evidence
     /\ Mutate("VERIFY", c, expected, p,
               Amended(plan, [old EXCEPT !.verified = Append(@, [covers |-> covers, at |-> t])]), t)

----------------------------------------------------------------------------
(* The people of a case, each on the plan, review or report revision they  *)
(* last saw; one who has not seen the case as it is changes nothing.       *)
Coordinate(c, expected, t) ==
  \E reg \in Registries :
    \/ \E task \in Requests, x \in Entries, ends \in Dues :
         \E review \in 1 .. reviews[c][task].rev :
           Propose(c, expected, task, review, x, ends, reg, t)
    \/ \E p \in DOMAIN plans[c] : \E row \in DOMAIN plans[c][p].rows :
         \/ \E action \in {"APPROVE", "DEFER", "CANCEL"} :
              Decide(c, expected, p, row, action, reg, t)
         \/ \E x \in Entries, ends \in Dues : Modify(c, expected, p, row, x, ends, reg, t)

Operate(c, expected, t) ==
  \E p \in DOMAIN plans[c] :
    \/ \E row \in DOMAIN plans[c][p].rows, outcome \in Outcomes, start \in Times :
         ReportResult(c, expected, p, row, outcome, start, t)
    \/ \E revision \in DOMAIN plans[c][p].reports :
         \/ \E outcome \in Outcomes, start \in Times :
              Correct(c, expected, p, revision, outcome, start, t)
         \/ \E ref \in References : Attach(c, expected, p, revision, ref, t)
         \/ \E covers \in SUBSET plans[c][p].reports[revision].evidence :
              Verify(c, expected, p, revision, covers, t)

FieldPeople ==
  \E c \in Cases :
    /\ Len(work[c]) < MaxFieldWork
    /\ \E t \in caseTime[c] .. MaxTime :
         Coordinate(c, caseRev[c], t) \/ Operate(c, caseRev[c], t)

FieldNext ==
  \/ \E S \in SUBSET Sealable : SealEvents(S) /\ UNCHANGED <<ledgerVars, fieldVars>>
  \/ FieldPeople /\ UNCHANGED sourceVars
  \/ /\ UNCHANGED <<sourceVars, fieldVars>>
     /\ \E c \in Cases, q \in Requests, t \in Times, due \in Dues :
          \/ \E k \in Kinds, e \in Sealed : StageReview(c, q, caseRev[c], k, e, due, t)
          \/ \E task \in ActiveOf(c), action \in HumanActions :
               Act(c, q, task, reviews[c][task].rev, action, due, t)

FieldSpec == FieldInit /\ [][FieldNext]_fieldWorkVars
----------------------------------------------------------------------------
(* restore(): the plan and the result a receipt names, as saved since. *)
Replay(c, i) ==
  LET receipt == work[c][i]
      plan == plans[c][receipt.plan]
      saved == plan.reports[receipt.result.revision]
  IN [value |-> plan.rows[receipt.row],
      result |-> IF receipt.result = NoResult THEN NoResult
                 ELSE [receipt.result EXCEPT !.performed = saved.performed, !.outcome = saved.outcome,
                                             !.start = saved.start, !.at = saved.at]]

LastOf(c, p) == {i \in DOMAIN work[c] : work[c][i].plan = p /\ work[c][i].rev = plans[c][p].activity}

(* Every receipt can be replayed for ever: restore() finds the plan        *)
(* revision, the report revision, the evidence and the verification it     *)
(* names as it named them, however the work went on; and the receipt of a  *)
(* plan's last activity is the plan and the result as they are now, which  *)
(* is what an invocation pins when it shows field work to the agent.       *)
FieldWorkReplays ==
  \A c \in Cases :
    /\ \A i \in DOMAIN work[c] :
         LET r == work[c][i]
         IN /\ r.rev <= caseRev[c] /\ r.at <= caseTime[c]
            /\ Replay(c, i) = [value |-> r.value, result |-> r.result]
            /\ r.result # NoResult =>
                 LET saved == plans[c][r.plan].reports[r.result.revision]
                 IN /\ r.result.evidence \subseteq saved.evidence
                    /\ r.result.verification # NULL =>
                         \E v \in DOMAIN saved.verified : saved.verified[v] = r.result.verification
    /\ \A p \in DOMAIN plans[c] :
         /\ Cardinality(LastOf(c, p)) = 1
         /\ \A i \in LastOf(c, p) :
              /\ work[c][i].value = Now(plans[c][p])
              /\ work[c][i].row = Len(plans[c][p].rows)
              /\ work[c][i].result = ResultOf(plans[c][p])

(* A result is shown as verified exactly while its verification is the     *)
(* last thing recorded about it: evidence attached later, or a correction, *)
(* takes the mark away until somebody has verified the work again.         *)
VerifiedIsLatest ==
  \A c \in Cases : \A p \in DOMAIN plans[c] :
    LET mine == {i \in DOMAIN work[c] : work[c][i].plan = p}
        last == CHOOSE i \in mine : \A j \in mine : j <= i
    IN plans[c][p].reports # <<>> =>
         (Verified(Latest(plans[c][p].reports)) # NULL) <=> (work[c][last].op = "VERIFY")

(* Work that is reported, in any revision of the report, was done after a  *)
(* person approved exactly the plan revision it names, and no decision     *)
(* came between that revision and the report; a review never has two plans *)
(* that could both still be carried out.                                   *)
WorkFollowsApproval ==
  \A c \in Cases :
    /\ \A p \in DOMAIN plans[c] :
         LET plan == plans[c][p]
         IN /\ Now(plan).status = "REPORTED" <=> plan.reports # <<>>
            /\ \A i \in DOMAIN plan.reports :
                 LET done == plan.reports[i]
                 IN /\ done.performed = Len(plan.rows) - 1
                    /\ plan.rows[done.performed].status = "APPROVED"
                    /\ plan.rows[done.performed].author = "HUMAN"
                    /\ plan.rows[done.performed].at <= done.start
                    /\ done.start <= done.at
    /\ \A task \in Requests : Cardinality(OpenPlansOn(c, task)) <= 1

(* A revision of a site means one place in all the plans ever saved, with  *)
(* whatever configuration the processes that saved them ran.               *)
SitesKeepMeaning ==
  \A c \in Cases : \A p, q \in DOMAIN plans[c] :
    \A i \in DOMAIN plans[c][p].rows, j \in DOMAIN plans[c][q].rows :
      LET x == plans[c][p].rows[i].site
          y == plans[c][q].rows[j].site
      IN x.site = y.site /\ x.rev = y.rev => x = y
============================================================================
