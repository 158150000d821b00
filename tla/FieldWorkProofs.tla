-------------------------- MODULE FieldWorkProofs --------------------------
(***************************************************************************)
(* Theorems about field work, for any cases, reviews, registries, evidence *)
(* and number of operations.  Every operation saves one plan and one       *)
(* receipt: what it may do to the plan (FieldMove) is shown operation by   *)
(* operation, and the invariants from what is saved (Saves) alone, so that *)
(* they hold for whatever else saves plans the same way.                   *)
(***************************************************************************)
EXTENDS FieldWork, LedgerProofs

----------------------------------------------------------------------------
(* The invariants                                                          *)

IsOpen(plan) == Now(plan).status \in Open

(* A plan by itself: it is reported on exactly when it has a report, every *)
(* approval is a person's, each revision of the report is about the last   *)
(* row before it, which was approved, and a verification covers evidence   *)
(* of its report.                                                          *)
Sound(plan) ==
  /\ plan.rows # <<>>
  /\ Now(plan).status = "REPORTED" <=> plan.reports # <<>>
  /\ \A i \in DOMAIN plan.rows : plan.rows[i].status = "APPROVED" => plan.rows[i].author = "HUMAN"
  /\ \A i \in DOMAIN plan.reports :
       LET done == plan.reports[i]
       IN /\ done.performed = Len(plan.rows) - 1
          /\ done.performed \in DOMAIN plan.rows
          /\ plan.rows[done.performed].status = "APPROVED"
          /\ plan.rows[done.performed].at <= done.start
          /\ done.start <= done.at
          /\ \A v \in DOMAIN done.verified : done.verified[v].covers \subseteq done.evidence

SoundPlans == \A c \in Cases : \A p \in DOMAIN plans[c] : Sound(plans[c][p])

OneOpenPlan ==
  \A c \in Cases : \A p, q \in DOMAIN plans[c] :
    IsOpen(plans[c][p]) /\ IsOpen(plans[c][q]) /\ plans[c][p].task = plans[c][q].task => p = q

(* A receipt names rows of a plan as they are saved. *)
Names(r, saved) ==
  /\ r.row \in DOMAIN saved.rows /\ saved.rows[r.row] = r.value
  /\ r.result # NoResult =>
       /\ r.result.revision \in DOMAIN saved.reports
       /\ LET report == saved.reports[r.result.revision]
          IN /\ r.result.performed = report.performed /\ r.result.outcome = report.outcome
             /\ r.result.start = report.start /\ r.result.at = report.at
             /\ r.result.evidence \subseteq report.evidence
             /\ r.result.verification # NULL =>
                  \E v \in DOMAIN report.verified : report.verified[v] = r.result.verification

ReceiptsKept ==
  \A c \in Cases : \A i \in DOMAIN work[c] :
    /\ work[c][i].rev <= caseRev[c] /\ work[c][i].at <= caseTime[c]
    /\ work[c][i].plan \in DOMAIN plans[c]
    /\ Names(work[c][i], plans[c][work[c][i].plan])

(* The last receipt of a plan is the one with the revision of its last     *)
(* activity, and shows the plan as it is.                                  *)
IsLast(c, p, i) ==
  /\ work[c][i].plan = p /\ work[c][i].rev = plans[c][p].activity
  /\ \A j \in DOMAIN work[c] :
       work[c][j].plan = p /\ j # i => j < i /\ work[c][j].rev # plans[c][p].activity

Shows(r, plan) ==
  /\ r.value = Now(plan) /\ r.row = Len(plan.rows) /\ r.result = ResultOf(plan)
  /\ plan.reports # <<>> => (Verified(Latest(plan.reports)) # NULL <=> r.op = "VERIFY")

LastReceipts ==
  \A c \in Cases : \A p \in DOMAIN plans[c] :
    \E i \in DOMAIN work[c] : IsLast(c, p, i) /\ Shows(work[c][i], plans[c][p])

FieldInv ==
  /\ FieldTypeOK /\ SoundPlans /\ OneOpenPlan /\ SitesKeepMeaning
  /\ ReceiptsKept /\ LastReceipts

----------------------------------------------------------------------------
(* What one operation saves                                                *)

(* Nothing saved of a plan is changed: rows and reports are added, a       *)
(* report only gains evidence and verifications.                           *)
Extends(old, plan) ==
  /\ plan.task = old.task /\ plan.review = old.review
  /\ \A i \in DOMAIN old.rows : i \in DOMAIN plan.rows /\ plan.rows[i] = old.rows[i]
  /\ \A i \in DOMAIN old.reports :
       /\ i \in DOMAIN plan.reports
       /\ plan.reports[i].performed = old.reports[i].performed
       /\ plan.reports[i].outcome = old.reports[i].outcome
       /\ plan.reports[i].start = old.reports[i].start
       /\ plan.reports[i].at = old.reports[i].at
       /\ old.reports[i].evidence \subseteq plan.reports[i].evidence
       /\ \A v \in DOMAIN old.reports[i].verified :
            /\ v \in DOMAIN plan.reports[i].verified
            /\ plan.reports[i].verified[v] = old.reports[i].verified[v]

(* A new plan, on a review without open work. *)
Begins(op, c, p, plan) ==
  /\ op = "PROPOSE" /\ p = Len(plans[c]) + 1
  /\ plan.reports = <<>> /\ Len(plan.rows) = 1
  /\ \A q \in DOMAIN plans[c] : IsOpen(plans[c][q]) => plans[c][q].task # plan.task

IsSaved(c, y) ==
  \E p \in DOMAIN plans[c] : \E i \in DOMAIN plans[c][p].rows : plans[c][p].rows[i].site = y

(* The rows of the plan are at saved sites, or at one that was checked. *)
KeepsSites(c, plan) ==
  \E x \in Entries :
    /\ SiteUnchanged(c, x)
    /\ \A i \in DOMAIN plan.rows : plan.rows[i].site = x \/ IsSaved(c, plan.rows[i].site)

FieldMove(op, c, p, plan) ==
  /\ op \in Operations /\ plan \in Plan /\ Sound(plan) /\ KeepsSites(c, plan)
  /\ \/ Begins(op, c, p, plan)
     \/ /\ p \in DOMAIN plans[c]
        /\ Extends(plans[c][p], plan)
        /\ IsOpen(plan) => IsOpen(plans[c][p])
  /\ plan.reports # <<>> => (Verified(Latest(plan.reports)) # NULL <=> op = "VERIFY")

(* What Log writes. *)
Saves(op, c, p, plan, rev, t) ==
  /\ DOMAIN plans'[c] = DOMAIN plans[c] \cup {p}
  /\ plans'[c][p] = [plan EXCEPT !.activity = rev]
  /\ \A q \in DOMAIN plans[c] \ {p} : plans'[c][q] = plans[c][q]
  /\ DOMAIN work'[c] = DOMAIN work[c] \cup {Len(work[c]) + 1}
  /\ work'[c][Len(work[c]) + 1] =
       [op |-> op, rev |-> rev, plan |-> p, row |-> Len(plan.rows),
        value |-> Now(plan), result |-> ResultOf(plan), at |-> t]
  /\ \A i \in DOMAIN work[c] : work'[c][i] = work[c][i]
  /\ \A x \in Cases \ {c} : plans'[x] = plans[x] /\ work'[x] = work[x]

----------------------------------------------------------------------------
(* Records                                                                 *)

LEMMA LatestIn ==
  ASSUME NEW S, NEW s \in Seq(S), s # <<>>
  PROVE  Latest(s) \in S /\ Len(s) \in DOMAIN s
BY DEF Latest

LEMMA OneIsSeq ==
  ASSUME NEW S, NEW x \in S
  PROVE  <<x>> \in Seq(S)
OBVIOUS

LEMMA VerifiedType ==
  ASSUME NEW report \in Report
  PROVE  Verified(report) \in Verification \cup {NULL}
<1>1. report.verified \in Seq(Verification)
  BY DEF Report
<1>2. QED
  BY <1>1, LatestIn DEF Verified

LEMMA ResultType ==
  ASSUME NEW plan \in Plan
  PROVE  ResultOf(plan) \in Result \cup {NoResult}
<1>1. plan.reports \in Seq(Report)
  BY DEF Plan
<1>2. CASE plan.reports # <<>>
  <2>1. PICK report \in Report : report = Latest(plan.reports)
    BY <1>1, <1>2, LatestIn
  <2>2. Verified(report) \in Verification \cup {NULL}
    BY VerifiedType
  <2>3. Len(plan.reports) \in Nat
    BY <1>1
  <2>4. [revision |-> Len(plan.reports), performed |-> report.performed,
         outcome |-> report.outcome, start |-> report.start, at |-> report.at,
         evidence |-> report.evidence, verification |-> Verified(report)] \in Result
    BY <2>2, <2>3 DEF Report, Result
  <2>5. QED
    BY <1>2, <2>1, <2>4 DEF ResultOf
<1>3. QED
  BY <1>2 DEF ResultOf

(* A verification is never taken for the absence of one. *)
LEMMA VerificationIsNotNull == NULL \notin Verification
BY FieldAssumption DEF Verification, Item

LEMMA NowType ==
  ASSUME NEW plan \in Plan, plan.rows # <<>>
  PROVE  Now(plan) \in Row /\ Len(plan.rows) \in DOMAIN plan.rows
<1>1. plan.rows \in Seq(Row)
  BY DEF Plan
<1>2. QED
  BY <1>1, LatestIn DEF Now

LEMMA LogSaves ==
  ASSUME FieldTypeOK, NEW c \in Cases, NEW op \in Operations, NEW p \in 1 .. Len(plans[c]) + 1,
         NEW plan \in Plan, plan.rows # <<>>, NEW rev \in Nat, NEW t \in Times,
         Log(op, c, p, plan, rev, t)
  PROVE  FieldTypeOK' /\ Saves(op, c, p, plan, rev, t)
<1> DEFINE saved == [plan EXCEPT !.activity = rev]
           receipt == [op |-> op, rev |-> rev, plan |-> p, row |-> Len(plan.rows),
                       value |-> Now(plan), result |-> ResultOf(plan), at |-> t]
           next == IF p \in DOMAIN plans[c] THEN [plans[c] EXCEPT ![p] = saved]
                   ELSE Append(plans[c], saved)
<1>1. saved \in Plan
  BY DEF Plan
<1>2. receipt \in FieldReceipt
  <2>1. Now(plan) \in Row
    BY NowType
  <2>2. ResultOf(plan) \in Result \cup {NoResult}
    BY ResultType
  <2>3. Len(plan.rows) \in Nat
    BY DEF Plan
  <2>4. p \in Nat
    BY DEF FieldTypeOK
  <2>5. QED
    BY <2>1, <2>2, <2>3, <2>4 DEF FieldReceipt
<1>3. plans' = [plans EXCEPT ![c] = next] /\ work' = [work EXCEPT ![c] = Append(@, receipt)]
  BY DEF Log
<1>4. plans[c] \in Seq(Plan) /\ work[c] \in Seq(FieldReceipt)
  BY DEF FieldTypeOK
<1> HIDE DEF saved, receipt
<1>5. /\ next \in Seq(Plan) /\ DOMAIN next = DOMAIN plans[c] \cup {p}
      /\ next[p] = saved /\ \A q \in DOMAIN plans[c] \ {p} : next[q] = plans[c][q]
  <2>1. CASE p \in DOMAIN plans[c]
    BY <1>1, <1>4, <2>1
  <2>2. CASE p \notin DOMAIN plans[c]
    <3>1. p = Len(plans[c]) + 1
      BY <1>4, <2>2
    <3>2. QED
      BY <1>1, <1>4, <2>2, <3>1
  <2>3. QED
    BY <2>1, <2>2
<1> HIDE DEF next
<1>6. /\ Append(work[c], receipt) \in Seq(FieldReceipt)
      /\ DOMAIN Append(work[c], receipt) = DOMAIN work[c] \cup {Len(work[c]) + 1}
      /\ Append(work[c], receipt)[Len(work[c]) + 1] = receipt
      /\ \A i \in DOMAIN work[c] : Append(work[c], receipt)[i] = work[c][i]
  BY <1>2, <1>4
<1>7. /\ plans'[c] = next /\ work'[c] = Append(work[c], receipt)
      /\ \A x \in Cases \ {c} : plans'[x] = plans[x] /\ work'[x] = work[x]
  BY <1>3 DEF FieldTypeOK
<1>8. FieldTypeOK'
  BY <1>3, <1>5, <1>6 DEF FieldTypeOK
<1>9. QED
  BY <1>5, <1>6, <1>7, <1>8 DEF Saves, saved, receipt

----------------------------------------------------------------------------
(* The moves, operation by operation                                       *)

LEMMA RevisedFacts ==
  ASSUME NEW old \in Plan, NEW row \in Row
  PROVE  /\ Revised(old, row) \in Plan
         /\ Revised(old, row).task = old.task /\ Revised(old, row).review = old.review
         /\ Revised(old, row).reports = old.reports
         /\ Len(Revised(old, row).rows) = Len(old.rows) + 1
         /\ DOMAIN Revised(old, row).rows = DOMAIN old.rows \cup {Len(old.rows) + 1}
         /\ Revised(old, row).rows[Len(old.rows) + 1] = row
         /\ \A i \in DOMAIN old.rows : Revised(old, row).rows[i] = old.rows[i]
         /\ Now(Revised(old, row)) = row
<1>1. /\ Revised(old, row).rows = Append(old.rows, row) /\ Revised(old, row).reports = old.reports
      /\ Revised(old, row).task = old.task /\ Revised(old, row).review = old.review
  BY DEF Revised, Plan
<1>2. old.rows \in Seq(Row)
  BY DEF Plan
<1>3. /\ Append(old.rows, row) \in Seq(Row) /\ Len(Append(old.rows, row)) = Len(old.rows) + 1
      /\ DOMAIN Append(old.rows, row) = DOMAIN old.rows \cup {Len(old.rows) + 1}
      /\ Append(old.rows, row)[Len(old.rows) + 1] = row
      /\ \A i \in DOMAIN old.rows : Append(old.rows, row)[i] = old.rows[i]
  BY <1>2
<1>4. Revised(old, row) \in Plan
  BY <1>3 DEF Revised, Plan
<1>5. QED
  BY <1>1, <1>3, <1>4 DEF Now, Latest

LEMMA PlanType ==
  ASSUME FieldTypeOK, SoundPlans, NEW c \in Cases, NEW p \in DOMAIN plans[c]
  PROVE  plans[c][p] \in Plan /\ Sound(plans[c][p])
BY DEF FieldTypeOK, SoundPlans

(* Every row of a saved plan is at a saved site. *)
LEMMA OwnSites ==
  ASSUME NEW c, NEW p \in DOMAIN plans[c], NEW x \in Entries, SiteUnchanged(c, x), NEW plan,
         \A i \in DOMAIN plan.rows :
           \/ plan.rows[i].site = x
           \/ i \in DOMAIN plans[c][p].rows /\ plan.rows[i] = plans[c][p].rows[i]
  PROVE  KeepsSites(c, plan)
BY DEF KeepsSites, IsSaved

LEMMA SavedSiteUnchanged ==
  ASSUME SitesKeepMeaning, NEW c \in Cases, NEW p \in DOMAIN plans[c],
         NEW i \in DOMAIN plans[c][p].rows
  PROVE  SiteUnchanged(c, plans[c][p].rows[i].site)
BY DEF SitesKeepMeaning, SiteUnchanged

LEMMA ExtendsItself == ASSUME NEW old PROVE Extends(old, old)
BY DEF Extends

(* A decision on an open plan: one more row. *)
LEMMA RevisedMove ==
  ASSUME FieldTypeOK, SoundPlans, NEW c \in Cases, NEW p \in DOMAIN plans[c],
         IsOpen(plans[c][p]), NEW row \in Row, row.status \in Open \cup {"CANCELLED"},
         row.author = "HUMAN", SiteUnchanged(c, row.site), NEW op \in {"DECIDE", "MODIFY"}
  PROVE  FieldMove(op, c, p, Revised(plans[c][p], row))
<1> DEFINE plan == Revised(plans[c][p], row)
<1>1. PICK old \in Plan : old = plans[c][p] /\ Sound(old)
  BY PlanType
<1>2. /\ plan \in Plan /\ plan.task = old.task /\ plan.review = old.review
      /\ plan.reports = old.reports
      /\ DOMAIN plan.rows = DOMAIN old.rows \cup {Len(old.rows) + 1}
      /\ plan.rows[Len(old.rows) + 1] = row
      /\ \A i \in DOMAIN old.rows : plan.rows[i] = old.rows[i]
      /\ Now(plan) = row
  BY <1>1, RevisedFacts
<1>3. old.reports = <<>>
  BY <1>1 DEF Sound, IsOpen, Open
<1>4. row.site \in Entries /\ row.status # "REPORTED"
  BY DEF Row, Open
<1> HIDE DEF plan
<1>5. Sound(plan)
  <2>1. plan.rows # <<>>
    BY <1>2
  <2>2. \A i \in DOMAIN plan.rows :
          plan.rows[i].status = "APPROVED" => plan.rows[i].author = "HUMAN"
    BY <1>1, <1>2 DEF Sound
  <2>3. DOMAIN plan.reports = {}
    BY <1>2, <1>3
  <2>4. QED
    BY <1>2, <1>3, <1>4, <2>1, <2>2, <2>3 DEF Sound
<1>6. KeepsSites(c, plan)
  BY <1>1, <1>2, <1>4, OwnSites
<1>7. Extends(old, plan)
  BY <1>2, <1>3 DEF Extends
<1>8. QED
  BY <1>1, <1>2, <1>3, <1>5, <1>6, <1>7 DEF FieldMove, Operations, plan

(* The report of the approved plan that is current. *)
LEMMA ReportMove ==
  ASSUME FieldTypeOK, SoundPlans, SitesKeepMeaning, NEW c \in Cases, NEW p \in DOMAIN plans[c],
         Now(plans[c][p]).status = "APPROVED", NEW outcome \in Outcomes, NEW start \in Times,
         NEW t \in Times, Performed(Now(plans[c][p]), start, t)
  PROVE  FieldMove("REPORT", c, p,
           [Revised(plans[c][p],
                    [Now(plans[c][p]) EXCEPT !.status = "REPORTED", !.author = "HUMAN", !.at = t])
              EXCEPT !.reports = <<[performed |-> Len(plans[c][p].rows), outcome |-> outcome,
                                    start |-> start, at |-> t, evidence |-> {},
                                    verified |-> <<>>]>>])
<1> DEFINE row == [Now(plans[c][p]) EXCEPT !.status = "REPORTED", !.author = "HUMAN", !.at = t]
           base == Revised(plans[c][p], row)
           done == [performed |-> Len(plans[c][p].rows), outcome |-> outcome,
                    start |-> start, at |-> t, evidence |-> {}, verified |-> <<>>]
           plan == [base EXCEPT !.reports = <<done>>]
<1>1. PICK old \in Plan : old = plans[c][p] /\ Sound(old)
  BY PlanType
<1>2. Now(old) \in Row /\ Len(old.rows) \in DOMAIN old.rows /\ Len(old.rows) \in Nat
  <2>1. old.rows # <<>>
    BY <1>1 DEF Sound
  <2>2. QED
    BY <2>1, NowType DEF Plan
<1>3. row \in Row /\ row.status = "REPORTED" /\ row.author = "HUMAN" /\ row.site = Now(old).site
  BY <1>1, <1>2 DEF Row
<1> HIDE DEF row
<1>4. /\ base \in Plan /\ base.task = old.task /\ base.review = old.review
      /\ Len(base.rows) = Len(old.rows) + 1
      /\ DOMAIN base.rows = DOMAIN old.rows \cup {Len(old.rows) + 1}
      /\ base.rows[Len(old.rows) + 1] = row
      /\ \A i \in DOMAIN old.rows : base.rows[i] = old.rows[i]
  BY <1>1, <1>3, RevisedFacts
<1> HIDE DEF base
<1>5. done \in Report
  BY <1>1, <1>2 DEF Report
<1>6. /\ plan \in Plan /\ plan.rows = base.rows /\ plan.reports = <<done>>
      /\ plan.task = old.task /\ plan.review = old.review
  <2> HIDE DEF done
  <2>1. PICK reports \in Seq(Report) : reports = <<done>>
    BY <1>5, OneIsSeq
  <2>2. plan = [base EXCEPT !.reports = reports]
    BY <2>1
  <2> HIDE DEF plan
  <2>3. /\ plan \in Plan /\ plan.rows = base.rows /\ plan.reports = reports
        /\ plan.task = base.task /\ plan.review = base.review
    BY <1>4, <2>2 DEF Plan
  <2>4. QED
    BY <1>4, <2>1, <2>3
<1> HIDE DEF plan
<1>7. old.reports = <<>> /\ DOMAIN old.reports = {}
  BY <1>1 DEF Sound
<1>8. Now(plan) = row
  BY <1>2, <1>4, <1>6 DEF Now, Latest
<1>9. Sound(plan)
  <2>1. plan.rows # <<>> /\ plan.reports # <<>>
    BY <1>4, <1>6
  <2>2. \A i \in DOMAIN plan.rows :
          plan.rows[i].status = "APPROVED" => plan.rows[i].author = "HUMAN"
    BY <1>1, <1>3, <1>4, <1>6 DEF Sound
  <2>3. DOMAIN plan.reports = {1} /\ plan.reports[1] = done
    BY <1>6
  <2>4. plan.rows[done.performed] = Now(old)
    BY <1>1, <1>2, <1>4, <1>6 DEF Now, Latest
  <2>5. /\ done.performed = Len(plan.rows) - 1 /\ done.performed \in DOMAIN plan.rows
        /\ plan.rows[done.performed].status = "APPROVED"
        /\ plan.rows[done.performed].at <= done.start /\ done.start <= done.at
        /\ DOMAIN done.verified = {}
    BY <1>1, <1>2, <1>4, <1>6, <2>4 DEF Performed
  <2> HIDE DEF done
  <2>6. QED
    BY <1>3, <1>8, <2>1, <2>2, <2>3, <2>5 DEF Sound
<1>10. KeepsSites(c, plan)
  <2>1. row.site \in Entries /\ SiteUnchanged(c, row.site)
    BY <1>1, <1>2, <1>3, SavedSiteUnchanged DEF Now, Latest, Row
  <2>2. QED
    BY <1>1, <1>4, <1>6, <2>1, OwnSites
<1>11. Extends(old, plan)
  BY <1>4, <1>6, <1>7 DEF Extends
<1>12. Verified(Latest(plan.reports)) = NULL
  <2>1. Latest(plan.reports) = done
    BY <1>6 DEF Latest
  <2>2. QED
    BY <2>1 DEF Verified
<1>13. ~IsOpen(plan)
  BY <1>3, <1>8 DEF IsOpen, Open
<1>14. FieldMove("REPORT", c, p, plan)
  BY <1>1, <1>6, <1>9, <1>10, <1>11, <1>12, <1>13 DEF FieldMove, Operations
<1>15. QED
  BY <1>14 DEF plan, base, row, done

LEMMA SoundReported ==
  ASSUME NEW plan \in Plan, Sound(plan), plan.reports # <<>>
  PROVE  /\ Latest(plan.reports) \in Report /\ Len(plan.reports) \in DOMAIN plan.reports
         /\ Latest(plan.reports) = plan.reports[Len(plan.reports)]
         /\ ~IsOpen(plan)
<1>1. plan.reports \in Seq(Report)
  BY DEF Plan
<1>2. QED
  BY <1>1, LatestIn DEF Sound, IsOpen, Open, Latest

(* A report of a plan as sound as the one it takes the place of or follows. *)
SoundReport(plan, done) ==
  /\ done.performed = Len(plan.rows) - 1
  /\ done.performed \in DOMAIN plan.rows
  /\ plan.rows[done.performed].status = "APPROVED"
  /\ plan.rows[done.performed].at <= done.start
  /\ done.start <= done.at
  /\ \A v \in DOMAIN done.verified : done.verified[v].covers \subseteq done.evidence

LEMMA SoundReports ==
  ASSUME NEW plan, Sound(plan), NEW i \in DOMAIN plan.reports
  PROVE  SoundReport(plan, plan.reports[i])
BY DEF Sound, SoundReport

LEMMA SoundWith ==
  ASSUME NEW old, Sound(old), old.reports # <<>>, NEW plan, plan.rows = old.rows,
         plan.reports # <<>>, \A i \in DOMAIN plan.reports : SoundReport(old, plan.reports[i])
  PROVE  Sound(plan)
BY DEF Sound, SoundReport, Now

LEMMA SameSites ==
  ASSUME FieldTypeOK, SoundPlans, SitesKeepMeaning, NEW c \in Cases, NEW p \in DOMAIN plans[c],
         NEW plan, plan.rows = plans[c][p].rows
  PROVE  KeepsSites(c, plan)
<1>1. PICK old \in Plan : old = plans[c][p] /\ Sound(old)
  BY PlanType
<1>2. Now(old) \in Row /\ Len(old.rows) \in DOMAIN old.rows
  BY <1>1, NowType DEF Sound
<1>3. old.rows[Len(old.rows)].site \in Entries
  BY <1>2 DEF Now, Latest, Row
<1>4. SiteUnchanged(c, old.rows[Len(old.rows)].site)
  BY <1>1, <1>2, SavedSiteUnchanged
<1>5. QED
  BY <1>1, <1>3, <1>4, OwnSites

(* A further revision of the report, without evidence or verification. *)
LEMMA CorrectMove ==
  ASSUME FieldTypeOK, SoundPlans, SitesKeepMeaning, NEW c \in Cases, NEW p \in DOMAIN plans[c],
         plans[c][p].reports # <<>>, NEW outcome \in Outcomes, NEW start \in Times, NEW t \in Times,
         Performed(plans[c][p].rows[Latest(plans[c][p].reports).performed], start, t)
  PROVE  FieldMove("CORRECT", c, p,
           [plans[c][p] EXCEPT !.reports = Append(@,
              [Latest(plans[c][p].reports) EXCEPT !.outcome = outcome, !.start = start, !.at = t,
                                                  !.evidence = {}, !.verified = <<>>])])
<1>1. PICK old \in Plan : old = plans[c][p] /\ Sound(old)
  BY PlanType
<1>2. PICK last \in Report : /\ last = Latest(old.reports) /\ last = old.reports[Len(old.reports)]
                             /\ Len(old.reports) \in DOMAIN old.reports
  BY <1>1, SoundReported
<1>3. SoundReport(old, last)
  BY <1>1, <1>2, SoundReports
<1> DEFINE done == [last EXCEPT !.outcome = outcome, !.start = start, !.at = t,
                                !.evidence = {}, !.verified = <<>>]
           plan == [old EXCEPT !.reports = Append(@, done)]
<1>4. /\ done \in Report /\ done.performed = last.performed /\ done.start = start /\ done.at = t
      /\ done.verified = <<>>
  <2>1. <<>> \in Seq(Verification) /\ {} \in SUBSET Item
    OBVIOUS
  <2> HIDE DEF plan
  <2>2. QED
    BY <2>1 DEF Report
<1> HIDE DEF done
<1>5. old.reports \in Seq(Report)
  BY DEF Plan
<1>6. /\ Append(old.reports, done) \in Seq(Report)
      /\ DOMAIN Append(old.reports, done) = DOMAIN old.reports \cup {Len(old.reports) + 1}
      /\ Append(old.reports, done)[Len(old.reports) + 1] = done
      /\ Len(Append(old.reports, done)) = Len(old.reports) + 1
      /\ \A i \in DOMAIN old.reports : Append(old.reports, done)[i] = old.reports[i]
  BY <1>4, <1>5
<1>7. /\ plan \in Plan /\ plan.task = old.task /\ plan.review = old.review /\ plan.rows = old.rows
      /\ plan.reports = Append(old.reports, done)
  BY <1>6 DEF Plan
<1> HIDE DEF plan
<1>8. plan.reports # <<>> /\ Latest(plan.reports) = done
  BY <1>6, <1>7 DEF Latest
<1>9. SoundReport(old, done)
  <2>1. old.rows[done.performed].at <= done.start /\ done.start <= done.at
    BY <1>1, <1>2, <1>4 DEF Performed
  <2>2. DOMAIN done.verified = {}
    BY <1>4
  <2>3. QED
    BY <1>3, <1>4, <2>1, <2>2 DEF SoundReport
<1>10. Sound(plan)
  <2>1. \A i \in DOMAIN plan.reports : SoundReport(old, plan.reports[i])
    BY <1>1, <1>6, <1>7, <1>9, SoundReports
  <2>2. QED
    BY <1>1, <1>7, <1>8, <2>1, SoundWith
<1>11. KeepsSites(c, plan)
  BY <1>1, <1>7, SameSites
<1>12. Extends(old, plan)
  BY <1>6, <1>7 DEF Extends
<1>13. Verified(done) = NULL
  BY <1>4 DEF Verified
<1>14. ~IsOpen(plan)
  BY <1>7, <1>8, <1>10, SoundReported
<1>15. FieldMove("CORRECT", c, p, plan)
  BY <1>1, <1>7, <1>8, <1>10, <1>11, <1>12, <1>13, <1>14 DEF FieldMove, Operations
<1>16. QED
  BY <1>1, <1>2, <1>15 DEF plan, done

(* Evidence or a verification added to the current revision. *)
LEMMA AmendMove ==
  ASSUME FieldTypeOK, SoundPlans, SitesKeepMeaning, NEW c \in Cases, NEW p \in DOMAIN plans[c],
         plans[c][p].reports # <<>>, NEW last, last = Latest(plans[c][p].reports),
         NEW report \in Report, report.performed = last.performed, report.outcome = last.outcome,
         report.start = last.start, report.at = last.at, last.evidence \subseteq report.evidence,
         \A v \in DOMAIN last.verified :
           v \in DOMAIN report.verified /\ report.verified[v] = last.verified[v],
         \A v \in DOMAIN report.verified : report.verified[v].covers \subseteq report.evidence,
         NEW op \in {"ATTACH", "VERIFY"}, Verified(report) # NULL <=> op = "VERIFY"
  PROVE  FieldMove(op, c, p, Amended(plans[c][p], report))
<1>1. PICK old \in Plan : old = plans[c][p] /\ Sound(old)
  BY PlanType
<1>2. /\ last = old.reports[Len(old.reports)] /\ Len(old.reports) \in DOMAIN old.reports
      /\ old.reports # <<>>
  BY <1>1, SoundReported
<1>3. SoundReport(old, last)
  BY <1>1, <1>2, SoundReports
<1>4. old.reports \in Seq(Report)
  BY DEF Plan
<1> DEFINE reports == [old.reports EXCEPT ![Len(old.reports)] = report]
           plan == Amended(old, report)
<1>5. /\ reports \in Seq(Report) /\ DOMAIN reports = DOMAIN old.reports
      /\ Len(reports) = Len(old.reports) /\ reports[Len(old.reports)] = report
      /\ \A i \in DOMAIN old.reports : i # Len(old.reports) => reports[i] = old.reports[i]
  BY <1>2, <1>4
<1>6. /\ plan \in Plan /\ plan.task = old.task /\ plan.review = old.review /\ plan.rows = old.rows
      /\ plan.reports = reports
  BY <1>5 DEF Plan, Amended
<1> HIDE DEF plan, reports
<1>7. plan.reports # <<>> /\ Latest(plan.reports) = report
  BY <1>2, <1>5, <1>6 DEF Latest
<1>8. SoundReport(old, report)
  BY <1>3 DEF SoundReport
<1>9. Sound(plan)
  <2>1. \A i \in DOMAIN plan.reports : SoundReport(old, plan.reports[i])
    BY <1>1, <1>5, <1>6, <1>8, SoundReports
  <2>2. QED
    BY <1>1, <1>2, <1>6, <1>7, <2>1, SoundWith
<1>10. KeepsSites(c, plan)
  BY <1>1, <1>6, SameSites
<1>11. Extends(old, plan)
  <2>1. \A i \in DOMAIN old.rows : i \in DOMAIN plan.rows /\ plan.rows[i] = old.rows[i]
    BY <1>6
  <2>2. \A i \in DOMAIN old.reports :
          /\ i \in DOMAIN plan.reports
          /\ plan.reports[i] = IF i = Len(old.reports) THEN report ELSE old.reports[i]
    BY <1>2, <1>5, <1>6
  <2>3. QED
    BY <1>2, <1>6, <2>1, <2>2 DEF Extends
<1>12. ~IsOpen(plan)
  BY <1>6, <1>7, <1>9, SoundReported
<1>13. FieldMove(op, c, p, plan)
  BY <1>1, <1>6, <1>7, <1>9, <1>10, <1>11, <1>12 DEF FieldMove, Operations
<1>14. QED
  BY <1>1, <1>13 DEF plan

(* A plan is proposed, by a person or in the agent's name. *)
LEMMA ProposeMove ==
  ASSUME FieldTypeOK, NEW c \in Cases, NEW task \in Requests, NEW review \in Nat, NEW x \in Entries,
         NEW ends \in Dues, NEW author \in {"HUMAN", "AGENT"}, NEW t \in Times,
         OpenPlansOn(c, task) = {}, SiteUnchanged(c, x)
  PROVE  FieldMove("PROPOSE", c, Len(plans[c]) + 1, NewPlan(task, review, x, ends, author, t))
<1> DEFINE row == [status |-> "PROPOSED", site |-> x, ends |-> ends, author |-> author, at |-> t]
           plan == NewPlan(task, review, x, ends, author, t)
<1>1. row \in Row /\ row.status = "PROPOSED" /\ row.site = x
  BY DEF Row, Open
<1> HIDE DEF row
<1>2. plan.rows = <<row>> /\ plan.reports = <<>> /\ plan.task = task
  BY DEF NewPlan, row
<1>3. plan \in Plan
  <2>1. <<row>> \in Seq(Row) /\ <<>> \in Seq(Report)
    BY <1>1
  <2>2. plan = [task |-> task, review |-> review, reports |-> <<>>, activity |-> 0, rows |-> <<row>>]
    BY DEF NewPlan, row
  <2> HIDE DEF plan
  <2>3. QED
    BY <2>1, <2>2 DEF Plan
<1> HIDE DEF plan
<1>4. Len(plan.rows) = 1 /\ DOMAIN plan.rows = {1} /\ plan.rows[1] = row /\ Now(plan) = row
  BY <1>2 DEF Now, Latest
<1>5. Sound(plan)
  <2>1. plan.rows # <<>> /\ DOMAIN plan.reports = {}
    BY <1>2, <1>4
  <2>2. QED
    BY <1>1, <1>2, <1>4, <2>1 DEF Sound
<1>6. KeepsSites(c, plan)
  BY <1>1, <1>4 DEF KeepsSites
<1>7. \A q \in DOMAIN plans[c] : IsOpen(plans[c][q]) => plans[c][q].task # task
  BY DEF OpenPlansOn, PlansOn, IsOpen
<1>8. QED
  BY <1>2, <1>3, <1>4, <1>5, <1>6, <1>7 DEF FieldMove, Begins, Operations, plan

(* Every row that an operation of a person adds is in a person's name. *)
Signs(c, p, plan) ==
  \A i \in DOMAIN plan.rows :
    plan.rows[i].author = "HUMAN" \/ (p \in DOMAIN plans[c] /\ i \in DOMAIN plans[c][p].rows)

(* A saved operation of a person. *)
Worked(c, t) ==
  \E op \in Operations, p \in Nat, plan \in Plan :
    /\ FieldMove(op, c, p, plan) /\ Signs(c, p, plan)
    /\ Mutate(op, c, caseRev[c], p, plan, t)

LEMMA SignsRevised ==
  ASSUME FieldTypeOK, SoundPlans, NEW c \in Cases, NEW p \in DOMAIN plans[c], NEW row \in Row,
         row.author = "HUMAN", NEW plan, plan.rows = Revised(plans[c][p], row).rows
  PROVE  Signs(c, p, plan)
<1>1. plans[c][p] \in Plan
  BY PlanType
<1>2. QED
  BY <1>1, RevisedFacts DEF Signs

LEMMA SignsSame ==
  ASSUME NEW c, NEW p \in DOMAIN plans[c], NEW plan, plan.rows = plans[c][p].rows
  PROVE  Signs(c, p, plan)
BY DEF Signs

LEMMA MoveWorked ==
  ASSUME FieldTypeOK, NEW c \in Cases, NEW op, NEW p, NEW plan, NEW expected, NEW t,
         FieldMove(op, c, p, plan), Signs(c, p, plan), Mutate(op, c, expected, p, plan, t)
  PROVE  Worked(c, t)
<1>1. op \in Operations /\ plan \in Plan
  BY DEF FieldMove
<1>2. p \in Nat
  BY DEF FieldMove, Begins, FieldTypeOK
<1>3. expected = caseRev[c]
  BY DEF Mutate
<1>4. QED
  BY <1>1, <1>2, <1>3 DEF Worked

LEMMA DecideWorked ==
  ASSUME FieldTypeOK, SoundPlans, NEW c \in Cases, NEW expected, NEW p \in DOMAIN plans[c], NEW row,
         NEW action \in {"APPROVE", "DEFER", "CANCEL"}, NEW reg, NEW t \in Times,
         Decide(c, expected, p, row, action, reg, t)
  PROVE  Worked(c, t)
<1>1. PICK old \in Plan : old = plans[c][p] /\ Sound(old)
  BY PlanType
<1>2. Now(old) \in Row
  BY <1>1, NowType DEF Sound
<1> DEFINE status == CASE action = "APPROVE" -> "APPROVED"
                       [] action = "DEFER" -> "DEFERRED"
                       [] action = "CANCEL" -> "CANCELLED"
           next == [Now(old) EXCEPT !.status = status, !.author = "HUMAN", !.at = t]
<1>3. status \in Open \cup {"CANCELLED"}
  BY DEF Open
<1>4. /\ IsOpen(old) /\ SiteUnchanged(c, Now(old).site)
      /\ Mutate("DECIDE", c, expected, p, Revised(old, next), t)
  BY <1>1 DEF Decide, Decidable, IsOpen
<1> HIDE DEF status
<1>5. /\ next \in Row /\ next.status \in Open \cup {"CANCELLED"} /\ next.author = "HUMAN"
      /\ next.site = Now(old).site
  BY <1>2, <1>3 DEF Row
<1> HIDE DEF next
<1>6. FieldMove("DECIDE", c, p, Revised(old, next))
  BY <1>1, <1>4, <1>5, RevisedMove
<1>7. Signs(c, p, Revised(old, next))
  BY <1>1, <1>5, SignsRevised
<1>8. QED
  BY <1>4, <1>6, <1>7, MoveWorked

LEMMA ModifyWorked ==
  ASSUME FieldTypeOK, SoundPlans, NEW c \in Cases, NEW expected, NEW p \in DOMAIN plans[c], NEW row,
         NEW x \in Entries, NEW ends \in Dues, NEW reg, NEW t \in Times,
         Modify(c, expected, p, row, x, ends, reg, t)
  PROVE  Worked(c, t)
<1> DEFINE next == [status |-> "APPROVED", site |-> x, ends |-> ends, author |-> "HUMAN", at |-> t]
<1>1. /\ IsOpen(plans[c][p]) /\ SiteUnchanged(c, x)
      /\ Mutate("MODIFY", c, expected, p, Revised(plans[c][p], next), t)
  BY DEF Modify, Decidable, IsOpen
<1>2. next \in Row /\ next.status \in Open /\ next.author = "HUMAN" /\ next.site = x
  BY DEF Row, Open
<1> HIDE DEF next
<1>3. FieldMove("MODIFY", c, p, Revised(plans[c][p], next))
  BY <1>1, <1>2, RevisedMove
<1>4. Signs(c, p, Revised(plans[c][p], next))
  BY <1>2, SignsRevised
<1>5. QED
  BY <1>1, <1>3, <1>4, MoveWorked

LEMMA ReportWorked ==
  ASSUME FieldTypeOK, SoundPlans, SitesKeepMeaning, NEW c \in Cases, NEW expected,
         NEW p \in DOMAIN plans[c], NEW row, NEW outcome \in Outcomes, NEW start \in Times,
         NEW t \in Times, ReportResult(c, expected, p, row, outcome, start, t)
  PROVE  Worked(c, t)
<1> DEFINE plan == [Revised(plans[c][p],
                       [Now(plans[c][p]) EXCEPT !.status = "REPORTED", !.author = "HUMAN", !.at = t])
                      EXCEPT !.reports = <<[performed |-> Len(plans[c][p].rows), outcome |-> outcome,
                                            start |-> start, at |-> t, evidence |-> {},
                                            verified |-> <<>>]>>]
<1>1. /\ Now(plans[c][p]).status = "APPROVED" /\ Performed(Now(plans[c][p]), start, t)
      /\ Mutate("REPORT", c, expected, p, plan, t)
  BY DEF ReportResult
<1>2. FieldMove("REPORT", c, p, plan)
  BY <1>1, ReportMove
<1>3. Signs(c, p, plan)
  <2> DEFINE next == [Now(plans[c][p]) EXCEPT !.status = "REPORTED", !.author = "HUMAN", !.at = t]
  <2>1. Now(plans[c][p]) \in Row
    BY PlanType, NowType DEF Sound
  <2>2. next \in Row /\ next.author = "HUMAN"
    BY <2>1 DEF Row
  <2>3. plan.rows = Revised(plans[c][p], next).rows
    BY PlanType DEF Revised, Plan
  <2> HIDE DEF next
  <2>4. QED
    BY <2>2, <2>3, SignsRevised
<1> HIDE DEF plan
<1>4. QED
  BY <1>1, <1>2, <1>3, MoveWorked

LEMMA CorrectWorked ==
  ASSUME FieldTypeOK, SoundPlans, SitesKeepMeaning, NEW c \in Cases, NEW expected,
         NEW p \in DOMAIN plans[c], NEW revision, NEW outcome \in Outcomes, NEW start \in Times,
         NEW t \in Times, Correct(c, expected, p, revision, outcome, start, t)
  PROVE  Worked(c, t)
<1> DEFINE plan == [plans[c][p] EXCEPT !.reports = Append(@,
                      [Latest(plans[c][p].reports) EXCEPT !.outcome = outcome, !.start = start,
                                                  !.at = t, !.evidence = {}, !.verified = <<>>])]
<1>1. /\ plans[c][p].reports # <<>>
      /\ Performed(plans[c][p].rows[Latest(plans[c][p].reports).performed], start, t)
      /\ Mutate("CORRECT", c, expected, p, plan, t)
  BY DEF Correct, Seen
<1>2. FieldMove("CORRECT", c, p, plan)
  BY <1>1, CorrectMove
<1>3. Signs(c, p, plan)
  BY PlanType, SignsSame DEF Plan
<1> HIDE DEF plan
<1>4. QED
  BY <1>1, <1>2, <1>3, MoveWorked

(* Evidence that the latest verification cannot have covered. *)
LEMMA AttachWorked ==
  ASSUME FieldTypeOK, SoundPlans, SitesKeepMeaning, NEW c \in Cases, NEW expected,
         NEW p \in DOMAIN plans[c], NEW revision, NEW ref \in References, NEW t \in Times,
         Attach(c, expected, p, revision, ref, t)
  PROVE  Worked(c, t)
<1>1. PICK old \in Plan : old = plans[c][p] /\ Sound(old)
  BY PlanType
<1>2. old.reports # <<>>
  BY <1>1 DEF Attach, Seen
<1>3. PICK last \in Report : /\ last = Latest(old.reports) /\ last = old.reports[Len(old.reports)]
                             /\ Len(old.reports) \in DOMAIN old.reports
  BY <1>1, <1>2, SoundReported
<1> DEFINE item == [ref |-> ref, at |-> t]
           report == [last EXCEPT !.evidence = @ \cup {item}]
<1>4. /\ \A other \in last.evidence : other.ref # ref
      /\ Mutate("ATTACH", c, expected, p, Amended(old, report), t)
  BY <1>1, <1>3 DEF Attach
<1>5. item \in Item /\ item \notin last.evidence
  BY <1>4 DEF Item
<1> HIDE DEF item
<1>6. /\ report \in Report /\ report.performed = last.performed /\ report.outcome = last.outcome
      /\ report.start = last.start /\ report.at = last.at
      /\ report.evidence = last.evidence \cup {item} /\ report.verified = last.verified
  BY <1>5 DEF Report
<1> HIDE DEF report
<1>7. \A v \in DOMAIN last.verified : last.verified[v].covers \subseteq last.evidence
  BY <1>1, <1>3, SoundReports DEF SoundReport
<1>8. Verified(report) = NULL
  <2>1. CASE last.verified # <<>>
    <3>1. last.verified \in Seq(Verification)
      BY DEF Report
    <3>2. Len(last.verified) \in DOMAIN last.verified
      BY <2>1, <3>1, LatestIn
    <3>3. Latest(last.verified).covers \subseteq last.evidence
      BY <1>7, <3>2 DEF Latest
    <3>4. Latest(last.verified).covers # report.evidence
      BY <1>5, <1>6, <3>3
    <3>5. QED
      BY <1>6, <3>4 DEF Verified
  <2>2. QED
    BY <1>6, <2>1 DEF Verified
<1>9. FieldMove("ATTACH", c, p, Amended(old, report))
  <2>1. \A v \in DOMAIN report.verified : report.verified[v].covers \subseteq report.evidence
    BY <1>6, <1>7
  <2>2. QED
    BY <1>1, <1>2, <1>3, <1>6, <1>8, <2>1, AmendMove
<1>10. Signs(c, p, Amended(old, report))
  BY <1>1, SignsSame DEF Amended, Plan
<1>11. QED
  BY <1>1, <1>4, <1>9, <1>10, MoveWorked

LEMMA VerifyWorked ==
  ASSUME FieldTypeOK, SoundPlans, SitesKeepMeaning, NEW c \in Cases, NEW expected,
         NEW p \in DOMAIN plans[c], NEW revision, NEW covers, NEW t \in Times,
         Verify(c, expected, p, revision, covers, t)
  PROVE  Worked(c, t)
<1>1. PICK old \in Plan : old = plans[c][p] /\ Sound(old)
  BY PlanType
<1>2. old.reports # <<>>
  BY <1>1 DEF Verify, Seen
<1>3. PICK last \in Report : /\ last = Latest(old.reports) /\ last = old.reports[Len(old.reports)]
                             /\ Len(old.reports) \in DOMAIN old.reports
  BY <1>1, <1>2, SoundReported
<1> DEFINE mark == [covers |-> covers, at |-> t]
           report == [last EXCEPT !.verified = Append(@, mark)]
<1>4. covers = last.evidence /\ Mutate("VERIFY", c, expected, p, Amended(old, report), t)
  BY <1>1, <1>3 DEF Verify
<1>5. mark \in Verification /\ mark.covers = last.evidence
  BY <1>4 DEF Verification, Report
<1> HIDE DEF mark
<1>6. last.verified \in Seq(Verification)
  BY DEF Report
<1>7. /\ Append(last.verified, mark) \in Seq(Verification)
      /\ DOMAIN Append(last.verified, mark) = DOMAIN last.verified \cup {Len(last.verified) + 1}
      /\ Len(Append(last.verified, mark)) = Len(last.verified) + 1
      /\ Append(last.verified, mark)[Len(last.verified) + 1] = mark
      /\ \A v \in DOMAIN last.verified : Append(last.verified, mark)[v] = last.verified[v]
  BY <1>5, <1>6
<1>8. /\ report \in Report /\ report.performed = last.performed /\ report.outcome = last.outcome
      /\ report.start = last.start /\ report.at = last.at /\ report.evidence = last.evidence
      /\ report.verified = Append(last.verified, mark)
  BY <1>7 DEF Report
<1> HIDE DEF report
<1>9. \A v \in DOMAIN last.verified : last.verified[v].covers \subseteq last.evidence
  BY <1>1, <1>3, SoundReports DEF SoundReport
<1>10. Verified(report) # NULL
  <2>1. report.verified # <<>> /\ Latest(report.verified) = mark
    BY <1>7, <1>8 DEF Latest
  <2>2. Verified(report) = mark
    BY <1>5, <1>8, <2>1 DEF Verified
  <2>3. QED
    BY <1>5, <2>2, VerificationIsNotNull
<1>11. FieldMove("VERIFY", c, p, Amended(old, report))
  <2>1. \A v \in DOMAIN report.verified : report.verified[v].covers \subseteq report.evidence
    BY <1>5, <1>7, <1>8, <1>9
  <2>2. QED
    BY <1>1, <1>2, <1>3, <1>7, <1>8, <1>10, <2>1, AmendMove
<1>12. Signs(c, p, Amended(old, report))
  BY <1>1, SignsSame DEF Amended, Plan
<1>13. QED
  BY <1>1, <1>4, <1>11, <1>12, MoveWorked

(* Whatever the people of a case do. *)
LEMMA PeopleWorked ==
  ASSUME FieldTypeOK, LedgerTypeOK, SoundPlans, SitesKeepMeaning, FieldPeople
  PROVE  \E c \in Cases : \E t \in caseTime[c] .. MaxTime : Worked(c, t)
<1>1. PICK c \in Cases :
        \E t \in caseTime[c] .. MaxTime : Coordinate(c, caseRev[c], t) \/ Operate(c, caseRev[c], t)
  BY DEF FieldPeople
<1>2. PICK t \in caseTime[c] .. MaxTime : Coordinate(c, caseRev[c], t) \/ Operate(c, caseRev[c], t)
  BY <1>1
<1>3. t \in Times
  BY <1>2, LedgerAssumption DEF LedgerTypeOK, Times
<1>4. ASSUME NEW reg \in Registries, NEW task \in Requests, NEW x \in Entries, NEW ends \in Dues,
             NEW review \in 1 .. reviews[c][task].rev,
             Propose(c, caseRev[c], task, review, x, ends, reg, t)
      PROVE  Worked(c, t)
  <2>1. review \in Nat
    OBVIOUS
  <2>2. FieldMove("PROPOSE", c, Len(plans[c]) + 1, NewPlan(task, review, x, ends, "HUMAN", t))
    BY <1>3, <1>4, <2>1, ProposeMove DEF Propose
  <2>3. Signs(c, Len(plans[c]) + 1, NewPlan(task, review, x, ends, "HUMAN", t))
    BY DEF Signs, NewPlan
  <2>4. Len(plans[c]) + 1 \in Nat
    BY DEF FieldTypeOK
  <2>5. QED
    BY <1>4, <2>2, <2>3, <2>4, MoveWorked DEF Propose
<1>5. CASE Coordinate(c, caseRev[c], t)
  BY <1>3, <1>4, <1>5, DecideWorked, ModifyWorked DEF Coordinate
<1>6. CASE Operate(c, caseRev[c], t)
  BY <1>3, <1>6, ReportWorked, CorrectWorked, AttachWorked, VerifyWorked DEF Operate
<1>7. QED
  BY <1>2, <1>5, <1>6

----------------------------------------------------------------------------
(* What is saved keeps the invariants                                      *)

(* A saved plan is the plan of the move, but for the mark of its activity. *)
LEMMA SavedFields ==
  ASSUME NEW plan \in Plan, NEW rev, NEW saved, saved = [plan EXCEPT !.activity = rev]
  PROVE  /\ saved.task = plan.task /\ saved.review = plan.review /\ saved.rows = plan.rows
         /\ saved.reports = plan.reports /\ saved.activity = rev
         /\ Now(saved) = Now(plan) /\ ResultOf(saved) = ResultOf(plan)
<1>1. /\ saved.task = plan.task /\ saved.review = plan.review /\ saved.rows = plan.rows
      /\ saved.reports = plan.reports /\ saved.activity = rev
  BY DEF Plan
<1>2. QED
  BY <1>1 DEF Now, ResultOf

(* What a step that saves one plan and its receipt may be relied on for:   *)
(* the clauses of Saves, with the case moved on to the revision or beyond. *)
Recorded(op, c, p, plan, rev, t) ==
  /\ op \in Operations /\ c \in Cases /\ plan \in Plan /\ rev \in Nat /\ t \in Times
  /\ FieldMove(op, c, p, plan)
  /\ Saves(op, c, p, plan, rev, t)
  /\ rev > caseRev[c] /\ rev <= caseRev'[c] /\ t <= caseTime'[c]
  /\ \A x \in Cases : caseRev[x] <= caseRev'[x] /\ caseTime[x] <= caseTime'[x]

LEMMA SoundSaved ==
  ASSUME SoundPlans, NEW op, NEW c, NEW p, NEW plan, NEW rev, NEW t,
         Recorded(op, c, p, plan, rev, t)
  PROVE  SoundPlans'
<1> SUFFICES ASSUME NEW x \in Cases, NEW q \in DOMAIN plans'[x] PROVE Sound(plans'[x][q])
  BY DEF SoundPlans, Sound, Now
<1>1. Sound(plan) /\ plan \in Plan
  BY DEF Recorded, FieldMove
<1>2. CASE x = c /\ q = p
  <2>1. plans'[x][q] = [plan EXCEPT !.activity = rev]
    BY <1>2 DEF Recorded, Saves
  <2>2. PICK saved : saved = plans'[x][q]
    OBVIOUS
  <2>3. saved.rows = plan.rows /\ saved.reports = plan.reports /\ Now(saved) = Now(plan)
    BY <1>1, <2>1, <2>2, SavedFields
  <2>4. Sound(saved)
    BY <1>1, <2>3 DEF Sound
  <2>5. QED
    BY <2>2, <2>4
<1>3. CASE x # c \/ q # p
  <2>1. q \in DOMAIN plans[x] /\ plans'[x][q] = plans[x][q]
    BY <1>3 DEF Recorded, Saves
  <2>2. QED
    BY <2>1 DEF SoundPlans
<1>4. QED
  BY <1>2, <1>3

LEMMA OneOpenSaved ==
  ASSUME OneOpenPlan, NEW op, NEW c, NEW p, NEW plan, NEW rev, NEW t,
         Recorded(op, c, p, plan, rev, t)
  PROVE  OneOpenPlan'
<1>1. PICK saved : saved = plans'[c][p] /\ saved = [plan EXCEPT !.activity = rev]
  BY DEF Recorded, Saves
<1>2. Now(saved) = Now(plan) /\ saved.task = plan.task
  BY <1>1, SavedFields DEF Recorded
<1>3. IsOpen(saved) <=> IsOpen(plan)
  BY <1>2 DEF IsOpen
<1>4. ASSUME NEW q \in DOMAIN plans[c] \ {p}, IsOpen(plans[c][q]), IsOpen(plan)
      PROVE  plans[c][q].task # plan.task
  <2>1. CASE Begins(op, c, p, plan)
    BY <1>4, <2>1 DEF Begins
  <2>2. CASE /\ p \in DOMAIN plans[c] /\ Extends(plans[c][p], plan)
             /\ IsOpen(plan) => IsOpen(plans[c][p])
    BY <1>4, <2>2 DEF Extends, OneOpenPlan, Recorded
  <2>3. QED
    BY <2>1, <2>2 DEF Recorded, FieldMove
<1>5. ASSUME NEW x \in Cases, NEW q \in DOMAIN plans'[x], x # c \/ q # p
      PROVE  q \in DOMAIN plans[x] /\ plans'[x][q] = plans[x][q]
  BY <1>5 DEF Recorded, Saves
<1> SUFFICES ASSUME NEW x \in Cases, NEW q \in DOMAIN plans'[x], NEW r \in DOMAIN plans'[x],
                    IsOpen(plans'[x][q]), IsOpen(plans'[x][r]),
                    plans'[x][q].task = plans'[x][r].task
             PROVE  q = r
  BY DEF OneOpenPlan, IsOpen, Now
<1>6. CASE x = c /\ q = p /\ r # p
  BY <1>1, <1>2, <1>3, <1>4, <1>5, <1>6
<1>7. CASE x = c /\ r = p /\ q # p
  BY <1>1, <1>2, <1>3, <1>4, <1>5, <1>7
<1>8. CASE x # c \/ (q # p /\ r # p)
  BY <1>5, <1>8 DEF OneOpenPlan
<1>9. QED
  BY <1>6, <1>7, <1>8

LEMMA SitesSaved ==
  ASSUME SitesKeepMeaning, NEW op, NEW c, NEW p, NEW plan, NEW rev, NEW t,
         Recorded(op, c, p, plan, rev, t)
  PROVE  SitesKeepMeaning'
<1>1. PICK x \in Entries : /\ SiteUnchanged(c, x)
                           /\ \A i \in DOMAIN plan.rows :
                                plan.rows[i].site = x \/ IsSaved(c, plan.rows[i].site)
  BY DEF Recorded, FieldMove, KeepsSites
<1>2. plans'[c][p].rows = plan.rows
  BY SavedFields DEF Recorded, Saves
<1>3. ASSUME NEW q \in DOMAIN plans'[c], NEW i \in DOMAIN plans'[c][q].rows
      PROVE  plans'[c][q].rows[i].site = x \/ IsSaved(c, plans'[c][q].rows[i].site)
  <2>1. CASE q = p
    BY <1>1, <1>2, <2>1
  <2>2. CASE q # p
    <3>1. q \in DOMAIN plans[c] /\ plans'[c][q] = plans[c][q]
      BY <2>2 DEF Recorded, Saves
    <3>2. QED
      BY <3>1 DEF IsSaved
  <2>3. QED
    BY <2>1, <2>2
<1>4. ASSUME NEW y, NEW z, y = x \/ IsSaved(c, y), z = x \/ IsSaved(c, z),
             y.site = z.site, y.rev = z.rev
      PROVE  y = z
  <2>1. c \in Cases
    BY DEF Recorded
  <2>2. CASE y = x /\ IsSaved(c, z)
    BY <1>1, <1>4, <2>2 DEF IsSaved, SiteUnchanged
  <2>3. CASE z = x /\ IsSaved(c, y)
    BY <1>1, <1>4, <2>3 DEF IsSaved, SiteUnchanged
  <2>4. CASE IsSaved(c, y) /\ IsSaved(c, z)
    BY <1>4, <2>1, <2>4 DEF IsSaved, SitesKeepMeaning
  <2>5. QED
    BY <1>4, <2>2, <2>3, <2>4
<1> SUFFICES ASSUME NEW d \in Cases, NEW q \in DOMAIN plans'[d], NEW r \in DOMAIN plans'[d],
                    NEW i \in DOMAIN plans'[d][q].rows, NEW j \in DOMAIN plans'[d][r].rows,
                    plans'[d][q].rows[i].site.site = plans'[d][r].rows[j].site.site,
                    plans'[d][q].rows[i].site.rev = plans'[d][r].rows[j].site.rev
             PROVE  plans'[d][q].rows[i].site = plans'[d][r].rows[j].site
  BY DEF SitesKeepMeaning
<1>5. CASE d = c
  <2>1. PICK y, z : y = plans'[d][q].rows[i].site /\ z = plans'[d][r].rows[j].site
    OBVIOUS
  <2>2. (y = x \/ IsSaved(c, y)) /\ (z = x \/ IsSaved(c, z))
    BY <1>3, <1>5, <2>1
  <2>3. QED
    BY <1>4, <2>1, <2>2
<1>6. CASE d # c
  BY <1>6 DEF Recorded, Saves, SitesKeepMeaning
<1>7. QED
  BY <1>5, <1>6

(* A receipt names what the plan it is saved with has. *)
LEMMA ShownIsNamed ==
  ASSUME NEW plan \in Plan, plan.rows # <<>>, NEW r, r.row = Len(plan.rows), r.value = Now(plan),
         r.result = ResultOf(plan), NEW saved, saved.rows = plan.rows, saved.reports = plan.reports
  PROVE  Names(r, saved)
<1>1. r.row \in DOMAIN saved.rows /\ saved.rows[r.row] = r.value
  BY NowType DEF Now, Latest
<1>2. CASE plan.reports = <<>>
  BY <1>1, <1>2 DEF Names, ResultOf
<1>3. CASE plan.reports # <<>>
  <2>1. plan.reports \in Seq(Report)
    BY DEF Plan
  <2>2. PICK last \in Report : /\ last = Latest(plan.reports) /\ Len(plan.reports) \in DOMAIN plan.reports
                               /\ last = plan.reports[Len(plan.reports)]
    BY <1>3, <2>1, LatestIn DEF Latest
  <2>3. r.result = [revision |-> Len(plan.reports), performed |-> last.performed,
                    outcome |-> last.outcome, start |-> last.start, at |-> last.at,
                    evidence |-> last.evidence, verification |-> Verified(last)]
    BY <1>3, <2>2 DEF ResultOf
  <2>4. Verified(last) # NULL => \E v \in DOMAIN last.verified : last.verified[v] = Verified(last)
    <3>1. last.verified \in Seq(Verification)
      BY DEF Report
    <3>2. QED
      BY <3>1, LatestIn DEF Verified, Latest
  <2>5. QED
    BY <1>1, <2>2, <2>3, <2>4 DEF Names
<1>4. QED
  BY <1>2, <1>3

LEMMA NamesKept ==
  ASSUME NEW r, NEW old, Names(r, old), NEW plan, Extends(old, plan)
  PROVE  Names(r, plan)
<1>1. r.row \in DOMAIN plan.rows /\ plan.rows[r.row] = r.value
  BY DEF Names, Extends
<1>2. ASSUME r.result # NoResult
      PROVE  /\ r.result.revision \in DOMAIN plan.reports
             /\ LET report == plan.reports[r.result.revision]
                IN /\ r.result.performed = report.performed /\ r.result.outcome = report.outcome
                   /\ r.result.start = report.start /\ r.result.at = report.at
                   /\ r.result.evidence \subseteq report.evidence
                   /\ r.result.verification # NULL =>
                        \E v \in DOMAIN report.verified : report.verified[v] = r.result.verification
  BY <1>2 DEF Names, Extends
<1>3. QED
  BY <1>1, <1>2 DEF Names

LEMMA ReceiptsSaved ==
  ASSUME LedgerTypeOK, LedgerTypeOK', FieldTypeOK, ReceiptsKept,
         NEW op, NEW c, NEW p, NEW plan, NEW rev, NEW t, Recorded(op, c, p, plan, rev, t)
  PROVE  ReceiptsKept'
<1>1. PICK saved : saved = plans'[c][p] /\ saved = [plan EXCEPT !.activity = rev]
  BY DEF Recorded, Saves
<1>2. saved.rows = plan.rows /\ saved.reports = plan.reports /\ saved.task = plan.task
      /\ saved.review = plan.review
  BY <1>1, SavedFields DEF Recorded
<1>3. plan.rows # <<>> /\ plan \in Plan
  BY DEF Recorded, FieldMove, Sound
<1> SUFFICES ASSUME NEW x \in Cases, NEW i \in DOMAIN work'[x]
             PROVE  /\ work'[x][i].rev <= caseRev'[x] /\ work'[x][i].at <= caseTime'[x]
                    /\ work'[x][i].plan \in DOMAIN plans'[x]
                    /\ Names(work'[x][i], plans'[x][work'[x][i].plan])
  BY DEF ReceiptsKept, Names
<1>4. CASE x = c /\ i = Len(work[c]) + 1
  <2>1. PICK r : r = work'[x][i]
    OBVIOUS
  <2>2. r = [op |-> op, rev |-> rev, plan |-> p, row |-> Len(plan.rows),
             value |-> Now(plan), result |-> ResultOf(plan), at |-> t]
    BY <1>4, <2>1 DEF Recorded, Saves
  <2>3. /\ r.rev = rev /\ r.at = t /\ r.plan = p /\ r.row = Len(plan.rows)
        /\ r.value = Now(plan) /\ r.result = ResultOf(plan)
    BY <2>2
  <2>4. r.rev <= caseRev'[x] /\ r.at <= caseTime'[x] /\ r.plan \in DOMAIN plans'[x]
    BY <1>4, <2>3 DEF Recorded, Saves
  <2>5. Names(r, saved)
    BY <1>2, <1>3, <2>3, ShownIsNamed
  <2>6. QED
    BY <1>1, <1>4, <2>1, <2>3, <2>4, <2>5
<1>5. CASE i \in DOMAIN work[x] /\ work'[x][i] = work[x][i]
  <2>1. PICK r \in FieldReceipt : r = work[x][i] /\ r = work'[x][i]
    BY <1>5 DEF FieldTypeOK
  <2>2. /\ r.rev <= caseRev[x] /\ r.at <= caseTime[x] /\ r.plan \in DOMAIN plans[x]
        /\ Names(r, plans[x][r.plan])
    BY <1>5, <2>1 DEF ReceiptsKept
  <2>3. r.rev <= caseRev'[x] /\ r.at <= caseTime'[x]
    <3>1. r.rev \in Nat /\ r.at \in Int
      BY DEF FieldReceipt, Times
    <3>2. /\ caseRev[x] \in Int /\ caseRev'[x] \in Int /\ caseTime[x] \in Int /\ caseTime'[x] \in Int
      BY DEF LedgerTypeOK, Times
    <3>3. caseRev[x] <= caseRev'[x] /\ caseTime[x] <= caseTime'[x]
      BY DEF Recorded
    <3>4. QED
      BY <2>2, <3>1, <3>2, <3>3
  <2>4. r.plan \in DOMAIN plans'[x]
    BY <2>2 DEF Recorded, Saves
  <2>5. CASE x = c /\ r.plan = p
    <3>1. p \in DOMAIN plans[c] /\ p # Len(plans[c]) + 1
      BY <2>2, <2>5 DEF FieldTypeOK
    <3>2. Extends(plans[c][p], plan)
      BY <3>1 DEF Recorded, FieldMove, Begins
    <3>3. Extends(plans[c][p], saved)
      BY <1>2, <3>2 DEF Extends
    <3>4. QED
      BY <1>1, <2>1, <2>2, <2>3, <2>4, <2>5, <3>3, NamesKept
  <2>6. CASE x # c \/ r.plan # p
    BY <2>1, <2>2, <2>3, <2>4, <2>6 DEF Recorded, Saves
  <2>7. QED
    BY <2>5, <2>6
<1>6. QED
  BY <1>4, <1>5 DEF Recorded, Saves

LEMMA LastSaved ==
  ASSUME LedgerTypeOK, FieldTypeOK, ReceiptsKept, LastReceipts,
         NEW op, NEW c, NEW p, NEW plan, NEW rev, NEW t, Recorded(op, c, p, plan, rev, t)
  PROVE  LastReceipts'
<1> DEFINE n == Len(work[c]) + 1
<1>1. PICK saved : saved = plans'[c][p] /\ saved = [plan EXCEPT !.activity = rev]
  BY DEF Recorded, Saves
<1>2. /\ saved.activity = rev /\ Now(saved) = Now(plan) /\ ResultOf(saved) = ResultOf(plan)
      /\ saved.rows = plan.rows /\ saved.reports = plan.reports
  BY <1>1, SavedFields DEF Recorded
<1>3. PICK new : /\ new = work'[c][n] /\ new.op = op /\ new.rev = rev /\ new.plan = p
                 /\ new.row = Len(plan.rows) /\ new.value = Now(plan) /\ new.result = ResultOf(plan)
  BY DEF Recorded, Saves
<1>4. /\ n \notin DOMAIN work[c] /\ DOMAIN work'[c] = DOMAIN work[c] \cup {n}
      /\ \A j \in DOMAIN work[c] : work'[c][j] = work[c][j] /\ j < n
  BY DEF Recorded, Saves, FieldTypeOK
<1> HIDE DEF n
<1>5. \A j \in DOMAIN work[c] : work[c][j].rev # rev
  <2> SUFFICES ASSUME NEW j \in DOMAIN work[c] PROVE work[c][j].rev # rev
    OBVIOUS
  <2>1. PICK r \in FieldReceipt : r = work[c][j]
    BY DEF FieldTypeOK, Recorded
  <2>2. r.rev <= caseRev[c] /\ r.rev \in Nat /\ caseRev[c] \in Nat
    BY <2>1 DEF ReceiptsKept, Recorded, FieldReceipt, LedgerTypeOK
  <2>3. QED
    BY <2>1, <2>2 DEF Recorded
<1> SUFFICES ASSUME NEW x \in Cases, NEW q \in DOMAIN plans'[x]
             PROVE  \E i \in DOMAIN work'[x] :
                      /\ work'[x][i].plan = q /\ work'[x][i].rev = plans'[x][q].activity
                      /\ \A j \in DOMAIN work'[x] :
                           work'[x][j].plan = q /\ j # i => j < i /\ work'[x][j].rev # plans'[x][q].activity
                      /\ Shows(work'[x][i], plans'[x][q])
  BY DEF LastReceipts, IsLast, Shows
<1>6. CASE x = c /\ q = p
  <2>1. Shows(new, saved)
    BY <1>2, <1>3 DEF Shows, Recorded, FieldMove
  <2>2. n \in DOMAIN work'[c]
    BY <1>4
  <2>3. \A j \in DOMAIN work'[c] : j # n => j < n /\ work'[c][j].rev # rev
    BY <1>4, <1>5
  <2>4. /\ work'[x][n] = new /\ plans'[x][q] = saved /\ new.plan = q
        /\ saved.activity = rev /\ new.rev = rev
    BY <1>1, <1>2, <1>3, <1>6
  <2>5. n \in DOMAIN work'[x] /\ \A j \in DOMAIN work'[x] : j # n => j < n /\ work'[x][j].rev # rev
    BY <1>6, <2>2, <2>3
  <2>6. Shows(work'[x][n], plans'[x][q])
    BY <2>1, <2>4
  <2>7. QED
    BY <2>4, <2>5, <2>6
<1>7. CASE x # c \/ q # p
  <2>1. q \in DOMAIN plans[x] /\ plans'[x][q] = plans[x][q]
    BY <1>7 DEF Recorded, Saves
  <2>2. PICK i \in DOMAIN work[x] : IsLast(x, q, i) /\ Shows(work[x][i], plans[x][q])
    BY <2>1 DEF LastReceipts
  <2>3. /\ work[x][i].plan = q /\ work[x][i].rev = plans[x][q].activity
        /\ \A j \in DOMAIN work[x] :
             work[x][j].plan = q /\ j # i => j < i /\ work[x][j].rev # plans[x][q].activity
    BY <2>2 DEF IsLast
  <2>4. /\ i \in DOMAIN work'[x] /\ work'[x][i] = work[x][i]
        /\ \A j \in DOMAIN work'[x] : work'[x][j].plan = q => j \in DOMAIN work[x] /\ work'[x][j] = work[x][j]
    <3>1. CASE x = c
      BY <1>3, <1>4, <1>7, <3>1
    <3>2. CASE x # c
      BY <3>2 DEF Recorded, Saves
    <3>3. QED
      BY <3>1, <3>2
  <2>5. QED
    BY <2>1, <2>2, <2>3, <2>4
<1>8. QED
  BY <1>6, <1>7

LEMMA RecordedKeeps ==
  ASSUME LedgerTypeOK, LedgerTypeOK', FieldInv, FieldTypeOK',
         NEW op, NEW c, NEW p, NEW plan, NEW rev, NEW t, Recorded(op, c, p, plan, rev, t)
  PROVE  FieldInv'
BY SoundSaved, OneOpenSaved, SitesSaved, ReceiptsSaved, LastSaved DEF FieldInv
----------------------------------------------------------------------------
(* Steps                                                                   *)

(* Other operations on the case leave what is saved alone. *)
LEMMA FieldInvKept ==
  ASSUME LedgerTypeOK, LedgerTypeOK', FieldInv, UNCHANGED fieldVars,
         \A x \in Cases : caseRev[x] <= caseRev'[x] /\ caseTime[x] <= caseTime'[x]
  PROVE  FieldInv'
<1>1. plans' = plans /\ work' = work
  BY DEF fieldVars
<1>2. FieldTypeOK' /\ SoundPlans' /\ OneOpenPlan' /\ SitesKeepMeaning' /\ LastReceipts'
  BY <1>1 DEF FieldInv, FieldTypeOK, SoundPlans, OneOpenPlan, SitesKeepMeaning, LastReceipts, IsLast
<1>3. ReceiptsKept'
  <2> SUFFICES ASSUME NEW x \in Cases, NEW i \in DOMAIN work[x]
               PROVE  work[x][i].rev <= caseRev'[x] /\ work[x][i].at <= caseTime'[x]
    BY <1>1 DEF FieldInv, ReceiptsKept
  <2>1. PICK r \in FieldReceipt : r = work[x][i]
    BY DEF FieldInv, FieldTypeOK
  <2>2. r.rev \in Int /\ r.at \in Int /\ r.rev <= caseRev[x] /\ r.at <= caseTime[x]
    BY <2>1 DEF FieldInv, ReceiptsKept, FieldReceipt, Times
  <2>3. /\ caseRev[x] \in Int /\ caseRev'[x] \in Int /\ caseTime[x] \in Int /\ caseTime'[x] \in Int
    BY DEF LedgerTypeOK, Times
  <2>4. QED
    BY <2>1, <2>2, <2>3
<1>4. QED
  BY <1>2, <1>3 DEF FieldInv

(* The revision and the clock of a case never go back. *)
LEMMA BumpMovesOn ==
  ASSUME LedgerTypeOK, NEW c \in Cases, NEW n \in Nat \ {0}, NEW t \in Times, t >= caseTime[c],
         Bump(c, n, t)
  PROVE  /\ \A x \in Cases : caseRev[x] <= caseRev'[x] /\ caseTime[x] <= caseTime'[x]
         /\ caseRev'[c] = caseRev[c] + n /\ caseTime'[c] = t
BY DEF LedgerTypeOK, Bump, Times

LEMMA WorkedRecords ==
  ASSUME LedgerTypeOK, FieldTypeOK, NEW c \in Cases, NEW t \in Times, Worked(c, t)
  PROVE  /\ LedgerTypeOK' /\ FieldTypeOK'
         /\ \E op, p, plan, rev : Recorded(op, c, p, plan, rev, t)
<1>1. PICK op \in Operations, p \in Nat, plan \in Plan :
        FieldMove(op, c, p, plan) /\ Mutate(op, c, caseRev[c], p, plan, t)
  BY DEF Worked
<1>2. /\ t >= caseTime[c] /\ Log(op, c, p, plan, caseRev[c] + 1, t) /\ Bump(c, 1, t)
      /\ reviews' = reviews /\ links' = links /\ receipts' = receipts
  BY <1>1 DEF Mutate
<1>3. PICK rev \in Nat : rev = caseRev[c] + 1
  BY DEF LedgerTypeOK
<1>4. /\ caseRev' \in [Cases -> Nat] /\ caseTime' \in [Cases -> Times]
      /\ \A x \in Cases : caseRev[x] <= caseRev'[x] /\ caseTime[x] <= caseTime'[x]
      /\ caseRev'[c] = caseRev[c] + 1 /\ caseTime'[c] = t
  BY <1>2, BumpFacts, BumpMovesOn
<1>5. LedgerTypeOK'
  BY <1>2, <1>4 DEF LedgerTypeOK
<1>6. p \in 1 .. Len(plans[c]) + 1 /\ plan.rows # <<>>
  <2>1. plans[c] \in Seq(Plan)
    BY DEF FieldTypeOK
  <2>2. QED
    BY <1>1, <2>1 DEF FieldMove, Begins, Sound
<1>7. FieldTypeOK' /\ Saves(op, c, p, plan, rev, t)
  <2>1. FieldTypeOK /\ Log(op, c, p, plan, rev, t)
    BY <1>2, <1>3
  <2>2. QED
    BY <1>6, <2>1, LogSaves
<1>8. Recorded(op, c, p, plan, rev, t)
  <2>1. rev > caseRev[c] /\ rev <= caseRev'[c] /\ t <= caseTime'[c]
    BY <1>3, <1>4 DEF LedgerTypeOK, Times
  <2>2. QED
    BY <1>1, <1>4, <1>7, <2>1 DEF Recorded
<1>9. QED
  BY <1>5, <1>7, <1>8

LEMMA WorkedKeeps ==
  ASSUME LedgerTypeOK, FieldInv, NEW c \in Cases, NEW t \in Times, Worked(c, t)
  PROVE  LedgerTypeOK' /\ FieldInv'
<1>1. /\ LedgerTypeOK' /\ FieldTypeOK'
      /\ \E op, p, plan, rev : Recorded(op, c, p, plan, rev, t)
  BY WorkedRecords DEF FieldInv
<1>2. QED
  BY <1>1, RecordedKeeps

TypesOK == SourceTypeOK /\ LedgerTypeOK

LEMMA FieldInvInit == FieldInit => TypesOK /\ FieldInv
<1> SUFFICES ASSUME FieldInit PROVE TypesOK /\ FieldInv
  OBVIOUS
<1>1. SourceTypeOK
  BY DEF FieldInit, SourceInit, SourceTypeOK
<1>2. LedgerTypeOK
  BY LedgerAssumption DEF FieldInit, LedgerInit, LedgerTypeOK, Times
<1>3. FieldTypeOK
  BY DEF FieldInit, FieldTypeOK
<1>4. \A c \in Cases : plans[c] = <<>> /\ work[c] = <<>> /\ DOMAIN plans[c] = {} /\ DOMAIN work[c] = {}
  BY DEF FieldInit
<1>5. SoundPlans /\ OneOpenPlan /\ SitesKeepMeaning /\ ReceiptsKept /\ LastReceipts
  BY <1>4 DEF SoundPlans, OneOpenPlan, SitesKeepMeaning, ReceiptsKept, LastReceipts
<1>6. QED
  BY <1>1, <1>2, <1>3, <1>5 DEF TypesOK, FieldInv

LEMMA FieldInvStep == TypesOK /\ FieldInv /\ [FieldNext]_fieldWorkVars => TypesOK' /\ FieldInv'
<1> SUFFICES ASSUME TypesOK, FieldInv, [FieldNext]_fieldWorkVars PROVE TypesOK' /\ FieldInv'
  OBVIOUS
<1>1. SourceTypeOK /\ LedgerTypeOK
  BY DEF TypesOK
<1>2. \A x \in Cases : caseRev[x] <= caseRev[x] /\ caseTime[x] <= caseTime[x]
  BY <1>1 DEF LedgerTypeOK, Times
<1>3. ASSUME NEW S \in SUBSET Sealable, SealEvents(S), UNCHANGED <<ledgerVars, fieldVars>>
      PROVE  TypesOK' /\ FieldInv'
  <2>1. SourceTypeOK'
    BY <1>1, <1>3, SealType
  <2>2. LedgerTypeOK' /\ caseRev' = caseRev /\ caseTime' = caseTime
    BY <1>1, <1>3 DEF LedgerTypeOK, ledgerVars
  <2>3. QED
    BY <1>1, <1>2, <1>3, <2>1, <2>2, FieldInvKept DEF TypesOK
<1>4. CASE FieldPeople /\ UNCHANGED sourceVars
  <2>1. PICK c \in Cases, t \in Times : Worked(c, t)
    <3>1. PICK c \in Cases : \E t \in caseTime[c] .. MaxTime : Worked(c, t)
      BY <1>1, <1>4, PeopleWorked DEF FieldInv
    <3>2. caseTime[c] .. MaxTime \subseteq Times
      BY <1>1, LedgerAssumption DEF LedgerTypeOK, Times
    <3>3. QED
      BY <3>1, <3>2
  <2>2. SourceTypeOK'
    BY <1>1, <1>4 DEF SourceTypeOK, sourceVars
  <2>3. QED
    BY <1>1, <2>1, <2>2, WorkedKeeps DEF TypesOK
<1>5. ASSUME UNCHANGED <<sourceVars, fieldVars>>, NEW c \in Cases, NEW q \in Requests,
             NEW t \in Times, NEW due \in Dues,
             \/ \E k \in Kinds, e \in Sealed : StageReview(c, q, caseRev[c], k, e, due, t)
             \/ \E task \in ActiveOf(c), action \in HumanActions :
                  Act(c, q, task, reviews[c][task].rev, action, due, t)
      PROVE  TypesOK' /\ FieldInv'
  <2>1. LedgerTypeOK'
    BY <1>1, <1>5, StageFacts, ActFacts
  <2>2. t >= caseTime[c] /\ Bump(c, 1, t)
    BY <1>5 DEF StageReview, Act
  <2>3. \A x \in Cases : caseRev[x] <= caseRev'[x] /\ caseTime[x] <= caseTime'[x]
    BY <1>1, <2>2, BumpMovesOn
  <2>4. SourceTypeOK'
    BY <1>1, <1>5 DEF SourceTypeOK, sourceVars
  <2>5. QED
    BY <1>1, <1>5, <2>1, <2>3, <2>4, FieldInvKept DEF TypesOK
<1>6. CASE UNCHANGED fieldWorkVars
  <2>1. /\ UNCHANGED fieldVars /\ UNCHANGED ledgerVars /\ UNCHANGED sourceVars
    BY <1>6 DEF fieldWorkVars
  <2>2. SourceTypeOK' /\ LedgerTypeOK' /\ caseRev' = caseRev /\ caseTime' = caseTime
    BY <1>1, <2>1 DEF SourceTypeOK, LedgerTypeOK, ledgerVars, sourceVars
  <2>3. QED
    BY <1>1, <1>2, <2>1, <2>2, FieldInvKept DEF TypesOK
<1>7. QED
  BY <1>3, <1>4, <1>5, <1>6 DEF FieldNext

(* The types and the inductive invariant hold in every state, whatever     *)
(* people, scripts and polls do in whatever order.                         *)
THEOREM FieldInvHolds == FieldSpec => [](TypesOK /\ FieldInv)
<1>1. QED
  BY FieldInvInit, FieldInvStep, PTL DEF FieldSpec

(* A revision of a site means one place in all the plans ever saved, with  *)
(* whatever configuration the processes that saved them ran.               *)
THEOREM SitesKeepMeaningHolds == FieldSpec => []SitesKeepMeaning
<1>1. FieldInv => SitesKeepMeaning
  BY DEF FieldInv
<1>2. QED
  BY <1>1, FieldInvHolds, PTL

LEMMA WorkIsApproved == LedgerTypeOK /\ FieldInv => WorkFollowsApproval
<1> SUFFICES ASSUME LedgerTypeOK, FieldInv, NEW c \in Cases
             PROVE  /\ \A p \in DOMAIN plans[c] :
                         LET plan == plans[c][p]
                         IN /\ Now(plan).status = "REPORTED" <=> plan.reports # <<>>
                            /\ \A i \in DOMAIN plan.reports :
                                 LET done == plan.reports[i]
                                 IN /\ done.performed = Len(plan.rows) - 1
                                    /\ plan.rows[done.performed].status = "APPROVED"
                                    /\ plan.rows[done.performed].author = "HUMAN"
                                    /\ plan.rows[done.performed].at <= done.start
                                    /\ done.start <= done.at
                    /\ \A task \in Requests : Cardinality(OpenPlansOn(c, task)) <= 1
  BY DEF WorkFollowsApproval
<1>1. ASSUME NEW p \in DOMAIN plans[c] PROVE Sound(plans[c][p])
  BY DEF FieldInv, SoundPlans
<1>2. ASSUME NEW task \in Requests PROVE Cardinality(OpenPlansOn(c, task)) <= 1
  <2>1. \A p, q \in OpenPlansOn(c, task) : p = q
    BY DEF FieldInv, OneOpenPlan, IsOpen, OpenPlansOn, PlansOn
  <2>2. QED
    BY <2>1, AtMostOne
<1>3. QED
  BY <1>1, <1>2 DEF Sound

(* Work that is reported, in any revision of the report, was done after a  *)
(* person approved exactly the plan revision it names, and no decision     *)
(* came between that revision and the report; a review never has two plans *)
(* that could both still be carried out.                                   *)
THEOREM WorkFollowsApprovalHolds == FieldSpec => []WorkFollowsApproval
<1>1. TypesOK /\ FieldInv => WorkFollowsApproval
  BY WorkIsApproved DEF TypesOK
<1>2. QED
  BY <1>1, FieldInvHolds, PTL

LEMMA LastIsChosen ==
  ASSUME FieldInv, NEW c \in Cases, NEW p \in DOMAIN plans[c],
         NEW i \in DOMAIN work[c], IsLast(c, p, i)
  PROVE  /\ (CHOOSE k \in {x \in DOMAIN work[c] : work[c][x].plan = p} :
               \A j \in {x \in DOMAIN work[c] : work[c][x].plan = p} : j <= k) = i
         /\ LastOf(c, p) = {i}
<1> DEFINE mine == {k \in DOMAIN work[c] : work[c][k].plan = p}
<1>1. \A k \in DOMAIN work[c] : k \in Nat
  BY DEF FieldInv, FieldTypeOK
<1>2. i \in mine /\ \A j \in mine : j # i => j < i
  BY DEF IsLast
<1>3. \A k \in mine : k \in Nat
  BY <1>1
<1>4. LastOf(c, p) = {i}
  BY DEF LastOf, IsLast
<1> HIDE DEF mine
<1>5. \A j \in mine : j <= i
  BY <1>2, <1>3
<1>6. \A k \in mine : (\A j \in mine : j <= k) => k = i
  BY <1>2, <1>3, <1>5
<1>7. (CHOOSE k \in mine : \A j \in mine : j <= k) = i
  BY <1>2, <1>5, <1>6
<1>8. QED
  BY <1>4, <1>7 DEF mine

LEMMA VerifiedIsShown == FieldInv => VerifiedIsLatest
<1> SUFFICES ASSUME FieldInv, NEW c \in Cases, NEW p \in DOMAIN plans[c], plans[c][p].reports # <<>>
             PROVE  LET mine == {i \in DOMAIN work[c] : work[c][i].plan = p}
                        last == CHOOSE i \in mine : \A j \in mine : j <= i
                    IN (Verified(Latest(plans[c][p].reports)) # NULL) <=> (work[c][last].op = "VERIFY")
  BY DEF VerifiedIsLatest
<1>1. PICK i \in DOMAIN work[c] : IsLast(c, p, i) /\ Shows(work[c][i], plans[c][p])
  BY DEF FieldInv, LastReceipts
<1>2. (Verified(Latest(plans[c][p].reports)) # NULL) <=> (work[c][i].op = "VERIFY")
  BY <1>1 DEF Shows
<1>3. QED
  BY <1>1, <1>2, LastIsChosen

(* A result is shown as verified exactly while its verification is the     *)
(* last thing recorded about it: evidence attached later, or a correction, *)
(* takes the mark away until somebody has verified the work again.         *)
THEOREM VerifiedIsLatestHolds == FieldSpec => []VerifiedIsLatest
<1>1. FieldInv => VerifiedIsLatest
  BY VerifiedIsShown
<1>2. QED
  BY <1>1, FieldInvHolds, PTL

(* What restore() finds for a receipt that names its plan as it is saved.  *)
LEMMA ReplayIsNamed ==
  ASSUME FieldInv, NEW c \in Cases, NEW i \in DOMAIN work[c]
  PROVE  Replay(c, i) = [value |-> work[c][i].value, result |-> work[c][i].result]
<1>1. PICK r \in FieldReceipt : r = work[c][i]
  BY DEF FieldInv, FieldTypeOK
<1>2. PICK plan : plan = plans[c][r.plan]
  OBVIOUS
<1>3. Names(r, plan)
  BY <1>1, <1>2 DEF FieldInv, ReceiptsKept
<1> DEFINE saved == plan.reports[r.result.revision]
           again == [r.result EXCEPT !.performed = saved.performed, !.outcome = saved.outcome,
                                     !.start = saved.start, !.at = saved.at]
<1>4. ASSUME r.result # NoResult PROVE again = r.result
  <2>1. r.result \in Result
    BY <1>4 DEF FieldReceipt
  <2>2. /\ r.result.performed = saved.performed /\ r.result.outcome = saved.outcome
        /\ r.result.start = saved.start /\ r.result.at = saved.at
    BY <1>3, <1>4 DEF Names
  <2> HIDE DEF saved
  <2>3. QED
    BY <2>1, <2>2 DEF Result
<1>5. Replay(c, i) = [value |-> plan.rows[r.row],
                      result |-> IF r.result = NoResult THEN NoResult ELSE again]
  BY <1>1, <1>2 DEF Replay
<1> HIDE DEF again
<1>6. QED
  BY <1>1, <1>3, <1>4, <1>5 DEF Names

LEMMA WorkIsReplayed == FieldInv => FieldWorkReplays
<1> SUFFICES ASSUME FieldInv, NEW c \in Cases
             PROVE  /\ \A i \in DOMAIN work[c] :
                         LET r == work[c][i]
                         IN /\ r.rev <= caseRev[c] /\ r.at <= caseTime[c]
                            /\ Replay(c, i) = [value |-> r.value, result |-> r.result]
                            /\ r.result # NoResult =>
                                 LET saved == plans[c][r.plan].reports[r.result.revision]
                                 IN /\ r.result.evidence \subseteq saved.evidence
                                    /\ r.result.verification # NULL =>
                                         \E v \in DOMAIN saved.verified :
                                           saved.verified[v] = r.result.verification
                    /\ \A p \in DOMAIN plans[c] :
                         /\ Cardinality(LastOf(c, p)) = 1
                         /\ \A i \in LastOf(c, p) :
                              /\ work[c][i].value = Now(plans[c][p])
                              /\ work[c][i].row = Len(plans[c][p].rows)
                              /\ work[c][i].result = ResultOf(plans[c][p])
  BY DEF FieldWorkReplays
<1>1. ASSUME NEW i \in DOMAIN work[c]
      PROVE  /\ work[c][i].rev <= caseRev[c] /\ work[c][i].at <= caseTime[c]
             /\ Names(work[c][i], plans[c][work[c][i].plan])
  BY DEF FieldInv, ReceiptsKept
<1>2. ASSUME NEW p \in DOMAIN plans[c]
      PROVE  /\ Cardinality(LastOf(c, p)) = 1
             /\ \A i \in LastOf(c, p) :
                  /\ work[c][i].value = Now(plans[c][p])
                  /\ work[c][i].row = Len(plans[c][p].rows)
                  /\ work[c][i].result = ResultOf(plans[c][p])
  <2>1. PICK i \in DOMAIN work[c] : IsLast(c, p, i) /\ Shows(work[c][i], plans[c][p])
    BY DEF FieldInv, LastReceipts
  <2>2. LastOf(c, p) = {i}
    BY <2>1, LastIsChosen
  <2>3. QED
    BY <2>1, <2>2, FS_Singleton DEF Shows
<1>3. QED
  BY <1>1, <1>2, ReplayIsNamed DEF Names

(* Every receipt can be replayed for ever: restore() finds the plan        *)
(* revision, the report revision, the evidence and the verification it     *)
(* names as it named them, however the work went on; and the receipt of a  *)
(* plan's last activity is the plan and the result as they are now, which  *)
(* is what an invocation pins when it shows field work to the agent.       *)
THEOREM FieldWorkReplaysHolds == FieldSpec => []FieldWorkReplays
<1>1. FieldInv => FieldWorkReplays
  BY WorkIsReplayed
<1>2. QED
  BY <1>1, FieldInvHolds, PTL

(* What a step may do to the saved work. *)
KeepsSaved ==
  \A c \in Cases :
    /\ \A p \in DOMAIN plans[c] :
         p \in DOMAIN plans'[c] /\ Extends(plans[c][p], plans'[c][p])
    /\ \A i \in DOMAIN work[c] : i \in DOMAIN work'[c] /\ work'[c][i] = work[c][i]

LEMMA RecordedKeepsSaved ==
  ASSUME FieldTypeOK, NEW op, NEW c, NEW p, NEW plan, NEW rev, NEW t,
         Recorded(op, c, p, plan, rev, t)
  PROVE  KeepsSaved
<1> SUFFICES ASSUME NEW x \in Cases
             PROVE  /\ \A q \in DOMAIN plans[x] :
                         q \in DOMAIN plans'[x] /\ Extends(plans[x][q], plans'[x][q])
                    /\ \A i \in DOMAIN work[x] : i \in DOMAIN work'[x] /\ work'[x][i] = work[x][i]
  BY DEF KeepsSaved
<1>1. ASSUME NEW i \in DOMAIN work[x] PROVE i \in DOMAIN work'[x] /\ work'[x][i] = work[x][i]
  BY DEF Recorded, Saves
<1>2. ASSUME NEW q \in DOMAIN plans[x]
      PROVE  q \in DOMAIN plans'[x] /\ Extends(plans[x][q], plans'[x][q])
  <2>1. CASE x = c /\ q = p
    <3>1. PICK saved : saved = plans'[c][p] /\ saved = [plan EXCEPT !.activity = rev]
      BY DEF Recorded, Saves
    <3>2. /\ saved.rows = plan.rows /\ saved.reports = plan.reports /\ saved.task = plan.task
          /\ saved.review = plan.review
      BY <3>1, SavedFields DEF Recorded
    <3>3. p \in DOMAIN plans[c] /\ p # Len(plans[c]) + 1
      BY <2>1 DEF FieldTypeOK
    <3>4. Extends(plans[c][p], plan)
      BY <3>3 DEF Recorded, FieldMove, Begins
    <3>5. Extends(plans[c][p], saved)
      BY <3>2, <3>4 DEF Extends
    <3>6. QED
      BY <2>1, <3>1, <3>5 DEF Recorded, Saves
  <2>2. CASE x # c \/ q # p
    <3>1. q \in DOMAIN plans'[x] /\ plans'[x][q] = plans[x][q]
      BY <2>2 DEF Recorded, Saves
    <3>2. QED
      BY <3>1, ExtendsItself
  <2>3. QED
    BY <2>1, <2>2
<1>3. QED
  BY <1>1, <1>2

LEMMA UnchangedKeepsSaved == UNCHANGED fieldVars => KeepsSaved
BY ExtendsItself DEF KeepsSaved, fieldVars

LEMMA StepKeepsSaved == TypesOK /\ FieldInv /\ FieldNext => KeepsSaved
<1> SUFFICES ASSUME TypesOK, FieldInv, FieldNext PROVE KeepsSaved
  OBVIOUS
<1>1. CASE FieldPeople
  <2>1. LedgerTypeOK /\ FieldTypeOK
    BY DEF TypesOK, FieldInv
  <2>2. PICK c \in Cases, t \in Times : Worked(c, t)
    <3>1. PICK c \in Cases : \E t \in caseTime[c] .. MaxTime : Worked(c, t)
      BY <1>1, <2>1, PeopleWorked DEF FieldInv
    <3>2. caseTime[c] .. MaxTime \subseteq Times
      BY <2>1, LedgerAssumption DEF LedgerTypeOK, Times
    <3>3. QED
      BY <3>1, <3>2
  <2>3. \E op, p, plan, rev : Recorded(op, c, p, plan, rev, t)
    BY <2>1, <2>2, WorkedRecords
  <2>4. QED
    BY <2>1, <2>3, RecordedKeepsSaved
<1>2. CASE UNCHANGED fieldVars
  BY <1>2, UnchangedKeepsSaved
<1>3. QED
  BY <1>1, <1>2 DEF FieldNext

(* Nothing saved is ever changed: rows, reports, evidence, verifications   *)
(* and receipts are only added, by any sequence of operations.             *)
THEOREM SavedWorkIsKept == FieldSpec => [][KeepsSaved]_fieldWorkVars
<1>1. TypesOK /\ FieldInv /\ [FieldNext]_fieldWorkVars => [KeepsSaved]_fieldWorkVars
  BY StepKeepsSaved
<1>2. QED
  BY <1>1, FieldInvHolds, PTL DEF FieldSpec
============================================================================
