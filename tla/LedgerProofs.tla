---------------------------- MODULE LedgerProofs ----------------------------
(***************************************************************************)
(* Lemmas about the current-work ledger: what each of its operations keeps *)
(* of the types and the case revision, that a case never has two open      *)
(* reviews of one kind, and that the revision rows of a review are         *)
(* complete.  The modules about its clients cite them.                     *)
(***************************************************************************)
EXTENDS CaseLedger, SourceProofs

(* A saved operation on a case: its revision grows, and no other case      *)
(* changes.                                                                *)
Advances(c) ==
  /\ caseRev'[c] > caseRev[c]
  /\ \A x \in Cases \ {c} : caseRev'[x] = caseRev[x] /\ reviews'[x] = reviews[x]

(* Spending n case revisions at t. *)
LEMMA BumpFacts ==
  ASSUME LedgerTypeOK, NEW c \in Cases, NEW n \in Nat \ {0}, NEW t \in Times, Bump(c, n, t)
  PROVE  /\ caseRev' \in [Cases -> Nat]
         /\ caseTime' \in [Cases -> Times]
         /\ caseRev'[c] > caseRev[c]
         /\ \A x \in Cases \ {c} : caseRev'[x] = caseRev[x]
BY DEF LedgerTypeOK, Bump

(* A proposal and a receipt of a review are well formed. *)
LEMMA ProposalType ==
  ASSUME NEW k \in Kinds, NEW due \in Dues
  PROVE  Proposal(k, due) \in Review
BY DEF Proposal, Review, Statuses

LEMMA ReceiptType ==
  ASSUME NEW op \in {"STAGE", "LINK", "HUMAN"}, NEW task \in Requests, NEW review \in Review
  PROVE  ReceiptOf(op, task, review) \in Receipt
BY DEF ReceiptOf, Receipt, Review

LEMMA ActiveIsReview ==
  ASSUME LedgerTypeOK, NEW c \in Cases, NEW task \in ActiveOf(c)
  PROVE  task \in Requests /\ reviews[c][task] \in Review
BY DEF LedgerTypeOK, ActiveOf, Active, NoReview

(* stage_review *)
LEMMA StageFacts ==
  ASSUME LedgerTypeOK, NEW c \in Cases, NEW q \in Requests, NEW expected, NEW k \in Kinds,
         NEW e \in Sealed, NEW due \in Dues, NEW t \in Times,
         StageReview(c, q, expected, k, e, due, t)
  PROVE  LedgerTypeOK' /\ Advances(c)
<1>1. Proposal(k, due) \in Review
  BY ProposalType
<1>2. ReceiptOf("STAGE", q, Proposal(k, due)) \in Receipt
  BY <1>1, ReceiptType
<1>3. /\ caseRev' \in [Cases -> Nat]
      /\ caseTime' \in [Cases -> Times]
      /\ caseRev'[c] > caseRev[c]
      /\ \A x \in Cases \ {c} : caseRev'[x] = caseRev[x]
  BY BumpFacts DEF StageReview
<1>4. reviews' \in [Cases -> [Requests -> Review \cup {NoReview}]]
  BY <1>1 DEF LedgerTypeOK, StageReview
<1>5. links' \in [Cases -> [Requests -> SUBSET Events]]
  BY DEF LedgerTypeOK, StageReview, Sealed
<1>6. receipts' \in [Cases -> [Requests -> Receipt \cup {NoReceipt}]]
  BY <1>2 DEF LedgerTypeOK, StageReview
<1>7. \A x \in Cases \ {c} : reviews'[x] = reviews[x]
  BY DEF LedgerTypeOK, StageReview
<1>8. QED
  BY <1>3, <1>4, <1>5, <1>6, <1>7 DEF LedgerTypeOK, Advances

(* link_evidence *)
LEMMA LinkFacts ==
  ASSUME LedgerTypeOK, NEW c \in Cases, NEW q \in Requests, NEW expected,
         NEW task \in ActiveOf(c), NEW e \in Sealed, NEW t \in Times,
         LinkEvidence(c, q, expected, task, e, t)
  PROVE  LedgerTypeOK' /\ Advances(c)
<1>1. task \in Requests /\ reviews[c][task] \in Review
  BY ActiveIsReview
<1>2. ReceiptOf("LINK", task, reviews[c][task]) \in Receipt
  BY <1>1, ReceiptType
<1>3. /\ caseRev' \in [Cases -> Nat]
      /\ caseTime' \in [Cases -> Times]
      /\ caseRev'[c] > caseRev[c]
      /\ \A x \in Cases \ {c} : caseRev'[x] = caseRev[x]
  BY BumpFacts DEF LinkEvidence
<1>4. links' \in [Cases -> [Requests -> SUBSET Events]]
  BY <1>1 DEF LedgerTypeOK, LinkEvidence, Sealed
<1>5. receipts' \in [Cases -> [Requests -> Receipt \cup {NoReceipt}]]
  BY <1>2 DEF LedgerTypeOK, LinkEvidence
<1>6. reviews' = reviews
  BY DEF LinkEvidence
<1>7. QED
  BY <1>3, <1>4, <1>5, <1>6 DEF LedgerTypeOK, Advances

(* act *)
LEMMA ActFacts ==
  ASSUME LedgerTypeOK, NEW c \in Cases, NEW q \in Requests, NEW task \in ActiveOf(c),
         NEW expected, NEW action \in HumanActions, NEW due \in Dues, NEW t \in Times,
         Act(c, q, task, expected, action, due, t)
  PROVE  LedgerTypeOK' /\ Advances(c)
<1> DEFINE prior == reviews[c][task]
           next == [Transition(prior, action, due, t) EXCEPT !.rev = @ + 1]
<1>1. task \in Requests /\ prior \in Review
  BY ActiveIsReview
<1>2. Transition(prior, action, due, t) \in Review
  <2>1. NoDue \in Dues
    BY LedgerAssumption DEF NoDue, Dues
  <2>2. \A s \in Statuses, d \in Dues :
          /\ [prior EXCEPT !.status = s] \in Review
          /\ [prior EXCEPT !.status = s, !.due = d] \in Review
    BY <1>1 DEF Review
  <2>3. {"APPROVED", "DEFERRED", "DISMISSED", "CANCELLED"} \subseteq Statuses
    BY DEF Statuses
  <2>4. CASE action = "APPROVE"
    BY <2>2, <2>3, <2>4 DEF Transition
  <2>5. CASE action = "MODIFY"
    BY <2>2, <2>3, <2>5 DEF Transition
  <2>6. CASE action = "DEFER"
    BY <2>2, <2>3, <2>6 DEF Transition
  <2>7. CASE action = "DISMISS"
    BY <2>1, <2>2, <2>3, <2>7 DEF Transition
  <2>8. CASE action = "CANCEL"
    BY <2>1, <2>2, <2>3, <2>8 DEF Transition
  <2>9. QED
    BY <2>4, <2>5, <2>6, <2>7, <2>8 DEF HumanActions
<1>3. next \in Review
  BY <1>2 DEF Review
<1>4. ReceiptOf("HUMAN", task, next) \in Receipt
  BY <1>1, <1>3, ReceiptType
<1>5. /\ reviews' = [reviews EXCEPT ![c][task] = next]
      /\ receipts' = [receipts EXCEPT ![c][q] = ReceiptOf("HUMAN", task, next)]
      /\ Bump(c, 1, t)
      /\ links' = links
  BY DEF Act
<1>6. /\ caseRev' \in [Cases -> Nat]
      /\ caseTime' \in [Cases -> Times]
      /\ caseRev'[c] > caseRev[c]
      /\ \A x \in Cases \ {c} : caseRev'[x] = caseRev[x]
  BY <1>5, BumpFacts
<1>7. reviews' \in [Cases -> [Requests -> Review \cup {NoReview}]]
  BY <1>1, <1>3, <1>5 DEF LedgerTypeOK
<1>8. receipts' \in [Cases -> [Requests -> Receipt \cup {NoReceipt}]]
  BY <1>4, <1>5 DEF LedgerTypeOK
<1>9. \A x \in Cases \ {c} : reviews'[x] = reviews[x]
  BY <1>5 DEF LedgerTypeOK
<1>10. QED
  BY <1>5, <1>6, <1>7, <1>8, <1>9 DEF LedgerTypeOK, Advances
----------------------------------------------------------------------------
(* Open reviews                                                            *)

IsActive(c, q) == reviews[c][q].status \in Active

ActiveOnce ==
  \A c \in Cases, q \in Requests, r \in Requests :
    IsActive(c, q) /\ IsActive(c, r) /\ reviews[c][q].kind = reviews[c][r].kind => q = r

LEMMA AtMostOne ==
  ASSUME NEW S, \A x \in S, y \in S : x = y
  PROVE  Cardinality(S) <= 1
<1>1. CASE S = {}
  BY <1>1, FS_EmptySet
<1>2. CASE S # {}
  <2>1. PICK x \in S : TRUE
    BY <1>2
  <2>2. S = {x}
    BY <2>1
  <2>3. QED
    BY <2>2, FS_Singleton
<1>3. QED
  BY <1>1, <1>2

LEMMA ActiveOnceCounts == LedgerTypeOK /\ ActiveOnce => OneActivePerKind
<1> SUFFICES ASSUME LedgerTypeOK, ActiveOnce, NEW c \in Cases, NEW k \in Kinds
             PROVE  Cardinality({q \in Requests :
                      /\ reviews[c][q].kind = k
                      /\ reviews[c][q].status \notin {"NONE", "DISMISSED", "CANCELLED"}}) <= 1
  BY DEF OneActivePerKind
<1>1. \A q \in Requests : reviews[c][q].status \in Statuses \cup {"NONE"}
  BY DEF LedgerTypeOK, Review, NoReview
<1>2. \A q \in Requests :
        reviews[c][q].status \notin {"NONE", "DISMISSED", "CANCELLED"} => IsActive(c, q)
  BY <1>1 DEF Statuses, Active, IsActive
<1>3. QED
  BY <1>2, AtMostOne DEF ActiveOnce

LEMMA ActiveOnceInit == LedgerInit => ActiveOnce
BY DEF LedgerInit, ActiveOnce, IsActive, NoReview, Active

LEMMA ActiveOnceKept == ActiveOnce /\ reviews' = reviews => ActiveOnce'
BY DEF ActiveOnce, IsActive

(* A review staged where its kind has none open.                           *)
LEMMA ActiveOnceStage ==
  ASSUME LedgerTypeOK, ActiveOnce, NEW c \in Cases, NEW q \in Requests, NEW expected,
         NEW k \in Kinds, NEW e, NEW due, NEW t, StageReview(c, q, expected, k, e, due, t)
  PROVE  ActiveOnce'
<1>1. /\ reviews' = [reviews EXCEPT ![c][q] = Proposal(k, due)]
      /\ \A r \in Requests : IsActive(c, r) => reviews[c][r].kind # k
  BY DEF StageReview, ActiveOfKind, ActiveOf, IsActive
<1>2. /\ reviews'[c][q] = Proposal(k, due)
      /\ \A x \in Cases, r \in Requests : x # c \/ r # q => reviews'[x][r] = reviews[x][r]
  BY <1>1 DEF LedgerTypeOK
<1>3. reviews'[c][q].kind = k
  BY <1>2 DEF Proposal
<1>4. QED
  BY <1>1, <1>2, <1>3 DEF ActiveOnce, IsActive

(* A person's action opens nothing and changes no kind.                    *)
LEMMA ActiveOnceAct ==
  ASSUME LedgerTypeOK, ActiveOnce, NEW c \in Cases, NEW q \in Requests, NEW task \in ActiveOf(c),
         NEW expected, NEW action \in HumanActions, NEW due, NEW t,
         Act(c, q, task, expected, action, due, t)
  PROVE  ActiveOnce'
<1> DEFINE next == [Transition(reviews[c][task], action, due, t) EXCEPT !.rev = @ + 1]
<1>1. task \in Requests /\ reviews[c][task] \in Review /\ IsActive(c, task)
  BY ActiveIsReview DEF ActiveOf, IsActive
<1>2. next.kind = reviews[c][task].kind
  BY <1>1 DEF Transition, HumanActions, Review
<1>3. reviews' = [reviews EXCEPT ![c][task] = next]
  BY DEF Act
<1> HIDE DEF next
<1>4. /\ reviews'[c][task].kind = reviews[c][task].kind
      /\ \A x \in Cases, r \in Requests : x # c \/ r # task => reviews'[x][r] = reviews[x][r]
  BY <1>1, <1>2, <1>3 DEF LedgerTypeOK
<1>5. QED
  BY <1>1, <1>4 DEF ActiveOnce, IsActive

----------------------------------------------------------------------------
(* Revision rows                                                           *)

(* RevisionRowsComplete for one review, and what it rests on: a review     *)
(* that exists has a revision, and was staged under its own id.            *)
RowsComplete(c, task) ==
  /\ {receipts[c][q].rev : q \in RowsOf(c, task)} = 1 .. reviews[c][task].rev
  /\ Cardinality(RowsOf(c, task)) = reviews[c][task].rev
  /\ \A q \in RowsOf(c, task) :
       /\ receipts[c][q].op = "STAGE" <=> q = task
       /\ receipts[c][q].rev = reviews[c][task].rev =>
            /\ receipts[c][q].status = reviews[c][task].status
            /\ receipts[c][q].due = reviews[c][task].due
  /\ reviews[c][task].status # "NONE" <=> reviews[c][task].rev > 0
  /\ reviews[c][task].rev > 0 => receipts[c][task] # NoReceipt

AllRows == \A c \in Cases, task \in Requests : RowsComplete(c, task)

LEMMA RowsAreComplete == AllRows => RevisionRowsComplete
BY DEF AllRows, RowsComplete, RevisionRowsComplete

LEMMA RowsInit == LedgerInit => AllRows
<1> SUFFICES ASSUME LedgerInit, NEW c \in Cases, NEW task \in Requests PROVE RowsComplete(c, task)
  BY DEF AllRows
<1>1. /\ reviews[c][task].rev = 0 /\ reviews[c][task].status = "NONE"
      /\ \A q \in Requests : receipts[c][q].op = "NONE"
  BY DEF LedgerInit, NoReview, NoReceipt
<1>2. RowsOf(c, task) = {}
  BY <1>1 DEF RowsOf
<1>3. 1 .. 0 = {} /\ Cardinality({}) = 0
  BY FS_EmptySet
<1>4. QED
  BY <1>1, <1>2, <1>3 DEF RowsComplete

LEMMA ReceiptRecord ==
  ASSUME LedgerTypeOK, NEW c \in Cases, NEW task \in Requests
  PROVE  /\ reviews[c][task].rev \in Nat
         /\ RowsOf(c, task) \subseteq Requests /\ IsFiniteSet(RowsOf(c, task))
         /\ \A q \in Requests : receipts[c][q].rev \in Nat
<1>1. RowsOf(c, task) \subseteq Requests
  BY DEF RowsOf
<1>2. IsFiniteSet(RowsOf(c, task))
  BY <1>1, LedgerAssumption, FS_Subset
<1>3. QED
  BY <1>1, <1>2 DEF LedgerTypeOK, Review, NoReview, Receipt, NoReceipt

(* A review that a step writes no row of. *)
LEMMA RowsKept ==
  ASSUME LedgerTypeOK, NEW c \in Cases, NEW task \in Requests, RowsComplete(c, task),
         reviews'[c][task] = reviews[c][task],
         \A q \in Requests : \/ receipts'[c][q] = receipts[c][q]
                             \/ /\ receipts[c][q] = NoReceipt /\ receipts'[c][q] # NoReceipt
                                /\ receipts'[c][q].op = "LINK" \/ receipts'[c][q].task # task
  PROVE  RowsComplete(c, task)'
<1>1. \A q \in Requests : receipts[c][q] = NoReceipt => q \notin RowsOf(c, task)
  BY DEF RowsOf, NoReceipt
<1>2. RowsOf(c, task)' = RowsOf(c, task)
  BY <1>1 DEF RowsOf
<1>3. \A q \in RowsOf(c, task) : receipts'[c][q] = receipts[c][q]
  BY <1>1 DEF RowsOf
<1>4. {receipts'[c][q].rev : q \in RowsOf(c, task)} = {receipts[c][q].rev : q \in RowsOf(c, task)}
  BY <1>3
<1>5. receipts[c][task] # NoReceipt => receipts'[c][task] # NoReceipt
  OBVIOUS
<1>6. QED
  BY <1>2, <1>3, <1>4, <1>5 DEF RowsComplete

(* A review that a step writes its next row of. *)
LEMMA RowsAdded ==
  ASSUME LedgerTypeOK, NEW c \in Cases, NEW task \in Requests, RowsComplete(c, task),
         NEW q \in Requests, receipts[c][q] = NoReceipt,
         NEW next, next.rev = reviews[c][task].rev + 1, next.status # "NONE",
         reviews'[c][task] = next,
         \/ q = task /\ receipts'[c][q] = ReceiptOf("STAGE", task, next)
         \/ q # task /\ receipts'[c][q] = ReceiptOf("HUMAN", task, next) /\ reviews[c][task].rev > 0,
         \A r \in Requests \ {q} :
           \/ receipts'[c][r] = receipts[c][r]
           \/ /\ receipts[c][r] = NoReceipt
              /\ receipts'[c][r].op = "LINK" \/ receipts'[c][r].task # task
  PROVE  RowsComplete(c, task)'
<1> DEFINE n == reviews[c][task].rev
           rows == RowsOf(c, task)
<1>1. /\ n \in Nat /\ rows \subseteq Requests /\ IsFiniteSet(rows)
      /\ \A r \in Requests : receipts[c][r].rev \in Nat
  BY ReceiptRecord
<1>2. \A r \in Requests : receipts[c][r] = NoReceipt => r \notin rows
  BY DEF RowsOf, NoReceipt
<1>3. /\ receipts'[c][q].op = (IF q = task THEN "STAGE" ELSE "HUMAN") /\ receipts'[c][q].task = task
      /\ receipts'[c][q].rev = n + 1
      /\ receipts'[c][q].status = next.status /\ receipts'[c][q].due = next.due
  BY DEF ReceiptOf
<1>4. \A r \in rows : receipts'[c][r] = receipts[c][r]
  BY <1>2 DEF RowsOf
<1>5. RowsOf(c, task)' = rows \cup {q} /\ q \notin rows
  BY <1>2, <1>3 DEF RowsOf
<1>6. Cardinality(RowsOf(c, task)') = n + 1
  <2>1. Cardinality(rows \cup {q}) = Cardinality(rows) + 1
    BY <1>1, <1>5, FS_AddElement
  <2>2. Cardinality(rows) = n
    BY DEF RowsComplete
  <2>3. QED
    BY <1>5, <2>1, <2>2
<1>7. {receipts[c][r].rev : r \in rows} = 1 .. n
  BY DEF RowsComplete
<1>8. {receipts'[c][r].rev : r \in rows \cup {q}} = (1 .. n) \cup {n + 1}
  <2> HIDE DEF n, rows
  <2>1. {receipts'[c][r].rev : r \in rows} = {receipts[c][r].rev : r \in rows}
    BY <1>4
  <2>2. {receipts'[c][r].rev : r \in rows \cup {q}} = {receipts'[c][r].rev : r \in rows} \cup {n + 1}
    BY <1>3
  <2>3. QED
    BY <1>7, <2>1, <2>2
<1>9. (1 .. n) \cup {n + 1} = 1 .. n + 1
  BY <1>1
<1>10. ASSUME NEW r \in rows
       PROVE  /\ receipts'[c][r].op = "STAGE" <=> r = task
              /\ receipts'[c][r].rev # n + 1
  <2>1. receipts[c][r].op = "STAGE" <=> r = task
    BY DEF RowsComplete
  <2>2. receipts[c][r].rev \in 1 .. n
    BY <1>7
  <2>3. QED
    BY <1>1, <1>4, <2>1, <2>2
<1>11. receipts'[c][task] # NoReceipt
  <2>1. receipts'[c][q] # NoReceipt
    BY <1>3 DEF NoReceipt
  <2>2. CASE q # task
    <3>1. receipts[c][task] # NoReceipt
      BY <2>2 DEF RowsComplete
    <3>2. QED
      BY <2>2, <3>1
  <2>3. QED
    BY <2>1, <2>2
<1>12. reviews'[c][task].rev = n + 1 /\ n + 1 > 0
  BY <1>1
<1> HIDE DEF n, rows
<1>13. \A r \in rows \cup {q} :
         /\ receipts'[c][r].op = "STAGE" <=> r = task
         /\ receipts'[c][r].rev = n + 1 =>
              /\ receipts'[c][r].status = next.status
              /\ receipts'[c][r].due = next.due
  BY <1>3, <1>10
<1>14. QED
  BY <1>5, <1>6, <1>8, <1>9, <1>11, <1>12, <1>13 DEF RowsComplete

LEMMA RowsStage ==
  ASSUME LedgerTypeOK, AllRows, NEW c \in Cases, NEW q \in Requests, NEW expected,
         NEW k \in Kinds, NEW e, NEW due, NEW t, StageReview(c, q, expected, k, e, due, t)
  PROVE  AllRows'
<1> DEFINE next == Proposal(k, due)
<1> SUFFICES ASSUME NEW x \in Cases, NEW task \in Requests PROVE RowsComplete(x, task)'
  BY DEF AllRows
<1>1. /\ receipts[c][q] = NoReceipt
      /\ reviews' = [reviews EXCEPT ![c][q] = next]
      /\ receipts' = [receipts EXCEPT ![c][q] = ReceiptOf("STAGE", q, next)]
  BY DEF StageReview
<1>2. next.rev = 1 /\ next.status # "NONE" /\ ReceiptOf("STAGE", q, next).task = q
  BY DEF Proposal, ReceiptOf
<1> HIDE DEF next
<1>3. /\ reviews'[c][q] = next /\ receipts'[c][q] = ReceiptOf("STAGE", q, next)
      /\ \A y \in Cases, r \in Requests : y # c \/ r # q =>
           reviews'[y][r] = reviews[y][r] /\ receipts'[y][r] = receipts[y][r]
  BY <1>1 DEF LedgerTypeOK
<1>4. RowsComplete(x, task)
  BY DEF AllRows
<1>5. ReceiptOf("STAGE", q, next) # NoReceipt
  BY DEF ReceiptOf, NoReceipt
<1>6. CASE x = c /\ task = q
  <2>1. reviews[c][q].rev = 0
    BY <1>1, <1>4, <1>6, ReceiptRecord DEF RowsComplete
  <2>2. QED
    BY <1>1, <1>2, <1>3, <1>4, <1>6, <2>1, RowsAdded
<1>7. CASE x # c \/ task # q
  BY <1>1, <1>2, <1>3, <1>4, <1>5, <1>7, RowsKept
<1>8. QED
  BY <1>6, <1>7

LEMMA RowsLink ==
  ASSUME LedgerTypeOK, AllRows, NEW c \in Cases, NEW q \in Requests, NEW expected,
         NEW task, NEW e, NEW t, LinkEvidence(c, q, expected, task, e, t)
  PROVE  AllRows'
<1> DEFINE row == ReceiptOf("LINK", task, reviews[c][task])
<1> SUFFICES ASSUME NEW x \in Cases, NEW y \in Requests PROVE RowsComplete(x, y)'
  BY DEF AllRows
<1>1. /\ receipts[c][q] = NoReceipt /\ reviews' = reviews
      /\ receipts' = [receipts EXCEPT ![c][q] = row]
  BY DEF LinkEvidence
<1>2. row.op = "LINK" /\ row # NoReceipt
  BY DEF ReceiptOf, NoReceipt
<1> HIDE DEF row
<1>3. /\ receipts'[c][q] = row
      /\ \A z \in Cases, r \in Requests : z # c \/ r # q => receipts'[z][r] = receipts[z][r]
  BY <1>1 DEF LedgerTypeOK
<1>4. QED
  BY <1>1, <1>2, <1>3, RowsKept DEF AllRows

LEMMA RowsAct ==
  ASSUME LedgerTypeOK, AllRows, NEW c \in Cases, NEW q \in Requests, NEW task \in ActiveOf(c),
         NEW expected, NEW action \in HumanActions, NEW due, NEW t,
         Act(c, q, task, expected, action, due, t)
  PROVE  AllRows'
<1> DEFINE next == [Transition(reviews[c][task], action, due, t) EXCEPT !.rev = @ + 1]
<1> SUFFICES ASSUME NEW x \in Cases, NEW y \in Requests PROVE RowsComplete(x, y)'
  BY DEF AllRows
<1>1. task \in Requests /\ reviews[c][task] \in Review /\ reviews[c][task].status # "NONE"
  BY ActiveIsReview DEF ActiveOf, Active
<1>2. next.rev = reviews[c][task].rev + 1 /\ next.status # "NONE"
  BY <1>1 DEF Transition, HumanActions, Review
<1>3. /\ receipts[c][q] = NoReceipt
      /\ reviews' = [reviews EXCEPT ![c][task] = next]
      /\ receipts' = [receipts EXCEPT ![c][q] = ReceiptOf("HUMAN", task, next)]
  BY DEF Act
<1> HIDE DEF next
<1>4. /\ reviews'[c][task] = next /\ receipts'[c][q] = ReceiptOf("HUMAN", task, next)
      /\ \A z \in Cases, r \in Requests : z # c \/ r # task => reviews'[z][r] = reviews[z][r]
      /\ \A z \in Cases, r \in Requests : z # c \/ r # q => receipts'[z][r] = receipts[z][r]
  BY <1>1, <1>3 DEF LedgerTypeOK
<1>5. RowsComplete(x, y) /\ RowsComplete(c, task)
  BY <1>1 DEF AllRows
<1>6. reviews[c][task].rev > 0 /\ q # task
  BY <1>1, <1>3, <1>5 DEF RowsComplete
<1>7. ReceiptOf("HUMAN", task, next) # NoReceipt /\ ReceiptOf("HUMAN", task, next).task = task
  BY DEF ReceiptOf, NoReceipt
<1>8. CASE x = c /\ y = task
  BY <1>1, <1>2, <1>3, <1>4, <1>5, <1>6, <1>8, RowsAdded
<1>9. CASE x # c \/ y # task
  BY <1>3, <1>4, <1>5, <1>7, <1>9, RowsKept
<1>10. QED
  BY <1>8, <1>9
=============================================================================
