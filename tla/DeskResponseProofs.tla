------------------------- MODULE DeskResponseProofs -------------------------
(***************************************************************************)
(* Theorems about people at the desk, for any number of tabs, calls and    *)
(* responses.  A request id belongs to one response of one tab, what is    *)
(* told comes from a call, and answers stay true while the ledger only     *)
(* grows: from these the promises to the person follow.                    *)
(***************************************************************************)
EXTENDS DeskResponse, LedgerProofs

----------------------------------------------------------------------------
(* The invariants                                                          *)

Made(n) == calls[n] # NULL
IdOf(n) == calls[n].response.id

(* The receipt of a response is of the revision after the one on the screen. *)
SavedAs(r) ==
  /\ Saved(r.id)
  /\ receipts[TheCase][r.id].task = r.task
  /\ receipts[TheCase][r.id].rev = r.expected + 1

(* A review that exists, at that revision or a later one. *)
Known(task, rev) == receipts[TheCase][task] # NoReceipt /\ reviews[TheCase][task].rev >= rev

(* What a tab waits for is the response it holds, sent by it. *)
WaitsForOwn ==
  \A b \in Tabs : waiting[b] # NULL =>
    /\ stored[b] # NULL /\ Made(waiting[b])
    /\ calls[waiting[b]].tab = b /\ calls[waiting[b]].response = stored[b]

(* A request id belongs to one response of one tab. *)
OwnIds ==
  /\ \A b \in Tabs, x \in Tabs :
       stored[b] # NULL /\ stored[x] # NULL /\ stored[b].id = stored[x].id => b = x
  /\ \A b \in Tabs, n \in Calls :
       stored[b] # NULL /\ Made(n) /\ IdOf(n) = stored[b].id =>
         calls[n].tab = b /\ calls[n].response = stored[b]
  /\ \A n \in Calls, m \in Calls :
       Made(n) /\ Made(m) /\ IdOf(n) = IdOf(m) =>
         calls[n].tab = calls[m].tab /\ calls[n].response = calls[m].response

(* Nothing was told of what a tab holds; what was told is what a call got. *)
ToldByCalls ==
  /\ \A b \in Tabs : stored[b] # NULL => told[stored[b].id] = "nothing"
  /\ \A q \in Responses : told[q] # "nothing" =>
       \E n \in Calls : Made(n) /\ IdOf(n) = q /\ calls[n].phase = told[q]

(* Only a response saves a receipt under its id, and as it says. *)
ReceiptsOfResponses ==
  \A q \in Responses : receipts[TheCase][q] # NoReceipt =>
    /\ \E n \in Calls : Made(n) /\ IdOf(n) = q
    /\ \A n \in Calls : Made(n) /\ IdOf(n) = q => SavedAs(calls[n].response)

(* What a person saw of a review is no later than what it is. *)
SeenBefore ==
  /\ \A b \in Tabs : view[b] # NULL => Known(view[b].task, view[b].rev)
  /\ \A b \in Tabs : stored[b] # NULL => Known(stored[b].task, stored[b].expected)
  /\ \A n \in Calls : Made(n) => Known(calls[n].response.task, calls[n].response.expected)

(* An answer stays true: what is confirmed is saved, and what conflicted   *)
(* is not and conflicts for ever.                                          *)
AnswersHold ==
  \A n \in Calls : Made(n) =>
    /\ calls[n].phase = "confirmed" => receipts[TheCase][IdOf(n)] # NoReceipt
    /\ calls[n].phase = "conflict" =>
         receipts[TheCase][IdOf(n)] = NoReceipt /\ Conflicts(calls[n].response)

DeskInv ==
  /\ TypeOK /\ AllRows
  /\ WaitsForOwn /\ OwnIds /\ ToldByCalls /\ NothingForgotten
  /\ ReceiptsOfResponses /\ SeenBefore /\ AnswersHold

----------------------------------------------------------------------------
(* Records                                                                 *)

LEMMA CaseExists == TheCase \in Cases
BY DeskAssumption DEF TheCase

LEMMA ReceiptSaved ==
  ASSUME LedgerTypeOK, NEW q \in Requests
  PROVE  /\ receipts[TheCase][q] \in Receipt \cup {NoReceipt}
         /\ receipts[TheCase][q].op # "NONE" <=> receipts[TheCase][q] # NoReceipt
BY CaseExists DEF LedgerTypeOK, Receipt, NoReceipt

LEMMA ReviewFields ==
  ASSUME LedgerTypeOK, NEW q \in Requests
  PROVE  /\ reviews[TheCase][q] \in Review \cup {NoReview}
         /\ reviews[TheCase][q].rev \in Nat
BY CaseExists DEF LedgerTypeOK, Review, NoReview

LEMMA CallFields ==
  ASSUME TypeOK, NEW n \in Calls, Made(n)
  PROVE  /\ calls[n] \in Call /\ calls[n].response \in Response /\ calls[n].tab \in Tabs
         /\ IdOf(n) \in Responses /\ IdOf(n) \in Requests /\ calls[n].now \in Times
         /\ calls[n].response.task \in Requests /\ calls[n].response.expected \in Nat
         /\ calls[n].response.action \in HumanActions /\ calls[n].response.due \in Dues
<1>1. calls[n] \in Call
  BY DEF TypeOK, Made
<1>2. calls[n].response \in Response
  BY <1>1 DEF Call
<1>3. QED
  BY <1>1, <1>2, DeskAssumption DEF Call, Response, IdOf

LEMMA StoredFields ==
  ASSUME TypeOK, NEW b \in Tabs, stored[b] # NULL
  PROVE  /\ stored[b] \in Response /\ stored[b].id \in Responses
         /\ stored[b].task \in Requests /\ stored[b].expected \in Nat
<1>1. stored[b] \in Response
  BY DEF TypeOK
<1>2. QED
  BY <1>1 DEF Response

----------------------------------------------------------------------------
(* What a step may do to the ledger                                        *)

Grows ==
  /\ \A q \in Requests : receipts[TheCase][q] # NoReceipt =>
       receipts'[TheCase][q] = receipts[TheCase][q]
  /\ \A q \in Requests : receipts[TheCase][q] # NoReceipt =>
       reviews'[TheCase][q].rev >= reviews[TheCase][q].rev
  /\ \A r \in Response : Known(r.task, r.expected) /\ Conflicts(r) => Conflicts(r)'

LEMMA GrowsUnchanged ==
  ASSUME LedgerTypeOK, AllRows, UNCHANGED ledgerVars
  PROVE  LedgerTypeOK' /\ AllRows' /\ Grows
<1>1. receipts' = receipts /\ reviews' = reviews
  BY DEF ledgerVars
<1>2. LedgerTypeOK'
  BY DEF LedgerTypeOK, ledgerVars
<1>3. \A q \in Requests : reviews[TheCase][q].rev >= reviews[TheCase][q].rev
  BY ReviewFields
<1>4. \A r \in Response : Conflicts(r) => Conflicts(r)'
  BY <1>1 DEF Conflicts, ActiveOf
<1>5. AllRows'
  <2> SUFFICES ASSUME NEW c \in Cases, NEW task \in Requests PROVE RowsComplete(c, task)'
    BY DEF AllRows
  <2>1. RowsComplete(c, task)
    BY DEF AllRows
  <2>2. QED
    BY <1>1, <2>1, RowsKept
<1>6. QED
  BY <1>1, <1>2, <1>3, <1>4, <1>5 DEF Grows

(* A draft is of a review nobody can have seen. *)
LEMMA GrowsStage ==
  ASSUME LedgerTypeOK, NEW q \in Requests, NEW expected, NEW k \in Kinds, NEW e \in Sealed,
         NEW due \in Dues, NEW t \in Times, StageReview(TheCase, q, expected, k, e, due, t)
  PROVE  /\ LedgerTypeOK' /\ Grows
         /\ \A x \in Requests \ {q} : receipts'[TheCase][x] = receipts[TheCase][x]
<1>1. TheCase \in Cases
  BY CaseExists
<1>2. LedgerTypeOK'
  BY <1>1, StageFacts
<1>3. /\ receipts[TheCase][q] = NoReceipt
      /\ \A x \in Requests \ {q} : /\ receipts'[TheCase][x] = receipts[TheCase][x]
                                   /\ reviews'[TheCase][x] = reviews[TheCase][x]
  BY <1>1 DEF StageReview, LedgerTypeOK
<1>4. ASSUME NEW r \in Response, Known(r.task, r.expected), Conflicts(r)
      PROVE  Conflicts(r)'
  <2>1. r.task \in Requests \ {q}
    BY <1>3, <1>4 DEF Known, Response
  <2>2. reviews'[TheCase][r.task] = reviews[TheCase][r.task]
    BY <1>3, <2>1
  <2>3. QED
    BY <1>4, <2>1, <2>2 DEF Conflicts, ActiveOf
<1>5. \A x \in Requests : receipts[TheCase][x] # NoReceipt =>
        reviews'[TheCase][x].rev >= reviews[TheCase][x].rev
  BY <1>3, ReviewFields
<1>6. QED
  BY <1>2, <1>3, <1>4, <1>5 DEF Grows

(* A response is applied: the review it is about moves on. *)
LEMMA GrowsAct ==
  ASSUME LedgerTypeOK, NEW q \in Requests, NEW task \in Requests, NEW expected \in Nat,
         NEW action \in HumanActions, NEW due \in Dues, NEW t \in Times,
         Act(TheCase, q, task, expected, action, due, t)
  PROVE  /\ LedgerTypeOK' /\ Grows
         /\ task \in ActiveOf(TheCase) /\ reviews[TheCase][task].rev = expected
         /\ receipts[TheCase][q] = NoReceipt
         /\ receipts'[TheCase][q].op = "HUMAN" /\ receipts'[TheCase][q].task = task
         /\ receipts'[TheCase][q].rev = expected + 1
         /\ \A x \in Requests \ {q} : receipts'[TheCase][x] = receipts[TheCase][x]
<1> DEFINE prior == reviews[TheCase][task]
           next == [Transition(prior, action, due, t) EXCEPT !.rev = @ + 1]
<1>1. TheCase \in Cases
  BY CaseExists
<1>2. task \in ActiveOf(TheCase) /\ prior.rev = expected /\ receipts[TheCase][q] = NoReceipt
  BY DEF Act
<1>3. LedgerTypeOK'
  BY <1>1, <1>2, ActFacts
<1>4. prior \in Review
  BY <1>1, <1>2, ActiveIsReview
<1>5. next.rev = expected + 1
  BY <1>2, <1>4 DEF Transition, HumanActions, Review
<1>6. /\ receipts' = [receipts EXCEPT ![TheCase][q] = ReceiptOf("HUMAN", task, next)]
      /\ reviews' = [reviews EXCEPT ![TheCase][task] = next]
  BY DEF Act
<1> HIDE DEF next
<1>7. /\ receipts'[TheCase][q] = ReceiptOf("HUMAN", task, next)
      /\ \A x \in Requests \ {q} : receipts'[TheCase][x] = receipts[TheCase][x]
      /\ reviews'[TheCase][task] = next
      /\ \A x \in Requests \ {task} : reviews'[TheCase][x] = reviews[TheCase][x]
  BY <1>1, <1>6 DEF LedgerTypeOK
<1>8. /\ receipts'[TheCase][q].op = "HUMAN" /\ receipts'[TheCase][q].task = task
      /\ receipts'[TheCase][q].rev = expected + 1
  BY <1>5, <1>7 DEF ReceiptOf
<1>9. expected \in Nat
  BY <1>2, <1>4 DEF Review
<1>10. \A x \in Requests : reviews'[TheCase][x].rev >= reviews[TheCase][x].rev
  BY <1>2, <1>5, <1>7, <1>9, ReviewFields
<1>11. ASSUME NEW r \in Response, Known(r.task, r.expected), Conflicts(r)
       PROVE  Conflicts(r)'
  <2>1. r.task \in Requests /\ r.expected \in Nat /\ reviews[TheCase][r.task].rev >= r.expected
    BY <1>11 DEF Known, Response
  <2>2. CASE r.task = task
    BY <1>2, <1>5, <1>7, <1>9, <2>1, <2>2 DEF Conflicts
  <2>3. CASE r.task # task
    <3>1. reviews'[TheCase][r.task] = reviews[TheCase][r.task]
      BY <1>7, <2>1, <2>3
    <3>2. QED
      BY <1>11, <2>1, <3>1 DEF Conflicts, ActiveOf
  <2>4. QED
    BY <2>2, <2>3
<1>12. QED
  BY <1>2, <1>3, <1>7, <1>8, <1>10, <1>11 DEF Grows

(* What was seen stays seen, and what was saved as a response said it.     *)
LEMMA KnownKept ==
  ASSUME LedgerTypeOK, LedgerTypeOK', Grows, NEW task \in Requests, NEW rev \in Nat, Known(task, rev)
  PROVE  receipts'[TheCase][task] # NoReceipt /\ reviews'[TheCase][task].rev >= rev
<1>1. /\ reviews[TheCase][task].rev \in Nat /\ reviews'[TheCase][task].rev \in Nat
      /\ reviews'[TheCase][task].rev >= reviews[TheCase][task].rev
  BY CaseExists DEF LedgerTypeOK, Review, NoReview, Grows, Known
<1>2. QED
  BY <1>1 DEF Grows, Known

LEMMA SeenKept ==
  ASSUME TypeOK, TypeOK', Grows, SeenBefore
  PROVE  /\ \A b \in Tabs : view[b] # NULL =>
              receipts'[TheCase][view[b].task] # NoReceipt
              /\ reviews'[TheCase][view[b].task].rev >= view[b].rev
         /\ \A b \in Tabs : stored[b] # NULL =>
              receipts'[TheCase][stored[b].task] # NoReceipt
              /\ reviews'[TheCase][stored[b].task].rev >= stored[b].expected
         /\ \A n \in Calls : Made(n) =>
              receipts'[TheCase][calls[n].response.task] # NoReceipt
              /\ reviews'[TheCase][calls[n].response.task].rev >= calls[n].response.expected
<1>1. LedgerTypeOK /\ LedgerTypeOK'
  BY DEF TypeOK
<1>2. ASSUME NEW b \in Tabs, view[b] # NULL
      PROVE  /\ receipts'[TheCase][view[b].task] # NoReceipt
             /\ reviews'[TheCase][view[b].task].rev >= view[b].rev
  <2>1. view[b].task \in Requests /\ view[b].rev \in Nat
    BY <1>2 DEF TypeOK, View
  <2>2. QED
    BY <1>1, <1>2, <2>1, KnownKept DEF SeenBefore
<1>3. ASSUME NEW b \in Tabs, stored[b] # NULL
      PROVE  /\ receipts'[TheCase][stored[b].task] # NoReceipt
             /\ reviews'[TheCase][stored[b].task].rev >= stored[b].expected
  BY <1>1, <1>3, StoredFields, KnownKept DEF SeenBefore
<1>4. ASSUME NEW n \in Calls, Made(n)
      PROVE  /\ receipts'[TheCase][calls[n].response.task] # NoReceipt
             /\ reviews'[TheCase][calls[n].response.task].rev >= calls[n].response.expected
  BY <1>1, <1>4, CallFields, KnownKept DEF SeenBefore
<1>5. QED
  BY <1>2, <1>3, <1>4

----------------------------------------------------------------------------
(* Steps that leave responses, calls and what was told alone               *)

LEMMA QuietKeeps ==
  ASSUME DeskInv, TypeOK', AllRows', Grows, stored' = stored, calls' = calls, told' = told,
         \A b \in Tabs : waiting'[b] = waiting[b] \/ waiting'[b] = NULL,
         \A b \in Tabs : \/ view'[b] = view[b] \/ view'[b] = NULL
                         \/ /\ receipts'[TheCase][view'[b].task] # NoReceipt
                            /\ reviews'[TheCase][view'[b].task].rev >= view'[b].rev,
         \A q \in Responses : receipts'[TheCase][q] = receipts[TheCase][q]
  PROVE  DeskInv'
<1>1. TypeOK /\ LedgerTypeOK /\ SeenBefore /\ AllRows
  BY DEF DeskInv, TypeOK
<1>2. WaitsForOwn'
  BY DEF DeskInv, WaitsForOwn, Made
<1>3. OwnIds' /\ ToldByCalls'
  BY DEF DeskInv, OwnIds, ToldByCalls, Made, IdOf
<1>4. NothingForgotten'
  BY DEF DeskInv, NothingForgotten
<1>5. ReceiptsOfResponses'
  <2> SUFFICES ASSUME NEW q \in Responses, receipts'[TheCase][q] # NoReceipt
               PROVE  /\ \E n \in Calls : Made(n) /\ IdOf(n) = q
                      /\ \A n \in Calls : Made(n) /\ IdOf(n) = q =>
                           /\ receipts'[TheCase][q].op = "HUMAN"
                           /\ receipts'[TheCase][q].task = calls[n].response.task
                           /\ receipts'[TheCase][q].rev = calls[n].response.expected + 1
    BY DEF ReceiptsOfResponses, Made, IdOf, SavedAs, Saved
  <2>1. /\ \E n \in Calls : Made(n) /\ IdOf(n) = q
        /\ \A n \in Calls : Made(n) /\ IdOf(n) = q => SavedAs(calls[n].response)
    BY DEF DeskInv, ReceiptsOfResponses
  <2>2. QED
    BY <2>1 DEF SavedAs, Saved, IdOf
<1>6. SeenBefore'
  BY <1>1, SeenKept DEF SeenBefore, Known, Made
<1>7. AnswersHold'
  <2> SUFFICES ASSUME NEW n \in Calls, Made(n), NEW r \in Response, r = calls[n].response
               PROVE  /\ calls[n].phase = "confirmed" => receipts'[TheCase][r.id] # NoReceipt
                      /\ calls[n].phase = "conflict" =>
                           receipts'[TheCase][r.id] = NoReceipt /\ Conflicts(r)'
    <3>1. \A n \in Calls : Made(n) => calls[n].response \in Response
      BY <1>1, CallFields
    <3>2. QED
      BY <3>1 DEF AnswersHold, Made, IdOf, Conflicts, ActiveOf
  <2>1. r.id = IdOf(n) /\ r.id \in Responses
    BY <1>1, CallFields DEF IdOf
  <2>2. receipts'[TheCase][r.id] = receipts[TheCase][r.id]
    BY <2>1
  <2>3. Known(r.task, r.expected)
    BY <1>1 DEF SeenBefore
  <2>4. Conflicts(r) => Conflicts(r)'
    BY <2>3 DEF Grows
  <2>5. QED
    BY <2>1, <2>2, <2>4 DEF DeskInv, AnswersHold
<1>8. QED
  BY <1>2, <1>3, <1>4, <1>5, <1>6, <1>7 DEF DeskInv

----------------------------------------------------------------------------
(* Steps of the service on one call                                        *)

(* The call stays what it was, but for its phase. *)
Progresses(n) ==
  /\ Made(n)
  /\ \A m \in Calls : Made(m)' <=> Made(m)
  /\ \A m \in Calls : Made(m) => /\ calls'[m].tab = calls[m].tab
                                 /\ calls'[m].response = calls[m].response
  /\ \A m \in Calls \ {n} : Made(m) => calls'[m].phase = calls[m].phase

LEMMA CallKeeps ==
  ASSUME DeskInv, TypeOK', AllRows', Grows, view' = view, stored' = stored, told' = told,
         waiting' = waiting, NEW n \in Calls, Progresses(n), calls[n].phase \notin Replies,
         NEW r \in Response, r = calls[n].response,
         \A q \in Responses : \/ receipts'[TheCase][q] = receipts[TheCase][q]
                              \/ q = r.id /\ SavedAs(r)' /\ ~Conflicts(r),
         calls'[n].phase = "confirmed" => receipts'[TheCase][r.id] # NoReceipt,
         calls'[n].phase = "conflict" =>
           receipts'[TheCase][r.id] = NoReceipt /\ Conflicts(r)'
  PROVE  DeskInv'
<1>1. TypeOK /\ LedgerTypeOK /\ SeenBefore /\ AllRows
  BY DEF DeskInv, TypeOK
<1>2. \A m \in Calls : Made(m) =>
        /\ calls'[m].response.id = IdOf(m) /\ calls'[m].tab = calls[m].tab
        /\ calls'[m].response = calls[m].response
  BY DEF Progresses, IdOf
<1>3. WaitsForOwn'
  <2>1. \A b \in Tabs : waiting[b] # NULL => waiting[b] \in Calls
    BY <1>1 DEF TypeOK
  <2>2. QED
    BY <1>2, <2>1 DEF DeskInv, WaitsForOwn, Progresses
<1>4. OwnIds'
  <2>1. /\ \A b \in Tabs, x \in Tabs :
             stored[b] # NULL /\ stored[x] # NULL /\ stored[b].id = stored[x].id => b = x
        /\ \A b \in Tabs, m \in Calls :
             stored[b] # NULL /\ Made(m) /\ IdOf(m) = stored[b].id =>
               calls[m].tab = b /\ calls[m].response = stored[b]
        /\ \A m \in Calls, k \in Calls :
             Made(m) /\ Made(k) /\ IdOf(m) = IdOf(k) =>
               calls[m].tab = calls[k].tab /\ calls[m].response = calls[k].response
    BY DEF DeskInv, OwnIds
  <2>2. \A m \in Calls : Made(m) => IdOf(m)' = IdOf(m)
    BY <1>2 DEF IdOf
  <2>3. QED
    BY <1>2, <2>1, <2>2 DEF OwnIds, Progresses
<1>5. ToldByCalls'
  <2> SUFFICES ASSUME NEW q \in Responses, told[q] # "nothing"
               PROVE  \E m \in Calls : Made(m)' /\ IdOf(m)' = q /\ calls'[m].phase = told[q]
    BY DEF DeskInv, ToldByCalls, Made, IdOf
  <2>1. PICK m \in Calls : Made(m) /\ IdOf(m) = q /\ calls[m].phase = told[q]
    BY DEF DeskInv, ToldByCalls
  <2>2. told[q] \in Replies
    BY <1>1 DEF TypeOK, Replies
  <2>3. m # n
    BY <2>1, <2>2
  <2>4. Made(m)' /\ IdOf(m)' = q /\ calls'[m].phase = told[q]
    BY <1>2, <2>1, <2>3 DEF Progresses, IdOf
  <2>5. QED
    BY <2>4
<1>6. NothingForgotten'
  BY <1>2 DEF DeskInv, NothingForgotten, Progresses, Made, IdOf
<1>7. ReceiptsOfResponses'
  <2> SUFFICES ASSUME NEW q \in Responses, receipts'[TheCase][q] # NoReceipt
               PROVE  /\ \E m \in Calls : Made(m) /\ IdOf(m) = q
                      /\ \A m \in Calls : Made(m) /\ IdOf(m) = q =>
                           /\ receipts'[TheCase][q].op = "HUMAN"
                           /\ receipts'[TheCase][q].task = calls[m].response.task
                           /\ receipts'[TheCase][q].rev = calls[m].response.expected + 1
    <3>1. \A m \in Calls : /\ calls'[m] # NULL <=> Made(m)
                           /\ Made(m) => calls'[m].response.id = IdOf(m)
                                         /\ calls'[m].response = calls[m].response
      BY <1>2 DEF Progresses, Made
    <3>2. QED
      BY <3>1 DEF ReceiptsOfResponses, Made, IdOf, SavedAs, Saved
  <2>1. CASE receipts'[TheCase][q] = receipts[TheCase][q]
    <3>1. /\ \E m \in Calls : Made(m) /\ IdOf(m) = q
          /\ \A m \in Calls : Made(m) /\ IdOf(m) = q => SavedAs(calls[m].response)
      BY <2>1 DEF DeskInv, ReceiptsOfResponses
    <3>2. QED
      BY <2>1, <3>1 DEF SavedAs, Saved, IdOf
  <2>2. CASE q = r.id /\ SavedAs(r)'
    <3>1. Made(n) /\ IdOf(n) = q
      BY <2>2 DEF Progresses, IdOf
    <3>2. \A m \in Calls : Made(m) /\ IdOf(m) = q => calls[m].response = r
      BY <3>1 DEF DeskInv, OwnIds
    <3>3. /\ receipts'[TheCase][q].op = "HUMAN" /\ receipts'[TheCase][q].task = r.task
          /\ receipts'[TheCase][q].rev = r.expected + 1
      BY <2>2 DEF SavedAs, Saved
    <3>4. QED
      BY <3>1, <3>2, <3>3
  <2>3. QED
    BY <2>1, <2>2
<1>8. SeenBefore'
  <2>1. /\ \A b \in Tabs : view[b] # NULL => Known(view[b].task, view[b].rev)'
        /\ \A b \in Tabs : stored[b] # NULL => Known(stored[b].task, stored[b].expected)'
    BY <1>1, SeenKept DEF Known
  <2>2. \A m \in Calls : Made(m) => Known(calls[m].response.task, calls[m].response.expected)'
    BY <1>1, <1>2, SeenKept DEF Known
  <2>3. QED
    BY <1>2, <2>1, <2>2 DEF SeenBefore, Progresses, Known
<1>9. AnswersHold'
  <2> SUFFICES ASSUME NEW m \in Calls, Made(m), NEW s \in Response, s = calls[m].response
               PROVE  /\ calls'[m].phase = "confirmed" => receipts'[TheCase][s.id] # NoReceipt
                      /\ calls'[m].phase = "conflict" =>
                           receipts'[TheCase][s.id] = NoReceipt /\ Conflicts(s)'
    <3>1. \A m \in Calls : Made(m) => calls[m].response \in Response
      BY <1>1, CallFields
    <3>2. QED
      BY <1>2, <3>1 DEF AnswersHold, Progresses, IdOf, Conflicts, ActiveOf
  <2>1. s.id = IdOf(m) /\ s.id \in Responses /\ s.id \in Requests
    BY <1>1, CallFields DEF IdOf
  <2>2. /\ calls[m].phase = "confirmed" => receipts[TheCase][s.id] # NoReceipt
        /\ calls[m].phase = "conflict" => receipts[TheCase][s.id] = NoReceipt /\ Conflicts(s)
    BY <2>1 DEF DeskInv, AnswersHold
  <2>3. Known(s.task, s.expected)
    BY <1>1 DEF SeenBefore
  <2>4. Conflicts(s) => Conflicts(s)'
    BY <2>3 DEF Grows
  <2>5. CASE m = n
    BY <2>5
  <2>6. CASE m # n
    <3>1. calls'[m].phase = calls[m].phase
      BY <2>6 DEF Progresses
    <3>2. calls[m].phase = "confirmed" => receipts'[TheCase][s.id] # NoReceipt
      BY <2>1, <2>2 DEF Grows
    <3>3. ASSUME calls[m].phase = "conflict" PROVE receipts'[TheCase][s.id] = NoReceipt
      <4>1. s.id = r.id => s = r
        BY <2>1 DEF DeskInv, OwnIds, Progresses, IdOf
      <4>2. Conflicts(s)
        BY <2>2, <3>3
      <4>3. ~(s.id = r.id /\ ~Conflicts(r))
        BY <4>1, <4>2
      <4>4. receipts'[TheCase][s.id] = receipts[TheCase][s.id]
        BY <2>1, <4>3
      <4>5. QED
        BY <2>2, <3>3, <4>4
    <3>4. QED
      BY <2>2, <2>4, <3>1, <3>2, <3>3
  <2>7. QED
    BY <2>5, <2>6
<1>10. QED
  BY <1>3, <1>4, <1>5, <1>6, <1>7, <1>8, <1>9 DEF DeskInv

----------------------------------------------------------------------------
(* Steps of a tab on its response                                          *)

LEMMA BeginKeeps ==
  ASSUME DeskInv, NEW b \in Tabs, NEW q \in Responses, NEW action \in Offered, NEW due \in Dues,
         Begin(b, q, action, due)
  PROVE  DeskInv'
<1> DEFINE r == [id |-> q, task |-> view[b].task, expected |-> view[b].rev,
                 action |-> action, due |-> due]
<1>1. /\ view[b] # NULL /\ stored[b] = NULL /\ waiting[b] = NULL
      /\ \A x \in Tabs : stored[x] # NULL => stored[x].id # q
      /\ \A n \in Calls : Made(n) => IdOf(n) # q
      /\ stored' = [stored EXCEPT ![b] = r]
      /\ UNCHANGED <<clock, view, waiting, calls, told>>
      /\ UNCHANGED sourceVars /\ UNCHANGED ledgerVars
  BY DEF Begin, Made, IdOf
<1>2. TypeOK /\ SeenBefore /\ AllRows
  BY DEF DeskInv
<1>3. view[b] \in View
  BY <1>1, <1>2 DEF TypeOK
<1>4. r \in Response /\ r.id = q /\ r.task = view[b].task /\ r.expected = view[b].rev
  BY <1>3, DeskAssumption DEF View, Response
<1> HIDE DEF r
<1>5. r # NULL
  BY <1>4, NullAssumption
<1>6. stored'[b] = r /\ \A x \in Tabs : x # b => stored'[x] = stored[x]
  BY <1>1, <1>2 DEF TypeOK
<1>7. LedgerTypeOK' /\ AllRows' /\ receipts' = receipts /\ reviews' = reviews
  BY <1>1, <1>2, GrowsUnchanged DEF TypeOK, ledgerVars
<1>8. TypeOK'
  <2>1. SourceTypeOK'
    BY <1>1, <1>2 DEF TypeOK, SourceTypeOK, sourceVars
  <2>2. stored' \in [Tabs -> Response \cup {NULL}]
    BY <1>1, <1>2, <1>4 DEF TypeOK
  <2>3. QED
    BY <1>1, <1>2, <1>7, <2>1, <2>2 DEF TypeOK
<1>10. WaitsForOwn'
  BY <1>1, <1>6 DEF DeskInv, WaitsForOwn, Made
<1>11. OwnIds'
  BY <1>1, <1>4, <1>6 DEF DeskInv, OwnIds, Made, IdOf
<1>12. ToldByCalls'
  <2>1. told[q] = "nothing"
    BY <1>1 DEF DeskInv, ToldByCalls
  <2>2. \A x \in Tabs : stored'[x] # NULL => told[stored'[x].id] = "nothing"
    BY <1>4, <1>6, <2>1 DEF DeskInv, ToldByCalls
  <2>3. QED
    BY <1>1, <2>2 DEF DeskInv, ToldByCalls, Made, IdOf
<1>13. NothingForgotten'
  <2> SUFFICES ASSUME NEW n \in Calls, Made(n), told[IdOf(n)] = "nothing"
               PROVE  stored'[calls[n].tab] = calls[n].response
    BY <1>1 DEF NothingForgotten, Made, IdOf
  <2>1. stored[calls[n].tab] = calls[n].response
    BY DEF DeskInv, NothingForgotten, Made, IdOf
  <2>2. calls[n].response # NULL /\ calls[n].tab \in Tabs
    BY <1>2, CallFields, NullAssumption
  <2>3. calls[n].tab # b
    BY <1>1, <2>1, <2>2
  <2>4. QED
    BY <1>6, <2>1, <2>2, <2>3
<1>14. ReceiptsOfResponses' /\ AnswersHold'
  BY <1>1, <1>7 DEF DeskInv, ReceiptsOfResponses, AnswersHold, Made, IdOf, SavedAs, Saved,
                    Conflicts, ActiveOf
<1>15. SeenBefore'
  <2>1. Known(r.task, r.expected)
    BY <1>1, <1>2, <1>4 DEF SeenBefore
  <2>2. QED
    BY <1>1, <1>2, <1>6, <1>7, <2>1 DEF SeenBefore, Known, Made
<1>16. QED
  BY <1>7, <1>8, <1>10, <1>11, <1>12, <1>13, <1>14, <1>15 DEF DeskInv

LEMMA SendKeeps ==
  ASSUME DeskInv, NEW b \in Tabs, NEW n \in Calls, Send(b, n)
  PROVE  DeskInv'
<1> DEFINE call == [phase |-> "sent", tab |-> b, response |-> stored[b], now |-> 0]
<1>1. /\ stored[b] # NULL /\ waiting[b] = NULL /\ calls[n] = NULL
      /\ calls' = [calls EXCEPT ![n] = call] /\ waiting' = [waiting EXCEPT ![b] = n]
      /\ UNCHANGED <<clock, view, stored, told>>
      /\ UNCHANGED sourceVars /\ UNCHANGED ledgerVars
  BY DEF Send
<1>2. TypeOK /\ LedgerTypeOK /\ SeenBefore /\ AllRows
  BY DEF DeskInv, TypeOK
<1>3. stored[b] \in Response /\ stored[b].id \in Responses
  BY <1>1, <1>2, StoredFields
<1>4. /\ call \in Call /\ call.tab = b /\ call.response = stored[b] /\ call.phase = "sent"
  BY <1>3, LedgerAssumption DEF Call, Times
<1> HIDE DEF call
<1>5. call # NULL /\ n # NULL
  BY <1>4, NullAssumption, DeskAssumption
<1>6. /\ calls'[n] = call /\ \A m \in Calls : m # n => calls'[m] = calls[m]
      /\ waiting'[b] = n /\ \A x \in Tabs : x # b => waiting'[x] = waiting[x]
  BY <1>1, <1>2 DEF TypeOK
<1>7. LedgerTypeOK' /\ AllRows' /\ receipts' = receipts /\ reviews' = reviews
  BY <1>1, <1>2, GrowsUnchanged DEF TypeOK, ledgerVars
<1>8. TypeOK'
  <2>1. SourceTypeOK'
    BY <1>1, <1>2 DEF TypeOK, SourceTypeOK, sourceVars
  <2>2. calls' \in [Calls -> Call \cup {NULL}] /\ waiting' \in [Tabs -> Calls \cup {NULL}]
    BY <1>1, <1>2, <1>4 DEF TypeOK
  <2>3. QED
    BY <1>1, <1>2, <1>7, <2>1, <2>2 DEF TypeOK
<1>10. WaitsForOwn'
  <2> SUFFICES ASSUME NEW x \in Tabs, waiting'[x] # NULL
               PROVE  /\ stored[x] # NULL /\ calls'[waiting'[x]] # NULL
                      /\ calls'[waiting'[x]].tab = x
                      /\ calls'[waiting'[x]].response = stored[x]
    BY <1>1 DEF WaitsForOwn, Made
  <2>1. CASE x = b
    BY <1>1, <1>4, <1>5, <1>6, <2>1
  <2>2. CASE x # b
    <3>1. /\ waiting'[x] = waiting[x] /\ waiting[x] \in Calls
      BY <1>2, <1>6, <2>2 DEF TypeOK
    <3>2. /\ stored[x] # NULL /\ calls[waiting[x]] # NULL /\ calls[waiting[x]].tab = x
          /\ calls[waiting[x]].response = stored[x]
      BY <3>1 DEF DeskInv, WaitsForOwn, Made
    <3>3. waiting[x] # n
      BY <1>1, <3>2
    <3>4. QED
      BY <1>6, <3>1, <3>2, <3>3
  <2>3. QED
    BY <2>1, <2>2
<1>11. OwnIds'
  BY <1>1, <1>4, <1>6 DEF DeskInv, OwnIds, Made, IdOf
<1>12. ToldByCalls'
  <2> SUFFICES ASSUME NEW q \in Responses, told[q] # "nothing"
               PROVE  \E m \in Calls : calls'[m] # NULL /\ calls'[m].response.id = q
                                       /\ calls'[m].phase = told[q]
    BY <1>1 DEF DeskInv, ToldByCalls, Made, IdOf
  <2>1. PICK m \in Calls : calls[m] # NULL /\ calls[m].response.id = q /\ calls[m].phase = told[q]
    BY DEF DeskInv, ToldByCalls, Made, IdOf
  <2>2. QED
    BY <1>1, <1>6, <2>1
<1>13. NothingForgotten'
  BY <1>1, <1>4, <1>6 DEF DeskInv, NothingForgotten
<1>14. ReceiptsOfResponses'
  <2> SUFFICES ASSUME NEW q \in Responses, receipts[TheCase][q] # NoReceipt
               PROVE  /\ \E m \in Calls : calls'[m] # NULL /\ calls'[m].response.id = q
                      /\ \A m \in Calls : calls'[m] # NULL /\ calls'[m].response.id = q =>
                           SavedAs(calls'[m].response)
    BY <1>7 DEF ReceiptsOfResponses, Made, IdOf, SavedAs, Saved
  <2>1. PICK m \in Calls : Made(m) /\ IdOf(m) = q
    BY DEF DeskInv, ReceiptsOfResponses
  <2>2. \A k \in Calls : Made(k) /\ IdOf(k) = q => SavedAs(calls[k].response)
    BY DEF DeskInv, ReceiptsOfResponses
  <2>3. stored[b].id = q => SavedAs(stored[b])
    BY <1>1, <2>1, <2>2 DEF DeskInv, OwnIds
  <2>4. calls'[m] # NULL /\ calls'[m].response.id = q
    BY <1>1, <1>6, <2>1 DEF Made, IdOf
  <2>5. ASSUME NEW k \in Calls, calls'[k] # NULL, calls'[k].response.id = q
        PROVE  SavedAs(calls'[k].response)
    BY <1>4, <1>6, <2>2, <2>3, <2>5 DEF Made, IdOf
  <2>6. QED
    BY <2>4, <2>5
<1>15. SeenBefore'
  BY <1>1, <1>2, <1>4, <1>6, <1>7 DEF SeenBefore, Known, Made
<1>16. AnswersHold'
  <2> SUFFICES ASSUME NEW m \in Calls, calls'[m] # NULL
               PROVE  /\ calls'[m].phase = "confirmed" =>
                           receipts[TheCase][calls'[m].response.id] # NoReceipt
                      /\ calls'[m].phase = "conflict" =>
                           /\ receipts[TheCase][calls'[m].response.id] = NoReceipt
                           /\ Conflicts(calls'[m].response)
    BY <1>7 DEF AnswersHold, Made, IdOf, Conflicts, ActiveOf
  <2>1. CASE m = n
    BY <1>4, <1>6, <2>1
  <2>2. CASE m # n
    BY <1>6, <2>2 DEF DeskInv, AnswersHold, Made, IdOf
  <2>3. QED
    BY <2>1, <2>2
<1>17. QED
  BY <1>7, <1>8, <1>10, <1>11, <1>12, <1>13, <1>14, <1>15, <1>16 DEF DeskInv

LEMMA HearKeeps ==
  ASSUME DeskInv, NEW b \in Tabs, Hear(b)
  PROVE  DeskInv'
<1>1. TypeOK /\ LedgerTypeOK /\ SeenBefore /\ AllRows
  BY DEF DeskInv, TypeOK
<1>2. PICK n \in Calls : n = waiting[b] /\ waiting[b] # NULL
  BY <1>1 DEF Hear, TypeOK
<1>3. Made(n) /\ stored[b] # NULL /\ calls[n].tab = b /\ calls[n].response = stored[b]
  BY <1>2 DEF DeskInv, WaitsForOwn
<1>4. PICK q \in Responses : q = stored[b].id /\ q = IdOf(n)
  BY <1>1, <1>3, StoredFields DEF IdOf
<1>5. /\ calls[n].phase \in Replies
      /\ waiting' = [waiting EXCEPT ![b] = NULL]
      /\ \/ calls[n].phase = "unavailable" /\ UNCHANGED <<stored, told>>
         \/ /\ calls[n].phase # "unavailable"
            /\ stored' = [stored EXCEPT ![b] = NULL]
            /\ told' = [told EXCEPT ![q] = calls[n].phase]
      /\ UNCHANGED <<clock, view, calls>>
      /\ UNCHANGED sourceVars /\ UNCHANGED ledgerVars
  BY <1>2, <1>4 DEF Hear
<1>6. LedgerTypeOK' /\ AllRows' /\ Grows /\ receipts' = receipts /\ reviews' = reviews
  BY <1>1, <1>5, GrowsUnchanged DEF TypeOK, ledgerVars
<1>8. SourceTypeOK'
  BY <1>1, <1>5 DEF TypeOK, SourceTypeOK, sourceVars
<1>9. /\ waiting' \in [Tabs -> Calls \cup {NULL}] /\ waiting'[b] = NULL
      /\ \A x \in Tabs : x # b => waiting'[x] = waiting[x]
  BY <1>1, <1>5 DEF TypeOK
<1>10. CASE UNCHANGED <<stored, told>>
  <2>1. TypeOK'
    BY <1>1, <1>5, <1>6, <1>8, <1>9, <1>10 DEF TypeOK
  <2>2. QED
    BY <1>5, <1>6, <1>9, <1>10, <2>1, QuietKeeps
<1>11. CASE /\ calls[n].phase # "unavailable"
            /\ stored' = [stored EXCEPT ![b] = NULL]
            /\ told' = [told EXCEPT ![q] = calls[n].phase]
  <2>1. /\ stored'[b] = NULL /\ \A x \in Tabs : x # b => stored'[x] = stored[x]
        /\ told'[q] = calls[n].phase /\ \A x \in Responses : x # q => told'[x] = told[x]
        /\ told'[q] # "nothing"
    BY <1>1, <1>5, <1>11 DEF TypeOK, Replies
  <2>2. TypeOK'
    BY <1>1, <1>5, <1>6, <1>8, <1>9, <1>11 DEF TypeOK, Replies
  <2>3. WaitsForOwn'
    BY <1>5, <1>9, <2>1 DEF DeskInv, WaitsForOwn, Made
  <2>4. OwnIds'
    BY <1>5, <2>1 DEF DeskInv, OwnIds, Made, IdOf
  <2>5. ToldByCalls'
    <3>1. ASSUME NEW x \in Tabs, stored'[x] # NULL PROVE told'[stored'[x].id] = "nothing"
      <4>1. x # b /\ stored[x] # NULL /\ stored'[x] = stored[x]
        BY <2>1, <3>1
      <4>2. stored[x].id # q /\ stored[x].id \in Responses
        BY <1>1, <1>3, <1>4, <4>1, StoredFields DEF DeskInv, OwnIds
      <4>3. QED
        BY <2>1, <4>1, <4>2 DEF DeskInv, ToldByCalls
    <3>2. ASSUME NEW x \in Responses, told'[x] # "nothing"
          PROVE  \E m \in Calls : Made(m) /\ IdOf(m) = x /\ calls[m].phase = told'[x]
      BY <1>3, <1>4, <2>1, <3>2 DEF DeskInv, ToldByCalls
    <3>3. QED
      BY <1>5, <3>1, <3>2 DEF ToldByCalls, Made, IdOf
  <2>6. NothingForgotten'
    <3> SUFFICES ASSUME NEW m \in Calls, Made(m), told'[IdOf(m)] = "nothing"
                 PROVE  stored'[calls[m].tab] = calls[m].response
      BY <1>5 DEF NothingForgotten, Made, IdOf
    <3>1. IdOf(m) \in Responses /\ calls[m].tab \in Tabs /\ IdOf(m) = calls[m].response.id
      BY <1>1, CallFields DEF IdOf
    <3>2. IdOf(m) # q /\ told[IdOf(m)] = "nothing"
      BY <2>1, <3>1
    <3>3. stored[calls[m].tab] = calls[m].response
      BY <3>1, <3>2 DEF DeskInv, NothingForgotten, Made, IdOf
    <3>4. calls[m].tab # b
      BY <1>4, <3>1, <3>2, <3>3
    <3>5. QED
      BY <2>1, <3>1, <3>3, <3>4
  <2>7. ReceiptsOfResponses' /\ AnswersHold'
    BY <1>5, <1>6 DEF DeskInv, ReceiptsOfResponses, AnswersHold, Made, IdOf, SavedAs, Saved,
                      Conflicts, ActiveOf
  <2>8. SeenBefore'
    BY <1>1, <1>5, <1>6, <2>1 DEF SeenBefore, Known, Made
  <2>9. QED
    BY <1>6, <2>2, <2>3, <2>4, <2>5, <2>6, <2>7, <2>8 DEF DeskInv
<1>12. QED
  BY <1>5, <1>10, <1>11

----------------------------------------------------------------------------
(* The other steps of a tab, of the scripts and of time                    *)

LEMMA TabKeeps ==
  ASSUME DeskInv, NEW b \in Tabs, Look(b) \/ GiveUp(b)
  PROVE  DeskInv'
<1>1. TypeOK /\ LedgerTypeOK /\ AllRows
  BY DEF DeskInv, TypeOK
<1>2. /\ UNCHANGED <<clock, stored, calls, told>>
      /\ UNCHANGED sourceVars /\ UNCHANGED ledgerVars
  BY DEF Look, GiveUp
<1>3. LedgerTypeOK' /\ AllRows' /\ Grows /\ receipts' = receipts /\ reviews' = reviews
  BY <1>1, <1>2, GrowsUnchanged DEF ledgerVars
<1>4. SourceTypeOK'
  BY <1>1, <1>2 DEF TypeOK, SourceTypeOK, sourceVars
<1>5. CASE Look(b)
  <2>1. PICK task \in ActiveOf(TheCase) :
          view' = [view EXCEPT ![b] = [task |-> task, rev |-> reviews[TheCase][task].rev]]
    BY <1>5 DEF Look
  <2> DEFINE seen == [task |-> task, rev |-> reviews[TheCase][task].rev]
  <2>2. task \in Requests /\ reviews[TheCase][task] \in Review
    BY <1>1, CaseExists, ActiveIsReview
  <2>3. seen \in View /\ seen.task = task /\ seen.rev = reviews[TheCase][task].rev
    BY <2>2 DEF View, Review
  <2>4. seen.rev >= reviews[TheCase][task].rev
    BY <2>2, <2>3 DEF Review
  <2>5. view' = [view EXCEPT ![b] = seen]
    BY <2>1
  <2> HIDE DEF seen
  <2>6. view' \in [Tabs -> View \cup {NULL}] /\ \A x \in Tabs : view'[x] = view[x] \/ view'[x] = seen
    BY <1>1, <2>3, <2>5 DEF TypeOK
  <2>7. waiting' = waiting
    BY <1>5 DEF Look
  <2>8. TypeOK'
    BY <1>1, <1>2, <1>3, <1>4, <2>6, <2>7 DEF TypeOK
  <2>9. receipts[TheCase][task] # NoReceipt
    <3>1. RowsComplete(TheCase, task)
      BY <1>1, <2>2, CaseExists DEF AllRows
    <3>2. QED
      BY <2>2, <3>1 DEF RowsComplete, Review, Statuses
  <2>10. QED
    BY <1>2, <1>3, <2>3, <2>4, <2>6, <2>7, <2>8, <2>9, QuietKeeps
<1>6. CASE GiveUp(b)
  <2>1. /\ waiting' = [waiting EXCEPT ![b] = NULL] /\ view' = [view EXCEPT ![b] = NULL]
    BY <1>6 DEF GiveUp
  <2>2. /\ \A x \in Tabs : waiting'[x] = waiting[x] \/ waiting'[x] = NULL
        /\ \A x \in Tabs : view'[x] = view[x] \/ view'[x] = NULL
    BY <1>1, <2>1 DEF TypeOK
  <2>3. TypeOK'
    BY <1>1, <1>2, <1>3, <1>4, <2>1 DEF TypeOK
  <2>4. QED
    BY <1>2, <1>3, <2>2, <2>3, QuietKeeps
<1>7. QED
  BY <1>5, <1>6

LEMMA TickKeeps ==
  ASSUME DeskInv, Tick
  PROVE  DeskInv'
<1>1. TypeOK /\ LedgerTypeOK /\ AllRows
  BY DEF DeskInv, TypeOK
<1>2. /\ UNCHANGED <<view, stored, waiting, calls, told>> /\ clock' = clock + 1 /\ clock < MaxTime
      /\ UNCHANGED sourceVars /\ UNCHANGED ledgerVars
  BY DEF Tick
<1>3. LedgerTypeOK' /\ AllRows' /\ Grows /\ receipts' = receipts
  BY <1>1, <1>2, GrowsUnchanged DEF ledgerVars
<1>4. clock' \in Times
  BY <1>1, <1>2, LedgerAssumption DEF TypeOK, Times
<1>5. TypeOK'
  BY <1>1, <1>2, <1>3, <1>4 DEF TypeOK, SourceTypeOK, sourceVars
<1>6. QED
  BY <1>2, <1>3, <1>5, QuietKeeps

LEMMA SealKeeps ==
  ASSUME DeskInv, NEW S \in SUBSET Sealable, SealEvents(S), UNCHANGED <<ledgerVars, deskVars>>
  PROVE  DeskInv'
<1>1. TypeOK /\ LedgerTypeOK /\ AllRows /\ SourceTypeOK
  BY DEF DeskInv, TypeOK
<1>2. /\ UNCHANGED <<clock, view, stored, waiting, calls, told>> /\ UNCHANGED ledgerVars
  BY DEF deskVars
<1>3. LedgerTypeOK' /\ AllRows' /\ Grows /\ receipts' = receipts
  BY <1>1, <1>2, GrowsUnchanged DEF ledgerVars
<1>4. SourceTypeOK'
  BY <1>1, SealType
<1>5. TypeOK'
  BY <1>1, <1>2, <1>3, <1>4 DEF TypeOK
<1>6. QED
  BY <1>2, <1>3, <1>5, QuietKeeps

(* Scripts use request ids of their own. *)
LEMMA DraftKeeps ==
  ASSUME DeskInv, Draft
  PROVE  DeskInv'
<1>1. TypeOK /\ LedgerTypeOK /\ AllRows /\ clock \in Times
  BY DEF DeskInv, TypeOK
<1>2. PICK q \in Requests \ Responses :
        \E e \in Sealed, k \in Kinds, due \in Dues :
          StageReview(TheCase, q, caseRev[TheCase], k, e, due, clock)
  BY DEF Draft
<1>3. PICK e \in Sealed, k \in Kinds, due \in Dues :
        StageReview(TheCase, q, caseRev[TheCase], k, e, due, clock)
  BY <1>2
<1>4. UNCHANGED <<clock, view, stored, waiting, calls, told>> /\ UNCHANGED sourceVars
  BY DEF Draft, deskVars
<1>5. /\ LedgerTypeOK' /\ Grows
      /\ \A x \in Responses : receipts'[TheCase][x] = receipts[TheCase][x]
  BY <1>1, <1>2, <1>3, GrowsStage, DeskAssumption
<1>6. AllRows'
  BY <1>1, <1>2, <1>3, RowsStage, CaseExists
<1>7. TypeOK'
  BY <1>1, <1>4, <1>5 DEF TypeOK, SourceTypeOK, sourceVars
<1>8. QED
  BY <1>4, <1>5, <1>6, <1>7, QuietKeeps

----------------------------------------------------------------------------
(* The steps of the service                                                *)

(* An answer changes the phase of one call. *)
LEMMA AnswerProgresses ==
  ASSUME TypeOK, NEW n \in Calls, Made(n), NEW reply \in {"stamped"} \cup Replies, NEW now \in Times,
         calls' = [calls EXCEPT ![n] = [@ EXCEPT !.phase = reply, !.now = now]]
  PROVE  /\ calls' \in [Calls -> Call \cup {NULL}]
         /\ Progresses(n) /\ calls'[n].phase = reply
<1> DEFINE call == [calls[n] EXCEPT !.phase = reply, !.now = now]
<1>1. calls[n] \in Call
  BY CallFields
<1>2. /\ call \in Call /\ call.phase = reply
      /\ call.tab = calls[n].tab /\ call.response = calls[n].response
  BY <1>1 DEF Call
<1>3. calls' = [calls EXCEPT ![n] = call]
  OBVIOUS
<1> HIDE DEF call
<1>4. call # NULL
  BY <1>2, NullAssumption
<1>5. calls'[n] = call /\ \A m \in Calls : m # n => calls'[m] = calls[m]
  BY <1>3 DEF TypeOK
<1>6. \A m \in Calls : calls'[m] # NULL <=> calls[m] # NULL
  BY <1>4, <1>5 DEF Made
<1>7. Progresses(n)
  BY <1>2, <1>5, <1>6 DEF Progresses, Made
<1>8. QED
  BY <1>2, <1>3, <1>5, <1>7 DEF TypeOK

LEMMA Answered ==
  ASSUME TypeOK, NEW n \in Calls, Made(n), NEW reply \in Replies, Answer(n, reply)
  PROVE  /\ calls' \in [Calls -> Call \cup {NULL}]
         /\ Progresses(n) /\ calls'[n].phase = reply
<1>1. calls[n] \in Call /\ calls[n].now \in Times
  BY CallFields
<1>2. [calls[n] EXCEPT !.phase = reply] = [calls[n] EXCEPT !.phase = reply, !.now = calls[n].now]
  BY <1>1 DEF Call
<1>3. calls' = [calls EXCEPT ![n] = [@ EXCEPT !.phase = reply, !.now = calls[n].now]]
  BY <1>2 DEF Answer, TypeOK
<1>4. QED
  BY <1>1, <1>3, AnswerProgresses

LEMMA ArriveKeeps ==
  ASSUME DeskInv, NEW n \in Calls, Arrive(n)
  PROVE  DeskInv'
<1>1. TypeOK /\ LedgerTypeOK /\ AllRows /\ clock \in Times
  BY DEF DeskInv, TypeOK
<1>2. /\ Made(n) /\ calls[n].phase = "sent"
      /\ calls' = [calls EXCEPT ![n] = [@ EXCEPT !.phase = "stamped", !.now = clock]]
      /\ UNCHANGED <<clock, view, stored, waiting, told>>
      /\ UNCHANGED sourceVars /\ UNCHANGED ledgerVars
  BY <1>1 DEF Arrive, Made
<1>3. LedgerTypeOK' /\ AllRows' /\ Grows /\ receipts' = receipts
  BY <1>1, <1>2, GrowsUnchanged DEF ledgerVars
<1>4. /\ calls' \in [Calls -> Call \cup {NULL}]
      /\ Progresses(n) /\ calls'[n].phase = "stamped"
  BY <1>1, <1>2, AnswerProgresses
<1>5. TypeOK'
  BY <1>1, <1>2, <1>3, <1>4 DEF TypeOK, SourceTypeOK, sourceVars
<1>6. PICK r \in Response : r = calls[n].response
  BY <1>1, <1>2, CallFields
<1>7. QED
  BY <1>2, <1>3, <1>4, <1>5, <1>6, CallKeeps DEF Replies

(* A served call that changes the ledger not at all. *)
LEMMA ReplyKeeps ==
  ASSUME DeskInv, NEW n \in Calls, Made(n), calls[n].phase = "stamped",
         NEW reply \in Replies, Answer(n, reply), UNCHANGED ledgerVars,
         UNCHANGED <<clock, view, stored, waiting, told>>, UNCHANGED sourceVars,
         reply = "confirmed" => receipts[TheCase][IdOf(n)] # NoReceipt,
         reply = "conflict" =>
           receipts[TheCase][IdOf(n)] = NoReceipt /\ Conflicts(calls[n].response)
  PROVE  DeskInv'
<1>1. TypeOK /\ LedgerTypeOK /\ AllRows
  BY DEF DeskInv, TypeOK
<1>2. LedgerTypeOK' /\ AllRows' /\ Grows /\ receipts' = receipts /\ reviews' = reviews
  BY <1>1, GrowsUnchanged DEF ledgerVars
<1>3. calls' \in [Calls -> Call \cup {NULL}] /\ Progresses(n) /\ calls'[n].phase = reply
  BY <1>1, Answered
<1>4. TypeOK'
  BY <1>1, <1>2, <1>3 DEF TypeOK, SourceTypeOK, sourceVars
<1>5. PICK r \in Response : r = calls[n].response
  BY <1>1, CallFields
<1>6. /\ calls'[n].phase = "confirmed" => receipts'[TheCase][r.id] # NoReceipt
      /\ calls'[n].phase = "conflict" =>
           receipts'[TheCase][r.id] = NoReceipt /\ Conflicts(r)'
  BY <1>2, <1>3, <1>5 DEF IdOf, Conflicts, ActiveOf
<1>7. QED
  BY <1>2, <1>3, <1>4, <1>5, <1>6, CallKeeps DEF Replies

LEMMA ApplyKeeps ==
  ASSUME DeskInv, NEW n \in Calls, Made(n), calls[n].phase = "stamped", Apply(n),
         UNCHANGED <<clock, view, stored, waiting, told>>, UNCHANGED sourceVars
  PROVE  DeskInv'
<1>1. TypeOK /\ LedgerTypeOK /\ AllRows
  BY DEF DeskInv, TypeOK
<1>2. PICK r \in Response : r = calls[n].response
  BY <1>1, CallFields
<1>3. /\ r.id \in Responses /\ r.id \in Requests /\ r.task \in Requests /\ r.expected \in Nat
      /\ r.action \in HumanActions /\ r.due \in Dues /\ calls[n].now \in Times
  BY <1>1, <1>2, CallFields DEF IdOf
<1> PICK t \in Times : t = calls[n].now
  BY <1>3
<1>4. /\ Act(TheCase, r.id, r.task, r.expected, r.action, r.due, t)
      /\ \E reply \in {"confirmed", "unavailable"} : Answer(n, reply)
  BY <1>2 DEF Apply
<1>5. /\ LedgerTypeOK' /\ Grows
      /\ r.task \in ActiveOf(TheCase) /\ reviews[TheCase][r.task].rev = r.expected
      /\ receipts'[TheCase][r.id].op = "HUMAN" /\ receipts'[TheCase][r.id].task = r.task
      /\ receipts'[TheCase][r.id].rev = r.expected + 1
      /\ \A x \in Requests \ {r.id} : receipts'[TheCase][x] = receipts[TheCase][x]
  BY <1>1, <1>3, <1>4, GrowsAct
<1>6. ~Conflicts(r)
  <2>1. Permitted(reviews[TheCase][r.task], r.action, r.due, t)
    BY <1>4 DEF Act
  <2>2. r.action = "APPROVE" => reviews[TheCase][r.task].status # "APPROVED"
    BY <2>1 DEF Permitted
  <2>3. QED
    BY <1>5, <2>2 DEF Conflicts
<1>7. AllRows'
  BY <1>1, <1>3, <1>4, <1>5, RowsAct, CaseExists
<1>8. PICK reply \in {"confirmed", "unavailable"} : Answer(n, reply)
  BY <1>4
<1>9. calls' \in [Calls -> Call \cup {NULL}] /\ Progresses(n) /\ calls'[n].phase = reply
  BY <1>1, <1>8, Answered DEF Replies
<1>10. TypeOK'
  BY <1>1, <1>5, <1>9 DEF TypeOK, SourceTypeOK, sourceVars
<1>11. \A q \in Responses : \/ receipts'[TheCase][q] = receipts[TheCase][q]
                            \/ q = r.id /\ SavedAs(r)' /\ ~Conflicts(r)
  BY <1>5, <1>6, DeskAssumption DEF SavedAs, Saved
<1>12. receipts'[TheCase][r.id] # NoReceipt
  BY <1>5 DEF NoReceipt
<1>13. QED
  BY <1>2, <1>5, <1>7, <1>9, <1>10, <1>11, <1>12, CallKeeps DEF Replies

LEMMA ServeKeeps ==
  ASSUME DeskInv, NEW n \in Calls, Serve(n)
  PROVE  DeskInv'
<1>1. /\ Made(n) /\ calls[n].phase = "stamped"
      /\ UNCHANGED <<clock, view, stored, waiting, told>> /\ UNCHANGED sourceVars
      /\ Replay(n) \/ Apply(n) \/ Refuse(n) \/ Unavailable(n)
  BY DEF Serve, Made
<1>2. LedgerTypeOK /\ IdOf(n) \in Requests
  BY <1>1, CallFields DEF DeskInv, TypeOK
<1>3. receipts[TheCase][IdOf(n)].op # "NONE" <=> receipts[TheCase][IdOf(n)] # NoReceipt
  BY <1>2, ReceiptSaved
<1>4. CASE Replay(n)
  BY <1>1, <1>3, <1>4, ReplyKeeps DEF Replay, Replies, IdOf
<1>5. CASE Apply(n)
  BY <1>1, <1>5, ApplyKeeps
<1>6. CASE Refuse(n)
  <2>1. /\ UNCHANGED ledgerVars /\ receipts[TheCase][IdOf(n)] = NoReceipt
        /\ \/ Answer(n, "rejected")
           \/ Answer(n, "conflict") /\ Conflicts(calls[n].response)
    BY <1>3, <1>6 DEF Refuse, IdOf
  <2>2. CASE Answer(n, "rejected")
    BY <1>1, <2>1, <2>2, ReplyKeeps DEF Replies
  <2>3. CASE Answer(n, "conflict") /\ Conflicts(calls[n].response)
    BY <1>1, <2>1, <2>3, ReplyKeeps DEF Replies
  <2>4. QED
    BY <2>1, <2>2, <2>3
<1>7. CASE Unavailable(n)
  BY <1>1, <1>7, ReplyKeeps DEF Unavailable, Replies
<1>8. QED
  BY <1>1, <1>4, <1>5, <1>6, <1>7

----------------------------------------------------------------------------
(* The theorems                                                            *)

LEMMA DeskInvInit == Init => DeskInv
<1> SUFFICES ASSUME Init PROVE DeskInv
  OBVIOUS
<1>1. /\ view = [b \in Tabs |-> NULL] /\ stored = [b \in Tabs |-> NULL]
      /\ waiting = [b \in Tabs |-> NULL] /\ calls = [n \in Calls |-> NULL]
      /\ told = [q \in Responses |-> "nothing"] /\ clock = 0 /\ LedgerInit /\ SourceInit
  BY DEF Init
<1>2. LedgerTypeOK /\ AllRows
  <2>1. LedgerTypeOK
    BY <1>1, LedgerAssumption DEF LedgerInit, LedgerTypeOK, Times
  <2>2. QED
    BY <1>1, <2>1, RowsInit
<1>3. SourceTypeOK
  BY <1>1 DEF SourceInit, SourceTypeOK
<1>4. TypeOK
  BY <1>1, <1>2, <1>3, LedgerAssumption DEF TypeOK, Times
<1>5. \A q \in Responses : receipts[TheCase][q] = NoReceipt
  BY <1>1, CaseExists, DeskAssumption DEF LedgerInit
<1>6. WaitsForOwn /\ OwnIds /\ ToldByCalls /\ NothingForgotten
  BY <1>1 DEF WaitsForOwn, OwnIds, ToldByCalls, NothingForgotten, Made
<1>7. ReceiptsOfResponses /\ SeenBefore /\ AnswersHold
  BY <1>1, <1>5 DEF ReceiptsOfResponses, SeenBefore, AnswersHold, Made
<1>8. QED
  BY <1>2, <1>4, <1>6, <1>7 DEF DeskInv

LEMMA DeskInvStep == DeskInv /\ Next => DeskInv'
<1> SUFFICES ASSUME DeskInv, Next PROVE DeskInv'
  OBVIOUS
<1>1. ASSUME NEW b \in Tabs, Look(b) \/ GiveUp(b) PROVE DeskInv'
  BY <1>1, TabKeeps
<1>2. ASSUME NEW b \in Tabs, Hear(b) PROVE DeskInv'
  BY <1>2, HearKeeps
<1>3. ASSUME NEW b \in Tabs, NEW q \in Responses, NEW action \in Offered, NEW due \in Dues,
             Begin(b, q, action, due)
      PROVE  DeskInv'
  BY <1>3, BeginKeeps
<1>4. ASSUME NEW b \in Tabs, NEW n \in Calls, Send(b, n) PROVE DeskInv'
  BY <1>4, SendKeeps
<1>5. ASSUME NEW n \in Calls, Arrive(n) \/ Serve(n) PROVE DeskInv'
  BY <1>5, ArriveKeeps, ServeKeeps
<1>6. ASSUME Draft \/ Tick PROVE DeskInv'
  BY <1>6, DraftKeeps, TickKeeps
<1>7. ASSUME NEW S \in SUBSET Sealable, SealEvents(S), UNCHANGED <<ledgerVars, deskVars>>
      PROVE  DeskInv'
  BY <1>7, SealKeeps
<1>8. QED
  BY <1>1, <1>2, <1>3, <1>4, <1>5, <1>6, <1>7 DEF Next

LEMMA DeskInvStutter == DeskInv /\ UNCHANGED vars => DeskInv'
<1> SUFFICES ASSUME DeskInv, UNCHANGED vars PROVE DeskInv'
  OBVIOUS
<1>1. TypeOK /\ LedgerTypeOK /\ AllRows
  BY DEF DeskInv, TypeOK
<1>2. /\ UNCHANGED <<clock, view, stored, waiting, calls, told>>
      /\ UNCHANGED sourceVars /\ UNCHANGED ledgerVars
  BY DEF vars, deskVars
<1>3. LedgerTypeOK' /\ AllRows' /\ Grows /\ receipts' = receipts
  BY <1>1, <1>2, GrowsUnchanged DEF ledgerVars
<1>4. TypeOK'
  BY <1>1, <1>2, <1>3 DEF TypeOK, SourceTypeOK, sourceVars
<1>5. QED
  BY <1>2, <1>3, <1>4, QuietKeeps

(* Whatever is lost, delayed or retried, the desk's invariants hold.       *)
THEOREM DeskInvHolds == Spec => []DeskInv
BY DeskInvInit, DeskInvStep, DeskInvStutter, PTL DEF Spec

(* The variables of tabs, calls and ledger keep their types. *)
THEOREM DeskTypes == Spec => []TypeOK
<1>1. DeskInv => TypeOK
  BY DEF DeskInv
<1>2. QED
  BY <1>1, DeskInvHolds, PTL

(* "Your response is saved" (static/current-state.mjs) is true: for every  *)
(* response confirmed to a person the ledger has the receipt of the        *)
(* revision right after the one they answered.                             *)
THEOREM ConfirmedIsSavedHolds == Spec => []ConfirmedIsSaved
<1>1. DeskInv => ConfirmedIsSaved
  <2> SUFFICES ASSUME DeskInv, NEW n \in Calls, Made(n), told[IdOf(n)] = "confirmed"
               PROVE  SavedAs(calls[n].response)
    BY DEF ConfirmedIsSaved, SavedAs, Made, IdOf
  <2>1. IdOf(n) \in Responses
    BY CallFields DEF DeskInv
  <2>2. PICK m \in Calls : Made(m) /\ IdOf(m) = IdOf(n) /\ calls[m].phase = "confirmed"
    BY <2>1 DEF DeskInv, ToldByCalls
  <2>3. receipts[TheCase][IdOf(n)] # NoReceipt
    BY <2>2 DEF DeskInv, AnswersHold
  <2>4. QED
    BY <2>1, <2>3 DEF DeskInv, ReceiptsOfResponses
<1>2. QED
  BY <1>1, DeskInvHolds, PTL

(* A person told that the plan changed decides afresh: no delayed copy of  *)
(* the old call (current/http.py) is ever applied.                         *)
THEOREM ConflictIsFinalHolds == Spec => []ConflictIsFinal
<1>1. DeskInv => ConflictIsFinal
  <2> SUFFICES ASSUME DeskInv, NEW q \in Responses, told[q] = "conflict" PROVE ~Saved(q)
    BY DEF ConflictIsFinal
  <2>1. PICK m \in Calls : Made(m) /\ IdOf(m) = q /\ calls[m].phase = "conflict"
    BY DEF DeskInv, ToldByCalls
  <2>2. receipts[TheCase][q] = NoReceipt
    BY <2>1 DEF DeskInv, AnswersHold
  <2>3. QED
    BY <2>2 DEF Saved, NoReceipt
<1>2. QED
  BY <1>1, DeskInvHolds, PTL

(* Until its person is told the outcome, a response stays in the tab that  *)
(* sent it, through lost answers and reloads.                              *)
THEOREM NothingForgottenHolds == Spec => []NothingForgotten
<1>1. DeskInv => NothingForgotten
  BY DEF DeskInv
<1>2. QED
  BY <1>1, DeskInvHolds, PTL
=============================================================================
