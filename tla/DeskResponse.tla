---------------------------- MODULE DeskResponse ----------------------------
(***************************************************************************)
(* People at the desk (static/current-state.mjs, current/http.py and       *)
(* desk.py): a browser tab saves a response before it sends it, keeps it   *)
(* through lost confirmations and reloads, retries exactly the same        *)
(* request, and forgets it only when the service confirms or refuses it.   *)
(* A call the tab gave up on may still reach the service, later than the   *)
(* retry; the service stamps a call with its clock when it arrives and     *)
(* runs it when it gets the database.                                      *)
(***************************************************************************)
EXTENDS CaseLedger

CONSTANTS
  Tabs,
  Calls,        \* HTTP calls the tabs may make: bounds the retries
  Responses,    \* request ids people use; the others belong to scripts
  Offered       \* the actions people choose from

ASSUME DeskAssumption ==
  /\ Responses \subseteq Requests /\ Offered \subseteq HumanActions
  /\ Cases # {}
  /\ NULL \notin Calls

VARIABLES
  clock,        \* of the service
  view,         \* the plan a tab shows: its task and revision
  stored,       \* the pending response in the tab's session storage
  waiting,      \* the call the tab waits for
  calls,        \* what became of every call
  told          \* what the operator was told of every response

deskVars == <<clock, view, stored, waiting, calls, told>>
vars == <<sourceVars, ledgerVars, deskVars>>

TheCase == CHOOSE c \in Cases : TRUE

View == [task : Requests, rev : Nat]
Response == [id : Responses, task : Requests, expected : Nat, action : HumanActions, due : Dues]
Replies == {"confirmed", "conflict", "rejected", "unavailable"}
Call == [phase : {"sent", "stamped"} \cup Replies, tab : Tabs, response : Response, now : Times]

ASSUME NullAssumption == NULL \notin View /\ NULL \notin Response /\ NULL \notin Call

TypeOK ==
  /\ SourceTypeOK /\ LedgerTypeOK
  /\ clock \in Times
  /\ view \in [Tabs -> View \cup {NULL}]
  /\ stored \in [Tabs -> Response \cup {NULL}]
  /\ waiting \in [Tabs -> Calls \cup {NULL}]
  /\ calls \in [Calls -> Call \cup {NULL}]
  /\ told \in [Responses -> {"nothing", "confirmed", "conflict", "rejected"}]

Init ==
  /\ SourceInit /\ LedgerInit
  /\ clock = 0
  /\ view = [b \in Tabs |-> NULL]
  /\ stored = [b \in Tabs |-> NULL]
  /\ waiting = [b \in Tabs |-> NULL]
  /\ calls = [n \in Calls |-> NULL]
  /\ told = [q \in Responses |-> "nothing"]

----------------------------------------------------------------------------
(* The tab                                                                 *)
Look(b) ==
  /\ waiting[b] = NULL
  /\ \E task \in ActiveOf(TheCase) :
       view' = [view EXCEPT ![b] = [task |-> task, rev |-> reviews[TheCase][task].rev]]
  /\ UNCHANGED <<clock, stored, waiting, calls, told, sourceVars, ledgerVars>>

(* begin: a fresh request id, bound to the revision on the screen. *)
Begin(b, q, action, due) ==
  /\ view[b] # NULL /\ stored[b] = NULL /\ waiting[b] = NULL
  /\ \A x \in Tabs : stored[x] # NULL => stored[x].id # q
  /\ \A n \in Calls : calls[n] # NULL => calls[n].response.id # q
  /\ (due # NoDue) = (action \in {"MODIFY", "DEFER"})
  /\ stored' = [stored EXCEPT ![b] =
       [id |-> q, task |-> view[b].task, expected |-> view[b].rev,
        action |-> action, due |-> due]]
  /\ UNCHANGED <<clock, view, waiting, calls, told, sourceVars, ledgerVars>>

(* attempt: sends the stored bytes, the first time or again. *)
Send(b, n) ==
  /\ stored[b] # NULL /\ waiting[b] = NULL /\ calls[n] = NULL
  /\ calls' = [calls EXCEPT ![n] =
       [phase |-> "sent", tab |-> b, response |-> stored[b], now |-> 0]]
  /\ waiting' = [waiting EXCEPT ![b] = n]
  /\ UNCHANGED <<clock, view, stored, told, sourceVars, ledgerVars>>

(* The connection breaks, or the page is reloaded and reads its storage.   *)
GiveUp(b) ==
  /\ waiting[b] # NULL
  /\ waiting' = [waiting EXCEPT ![b] = NULL]
  /\ view' = [view EXCEPT ![b] = NULL]
  /\ UNCHANGED <<clock, stored, calls, told, sourceVars, ledgerVars>>

HearAndForget(b) ==                                 \* seeded error: cleared by any answer
  LET n == waiting[b]
  IN /\ n # NULL
     /\ calls[n].phase \in Replies
     /\ waiting' = [waiting EXCEPT ![b] = NULL]
     /\ stored' = [stored EXCEPT ![b] = NULL]
     /\ told' = IF calls[n].phase = "unavailable" THEN told
                ELSE [told EXCEPT ![stored[b].id] = calls[n].phase]
     /\ UNCHANGED <<clock, view, calls, sourceVars, ledgerVars>>

(* attempt, when the answer arrives: 5xx, 408, 429 and unusable answers    *)
(* leave the response pending; a confirmation and any other 4xx clear it.  *)
Hear(b) ==
  LET n == waiting[b]
      reply == calls[n].phase
      q == stored[b].id
  IN /\ n # NULL
     /\ reply \in Replies
     /\ waiting' = [waiting EXCEPT ![b] = NULL]
     /\ IF reply = "unavailable" THEN UNCHANGED <<stored, told>>
        ELSE /\ stored' = [stored EXCEPT ![b] = NULL]
             /\ told' = [told EXCEPT ![q] = reply]
     /\ UNCHANGED <<clock, view, calls, sourceVars, ledgerVars>>

----------------------------------------------------------------------------
(* The service                                                             *)
ArriveRounded(n) ==                                 \* seeded error: stamped ahead of the clock
  /\ calls[n] # NULL /\ calls[n].phase = "sent"
  /\ calls' = [calls EXCEPT ![n].phase = "stamped", ![n].now = clock + 1]
  /\ UNCHANGED <<clock, view, stored, waiting, told, sourceVars, ledgerVars>>

Arrive(n) ==
  /\ calls[n] # NULL /\ calls[n].phase = "sent"
  /\ calls' = [calls EXCEPT ![n].phase = "stamped", ![n].now = clock]
  /\ UNCHANGED <<clock, view, stored, waiting, told, sourceVars, ledgerVars>>

Answer(n, reply) == calls' = [calls EXCEPT ![n].phase = reply]

(* WorkflowConflict: another revision, a closed review, approved already.  *)
Conflicts(r) ==
  LET prior == reviews[TheCase][r.task]
  IN \/ prior.rev # r.expected
     \/ r.task \notin ActiveOf(TheCase)
     \/ r.action = "APPROVE" /\ prior.status = "APPROVED"

(* prior_receipt: the same request again returns the saved receipt. *)
Replay(n) ==
  /\ receipts[TheCase][calls[n].response.id].op # "NONE"
  /\ Answer(n, "confirmed")
  /\ UNCHANGED ledgerVars

Apply(n) ==
  LET r == calls[n].response
  IN /\ Act(TheCase, r.id, r.task, r.expected, r.action, r.due, calls[n].now)
     /\ Answer(n, "confirmed") \/ Answer(n, "unavailable")   \* the view after it failed

RefuseUnread(n) ==                                  \* seeded error: receipts unread
  /\ Conflicts(calls[n].response) /\ Answer(n, "conflict")
  /\ UNCHANGED ledgerVars

(* The order of the checks: time first, then the plan, then the due time.  *)
Refuse(n) ==
  LET r == calls[n].response
      late == calls[n].now < caseTime[TheCase]
  IN /\ receipts[TheCase][r.id].op = "NONE"
     /\ \/ late /\ Answer(n, "rejected")
        \/ ~late /\ Conflicts(r) /\ Answer(n, "conflict")
        \/ /\ ~late /\ ~Conflicts(r)
           /\ ~Permitted(reviews[TheCase][r.task], r.action, r.due, calls[n].now)
           /\ Answer(n, "rejected")
     /\ UNCHANGED ledgerVars

(* A busy database or any other failure before anything is saved. *)
Unavailable(n) == Answer(n, "unavailable") /\ UNCHANGED ledgerVars

Serve(n) ==
  /\ calls[n] # NULL /\ calls[n].phase = "stamped"
  /\ Replay(n) \/ Apply(n) \/ Refuse(n) \/ Unavailable(n)
  /\ UNCHANGED <<clock, view, stored, waiting, told, sourceVars>>

----------------------------------------------------------------------------
(* Scripts draft reviews meanwhile; evidence linked by an invocation moves *)
(* the case's revision and clock no differently.                           *)
Draft ==
  /\ \E q \in Requests \ Responses, e \in Sealed, k \in Kinds, due \in Dues :
       StageReview(TheCase, q, caseRev[TheCase], k, e, due, clock)
  /\ UNCHANGED <<deskVars, sourceVars>>

Tick ==
  /\ clock < MaxTime
  /\ clock' = clock + 1
  /\ UNCHANGED <<view, stored, waiting, calls, told, sourceVars, ledgerVars>>

Next ==
  \/ \E b \in Tabs :
       \/ Look(b) \/ GiveUp(b) \/ Hear(b)
       \/ \E q \in Responses, action \in Offered, due \in Dues : Begin(b, q, action, due)
       \/ \E n \in Calls : Send(b, n)
  \/ \E n \in Calls : Arrive(n) \/ Serve(n)
  \/ Draft
  \/ Tick
  \/ \E S \in SUBSET Sealable : SealEvents(S) /\ UNCHANGED <<ledgerVars, deskVars>>

Spec == Init /\ [][Next]_vars

----------------------------------------------------------------------------
Saved(q) == receipts[TheCase][q].op = "HUMAN"

(* "Your response is saved" is true: whatever was lost, retried or served  *)
(* twice, the receipt is of the revision right after the one on the screen *)
(* when the person answered.                                               *)
ConfirmedIsSaved ==
  \A n \in Calls :
    calls[n] # NULL /\ told[calls[n].response.id] = "confirmed" =>
      LET r == calls[n].response
      IN /\ Saved(r.id)
         /\ receipts[TheCase][r.id].task = r.task
         /\ receipts[TheCase][r.id].rev = r.expected + 1

(* A person told "the plan changed" can decide afresh: the old response    *)
(* will not be applied behind their back by a delayed copy of the call.    *)
ConflictIsFinal == \A q \in Responses : told[q] = "conflict" => ~Saved(q)

(* While a response is pending its tab still holds it: an applied response *)
(* whose person was told nothing can be confirmed by retrying it.          *)
NothingForgotten ==
  \A n \in Calls : calls[n] # NULL /\ told[calls[n].response.id] = "nothing" =>
    stored[calls[n].tab] = calls[n].response

(* docs/CURRENT_DESK.md:42: a pending response is cleared only after a     *)
(* validated confirmation or a definite rejection.                         *)
RejectionIsDefinite == \A q \in Responses : told[q] = "rejected" => ~Saved(q)
============================================================================
