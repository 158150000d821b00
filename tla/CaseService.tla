---------------------------- MODULE CaseService ----------------------------
(***************************************************************************)
(* The historical replay service (service.py, planning.py) and the durable *)
(* turn allowance (persistent_budget.py).  A turn claims its session in    *)
(* one transaction, reads the case, spends an allowance in a second        *)
(* database transaction, runs a planner for as long as that takes, and     *)
(* commits in a last one; an operator's response reads and commits without *)
(* a claim.  The case is one JSON value, so every commit replaces all of   *)
(* it.  Callers are threads or processes, retrying clients among them;     *)
(* each may die between any two of its transactions.                       *)
(*                                                                         *)
(* A caller that finds an unexpired claim waits or gives up, and one that  *)
(* finds its request saved gets the saved answer: neither changes state.   *)
(* The owner token of a claim is fresh; it is named after the caller.      *)
(***************************************************************************)
EXTENDS Integers, FiniteSets, Sequences

CONSTANTS
  Sessions,
  Requests,     \* request ids, chosen by the clients
  Callers,      \* calls of advance and respond under way at one time
  Kinds,        \* kinds of review
  Required,     \* for each observation window, the kinds its turn must address
  ClaimLife,    \* the 300 seconds of a claim, in ticks
  TurnLimit,    \* live_budgets.configured_limit
  NULL

ASSUME ServiceAssumption ==
  /\ Required \in Seq(SUBSET Kinds)
  /\ IsFiniteSet(Requests) /\ IsFiniteSet(Sessions) /\ IsFiniteSet(Callers)
  /\ ClaimLife \in Nat \ {0}
  /\ TurnLimit \in Nat \ {0}
  /\ NULL \notin Sessions \cup Requests \cup Callers

VARIABLES
  sessions,     \* sessions: revision and state
  receipts,     \* requests
  claims,       \* claims, with the time each has left
  spent,        \* live_budgets.attempts of the one scope
  call          \* what each caller holds between its transactions

serviceVars == <<sessions, receipts, claims, spent, call>>

Windows == DOMAIN Required
TaskIds == Windows \X Kinds          \* a task is named by the turn that opened it
Advance == [what |-> "advance", task |-> NULL]
Responses == [what : {"acknowledge", "complete_review"}, task : TaskIds]
Operations == Responses \cup {Advance}

Task == [status : {"OPEN", "ACKNOWLEDGED", "COMPLETED"}, evidence : SUBSET Windows]
NoTask == [status |-> "NONE", evidence |-> {}]
Case == [processed : 0 .. Len(Required), tasks : [TaskIds -> Task \cup {NoTask}],
         responses : Seq(Responses)]
NewCase == [processed |-> 0, tasks |-> [i \in TaskIds |-> NoTask], responses |-> <<>>]

NoSession == [rev |-> -1, state |-> NewCase]
NoReceipt == [what |-> "none", task |-> NULL]
NoClaim == [owner |-> NULL, left |-> 0]
Idle == [pc |-> "idle", session |-> NULL, request |-> NULL, op |-> Advance,
         rev |-> 0, state |-> NewCase]
Steps == {"claimed", "read", "planning", "releasing", "responding", "responded"}

ServiceTypeOK ==
  /\ sessions \in [Sessions -> [rev : Nat, state : Case] \cup {NoSession}]
  /\ receipts \in [Sessions -> [Requests -> Operations \cup {NoReceipt}]]
  /\ claims \in [Sessions -> [owner : Callers, left : 0 .. ClaimLife] \cup {NoClaim}]
  /\ spent \in 0 .. TurnLimit
  /\ call \in [Callers -> [pc : Steps, session : Sessions, request : Requests,
                           op : Operations, rev : Nat, state : Case] \cup {Idle}]

ServiceInit ==
  /\ sessions = [s \in Sessions |-> NoSession]
  /\ receipts = [s \in Sessions |-> [q \in Requests |-> NoReceipt]]
  /\ claims = [s \in Sessions |-> NoClaim]
  /\ spent = 0
  /\ call = [c \in Callers |-> Idle]

OpenOnly(state, k) ==                               \* seeded error: acknowledged work is not found
  {i \in TaskIds : i[2] = k /\ state.tasks[i].status = "OPEN"}

(* The only unfinished task of a kind, or none: the one target a proposal  *)
(* of that kind may name (propose_review).                                 *)
Unfinished(state, k) ==
  {i \in TaskIds : i[2] = k /\ state.tasks[i].status \in {"OPEN", "ACKNOWLEDGED"}}

(* The case after its next window: finish() demands exactly the required   *)
(* kinds, so a valid plan differs from another only in its wording.        *)
AfterTurn(state) ==
  LET w == state.processed + 1
      Target(k) == IF Unfinished(state, k) = {} THEN <<w, k>>
                   ELSE CHOOSE i \in Unfinished(state, k) : TRUE
      Touched == {Target(k) : k \in Required[w]}
      With(task) == IF task = NoTask THEN [status |-> "OPEN", evidence |-> {w}]
                    ELSE [task EXCEPT !.evidence = @ \cup {w}]
  IN [state EXCEPT !.processed = w,
                   !.tasks = [i \in TaskIds |-> IF i \in Touched THEN With(@[i]) ELSE @[i]]]

Answerable(state, op) ==
  LET status == state.tasks[op.task].status
  IN /\ status \notin {"NONE", "COMPLETED"}
     /\ op.what = "acknowledge" => status # "ACKNOWLEDGED"

AfterResponse(state, op) ==
  [state EXCEPT !.tasks[op.task].status =
                   IF op.what = "acknowledge" THEN "ACKNOWLEDGED" ELSE "COMPLETED",
                !.responses = Append(@, op)]

(* Is there a claim that has not expired? *)
InForce(s) == claims[s].left > 0

----------------------------------------------------------------------------
CreateSession(s) ==
  /\ sessions[s] = NoSession
  /\ sessions' = [sessions EXCEPT ![s] = [rev |-> 0, state |-> NewCase]]
  /\ UNCHANGED <<receipts, claims, spent, call>>

Begin(c, s, q, op, pc) ==
  call' = [call EXCEPT ![c] =
             [pc |-> pc, session |-> s, request |-> q, op |-> op, rev |-> 0, state |-> NewCase]]

At(c, pc) == call' = [call EXCEPT ![c].pc = pc]
Return(c) == call' = [call EXCEPT ![c] = Idle]

(* advance: the claim, over none or over one that has expired. *)
Claim(c, s, q) ==
  /\ call[c] = Idle
  /\ receipts[s][q] = NoReceipt
  /\ sessions[s] # NoSession
  /\ ~InForce(s)
  /\ claims' = [claims EXCEPT ![s] = [owner |-> c, left |-> ClaimLife]]
  /\ Begin(c, s, q, Advance, "claimed")
  /\ UNCHANGED <<sessions, receipts, spent>>

Saved(c) == sessions[call[c].session]

(* _advance_claimed reads the case; a complete one is refused. *)
ReadCase(c) ==
  /\ call[c].pc = "claimed"
  /\ IF Saved(c).state.processed = Len(Required)
     THEN At(c, "releasing")
     ELSE call' = [call EXCEPT ![c] =
                     [@ EXCEPT !.pc = "read", !.rev = Saved(c).rev, !.state = Saved(c).state]]
  /\ UNCHANGED <<sessions, receipts, claims, spent>>

SpendLate(c) ==                                     \* seeded error: counted after the turn
  /\ call[c].pc = "read"
  /\ spent < TurnLimit
  /\ At(c, "planning")
  /\ UNCHANGED <<sessions, receipts, claims, spent>>

SpendBeyond(c) ==                                   \* seeded error: the limit is not compared
  /\ call[c].pc = "read"
  /\ spent' = spent + 1
  /\ At(c, "planning")
  /\ UNCHANGED <<sessions, receipts, claims>>

(* PersistentBudgetPlanner.plan spends before it plans. *)
Spend(c) ==
  /\ call[c].pc = "read"
  /\ spent < TurnLimit
  /\ spent' = spent + 1
  /\ At(c, "planning")
  /\ UNCHANGED <<sessions, receipts, claims>>

(* The allowance is exhausted, the planner fails, or its plan is invalid. *)
PlanFails(c) ==
  /\ \/ call[c].pc = "read" /\ spent = TurnLimit
     \/ call[c].pc = "planning"
  /\ At(c, "releasing")
  /\ UNCHANGED <<sessions, receipts, claims, spent>>

HoldsClaim(c) == claims[call[c].session].owner = c /\ claims[call[c].session].left > 0

Unclaimed(c) == ~InForce(call[c].session)

AnyRevision(c) == TRUE                              \* seeded error: UPDATE without the revision
RevisionHeld(c) == Saved(c).rev = call[c].rev

Unanswered(c) == receipts[call[c].session][call[c].request] = NoReceipt

(* The UPDATE and INSERT of _commit. *)
Save(c, state) ==
  LET s == call[c].session
  IN /\ sessions' = [sessions EXCEPT ![s] = [rev |-> @.rev + 1, state |-> state]]
     /\ receipts' = [receipts EXCEPT ![s][call[c].request] = call[c].op]

(* _commit of a turn: its own unexpired claim, and the revision it read. *)
CommitTurn(c) ==
  /\ call[c].pc = "planning"
  /\ Unanswered(c) /\ HoldsClaim(c) /\ RevisionHeld(c)
  /\ Save(c, AfterTurn(call[c].state))
  /\ claims' = [claims EXCEPT ![call[c].session] = NoClaim]
  /\ At(c, "releasing")
  /\ UNCHANGED spent

(* _commit returns the answer another caller saved, or a conflict. *)
TurnRefused(c) ==
  /\ call[c].pc = "planning"
  /\ ~(Unanswered(c) /\ HoldsClaim(c) /\ RevisionHeld(c))
  /\ At(c, "releasing")
  /\ UNCHANGED <<sessions, receipts, claims, spent>>

ReleaseAny(c) ==                                    \* seeded error: the owner is not compared
  /\ call[c].pc = "releasing"
  /\ claims' = [claims EXCEPT ![call[c].session] = NoClaim]
  /\ Return(c)
  /\ UNCHANGED <<sessions, receipts, spent>>

(* The finally clause: only the caller's own claim is deleted. *)
Release(c) ==
  /\ call[c].pc = "releasing"
  /\ claims' = [claims EXCEPT ![call[c].session] = IF @.owner = c THEN NoClaim ELSE @]
  /\ Return(c)
  /\ UNCHANGED <<sessions, receipts, spent>>

----------------------------------------------------------------------------
(* respond: _previous, _read and _commit are three transactions.  A client *)
(* names only tasks it has seen: their ids are random.                     *)
StartResponse(c, s, q, op) ==
  /\ call[c] = Idle
  /\ receipts[s][q] = NoReceipt
  /\ sessions[s].state.tasks[op.task] # NoTask
  /\ Begin(c, s, q, op, "responding")
  /\ UNCHANGED <<sessions, receipts, claims, spent>>

ReadForResponse(c) ==
  /\ call[c].pc = "responding"
  /\ IF Answerable(Saved(c).state, call[c].op)
     THEN call' = [call EXCEPT ![c] =
                     [@ EXCEPT !.pc = "responded", !.rev = Saved(c).rev, !.state = Saved(c).state]]
     ELSE Return(c)
  /\ UNCHANGED <<sessions, receipts, claims, spent>>

CommitResponse(c) ==
  /\ call[c].pc = "responded"
  /\ Unanswered(c) /\ Unclaimed(c) /\ RevisionHeld(c)
  /\ Save(c, AfterResponse(call[c].state, call[c].op))
  /\ Return(c)
  /\ UNCHANGED <<claims, spent>>

ResponseRefused(c) ==
  /\ call[c].pc = "responded"
  /\ ~(Unanswered(c) /\ Unclaimed(c) /\ RevisionHeld(c))
  /\ Return(c)
  /\ UNCHANGED <<sessions, receipts, claims, spent>>

(* The process dies; its claim, if it has one, stays until it expires. *)
Die(c) ==
  /\ call[c] # Idle
  /\ Return(c)
  /\ UNCHANGED <<sessions, receipts, claims, spent>>

(* The clock moves on, for the claims in force. *)
Tick ==
  /\ \E s \in Sessions : InForce(s)
  /\ claims' = [s \in Sessions |->
                  IF InForce(s) THEN [claims[s] EXCEPT !.left = @ - 1] ELSE claims[s]]
  /\ UNCHANGED <<sessions, receipts, spent, call>>

Turn(c) ==
  \/ \E s \in Sessions, q \in Requests : Claim(c, s, q)
  \/ ReadCase(c) \/ Spend(c) \/ PlanFails(c) \/ CommitTurn(c) \/ TurnRefused(c) \/ Release(c)

Response(c) ==
  \/ \E s \in Sessions, q \in Requests, op \in Responses : StartResponse(c, s, q, op)
  \/ ReadForResponse(c) \/ CommitResponse(c) \/ ResponseRefused(c)

ServiceNext ==
  \/ \E s \in Sessions : CreateSession(s)
  \/ \E c \in Callers : Turn(c) \/ Response(c) \/ Die(c)
  \/ Tick

ServiceSpec == ServiceInit /\ [][ServiceNext]_serviceVars
----------------------------------------------------------------------------
Answered(s) == {q \in Requests : receipts[s][q] # NoReceipt}
Turns(s) == {q \in Answered(s) : receipts[s][q] = Advance}
Replies(s) == Answered(s) \ Turns(s)

(* Every answered request is in the saved case exactly once: no duplicate  *)
(* of a request applies it again, and no commit, written from a copy of    *)
(* the whole case read earlier, overwrites what another request saved.     *)
RequestsAppliedOnce ==
  \A s \in Sessions : sessions[s] # NoSession =>
    LET state == sessions[s].state
    IN /\ sessions[s].rev = Cardinality(Answered(s))
       /\ state.processed = Cardinality(Turns(s))
       /\ Len(state.responses) = Cardinality(Replies(s))
       /\ \A op \in Responses :
            Cardinality({q \in Replies(s) : receipts[s][q] = op})
              = Cardinality({i \in DOMAIN state.responses : state.responses[i] = op})

(* Each released window is evidence of exactly one review of every kind it *)
(* requires and of no other, and a kind never has two unfinished reviews.  *)
EvidenceCarriedOnce ==
  \A s \in Sessions, k \in Kinds :
    LET state == sessions[s].state
        OfKind == {i \in TaskIds : i[2] = k /\ state.tasks[i] # NoTask}
    IN /\ Cardinality({i \in OfKind : state.tasks[i].status # "COMPLETED"}) <= 1
       /\ \A w \in Windows :
            Cardinality({i \in OfKind : w \in state.tasks[i].evidence})
              = IF w <= state.processed /\ k \in Required[w] THEN 1 ELSE 0

(* A paid turn that answers in time is never thrown away: while its claim  *)
(* is in force no operator's response, late turn or retry changes the case *)
(* it read, and no other turn that ends, its own claim long expired, takes *)
(* that claim from it.                                                     *)
TurnUndisturbed ==
  [][\A c \in Callers : call[c].pc \in {"claimed", "read", "planning"} /\ HoldsClaim(c) =>
       /\ call[c].pc # "claimed" => RevisionHeld(c) /\ call[c].state = Saved(c).state
       /\ call'[c] = call[c] => claims'[call[c].session].owner = c]_serviceVars

(* The allowance covers every turn that reached the planner, in any        *)
(* session: those saved, and those still running; a crash between the two  *)
(* never lets one more through.                                            *)
TurnsPaid ==
  LET Saves == {p \in Sessions \X Requests : receipts[p[1]][p[2]] = Advance}
      Running == {c \in Callers : call[c].pc = "planning"}
  IN Cardinality(Saves) + Cardinality(Running) <= spent
============================================================================
