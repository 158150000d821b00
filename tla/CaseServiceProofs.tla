------------------------- MODULE CaseServiceProofs -------------------------
(***************************************************************************)
(* Proofs about the replay service, for any number of sessions, requests,  *)
(* callers and windows, any life of a claim and any allowance: types, that *)
(* a turn in time is not disturbed, that turns are paid for, that requests *)
(* are applied once, and that evidence is carried once.                    *)
(***************************************************************************)
EXTENDS CaseService, FiniteSetTheorems, SequenceTheorems, TLAPS

----------------------------------------------------------------------------
(* Types *)

Working == [pc : Steps, session : Sessions, request : Requests, op : Operations,
            rev : Nat, state : Case]

(* What a call under way has established: its session exists, it does what *)
(* it was started for, and a turn that has read the case has a window      *)
(* left.  A copy at the revision of the saved case is the saved case, which*)
(* makes the revision check of _commit enough to write all of it back.     *)
CallOK(c) ==
  call[c].pc # "idle" =>
    /\ sessions[call[c].session] # NoSession
    /\ call[c].pc \in {"claimed", "read", "planning", "releasing"} => call[c].op = Advance
    /\ call[c].pc \in {"responding", "responded"} => call[c].op \in Responses
    /\ call[c].pc \in {"read", "planning"} => call[c].state.processed < Len(Required)
    /\ call[c].pc = "responded" => Answerable(call[c].state, call[c].op)
    /\ call[c].pc \in {"read", "planning", "responded"} =>
         /\ call[c].rev <= Saved(c).rev
         /\ call[c].rev = Saved(c).rev => call[c].state = Saved(c).state

ServiceInv == ServiceTypeOK /\ \A c \in Callers : CallOK(c)

LEMMA Numbers == /\ Len(Required) \in Nat /\ Windows = 1 .. Len(Required)
                 /\ ClaimLife \in Nat \ {0} /\ TurnLimit \in Nat \ {0}
BY ServiceAssumption, LenProperties DEF Windows

LEMMA NewCaseType == NewCase \in Case
<1>1. <<>> \in Seq(Responses)
  BY EmptySeq
<1>2. QED
  BY <1>1, Numbers DEF NewCase, Case

LEMMA CallRecord ==
  ASSUME ServiceTypeOK, NEW c \in Callers, call[c].pc # "idle"
  PROVE  call[c] \in Working
BY DEF ServiceTypeOK, Working, Idle

LEMMA SessionRecord ==
  ASSUME ServiceTypeOK, NEW s \in Sessions, sessions[s] # NoSession
  PROVE  sessions[s] \in [rev : Nat, state : Case]
BY DEF ServiceTypeOK

LEMMA TurnType ==
  ASSUME NEW state \in Case, state.processed < Len(Required)
  PROVE  /\ AfterTurn(state) \in Case
         /\ AfterTurn(state).processed = state.processed + 1
         /\ AfterTurn(state).responses = state.responses
<1> DEFINE w == state.processed + 1
           Target(k) == IF Unfinished(state, k) = {} THEN <<w, k>>
                        ELSE CHOOSE i \in Unfinished(state, k) : TRUE
           Touched == {Target(k) : k \in Required[w]}
           With(task) == IF task = NoTask THEN [status |-> "OPEN", evidence |-> {w}]
                         ELSE [task EXCEPT !.evidence = @ \cup {w}]
           tasks == [i \in TaskIds |-> IF i \in Touched THEN With(state.tasks[i]) ELSE state.tasks[i]]
<1>1. state.processed \in Nat /\ w \in Windows /\ w \in 0 .. Len(Required)
  BY Numbers DEF Case
<1>2. \A task \in Task \cup {NoTask} : With(task) \in Task
  BY <1>1 DEF Task, NoTask
<1>3. tasks \in [TaskIds -> Task \cup {NoTask}]
  BY <1>2 DEF Case
<1>4. AfterTurn(state) = [state EXCEPT !.processed = w, !.tasks = tasks]
  BY Zenon DEF AfterTurn, Case
<1> HIDE DEF tasks
<1>5. QED
  BY <1>1, <1>3, <1>4 DEF Case

LEMMA ResponseType ==
  ASSUME NEW state \in Case, NEW op \in Responses, Answerable(state, op)
  PROVE  /\ AfterResponse(state, op) \in Case
         /\ AfterResponse(state, op).processed = state.processed
         /\ AfterResponse(state, op).responses = Append(state.responses, op)
<1>1. op.task \in TaskIds
  BY DEF Responses
<1>2. state.tasks[op.task] \in Task
  BY <1>1 DEF Answerable, Case, NoTask
<1> DEFINE status == IF op.what = "acknowledge" THEN "ACKNOWLEDGED" ELSE "COMPLETED"
           tasks == [state.tasks EXCEPT ![op.task] = [@ EXCEPT !.status = status]]
<1>3. [state.tasks[op.task] EXCEPT !.status = status] \in Task
  BY <1>2 DEF Task
<1>4. tasks \in [TaskIds -> Task \cup {NoTask}]
  BY <1>1, <1>3 DEF Case
<1>5. Append(state.responses, op) \in Seq(Responses)
  BY DEF Case
<1>6. AfterResponse(state, op) = [state EXCEPT !.tasks = tasks, !.responses = Append(@, op)]
  BY DEF AfterResponse, Case
<1> HIDE DEF tasks
<1>7. QED
  BY <1>4, <1>5, <1>6 DEF Case

(* The transactions that save the case, and what they save. *)
Commits(c) == CommitTurn(c) \/ CommitResponse(c)
Answer(c) == IF call[c].pc = "planning" THEN AfterTurn(Saved(c).state)
             ELSE AfterResponse(Saved(c).state, call[c].op)

LEMMA SaveFacts ==
  ASSUME ServiceTypeOK, NEW c \in Callers, call[c].pc # "idle",
         sessions[call[c].session] # NoSession, NEW state \in Case, Save(c, state)
  PROVE  /\ call[c].session \in Sessions /\ call[c].request \in Requests /\ call[c].op \in Operations
         /\ Saved(c).rev \in Nat
         /\ sessions' \in [Sessions -> [rev : Nat, state : Case] \cup {NoSession}]
         /\ sessions'[call[c].session] = [rev |-> Saved(c).rev + 1, state |-> state]
         /\ \A x \in Sessions \ {call[c].session} : sessions'[x] = sessions[x]
         /\ \A x \in Sessions : sessions[x] # NoSession => sessions'[x] # NoSession
         /\ receipts' \in [Sessions -> [Requests -> Operations \cup {NoReceipt}]]
         /\ receipts'[call[c].session][call[c].request] = call[c].op
         /\ \A x \in Sessions, q \in Requests :
              x # call[c].session \/ q # call[c].request => receipts'[x][q] = receipts[x][q]
<1> DEFINE s == call[c].session
           q == call[c].request
           row == [rev |-> Saved(c).rev + 1, state |-> state]
<1>1. s \in Sessions /\ q \in Requests /\ call[c].op \in Operations
  BY CallRecord DEF Working
<1>2. Saved(c) \in [rev : Nat, state : Case]
  BY <1>1, SessionRecord DEF Saved
<1>3. row \in [rev : Nat, state : Case] /\ row # NoSession
  BY <1>2 DEF NoSession
<1>4. sessions' = [sessions EXCEPT ![s] = row]
  BY DEF Save, Saved
<1> HIDE DEF row
<1>5. /\ sessions' \in [Sessions -> [rev : Nat, state : Case] \cup {NoSession}]
      /\ sessions'[s] = row
      /\ \A x \in Sessions \ {s} : sessions'[x] = sessions[x]
  BY <1>1, <1>3, <1>4 DEF ServiceTypeOK
<1>6. receipts' = [receipts EXCEPT ![s] = [@ EXCEPT ![q] = call[c].op]]
  BY DEF Save
<1>7. /\ receipts' \in [Sessions -> [Requests -> Operations \cup {NoReceipt}]]
      /\ receipts'[s][q] = call[c].op
      /\ \A x \in Sessions, z \in Requests :
              x # s \/ z # q => receipts'[x][z] = receipts[x][z]
  BY <1>1, <1>6 DEF ServiceTypeOK
<1>8. QED
  BY <1>1, <1>2, <1>3, <1>5, <1>7 DEF row

LEMMA AnswerFacts ==
  ASSUME ServiceInv, NEW c \in Callers, Commits(c)
  PROVE  /\ call[c].pc \in {"planning", "responded"}
         /\ call[c].session \in Sessions /\ Saved(c) \in [rev : Nat, state : Case]
         /\ call[c].rev = Saved(c).rev
         /\ receipts[call[c].session][call[c].request] = NoReceipt
         /\ sessions[call[c].session] # NoSession
         /\ call[c].pc = "planning" =>
              Saved(c).state.processed < Len(Required) /\ call[c].op = Advance
         /\ call[c].pc = "responded" =>
              Answerable(Saved(c).state, call[c].op) /\ call[c].op \in Responses
         /\ Answer(c) \in Case
         /\ Save(c, Answer(c))
<1>1. call[c].pc \in {"planning", "responded"} /\ call[c] \in Working
  BY CallRecord DEF Commits, CommitTurn, CommitResponse, ServiceInv
<1>2. Saved(c) \in [rev : Nat, state : Case] /\ sessions[call[c].session] # NoSession
  BY <1>1, SessionRecord DEF Saved, ServiceInv, CallOK, Working
<1>3. call[c].rev = Saved(c).rev /\ call[c].state = Saved(c).state
  BY <1>1 DEF Commits, CommitTurn, CommitResponse, RevisionHeld, ServiceInv, CallOK
<1>4. receipts[call[c].session][call[c].request] = NoReceipt
  BY DEF Commits, CommitTurn, CommitResponse, Unanswered
<1>5. /\ call[c].pc = "planning" => Saved(c).state.processed < Len(Required) /\ call[c].op = Advance
      /\ call[c].pc = "responded" =>
           Answerable(Saved(c).state, call[c].op) /\ call[c].op \in Responses
  BY <1>1, <1>3 DEF ServiceInv, CallOK
<1>6. Answer(c) \in Case
  BY <1>1, <1>2, <1>5, TurnType, ResponseType DEF Answer
<1>7. Save(c, Answer(c))
  BY <1>1, <1>3 DEF Commits, CommitTurn, CommitResponse, Answer
<1>8. QED
  BY <1>1, <1>2, <1>3, <1>4, <1>5, <1>6, <1>7 DEF Working

----------------------------------------------------------------------------
(* The invariant of the calls under way                                    *)

(* The rows of the sessions only move forward. *)
RowsForward ==
  \A x \in Sessions : sessions[x] # NoSession =>
    /\ sessions'[x] # NoSession
    /\ sessions'[x] = sessions[x] \/ sessions'[x].rev > sessions[x].rev

LEMMA CallKept ==
  ASSUME ServiceInv, ServiceTypeOK', RowsForward, NEW c \in Callers,
         call'[c].pc # "idle" => call'[c] = [call[c] EXCEPT !.pc = call'[c].pc],
         call[c].pc = "idle" => call'[c].pc = "idle",
         call'[c].pc # call[c].pc =>
           \/ call'[c].pc \in {"idle", "releasing"} /\ call[c].pc \notin {"responding", "responded"}
           \/ call'[c].pc = "idle"
           \/ call'[c].pc = "planning" /\ call[c].pc = "read"
  PROVE  CallOK(c)'
<1> SUFFICES ASSUME call'[c].pc # "idle" PROVE CallOK(c)'
  BY DEF CallOK
<1>1. call[c] \in Working /\ call'[c] \in Working
  BY CallRecord DEF ServiceInv, ServiceTypeOK, Working, Idle
<1>2. /\ call'[c].session = call[c].session /\ call'[c].op = call[c].op
      /\ call'[c].rev = call[c].rev /\ call'[c].state = call[c].state
  <2> DEFINE pc == call'[c].pc
  <2>1. call'[c] = [call[c] EXCEPT !.pc = pc]
    OBVIOUS
  <2> HIDE DEF pc
  <2>2. QED
    BY <1>1, <2>1 DEF Working
<1>3. Saved(c)' = sessions'[call[c].session] /\ call[c].session \in Sessions
  BY <1>1, <1>2 DEF Saved, Working
<1>4. CallOK(c) /\ call[c].pc # "idle" /\ sessions[call[c].session] # NoSession
  BY DEF ServiceInv, CallOK
<1>5. /\ sessions'[call[c].session] # NoSession
      /\ Saved(c)' = Saved(c) \/ Saved(c)'.rev > Saved(c).rev
      /\ Saved(c).rev \in Nat /\ Saved(c)'.rev \in Nat /\ call[c].rev \in Nat
  BY <1>1, <1>3, <1>4, SessionRecord DEF RowsForward, Saved, ServiceInv, ServiceTypeOK, Working
<1>6. call[c].pc \in Steps
  BY <1>1 DEF Working
<1>7. /\ call'[c].pc \in {"claimed", "read", "planning", "releasing"} => call'[c].op = Advance
      /\ call'[c].pc \in {"responding", "responded"} => call'[c].op \in Responses
      /\ call'[c].pc \in {"read", "planning"} => call'[c].state.processed < Len(Required)
  BY <1>2, <1>4, <1>6 DEF CallOK, Steps
<1>8. call'[c].pc = "responded" => Answerable(call'[c].state, call'[c].op)
  BY <1>2, <1>4 DEF CallOK
<1>9. call'[c].pc \in {"read", "planning", "responded"} =>
         /\ call'[c].rev <= Saved(c)'.rev
         /\ call'[c].rev = Saved(c)'.rev => call'[c].state = Saved(c)'.state
  <2> SUFFICES ASSUME call'[c].pc \in {"read", "planning", "responded"}
               PROVE  /\ call'[c].rev <= Saved(c)'.rev
                      /\ call'[c].rev = Saved(c)'.rev => call'[c].state = Saved(c)'.state
    OBVIOUS
  <2>1. call[c].pc \in {"read", "planning", "responded"}
    OBVIOUS
  <2>2. /\ call[c].rev <= Saved(c).rev
        /\ call[c].rev = Saved(c).rev => call[c].state = Saved(c).state
    BY <1>4, <2>1 DEF CallOK
  <2>3. QED
    BY <1>2, <1>5, <2>2
<1>10. sessions'[call'[c].session] # NoSession
  BY <1>2, <1>5
<1>11. QED
  BY <1>7, <1>8, <1>9, <1>10 DEF CallOK

(* Every step of a caller is one of its own. *)
LEMMA OthersKept ==
  ASSUME ServiceInv, ServiceTypeOK', RowsForward, NEW c \in Callers, CallOK(c)',
         \A x \in Callers \ {c} : call'[x] = call[x]
  PROVE  ServiceInv'
<1>1. ASSUME NEW x \in Callers, x # c
      PROVE  CallOK(x)'
  <2>1. call'[x] = call[x]
    BY <1>1
  <2>2. call[x].pc # "idle" => call[x] = [call[x] EXCEPT !.pc = call[x].pc]
    BY CallRecord DEF ServiceInv, Working
  <2>3. QED
    BY <2>1, <2>2, CallKept
<1>2. QED
  BY <1>1 DEF ServiceInv

(* A caller moves on and keeps what it holds, or returns. *)
LEMMA MoveFacts ==
  ASSUME ServiceTypeOK, NEW c \in Callers, call[c].pc # "idle", NEW pc \in Steps,
         At(c, pc) \/ Return(c)
  PROVE  /\ call' \in [Callers -> Working \cup {Idle}]
         /\ \A x \in Callers \ {c} : call'[x] = call[x]
         /\ At(c, pc) => call'[c] = [call[c] EXCEPT !.pc = pc] /\ call'[c].pc = pc
         /\ Return(c) => call'[c] = Idle
<1>1. call \in [Callers -> Working \cup {Idle}] /\ call[c] \in Working
  BY CallRecord DEF ServiceTypeOK, Working
<1>2. CASE At(c, pc)
  <2>1. [call[c] EXCEPT !.pc = pc] \in Working /\ [call[c] EXCEPT !.pc = pc].pc = pc
    BY <1>1 DEF Working
  <2>2. call' = [call EXCEPT ![c] = [call[c] EXCEPT !.pc = pc]]
    BY <1>2 DEF At
  <2> DEFINE new == [call[c] EXCEPT !.pc = pc]
  <2> HIDE DEF new
  <2>3. /\ call' \in [Callers -> Working \cup {Idle}]
        /\ \A x \in Callers \ {c} : call'[x] = call[x]
        /\ call'[c] = new
    BY <1>1, <2>1, <2>2 DEF new
  <2>4. Return(c) => call'[c] = Idle
    BY <1>1 DEF Return
  <2>5. QED
    BY <2>1, <2>3, <2>4 DEF new
<1>3. CASE Return(c) /\ ~At(c, pc)
  BY <1>1, <1>3 DEF Return
<1>4. QED
  BY <1>2, <1>3

LEMMA ReturnIsIdle ==
  ASSUME ServiceTypeOK, NEW c \in Callers, call[c].pc # "idle", Return(c)
  PROVE  /\ call'[c] = Idle /\ \A x \in Callers \ {c} : call'[x] = call[x]
         /\ ~At(c, "planning")
<1>1. "planning" \in Steps
  BY DEF Steps
<1>2. At(c, "planning") => call'[c].pc = "planning"
  BY <1>1, MoveFacts
<1>3. call'[c] = Idle /\ \A x \in Callers \ {c} : call'[x] = call[x]
  BY <1>1, MoveFacts
<1>4. QED
  BY <1>2, <1>3 DEF Idle

(* A caller starts. *)
LEMMA BeginFacts ==
  ASSUME ServiceTypeOK, NEW c \in Callers, NEW s \in Sessions, NEW q \in Requests,
         NEW op \in Operations, NEW pc \in {"claimed", "responding"}, Begin(c, s, q, op, pc)
  PROVE  /\ call' \in [Callers -> Working \cup {Idle}]
         /\ \A x \in Callers \ {c} : call'[x] = call[x]
         /\ call'[c].pc = pc /\ call'[c].op = op /\ call'[c].session = s
<1> DEFINE new == [pc |-> pc, session |-> s, request |-> q, op |-> op, rev |-> 0, state |-> NewCase]
<1>1. new \in Working /\ new.pc = pc /\ new.op = op /\ new.session = s
  BY NewCaseType DEF Working, Steps
<1>2. call' = [call EXCEPT ![c] = new] /\ call \in [Callers -> Working \cup {Idle}]
  BY DEF Begin, ServiceTypeOK, Working
<1> HIDE DEF new
<1>3. QED
  BY <1>1, <1>2

LEMMA ServiceInitInv == ServiceInit => ServiceInv
<1> SUFFICES ASSUME ServiceInit PROVE ServiceInv
  OBVIOUS
<1>1. ServiceTypeOK
  BY Numbers DEF ServiceInit, ServiceTypeOK
<1>2. \A c \in Callers : call[c].pc = "idle"
  BY DEF ServiceInit, Idle
<1>3. QED
  BY <1>1, <1>2 DEF ServiceInv, CallOK

LEMMA CreateSessionInv ==
  ASSUME ServiceInv, NEW s \in Sessions, CreateSession(s)
  PROVE  ServiceInv'
<1>1. ServiceTypeOK'
  BY NewCaseType DEF CreateSession, ServiceInv, ServiceTypeOK
<1>2. RowsForward
  BY DEF CreateSession, RowsForward, ServiceInv, ServiceTypeOK
<1>3. ASSUME NEW x \in Callers
      PROVE  CallOK(x)'
  <2>1. call'[x] = call[x]
    BY DEF CreateSession
  <2>2. call[x].pc # "idle" => call[x] = [call[x] EXCEPT !.pc = call[x].pc]
    BY CallRecord DEF ServiceInv, Working
  <2>3. QED
    BY <1>1, <1>2, <2>1, <2>2, CallKept
<1>4. QED
  BY <1>1, <1>3 DEF ServiceInv

LEMMA TickInv ==
  ASSUME ServiceInv, Tick
  PROVE  ServiceInv'
<1>1. ASSUME NEW s \in Sessions, InForce(s)
      PROVE  [claims[s] EXCEPT !.left = @ - 1] \in [owner : Callers, left : 0 .. ClaimLife]
  <2>1. claims[s] \in [owner : Callers, left : 0 .. ClaimLife] /\ claims[s].left > 0
    BY <1>1 DEF InForce, NoClaim, ServiceInv, ServiceTypeOK
  <2> DEFINE left == claims[s].left - 1
  <2>2. left \in 0 .. ClaimLife
    BY <2>1, Numbers
  <2> HIDE DEF left
  <2>3. [claims[s] EXCEPT !.left = left] \in [owner : Callers, left : 0 .. ClaimLife]
    BY <2>1, <2>2
  <2>4. QED
    BY <2>3 DEF left
<1>2. claims' \in [Sessions -> [owner : Callers, left : 0 .. ClaimLife] \cup {NoClaim}]
  BY <1>1 DEF Tick, ServiceInv, ServiceTypeOK
<1>3. ServiceTypeOK'
  BY <1>2 DEF Tick, ServiceInv, ServiceTypeOK
<1>4. QED
  BY <1>3 DEF Tick, ServiceInv, CallOK, Saved

LEMMA TickClaims ==
  ASSUME ServiceTypeOK, Tick, NEW s \in Sessions
  PROVE  /\ claims'[s].owner = claims[s].owner
         /\ claims'[s].left > 0 => claims[s].left > 0
<1>1. CASE InForce(s)
  <2>1. claims'[s] = [claims[s] EXCEPT !.left = @ - 1]
    BY <1>1 DEF Tick
  <2>2. claims[s] \in [owner : Callers, left : 0 .. ClaimLife]
    BY <1>1 DEF InForce, ServiceTypeOK, NoClaim
  <2>3. QED
    BY <1>1, <2>1, <2>2 DEF InForce
<1>2. CASE ~InForce(s)
  BY <1>2 DEF Tick
<1>3. QED
  BY <1>1, <1>2

LEMMA ClaimInv ==
  ASSUME ServiceInv, NEW c \in Callers, NEW s \in Sessions, NEW q \in Requests, Claim(c, s, q)
  PROVE  ServiceInv'
<1>1. Advance \in Operations
  BY DEF Operations
<1>2. /\ call' \in [Callers -> Working \cup {Idle}]
      /\ \A x \in Callers \ {c} : call'[x] = call[x]
      /\ call'[c].pc = "claimed" /\ call'[c].op = Advance /\ call'[c].session = s
  BY <1>1, BeginFacts DEF Claim, ServiceInv
<1>3. claims' \in [Sessions -> [owner : Callers, left : 0 .. ClaimLife] \cup {NoClaim}]
  BY Numbers DEF Claim, ServiceInv, ServiceTypeOK
<1>4. ServiceTypeOK'
  BY <1>2, <1>3 DEF Claim, ServiceInv, ServiceTypeOK, Working
<1>5. RowsForward
  BY DEF Claim, RowsForward
<1>6. CallOK(c)'
  BY <1>2 DEF Claim, CallOK, Saved
<1>7. QED
  BY <1>2, <1>4, <1>5, <1>6, OthersKept

LEMMA StartResponseInv ==
  ASSUME ServiceInv, NEW c \in Callers, NEW s \in Sessions, NEW q \in Requests,
         NEW op \in Responses, StartResponse(c, s, q, op)
  PROVE  ServiceInv'
<1>1. op \in Operations /\ op.task \in TaskIds
  BY DEF Operations, Responses
<1>2. /\ call' \in [Callers -> Working \cup {Idle}]
      /\ \A x \in Callers \ {c} : call'[x] = call[x]
      /\ call'[c].pc = "responding" /\ call'[c].op = op /\ call'[c].session = s
  BY <1>1, BeginFacts DEF StartResponse, ServiceInv
<1>3. ServiceTypeOK'
  BY <1>2 DEF StartResponse, ServiceInv, ServiceTypeOK, Working
<1>4. RowsForward
  BY DEF StartResponse, RowsForward
<1>5. sessions'[s] # NoSession
  BY <1>1 DEF StartResponse, NoSession, NewCase
<1>6. CallOK(c)'
  BY <1>2, <1>5 DEF CallOK
<1>7. QED
  BY <1>2, <1>3, <1>4, <1>6, OthersKept

(* The steps of a call that write neither the case nor a receipt.          *)
LEMMA QuietInv ==
  ASSUME ServiceInv, NEW c \in Callers, call[c].pc # "idle", NEW pc \in Steps,
         At(c, pc) \/ Return(c), UNCHANGED <<sessions, receipts>>, spent' \in 0 .. TurnLimit,
         claims' \in [Sessions -> [owner : Callers, left : 0 .. ClaimLife] \cup {NoClaim}],
         At(c, pc) => \/ pc = "releasing" /\ call[c].pc \in {"claimed", "read", "planning"}
                      \/ pc = "planning" /\ call[c].pc = "read"
  PROVE  ServiceInv'
<1>1. /\ call' \in [Callers -> Working \cup {Idle}]
      /\ \A x \in Callers \ {c} : call'[x] = call[x]
      /\ At(c, pc) => call'[c] = [call[c] EXCEPT !.pc = pc] /\ call'[c].pc = pc
      /\ Return(c) => call'[c] = Idle
  BY MoveFacts DEF ServiceInv
<1>2. ServiceTypeOK'
  BY <1>1 DEF ServiceInv, ServiceTypeOK, Working
<1>3. RowsForward
  BY DEF RowsForward
<1>4. CallOK(c)'
  <2>1. CASE At(c, pc)
    BY <1>1, <1>2, <1>3, <2>1, CallKept
  <2>2. CASE Return(c)
    BY <1>1, <2>2 DEF CallOK, Idle
  <2>3. QED
    BY <2>1, <2>2
<1>5. QED
  BY <1>1, <1>2, <1>3, <1>4, OthersKept

(* A read keeps the revision and the case it finds.                        *)
LEMMA ReadInv ==
  ASSUME ServiceInv, NEW c \in Callers, NEW pc,
         \/ pc = "read" /\ call[c].pc = "claimed" /\ Saved(c).state.processed # Len(Required)
         \/ pc = "responded" /\ call[c].pc = "responding" /\ Answerable(Saved(c).state, call[c].op),
         call' = [call EXCEPT ![c] = [@ EXCEPT !.pc = pc, !.rev = Saved(c).rev, !.state = Saved(c).state]],
         UNCHANGED <<sessions, receipts, claims, spent>>
  PROVE  ServiceInv'
<1>1. call[c] \in Working /\ CallOK(c) /\ pc \in Steps
  BY CallRecord DEF ServiceInv, Steps
<1>2. Saved(c) \in [rev : Nat, state : Case] /\ sessions[call[c].session] # NoSession
  BY <1>1, SessionRecord DEF Saved, ServiceInv, CallOK, Working
<1> DEFINE rev == Saved(c).rev
           state == Saved(c).state
           new == [call[c] EXCEPT !.pc = pc, !.rev = rev, !.state = state]
<1>3. rev \in Nat /\ state \in Case
  BY <1>2
<1>4. call' = [call EXCEPT ![c] = new]
  OBVIOUS
<1> HIDE DEF rev, state
<1>5. /\ new \in Working /\ new.pc = pc /\ new.rev = rev /\ new.state = state
      /\ new.session = call[c].session /\ new.op = call[c].op
  BY <1>1, <1>3 DEF Working
<1> HIDE DEF new
<1>6. /\ call' \in [Callers -> Working \cup {Idle}] /\ call'[c] = new
      /\ \A x \in Callers \ {c} : call'[x] = call[x]
  BY <1>4, <1>5 DEF ServiceInv, ServiceTypeOK, Working
<1>7. ServiceTypeOK'
  BY <1>6 DEF ServiceInv, ServiceTypeOK, Working
<1>8. RowsForward
  BY DEF RowsForward
<1>9. Saved(c)' = Saved(c)
  BY <1>5, <1>6 DEF Saved
<1>10. pc = "read" => state.processed < Len(Required)
  BY <1>3, Numbers DEF Case, state
<1>11. CallOK(c)'
  BY <1>1, <1>2, <1>3, <1>5, <1>6, <1>9, <1>10 DEF CallOK, rev, state, Saved
<1>12. QED
  BY <1>6, <1>7, <1>8, <1>11, OthersKept

(* The two commits. *)
LEMMA CommitInv ==
  ASSUME ServiceInv, NEW c \in Callers, Commits(c)
  PROVE  ServiceInv' /\ RowsForward
<1>1. /\ Answer(c) \in Case /\ Save(c, Answer(c)) /\ call[c].pc \in {"planning", "responded"}
      /\ call[c].session \in Sessions /\ sessions[call[c].session] # NoSession
  BY AnswerFacts
<1>2. /\ sessions' \in [Sessions -> [rev : Nat, state : Case] \cup {NoSession}]
      /\ sessions'[call[c].session] = [rev |-> Saved(c).rev + 1, state |-> Answer(c)]
      /\ \A x \in Sessions \ {call[c].session} : sessions'[x] = sessions[x]
      /\ \A x \in Sessions : sessions[x] # NoSession => sessions'[x] # NoSession
      /\ receipts' \in [Sessions -> [Requests -> Operations \cup {NoReceipt}]]
      /\ Saved(c).rev \in Nat
  BY <1>1, SaveFacts DEF ServiceInv
<1>3. At(c, "releasing") \/ Return(c)
  BY DEF Commits, CommitTurn, CommitResponse
<1>4. /\ call' \in [Callers -> Working \cup {Idle}]
      /\ \A x \in Callers \ {c} : call'[x] = call[x]
      /\ At(c, "releasing") => call'[c] = [call[c] EXCEPT !.pc = "releasing"] /\ call'[c].pc = "releasing"
      /\ Return(c) => call'[c] = Idle
  BY <1>1, <1>3, MoveFacts DEF ServiceInv, Steps
<1>5. claims' \in [Sessions -> [owner : Callers, left : 0 .. ClaimLife] \cup {NoClaim}]
  BY <1>1 DEF Commits, CommitTurn, CommitResponse, ServiceInv, ServiceTypeOK
<1>6. spent' = spent
  BY DEF Commits, CommitTurn, CommitResponse
<1>7. ServiceTypeOK'
  BY <1>2, <1>4, <1>5, <1>6 DEF ServiceInv, ServiceTypeOK, Working
<1>8. RowsForward
  BY <1>2 DEF RowsForward, Saved
<1>9. CallOK(c)'
  <2>1. CASE At(c, "releasing") /\ call[c].pc = "planning"
    BY <1>1, <1>4, <1>7, <1>8, <2>1, CallKept
  <2>2. CASE Return(c)
    BY <1>4, <2>2 DEF CallOK, Idle
  <2>3. QED
    BY <2>1, <2>2 DEF Commits, CommitTurn, CommitResponse
<1>10. QED
  BY <1>4, <1>7, <1>8, <1>9, OthersKept

LEMMA ServiceStepInv == ServiceInv /\ [ServiceNext]_serviceVars => ServiceInv'
<1> SUFFICES ASSUME ServiceInv, [ServiceNext]_serviceVars PROVE ServiceInv'
  OBVIOUS
<1>1. /\ spent \in 0 .. TurnLimit
      /\ claims \in [Sessions -> [owner : Callers, left : 0 .. ClaimLife] \cup {NoClaim}]
      /\ {"releasing", "planning"} \subseteq Steps
  BY DEF ServiceInv, ServiceTypeOK, Steps
<1>2. ASSUME NEW s \in Sessions, CreateSession(s) PROVE ServiceInv'
  BY <1>2, CreateSessionInv
<1>3. ASSUME NEW c \in Callers, Turn(c) PROVE ServiceInv'
  <2>1. ASSUME NEW s \in Sessions, NEW q \in Requests, Claim(c, s, q) PROVE ServiceInv'
    BY <2>1, ClaimInv
  <2>2. CASE ReadCase(c)
    <3>1. CASE Saved(c).state.processed = Len(Required)
      <4>1. At(c, "releasing") /\ call[c].pc = "claimed" /\ UNCHANGED <<sessions, receipts, claims, spent>>
        BY <2>2, <3>1 DEF ReadCase
      <4>2. QED
        BY <1>1, <4>1, QuietInv
    <3>2. CASE Saved(c).state.processed # Len(Required)
      BY <2>2, <3>2, ReadInv DEF ReadCase
    <3>3. QED
      BY <3>1, <3>2
  <2>3. CASE Spend(c)
    <3>1. spent' \in 0 .. TurnLimit
      BY <1>1, <2>3, Numbers DEF Spend
    <3>2. At(c, "planning") /\ call[c].pc = "read" /\ UNCHANGED <<sessions, receipts, claims>>
      BY <2>3 DEF Spend
    <3>3. QED
      BY <1>1, <3>1, <3>2, QuietInv
  <2>4. CASE PlanFails(c) \/ TurnRefused(c)
    <3>1. /\ At(c, "releasing") /\ call[c].pc \in {"read", "planning"}
          /\ UNCHANGED <<sessions, receipts, claims, spent>>
      BY <2>4 DEF PlanFails, TurnRefused
    <3>2. QED
      BY <1>1, <3>1, QuietInv
  <2>5. CASE CommitTurn(c)
    BY <2>5, CommitInv DEF Commits
  <2>6. CASE Release(c)
    <3>1. claims' \in [Sessions -> [owner : Callers, left : 0 .. ClaimLife] \cup {NoClaim}]
      BY <1>1, <2>6 DEF Release
    <3>2. Return(c) /\ call[c].pc = "releasing" /\ UNCHANGED <<sessions, receipts, spent>>
      BY <2>6 DEF Release
    <3>3. ~At(c, "planning")
      BY <3>2, ReturnIsIdle DEF ServiceInv
    <3>4. QED
      BY <1>1, <3>1, <3>2, <3>3, QuietInv
  <2>7. QED
    BY <1>3, <2>1, <2>2, <2>3, <2>4, <2>5, <2>6 DEF Turn
<1>4. ASSUME NEW c \in Callers, call[c].pc # "idle", Return(c),
             UNCHANGED <<sessions, receipts, claims, spent>>
      PROVE  ServiceInv'
  <2>1. ~At(c, "planning")
    BY <1>4, ReturnIsIdle DEF ServiceInv
  <2>2. QED
    BY <1>1, <1>4, <2>1, QuietInv
<1>5. ASSUME NEW c \in Callers, Response(c) PROVE ServiceInv'
  <2>1. ASSUME NEW s \in Sessions, NEW q \in Requests, NEW op \in Responses,
               StartResponse(c, s, q, op)
        PROVE  ServiceInv'
    BY <2>1, StartResponseInv
  <2>2. CASE ReadForResponse(c)
    <3>1. CASE Answerable(Saved(c).state, call[c].op)
      BY <2>2, <3>1, ReadInv DEF ReadForResponse
    <3>2. CASE ~Answerable(Saved(c).state, call[c].op)
      BY <1>4, <2>2, <3>2 DEF ReadForResponse
    <3>3. QED
      BY <3>1, <3>2
  <2>3. CASE CommitResponse(c)
    BY <2>3, CommitInv DEF Commits
  <2>4. CASE ResponseRefused(c)
    BY <1>4, <2>4 DEF ResponseRefused
  <2>5. QED
    BY <1>5, <2>1, <2>2, <2>3, <2>4 DEF Response
<1>6. ASSUME NEW c \in Callers, Die(c) PROVE ServiceInv'
  <2>1. call[c].pc # "idle"
    BY <1>6 DEF Die, ServiceInv, ServiceTypeOK, Steps
  <2>2. QED
    BY <1>4, <1>6, <2>1 DEF Die
<1>7. CASE Tick
  BY <1>7, TickInv
<1>8. CASE UNCHANGED serviceVars
  BY <1>8 DEF serviceVars, ServiceInv, ServiceTypeOK, CallOK, Saved
<1>9. QED
  BY <1>2, <1>3, <1>5, <1>6, <1>7, <1>8 DEF ServiceNext

(* Whatever calls run, die or are refused, the rows of sessions and        *)
(* requests, the claims, the allowance and what each call holds keep their *)
(* types: in particular the allowance never passes its limit and no case   *)
(* has more windows than the scenario (advance, _commit and                *)
(* PersistentBudgetPlanner.plan).                                          *)
THEOREM ServiceTypes == ServiceSpec => []ServiceTypeOK
<1>1. ServiceInv => ServiceTypeOK
  BY DEF ServiceInv
<1>2. QED
  BY <1>1, ServiceInitInv, ServiceStepInv, PTL DEF ServiceSpec

----------------------------------------------------------------------------
(* A turn in time                                                          *)

(* While the claim of a turn is in force, the case is at the revision the  *)
(* turn has read: a commit needs the claim, or that there is none.         *)
HolderCurrent ==
  \A c \in Callers : call[c].pc \in {"read", "planning"} /\ HoldsClaim(c) => RevisionHeld(c)

(* What a step leaves of the case and the claim a turn x works with. *)
TurnKept(x) ==
  call'[x].pc \in {"read", "planning"} /\ HoldsClaim(x)' =>
    /\ call[x].pc \in {"read", "planning"} /\ HoldsClaim(x)
    /\ call'[x].session = call[x].session /\ call'[x].rev = call[x].rev
    /\ sessions'[call[x].session] = sessions[call[x].session]

LEMMA KeptIsCurrent ==
  ASSUME HolderCurrent, NEW x \in Callers, TurnKept(x),
         call'[x].pc \in {"read", "planning"}, HoldsClaim(x)'
  PROVE  RevisionHeld(x)'
BY DEF HolderCurrent, TurnKept, RevisionHeld, Saved

LEMMA ClaimRecord ==
  ASSUME ServiceTypeOK, NEW s \in Sessions, claims[s].left > 0
  PROVE  claims[s] \in [owner : Callers, left : 0 .. ClaimLife]
BY DEF ServiceTypeOK, NoClaim

(* The turns of callers other than the one that takes the step. *)
LEMMA OtherTurnsKept ==
  ASSUME ServiceInv, NEW c \in Callers, Turn(c) \/ Response(c) \/ Die(c),
         NEW x \in Callers, x # c
  PROVE  /\ call'[x] = call[x]
         /\ TurnKept(x)
         /\ call[x].pc # "idle" /\ HoldsClaim(x) => claims'[call[x].session].owner = x
<1>1. call'[x] = call[x]
  BY DEF Turn, Response, Die, Claim, ReadCase, Spend, PlanFails, CommitTurn, TurnRefused, Release,
         StartResponse, ReadForResponse, CommitResponse, ResponseRefused, Begin, At, Return,
         ServiceInv, ServiceTypeOK
<1> SUFFICES ASSUME call[x].pc # "idle"
             PROVE  /\ TurnKept(x)
                    /\ HoldsClaim(x) => claims'[call[x].session].owner = x
  BY <1>1 DEF TurnKept
<1> DEFINE s == call[x].session
<1>2. s \in Sessions /\ call[x] \in Working
  BY CallRecord DEF ServiceInv, Working
<1>3. CASE UNCHANGED <<sessions, claims>>
  BY <1>1, <1>3 DEF TurnKept, HoldsClaim
<1>4. ASSUME NEW y \in Sessions, NEW q \in Requests, Claim(c, y, q)
      PROVE  /\ TurnKept(x)
             /\ HoldsClaim(x) => claims'[s].owner = x
  <2>1. y = s => ~HoldsClaim(x) /\ claims'[s].owner = c
    BY <1>2, <1>4 DEF Claim, InForce, HoldsClaim, ServiceInv, ServiceTypeOK
  <2>2. y # s => claims'[s] = claims[s]
    BY <1>2, <1>4 DEF Claim, ServiceInv, ServiceTypeOK
  <2>3. sessions' = sessions
    BY <1>4 DEF Claim
  <2>4. QED
    BY <1>1, <2>1, <2>2, <2>3 DEF TurnKept, HoldsClaim
<1>5. CASE Commits(c)
  <2>1. /\ call[c].session \in Sessions /\ call[c].pc \in {"planning", "responded"}
        /\ \A y \in Sessions \ {call[c].session} : sessions'[y] = sessions[y]
    BY <1>5, AnswerFacts, SaveFacts DEF ServiceInv
  <2>2. CASE call[c].session # s
    <3>1. claims'[s] = claims[s]
      BY <1>2, <1>5, <2>1, <2>2 DEF Commits, CommitTurn, CommitResponse, ServiceInv, ServiceTypeOK
    <3>2. QED
      BY <1>1, <1>2, <2>1, <2>2, <3>1 DEF TurnKept, HoldsClaim
  <2>3. CASE call[c].session = s
    <3>1. CASE CommitTurn(c)
      <4>1. claims[s].owner = c /\ claims'[s] = NoClaim
        BY <1>2, <2>3, <3>1 DEF CommitTurn, HoldsClaim, ServiceInv, ServiceTypeOK
      <4>2. QED
        BY <1>1, <4>1 DEF TurnKept, HoldsClaim, NoClaim
    <3>2. CASE CommitResponse(c)
      <4>1. ~(claims[s].left > 0) /\ claims' = claims
        BY <2>3, <3>2 DEF CommitResponse, Unclaimed, InForce
      <4>2. QED
        BY <1>1, <4>1 DEF TurnKept, HoldsClaim
    <3>3. QED
      BY <1>5, <3>1, <3>2 DEF Commits
  <2>4. QED
    BY <2>2, <2>3
<1>6. CASE Release(c)
  <2>1. call[c].session # s => claims'[s] = claims[s]
    BY <1>2, <1>6 DEF Release, ServiceInv, ServiceTypeOK
  <2>2. call[c].session = s => claims'[s] = IF claims[s].owner = c THEN NoClaim ELSE claims[s]
    BY <1>2, <1>6 DEF Release, ServiceInv, ServiceTypeOK
  <2>3. sessions' = sessions
    BY <1>6 DEF Release
  <2>4. QED
    BY <1>1, <2>1, <2>2, <2>3 DEF TurnKept, HoldsClaim, NoClaim
<1>7. QED
  BY <1>3, <1>4, <1>5, <1>6 DEF Turn, Response, Die, ReadCase, Spend, PlanFails, TurnRefused,
     StartResponse, ReadForResponse, ResponseRefused, Commits

(* The turn of the caller that takes the step. *)
LEMMA OwnTurnCurrent ==
  ASSUME ServiceInv, HolderCurrent, NEW c \in Callers, Turn(c) \/ Response(c) \/ Die(c),
         call'[c].pc \in {"read", "planning"}, HoldsClaim(c)'
  PROVE  RevisionHeld(c)'
<1>1. {"planning", "releasing"} \subseteq Steps
  BY DEF Steps
<1>2. ASSUME NEW s \in Sessions, NEW q \in Requests, NEW op \in Operations,
             NEW pc \in {"claimed", "responding"}, Begin(c, s, q, op, pc)
      PROVE  FALSE
  BY <1>2, BeginFacts DEF ServiceInv
<1>3. ASSUME call[c].pc # "idle", Return(c) PROVE FALSE
  BY <1>3, ReturnIsIdle DEF ServiceInv, Idle
<1>4. ASSUME call[c].pc # "idle", At(c, "releasing") PROVE FALSE
  BY <1>1, <1>4, MoveFacts DEF ServiceInv
<1>5. CASE Spend(c)
  <2>1. call[c].pc = "read" /\ At(c, "planning") /\ UNCHANGED <<sessions, receipts, claims>>
    BY <1>5 DEF Spend
  <2>2. call'[c] = [call[c] EXCEPT !.pc = "planning"] /\ call[c] \in Working
    BY <1>1, <2>1, MoveFacts, CallRecord DEF ServiceInv
  <2>3. call'[c].session = call[c].session /\ call'[c].rev = call[c].rev
    BY <2>2 DEF Working
  <2>4. TurnKept(c)
    BY <2>1, <2>3 DEF TurnKept, HoldsClaim
  <2>5. QED
    BY <2>4, KeptIsCurrent
<1>6. CASE ReadCase(c)
  <2>1. call[c].pc = "claimed" /\ call[c] \in Working
    BY <1>6, CallRecord DEF ReadCase, ServiceInv
  <2>2. ~At(c, "releasing")
    BY <1>4, <2>1
  <2> DEFINE rev == Saved(c).rev
             new == [call[c] EXCEPT !.pc = "read", !.rev = rev, !.state = Saved(c).state]
  <2>3. call' = [call EXCEPT ![c] = new] /\ sessions' = sessions
    BY <1>6, <2>2 DEF ReadCase
  <2>4. new.rev = rev /\ new.session = call[c].session
    BY <2>1 DEF Working
  <2> HIDE DEF new
  <2>5. call'[c] = new
    BY <2>3 DEF ServiceInv, ServiceTypeOK
  <2>6. QED
    BY <2>3, <2>4, <2>5 DEF RevisionHeld, Saved
<1>7. CASE ReadForResponse(c)
  <2>1. call[c].pc = "responding" /\ call[c] \in Working
    BY <1>7, CallRecord DEF ReadForResponse, ServiceInv
  <2> DEFINE new == [call[c] EXCEPT !.pc = "responded", !.rev = Saved(c).rev, !.state = Saved(c).state]
  <2>2. call' = [call EXCEPT ![c] = new]
    BY <1>3, <1>7, <2>1 DEF ReadForResponse
  <2>3. new.pc = "responded"
    BY <2>1 DEF Working
  <2> HIDE DEF new
  <2>4. QED
    BY <2>2, <2>3 DEF ServiceInv, ServiceTypeOK
<1>8. Advance \in Operations /\ Responses \subseteq Operations
  BY DEF Operations
<1>9. CASE Die(c)
  <2>1. call[c].pc # "idle" /\ Return(c)
    BY <1>9 DEF Die, ServiceInv, ServiceTypeOK, Steps
  <2>2. QED
    BY <1>3, <2>1
<1>10. QED
  BY <1>2, <1>3, <1>4, <1>5, <1>6, <1>7, <1>8, <1>9 DEF Turn, Response, Claim, StartResponse,
     PlanFails, CommitTurn, TurnRefused, Release, CommitResponse, ResponseRefused

LEMMA HolderStep ==
  ASSUME ServiceInv, HolderCurrent, [ServiceNext]_serviceVars
  PROVE  HolderCurrent'
<1>1. ASSUME NEW c \in Callers, Turn(c) \/ Response(c) \/ Die(c) PROVE HolderCurrent'
  <2> SUFFICES ASSUME NEW x \in Callers, call'[x].pc \in {"read", "planning"}, HoldsClaim(x)'
               PROVE  RevisionHeld(x)'
    BY DEF HolderCurrent
  <2>1. CASE x = c
    BY <1>1, <2>1, OwnTurnCurrent
  <2>2. CASE x # c
    BY <1>1, <2>2, OtherTurnsKept, KeptIsCurrent
  <2>3. QED
    BY <2>1, <2>2
<1>2. ASSUME NEW s \in Sessions, CreateSession(s) PROVE HolderCurrent'
  <2>1. \A x \in Callers : call[x].pc # "idle" => call[x].session \in Sessions /\ call[x].session # s
    BY <1>2, CallRecord DEF CreateSession, ServiceInv, CallOK, Working
  <2>2. /\ call' = call /\ claims' = claims
        /\ \A y \in Sessions \ {s} : sessions'[y] = sessions[y]
    BY <1>2 DEF CreateSession, ServiceInv, ServiceTypeOK
  <2>3. QED
    BY <2>1, <2>2 DEF HolderCurrent, HoldsClaim, RevisionHeld, Saved
<1>3. CASE Tick
  <2>1. \A s \in Sessions : claims'[s].left > 0 => claims[s].left > 0 /\ claims'[s].owner = claims[s].owner
    BY <1>3, TickClaims DEF ServiceInv
  <2>2. call' = call /\ sessions' = sessions
    BY <1>3 DEF Tick
  <2>3. \A x \in Callers : call[x].pc # "idle" => call[x].session \in Sessions
    BY CallRecord DEF ServiceInv, Working
  <2>4. QED
    BY <2>1, <2>2, <2>3 DEF HolderCurrent, HoldsClaim, RevisionHeld, Saved
<1>4. CASE UNCHANGED serviceVars
  BY <1>4 DEF serviceVars, HolderCurrent, HoldsClaim, RevisionHeld, Saved
<1>5. QED
  BY <1>1, <1>2, <1>3, <1>4 DEF ServiceNext

(* No case changes under a turn in time, and only that turn's own return   *)
(* or its expiry ends its claim: the claim, the transaction of _commit and *)
(* the finally clause of advance are enough for this whatever the number   *)
(* of callers and however they interleave, retry or die.                   *)
THEOREM TurnUndisturbedHolds == ServiceSpec => TurnUndisturbed
<1>1. ServiceInit => HolderCurrent
  BY DEF ServiceInit, HolderCurrent, Idle
<1>2. ASSUME ServiceInv, HolderCurrent, [ServiceNext]_serviceVars
      PROVE  \A c \in Callers : call[c].pc \in {"claimed", "read", "planning"} /\ HoldsClaim(c) =>
               /\ call[c].pc # "claimed" => RevisionHeld(c) /\ call[c].state = Saved(c).state
               /\ call'[c] = call[c] => claims'[call[c].session].owner = c
  <2> SUFFICES ASSUME NEW c \in Callers, call[c].pc \in {"claimed", "read", "planning"}, HoldsClaim(c)
               PROVE  /\ call[c].pc # "claimed" => RevisionHeld(c) /\ call[c].state = Saved(c).state
                      /\ call'[c] = call[c] => claims'[call[c].session].owner = c
    OBVIOUS
  <2>1. call[c].pc # "claimed" => RevisionHeld(c) /\ call[c].state = Saved(c).state
    BY <1>2 DEF HolderCurrent, RevisionHeld, ServiceInv, CallOK
  <2>2. call[c].session \in Sessions
    BY <1>2, CallRecord DEF ServiceInv, Working
  <2>3. ASSUME NEW x \in Callers, Turn(x) \/ Response(x) \/ Die(x), call'[c] = call[c]
        PROVE  claims'[call[c].session].owner = c
    <3>1. CASE x = c
      <4>1. claims' = claims
        <5>1. ~CommitTurn(c) \/ claims' = claims
          <6>1. CommitTurn(c) => At(c, "releasing")
            BY DEF CommitTurn
          <6>2. At(c, "releasing") => call'[c].pc = "releasing"
            BY <1>2, MoveFacts DEF ServiceInv, Steps
          <6>3. QED
            BY <2>3, <6>1, <6>2
        <5>2. QED
          BY <1>2, <2>3, <3>1, <5>1 DEF Turn, Response, Die, Claim, ReadCase, Spend, PlanFails,
             TurnRefused, Release, StartResponse, ReadForResponse, CommitResponse, ResponseRefused,
             Idle
      <4>2. QED
        BY <4>1 DEF HoldsClaim
    <3>2. CASE x # c
      BY <1>2, <2>3, <3>2, OtherTurnsKept
    <3>3. QED
      BY <3>1, <3>2
  <2>4. ASSUME Tick PROVE claims'[call[c].session].owner = c
    BY <1>2, <2>2, <2>4, TickClaims DEF ServiceInv, HoldsClaim
  <2>5. ASSUME NEW s \in Sessions, CreateSession(s) PROVE claims'[call[c].session].owner = c
    BY <2>5 DEF CreateSession, HoldsClaim
  <2>6. ASSUME UNCHANGED serviceVars PROVE claims'[call[c].session].owner = c
    BY <2>6 DEF serviceVars, HoldsClaim
  <2>7. QED
    BY <1>2, <2>1, <2>3, <2>4, <2>5, <2>6 DEF ServiceNext
<1>3. HolderCurrent /\ ServiceInv /\ [ServiceNext]_serviceVars => HolderCurrent'
  BY HolderStep
<1>4. ServiceInv /\ HolderCurrent /\ [ServiceNext]_serviceVars =>
        [\A c \in Callers : call[c].pc \in {"claimed", "read", "planning"} /\ HoldsClaim(c) =>
           /\ call[c].pc # "claimed" => RevisionHeld(c) /\ call[c].state = Saved(c).state
           /\ call'[c] = call[c] => claims'[call[c].session].owner = c]_serviceVars
  BY <1>2
<1>5. QED
  BY <1>1, <1>3, <1>4, ServiceInitInv, ServiceStepInv, PTL DEF ServiceSpec, TurnUndisturbed

----------------------------------------------------------------------------
(* Turns and the allowance                                                 *)

SavedTurns == {p \in Sessions \X Requests : receipts[p[1]][p[2]] = Advance}
RunningTurns == {c \in Callers : call[c].pc = "planning"}

LEMMA TurnsFinite ==
  /\ IsFiniteSet(SavedTurns) /\ IsFiniteSet(SavedTurns')
  /\ IsFiniteSet(RunningTurns) /\ IsFiniteSet(RunningTurns')
<1>1. IsFiniteSet(Sessions \X Requests)
  BY ServiceAssumption, FS_Product
<1>2. IsFiniteSet(Callers)
  BY ServiceAssumption
<1>3. SavedTurns \subseteq Sessions \X Requests /\ SavedTurns' \subseteq Sessions \X Requests
  BY DEF SavedTurns
<1>4. RunningTurns \subseteq Callers /\ RunningTurns' \subseteq Callers
  BY DEF RunningTurns
<1>5. QED
  BY <1>1, <1>2, <1>3, <1>4, FS_Subset

(* A step that saves no turn and starts none. *)
LEMMA PaidKept ==
  ASSUME ServiceTypeOK, TurnsPaid, SavedTurns' = SavedTurns, RunningTurns' \subseteq RunningTurns, spent' = spent
  PROVE  TurnsPaid'
<1>1. Cardinality(RunningTurns') <= Cardinality(RunningTurns)
  BY TurnsFinite, FS_Subset
<1>2. /\ Cardinality(SavedTurns) \in Nat /\ Cardinality(RunningTurns) \in Nat
      /\ Cardinality(RunningTurns') \in Nat /\ spent \in Nat
  BY TurnsFinite, FS_CardinalityType DEF ServiceTypeOK
<1>3. Cardinality(SavedTurns) + Cardinality(RunningTurns) <= spent
  BY DEF TurnsPaid, SavedTurns, RunningTurns
<1>4. Cardinality(SavedTurns') + Cardinality(RunningTurns') <= spent'
  BY <1>1, <1>2, <1>3
<1>5. QED
  BY <1>4 DEF TurnsPaid, SavedTurns, RunningTurns

(* The planner is paid for before it is called. *)
LEMMA SpendPaid ==
  ASSUME ServiceTypeOK, TurnsPaid, NEW c \in Callers, Spend(c)
  PROVE  TurnsPaid'
<1>1. call[c].pc = "read" /\ At(c, "planning") /\ spent' = spent + 1 /\ receipts' = receipts
  BY DEF Spend
<1>2. call'[c].pc = "planning" /\ \A x \in Callers \ {c} : call'[x] = call[x]
  BY <1>1, MoveFacts DEF Steps
<1>3. RunningTurns' = RunningTurns \cup {c} /\ c \notin RunningTurns
  BY <1>1, <1>2 DEF RunningTurns
<1>4. Cardinality(RunningTurns') = Cardinality(RunningTurns) + 1
  BY <1>3, TurnsFinite, FS_AddElement
<1>5. SavedTurns' = SavedTurns
  BY <1>1 DEF SavedTurns
<1>6. /\ Cardinality(SavedTurns) \in Nat /\ Cardinality(RunningTurns) \in Nat /\ spent \in Nat
  BY TurnsFinite, FS_CardinalityType DEF ServiceTypeOK
<1>7. Cardinality(SavedTurns) + Cardinality(RunningTurns) <= spent
  BY DEF TurnsPaid, SavedTurns, RunningTurns
<1>8. Cardinality(SavedTurns') + Cardinality(RunningTurns') <= spent'
  BY <1>1, <1>4, <1>5, <1>6, <1>7
<1>9. QED
  BY <1>8 DEF TurnsPaid, SavedTurns, RunningTurns

(* A running turn becomes a saved one. *)
LEMMA CommitTurnPaid ==
  ASSUME ServiceInv, TurnsPaid, NEW c \in Callers, CommitTurn(c)
  PROVE  TurnsPaid'
<1> DEFINE p == <<call[c].session, call[c].request>>
<1>1. /\ call[c].pc = "planning" /\ call[c].op = Advance
      /\ call[c].session \in Sessions /\ sessions[call[c].session] # NoSession
      /\ receipts[call[c].session][call[c].request] = NoReceipt
      /\ Answer(c) \in Case /\ Save(c, Answer(c))
  BY AnswerFacts DEF Commits, CommitTurn
<1>2. /\ call[c].request \in Requests
      /\ receipts'[call[c].session][call[c].request] = Advance
      /\ \A x \in Sessions, q \in Requests :
              x # call[c].session \/ q # call[c].request => receipts'[x][q] = receipts[x][q]
  BY <1>1, SaveFacts DEF ServiceInv
<1>3. NoReceipt # Advance
  BY DEF NoReceipt, Advance
<1>4. SavedTurns' = SavedTurns \cup {p} /\ p \notin SavedTurns
  <2>1. ASSUME NEW x \in Sessions, NEW q \in Requests
        PROVE  <<x, q>> \in SavedTurns' <=> <<x, q>> \in SavedTurns \/ <<x, q>> = p
    BY <1>1, <1>2 DEF SavedTurns
  <2>2. p \notin SavedTurns
    BY <1>1, <1>3 DEF SavedTurns
  <2>3. SavedTurns \subseteq Sessions \X Requests /\ SavedTurns' \subseteq Sessions \X Requests
    BY DEF SavedTurns
  <2>4. p \in Sessions \X Requests
    BY <1>1, <1>2
  <2>5. QED
    BY <2>1, <2>2, <2>3, <2>4
<1>5. call'[c].pc = "releasing" /\ \A x \in Callers \ {c} : call'[x] = call[x]
  BY <1>1, MoveFacts DEF CommitTurn, Steps, ServiceInv
<1>6. RunningTurns' = RunningTurns \ {c} /\ c \in RunningTurns
  BY <1>1, <1>5 DEF RunningTurns
<1>7. Cardinality(SavedTurns') = Cardinality(SavedTurns) + 1
  BY <1>4, TurnsFinite, FS_AddElement
<1>8. Cardinality(RunningTurns') = Cardinality(RunningTurns) - 1
  BY <1>6, TurnsFinite, FS_RemoveElement
<1>9. /\ Cardinality(SavedTurns) \in Nat /\ Cardinality(RunningTurns) \in Nat /\ spent \in Nat
  BY TurnsFinite, FS_CardinalityType DEF ServiceInv, ServiceTypeOK
<1>10. Cardinality(SavedTurns) + Cardinality(RunningTurns) <= spent /\ spent' = spent
  BY DEF TurnsPaid, SavedTurns, RunningTurns, CommitTurn
<1>11. Cardinality(SavedTurns') + Cardinality(RunningTurns') <= spent'
  BY <1>7, <1>8, <1>9, <1>10
<1>12. QED
  BY <1>11 DEF TurnsPaid, SavedTurns, RunningTurns

(* A response is no turn. *)
LEMMA CommitResponsePaid ==
  ASSUME ServiceInv, TurnsPaid, NEW c \in Callers, CommitResponse(c)
  PROVE  TurnsPaid'
<1>1. /\ call[c].pc = "responded" /\ call[c].op \in Responses
      /\ call[c].session \in Sessions /\ sessions[call[c].session] # NoSession
      /\ receipts[call[c].session][call[c].request] = NoReceipt
      /\ Answer(c) \in Case /\ Save(c, Answer(c))
  BY AnswerFacts DEF Commits, CommitResponse
<1>2. /\ receipts'[call[c].session][call[c].request] = call[c].op
      /\ \A x \in Sessions, q \in Requests :
              x # call[c].session \/ q # call[c].request => receipts'[x][q] = receipts[x][q]
  BY <1>1, SaveFacts DEF ServiceInv
<1>3. call[c].op # Advance /\ NoReceipt # Advance
  BY <1>1 DEF Responses, Advance, NoReceipt
<1>4. SavedTurns' = SavedTurns
  <2>1. ASSUME NEW p \in Sessions \X Requests
        PROVE  receipts'[p[1]][p[2]] = Advance <=> receipts[p[1]][p[2]] = Advance
    <3>1. p[1] \in Sessions /\ p[2] \in Requests
      OBVIOUS
    <3>2. CASE p[1] = call[c].session /\ p[2] = call[c].request
      BY <1>1, <1>2, <1>3, <3>2
    <3>3. CASE p[1] # call[c].session \/ p[2] # call[c].request
      BY <1>2, <3>1, <3>3
    <3>4. QED
      BY <3>2, <3>3
  <2>2. QED
    BY <2>1 DEF SavedTurns
<1>5. RunningTurns' \subseteq RunningTurns
  BY <1>1, ReturnIsIdle DEF CommitResponse, RunningTurns, ServiceInv, Idle
<1>6. QED
  BY <1>4, <1>5, PaidKept DEF CommitResponse, ServiceInv

LEMMA PaidStep ==
  ASSUME ServiceInv, TurnsPaid, [ServiceNext]_serviceVars
  PROVE  TurnsPaid'
<1>1. ASSUME receipts' = receipts, spent' = spent, RunningTurns' \subseteq RunningTurns
      PROVE  TurnsPaid'
  BY <1>1, PaidKept DEF ServiceInv, SavedTurns
<1>2. ASSUME NEW c \in Callers, Turn(c) \/ Response(c) \/ Die(c), ~Spend(c), ~Commits(c)
      PROVE  TurnsPaid'
  <2>1. receipts' = receipts /\ spent' = spent
    BY <1>2 DEF Turn, Response, Die, Claim, ReadCase, PlanFails, TurnRefused, Release,
       StartResponse, ReadForResponse, ResponseRefused, Commits
  <2>2. \A x \in Callers \ {c} : call'[x] = call[x]
    BY <1>2, OtherTurnsKept
  <2>3. call'[c].pc # "planning"
    <3>1. "releasing" \in Steps /\ Advance \in Operations /\ Responses \subseteq Operations
      BY DEF Steps, Operations
    <3>2. ASSUME call[c].pc # "idle", At(c, "releasing") \/ Return(c) PROVE call'[c].pc # "planning"
      <4>1. At(c, "releasing") => call'[c].pc = "releasing"
        BY <3>1, <3>2, MoveFacts DEF ServiceInv
      <4>2. Return(c) => call'[c] = Idle
        BY <3>2, ReturnIsIdle DEF ServiceInv
      <4>3. QED
        BY <3>2, <4>1, <4>2 DEF Idle
    <3>3. ASSUME NEW s \in Sessions, NEW q \in Requests, NEW op \in Operations,
                 NEW pc \in {"claimed", "responding"}, Begin(c, s, q, op, pc)
          PROVE  call'[c].pc # "planning"
      BY <3>3, BeginFacts DEF ServiceInv
    <3>4. ASSUME NEW pc \in {"read", "responded"}, call[c].pc # "idle",
                 call' = [call EXCEPT ![c] = [@ EXCEPT !.pc = pc, !.rev = Saved(c).rev, !.state = Saved(c).state]]
          PROVE  call'[c].pc # "planning"
      <4> DEFINE new == [call[c] EXCEPT !.pc = pc, !.rev = Saved(c).rev, !.state = Saved(c).state]
      <4>1. new.pc = pc
        BY <3>4, CallRecord DEF ServiceInv, Working
      <4>2. call' = [call EXCEPT ![c] = new]
        BY <3>4
      <4> HIDE DEF new
      <4>3. QED
        BY <4>1, <4>2 DEF ServiceInv, ServiceTypeOK
    <3>5. Die(c) => call[c].pc # "idle" /\ Return(c)
      BY DEF Die, ServiceInv, ServiceTypeOK, Steps
    <3>6. QED
      BY <1>2, <3>1, <3>2, <3>3, <3>4, <3>5 DEF Turn, Response, Claim, ReadCase, PlanFails, TurnRefused,
         Release, StartResponse, ReadForResponse, ResponseRefused, Commits
  <2>4. RunningTurns' \subseteq RunningTurns
    BY <2>2, <2>3 DEF RunningTurns
  <2>5. QED
    BY <1>1, <2>1, <2>4
<1>3. ASSUME NEW c \in Callers, Spend(c) \/ Commits(c) PROVE TurnsPaid'
  BY <1>3, SpendPaid, CommitTurnPaid, CommitResponsePaid DEF Commits, ServiceInv
<1>4. ASSUME receipts' = receipts, spent' = spent, call' = call PROVE TurnsPaid'
  BY <1>1, <1>4 DEF RunningTurns
<1>5. (\E s \in Sessions : CreateSession(s)) \/ Tick \/ UNCHANGED serviceVars => TurnsPaid'
  BY <1>4 DEF CreateSession, Tick, serviceVars
<1>6. QED
  BY <1>2, <1>3, <1>5 DEF ServiceNext

(* Every turn saved, and every one still at the planner, was paid for: the *)
(* allowance is counted by PersistentBudgetPlanner.plan before it plans,   *)
(* and no death, expiry, retry or refusal lets one more through.           *)
THEOREM TurnsPaidHolds == ServiceSpec => []TurnsPaid
<1>1. ServiceInit => TurnsPaid
  <2> SUFFICES ASSUME ServiceInit PROVE TurnsPaid
    OBVIOUS
  <2>1. SavedTurns = {} /\ RunningTurns = {}
    BY DEF ServiceInit, SavedTurns, RunningTurns, NoReceipt, Advance, Idle
  <2>2. Cardinality(SavedTurns) = 0 /\ Cardinality(RunningTurns) = 0 /\ spent = 0
    BY <2>1, FS_EmptySet DEF ServiceInit
  <2>3. Cardinality(SavedTurns) + Cardinality(RunningTurns) <= spent
    BY <2>2
  <2>4. QED
    BY <2>3 DEF TurnsPaid, SavedTurns, RunningTurns
<1>2. QED
  BY <1>1, PaidStep, ServiceInitInv, ServiceStepInv, PTL DEF ServiceSpec

----------------------------------------------------------------------------
(* Requests and the saved case                                             *)

RepliesWith(s, op) == {q \in Replies(s) : receipts[s][q] = op}
Places(responses, op) == {i \in DOMAIN responses : responses[i] = op}

(* RequestsAppliedOnce for one session, with what a session not created    *)
(* yet adds: nothing was answered in it.                                   *)
AppliedOnce(s) ==
  IF sessions[s] = NoSession THEN Answered(s) = {}
  ELSE /\ sessions[s].rev = Cardinality(Answered(s))
       /\ sessions[s].state.processed = Cardinality(Turns(s))
       /\ Len(sessions[s].state.responses) = Cardinality(Replies(s))
       /\ \A op \in Responses :
            Cardinality(RepliesWith(s, op)) = Cardinality(Places(sessions[s].state.responses, op))

LEMMA AnswersFinite ==
  ASSUME NEW s, NEW op
  PROVE  /\ IsFiniteSet(Answered(s)) /\ IsFiniteSet(Turns(s)) /\ IsFiniteSet(Replies(s))
         /\ IsFiniteSet(RepliesWith(s, op))
<1>1. /\ Answered(s) \subseteq Requests /\ Turns(s) \subseteq Requests
      /\ Replies(s) \subseteq Requests /\ RepliesWith(s, op) \subseteq Requests
  BY DEF Answered, Turns, Replies, RepliesWith
<1>2. QED
  BY <1>1, ServiceAssumption, FS_Subset

LEMMA PlacesFinite ==
  ASSUME NEW responses \in Seq(Responses), NEW op
  PROVE  IsFiniteSet(Places(responses, op))
<1>1. Places(responses, op) \subseteq 1 .. Len(responses) /\ Len(responses) \in Nat
  BY LenProperties DEF Places
<1>2. IsFiniteSet(1 .. Len(responses))
  BY <1>1, FS_Interval
<1>3. QED
  BY <1>1, <1>2, FS_Subset

LEMMA PlacesAppend ==
  ASSUME NEW responses \in Seq(Responses), NEW op \in Responses, NEW other \in Responses
  PROVE  Cardinality(Places(Append(responses, op), other))
           = Cardinality(Places(responses, other)) + (IF op = other THEN 1 ELSE 0)
<1> DEFINE n == Len(responses)
           new == Append(responses, op)
<1>1. /\ n \in Nat /\ DOMAIN responses = 1 .. n
      /\ new \in Seq(Responses) /\ DOMAIN new = 1 .. n + 1
      /\ new[n + 1] = op /\ \A i \in 1 .. n : new[i] = responses[i]
  BY AppendProperties, LenProperties
<1> HIDE DEF new, n
<1>2. CASE op = other
  <2>1. Places(new, other) = Places(responses, other) \cup {n + 1} /\ n + 1 \notin Places(responses, other)
    BY <1>1, <1>2 DEF Places
  <2>2. QED
    BY <1>2, <2>1, PlacesFinite, FS_AddElement DEF new
<1>3. CASE op # other
  <2>1. Places(new, other) = Places(responses, other)
    BY <1>1, <1>3 DEF Places
  <2>2. Cardinality(Places(responses, other)) \in Nat
    BY PlacesFinite, FS_CardinalityType
  <2>3. QED
    BY <1>3, <2>1, <2>2 DEF new
<1>4. QED
  BY <1>2, <1>3

(* A session whose row and receipts a step leaves alone. *)
LEMMA AppliedKept ==
  ASSUME NEW s \in Sessions, AppliedOnce(s), sessions'[s] = sessions[s],
         \A q \in Requests : receipts'[s][q] = receipts[s][q]
  PROVE  AppliedOnce(s)'
<1>1. Answered(s)' = Answered(s)
  BY DEF Answered
<1>2. Turns(s)' = Turns(s)
  BY <1>1 DEF Turns, Answered
<1>3. Replies(s)' = Replies(s)
  BY <1>1, <1>2 DEF Replies
<1>4. \A op \in Responses : RepliesWith(s, op)' = RepliesWith(s, op)
  BY <1>3 DEF RepliesWith, Replies, Answered
<1>5. QED
  BY <1>1, <1>2, <1>3, <1>4 DEF AppliedOnce

(* What a commit adds to the answered requests of its session. *)
LEMMA AnsweredByCommit ==
  ASSUME ServiceInv, NEW c \in Callers, Commits(c),
         NEW s \in Sessions, s = call[c].session, NEW q \in Requests, q = call[c].request
  PROVE  /\ q \notin Answered(s)
         /\ Answered(s)' = Answered(s) \cup {q}
         /\ receipts'[s][q] = call[c].op
         /\ \A z \in Requests : z # q => receipts'[s][z] = receipts[s][z]
<1>1. /\ sessions[s] # NoSession /\ receipts[s][q] = NoReceipt
      /\ Answer(c) \in Case /\ Save(c, Answer(c)) /\ call[c].pc # "idle"
  BY AnswerFacts
<1>2. /\ call[c].op \in Operations
      /\ receipts'[s][q] = call[c].op
      /\ \A z \in Requests : z # q => receipts'[s][z] = receipts[s][z]
  BY <1>1, SaveFacts DEF ServiceInv
<1>3. call[c].op # NoReceipt
  BY <1>2 DEF Operations, Responses, NoReceipt, Advance
<1>4. q \notin Answered(s) /\ Answered(s)' = Answered(s) \cup {q}
  BY <1>1, <1>2, <1>3 DEF Answered
<1>5. QED
  BY <1>2, <1>4

LEMMA TurnsByCommit ==
  ASSUME ServiceInv, NEW c \in Callers, Commits(c),
         NEW s \in Sessions, s = call[c].session, NEW q \in Requests, q = call[c].request
  PROVE  Turns(s)' = IF call[c].op = Advance THEN Turns(s) \cup {q} ELSE Turns(s)
<1>1. q \notin Answered(s) /\ Answered(s)' = Answered(s) \cup {q}
  BY AnsweredByCommit
<1>2. receipts'[s][q] = call[c].op /\ \A z \in Requests : z # q => receipts'[s][z] = receipts[s][z]
  BY AnsweredByCommit
<1>3. Answered(s) \subseteq Requests
  BY DEF Answered
<1>4. QED
  BY <1>1, <1>2, <1>3 DEF Turns

LEMMA RepliesByCommit ==
  ASSUME ServiceInv, NEW c \in Callers, Commits(c),
         NEW s \in Sessions, s = call[c].session, NEW q \in Requests, q = call[c].request
  PROVE  Replies(s)' = IF call[c].op = Advance THEN Replies(s) ELSE Replies(s) \cup {q}
<1>1. q \notin Answered(s) /\ Answered(s)' = Answered(s) \cup {q}
  BY AnsweredByCommit
<1>2. Turns(s)' = IF call[c].op = Advance THEN Turns(s) \cup {q} ELSE Turns(s)
  BY TurnsByCommit
<1>3. q \notin Turns(s)
  BY <1>1 DEF Turns
<1>4. QED
  BY <1>1, <1>2, <1>3 DEF Replies

LEMMA RepliesWithByCommit ==
  ASSUME ServiceInv, NEW c \in Callers, Commits(c), NEW op \in Responses,
         NEW s \in Sessions, s = call[c].session, NEW q \in Requests, q = call[c].request
  PROVE  RepliesWith(s, op)' = IF call[c].op = op THEN RepliesWith(s, op) \cup {q}
                               ELSE RepliesWith(s, op)
<1>1. /\ receipts'[s][q] = call[c].op
      /\ \A z \in Requests : z # q => receipts'[s][z] = receipts[s][z]
      /\ q \notin Answered(s)
  BY AnsweredByCommit
<1>2. Replies(s)' = IF call[c].op = Advance THEN Replies(s) ELSE Replies(s) \cup {q}
  BY RepliesByCommit
<1>3. Replies(s) \subseteq Requests /\ q \notin Replies(s) /\ op # Advance
  BY <1>1 DEF Replies, Answered, Responses, Advance
<1>4. CASE call[c].op = Advance
  BY <1>1, <1>2, <1>3, <1>4 DEF RepliesWith
<1>5. CASE call[c].op # Advance
  BY <1>1, <1>2, <1>3, <1>5 DEF RepliesWith
<1>6. QED
  BY <1>4, <1>5

LEMMA CommitApplied ==
  ASSUME ServiceInv, NEW c \in Callers, Commits(c),
         NEW s \in Sessions, s = call[c].session, AppliedOnce(s)
  PROVE  AppliedOnce(s)'
<1> DEFINE state == Saved(c).state
<1>0. PICK q \in Requests : q = call[c].request
  BY AnswerFacts, CallRecord DEF ServiceInv, Working
<1>1. /\ sessions[s] # NoSession /\ sessions[s] \in [rev : Nat, state : Case]
      /\ Answer(c) \in Case /\ Save(c, Answer(c)) /\ call[c].pc \in {"planning", "responded"}
      /\ call[c].pc = "planning" => state.processed < Len(Required) /\ call[c].op = Advance
      /\ call[c].pc = "responded" => Answerable(state, call[c].op) /\ call[c].op \in Responses
      /\ state \in Case
  BY AnswerFacts DEF Saved
<1>2. sessions'[s] = [rev |-> sessions[s].rev + 1, state |-> Answer(c)] /\ sessions'[s] # NoSession
  BY <1>1, SaveFacts DEF ServiceInv, Saved
<1>3. /\ q \notin Answered(s) /\ Answered(s)' = Answered(s) \cup {q}
      /\ Turns(s)' = IF call[c].op = Advance THEN Turns(s) \cup {q} ELSE Turns(s)
      /\ Replies(s)' = IF call[c].op = Advance THEN Replies(s) ELSE Replies(s) \cup {q}
      /\ \A op \in Responses :
           RepliesWith(s, op)' = IF call[c].op = op THEN RepliesWith(s, op) \cup {q}
                                 ELSE RepliesWith(s, op)
  <2>1. q \notin Answered(s) /\ Answered(s)' = Answered(s) \cup {q}
    BY <1>0, AnsweredByCommit
  <2>2. Turns(s)' = IF call[c].op = Advance THEN Turns(s) \cup {q} ELSE Turns(s)
    BY <1>0, TurnsByCommit
  <2>3. Replies(s)' = IF call[c].op = Advance THEN Replies(s) ELSE Replies(s) \cup {q}
    BY <1>0, RepliesByCommit
  <2>4. ASSUME NEW op \in Responses
        PROVE  RepliesWith(s, op)' = IF call[c].op = op THEN RepliesWith(s, op) \cup {q}
                                     ELSE RepliesWith(s, op)
    BY <1>0, RepliesWithByCommit
  <2>5. QED
    BY <2>1, <2>2, <2>3, <2>4
<1>4. q \notin Turns(s) /\ q \notin Replies(s) /\ \A op \in Responses : q \notin RepliesWith(s, op)
  BY <1>3 DEF Turns, Replies, RepliesWith
<1>5. /\ sessions[s].rev = Cardinality(Answered(s))
      /\ state.processed = Cardinality(Turns(s))
      /\ Len(state.responses) = Cardinality(Replies(s))
      /\ \A op \in Responses : Cardinality(RepliesWith(s, op)) = Cardinality(Places(state.responses, op))
  BY <1>1 DEF AppliedOnce, Saved
<1>6. state.responses \in Seq(Responses)
  BY <1>1 DEF Case
<1> HIDE DEF state
<1>7. sessions'[s].rev = Cardinality(Answered(s)') /\ sessions'[s].state = Answer(c)
  <2>1. Cardinality(Answered(s)') = Cardinality(Answered(s)) + 1
    BY <1>3, AnswersFinite, FS_AddElement
  <2>2. QED
    BY <1>2, <1>5, <2>1
<1>8. CASE call[c].pc = "planning"
  <2>1. Answer(c).processed = state.processed + 1 /\ Answer(c).responses = state.responses
    BY <1>1, <1>8, TurnType DEF Answer, state
  <2>2. call[c].op = Advance /\ \A op \in Responses : op # Advance
    BY <1>1, <1>8 DEF Responses, Advance
  <2>3. Cardinality(Turns(s)') = Cardinality(Turns(s)) + 1
    BY <1>3, <1>4, <2>2, AnswersFinite, FS_AddElement
  <2>4. Replies(s)' = Replies(s) /\ \A op \in Responses : RepliesWith(s, op)' = RepliesWith(s, op)
    BY <1>3, <2>2
  <2>5. QED
    BY <1>2, <1>5, <1>7, <2>1, <2>3, <2>4 DEF AppliedOnce
<1>9. CASE call[c].pc = "responded"
  <2>1. /\ Answer(c).processed = state.processed
        /\ Answer(c).responses = Append(state.responses, call[c].op)
    BY <1>1, <1>9, ResponseType DEF Answer, state
  <2>2. call[c].op \in Responses /\ call[c].op # Advance
    BY <1>1, <1>9 DEF Responses, Advance
  <2>3. Cardinality(Replies(s)') = Cardinality(Replies(s)) + 1 /\ Turns(s)' = Turns(s)
    BY <1>3, <1>4, <2>2, AnswersFinite, FS_AddElement
  <2>4. Len(Answer(c).responses) = Len(state.responses) + 1
    BY <1>6, <2>1, <2>2, AppendProperties
  <2>5. ASSUME NEW op \in Responses
        PROVE  Cardinality(RepliesWith(s, op)') = Cardinality(Places(Answer(c).responses, op))
    <3>1. Cardinality(Places(Answer(c).responses, op))
            = Cardinality(Places(state.responses, op)) + (IF call[c].op = op THEN 1 ELSE 0)
      BY <1>6, <2>1, <2>2, PlacesAppend
    <3>2. CASE call[c].op = op
      <4>1. RepliesWith(s, op)' = RepliesWith(s, op) \cup {q}
        BY <1>3, <3>2, Zenon
      <4>2. Cardinality(RepliesWith(s, op)') = Cardinality(RepliesWith(s, op)) + 1
        BY <1>4, <4>1, AnswersFinite, FS_AddElement
      <4>3. QED
        BY <1>5, <3>1, <3>2, <4>2
    <3>3. CASE call[c].op # op
      <4>1. Cardinality(Places(state.responses, op)) \in Nat
        BY <1>6, PlacesFinite, FS_CardinalityType
      <4>2. RepliesWith(s, op)' = RepliesWith(s, op)
        BY <1>3, <3>3, Zenon
      <4>3. QED
        BY <1>5, <3>1, <3>3, <4>1, <4>2
    <3>4. QED
      BY <3>2, <3>3
  <2>6. QED
    BY <1>2, <1>5, <1>7, <2>1, <2>3, <2>4, <2>5 DEF AppliedOnce
<1>10. QED
  BY <1>1, <1>8, <1>9

LEMMA AppliedStep ==
  ASSUME ServiceInv, \A s \in Sessions : AppliedOnce(s), [ServiceNext]_serviceVars
  PROVE  \A s \in Sessions : AppliedOnce(s)'
<1>1. ASSUME sessions' = sessions, receipts' = receipts PROVE \A s \in Sessions : AppliedOnce(s)'
  BY <1>1, AppliedKept
<1>2. ASSUME NEW c \in Callers, Commits(c), NEW s \in Sessions PROVE AppliedOnce(s)'
  <2>1. CASE s = call[c].session
    BY <1>2, <2>1, CommitApplied
  <2>2. CASE s # call[c].session
    <3>1. /\ call[c].pc # "idle" /\ sessions[call[c].session] # NoSession
          /\ Answer(c) \in Case /\ Save(c, Answer(c))
      BY <1>2, AnswerFacts
    <3>2. sessions'[s] = sessions[s] /\ \A q \in Requests : receipts'[s][q] = receipts[s][q]
      BY <1>2, <2>2, <3>1, SaveFacts DEF ServiceInv
    <3>3. QED
      BY <3>2, AppliedKept
  <2>3. QED
    BY <2>1, <2>2
<1>3. ASSUME NEW x \in Sessions, CreateSession(x), NEW s \in Sessions PROVE AppliedOnce(s)'
  <2>1. CASE s # x
    <3>1. sessions'[s] = sessions[s] /\ receipts' = receipts
      BY <1>3, <2>1 DEF CreateSession, ServiceInv, ServiceTypeOK
    <3>2. QED
      BY <3>1, AppliedKept
  <2>2. CASE s = x
    <3>1. sessions'[s] = [rev |-> 0, state |-> NewCase] /\ sessions[s] = NoSession /\ receipts' = receipts
      BY <1>3, <2>2 DEF CreateSession, ServiceInv, ServiceTypeOK
    <3>2. Answered(s) = {}
      BY <3>1 DEF AppliedOnce
    <3>3. Answered(s)' = {} /\ Turns(s)' = {} /\ Replies(s)' = {} /\ \A op : RepliesWith(s, op)' = {}
      BY <3>1, <3>2 DEF Answered, Turns, Replies, RepliesWith
    <3>4. /\ sessions'[s].rev = 0 /\ sessions'[s].state.processed = 0
          /\ sessions'[s].state.responses = <<>> /\ sessions'[s] # NoSession
      BY <3>1 DEF NewCase, NoSession
    <3>5. Len(<<>>) = 0 /\ \A op : Places(<<>>, op) = {}
      BY DEF Places
    <3>6. Cardinality({}) = 0
      BY FS_EmptySet
    <3>7. QED
      BY <3>3, <3>4, <3>5, <3>6 DEF AppliedOnce
  <2>3. QED
    BY <2>1, <2>2
<1>4. QED
  BY <1>1, <1>2, <1>3 DEF ServiceNext, Turn, Response, Die, Claim, ReadCase, Spend, PlanFails,
     TurnRefused, Release, StartResponse, ReadForResponse, ResponseRefused, Commits, Tick, serviceVars

(* Every answered request is in the saved case exactly once, for any       *)
(* number of callers and retries: the saved answer of _commit excludes a   *)
(* second application, its revision check one written from an old copy.    *)
THEOREM RequestsAppliedOnceHolds == ServiceSpec => []RequestsAppliedOnce
<1> DEFINE Applied == \A s \in Sessions : AppliedOnce(s)
<1>1. ServiceInit => Applied
  BY DEF ServiceInit, AppliedOnce, Answered
<1>2. ServiceInv /\ Applied /\ [ServiceNext]_serviceVars => Applied'
  BY AppliedStep
<1>3. Applied => RequestsAppliedOnce
  BY DEF AppliedOnce, RequestsAppliedOnce, RepliesWith, Places
<1> HIDE DEF Applied
<1>4. QED
  BY <1>1, <1>2, <1>3, ServiceInitInv, ServiceStepInv, PTL DEF ServiceSpec

----------------------------------------------------------------------------
(* Evidence                                                                *)

IsUnfinished(state, i) == state.tasks[i].status \in {"OPEN", "ACKNOWLEDGED"}

(* Why each window is carried by one review of each kind: tasks are opened *)
(* by the window a turn adds, so the id of a new one is free; a kind has   *)
(* one unfinished task at most, so there is one a turn may add to.         *)
CarriedOnce(state) ==
  /\ \A i \in TaskIds : state.tasks[i] # NoTask => i[1] <= state.processed
  /\ \A i \in TaskIds, j \in TaskIds :
       i[2] = j[2] /\ IsUnfinished(state, i) /\ IsUnfinished(state, j) => i = j
  /\ \A i \in TaskIds, w \in Windows :
       w \in state.tasks[i].evidence => w <= state.processed /\ i[2] \in Required[w]
  /\ \A i \in TaskIds, j \in TaskIds, w \in Windows :
       i[2] = j[2] /\ w \in state.tasks[i].evidence /\ w \in state.tasks[j].evidence => i = j
  /\ \A w \in Windows : w <= state.processed =>
       \A k \in Required[w] : \E i \in TaskIds : i[2] = k /\ w \in state.tasks[i].evidence

(* The task each kind of review of a turn goes to: the unfinished one or a *)
(* new one; and what the turn makes of every task.                         *)
Targets(state, target) ==
  \A k \in Kinds :
    /\ target[k][2] = k
    /\ IF Unfinished(state, k) = {}
       THEN target[k] = <<state.processed + 1, k>> /\ state.tasks[target[k]] = NoTask
       ELSE target[k] \in Unfinished(state, k)

Extends(state, target, new) ==
  \A i \in TaskIds :
    IF i[2] \in Required[state.processed + 1] /\ i = target[i[2]]
    THEN /\ new[i].evidence = state.tasks[i].evidence \cup {state.processed + 1}
         /\ new[i].status = IF state.tasks[i] = NoTask THEN "OPEN" ELSE state.tasks[i].status
    ELSE new[i] = state.tasks[i]

LEMMA TurnTasks ==
  ASSUME NEW state \in Case, state.processed < Len(Required),
         \A i \in TaskIds : state.tasks[i] # NoTask => i[1] <= state.processed
  PROVE  \E target \in [Kinds -> TaskIds] :
           Targets(state, target) /\ Extends(state, target, AfterTurn(state).tasks)
<1> DEFINE w == state.processed + 1
<1>1. /\ state.processed \in Nat /\ w \in Windows /\ ~(w <= state.processed)
      /\ state.tasks \in [TaskIds -> Task \cup {NoTask}]
  BY Numbers DEF Case
<1>2. Required[w] \subseteq Kinds
  BY <1>1, ServiceAssumption DEF Windows
<1> DEFINE Target(k) == IF Unfinished(state, k) = {} THEN <<w, k>>
                        ELSE CHOOSE i \in Unfinished(state, k) : TRUE
           target == [k \in Kinds |-> Target(k)]
           Touched == {Target(k) : k \in Required[w]}
           With(task) == IF task = NoTask THEN [status |-> "OPEN", evidence |-> {w}]
                         ELSE [task EXCEPT !.evidence = @ \cup {w}]
           tasks == [i \in TaskIds |-> IF i \in Touched THEN With(state.tasks[i]) ELSE state.tasks[i]]
<1>3. ASSUME NEW k \in Kinds
      PROVE  /\ Target(k) \in TaskIds /\ Target(k)[2] = k
             /\ IF Unfinished(state, k) = {} THEN Target(k) = <<w, k>> /\ state.tasks[Target(k)] = NoTask
                ELSE Target(k) \in Unfinished(state, k)
  <2>1. CASE Unfinished(state, k) = {}
    <3>1. Target(k) = <<w, k>> /\ <<w, k>> \in TaskIds
      BY <1>1, <2>1 DEF TaskIds
    <3>2. state.tasks[<<w, k>>] = NoTask
      BY <1>1, <3>1
    <3>3. QED
      BY <2>1, <3>1, <3>2
  <2>2. CASE Unfinished(state, k) # {}
    <3>1. Target(k) \in Unfinished(state, k)
      BY <2>2
    <3> HIDE DEF Target
    <3>2. QED
      BY <2>2, <3>1 DEF Unfinished
  <2>3. QED
    BY <2>1, <2>2
<1>4. AfterTurn(state).tasks = tasks
  <2>1. AfterTurn(state) = [state EXCEPT !.processed = w, !.tasks = tasks]
    BY Zenon DEF AfterTurn, Case
  <2> HIDE DEF tasks
  <2>2. QED
    BY <2>1 DEF Case
<1>5. ASSUME NEW task \in Task \cup {NoTask}
      PROVE  /\ With(task).evidence = task.evidence \cup {w}
             /\ With(task).status = IF task = NoTask THEN "OPEN" ELSE task.status
  BY <1>5 DEF Task, NoTask
<1> HIDE DEF Target, With
<1>6. target \in [Kinds -> TaskIds] /\ \A k \in Kinds : target[k] = Target(k)
  BY <1>3
<1>7. ASSUME NEW i \in TaskIds
      PROVE  i \in Touched <=> i[2] \in Required[w] /\ i = target[i[2]]
  BY <1>2, <1>3, <1>6
<1>8. ASSUME NEW i \in TaskIds
      PROVE  IF i[2] \in Required[w] /\ i = target[i[2]]
             THEN /\ AfterTurn(state).tasks[i].evidence = state.tasks[i].evidence \cup {w}
                  /\ AfterTurn(state).tasks[i].status
                       = IF state.tasks[i] = NoTask THEN "OPEN" ELSE state.tasks[i].status
             ELSE AfterTurn(state).tasks[i] = state.tasks[i]
  <2>1. state.tasks[i] \in Task \cup {NoTask}
    BY <1>1
  <2>2. AfterTurn(state).tasks[i] = IF i \in Touched THEN With(state.tasks[i]) ELSE state.tasks[i]
    BY <1>4
  <2> HIDE DEF Touched, target
  <2>3. QED
    BY <1>5, <1>7, <2>1, <2>2
<1>9. Targets(state, target)
  BY <1>3, <1>6 DEF Targets
<1>10. Extends(state, target, AfterTurn(state).tasks)
  BY <1>8 DEF Extends
<1> HIDE DEF target
<1>11. QED
  BY <1>6, <1>9, <1>10

LEMMA TurnCarries ==
  ASSUME NEW state \in Case, state.processed < Len(Required), CarriedOnce(state)
  PROVE  CarriedOnce(AfterTurn(state))
<1> DEFINE w == state.processed + 1
           new == AfterTurn(state)
<1>1. \A i \in TaskIds : state.tasks[i] # NoTask => i[1] <= state.processed
  BY DEF CarriedOnce
<1>2. w \in Windows
  BY Numbers DEF Case
<1>3. PICK target \in [Kinds -> TaskIds] : Targets(state, target) /\ Extends(state, target, new.tasks)
  BY <1>1, TurnTasks
<1>4. new.processed = w /\ state.processed \in Nat /\ w \in Nat
  BY TurnType DEF Case
<1>5. Required[w] \subseteq Kinds /\ \A i \in TaskIds : i[2] \in Kinds /\ i[1] \in Nat
  BY <1>2, ServiceAssumption, Numbers DEF Windows, TaskIds
<1>6. \A x \in Windows : x \in Nat
  BY Numbers
<1> HIDE DEF new
<1> DEFINE touched(i) == i[2] \in Required[w] /\ i = target[i[2]]
<1>7. \A i \in TaskIds : /\ touched(i) => new.tasks[i].evidence = state.tasks[i].evidence \cup {w}
                         /\ ~touched(i) => new.tasks[i] = state.tasks[i]
  BY <1>3 DEF Extends
<1>8. \A i \in TaskIds, j \in TaskIds : i[2] = j[2] /\ touched(i) /\ touched(j) => i = j
  OBVIOUS
<1>9. ASSUME NEW i \in TaskIds, touched(i)
      PROVE  \/ i \in Unfinished(state, i[2])
             \/ Unfinished(state, i[2]) = {} /\ i = <<w, i[2]>> /\ state.tasks[i] = NoTask
  BY <1>3, <1>5, <1>9 DEF Targets
<1>10. ASSUME NEW i \in TaskIds, new.tasks[i] # NoTask PROVE i[1] <= new.processed
  <2>1. CASE touched(i)
    <3>1. CASE i \in Unfinished(state, i[2])
      <4>1. state.tasks[i] # NoTask
        BY <3>1 DEF Unfinished, NoTask
      <4>2. QED
        BY <1>1, <1>4, <1>5, <4>1
    <3>2. CASE i = <<w, i[2]>>
      BY <1>4, <3>2
    <3>3. QED
      BY <1>9, <2>1, <3>1, <3>2
  <2>2. CASE ~touched(i)
    BY <1>1, <1>4, <1>5, <1>7, <1>10, <2>2
  <2>3. QED
    BY <2>1, <2>2
<1>11. ASSUME NEW i \in TaskIds, NEW j \in TaskIds, i[2] = j[2],
              IsUnfinished(new, i), IsUnfinished(new, j)
       PROVE  i = j
  <2>1. ASSUME NEW a \in TaskIds, NEW b \in TaskIds, a[2] = b[2],
               touched(a), ~touched(b), IsUnfinished(new, b)
        PROVE  a = b
    <3>1. b \in Unfinished(state, a[2])
      BY <1>7, <2>1 DEF IsUnfinished, Unfinished
    <3>2. a \in Unfinished(state, a[2])
      BY <1>9, <2>1, <3>1
    <3>3. QED
      BY <2>1, <3>1, <3>2 DEF CarriedOnce, Unfinished, IsUnfinished
  <2>2. CASE ~touched(i) /\ ~touched(j)
    BY <1>7, <1>11, <2>2 DEF CarriedOnce, IsUnfinished
  <2>3. QED
    BY <1>8, <1>11, <2>1, <2>2
<1>12. ASSUME NEW i \in TaskIds, NEW x \in Windows, x \in new.tasks[i].evidence
       PROVE  /\ x <= new.processed /\ i[2] \in Required[x]
              /\ x \in state.tasks[i].evidence \/ (x = w /\ touched(i))
  <2>1. x \in state.tasks[i].evidence \/ (x = w /\ touched(i))
    BY <1>7, <1>12
  <2>2. x \in state.tasks[i].evidence => x <= state.processed /\ i[2] \in Required[x]
    BY DEF CarriedOnce
  <2>3. QED
    BY <1>4, <1>6, <2>1, <2>2
<1>13. ASSUME NEW i \in TaskIds, w \in Windows, w \in state.tasks[i].evidence PROVE FALSE
  BY <1>4, <1>13 DEF CarriedOnce
<1>14. ASSUME NEW i \in TaskIds, NEW j \in TaskIds, NEW x \in Windows, i[2] = j[2],
              x \in new.tasks[i].evidence, x \in new.tasks[j].evidence
       PROVE  i = j
  <2>1. CASE x = w
    BY <1>2, <1>8, <1>12, <1>13, <1>14, <2>1
  <2>2. CASE x # w
    BY <1>12, <1>14, <2>2 DEF CarriedOnce
  <2>3. QED
    BY <2>1, <2>2
<1>15. ASSUME NEW x \in Windows, x <= new.processed, NEW k \in Required[x]
       PROVE  \E i \in TaskIds : i[2] = k /\ x \in new.tasks[i].evidence
  <2>1. CASE x = w
    <3>1. k \in Kinds /\ target[k] \in TaskIds /\ target[k][2] = k
      BY <1>3, <1>5, <2>1 DEF Targets
    <3>2. touched(target[k])
      BY <1>15, <2>1, <3>1
    <3>3. x \in new.tasks[target[k]].evidence
      BY <1>7, <2>1, <3>1, <3>2
    <3>4. QED
      BY <3>1, <3>3
  <2>2. CASE x # w
    <3>1. x <= state.processed
      BY <1>4, <1>6, <1>15, <2>2
    <3>2. PICK i \in TaskIds : i[2] = k /\ x \in state.tasks[i].evidence
      BY <1>15, <3>1 DEF CarriedOnce
    <3>3. x \in new.tasks[i].evidence
      BY <1>7, <3>2
    <3>4. QED
      BY <3>2, <3>3
  <2>3. QED
    BY <2>1, <2>2
<1>16. QED
  BY <1>10, <1>11, <1>12, <1>14, <1>15 DEF CarriedOnce, new

LEMMA ResponseCarries ==
  ASSUME NEW state \in Case, NEW op \in Responses, Answerable(state, op), CarriedOnce(state)
  PROVE  CarriedOnce(AfterResponse(state, op))
<1> DEFINE new == AfterResponse(state, op)
           status == IF op.what = "acknowledge" THEN "ACKNOWLEDGED" ELSE "COMPLETED"
<1>1. op.task \in TaskIds /\ state.tasks \in [TaskIds -> Task \cup {NoTask}]
  BY DEF Responses, Case
<1>2. state.tasks[op.task] \in Task /\ IsUnfinished(state, op.task)
  BY <1>1 DEF Answerable, NoTask, Task, IsUnfinished
<1>3. new.tasks = [state.tasks EXCEPT ![op.task] = [@ EXCEPT !.status = status]]
  <2> DEFINE tasks == [state.tasks EXCEPT ![op.task] = [@ EXCEPT !.status = status]]
  <2>1. new = [state EXCEPT !.tasks = tasks, !.responses = Append(@, op)]
    BY DEF AfterResponse, Case
  <2> HIDE DEF tasks, new
  <2>2. new.tasks = tasks
    BY <2>1 DEF Case
  <2>3. QED
    BY <2>2 DEF tasks
<1>4. new.processed = state.processed
  BY ResponseType
<1>5. /\ \A i \in TaskIds : new.tasks[i].evidence = state.tasks[i].evidence
      /\ \A i \in TaskIds : IsUnfinished(new, i) => IsUnfinished(state, i)
      /\ \A i \in TaskIds : new.tasks[i] # NoTask => state.tasks[i] # NoTask
  <2>1. \A i \in TaskIds \ {op.task} : new.tasks[i] = state.tasks[i]
    BY <1>1, <1>3
  <2>2. new.tasks[op.task] = [state.tasks[op.task] EXCEPT !.status = status]
    BY <1>1, <1>3
  <2>3. new.tasks[op.task].evidence = state.tasks[op.task].evidence /\ state.tasks[op.task] # NoTask
    BY <1>2, <2>2 DEF Task, IsUnfinished, NoTask
  <2>4. QED
    BY <1>2, <2>1, <2>3 DEF IsUnfinished
<1> HIDE DEF new
<1>6. /\ \A i \in TaskIds : new.tasks[i] # NoTask => i[1] <= new.processed
      /\ \A i \in TaskIds, j \in TaskIds :
           i[2] = j[2] /\ IsUnfinished(new, i) /\ IsUnfinished(new, j) => i = j
  BY <1>4, <1>5 DEF CarriedOnce
<1>7. /\ \A i \in TaskIds, w \in Windows :
           w \in new.tasks[i].evidence => w <= new.processed /\ i[2] \in Required[w]
      /\ \A i \in TaskIds, j \in TaskIds, w \in Windows :
           i[2] = j[2] /\ w \in new.tasks[i].evidence /\ w \in new.tasks[j].evidence => i = j
  BY <1>4, <1>5 DEF CarriedOnce
<1>8. \A w \in Windows : w <= new.processed =>
        \A k \in Required[w] : \E i \in TaskIds : i[2] = k /\ w \in new.tasks[i].evidence
  BY <1>4, <1>5 DEF CarriedOnce
<1>9. QED
  BY <1>6, <1>7, <1>8 DEF CarriedOnce, new

EveryCaseCarries == \A s \in Sessions : CarriedOnce(sessions[s].state)

LEMMA NewCaseCarries == CarriedOnce(NewCase)
<1>1. /\ \A i \in TaskIds : NewCase.tasks[i] = NoTask
      /\ NewCase.processed = 0 /\ \A w \in Windows : ~(w <= 0)
  BY Numbers DEF NewCase
<1>2. NoTask.evidence = {} /\ NoTask.status = "NONE"
  BY DEF NoTask
<1>3. QED
  BY <1>1, <1>2 DEF CarriedOnce, IsUnfinished

LEMMA CarriesStep ==
  ASSUME ServiceInv, EveryCaseCarries, [ServiceNext]_serviceVars
  PROVE  EveryCaseCarries'
<1>1. sessions' = sessions => EveryCaseCarries'
  BY DEF EveryCaseCarries
<1>2. ASSUME NEW c \in Callers, Commits(c) PROVE EveryCaseCarries'
  <2>1. /\ Answer(c) \in Case /\ Save(c, Answer(c)) /\ call[c].pc \in {"planning", "responded"}
        /\ call[c].session \in Sessions /\ sessions[call[c].session] # NoSession
        /\ Saved(c).state \in Case
        /\ call[c].pc = "planning" => Saved(c).state.processed < Len(Required)
        /\ call[c].pc = "responded" => Answerable(Saved(c).state, call[c].op) /\ call[c].op \in Responses
    BY <1>2, AnswerFacts
  <2>2. CarriedOnce(Saved(c).state)
    BY <2>1 DEF EveryCaseCarries, Saved
  <2>3. CarriedOnce(Answer(c))
    BY <2>1, <2>2, TurnCarries, ResponseCarries DEF Answer
  <2>4. /\ sessions'[call[c].session].state = Answer(c)
        /\ \A x \in Sessions \ {call[c].session} : sessions'[x] = sessions[x]
    <3>1. sessions'[call[c].session] = [rev |-> Saved(c).rev + 1, state |-> Answer(c)]
      BY <2>1, SaveFacts DEF ServiceInv
    <3>2. \A x \in Sessions \ {call[c].session} : sessions'[x] = sessions[x]
      BY <2>1, SaveFacts DEF ServiceInv
    <3>3. QED
      BY <3>1, <3>2
  <2>5. QED
    BY <2>3, <2>4 DEF EveryCaseCarries
<1>3. ASSUME NEW x \in Sessions, CreateSession(x) PROVE EveryCaseCarries'
  <2>1. /\ sessions'[x].state = NewCase
        /\ \A s \in Sessions \ {x} : sessions'[s] = sessions[s]
    BY <1>3 DEF CreateSession, ServiceInv, ServiceTypeOK
  <2>2. QED
    BY <2>1, NewCaseCarries DEF EveryCaseCarries
<1>4. QED
  BY <1>1, <1>2, <1>3 DEF ServiceNext, Turn, Response, Die, Claim, ReadCase, Spend, PlanFails,
     TurnRefused, Release, StartResponse, ReadForResponse, ResponseRefused, Commits, Tick, serviceVars

LEMMA AtMostOne ==
  ASSUME NEW S, \A x \in S, y \in S : x = y
  PROVE  Cardinality(S) = IF S = {} THEN 0 ELSE 1
<1>1. CASE S = {}
  BY <1>1, FS_EmptySet
<1>2. CASE S # {}
  <2>1. PICK x \in S : TRUE
    BY <1>2
  <2>2. S = {x}
    BY <2>1
  <2>3. QED
    BY <1>2, <2>2, FS_Singleton
<1>3. QED
  BY <1>1, <1>2

LEMMA CarriedCounts ==
  ASSUME NEW state \in Case, CarriedOnce(state), NEW k \in Kinds
  PROVE  LET OfKind == {i \in TaskIds : i[2] = k /\ state.tasks[i] # NoTask}
         IN /\ Cardinality({i \in OfKind : state.tasks[i].status # "COMPLETED"}) <= 1
            /\ \A w \in Windows :
                 Cardinality({i \in OfKind : w \in state.tasks[i].evidence})
                   = IF w <= state.processed /\ k \in Required[w] THEN 1 ELSE 0
<1> DEFINE OfKind == {i \in TaskIds : i[2] = k /\ state.tasks[i] # NoTask}
           Open == {i \in OfKind : state.tasks[i].status # "COMPLETED"}
           Carriers(w) == {i \in OfKind : w \in state.tasks[i].evidence}
<1>1. \A i \in OfKind : state.tasks[i].status # "COMPLETED" => IsUnfinished(state, i)
  BY DEF Case, Task, IsUnfinished
<1>2. \A i \in Open, j \in Open : i = j
  BY <1>1 DEF CarriedOnce
<1>3. Cardinality(Open) <= 1
  <2> HIDE DEF Open
  <2>1. Cardinality(Open) = IF Open = {} THEN 0 ELSE 1
    BY <1>2, AtMostOne
  <2>2. QED
    BY <2>1
<1>4. ASSUME NEW w \in Windows
      PROVE  Cardinality(Carriers(w)) = IF w <= state.processed /\ k \in Required[w] THEN 1 ELSE 0
  <2>1. \A i \in Carriers(w), j \in Carriers(w) : i = j
    BY DEF CarriedOnce
  <2>2. Carriers(w) # {} => w <= state.processed /\ k \in Required[w]
    BY DEF CarriedOnce
  <2>3. ASSUME w <= state.processed, k \in Required[w] PROVE Carriers(w) # {}
    <3>1. PICK i \in TaskIds : i[2] = k /\ w \in state.tasks[i].evidence
      BY <2>3 DEF CarriedOnce
    <3>2. state.tasks[i] # NoTask
      BY <3>1 DEF NoTask
    <3>3. QED
      BY <3>1, <3>2
  <2> HIDE DEF Carriers
  <2>4. Cardinality(Carriers(w)) = IF Carriers(w) = {} THEN 0 ELSE 1
    BY <2>1, AtMostOne
  <2>5. QED
    BY <2>2, <2>3, <2>4
<1>5. QED
  BY <1>3, <1>4

(* A turn adds its window to exactly one review of every kind the scenario *)
(* requires of it, and responses move no evidence: the target check of     *)
(* propose_review and the once-per-kind check of finish suffice for any    *)
(* scenario, however turns and responses alternate or collide.             *)
THEOREM EvidenceCarriedOnceHolds == ServiceSpec => []EvidenceCarriedOnce
<1>1. ServiceInit => EveryCaseCarries
  BY NewCaseCarries DEF ServiceInit, EveryCaseCarries, NoSession
<1>2. ServiceInv /\ EveryCaseCarries /\ [ServiceNext]_serviceVars => EveryCaseCarries'
  BY CarriesStep
<1>3. ServiceInv /\ EveryCaseCarries => EvidenceCarriedOnce
  <2> SUFFICES ASSUME ServiceInv, EveryCaseCarries PROVE EvidenceCarriedOnce
    OBVIOUS
  <2>1. \A s \in Sessions : sessions[s].state \in Case /\ CarriedOnce(sessions[s].state)
    BY NewCaseType DEF EveryCaseCarries, ServiceInv, ServiceTypeOK, NoSession
  <2>2. QED
    BY <2>1, CarriedCounts DEF EvidenceCarriedOnce
<1>4. QED
  BY <1>1, <1>2, <1>3, ServiceInitInv, ServiceStepInv, PTL DEF ServiceSpec
============================================================================
