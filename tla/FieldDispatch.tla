--------------------------- MODULE FieldDispatch ---------------------------
(***************************************************************************)
(* Dispatch that knows of field work (current/field_dispatch_store.py,     *)
(* field_delivery_store.py, field_agent.py, context_v3_reference.py).  A   *)
(* case is upgraded once; from then on an invocation is also shown the     *)
(* field work and the approved sites, pinned by receipt, and may propose   *)
(* one plan, which is saved with the rest of its answer or not at all.     *)
(*                                                                         *)
(* Only the canonical case is dispatched.  Nobody uses the journal         *)
(* directly here but to abandon: Dispatch covers that.                     *)
(***************************************************************************)
EXTENDS Dispatch, FieldWork

CONSTANTS
  ShownLimit    \* the three stranded plans, and the three results, shown

Selections == {"CURRENT", "STRANDED", "RESULT"}
Bindings == {"CURRENT", "SUPERSEDED", "TERMINAL"}
Snapshots == [value : Row, result : Result \cup {NoResult}, binding : Bindings]

(* FieldActivityReference: which receipt, which revision of the review,    *)
(* and (its digest) what they said.                                        *)
Activity == [selection : Selections, plan : Nat, rev : Nat, parent : Nat, shown : Snapshots]
Reference == [activities : SUBSET Activity, sites : SUBSET Entries]

ASSUME FieldDispatchAssumption ==
  /\ ShownLimit \in Nat
  /\ Cardinality(Kinds) <= ShownLimit
  /\ Direct = {}
  /\ NULL \notin Reference

VARIABLES
  upgraded,     \* context3_dispatch_settings has a row for the case
  pins,         \* context3_attempts: the reference of each invocation, or NULL
  proposals     \* context3_agent_proposals: the plan of an invocation, or 0

extensionVars == <<upgraded, pins, proposals>>
upgradeVars == <<vars, fieldVars, extensionVars>>

FieldDispatchTypeOK ==
  /\ TypeOK /\ FieldTypeOK
  /\ upgraded \in BOOLEAN
  /\ pins \in [Attempts -> Reference \cup {NULL}]
  /\ proposals \in [Attempts -> 0 .. Len(plans[Canonical])]

UpgradeInit ==
  /\ Init
  /\ plans = [c \in Cases |-> <<>>]
  /\ work = [c \in Cases |-> <<>>]
  /\ upgraded = FALSE
  /\ pins = [a \in Attempts |-> NULL]
  /\ proposals = [a \in Attempts |-> 0]

----------------------------------------------------------------------------
(* What an invocation is shown of the field work (_load_field_context).    *)
PlanOf(p) == plans[Canonical][p]
Parent(p) == reviews[Canonical][PlanOf(p).task]

BindingOf(status, rev, review) ==
  IF status \notin Active THEN "TERMINAL" ELSE IF rev = review THEN "CURRENT" ELSE "SUPERSEDED"

OpenPlans(binding) ==
  {p \in DOMAIN plans[Canonical] :
     /\ Now(PlanOf(p)).status \in Open
     /\ BindingOf(Parent(p).status, Parent(p).rev, PlanOf(p).review) = binding}
ReportedPlans == {p \in DOMAIN plans[Canonical] : Now(PlanOf(p)).status = "REPORTED"}

(* The n plans of S with the latest activity. *)
Recent(n, S) ==
  {p \in S : Cardinality({x \in S : PlanOf(x).activity > PlanOf(p).activity}) < n}

Stranded ==
  LET blocking == OpenPlans("SUPERSEDED")
  IN blocking \cup Recent(ShownLimit - Cardinality(blocking), OpenPlans("TERMINAL"))

ReferenceTo(selection, p) ==
  [selection |-> selection, plan |-> p, rev |-> PlanOf(p).activity, parent |-> Parent(p).rev,
   shown |-> [value |-> Now(PlanOf(p)), result |-> ResultOf(PlanOf(p)),
              binding |-> BindingOf(Parent(p).status, Parent(p).rev, PlanOf(p).review)]]

Activities ==
  {ReferenceTo("CURRENT", p) : p \in OpenPlans("CURRENT")}
    \cup {ReferenceTo("STRANDED", p) : p \in Stranded}
    \cup {ReferenceTo("RESULT", p) : p \in Recent(ShownLimit, ReportedPlans)}

(* restore_context_v3 and capture_context_v3 on one activity: its receipt, *)
(* and the revision row of its review, say what was shown.                 *)
Restores(item) ==
  \E i \in DOMAIN work[Canonical] :
    /\ work[Canonical][i].plan = item.plan /\ work[Canonical][i].rev = item.rev
    /\ \E q \in RowsOf(Canonical, PlanOf(item.plan).task) :
         LET row == receipts[Canonical][q]
             replayed == Replay(Canonical, i)
         IN /\ row.rev = item.parent
            /\ item.shown = [value |-> replayed.value, result |-> replayed.result,
                             binding |-> BindingOf(row.status, row.rev, PlanOf(item.plan).review)]

(* restore_reserved, in a process that runs with the registry reg. *)
Restorable(a, reg) ==
  /\ pins[a].sites \subseteq reg
  /\ \A item \in pins[a].activities : Restores(item)

----------------------------------------------------------------------------
(* _settings_v3: what every operation refuses to work on. *)
BoundV3 ==
  /\ upgraded /\ Bound
  /\ HeldOf(Canonical) = IF active = NULL THEN {} ELSE {active}
  /\ counts.assessed = Cardinality(Committed(Canonical))
  /\ \A a \in HeldOf(Canonical) : pins[a] # NULL
  /\ \A a \in Committed(Canonical) :
       attempts[a].source => outcomes[attempts[a].event] = "ASSESSED"

(* upgrade_to_v3: nothing may be unresolved when it happens.  The profile  *)
(* of the settings row changes, so that Dispatch refuses the case.         *)
Upgrade(t) ==
  /\ ~upgraded /\ Bound
  /\ active = NULL /\ HeldOf(Canonical) = {}
  /\ \A a \in AttemptsOf(Canonical) : pins[a] = NULL
  /\ t >= caseTime[Canonical] /\ t >= dispatchTime
  /\ upgraded' = TRUE
  /\ dispatchTime' = t
  /\ UNCHANGED <<activated, initial, counts, numeric, health, active, recordVars, sourceVars,
                 ledgerVars, journalVars, runner, fieldVars, pins, proposals>>

(* require_legacy_context: an invocation that is not shown the field work  *)
(* is not made on a case that has any.                                     *)
LegacyAnyway == TRUE                                \* seeded error
LegacyAllowed == plans[Canonical] = <<>>

PrepareLegacy(r) ==
  /\ ~upgraded /\ LegacyAllowed
  /\ Prepare(r)
  /\ UNCHANGED <<fieldVars, extensionVars>>

(* A runner of Dispatch on a case that was upgraded meanwhile is refused.  *)
ConcludeLegacy(r) ==
  /\ ~upgraded
  /\ Conclude(r) \/ FailCheck(r)
  /\ UNCHANGED <<fieldVars, extensionVars>>

(* capture_context_v3: the reference is saved with the reservation. *)
PinContext(a, reg) ==
  /\ \A item \in Activities : Restores(item)
  /\ pins' = [pins EXCEPT ![a] = [activities |-> Activities, sites |-> Approved(reg)]]
  /\ UNCHANGED <<fieldVars, upgraded, proposals>>

PrepareV3(r) ==
  /\ runner[r] = Idle
  /\ BoundV3
  /\ \E e \in Sealed, t \in Times :
       \/ Suppress(e, t) /\ UNCHANGED <<fieldVars, extensionVars>>
       \/ \E a \in Attempts, reg \in Registries : Admit(r, e, a, t) /\ PinContext(a, reg)

----------------------------------------------------------------------------
(* The answer: source decisions as before, and a proposed plan or NULL.    *)
PlanProposals == [task : Requests, site : Entries, ends : Dues]

(* validate_assessment_v3: an open review it was shown, without open work; *)
(* only unfinished work is followed up; a site and a window it was given.  *)
ValidProposal(a, proposal) ==
  LET shown == {item \in pins[a].activities : PlanOf(item.plan).task = proposal.task}
      results == {item \in shown : item.selection = "RESULT"}
  IN /\ \E ref \in attempts[a].refs : ref.task = proposal.task
     /\ shown = results
     /\ \A item \in results :
          (\A other \in results : other.rev <= item.rev)
            => item.shown.result.outcome = "UNFINISHED"
     /\ proposal.site \in pins[a].sites
     /\ Window(proposal.ends, attempts[a].at)

(* require_current_site, when the answer is applied. *)
SiteStands(proposal, reg, t) == t < proposal.ends /\ proposal.site \in Approved(reg)

(* finish and fail (ConcludeV3) first read back what the runner's          *)
(* invocation was given, and refuse to go on without it.                   *)
ReadBack(r, reg) ==
  /\ runner[r].pc = "planning"
  /\ BoundV3
  /\ active = runner[r].attempt
  /\ Restorable(active, reg)

(* finish, from there to the decision what to do with the answer. *)
MayFinishV3(r, d, proposal, t) ==
  LET a == runner[r].attempt
  IN /\ MayFinish(a, t)
     /\ attempts[a].status = "RESERVED"
     /\ MaySettle(a, t)
     /\ ValidAnswer(a, d)
     /\ proposal # NULL => ValidProposal(a, proposal)

Applicable(a, proposal, reg, t) ==
  CaseUnchanged(a) /\ (proposal # NULL => SiteStands(proposal, reg, t))

FinishStaleV3(r, d, proposal, reg, t) ==
  /\ MayFinishV3(r, d, proposal, t)
  /\ ~Applicable(runner[r].attempt, proposal, reg, t)
  /\ Settle(runner[r].attempt, "STALE", t)
  /\ runner' = [runner EXCEPT ![r] = Idle]
  /\ UNCHANGED <<used, sourceVars, ledgerVars, dispatchVars, fieldVars, extensionVars>>

(* The case revision the proposal is saved at, after the source work. *)
FirstRevision(a, d) == caseRev[attempts[a].case] + 1          \* seeded error
ProposalRevision(a, d) == caseRev[attempts[a].case] + Cardinality(Decided(d)) + 1

(* stage_agent_plan, on the review and with the receipt of a person's.     *)
(* It is refused, and with it all of the answer, over other work on the    *)
(* review or over a site that means another place.                         *)
StageAgentPlan(a, d, proposal, t) ==
  LET c == attempts[a].case
      p == Len(plans[c]) + 1
      ref == CHOOSE x \in attempts[a].refs : x.task = proposal.task
  IN /\ ParentOpen(c, proposal.task, ref.rev)
     /\ OpenPlansOn(c, proposal.task) = {}
     /\ SiteUnchanged(c, proposal.site)
     /\ Log("PROPOSE", c, p,
            NewPlan(proposal.task, ref.rev, proposal.site, proposal.ends, "AGENT", t),
            ProposalRevision(a, d), t)
     /\ proposals' = [proposals EXCEPT ![a] = p]

(* finish on an unchanged case: source work, plan, acknowledgement, the    *)
(* attempt and the records of dispatch change in one transaction.          *)
FinishV3(r, d, proposal, reg, t) ==
  LET a == runner[r].attempt
      proposed == IF proposal = NULL THEN 0 ELSE 1
  IN /\ MayFinishV3(r, d, proposal, t)
     /\ Applicable(a, proposal, reg, t)
     /\ StageWork(a, d, t)
     /\ IF proposal = NULL THEN UNCHANGED <<fieldVars, proposals>>
        ELSE StageAgentPlan(a, d, proposal, t)
     /\ Bump(attempts[a].case, Cardinality(Decided(d)) + proposed + 1, t)
     /\ IF Acknowledges(a)
        THEN Acknowledge([e \in {attempts[a].event} |-> "DONE"])
        ELSE UNCHANGED sourceVars
     /\ Settle(a, "COMMITTED", t)
     /\ RecordAssessed(a, t)
     /\ runner' = [runner EXCEPT ![r] = Idle]
     /\ UNCHANGED <<used, upgraded, pins>>

(* fail reads and writes in one transaction here. *)
FailV3(r, t) ==
  /\ Fail(runner[r].attempt, t)
  /\ runner' = [runner EXCEPT ![r] = Idle]
  /\ UNCHANGED <<dispatchVars, fieldVars, extensionVars>>

----------------------------------------------------------------------------
ConcludeV3(r) ==
  \E reg \in Registries :
    /\ ReadBack(r, reg)
    /\ \E t \in Times :
         \/ FailV3(r, t)
         \/ \E d \in Decisions, proposal \in PlanProposals \cup {NULL} :
              FinishV3(r, d, proposal, reg, t) \/ FinishStaleV3(r, d, proposal, reg, t)

UpgradeNext ==
  \/ \E t \in Times : Upgrade(t)
  \/ \E r \in Runners : PrepareLegacy(r) \/ ConcludeLegacy(r) \/ PrepareV3(r) \/ ConcludeV3(r)
  \/ /\ (\E t \in Times : Activate(t)) \/ (\E r \in Runners : Lose(r)) \/ Surroundings
     /\ UNCHANGED <<fieldVars, extensionVars>>
  \/ /\ FieldPeople
     /\ UNCHANGED <<sourceVars, journalVars, dispatchVars, runner, extensionVars>>

UpgradeSpec == UpgradeInit /\ [][UpgradeNext]_upgradeVars
----------------------------------------------------------------------------
(* The case revision counts every saved operation on the case, whoever     *)
(* made it: reviews, field work and committed invocations all spend from   *)
(* the one number that tells an answer whether its case has changed.       *)
EveryOperationCounted ==
  \A c \in Cases :
    caseRev[c] = Cardinality({q \in Requests : receipts[c][q] # NoReceipt})
                 + Len(work[c]) + Cardinality(Committed(c))

(* What an invocation was shown of the field work can be restored for      *)
(* ever, from receipts and revision rows that later decisions, reports and *)
(* corrections leave alone: finish, fail and every later reading of the    *)
(* answer depend on it.  And while the case revision stands still it is    *)
(* what would be shown now, so that no answer is applied to other work     *)
(* than it was given for.                                                  *)
PinnedContextHolds ==
  \A a \in Attempts : pins[a] # NULL =>
    /\ \A item \in pins[a].activities : Restores(item)
    /\ attempts[a].status = "RESERVED" /\ CaseUnchanged(a) => pins[a].activities = Activities

(* A plan is in the agent's name exactly when a committed invocation       *)
(* proposed it, on the revision of the review it was shown and at a site   *)
(* it was shown; the receipt stands at its place in the sequence of the    *)
(* answer, and the agent's plan is what people decided on afterwards.      *)
AgentPlansProposed ==
  LET C == Canonical
      Answered(a) == {k \in Kinds : receipts[C][<<a, k>>] # NoReceipt}
  IN /\ \A p \in DOMAIN plans[C] : \A i \in DOMAIN PlanOf(p).rows :
          PlanOf(p).rows[i].author = "AGENT" =>
            i = 1 /\ Cardinality({a \in Attempts : proposals[a] = p}) = 1
     /\ \A a \in Attempts : proposals[a] # 0 =>
          LET p == proposals[a]
          IN /\ a \in Committed(C)
             /\ PlanOf(p).rows[1].author = "AGENT" /\ PlanOf(p).rows[1].status = "PROPOSED"
             /\ PlanOf(p).rows[1].site \in pins[a].sites
             /\ \E ref \in attempts[a].refs :
                  ref.task = PlanOf(p).task /\ ref.rev = PlanOf(p).review
             /\ \E i \in DOMAIN work[C] :
                  /\ work[C][i].op = "PROPOSE" /\ work[C][i].plan = p
                  /\ work[C][i].rev = attempts[a].caseRev + Cardinality(Answered(a)) + 1

(* No answer that was not shown the field work of the case is applied to a *)
(* case that has any; none crosses the upgrade unresolved; and unless a    *)
(* person abandoned the active invocation the upgraded settings pass the   *)
(* checks every operation makes of them, whichever version assessed the    *)
(* baselines and committed the answers they count.                         *)
LegacyEndsAtUpgrade ==
  /\ \A a \in AttemptsOf(Canonical) :
       /\ pins[a] = NULL /\ attempts[a].status = "COMMITTED" =>
            \A i \in DOMAIN work[Canonical] : work[Canonical][i].rev > attempts[a].caseRev
       /\ pins[a] # NULL => upgraded
       /\ pins[a] = NULL /\ upgraded => attempts[a].status \notin Held
  /\ upgraded /\ (active # NULL => attempts[active].status # "ABANDONED") => BoundV3
============================================================================
