---------------------------- MODULE SourceQueue ----------------------------
(***************************************************************************)
(* The rows the watch side hands to the case side, in one SQLite file:     *)
(* watch_events (an aligned interval, sealed in consecutive revisions),    *)
(* watch_outbox (one disposition per event) and monitors.pending_count.    *)
(* One monitor; an event is the pair <<interval, revision>>.               *)
(***************************************************************************)
EXTENDS Integers, FiniteSets

CONSTANTS
  Intervals,     \* the aligned intervals, numbered in time order
  MaxEventRev    \* bound on how often one interval is sealed again

ASSUME SourceAssumption ==
  /\ Intervals \subseteq Nat
  /\ IsFiniteSet(Intervals)
  /\ MaxEventRev \in Nat \ {0}

VARIABLES
  outbox,        \* watch_outbox.status per event; "NONE": not sealed yet
  pendingCount   \* monitors.pending_count

sourceVars == <<outbox, pendingCount>>

Events == Intervals \X (1 .. MaxEventRev)
Dispositions == {"DONE", "HISTORY", "SUPPRESSED"}

Interval(e) == e[1]
Revision(e) == e[2]

(* supersedes_event_id: each revision names its immediate predecessor. *)
Supersedes(e, p) == Interval(p) = Interval(e) /\ Revision(e) = Revision(p) + 1

(* ORDER BY interval_start, revision *)
Before(d, e) ==
  \/ Interval(d) < Interval(e)
  \/ Interval(d) = Interval(e) /\ Revision(d) < Revision(e)

Sealed == {e \in Events : outbox[e] # "NONE"}
Pending == {e \in Events : outbox[e] = "PENDING"}

SourceTypeOK ==
  /\ outbox \in [Events -> {"NONE", "PENDING"} \cup Dispositions]
  /\ pendingCount \in Nat

SourceInit ==
  /\ outbox = [e \in Events |-> "NONE"]
  /\ pendingCount = 0

(* The next revision of every interval. *)
Sealable ==
  {e \in Events : outbox[e] = "NONE" /\ \A p \in Events : Supersedes(e, p) => outbox[p] # "NONE"}

SealUncounted(S) ==                     \* seeded error: revisions are not counted
  /\ S # {} /\ S \subseteq Sealable
  /\ outbox' = [e \in Events |-> IF e \in S THEN "PENDING" ELSE outbox[e]]
  /\ pendingCount' = pendingCount + Cardinality({e \in S : Revision(e) = 1})

(* A committed poll seals the dirty intervals whose members changed, all   *)
(* in its transaction.  Data may arrive late, so the intervals are sealed  *)
(* in any order, but the revisions of one interval only consecutively.     *)
SealEvents(S) ==
  /\ S # {} /\ S \subseteq Sealable
  /\ outbox' = [e \in Events |-> IF e \in S THEN "PENDING" ELSE outbox[e]]
  /\ pendingCount' = pendingCount + Cardinality(S)

(* The two guarded UPDATEs of an acknowledgement, for every event of the   *)
(* set done, in one transaction: each must change exactly one row.         *)
Acknowledge(disposition) ==
  /\ \A e \in DOMAIN disposition : outbox[e] = "PENDING"
  /\ pendingCount >= Cardinality(DOMAIN disposition)
  /\ outbox' = [e \in Events |->
                  IF e \in DOMAIN disposition THEN disposition[e] ELSE outbox[e]]
  /\ pendingCount' = pendingCount - Cardinality(DOMAIN disposition)

(* The counter the desk shows and every acknowledgement guards on is the   *)
(* number of pending outbox rows, although the two tables are updated by   *)
(* polls, bootstraps, suppressions and completed assessments separately.   *)
PendingCountExact == pendingCount = Cardinality(Pending)
============================================================================
