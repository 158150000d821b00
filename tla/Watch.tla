------------------------------- MODULE Watch -------------------------------
(***************************************************************************)
(* Continuous watch of one monitor: watch/store.py, store_ingest.py,       *)
(* store_events.py and runner.py, which fill the rows of SourceQueue.      *)
(* Processes that tick on the same database take a persisted lease, fetch  *)
(* a window of the source that overlaps what was scanned before, and       *)
(* commit the whole window or nothing.  A reading is named by the moment   *)
(* it was observed at; its publication time is what orders corrections.    *)
(* A runner's name stands for the random token of the lease it holds: it   *)
(* holds one copy at most.                                                 *)
(***************************************************************************)
EXTENDS SourceQueue

CONSTANTS
  Moments,       \* the times at which the source may have a reading
  Values,        \* what a reading says (semantic_hash)
  Width,         \* interval_seconds
  PollTime,      \* poll_seconds
  Overlap,       \* overlap_seconds
  LeaseTime,     \* lease_seconds
  Window,        \* 24 hours: the longest window one poll fetches
  MaxBackoff,    \* 3600 seconds: the longest delay after a failure
  Skew,          \* 60 seconds: how far a publication may follow the admission
  StartAt,       \* start_at
  MaxTime,       \* bound on the clock
  RetryAfters,   \* what a failing source may ask for; 0: nothing
  Runners,       \* watching processes
  Erratic,       \* moments whose reading may change without a later publication time
  Nothing        \* no row, no reading, no runner at work

Times == StartAt .. MaxTime

ASSUME WatchAssumption ==
  /\ StartAt \in Nat /\ MaxTime \in Nat /\ StartAt <= MaxTime
  /\ Moments \subseteq Times
  /\ Width \in Nat \ {0} /\ PollTime \in Nat \ {0} /\ LeaseTime \in Nat \ {0}
  /\ Overlap \in Nat \ {0} /\ Window \in Nat /\ Overlap < Window
  /\ MaxBackoff \in Nat /\ MaxBackoff >= 1 /\ Skew \in Nat
  /\ RetryAfters \subseteq Nat /\ RetryAfters # {}
  /\ Intervals = {m \div Width : m \in Moments}
  /\ Erratic \subseteq Moments
  /\ Nothing \notin Runners

VARIABLES
  clock,         \* real time; processes read it at or before the time they use it
  source,        \* external: the reading of each moment, if published
  fetched,       \* monitors.fetched_through
  nextPoll,      \* monitors.next_poll_at
  failures,      \* monitors.consecutive_failures
  lease,         \* the row of leases
  current,       \* observations_current: version, its value, last_seen_modified_at
  dirty,         \* dirty_intervals
  members,       \* event_members of each sealed event: <<moment, version>>
  runner         \* what each process is doing

watchVars == <<fetched, nextPoll, failures, current, dirty, members>>
vars == <<sourceVars, watchVars, clock, source, lease, runner>>

Readings == [value : Values, modified : Times]
Stored == [version : Nat \ {0}, value : Values, seen : Times]

(* A process inside tick: the scope of its lease, its latest reading of    *)
(* the clock, and what it fetched.                                         *)
Working ==
  [pc : {"fetching", "fetched", "failing"},
   start : Times, end : Times, acquired : Times, read : Times,
   batch : [Moments -> Readings \cup {Nothing}]]

ASSUME NothingAssumption ==
  Nothing \notin Readings /\ Nothing \notin Stored /\ Nothing \notin Working

TypeOK ==
  /\ SourceTypeOK
  /\ clock \in Times
  /\ source \in [Moments -> Readings \cup {Nothing}]
  /\ fetched \in Times
  /\ nextPoll \in Nat
  /\ failures \in Nat
  /\ lease \in [holder : Runners, acquired : Times, expires : Nat] \cup {Nothing}
  /\ current \in [Moments -> Stored \cup {Nothing}]
  /\ dirty \subseteq Intervals
  /\ members \in [Events -> SUBSET (Moments \X (Nat \ {0}))]
  /\ runner \in [Runners -> Working \cup {Nothing}]

Empty == [m \in Moments |-> Nothing]

Init ==
  /\ SourceInit
  /\ clock = StartAt
  /\ source = Empty
  /\ fetched = StartAt
  /\ nextPoll = StartAt
  /\ failures = 0
  /\ lease = Nothing
  /\ current = Empty
  /\ dirty = {}
  /\ members = [e \in Events |-> {}]
  /\ runner = [r \in Runners |-> Nothing]

At(r, pc) == runner[r] # Nothing /\ runner[r].pc = pc

(***************************************************************************)
(* Taking the lease                                                        *)
(***************************************************************************)
Later(a, b) == IF a >= b THEN a ELSE b
Sooner(a, b) == IF a <= b THEN a ELSE b

StartUnclamped == fetched - Overlap           \* seeded error
StartWithoutOverlap == fetched                \* seeded error

WindowStart == Later(StartAt, fetched - Overlap)
WindowEnd(t) == Sooner(t, WindowStart + Window)

(* The clock was read, as t, before the write lock was taken. *)
AcquirePoll(r, t) ==
  /\ runner[r] = Nothing
  /\ lease # Nothing => lease.expires <= t
  /\ nextPoll <= t
  /\ WindowEnd(t) > WindowStart
  /\ lease' = [holder |-> r, acquired |-> t, expires |-> t + LeaseTime]
  /\ runner' = [runner EXCEPT ![r] =
       [pc |-> "fetching", start |-> WindowStart, end |-> WindowEnd(t),
        acquired |-> t, read |-> t, batch |-> Empty]]
  /\ UNCHANGED <<sourceVars, watchVars, clock, source>>

(* fetch: the readings of the window, both ends included, as published now. *)
Fetch(r) ==
  /\ At(r, "fetching")
  /\ runner' = [runner EXCEPT ![r] =
       [@ EXCEPT !.pc = "fetched", !.read = clock,
                 !.batch = [m \in Moments |->
                   IF m \in runner[r].start .. runner[r].end THEN source[m] ELSE Nothing]]]
  /\ UNCHANGED <<sourceVars, watchVars, clock, source, lease>>

FetchFails(r) ==
  /\ At(r, "fetching")
  /\ runner' = [runner EXCEPT ![r] = [@ EXCEPT !.pc = "failing", !.read = clock]]
  /\ UNCHANGED <<sourceVars, watchVars, clock, source, lease>>

GuardExpiryOnly(r, t) ==                \* seeded error: the token is not compared
  /\ lease # Nothing
  /\ lease.acquired <= t /\ t < lease.expires

(* _guard: the exact lease is still persisted and covers the time t. *)
Guard(r, t) ==
  /\ lease # Nothing
  /\ lease.holder = r
  /\ lease.acquired <= t /\ t < lease.expires

(***************************************************************************)
(* Ingestion and sealing, within the transaction of commit_poll            *)
(***************************************************************************)
Arrived(r) == {m \in Moments : runner[r].batch[m] # Nothing}

Same(m, reading) == current[m] # Nothing /\ current[m].value = reading.value

ConflictingWhenEqual(m, reading) ==     \* seeded error: older ones are let through
  /\ current[m] # Nothing
  /\ current[m].value # reading.value
  /\ reading.modified = current[m].seen

(* A value that differs without newer publication authority. *)
Conflicting(m, reading) ==
  /\ current[m] # Nothing
  /\ current[m].value # reading.value
  /\ reading.modified <= current[m].seen

Ingested(m, reading) ==
  IF Same(m, reading)
  THEN [current[m] EXCEPT !.seen = Later(current[m].seen, reading.modified)]
  ELSE [version |-> IF current[m] = Nothing THEN 1 ELSE current[m].version + 1,
        value |-> reading.value,
        seen |-> reading.modified]

After(r) ==
  [m \in Moments |->
     IF m \in Arrived(r) THEN Ingested(m, runner[r].batch[m]) ELSE current[m]]

IntervalOf(m) == m \div Width
EndOf(i) == (i + 1) * Width

MarkedIfNew(r) == {IntervalOf(m) : m \in {n \in Arrived(r) : current[n] = Nothing}}  \* seeded error

(* mark_dirty, for every new version *)
Marked(r) == {IntervalOf(m) : m \in {n \in Arrived(r) : ~Same(n, runner[r].batch[n])}}

(* The dirty intervals that end by the end of the window just fetched. *)
Closed(r) == {i \in dirty \cup Marked(r) : EndOf(i) <= runner[r].end}

(* The readings of an interval that observations_current holds in stock. *)
Contents(i, stock) ==
  {<<m, stock[m].version>> : m \in {n \in Moments : IntervalOf(n) = i /\ stock[n] # Nothing}}

Revisions(i) == {e \in Sealed : Interval(e) = i}
Latest(e) == e \in Sealed /\ Revision(e) = Cardinality(Revisions(Interval(e)))

(* The event an interval is sealed as: the next revision, if its members   *)
(* differ from those of the last one.                                      *)
ToSeal(r) ==
  {<<i, Cardinality(Revisions(i)) + 1>> : i \in
     {j \in Closed(r) : ~\E e \in Revisions(j) : Latest(e) /\ members[e] = Contents(j, After(r))}}

(* commit_poll at time t; the poll's own validation of the batch is in     *)
(* RejectBatch.  The bound of MaxEventRev is in ToSeal \subseteq Events.   *)
CommitPoll(r, t) ==
  /\ At(r, "fetched")
  /\ Guard(r, t)
  /\ \A m \in Arrived(r) : ~Conflicting(m, runner[r].batch[m])
                            /\ runner[r].batch[m].modified <= runner[r].acquired + Skew
  /\ ToSeal(r) \subseteq Events
  /\ current' = After(r)
  /\ dirty' = (dirty \cup Marked(r)) \ Closed(r)
  /\ IF ToSeal(r) = {} THEN UNCHANGED sourceVars ELSE SealEvents(ToSeal(r))
  /\ members' = [e \in Events |->
                   IF e \in ToSeal(r) THEN Contents(Interval(e), After(r)) ELSE members[e]]
  /\ fetched' = Later(fetched, runner[r].end)
  /\ nextPoll' = t + PollTime
  /\ failures' = 0
  /\ lease' = Nothing
  /\ runner' = [runner EXCEPT ![r] = Nothing]
  /\ UNCHANGED <<clock, source>>

(* Conflicting evidence rolls the whole transaction back; the runner       *)
(* records the failure in another one, after reading the clock again.      *)
Conflict(r, t) ==
  /\ At(r, "fetched")
  /\ Guard(r, t)
  /\ \E m \in Arrived(r) : Conflicting(m, runner[r].batch[m])
  /\ runner' = [runner EXCEPT ![r] = [@ EXCEPT !.pc = "failing", !.read = t, !.batch = Empty]]
  /\ UNCHANGED <<sourceVars, watchVars, clock, source, lease>>

(* validate_batch, before the transaction and the guard: a publication     *)
(* later than the admission of the request allows. *)
RejectBatch(r, t) ==
  /\ At(r, "fetched")
  /\ \E m \in Arrived(r) : runner[r].batch[m].modified > runner[r].acquired + Skew
  /\ runner' = [runner EXCEPT ![r] = [@ EXCEPT !.pc = "failing", !.read = t, !.batch = Empty]]
  /\ UNCHANGED <<sourceVars, watchVars, clock, source, lease>>

(***************************************************************************)
(* Failure, loss and crash                                                 *)
(***************************************************************************)
(* 2 ** 0 to 2 ** 12 *)
Doublings == <<1, 2, 4, 8, 16, 32, 64, 128, 256, 512, 1024, 2048, 4096>>

Backoff(n, retryAfter) ==
  Sooner(MaxBackoff, Later(PollTime * Doublings[Sooner(n, 13)], retryAfter))

FailPoll(r, t, retryAfter) ==
  /\ At(r, "failing")
  /\ Guard(r, t)
  /\ failures' = Sooner(failures + 1, 1000000)
  /\ nextPoll' = t + Backoff(failures', retryAfter)
  /\ lease' = Nothing
  /\ runner' = [runner EXCEPT ![r] = Nothing]
  /\ UNCHANGED <<sourceVars, fetched, current, dirty, members, clock, source>>

(* LeaseLost: nothing is written, and the runner stops. *)
LoseLease(r, t) ==
  /\ At(r, "fetched") \/ At(r, "failing")
  /\ At(r, "fetched") =>
       \A m \in Arrived(r) : runner[r].batch[m].modified <= runner[r].acquired + Skew
  /\ ~Guard(r, t)
  /\ runner' = [runner EXCEPT ![r] = Nothing]
  /\ UNCHANGED <<sourceVars, watchVars, clock, source, lease>>

(* The process ends, or an exception tick does not handle ends it. *)
Crash(r) ==
  /\ runner[r] # Nothing
  /\ runner' = [runner EXCEPT ![r] = Nothing]
  /\ UNCHANGED <<sourceVars, watchVars, clock, source, lease>>

(***************************************************************************)
(* The source: an external service                                         *)
(***************************************************************************)
(* A reading appears, is corrected, or is published again unchanged. *)
Publish(m, v) ==
  /\ m <= clock
  /\ source[m] # Nothing => source[m].modified < clock
  /\ source' = [source EXCEPT ![m] = [value |-> v, modified |-> clock]]
  /\ UNCHANGED <<sourceVars, watchVars, clock, lease, runner>>

(* A reading changes although its publication time t does not advance. *)
Rewrite(m, v, t) ==
  /\ m \in Erratic
  /\ source[m] # Nothing /\ source[m].value # v /\ t <= source[m].modified
  /\ source' = [source EXCEPT ![m] = [value |-> v, modified |-> t]]
  /\ UNCHANGED <<sourceVars, watchVars, clock, lease, runner>>

Tick ==
  /\ clock < MaxTime
  /\ clock' = clock + 1
  /\ UNCHANGED <<sourceVars, watchVars, source, lease, runner>>

(* A runner's readings of the clock never go back. *)
Next ==
  \/ \E r \in Runners :
       \/ \E t \in StartAt .. clock : AcquirePoll(r, t)
       \/ Fetch(r) \/ FetchFails(r) \/ Crash(r)
       \/ /\ runner[r] # Nothing
          /\ \E t \in runner[r].read .. clock :
               \/ CommitPoll(r, t) \/ Conflict(r, t) \/ RejectBatch(r, t) \/ LoseLease(r, t)
               \/ \E retryAfter \in RetryAfters : FailPoll(r, t, retryAfter)
  \/ \E m \in Moments, v \in Values : Publish(m, v) \/ \E t \in m .. clock : Rewrite(m, v, t)
  \/ Tick

Spec == Init /\ [][Next]_vars

(***************************************************************************)
(* Properties                                                              *)
(***************************************************************************)
(* What the source had published for a moment up to Overlap after it, and  *)
(* has not changed since, is what is stored once the scan is more than     *)
(* Overlap past the moment: window boundaries, outages, expired leases and *)
(* late results of other processes leave no gap in what was scanned.       *)
OverlapSuffices ==
  \A m \in Moments \ Erratic :
    /\ source[m] # Nothing
    /\ source[m].modified <= m + Overlap
    /\ fetched - Overlap > m
    => current[m] # Nothing /\ current[m].value = source[m].value

(* A reading whose every change is published later than the last never     *)
(* meets "no newer publication authority": a worker whose lease was taken  *)
(* over cannot bring older evidence after newer, however long it fetched.  *)
OnlyErraticConflicts ==
  [][\A r \in Runners, t \in Times :
       Conflict(r, t) => \E m \in Arrived(r) \cap Erratic : Conflicting(m, runner[r].batch[m])]_vars

(* The last event of every interval the scan has passed names exactly the  *)
(* versions that are current, and an interval without event has none:      *)
(* corrections made while it was open, or long after it closed, all reach  *)
(* the case with the commit that stores them, and what an open interval    *)
(* collected is sealed by the first commit whose window reaches its end.   *)
SealedIsCurrent ==
  \A i \in Intervals :
    EndOf(i) <= fetched =>
      IF Revisions(i) = {} THEN Contents(i, current) = {}
      ELSE \E e \in Revisions(i) : Latest(e) /\ members[e] = Contents(i, current)

(* "An older or ambiguous publication conflicts with current evidence:     *)
(* rejects the complete poll" (docs/CONTINUOUS_WATCH.md): readings and     *)
(* scan change only by the commit of a whole fetched window, of which      *)
(* every value is new, known already, or of newer publication.             *)
WholeOrNothing ==
  [][current' # current \/ fetched' # fetched =>
       \E r \in Runners :
         /\ At(r, "fetched") /\ runner'[r] = Nothing
         /\ fetched' >= runner[r].end
         /\ \A m \in Arrived(r) :
              /\ current'[m].value = runner[r].batch[m].value
              /\ current[m] # Nothing /\ ~Same(m, runner[r].batch[m]) =>
                   runner[r].batch[m].modified > current[m].seen]_vars
============================================================================
