---------------------------- MODULE WatchProofs ----------------------------
(***************************************************************************)
(* Proofs about continuous watch, for any number of processes, moments and *)
(* configurations: its types, that nothing published within the overlap is *)
(* missed, and that the lease keeps older evidence from following newer.   *)
(***************************************************************************)
EXTENDS Watch, SourceProofs

----------------------------------------------------------------------------
(* Types *)

LEMMA NumberTypes ==
  /\ StartAt \in Nat /\ MaxTime \in Nat /\ StartAt <= MaxTime
  /\ PollTime \in Nat \ {0} /\ LeaseTime \in Nat \ {0}
  /\ Overlap \in Nat \ {0} /\ Window \in Nat /\ Overlap < Window
  /\ MaxBackoff \in Nat /\ RetryAfters \subseteq Nat
  /\ Moments \subseteq Times /\ Times \subseteq Nat
BY WatchAssumption DEF Times

LEMMA TimeNumbers == \A t \in Times : t \in Nat /\ StartAt <= t /\ t <= MaxTime
BY WatchAssumption DEF Times

LEMMA TimesAreInts == \A t \in Times : t \in Int
BY TimeNumbers

(* The window a process may lease at t lies in the past, and reaches what  *)
(* was scanned before.                                                     *)
LEMMA WindowFacts ==
  ASSUME TypeOK, NEW t \in Times, WindowEnd(t) > WindowStart
  PROVE  /\ WindowStart \in Times /\ WindowEnd(t) \in Times
         /\ WindowStart >= StartAt /\ WindowEnd(t) <= t
         /\ WindowStart <= Later(StartAt, fetched - Overlap)
         /\ fetched <= t => fetched <= WindowEnd(t)
<1>1. fetched \in Int /\ StartAt <= fetched /\ fetched <= MaxTime
  BY NumberTypes DEF TypeOK, Times
<1>2. t \in Int /\ StartAt <= t /\ t <= MaxTime
  BY NumberTypes DEF Times
<1>3. QED
  BY <1>1, <1>2, NumberTypes DEF WindowStart, WindowEnd, Later, Sooner, Times

(* A delay after a failure is one. *)
LEMMA BackoffType ==
  ASSUME NEW n \in Nat \ {0}, NEW ra \in RetryAfters
  PROVE  Backoff(n, ra) \in Nat
<1>1. Sooner(n, 13) \in 1 .. 13
  BY DEF Sooner
<1>2. \A k \in 1 .. 13 : Doublings[k] \in Nat
  BY DEF Doublings
<1> DEFINE d == Doublings[Sooner(n, 13)]
<1>3. d \in Nat
  BY <1>1, <1>2
<1> HIDE DEF d
<1>4. PollTime * d \in Nat
  BY <1>3, NumberTypes
<1>5. Later(PollTime * d, ra) \in Nat
  BY <1>4, NumberTypes DEF Later
<1>6. Sooner(MaxBackoff, Later(PollTime * d, ra)) \in Nat
  BY <1>5, NumberTypes DEF Sooner
<1>7. QED
  BY <1>6 DEF Backoff, d

(* What a process holds while it works. *)
LEMMA WorkingFacts ==
  ASSUME TypeOK, NEW r \in Runners, runner[r] # Nothing
  PROVE  /\ runner[r] \in Working
         /\ runner[r].start \in Times /\ runner[r].end \in Times
         /\ runner[r].acquired \in Times /\ runner[r].read \in Times
         /\ runner[r].batch \in [Moments -> Readings \cup {Nothing}]
BY DEF TypeOK, Working

LEMMA ReadTimes ==
  ASSUME TypeOK, NEW r \in Runners, runner[r] # Nothing, NEW t \in runner[r].read .. clock
  PROVE  t \in Times /\ t >= runner[r].read
<1>1. runner[r].read \in Times /\ clock \in Times
  BY WorkingFacts DEF TypeOK
<1>2. QED
  BY <1>1, NumberTypes DEF Times

(* A reading that arrived, and what is stored of it. *)
LEMMA ArrivedReading ==
  ASSUME TypeOK, NEW r \in Runners, runner[r] # Nothing, NEW m \in Arrived(r)
  PROVE  m \in Moments /\ runner[r].batch[m] \in Readings
BY WorkingFacts DEF Arrived

LEMMA IngestedType ==
  ASSUME TypeOK, NEW m \in Moments, NEW reading \in Readings
  PROVE  Ingested(m, reading) \in Stored
<1>1. reading.value \in Values /\ reading.modified \in Times
  BY DEF Readings
<1>2. CASE Same(m, reading)
  <2>1. current[m] \in Stored
    BY <1>2 DEF TypeOK, Same
  <2>2. Later(current[m].seen, reading.modified) \in Times
    BY <1>1, <2>1 DEF Later, Stored
  <2>3. QED
    BY <1>2, <2>1, <2>2 DEF Ingested, Stored
<1>3. CASE ~Same(m, reading)
  <2>1. current[m] # Nothing => current[m].version + 1 \in Nat \ {0}
    BY DEF TypeOK, Stored
  <2>2. QED
    BY <1>1, <1>3, <2>1 DEF Ingested, Stored
<1>4. QED
  BY <1>2, <1>3

LEMMA AfterType ==
  ASSUME TypeOK, NEW r \in Runners, runner[r] # Nothing
  PROVE  After(r) \in [Moments -> Stored \cup {Nothing}]
<1>1. ASSUME NEW m \in Moments
      PROVE  After(r)[m] \in Stored \cup {Nothing}
  <2>1. CASE m \in Arrived(r)
    BY <1>1, <2>1, ArrivedReading, IngestedType DEF After
  <2>2. CASE m \notin Arrived(r)
    BY <1>1, <2>2 DEF After, TypeOK
  <2>3. QED
    BY <2>1, <2>2
<1>2. QED
  BY <1>1 DEF After

LEMMA ContentsType ==
  ASSUME NEW stock \in [Moments -> Stored \cup {Nothing}], NEW i
  PROVE  Contents(i, stock) \in SUBSET (Moments \X (Nat \ {0}))
BY DEF Contents, Stored

LEMMA InitType == Init => TypeOK
<1>1. SourceInit => SourceTypeOK
  BY DEF SourceInit, SourceTypeOK
<1>2. StartAt \in Times
  BY NumberTypes DEF Times
<1>3. QED
  BY <1>1, <1>2, NumberTypes DEF Init, TypeOK, Empty

LEMMA AcquireType ==
  ASSUME TypeOK, NEW r \in Runners, NEW t \in StartAt .. clock, AcquirePoll(r, t)
  PROVE  TypeOK'
<1>1. t \in Times
  BY NumberTypes DEF TypeOK, Times
<1>2. WindowStart \in Times /\ WindowEnd(t) \in Times
  BY <1>1, WindowFacts DEF AcquirePoll
<1>3. Empty \in [Moments -> Readings \cup {Nothing}]
  BY DEF Empty
<1>4. t + LeaseTime \in Nat
  BY <1>1, NumberTypes
<1>5. lease' \in [holder : Runners, acquired : Times, expires : Nat]
  BY <1>1, <1>4 DEF AcquirePoll
<1>6. runner' \in [Runners -> Working \cup {Nothing}]
  BY <1>1, <1>2, <1>3 DEF AcquirePoll, TypeOK, Working
<1>7. QED
  BY <1>5, <1>6 DEF AcquirePoll, TypeOK, SourceTypeOK, sourceVars, watchVars

(* The actions that only change what one process is doing. *)
LEMMA RunnerOnlyType ==
  ASSUME TypeOK, runner' \in [Runners -> Working \cup {Nothing}],
         UNCHANGED <<sourceVars, watchVars, clock, source, lease>>
  PROVE  TypeOK'
BY DEF TypeOK, SourceTypeOK, sourceVars, watchVars

LEMMA FetchType ==
  ASSUME TypeOK, NEW r \in Runners, Fetch(r)
  PROVE  TypeOK'
<1>1. runner[r] # Nothing
  BY DEF Fetch, At
<1> DEFINE b == [m \in Moments |->
                   IF m \in runner[r].start .. runner[r].end THEN source[m] ELSE Nothing]
           w == [runner[r] EXCEPT !.pc = "fetched", !.read = clock, !.batch = b]
<1>2. b \in [Moments -> Readings \cup {Nothing}]
  BY DEF TypeOK
<1>3. runner' = [runner EXCEPT ![r] = w]
  BY DEF Fetch, TypeOK
<1> HIDE DEF b
<1>4. w \in Working
  BY <1>1, <1>2 DEF TypeOK, Working
<1> HIDE DEF w
<1>5. runner' \in [Runners -> Working \cup {Nothing}]
  BY <1>3, <1>4 DEF TypeOK
<1>6. QED
  BY <1>5, RunnerOnlyType DEF Fetch

LEMMA FailingType ==
  ASSUME TypeOK, NEW r \in Runners, runner[r] # Nothing, NEW t \in Times, NEW b,
         b \in [Moments -> Readings \cup {Nothing}],
         runner' = [runner EXCEPT ![r] =
                     [@ EXCEPT !.pc = "failing", !.read = t, !.batch = b]],
         UNCHANGED <<sourceVars, watchVars, clock, source, lease>>
  PROVE  TypeOK'
<1> DEFINE w == [runner[r] EXCEPT !.pc = "failing", !.read = t, !.batch = b]
<1>1. w \in Working
  BY DEF TypeOK, Working
<1>2. runner' = [runner EXCEPT ![r] = w]
  BY DEF TypeOK
<1> HIDE DEF w
<1>3. runner' \in [Runners -> Working \cup {Nothing}]
  BY <1>1, <1>2 DEF TypeOK
<1>4. QED
  BY <1>3, RunnerOnlyType

LEMMA FetchFailsType ==
  ASSUME TypeOK, NEW r \in Runners, FetchFails(r)
  PROVE  TypeOK'
<1> DEFINE w == [runner[r] EXCEPT !.pc = "failing", !.read = clock]
<1>1. w \in Working
  BY DEF TypeOK, Working, FetchFails, At
<1>2. runner' = [runner EXCEPT ![r] = w]
  BY DEF TypeOK, FetchFails
<1> HIDE DEF w
<1>3. runner' \in [Runners -> Working \cup {Nothing}]
  BY <1>1, <1>2 DEF TypeOK
<1>4. QED
  BY <1>3, RunnerOnlyType DEF FetchFails

LEMMA RefusedType ==
  ASSUME TypeOK, NEW r \in Runners, runner[r] # Nothing, NEW t \in runner[r].read .. clock,
         Conflict(r, t) \/ RejectBatch(r, t)
  PROVE  TypeOK'
<1>1. t \in Times
  BY ReadTimes
<1>2. Empty \in [Moments -> Readings \cup {Nothing}]
  BY DEF Empty
<1>3. QED
  BY <1>1, <1>2, FailingType DEF Conflict, RejectBatch

LEMMA LeaveType ==
  ASSUME TypeOK, NEW r \in Runners, runner' = [runner EXCEPT ![r] = Nothing],
         UNCHANGED <<sourceVars, watchVars, clock, source, lease>>
  PROVE  TypeOK'
<1>1. runner' \in [Runners -> Working \cup {Nothing}]
  BY DEF TypeOK
<1>2. QED
  BY <1>1, RunnerOnlyType

LEMMA CommitType ==
  ASSUME TypeOK, NEW r \in Runners, runner[r] # Nothing, NEW t \in runner[r].read .. clock,
         CommitPoll(r, t)
  PROVE  TypeOK'
<1>1. After(r) \in [Moments -> Stored \cup {Nothing}]
  BY AfterType
<1>2. dirty' \subseteq Intervals
  <2>1. Marked(r) \subseteq Intervals
    BY WatchAssumption DEF Marked, Arrived, IntervalOf
  <2>2. QED
    BY <2>1 DEF CommitPoll, TypeOK
<1>3. SourceTypeOK'
  <2>1. CASE ToSeal(r) = {}
    BY <2>1 DEF CommitPoll, TypeOK, SourceTypeOK, sourceVars
  <2>2. CASE ToSeal(r) # {}
    <3>1. SealEvents(ToSeal(r))
      BY <2>2 DEF CommitPoll
    <3>2. ToSeal(r) \in SUBSET Sealable
      BY <3>1 DEF SealEvents
    <3>3. QED
      BY <3>1, <3>2, SealType DEF TypeOK
  <2>3. QED
    BY <2>1, <2>2
<1>4. members' \in [Events -> SUBSET (Moments \X (Nat \ {0}))]
  BY <1>1, ContentsType DEF CommitPoll, TypeOK
<1>5. fetched' \in Times
  BY WorkingFacts DEF CommitPoll, Later, TypeOK
<1>6. nextPoll' \in Nat
  <2>1. t \in Nat
    BY ReadTimes, NumberTypes
  <2>2. QED
    BY <2>1, NumberTypes DEF CommitPoll
<1>7. runner' \in [Runners -> Working \cup {Nothing}]
  BY DEF CommitPoll, TypeOK
<1>8. QED
  BY <1>1, <1>2, <1>3, <1>4, <1>5, <1>6, <1>7 DEF CommitPoll, TypeOK

LEMMA FailType ==
  ASSUME TypeOK, NEW r \in Runners, runner[r] # Nothing, NEW t \in runner[r].read .. clock,
         NEW ra \in RetryAfters, FailPoll(r, t, ra)
  PROVE  TypeOK' /\ nextPoll' >= t
<1>1. failures' \in Nat \ {0}
  BY DEF FailPoll, TypeOK, Sooner
<1>2. Backoff(failures', ra) \in Nat
  BY <1>1, BackoffType
<1>3. t \in Nat
  BY ReadTimes, NumberTypes
<1>4. nextPoll' \in Nat /\ nextPoll' >= t
  BY <1>2, <1>3 DEF FailPoll
<1>5. runner' \in [Runners -> Working \cup {Nothing}]
  BY DEF FailPoll, TypeOK
<1>6. QED
  BY <1>1, <1>4, <1>5 DEF FailPoll, TypeOK, SourceTypeOK, sourceVars

(* Every step keeps the types. *)
LEMMA NextType ==
  ASSUME TypeOK, [Next]_vars
  PROVE  TypeOK'
<1>1. ASSUME NEW r \in Runners, NEW t \in StartAt .. clock, AcquirePoll(r, t)
      PROVE  TypeOK'
  BY <1>1, AcquireType
<1>2. ASSUME NEW r \in Runners, Fetch(r) \/ FetchFails(r) \/ Crash(r)
      PROVE  TypeOK'
  BY <1>2, FetchType, FetchFailsType, LeaveType DEF Crash
<1>3. ASSUME NEW r \in Runners, runner[r] # Nothing, NEW t \in runner[r].read .. clock,
             \/ CommitPoll(r, t) \/ Conflict(r, t) \/ RejectBatch(r, t) \/ LoseLease(r, t)
             \/ \E ra \in RetryAfters : FailPoll(r, t, ra)
      PROVE  TypeOK'
  BY <1>3, CommitType, RefusedType, LeaveType, FailType DEF LoseLease
<1>4. ASSUME NEW m \in Moments, NEW v \in Values,
             Publish(m, v) \/ \E t \in m .. clock : Rewrite(m, v, t)
      PROVE  TypeOK'
  <2>1. PICK t \in Times : source' = [source EXCEPT ![m] = [value |-> v, modified |-> t]]
    <3>1. clock \in Times /\ m .. clock \subseteq Times
      BY NumberTypes DEF TypeOK, Times
    <3>2. QED
      BY <1>4, <3>1 DEF Publish, Rewrite
  <2>2. source' \in [Moments -> Readings \cup {Nothing}]
    BY <2>1 DEF TypeOK, Readings
  <2>3. UNCHANGED <<sourceVars, watchVars, clock, lease, runner>>
    BY <1>4 DEF Publish, Rewrite
  <2>4. QED
    BY <2>2, <2>3 DEF TypeOK, SourceTypeOK, sourceVars, watchVars
<1>5. CASE Tick
  <2>1. clock' \in Times
    BY <1>5, NumberTypes DEF Tick, TypeOK, Times
  <2>2. QED
    BY <1>5, <2>1 DEF Tick, TypeOK, SourceTypeOK, sourceVars, watchVars
<1>6. CASE UNCHANGED vars
  BY <1>6 DEF vars, TypeOK, SourceTypeOK, sourceVars, watchVars
<1>7. QED
  BY <1>1, <1>2, <1>3, <1>4, <1>5, <1>6 DEF Next

(* The database and every process stay well formed. *)
THEOREM WatchTypes == Spec => []TypeOK
<1>1. Init => TypeOK
  BY InitType
<1>2. TypeOK /\ [Next]_vars => TypeOK'
  BY NextType
<1>3. QED
  BY <1>1, <1>2, PTL DEF Spec

----------------------------------------------------------------------------
(* The scan and the source: an inductive invariant *)

(* A reading is at least as new as another one of the same moment. *)
AtLeast(newer, modified, value) ==
  /\ modified <= newer.modified
  /\ modified = newer.modified => value = newer.value

Honest == Moments \ Erratic

Holds(r) == runner[r] # Nothing /\ lease # Nothing /\ lease.holder = r

(* A window ends before it was leased, and that is past. *)
TimesOK(r) ==
  runner[r] # Nothing =>
    /\ runner[r].end <= runner[r].acquired
    /\ runner[r].acquired <= runner[r].read
    /\ runner[r].read <= clock

(* The window of the process that holds the lease overlaps and reaches     *)
(* what is scanned now, not only when it was taken.                        *)
ScopeOK(r) ==
  Holds(r) =>
    /\ fetched <= runner[r].end
    /\ runner[r].start <= Later(StartAt, fetched - Overlap)

(* What a process fetched lies in its window, holds everything published   *)
(* before its lease that has not changed since, and is not ahead of the    *)
(* source.                                                                 *)
BatchOK(r) ==
  At(r, "fetched") =>
    /\ \A m \in Arrived(r) : m \in runner[r].start .. runner[r].end
    /\ \A m \in Honest :
         /\ source[m] # Nothing
         /\ source[m].modified < runner[r].acquired
         /\ m \in runner[r].start .. runner[r].end
         => runner[r].batch[m] = source[m]
    /\ \A m \in Arrived(r) \ Erratic :
         source[m] # Nothing
         /\ AtLeast(source[m], runner[r].batch[m].modified, runner[r].batch[m].value)

(* What the holder of the lease fetched is not behind what is stored. *)
NewerOK(r) ==
  At(r, "fetched") /\ Holds(r) =>
    \A m \in Arrived(r) \ Erratic :
      current[m] # Nothing => AtLeast(runner[r].batch[m], current[m].seen, current[m].value)

RunnerOK(r) == TimesOK(r) /\ ScopeOK(r) /\ BatchOK(r) /\ NewerOK(r)

(* What is stored is not ahead of the source. *)
StoredOK ==
  \A m \in Honest :
    current[m] # Nothing =>
      source[m] # Nothing /\ AtLeast(source[m], current[m].seen, current[m].value)

WatchInv ==
  /\ TypeOK
  /\ fetched <= clock /\ fetched <= nextPoll
  /\ \A r \in Runners : RunnerOK(r)
  /\ StoredOK
  /\ OverlapSuffices

LEMMA InitWatch == Init => WatchInv
<1> SUFFICES ASSUME Init PROVE WatchInv
  OBVIOUS
<1>1. TypeOK
  BY InitType
<1>2. StartAt <= StartAt
  BY NumberTypes
<1>3. \A r \in Runners : RunnerOK(r)
  BY DEF Init, RunnerOK, TimesOK, ScopeOK, BatchOK, NewerOK, Holds, At
<1>4. StoredOK /\ OverlapSuffices
  BY DEF Init, StoredOK, OverlapSuffices, Honest, Empty
<1>5. QED
  BY <1>1, <1>2, <1>3, <1>4 DEF WatchInv, Init

(* A process that does nothing keeps its part of the invariant when others *)
(* do, unless it holds the lease and the scan moves.                       *)
LEMMA OthersKeep ==
  ASSUME WatchInv, NEW q \in Runners, runner'[q] = runner[q],
         UNCHANGED source, clock' = clock,
         Holds(q)' => Holds(q) /\ UNCHANGED <<fetched, current>>
  PROVE  RunnerOK(q)'
<1>1. RunnerOK(q)
  BY DEF WatchInv
<1>2. TimesOK(q)'
  BY <1>1 DEF RunnerOK, TimesOK
<1>3. ScopeOK(q)'
  BY <1>1 DEF RunnerOK, ScopeOK, Holds
<1>4. BatchOK(q)'
  BY <1>1 DEF RunnerOK, BatchOK, At, Arrived
<1>5. NewerOK(q)'
  BY <1>1 DEF RunnerOK, NewerOK, At, Arrived, Holds
<1>6. QED
  BY <1>2, <1>3, <1>4, <1>5 DEF RunnerOK

(* The rest of the invariant depends on the scan, what is stored and the   *)
(* source.                                                                 *)
LEMMA ScanKept ==
  ASSUME WatchInv, UNCHANGED <<fetched, nextPoll, current, source, clock>>
  PROVE  /\ fetched' <= clock' /\ fetched' <= nextPoll'
         /\ StoredOK' /\ OverlapSuffices'
BY DEF WatchInv, StoredOK, OverlapSuffices

LEMMA AcquireWatch ==
  ASSUME WatchInv, NEW r \in Runners, NEW t \in StartAt .. clock, AcquirePoll(r, t)
  PROVE  WatchInv'
<1>0. TypeOK
  BY DEF WatchInv
<1>1. TypeOK'
  BY <1>0, AcquireType
<1>2. t \in Times /\ t <= clock
  BY <1>0, NumberTypes DEF TypeOK, Times
<1>3. /\ WindowStart \in Times /\ WindowEnd(t) \in Times /\ WindowEnd(t) <= t
      /\ WindowStart <= Later(StartAt, fetched - Overlap)
      /\ fetched <= t => fetched <= WindowEnd(t)
  BY <1>0, <1>2, WindowFacts DEF AcquirePoll
<1>4. fetched <= t
  <2>1. fetched \in Int /\ nextPoll \in Int /\ t \in Int
    BY <1>0, <1>2, NumberTypes DEF TypeOK
  <2>2. QED
    BY <2>1 DEF WatchInv, AcquirePoll
<1>5. /\ runner'[r].pc = "fetching"
      /\ runner'[r].start = WindowStart /\ runner'[r].end = WindowEnd(t)
      /\ runner'[r].acquired = t /\ runner'[r].read = t
  BY <1>0 DEF AcquirePoll, TypeOK
<1>6. UNCHANGED <<fetched, nextPoll, current, source, clock>>
  BY DEF AcquirePoll, watchVars
<1>7. ASSUME NEW q \in Runners
      PROVE  RunnerOK(q)'
  <2>1. CASE q = r
    <3>1. TimesOK(r)'
      BY <1>2, <1>3, <1>5, <1>6, NumberTypes DEF TimesOK
    <3>2. ScopeOK(r)'
      BY <1>3, <1>4, <1>5, <1>6 DEF ScopeOK
    <3>3. ~At(r, "fetched")'
      BY <1>5 DEF At
    <3>4. QED
      BY <2>1, <3>1, <3>2, <3>3 DEF RunnerOK, BatchOK, NewerOK
  <2>2. CASE q # r
    <3>1. runner'[q] = runner[q]
      BY <2>2, <1>0 DEF AcquirePoll, TypeOK
    <3>2. ~Holds(q)'
      BY <2>2 DEF AcquirePoll, Holds
    <3>3. QED
      BY <3>1, <3>2, <1>6, OthersKeep
  <2>3. QED
    BY <2>1, <2>2
<1>8. QED
  BY <1>1, <1>6, <1>7, ScanKept DEF WatchInv

(* A process that gives up. *)
LEMMA LeaveWatch ==
  ASSUME WatchInv, NEW r \in Runners, runner' = [runner EXCEPT ![r] = Nothing],
         UNCHANGED <<sourceVars, watchVars, clock, source, lease>>
  PROVE  WatchInv'
<1>1. TypeOK /\ TypeOK'
  BY LeaveType DEF WatchInv
<1>2. UNCHANGED <<fetched, nextPoll, current, source, clock>>
  BY DEF watchVars
<1>3. ASSUME NEW q \in Runners
      PROVE  RunnerOK(q)'
  <2>1. CASE q = r
    <3>1. runner'[r] = Nothing
      BY <1>1 DEF TypeOK
    <3>2. QED
      BY <2>1, <3>1 DEF RunnerOK, TimesOK, ScopeOK, BatchOK, NewerOK, Holds, At
  <2>2. CASE q # r
    <3>1. runner'[q] = runner[q]
      BY <2>2, <1>1 DEF TypeOK
    <3>2. QED
      BY <3>1, <1>2, OthersKeep DEF Holds
  <2>3. QED
    BY <2>1, <2>2
<1>4. QED
  BY <1>1, <1>2, <1>3, ScanKept DEF WatchInv

(* A process whose fetch or commit failed keeps its lease and scope. *)
LEMMA FailingWatch ==
  ASSUME WatchInv, TypeOK', NEW r \in Runners, runner[r] # Nothing,
         runner'[r] \in Working, runner'[r].pc = "failing",
         runner'[r].start = runner[r].start, runner'[r].end = runner[r].end,
         runner'[r].acquired = runner[r].acquired,
         runner[r].read <= runner'[r].read, runner'[r].read <= clock,
         \A q \in Runners \ {r} : runner'[q] = runner[q],
         UNCHANGED <<sourceVars, watchVars, clock, source, lease>>
  PROVE  WatchInv'
<1>1. UNCHANGED <<fetched, nextPoll, current, source, clock>>
  BY DEF watchVars
<1>2. ASSUME NEW q \in Runners
      PROVE  RunnerOK(q)'
  <2>1. CASE q = r
    <3>1. RunnerOK(r)
      BY DEF WatchInv
    <3>2. TimesOK(r)'
      <4>1. /\ runner[r].read \in Int /\ runner[r].acquired \in Int /\ runner'[r].read \in Int
        <5>1. runner[r] \in Working /\ runner'[r] \in Working
          BY DEF WatchInv, TypeOK
        <5>2. /\ runner[r].read \in Times /\ runner[r].acquired \in Times
              /\ runner'[r].read \in Times
          BY <5>1 DEF Working
        <5>3. QED
          BY <5>2, TimeNumbers
      <4>2. QED
        BY <1>1, <3>1, <4>1 DEF RunnerOK, TimesOK
    <3>3. ScopeOK(r)'
      BY <1>1, <3>1 DEF RunnerOK, ScopeOK, Holds
    <3>4. ~At(r, "fetched")'
      BY DEF At
    <3>5. QED
      BY <2>1, <3>2, <3>3, <3>4 DEF RunnerOK, BatchOK, NewerOK
  <2>2. CASE q # r
    BY <1>1, <2>2, OthersKeep DEF Holds
  <2>3. QED
    BY <2>1, <2>2
<1>3. QED
  BY <1>1, <1>2, ScanKept DEF WatchInv

(* A process that fetches its window. *)
LEMMA FetchWatch ==
  ASSUME WatchInv, NEW r \in Runners, Fetch(r)
  PROVE  WatchInv'
<1>1. TypeOK /\ TypeOK'
  BY FetchType DEF WatchInv
<1>2. UNCHANGED <<fetched, nextPoll, current, source, clock, lease>>
  BY DEF Fetch, watchVars
<1>3. runner[r] # Nothing /\ runner[r] \in Working
  BY <1>1 DEF Fetch, At, TypeOK
<1>4. /\ runner'[r].start = runner[r].start /\ runner'[r].end = runner[r].end
      /\ runner'[r].acquired = runner[r].acquired /\ runner'[r].read = clock
      /\ runner'[r].batch =
           [m \in Moments |->
              IF m \in runner[r].start .. runner[r].end THEN source[m] ELSE Nothing]
  BY <1>1, <1>3 DEF Fetch, TypeOK, Working
<1>5. RunnerOK(r)
  BY DEF WatchInv
<1>6. TimesOK(r)'
  <2>1. runner[r].read \in Times /\ runner[r].acquired \in Times /\ clock \in Times
    BY <1>1, <1>3, WorkingFacts DEF TypeOK
  <2>2. QED
    BY <1>2, <1>3, <1>4, <1>5, <2>1, TimeNumbers DEF RunnerOK, TimesOK
<1>7. ScopeOK(r)'
  BY <1>2, <1>3, <1>4, <1>5 DEF RunnerOK, ScopeOK, Holds
<1>8. BatchOK(r)'
  <2>1. \A m \in Arrived(r)' : /\ m \in Moments /\ m \in runner[r].start .. runner[r].end
                               /\ runner'[r].batch[m] = source[m] /\ source[m] # Nothing
    BY <1>4 DEF Arrived
  <2>2. \A m \in Honest : m \in runner[r].start .. runner[r].end
                            => runner'[r].batch[m] = source[m]
    BY <1>4 DEF Honest
  <2>3. \A m \in Moments : source[m] # Nothing =>
          AtLeast(source[m], source[m].modified, source[m].value)
    <3>1. \A m \in Moments : source[m] # Nothing => source[m].modified \in Times
      BY <1>1 DEF TypeOK, Readings
    <3>2. QED
      BY <3>1, TimeNumbers DEF AtLeast
  <2>4. QED
    BY <1>2, <1>4, <2>1, <2>2, <2>3 DEF BatchOK, AtLeast
<1>9. NewerOK(r)'
  <2>1. \A m \in Arrived(r)' \ Erratic : m \in Honest /\ runner'[r].batch[m] = source[m]
    BY <1>4 DEF Arrived, Honest
  <2>2. QED
    BY <1>2, <2>1 DEF WatchInv, StoredOK, NewerOK
<1>10. ASSUME NEW q \in Runners
       PROVE  RunnerOK(q)'
  <2>1. CASE q = r
    BY <2>1, <1>6, <1>7, <1>8, <1>9 DEF RunnerOK
  <2>2. CASE q # r
    <3>1. runner'[q] = runner[q]
      BY <2>2, <1>1 DEF Fetch, TypeOK
    <3>2. QED
      BY <3>1, <1>2, OthersKeep DEF Holds
  <2>3. QED
    BY <2>1, <2>2
<1>11. QED
  BY <1>1, <1>2, <1>10, ScanKept DEF WatchInv

(* Giving the lease back after a failure: nothing stored changes. *)
LEMMA FailWatch ==
  ASSUME WatchInv, NEW r \in Runners, runner[r] # Nothing, NEW t \in runner[r].read .. clock,
         NEW ra \in RetryAfters, FailPoll(r, t, ra)
  PROVE  WatchInv'
<1>1. TypeOK /\ TypeOK' /\ nextPoll' >= t
  BY FailType DEF WatchInv
<1>2. UNCHANGED <<fetched, current, source, clock>> /\ lease' = Nothing
  BY DEF FailPoll
<1>3. RunnerOK(r)
  BY DEF WatchInv
<1>4. fetched <= t
  <2>1. Holds(r)
    BY DEF FailPoll, Guard, Holds
  <2>2. /\ fetched \in Int /\ runner[r].end \in Int /\ runner[r].acquired \in Int
        /\ runner[r].read \in Int /\ t \in Int
    <3>1. /\ fetched \in Times /\ runner[r].end \in Times /\ runner[r].acquired \in Times
          /\ runner[r].read \in Times /\ t \in Times
      BY <1>1, WorkingFacts, ReadTimes DEF TypeOK
    <3>2. QED
      BY <3>1, TimeNumbers
  <2>3. t >= runner[r].read
    BY <1>1, ReadTimes
  <2>4. QED
    BY <1>3, <2>1, <2>2, <2>3 DEF RunnerOK, TimesOK, ScopeOK
<1>5. fetched' <= nextPoll'
  <2>1. fetched \in Int /\ t \in Int /\ nextPoll' \in Int
    BY <1>1, ReadTimes, NumberTypes DEF TypeOK
  <2>2. QED
    BY <1>1, <1>2, <1>4, <2>1
<1>6. ASSUME NEW q \in Runners
      PROVE  RunnerOK(q)'
  <2>1. CASE q = r
    <3>1. runner'[r] = Nothing
      BY <1>1 DEF FailPoll, TypeOK
    <3>2. QED
      BY <2>1, <3>1 DEF RunnerOK, TimesOK, ScopeOK, BatchOK, NewerOK, Holds, At
  <2>2. CASE q # r
    <3>1. runner'[q] = runner[q]
      BY <2>2, <1>1 DEF FailPoll, TypeOK
    <3>2. ~Holds(q)'
      BY <1>2 DEF Holds
    <3>3. QED
      BY <3>1, <3>2, <1>2, OthersKeep
  <2>3. QED
    BY <2>1, <2>2
<1>7. fetched' <= clock' /\ StoredOK' /\ OverlapSuffices'
  BY <1>2 DEF WatchInv, StoredOK, OverlapSuffices
<1>8. QED
  BY <1>1, <1>5, <1>6, <1>7 DEF WatchInv

(* What a commit stores of a reading that arrived, and of any other. *)
LEMMA AfterFacts ==
  ASSUME TypeOK, NEW r \in Runners, runner[r] # Nothing, NEW m \in Moments
  PROVE  /\ m \notin Arrived(r) => After(r)[m] = current[m]
         /\ m \in Arrived(r) =>
              /\ After(r)[m] # Nothing
              /\ After(r)[m].value = runner[r].batch[m].value
              /\ \/ After(r)[m].seen = runner[r].batch[m].modified
                 \/ /\ current[m] # Nothing
                    /\ current[m].value = runner[r].batch[m].value
                    /\ After(r)[m].seen = current[m].seen
<1>1. CASE m \in Arrived(r)
  <2>1. After(r)[m] = Ingested(m, runner[r].batch[m])
    BY <1>1 DEF After
  <2>2. Ingested(m, runner[r].batch[m]) \in Stored
    BY <1>1, ArrivedReading, IngestedType
  <2>3. CASE Same(m, runner[r].batch[m])
    <3>1. current[m] \in Stored
      BY <2>3 DEF TypeOK, Same
    <3>2. After(r)[m] =
            [current[m] EXCEPT !.seen = Later(current[m].seen, runner[r].batch[m].modified)]
      BY <2>1, <2>3 DEF Ingested
    <3>3. /\ After(r)[m].value = current[m].value
          /\ After(r)[m].seen = Later(current[m].seen, runner[r].batch[m].modified)
      BY <3>1, <3>2 DEF Stored
    <3>4. QED
      BY <1>1, <2>1, <2>2, <2>3, <3>3, NothingAssumption DEF Same, Later
  <2>4. CASE ~Same(m, runner[r].batch[m])
    BY <1>1, <2>1, <2>2, <2>4, NothingAssumption DEF Ingested
  <2>5. QED
    BY <2>3, <2>4
<1>2. CASE m \notin Arrived(r)
  BY <1>2 DEF After
<1>3. QED
  BY <1>1, <1>2

(* A commit ends the scan at the end of its window. *)
LEMMA CommitScan ==
  ASSUME WatchInv, NEW r \in Runners, runner[r] # Nothing, NEW t \in runner[r].read .. clock,
         CommitPoll(r, t)
  PROVE  /\ fetched' = runner[r].end
         /\ fetched' <= runner[r].acquired /\ fetched' <= clock /\ fetched' <= nextPoll'
         /\ runner[r].start <= Later(StartAt, fetched - Overlap)
<1>1. TypeOK /\ RunnerOK(r) /\ Holds(r)
  BY DEF WatchInv, CommitPoll, Guard, Holds
<1>2. /\ fetched \in Times /\ runner[r].end \in Times /\ runner[r].acquired \in Times
      /\ runner[r].read \in Times /\ t \in Times /\ clock \in Times /\ t >= runner[r].read
  BY <1>1, WorkingFacts, ReadTimes DEF TypeOK
<1>3. fetched <= runner[r].end /\ runner[r].start <= Later(StartAt, fetched - Overlap)
  BY <1>1 DEF RunnerOK, ScopeOK
<1>4. /\ runner[r].end <= runner[r].acquired /\ runner[r].acquired <= runner[r].read
      /\ runner[r].read <= clock
  BY <1>1 DEF RunnerOK, TimesOK
<1>5. /\ fetched \in Int /\ runner[r].end \in Int /\ runner[r].acquired \in Int
      /\ runner[r].read \in Int /\ t \in Int /\ clock \in Int /\ PollTime \in Nat
  BY <1>2, TimesAreInts, NumberTypes, Zenon
<1>6. fetched' = runner[r].end
  BY <1>3, <1>5 DEF CommitPoll, Later
<1>7. nextPoll' = t + PollTime
  BY DEF CommitPoll
<1>8. QED
  BY <1>2, <1>3, <1>4, <1>5, <1>6, <1>7

LEMMA CommitOverlap ==
  ASSUME WatchInv, NEW r \in Runners, runner[r] # Nothing, NEW t \in runner[r].read .. clock,
         CommitPoll(r, t)
  PROVE  OverlapSuffices'
<1>1. TypeOK /\ RunnerOK(r) /\ At(r, "fetched")
  BY DEF WatchInv, CommitPoll
<1>2. source' = source /\ current' = After(r)
  BY DEF CommitPoll
<1> SUFFICES ASSUME NEW m \in Moments \ Erratic,
                    source[m] # Nothing, source[m].modified <= m + Overlap, fetched' - Overlap > m
             PROVE  current'[m] # Nothing /\ current'[m].value = source[m].value
  BY <1>2 DEF OverlapSuffices
<1>3. /\ m \in Times /\ source[m].modified \in Times /\ fetched \in Times
      /\ runner[r].start \in Times /\ runner[r].end \in Times /\ runner[r].acquired \in Times
  BY <1>1, WorkingFacts, NumberTypes DEF TypeOK, Readings
<1> /\ m \in Int /\ source[m].modified \in Int /\ fetched \in Int
    /\ runner[r].start \in Int /\ runner[r].end \in Int /\ runner[r].acquired \in Int
  BY <1>3, TimesAreInts, Zenon
<1> StartAt \in Int /\ Overlap \in Int /\ Overlap > 0
  BY NumberTypes
<1> StartAt <= m
  BY <1>3, TimeNumbers, Zenon
<1> /\ fetched' = runner[r].end /\ fetched' <= runner[r].acquired
    /\ runner[r].start <= Later(StartAt, fetched - Overlap)
  BY CommitScan
<1>4. source[m].modified < runner[r].acquired /\ m < runner[r].end
  OBVIOUS
<1>5. CASE m \in runner[r].start .. runner[r].end
  <2>1. runner[r].batch[m] = source[m]
    BY <1>1, <1>4, <1>5 DEF RunnerOK, BatchOK, Honest
  <2>2. m \in Arrived(r)
    BY <2>1 DEF Arrived
  <2>3. QED
    BY <1>1, <1>2, <2>1, <2>2, AfterFacts
<1>6. CASE m \notin runner[r].start .. runner[r].end
  <2>1. m < runner[r].start
    BY <1>4, <1>6
  <2>2. fetched - Overlap > m
    BY <2>1 DEF Later
  <2>3. current[m] # Nothing /\ current[m].value = source[m].value
    BY <2>2 DEF WatchInv, OverlapSuffices
  <2>4. m \notin Arrived(r)
    BY <1>1, <1>6 DEF RunnerOK, BatchOK
  <2>5. QED
    BY <1>1, <1>2, <2>3, <2>4, AfterFacts
<1>7. QED
  BY <1>5, <1>6

LEMMA CommitStored ==
  ASSUME WatchInv, NEW r \in Runners, runner[r] # Nothing, NEW t \in runner[r].read .. clock,
         CommitPoll(r, t)
  PROVE  StoredOK'
<1>1. TypeOK /\ BatchOK(r) /\ At(r, "fetched")
  BY DEF WatchInv, CommitPoll, RunnerOK
<1>2. source' = source /\ current' = After(r)
  BY DEF CommitPoll
<1>3. ASSUME NEW m \in Honest, current'[m] # Nothing
      PROVE  source[m] # Nothing /\ AtLeast(source[m], current'[m].seen, current'[m].value)
  <2>1. CASE m \in Arrived(r)
    <3>1. /\ source[m] # Nothing
          /\ AtLeast(source[m], runner[r].batch[m].modified, runner[r].batch[m].value)
      BY <1>1, <2>1, <1>3 DEF BatchOK, Honest
    <3>2. current[m] # Nothing => AtLeast(source[m], current[m].seen, current[m].value)
      BY <1>3 DEF WatchInv, StoredOK
    <3>3. QED
      BY <1>1, <1>2, <1>3, <2>1, <3>1, <3>2, AfterFacts DEF Honest
  <2>2. CASE m \notin Arrived(r)
    <3>1. current'[m] = current[m]
      BY <1>1, <1>2, <2>2, AfterFacts DEF Honest
    <3>2. QED
      BY <1>3, <3>1 DEF WatchInv, StoredOK
  <2>3. QED
    BY <2>1, <2>2
<1>4. QED
  BY <1>2, <1>3 DEF StoredOK

LEMMA CommitWatch ==
  ASSUME WatchInv, NEW r \in Runners, runner[r] # Nothing, NEW t \in runner[r].read .. clock,
         CommitPoll(r, t)
  PROVE  WatchInv'
<1>1. TypeOK /\ TypeOK'
  BY CommitType DEF WatchInv
<1>2. UNCHANGED <<clock, source>> /\ lease' = Nothing
  BY DEF CommitPoll
<1>3. ASSUME NEW q \in Runners
      PROVE  RunnerOK(q)'
  <2>1. CASE q = r
    <3>1. runner'[r] = Nothing
      BY <1>1 DEF CommitPoll, TypeOK
    <3>2. QED
      BY <2>1, <3>1 DEF RunnerOK, TimesOK, ScopeOK, BatchOK, NewerOK, Holds, At
  <2>2. CASE q # r
    <3>1. runner'[q] = runner[q]
      BY <2>2, <1>1 DEF CommitPoll, TypeOK
    <3>2. ~Holds(q)'
      BY <1>2 DEF Holds
    <3>3. QED
      BY <3>1, <3>2, <1>2, OthersKeep
  <2>3. QED
    BY <2>1, <2>2
<1>4. QED
  BY <1>1, <1>2, <1>3, CommitScan, CommitStored, CommitOverlap DEF WatchInv

(* The source publishes: later than everything fetched or stored of it. *)
LEMMA PublishWatch ==
  ASSUME WatchInv, NEW m \in Moments, NEW v \in Values, Publish(m, v), TypeOK'
  PROVE  WatchInv'
<1>1. TypeOK /\ UNCHANGED <<fetched, nextPoll, current, clock, lease, runner>>
  BY DEF WatchInv, Publish, watchVars
<1>2. /\ \A n \in Moments \ {m} : source'[n] = source[n]
      /\ source'[m] # Nothing /\ source'[m].modified = clock
      /\ source'[m].value = v
  <2>1. source' = [source EXCEPT ![m] = [value |-> v, modified |-> clock]]
    BY DEF Publish
  <2>2. [value |-> v, modified |-> clock] \in Readings
    BY <1>1 DEF TypeOK, Readings
  <2>3. QED
    BY <1>1, <2>1, <2>2, NothingAssumption DEF TypeOK
<1>3. ASSUME source[m] # Nothing
      PROVE  source[m].modified < clock /\ source[m].modified \in Times
  BY <1>1, <1>3 DEF Publish, TypeOK, Readings
<1>4. ASSUME NEW modified \in Times, NEW value, source[m] # Nothing,
             AtLeast(source[m], modified, value)
      PROVE  AtLeast(source'[m], modified, value)
  <2>1. clock \in Times
    BY <1>1 DEF TypeOK
  <2>2. modified < clock
    BY <1>3, <1>4, <2>1, TimeNumbers DEF AtLeast
  <2>3. QED
    BY <1>2, <1>4, <2>1, <2>2, TimeNumbers DEF AtLeast
<1>5. StoredOK'
  <2>1. ASSUME NEW n \in Honest, current[n] # Nothing
        PROVE  source'[n] # Nothing /\ AtLeast(source'[n], current[n].seen, current[n].value)
    <3>1. source[n] # Nothing /\ AtLeast(source[n], current[n].seen, current[n].value)
      BY <2>1 DEF WatchInv, StoredOK
    <3>2. current[n].seen \in Times
      BY <1>1, <2>1 DEF TypeOK, Stored, Honest
    <3>3. QED
      BY <1>2, <1>4, <3>1, <3>2 DEF Honest
  <2>2. QED
    BY <1>1, <2>1 DEF StoredOK
<1>6. ASSUME NEW r \in Runners
      PROVE  RunnerOK(r)'
  <2>1. RunnerOK(r)
    BY DEF WatchInv
  <2>2. TimesOK(r)' /\ ScopeOK(r)' /\ NewerOK(r)'
    BY <1>1, <2>1 DEF RunnerOK, TimesOK, ScopeOK, NewerOK, Holds, At, Arrived
  <2>3. ASSUME At(r, "fetched")
        PROVE  BatchOK(r)'
    <3>1. runner[r] # Nothing
      BY <2>3 DEF At
    <3>2. \A n \in Arrived(r) : n \in runner[r].start .. runner[r].end
      BY <2>1, <2>3 DEF RunnerOK, BatchOK
    <3>3. ASSUME NEW n \in Honest, source'[n] # Nothing,
                 source'[n].modified < runner[r].acquired, n \in runner[r].start .. runner[r].end
          PROVE  runner[r].batch[n] = source'[n]
      <4>1. n # m
        <5>1. runner[r].acquired <= runner[r].read /\ runner[r].read <= clock
          BY <2>1, <3>1 DEF RunnerOK, TimesOK
        <5>2. runner[r].acquired \in Times /\ runner[r].read \in Times /\ clock \in Times
          BY <1>1, <3>1, WorkingFacts DEF TypeOK
        <5>3. QED
          BY <1>2, <3>3, <5>1, <5>2, TimeNumbers
      <4>2. source'[n] = source[n]
        BY <1>2, <4>1 DEF Honest
      <4>3. QED
        BY <2>1, <2>3, <3>3, <4>2 DEF RunnerOK, BatchOK
    <3>4. ASSUME NEW n \in Arrived(r) \ Erratic
          PROVE  /\ source'[n] # Nothing
                 /\ AtLeast(source'[n], runner[r].batch[n].modified, runner[r].batch[n].value)
      <4>1. /\ source[n] # Nothing
            /\ AtLeast(source[n], runner[r].batch[n].modified, runner[r].batch[n].value)
        BY <2>1, <2>3 DEF RunnerOK, BatchOK
      <4>2. n \in Moments /\ runner[r].batch[n].modified \in Times
        BY <1>1, <3>1, ArrivedReading DEF Readings
      <4>3. QED
        BY <1>2, <1>4, <4>1, <4>2
    <3>5. QED
      BY <1>1, <3>2, <3>3, <3>4 DEF BatchOK, Arrived
  <2>4. ~At(r, "fetched") => BatchOK(r)'
    BY <1>1 DEF BatchOK, At
  <2>5. QED
    BY <2>2, <2>3, <2>4 DEF RunnerOK
<1>7. OverlapSuffices'
  <2>1. ASSUME NEW n \in Moments \ Erratic, source'[n] # Nothing,
               source'[n].modified <= n + Overlap, fetched - Overlap > n
        PROVE  current[n] # Nothing /\ current[n].value = source'[n].value
    <3>1. n # m
      <4>1. clock \in Times /\ fetched \in Times /\ n \in Times /\ fetched <= clock
        BY <1>1, NumberTypes DEF TypeOK, WatchInv
      <4>2. QED
        BY <1>2, <2>1, <4>1, TimeNumbers, NumberTypes
    <3>2. QED
      BY <1>2, <2>1, <3>1 DEF WatchInv, OverlapSuffices
  <2>2. QED
    BY <1>1, <2>1 DEF OverlapSuffices
<1>8. QED
  BY <1>1, <1>5, <1>6, <1>7 DEF WatchInv

(* A reading that may change at will is outside every part. *)
LEMMA RewriteWatch ==
  ASSUME WatchInv, NEW m \in Moments, NEW v \in Values, NEW t, Rewrite(m, v, t), TypeOK'
  PROVE  WatchInv'
<1>1. UNCHANGED <<fetched, nextPoll, current, clock, lease, runner>> /\ m \in Erratic
  BY DEF Rewrite, watchVars
<1>2. \A n \in Moments \ Erratic : source'[n] = source[n]
  BY <1>1 DEF WatchInv, TypeOK, Rewrite
<1>3. StoredOK' /\ OverlapSuffices'
  BY <1>1, <1>2 DEF WatchInv, StoredOK, OverlapSuffices, Honest
<1>4. ASSUME NEW r \in Runners
      PROVE  RunnerOK(r)'
  <2>1. RunnerOK(r)
    BY DEF WatchInv
  <2>2. TimesOK(r)' /\ ScopeOK(r)' /\ NewerOK(r)'
    BY <1>1, <2>1 DEF RunnerOK, TimesOK, ScopeOK, NewerOK, Holds, At, Arrived
  <2>3. Arrived(r)' = Arrived(r) /\ Arrived(r) \subseteq Moments
    BY <1>1 DEF Arrived
  <2>4. BatchOK(r)'
    BY <1>1, <1>2, <2>1, <2>3 DEF RunnerOK, BatchOK, At, Honest
  <2>5. QED
    BY <2>2, <2>4 DEF RunnerOK
<1>5. QED
  BY <1>1, <1>3, <1>4 DEF WatchInv

LEMMA TickWatch ==
  ASSUME WatchInv, Tick, TypeOK'
  PROVE  WatchInv'
<1>1. UNCHANGED <<fetched, nextPoll, current, source, lease, runner>> /\ clock' = clock + 1
  BY DEF Tick, watchVars
<1>2. TypeOK /\ clock \in Times /\ fetched \in Times
  BY DEF WatchInv, TypeOK
<1>3. fetched' <= clock' /\ fetched' <= nextPoll'
  BY <1>1, <1>2, TimeNumbers DEF WatchInv
<1>4. ASSUME NEW r \in Runners
      PROVE  RunnerOK(r)'
  <2>1. RunnerOK(r)
    BY DEF WatchInv
  <2>2. ScopeOK(r)' /\ BatchOK(r)' /\ NewerOK(r)'
    BY <1>1, <2>1 DEF RunnerOK, ScopeOK, BatchOK, NewerOK, Holds, At, Arrived
  <2>3. TimesOK(r)'
    <3>1. runner[r] # Nothing => runner[r].read \in Times
      BY <1>2, WorkingFacts
    <3>2. QED
      BY <1>1, <1>2, <2>1, <3>1, TimeNumbers DEF RunnerOK, TimesOK
  <2>4. QED
    BY <2>2, <2>3 DEF RunnerOK
<1>5. StoredOK' /\ OverlapSuffices'
  BY <1>1 DEF WatchInv, StoredOK, OverlapSuffices
<1>6. QED
  BY <1>3, <1>4, <1>5 DEF WatchInv

(* Every step keeps the invariant. *)
LEMMA NextWatch ==
  ASSUME WatchInv, [Next]_vars
  PROVE  WatchInv'
<1>1. TypeOK /\ TypeOK'
  BY NextType DEF WatchInv
<1>2. ASSUME NEW r \in Runners, NEW t \in StartAt .. clock, AcquirePoll(r, t)
      PROVE  WatchInv'
  BY <1>2, AcquireWatch
<1>3. ASSUME NEW r \in Runners, Fetch(r) \/ Crash(r)
      PROVE  WatchInv'
  BY <1>3, FetchWatch, LeaveWatch DEF Crash
<1>4. ASSUME NEW r \in Runners, FetchFails(r)
      PROVE  WatchInv'
  <2>1. runner[r] # Nothing /\ runner[r] \in Working
    BY <1>1, <1>4 DEF FetchFails, At, TypeOK
  <2>2. runner' = [runner EXCEPT ![r] = [runner[r] EXCEPT !.pc = "failing", !.read = clock]]
    BY <1>1, <1>4 DEF FetchFails, TypeOK
  <2>3. runner'[r] = [runner[r] EXCEPT !.pc = "failing", !.read = clock]
    BY <1>1, <2>2 DEF TypeOK
  <2>4. /\ runner'[r] \in Working /\ runner'[r].pc = "failing"
        /\ runner'[r].start = runner[r].start /\ runner'[r].end = runner[r].end
        /\ runner'[r].acquired = runner[r].acquired /\ runner'[r].read = clock
    BY <1>1, <2>1, <2>3 DEF Working, TypeOK
  <2>5. runner[r].read <= clock /\ clock <= clock
    BY <1>1, <2>1, TimeNumbers DEF WatchInv, RunnerOK, TimesOK, TypeOK
  <2>6. \A q \in Runners \ {r} : runner'[q] = runner[q]
    BY <1>1, <2>2 DEF TypeOK
  <2>7. UNCHANGED <<sourceVars, watchVars, clock, source, lease>>
    BY <1>4 DEF FetchFails
  <2>8. QED
    BY <1>1, <2>1, <2>4, <2>5, <2>6, <2>7, FailingWatch
<1>5. ASSUME NEW r \in Runners, runner[r] # Nothing, NEW t \in runner[r].read .. clock,
             Conflict(r, t) \/ RejectBatch(r, t)
      PROVE  WatchInv'
  <2>1. runner[r] \in Working /\ t \in Times
    BY <1>1, <1>5, ReadTimes DEF TypeOK
  <2>2. runner' = [runner EXCEPT ![r] =
                    [runner[r] EXCEPT !.pc = "failing", !.read = t, !.batch = Empty]]
    BY <1>1, <1>5 DEF Conflict, RejectBatch, TypeOK
  <2>3. runner'[r] = [runner[r] EXCEPT !.pc = "failing", !.read = t, !.batch = Empty]
    BY <1>1, <2>2 DEF TypeOK
  <2>4. /\ runner'[r] \in Working /\ runner'[r].pc = "failing"
        /\ runner'[r].start = runner[r].start /\ runner'[r].end = runner[r].end
        /\ runner'[r].acquired = runner[r].acquired /\ runner'[r].read = t
    <3>1. Empty \in [Moments -> Readings \cup {Nothing}]
      BY DEF Empty
    <3>2. QED
      BY <2>1, <2>3, <3>1 DEF Working
  <2>5. runner[r].read <= t /\ t <= clock
    OBVIOUS
  <2>6. \A q \in Runners \ {r} : runner'[q] = runner[q]
    BY <1>1, <2>2 DEF TypeOK
  <2>7. UNCHANGED <<sourceVars, watchVars, clock, source, lease>>
    BY <1>5 DEF Conflict, RejectBatch
  <2>8. QED
    BY <1>1, <1>5, <2>4, <2>5, <2>6, <2>7, FailingWatch
<1>6. ASSUME NEW r \in Runners, runner[r] # Nothing, NEW t \in runner[r].read .. clock,
             \/ CommitPoll(r, t) \/ LoseLease(r, t)
             \/ \E ra \in RetryAfters : FailPoll(r, t, ra)
      PROVE  WatchInv'
  BY <1>6, CommitWatch, LeaveWatch, FailWatch DEF LoseLease
<1>7. ASSUME NEW m \in Moments, NEW v \in Values,
             Publish(m, v) \/ \E t \in m .. clock : Rewrite(m, v, t)
      PROVE  WatchInv'
  BY <1>1, <1>7, PublishWatch, RewriteWatch
<1>8. CASE Tick
  BY <1>1, <1>8, TickWatch
<1>9. CASE UNCHANGED vars
  <2>1. UNCHANGED <<fetched, nextPoll, current, source, clock, lease, runner>>
    BY <1>9 DEF vars, watchVars
  <2>2. \A r \in Runners : RunnerOK(r)'
    BY <2>1, OthersKeep DEF Holds
  <2>3. QED
    BY <1>1, <2>1, <2>2, ScanKept DEF WatchInv
<1>10. QED
  BY <1>2, <1>3, <1>4, <1>5, <1>6, <1>7, <1>8, <1>9 DEF Next

LEMMA WatchInvariant == Spec => []WatchInv
<1>1. Init => WatchInv
  BY InitWatch
<1>2. WatchInv /\ [Next]_vars => WatchInv'
  BY NextWatch
<1>3. QED
  BY <1>1, <1>2, PTL DEF Spec

(* Whatever the processes do and however long they are away, a reading     *)
(* published within the overlap is stored once the scan has passed it.     *)
THEOREM OverlapSufficesHolds == Spec => []OverlapSuffices
<1>1. WatchInv => OverlapSuffices
  BY DEF WatchInv
<1>2. QED
  BY <1>1, WatchInvariant, PTL

(* Only readings whose publication time does not advance are ever refused  *)
(* as conflicting: the lease orders what processes commit.                 *)
THEOREM OnlyErraticConflictsHolds == Spec => OnlyErraticConflicts
<1> DEFINE Here == \A r \in Runners, t \in Times :
       Conflict(r, t) => \E m \in Arrived(r) \cap Erratic : Conflicting(m, runner[r].batch[m])
<1>1. ASSUME WatchInv, NEW r \in Runners, NEW t \in Times, Conflict(r, t)
      PROVE  \E m \in Arrived(r) \cap Erratic : Conflicting(m, runner[r].batch[m])
  <2>1. PICK m \in Arrived(r) : Conflicting(m, runner[r].batch[m])
    BY <1>1 DEF Conflict
  <2>2. ASSUME m \notin Erratic
        PROVE  FALSE
    <3>1. TypeOK /\ runner[r] # Nothing /\ Holds(r) /\ At(r, "fetched")
      BY <1>1 DEF WatchInv, Conflict, Guard, Holds, At
    <3>2. /\ current[m] # Nothing /\ current[m].value # runner[r].batch[m].value
          /\ runner[r].batch[m].modified <= current[m].seen
      BY <2>1 DEF Conflicting
    <3>3. AtLeast(runner[r].batch[m], current[m].seen, current[m].value)
      BY <1>1, <2>2, <3>1, <3>2 DEF WatchInv, RunnerOK, NewerOK
    <3>4. m \in Moments /\ runner[r].batch[m].modified \in Times /\ current[m].seen \in Times
      BY <3>1, <3>2, ArrivedReading DEF TypeOK, Stored, Readings
    <3>5. runner[r].batch[m].modified \in Int /\ current[m].seen \in Int
      BY <3>4, TimeNumbers
    <3>6. QED
      BY <3>2, <3>3, <3>5 DEF AtLeast
  <2>3. QED
    BY <2>1, <2>2
<1>2. WatchInv /\ [Next]_vars => [Here]_vars
  BY <1>1
<1>3. QED
  BY <1>2, WatchInvariant, PTL DEF Spec, OnlyErraticConflicts

(* Only a commit changes what is stored, or how far the scan came. *)
LEMMA OnlyCommitStores ==
  ASSUME Next, current' # current \/ fetched' # fetched
  PROVE  \E r \in Runners :
           runner[r] # Nothing /\ \E t \in runner[r].read .. clock : CommitPoll(r, t)
<1>1. ASSUME NEW r \in Runners, NEW t, AcquirePoll(r, t)
      PROVE  current' = current /\ fetched' = fetched
  BY <1>1 DEF AcquirePoll, watchVars
<1>2. ASSUME NEW r \in Runners, Fetch(r) \/ FetchFails(r) \/ Crash(r)
      PROVE  current' = current /\ fetched' = fetched
  <2>1. UNCHANGED watchVars
    BY <1>2 DEF Fetch, FetchFails, Crash
  <2>2. QED
    BY <2>1 DEF watchVars
<1>3. ASSUME NEW r \in Runners, NEW t, Conflict(r, t) \/ RejectBatch(r, t) \/ LoseLease(r, t)
      PROVE  current' = current /\ fetched' = fetched
  <2>1. UNCHANGED watchVars
    BY <1>3 DEF Conflict, RejectBatch, LoseLease
  <2>2. QED
    BY <2>1 DEF watchVars
<1>4. ASSUME NEW r \in Runners, NEW t, NEW ra, FailPoll(r, t, ra)
      PROVE  current' = current /\ fetched' = fetched
  BY <1>4 DEF FailPoll
<1>5. ASSUME NEW m, NEW v, NEW t, Publish(m, v) \/ Rewrite(m, v, t)
      PROVE  current' = current /\ fetched' = fetched
  BY <1>5 DEF Publish, Rewrite, watchVars
<1>6. ASSUME Tick
      PROVE  current' = current /\ fetched' = fetched
  BY <1>6 DEF Tick, watchVars
<1>7. QED
  BY <1>1, <1>2, <1>3, <1>4, <1>5, <1>6 DEF Next

(* A poll is stored with all of its window, or not at all. *)
THEOREM WholeOrNothingHolds == Spec => WholeOrNothing
<1> DEFINE Whole(r) ==
      /\ At(r, "fetched") /\ runner'[r] = Nothing
      /\ fetched' >= runner[r].end
      /\ \A m \in Arrived(r) :
           /\ current'[m].value = runner[r].batch[m].value
           /\ current[m] # Nothing /\ ~Same(m, runner[r].batch[m]) =>
                runner[r].batch[m].modified > current[m].seen
<1>1. ASSUME WatchInv, NEW r \in Runners, runner[r] # Nothing,
             NEW t \in runner[r].read .. clock, CommitPoll(r, t)
      PROVE  Whole(r)
  <2>1. TypeOK
    BY <1>1 DEF WatchInv
  <2>2. At(r, "fetched") /\ runner'[r] = Nothing /\ current' = After(r)
    BY <1>1, <2>1 DEF CommitPoll, TypeOK
  <2>3. fetched' >= runner[r].end
    <3>1. fetched' = runner[r].end /\ runner[r].end \in Times
      BY <1>1, <2>1, CommitScan, WorkingFacts
    <3>2. QED
      BY <3>1, TimeNumbers
  <2>4. ASSUME NEW m \in Arrived(r)
        PROVE  /\ current'[m].value = runner[r].batch[m].value
               /\ current[m] # Nothing /\ ~Same(m, runner[r].batch[m]) =>
                    runner[r].batch[m].modified > current[m].seen
    <3>1. m \in Moments /\ runner[r].batch[m].modified \in Times
      BY <1>1, <2>1, ArrivedReading DEF Readings
    <3>2. ~Conflicting(m, runner[r].batch[m])
      BY <1>1 DEF CommitPoll
    <3>3. current'[m].value = runner[r].batch[m].value
      BY <1>1, <2>1, <2>2, <3>1, AfterFacts
    <3>4. current[m] # Nothing => current[m].seen \in Times
      BY <2>1, <3>1 DEF TypeOK, Stored
    <3>5. QED
      BY <3>1, <3>2, <3>3, <3>4, TimeNumbers DEF Conflicting, Same
  <2>5. QED
    BY <2>2, <2>3, <2>4
<1>2. ASSUME WatchInv, Next, current' # current \/ fetched' # fetched
      PROVE  \E r \in Runners : Whole(r)
  <2>1. PICK r \in Runners : runner[r] # Nothing /\ \E t \in runner[r].read .. clock : CommitPoll(r, t)
    BY <1>2, OnlyCommitStores
  <2>2. QED
    BY <1>1, <1>2, <2>1
<1>3. ASSUME UNCHANGED vars
      PROVE  current' = current /\ fetched' = fetched
  BY <1>3 DEF vars, watchVars
<1> DEFINE Step == current' # current \/ fetched' # fetched => \E r \in Runners : Whole(r)
<1> HIDE DEF Whole
<1>4. WatchInv /\ [Next]_vars => Step
  BY <1>2, <1>3
<1>5. Spec => [][Step]_vars
  <2> HIDE DEF Step
  <2>1. QED
    BY <1>4, WatchInvariant, PTL DEF Spec
<1>6. QED
  BY <1>5 DEF WholeOrNothing, Whole

(* The counter of pending events is exact while polls seal them. *)
THEOREM WatchPendingCount == Spec => []PendingCountExact
<1>1. Init => PendingCountExact
  <2>1. SUFFICES ASSUME Init PROVE PendingCountExact
    OBVIOUS
  <2>2. Pending = {} /\ pendingCount = 0
    BY <2>1 DEF Init, SourceInit, Pending
  <2>3. QED
    BY <2>2, FS_EmptySet DEF PendingCountExact
<1>2. TypeOK /\ PendingCountExact /\ [Next]_vars => PendingCountExact'
  <2> SUFFICES ASSUME TypeOK, PendingCountExact, [Next]_vars PROVE PendingCountExact'
    OBVIOUS
  <2>1. CASE UNCHANGED sourceVars
    BY <2>1 DEF sourceVars, PendingCountExact, Pending
  <2>2. ASSUME NEW S, SealEvents(S)
        PROVE  PendingCountExact'
    <3>1. S \in SUBSET Sealable
      BY <2>2 DEF SealEvents
    <3>2. QED
      BY <2>2, <3>1, SealCounts DEF TypeOK
  <2>3. ASSUME NEW r \in Runners, NEW t, CommitPoll(r, t)
        PROVE  PendingCountExact'
    BY <2>1, <2>2, <2>3 DEF CommitPoll
  <2>4. ASSUME NEW r \in Runners, NEW t, NEW ra,
               \/ AcquirePoll(r, t) \/ Fetch(r) \/ FetchFails(r) \/ Crash(r)
               \/ Conflict(r, t) \/ RejectBatch(r, t) \/ LoseLease(r, t) \/ FailPoll(r, t, ra)
        PROVE  UNCHANGED sourceVars
    BY <2>4 DEF AcquirePoll, Fetch, FetchFails, Crash, Conflict, RejectBatch, LoseLease, FailPoll
  <2>5. ASSUME NEW m, NEW v, NEW t, Publish(m, v) \/ Rewrite(m, v, t) \/ Tick
        PROVE  UNCHANGED sourceVars
    BY <2>5 DEF Publish, Rewrite, Tick
  <2>6. UNCHANGED vars => UNCHANGED sourceVars
    BY DEF vars
  <2>7. QED
    BY <2>1, <2>3, <2>4, <2>5, <2>6 DEF Next
<1>3. QED
  BY <1>1, <1>2, WatchTypes, PTL DEF Spec

----------------------------------------------------------------------------
(* What was sealed: an inductive invariant *)

(* The revisions of an interval are numbered without gaps. *)
Consecutive(i) == Revisions(i) = {<<i, n>> : n \in 1 .. Cardinality(Revisions(i))}

(* The last event of an interval names what is stored of it. *)
UpToDate(i) ==
  IF Revisions(i) = {} THEN Contents(i, current) = {}
  ELSE \E e \in Revisions(i) : Latest(e) /\ members[e] = Contents(i, current)

(* SealedIsCurrent speaks of the scan; what keeps it true is that an       *)
(* interval whose readings changed stays dirty until its end is scanned.   *)
SealInv ==
  /\ \A i \in Intervals : Consecutive(i)
  /\ \A i \in Intervals \ dirty : UpToDate(i)
  /\ \A i \in dirty : EndOf(i) > fetched

LEMMA CountRevisions ==
  ASSUME NEW i, NEW k \in Nat
  PROVE  Cardinality({<<i, n>> : n \in 1 .. k}) = k
<1> DEFINE T == {<<i, n>> : n \in 1 .. k}
           f == [n \in 1 .. k |-> <<i, n>>]
<1>1. f \in Bijection(1 .. k, T)
  <2>1. f \in [1 .. k -> T] /\ \A x \in T : \E n \in 1 .. k : f[n] = x
    OBVIOUS
  <2>2. \A m \in 1 .. k, n \in 1 .. k : f[m] = f[n] => m = n
    OBVIOUS
  <2>3. QED
    BY <2>1, <2>2 DEF Bijection, Injection, Surjection, IsInjective
<1>2. ExistsBijection(1 .. k, T)
  BY <1>1 DEF ExistsBijection
<1>3. IsFiniteSet(1 .. k) /\ Cardinality(1 .. k) = k
  BY FS_Interval
<1>4. QED
  BY <1>2, <1>3, FS_Bijection

LEMMA NextCount ==
  ASSUME NEW i, NEW k \in Nat, NEW S,
         \A x : x \in S <=> \E n \in 1 .. k + 1 : x = <<i, n>>
  PROVE  Cardinality(S) = k + 1
<1> DEFINE j == k + 1
<1>1. j \in Nat
  OBVIOUS
<1> HIDE DEF j
<1>2. Cardinality({<<i, n>> : n \in 1 .. j}) = j
  BY <1>1, CountRevisions
<1>3. S = {<<i, n>> : n \in 1 .. j}
  BY DEF j
<1>4. QED
  BY <1>2, <1>3 DEF j

LEMMA RevisionsCounted ==
  ASSUME NEW i \in Intervals
  PROVE  Cardinality(Revisions(i)) \in Nat
<1>1. Revisions(i) \subseteq Events
  BY DEF Revisions, Sealed
<1>2. QED
  BY <1>1, EventsFinite, FS_Subset, FS_CardinalityType

LEMMA EndIsNumber == \A i \in Intervals : EndOf(i) \in Int
<1> SUFFICES ASSUME NEW i \in Intervals PROVE EndOf(i) \in Int
  OBVIOUS
<1> DEFINE j == i + 1
<1>1. j \in Int /\ Width \in Int
  BY SourceAssumption, WatchAssumption
<1> HIDE DEF j
<1>2. j * Width \in Int
  BY <1>1
<1>3. QED
  BY <1>2 DEF EndOf, j

(* A commit changes the members of an interval only if it marks it dirty.  *)
LEMMA ContentsKept ==
  ASSUME TypeOK, NEW r \in Runners, runner[r] # Nothing, NEW i, i \notin Marked(r)
  PROVE  Contents(i, After(r)) = Contents(i, current)
<1>1. ASSUME NEW m \in Moments, IntervalOf(m) = i
      PROVE  /\ After(r)[m] # Nothing <=> current[m] # Nothing
             /\ After(r)[m] # Nothing => After(r)[m].version = current[m].version
  <2>1. CASE m \in Arrived(r)
    <3>1. Same(m, runner[r].batch[m])
      BY <1>1, <2>1 DEF Marked
    <3>2. current[m] # Nothing /\ current[m] \in Stored
      BY <3>1 DEF Same, TypeOK
    <3>3. After(r)[m] =
            [current[m] EXCEPT !.seen = Later(current[m].seen, runner[r].batch[m].modified)]
      BY <2>1, <3>1 DEF After, Ingested
    <3>4. After(r)[m].version = current[m].version
      BY <3>2, <3>3 DEF Stored
    <3>5. QED
      BY <2>1, <3>2, <3>4, AfterFacts
  <2>2. CASE m \notin Arrived(r)
    BY <2>2, AfterFacts
  <2>3. QED
    BY <2>1, <2>2
<1>2. QED
  BY <1>1 DEF Contents

(* The events a commit seals: of each interval the next, or none. *)
Resealed(r) ==
  {j \in Closed(r) : ~\E e \in Revisions(j) : Latest(e) /\ members[e] = Contents(j, After(r))}

LEMMA SealsNext ==
  ASSUME NEW r
  PROVE  ToSeal(r) = {<<i, Cardinality(Revisions(i)) + 1>> : i \in Resealed(r)}
BY DEF ToSeal, Resealed

LEMMA CommitSealed ==
  ASSUME NEW r \in Runners, NEW t, CommitPoll(r, t), TypeOK
  PROVE  Sealed' = Sealed \cup ToSeal(r)
<1>1. CASE ToSeal(r) = {}
  BY <1>1 DEF CommitPoll, Sealed, sourceVars
<1>2. CASE ToSeal(r) # {}
  <2>1. ToSeal(r) \subseteq Events
    BY DEF CommitPoll
  <2>2. outbox' = [e \in Events |-> IF e \in ToSeal(r) THEN "PENDING" ELSE outbox[e]]
    BY <1>2 DEF CommitPoll, SealEvents
  <2>3. QED
    BY <2>1, <2>2 DEF Sealed
<1>3. QED
  BY <1>1, <1>2

LEMMA CommitRevisions ==
  ASSUME NEW r \in Runners, NEW t, CommitPoll(r, t), TypeOK, NEW i \in Intervals
  PROVE  /\ i \in Resealed(r) =>
              Revisions(i)' = Revisions(i) \cup {<<i, Cardinality(Revisions(i)) + 1>>}
         /\ i \notin Resealed(r) => Revisions(i)' = Revisions(i)
<1>1. Revisions(i)' = {e \in Sealed \cup ToSeal(r) : Interval(e) = i}
  BY CommitSealed DEF Revisions
<1>2. \A e \in ToSeal(r) : Interval(e) \in Resealed(r)
                           /\ e = <<Interval(e), Cardinality(Revisions(Interval(e))) + 1>>
  BY SealsNext DEF Interval
<1>3. i \in Resealed(r) => <<i, Cardinality(Revisions(i)) + 1>> \in ToSeal(r)
  BY SealsNext
<1>4. Interval(<<i, Cardinality(Revisions(i)) + 1>>) = i
  BY DEF Interval
<1>5. QED
  BY <1>1, <1>2, <1>3, <1>4 DEF Revisions

LEMMA CommitSealInv ==
  ASSUME WatchInv, SealInv, NEW r \in Runners, runner[r] # Nothing,
         NEW t \in runner[r].read .. clock, CommitPoll(r, t)
  PROVE  SealInv'
<1>1. TypeOK
  BY DEF WatchInv
<1>2. /\ current' = After(r) /\ dirty' = (dirty \cup Marked(r)) \ Closed(r)
      /\ ToSeal(r) \subseteq Events
      /\ \A e \in Events : members'[e] = IF e \in ToSeal(r) THEN Contents(Interval(e), After(r))
                                         ELSE members[e]
  BY DEF CommitPoll
<1>3. fetched' = runner[r].end /\ runner[r].end \in Int
  BY <1>1, CommitScan, WorkingFacts, TimesAreInts
<1>4. ASSUME NEW i \in Intervals
      PROVE  Consecutive(i)'
  <2> PICK k \in Nat : k = Cardinality(Revisions(i))
    BY RevisionsCounted
  <2>1. Revisions(i) = {<<i, n>> : n \in 1 .. k}
    BY DEF SealInv, Consecutive
  <2>2. CASE i \in Resealed(r)
    <3>1. Revisions(i)' = Revisions(i) \cup {<<i, k + 1>>}
      BY <1>1, <2>2, CommitRevisions
    <3>2. 1 .. k + 1 = (1 .. k) \cup {k + 1}
      OBVIOUS
    <3>3. Revisions(i)' = {<<i, n>> : n \in 1 .. k + 1}
      BY <2>1, <3>1, <3>2
    <3>4. Cardinality(Revisions(i)') = k + 1
      <4>1. PICK S : S = Revisions(i)'
        OBVIOUS
      <4>2. \A x : x \in S <=> \E n \in 1 .. k + 1 : x = <<i, n>>
        BY <3>3, <4>1
      <4>3. Cardinality(S) = k + 1
        BY <4>2, NextCount
      <4>4. QED
        BY <4>1, <4>3
    <3>5. QED
      BY <3>3, <3>4 DEF Consecutive
  <2>3. CASE i \notin Resealed(r)
    <3>1. Revisions(i)' = Revisions(i)
      BY <1>1, <2>3, CommitRevisions
    <3>2. Cardinality(Revisions(i)') = k
      BY <3>1
    <3>3. QED
      BY <2>1, <3>1, <3>2 DEF Consecutive
  <2>4. QED
    BY <2>2, <2>3
<1>5. ASSUME NEW i \in Intervals, i \in Resealed(r)
      PROVE  UpToDate(i)'
  <2> PICK k \in Nat : k = Cardinality(Revisions(i))
    BY RevisionsCounted
  <2> DEFINE e == <<i, k + 1>>
  <2>1. Revisions(i) = {<<i, n>> : n \in 1 .. k}
    BY DEF SealInv, Consecutive
  <2>2. e \in ToSeal(r) /\ Interval(e) = i /\ Revision(e) = k + 1
    BY <1>5, SealsNext DEF Interval, Revision
  <2>3. Revisions(i)' = Revisions(i) \cup {e}
    BY <1>1, <1>5, CommitRevisions
  <2>4. Cardinality(Revisions(i)') = k + 1
    <3>1. 1 .. k + 1 = (1 .. k) \cup {k + 1}
      OBVIOUS
    <3>2. Revisions(i)' = {<<i, n>> : n \in 1 .. k + 1}
      BY <2>1, <2>3, <3>1
    <3>3. QED
      <4>1. PICK S : S = Revisions(i)'
        OBVIOUS
      <4>2. \A x : x \in S <=> \E n \in 1 .. k + 1 : x = <<i, n>>
        BY <3>2, <4>1
      <4>3. Cardinality(S) = k + 1
        BY <4>2, NextCount
      <4>4. QED
        BY <4>1, <4>3
  <2>5. members'[e] = Contents(i, After(r))
    BY <1>2, <2>2
  <2> HIDE DEF e
  <2>6. e \in Revisions(i)' /\ e \in Sealed'
    BY <2>3 DEF Revisions
  <2>7. Latest(e)'
    BY <2>2, <2>4, <2>6 DEF Latest
  <2>8. Contents(i, current)' = Contents(i, After(r))
    BY <1>2 DEF Contents
  <2>9. QED
    BY <2>5, <2>6, <2>7, <2>8 DEF UpToDate
<1>6. ASSUME NEW i \in Intervals, i \notin Resealed(r), i \notin dirty'
      PROVE  UpToDate(i)'
  <2>1. Revisions(i)' = Revisions(i)
    BY <1>1, <1>6, CommitRevisions
  <2>2. Contents(i, current)' = Contents(i, After(r))
    BY <1>2 DEF Contents
  <2>3. \A e \in Revisions(i) : e \in Events /\ Interval(e) = i /\ e \in Sealed
    BY DEF Revisions, Sealed
  <2>4. \A e \in Revisions(i) : members'[e] = members[e]
    BY <1>2, <1>6, <2>3, SealsNext DEF Interval
  <2>5. \A e \in Revisions(i) : Latest(e) => Latest(e)'
    <3> SUFFICES ASSUME NEW e \in Revisions(i), Latest(e) PROVE Latest(e)'
      OBVIOUS
    <3>1. Interval(e) = i /\ e \in Revisions(i)'
      BY <2>1, <2>3
    <3>2. e \in Sealed'
      BY <3>1 DEF Revisions
    <3>3. QED
      BY <2>1, <3>1, <3>2 DEF Latest
  <2>6. CASE i \in Closed(r)
    <3>1. PICK e \in Revisions(i) : Latest(e) /\ members[e] = Contents(i, After(r))
      BY <1>6, <2>6 DEF Resealed
    <3>2. Latest(e)' /\ members'[e] = Contents(i, current)' /\ e \in Revisions(i)'
      BY <2>1, <2>2, <2>4, <2>5, <3>1
    <3>3. QED
      BY <3>2 DEF UpToDate
  <2>7. CASE i \notin Closed(r)
    <3>1. i \notin dirty /\ i \notin Marked(r)
      BY <1>2, <1>6, <2>7
    <3>2. Contents(i, After(r)) = Contents(i, current)
      BY <1>1, <3>1, ContentsKept
    <3>3. UpToDate(i)
      BY <3>1 DEF SealInv
    <3>4. CASE Revisions(i) = {}
      BY <2>1, <2>2, <3>2, <3>3, <3>4 DEF UpToDate
    <3>5. CASE Revisions(i) # {}
      <4>1. PICK e \in Revisions(i) : Latest(e) /\ members[e] = Contents(i, current)
        BY <3>3, <3>5 DEF UpToDate
      <4>2. Latest(e)' /\ members'[e] = Contents(i, current)' /\ e \in Revisions(i)'
        BY <2>1, <2>2, <2>4, <2>5, <3>2, <4>1
      <4>3. QED
        BY <4>2 DEF UpToDate
    <3>6. QED
      BY <3>4, <3>5
  <2>8. QED
    BY <2>6, <2>7
<1>7. ASSUME NEW i \in dirty'
      PROVE  EndOf(i) > fetched'
  <2>1. i \in dirty \cup Marked(r) /\ i \notin Closed(r) /\ i \in Intervals
    <3>1. Marked(r) \subseteq Intervals
      BY WatchAssumption DEF Marked, Arrived, IntervalOf
    <3>2. QED
      BY <1>1, <1>2, <3>1 DEF TypeOK
  <2>2. ~(EndOf(i) <= runner[r].end)
    BY <2>1 DEF Closed
  <2>3. EndOf(i) \in Int
    BY <2>1, EndIsNumber
  <2>4. QED
    BY <1>3, <2>2, <2>3
<1>8. QED
  BY <1>4, <1>5, <1>6, <1>7 DEF SealInv, EndOf

LEMMA SealInvKept ==
  ASSUME SealInv, UNCHANGED <<sourceVars, fetched, current, dirty, members>>
  PROVE  SealInv'
<1>1. outbox' = outbox
  BY DEF sourceVars
<1>2. Sealed' = Sealed
  BY <1>1 DEF Sealed
<1>3. \A i : Revisions(i)' = Revisions(i)
  BY <1>2 DEF Revisions
<1>4. \A i \in Intervals : Consecutive(i)'
  BY <1>3 DEF SealInv, Consecutive
<1>5. ASSUME NEW i \in Intervals \ dirty
      PROVE  UpToDate(i)'
  <2>1. UpToDate(i) /\ Revisions(i)' = Revisions(i)
    BY <1>3 DEF SealInv
  <2>2. \A e : Latest(e)' <=> Latest(e)
    BY <1>2, <1>3 DEF Latest
  <2>3. Contents(i, current)' = Contents(i, current)
    BY DEF Contents
  <2>4. QED
    BY <2>1, <2>2, <2>3 DEF UpToDate
<1>6. QED
  BY <1>4, <1>5 DEF SealInv, EndOf

LEMMA SealInvInit == Init => SealInv
<1> SUFFICES ASSUME Init PROVE SealInv
  OBVIOUS
<1>1. Sealed = {} /\ current = Empty /\ dirty = {}
  BY DEF Init, SourceInit, Sealed
<1>2. \A i : Revisions(i) = {} /\ Contents(i, current) = {}
  BY <1>1 DEF Revisions, Contents, Empty
<1>3. Cardinality({}) = 0 /\ 1 .. 0 = {}
  BY FS_EmptySet
<1>4. \A i \in Intervals : Consecutive(i) /\ UpToDate(i)
  BY <1>2, <1>3 DEF Consecutive, UpToDate
<1>5. QED
  BY <1>1, <1>4 DEF SealInv

(* Only a commit seals or marks. *)
LEMMA SealInvNext == WatchInv /\ SealInv /\ [Next]_vars => SealInv'
<1> SUFFICES ASSUME WatchInv, SealInv, [Next]_vars PROVE SealInv'
  OBVIOUS
<1>1. ASSUME NEW r \in Runners, NEW t, AcquirePoll(r, t)
      PROVE  SealInv'
  BY <1>1, SealInvKept DEF AcquirePoll, watchVars
<1>2. ASSUME NEW r \in Runners, Fetch(r) \/ FetchFails(r) \/ Crash(r)
      PROVE  SealInv'
  <2>1. UNCHANGED sourceVars /\ UNCHANGED watchVars
    BY <1>2 DEF Fetch, FetchFails, Crash
  <2>2. QED
    BY <2>1, SealInvKept DEF watchVars
<1>3. ASSUME NEW r \in Runners, runner[r] # Nothing, NEW t \in runner[r].read .. clock,
             \/ CommitPoll(r, t) \/ Conflict(r, t) \/ RejectBatch(r, t) \/ LoseLease(r, t)
             \/ \E ra \in RetryAfters : FailPoll(r, t, ra)
      PROVE  SealInv'
  <2>1. CASE CommitPoll(r, t)
    BY <1>3, <2>1, CommitSealInv
  <2>2. CASE Conflict(r, t) \/ RejectBatch(r, t) \/ LoseLease(r, t)
    <3>1. UNCHANGED sourceVars /\ UNCHANGED watchVars
      BY <2>2 DEF Conflict, RejectBatch, LoseLease
    <3>2. QED
      BY <3>1, SealInvKept DEF watchVars
  <2>3. CASE \E ra \in RetryAfters : FailPoll(r, t, ra)
    BY <2>3, SealInvKept DEF FailPoll
  <2>4. QED
    BY <1>3, <2>1, <2>2, <2>3
<1>4. ASSUME NEW m, NEW v, NEW t, Publish(m, v) \/ Rewrite(m, v, t)
      PROVE  SealInv'
  <2>1. UNCHANGED sourceVars /\ UNCHANGED watchVars
    BY <1>4 DEF Publish, Rewrite
  <2>2. QED
    BY <2>1, SealInvKept DEF watchVars
<1>5. CASE Tick \/ UNCHANGED vars
  <2>1. UNCHANGED sourceVars /\ UNCHANGED watchVars
    BY <1>5 DEF Tick, vars
  <2>2. QED
    BY <2>1, SealInvKept DEF watchVars
<1>6. QED
  BY <1>1, <1>2, <1>3, <1>4, <1>5 DEF Next

(* What the case side is given as the last event of a scanned interval     *)
(* names exactly the versions the watch has stored (store_ingest.py,       *)
(* store_events.py): no correction stays behind unsealed.                  *)
THEOREM SealedIsCurrentHolds == Spec => []SealedIsCurrent
<1>1. Init => SealInv
  BY SealInvInit
<1>2. WatchInv /\ SealInv /\ [Next]_vars => SealInv'
  BY SealInvNext
<1>3. WatchInv /\ SealInv => SealedIsCurrent
  <2> SUFFICES ASSUME WatchInv, SealInv, NEW i \in Intervals, EndOf(i) <= fetched
               PROVE  UpToDate(i)
    BY DEF SealedIsCurrent, UpToDate
  <2>1. EndOf(i) \in Int /\ fetched \in Int
    BY EndIsNumber, TimesAreInts DEF WatchInv, TypeOK
  <2>2. i \notin dirty
    BY <2>1 DEF SealInv
  <2>3. QED
    BY <2>2 DEF SealInv
<1>4. QED
  BY <1>1, <1>2, <1>3, WatchInvariant, PTL DEF Spec
============================================================================
