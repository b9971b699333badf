--------------------------- MODULE NavLedgerProofs ---------------------------
(***************************************************************************)
(* Proofs about NavLedger, for any length of a day, any levels of the      *)
(* book, any number of commands and any number of kills:                   *)
(*   - the variables have their types, the rolling maximum is a number;    *)
(*   - the snapshots telescope, a row is its day's last snapshot and the   *)
(*     rolling maximum is that of the days so far (LedgerInv);             *)
(*   - every day that had a snapshot gets its row (DueInv);                *)
(*   - the lock of the snapshot cycle is never left behind (LockInv).      *)
(***************************************************************************)
EXTENDS NavLedger, FiniteSetTheorems, TLAPS

\* The day of a tick, without division: it is one that holds the tick ...
LEMMA DayIs ==
    ASSUME NEW t \in Int
    PROVE  /\ Day(t) \in Int
           /\ Day(t) * TicksPerDay <= t /\ t < (Day(t) + 1) * TicksPerDay
  <1>1. TicksPerDay \in Nat /\ TicksPerDay > 0
    BY LedgerAssumption
  <1> QED
    BY <1>1 DEF Day

\* ... and there is one only.
LEMMA DayUnique ==
    ASSUME NEW t \in Int, NEW d \in Int,
           d * TicksPerDay <= t, t < (d + 1) * TicksPerDay
    PROVE  Day(t) = d
  <1>1. TicksPerDay \in Nat /\ TicksPerDay > 0
    BY LedgerAssumption
  <1> DEFINE n == TicksPerDay
             e == Day(t)
  <1>2. e \in Int /\ e * n <= t /\ t < (e + 1) * n
    BY DayIs
  <1>3. \A x, y \in Int : x < y => (x + 1) * n <= y * n
    BY <1>1
  <1> QED
    BY <1>1, <1>2, <1>3

\* Days follow one another as ticks do.
LEMMA DayMonotone ==
    ASSUME NEW t \in Int, NEW u \in Int, t <= u
    PROVE  Day(t) <= Day(u)
  <1>1. TicksPerDay \in Nat /\ TicksPerDay > 0
    BY LedgerAssumption
  <1> DEFINE n == TicksPerDay
  <1>2. \A x, y \in Int : x < y => (x + 1) * n <= y * n
    BY <1>1
  <1>3. Day(t) \in Int /\ Day(t) * n <= t
    BY DayIs
  <1>4. Day(u) \in Int /\ u < (Day(u) + 1) * n
    BY DayIs
  <1>5. (Day(t) * n \in Int) /\ (Day(u) + 1) * n \in Int
    BY <1>1, <1>3, <1>4
  <1>6. Day(u) < Day(t) => (Day(u) + 1) * n <= Day(t) * n
    BY <1>2, <1>3, <1>4
  <1> HIDE DEF n
  <1> QED
    BY <1>3, <1>4, <1>5, <1>6

\* A tick of the clock is in one of the days.
LEMMA DayType ==
    ASSUME NEW t \in 0..MaxTime
    PROVE  Day(t) \in Days /\ Day(t) \in Nat
  <1>1. MaxTime \in Nat /\ TicksPerDay \in Nat /\ TicksPerDay > 0
    BY LedgerAssumption
  <1>2. Day(t) <= Day(MaxTime)
    BY <1>1, DayMonotone
  <1>3. Day(t) \in Nat
    BY <1>1 DEF Day
  <1>4. Day(MaxTime) \in Nat
    BY <1>1 DEF Day
  <1>5. Days = 0..Day(MaxTime)
    BY DEF Days, Day
  <1> QED
    BY <1>2, <1>3, <1>4, <1>5

\* Every nonempty finite set of days has one with the greatest value.
LEMMA ArgMax ==
    ASSUME NEW D, IsFiniteSet(D), D # {}, NEW f, \A d \in D : f[d] \in Int
    PROVE  \E d \in D : \A e \in D : f[e] <= f[d]
  <1> DEFINE HasMax(T) == \E d \in T : \A e \in T : f[e] <= f[d]
             Bad == {T \in FiniteSubsetsOf(D) : T # {} /\ ~HasMax(T)}
  <1>1. FiniteSubsetsOf(D) = SUBSET D
    BY FS_FiniteSubsetsOfFinite
  <1>2. SUFFICES ASSUME Bad # {} PROVE FALSE
    BY <1>1
  <1>3. PICK B \in Bad : \A T \in Bad : ~(<<T, B>> \in StrictSubsetOrdering(D))
    <2> HIDE DEF Bad
    <2>1. Bad \subseteq FiniteSubsetsOf(D)
      BY DEF Bad
    <2> QED
      BY <1>2, <2>1, FS_StrictSubsetOrderingWellFounded, WFMin
  <1>4. PICK x \in B : TRUE
    OBVIOUS
  <1> DEFINE C == B \ {x}
  <1>5. <<C, B>> \in StrictSubsetOrdering(D)
    BY <1>1, <1>4 DEF StrictSubsetOrdering
  <1>6. C = {} \/ HasMax(C)
    BY <1>1, <1>3, <1>5
  <1>7. CASE C = {}
    BY <1>1, <1>4, <1>7
  <1>8. CASE HasMax(C)
    <2>1. PICK y \in C : \A e \in C : f[e] <= f[y]
      BY <1>8
    <2>2. f[x] \in Int /\ f[y] \in Int /\ \A e \in B : f[e] \in Int
      BY <1>1, <1>4
    <2>3. \A e \in B : e = x \/ e \in C
      OBVIOUS
    <2>4. CASE f[x] <= f[y]
      BY <2>1, <2>2, <2>3, <2>4
    <2>5. CASE f[y] <= f[x]
      BY <1>4, <2>1, <2>2, <2>3, <2>5
    <2> QED
      BY <2>2, <2>4, <2>5
  <1> QED
    BY <1>6, <1>7, <1>8

\* The rolling maximum is one of the values it is taken of.
LEMMA RollingMaxType ==
    ASSUME TypeOK, NEW d \in Days, NEW pv \in Int
    PROVE  RollingMax(d, pv) \in Int
  <1> DEFINE D == Finalized \ {d}
             S == {pv} \cup {rows[e].pv : e \in D}
  <1>1. \A e \in D : rows[e].pv \in Int
    BY DEF TypeOK, Finalized, Row
  <1>2. IsFiniteSet(D)
    <2>1. MaxTime \div TicksPerDay \in Int
      BY LedgerAssumption
    <2>2. IsFiniteSet(Days)
      BY <2>1, FS_Interval DEF Days
    <2> QED
      BY <2>2, FS_Subset DEF Finalized
  <1>3. \E m \in S : \A n \in S : n <= m
    <2>1. CASE D = {}
      BY <2>1
    <2>2. CASE D # {}
      <3> DEFINE f == [e \in D |-> rows[e].pv]
      <3>1. PICK b \in D : \A e \in D : f[e] <= f[b]
        <4>1. \A e \in D : f[e] \in Int
          BY <1>1
        <4> HIDE DEF f, D
        <4> QED
          BY <1>2, <2>2, <4>1, ArgMax
      <3>2. CASE rows[b].pv <= pv
        BY <1>1, <3>1, <3>2
      <3>3. CASE pv <= rows[b].pv
        BY <1>1, <3>1, <3>3
      <3> QED
        BY <1>1, <3>2, <3>3
    <2> QED
      BY <2>1, <2>2
  <1>4. S \subseteq Int
    BY <1>1
  <1>5. Largest(S) \in S
    <2> HIDE DEF S
    <2> QED
      BY <1>3 DEF Largest
  <1> QED
    BY <1>4, <1>5 DEF RollingMax

\* What the queries over the snapshots return.
LEMMA SnapshotsOfDays ==
    ASSUME TypeOK, NEW d \in Int
    PROVE  /\ LastOf(OnDay(d)) \subseteq OnDay(d) /\ OnDay(d) \subseteq snaps
           /\ LastOf(BeforeDay(d)) \subseteq BeforeDay(d) /\ BeforeDay(d) \subseteq snaps
           /\ snaps \subseteq Snapshot
           /\ \A s \in OnDay(d) : d = Day(s.t) /\ d \in Days
  BY DayType DEF TypeOK, LastOf, OnDay, BeforeDay, Snapshot

\* Every variable has its type in every state; the rolling maximum is a number
\* because the value of the day itself is among those it is taken of.
THEOREM TypeCorrect == Spec => []TypeOK
  <1> USE LedgerAssumption
  <1>1. Init => TypeOK
    <2>1. << >> \in Seq(Task) /\ Idle \in Job
      BY DEF Job
    <2>2. Init => /\ clock \in 0..MaxTime /\ commands \in 0..MaxCommands /\ kills \in 0..MaxKills
                  /\ rows \in [Days -> Row \cup {NoRow}] /\ job \in [Actors -> Job]
      BY <2>1 DEF Init
    <2>3. Init => /\ lock \in BOOLEAN /\ up \in BOOLEAN /\ crossed \in BOOLEAN
                  /\ refinalized \in BOOLEAN /\ slipped \in BOOLEAN
                  /\ snaps \in SUBSET Snapshot /\ queue \in Seq(Task) /\ missed \subseteq Days
      BY <2>1 DEF Init
    <2> QED
      BY <2>2, <2>3 DEF TypeOK
  <1>2. TypeOK /\ [Next]_vars => TypeOK'
    <2> SUFFICES ASSUME TypeOK, [Next]_vars PROVE TypeOK'
      OBVIOUS
    <2> USE DEF TypeOK, db, budget
    <2>0. /\ Idle \in Job
          /\ Consumer \in Actors /\ Operator \in Actors
      BY DEF Job, Actors
    <2>1. CASE Tick
      <3>1. clock + 1 \in 0..MaxTime
        BY <2>1 DEF Tick
      <3>2. Due(clock + 1) \in Seq(Task)
        <4>1. \A t \in 0..MaxTime : <<[kind |-> "cycle", t |-> t]>> \in Seq(Task)
                /\ <<[kind |-> "finalize", t |-> t]>> \in Seq(Task) /\ << >> \in Seq(Task)
          BY DEF Task
        <4> QED
          BY <3>1, <4>1 DEF Due
      <3> QED
        BY <2>1, <3>1, <3>2 DEF Tick
    <2>2. CASE DropCycle
      BY <2>2 DEF DropCycle
    <2>3. CASE BeginCycle
      <3>1. [stage |-> "fetch", t |-> clock] \in Job
        BY DEF Job
      <3> QED
        BY <2>0, <2>3, <3>1 DEF BeginCycle, Start, Busy, SameTimestamp
    <2>4. CASE TakeSnapshot
      <3>1. [stage |-> "fetch", t |-> clock] \in Job
        BY DEF Job
      <3> QED
        BY <2>0, <2>4, <3>1 DEF TakeSnapshot, Start, Busy, SameTimestamp
    <2>5. ASSUME NEW d \in Int, NEW s \in LastOf(OnDay(d))
          PROVE  FinalizeJob(d, s) \in Job
      <3>1. s \in Snapshot /\ d \in Days
        BY SnapshotsOfDays
      <3>2. RollingMax(d, s.pv) \in Int /\ s.pv \in Int
        BY <3>1, RollingMaxType DEF Snapshot
      <3> QED
        BY <3>1, <3>2 DEF FinalizeJob, Job, Row
    <2>6. CASE BeginFinalization
      <3>1. Day(clock) - 1 \in Int
        BY DayType
      <3>2. PICK j \in Job : job' = [job EXCEPT ![Consumer] = j]
        BY <2>0, <2>5, <2>6, <3>1 DEF BeginFinalization, Start
      <3> QED
        BY <2>0, <2>6, <3>2 DEF BeginFinalization, Busy
    <2>7. ASSUME NEW d \in Days, FinalizeByHand(d) PROVE TypeOK'
      <3>1. PICK s \in LastOf(OnDay(d)) : job' = [job EXCEPT ![Operator] = FinalizeJob(d, s)]
        BY <2>7 DEF FinalizeByHand, Start
      <3>2. d \in Int
        BY DEF Days
      <3>3. FinalizeJob(d, s) \in Job
        BY <2>5, <3>1, <3>2
      <3> QED
        BY <2>0, <2>7, <3>1, <3>3 DEF FinalizeByHand, Busy
    <2>8. ASSUME NEW a \in Actors, Fetch(a) PROVE TypeOK'
      <3> DEFINE d == Day(job[a].t)
      <3>1. job[a].t \in 0..MaxTime /\ d \in Int
        <4>1. job[a].t \in 0..MaxTime
          BY <2>8 DEF Fetch, Job, Idle
        <4> QED
          BY <4>1, DayType
      <3>2. PICK seen \in Levels :
              \E pv \in PortfolioValue(seen, RowOf(d - 1), LastOf(BeforeDay(d))) :
                 job' = [job EXCEPT ![a] =
                           [stage |-> "store", row |-> [t |-> job[a].t, seen |-> seen, pv |-> pv]]]
        BY <2>8 DEF Fetch
      <3> PICK pv \in PortfolioValue(seen, RowOf(d - 1), LastOf(BeforeDay(d))) :
             job' = [job EXCEPT ![a] =
                       [stage |-> "store", row |-> [t |-> job[a].t, seen |-> seen, pv |-> pv]]]
        BY <3>2
      <3>3. pv \in Int
        <4>1. RowOf(d - 1) # NoRow => RowOf(d - 1).pv \in Int
          BY DEF RowOf, Row
        <4>2. \A r \in LastOf(BeforeDay(d)) : r.pv \in Int /\ r.seen \in Int
          <5> HIDE DEF d, TypeOK
          <5>1. LastOf(BeforeDay(d)) \subseteq Snapshot
            BY <3>1, SnapshotsOfDays
          <5> QED
            BY <5>1 DEF Snapshot
        <4> QED
          <5>1. seen \in Int /\ InitialValue \in Int
            OBVIOUS
          <5> HIDE DEF d, TypeOK
          <5> DEFINE prev == RowOf(d - 1)
                     refs == LastOf(BeforeDay(d))
          <5>4. pv \in PortfolioValue(seen, prev, refs)
            OBVIOUS
          <5> HIDE DEF prev, refs
          <5>2. (prev # NoRow => prev.pv \in Int) /\ \A r \in refs : r.pv \in Int /\ r.seen \in Int
            BY <4>1, <4>2 DEF prev, refs
          <5>3. CASE prev # NoRow
            BY <5>1, <5>2, <5>3, <5>4 DEF PortfolioValue
          <5>5. CASE prev = NoRow
            BY <5>1, <5>2, <5>5, <5>4 DEF PortfolioValue
          <5> QED
            BY <5>3, <5>5
      <3>4. [stage |-> "store", row |-> [t |-> job[a].t, seen |-> seen, pv |-> pv]] \in Job
        BY <3>1, <3>3 DEF Job, Snapshot
      <3> QED
        BY <2>8, <3>4 DEF Fetch
    <2>9. ASSUME NEW a \in Actors, Store(a) PROVE TypeOK'
      <3>1. job[a].row \in Snapshot
        BY <2>9 DEF Store, Job, Idle
      <3> QED
        BY <2>0, <2>9, <3>1 DEF Store
    <2>10. ASSUME NEW a \in Actors, WriteRow(a) PROVE TypeOK'
      <3>1. job[a].row \in Row /\ job[a].day \in Days
        BY <2>10 DEF WriteRow, Job, Idle
      <3> QED
        BY <2>0, <2>10, <3>1 DEF WriteRow
    <2>11. CASE Kill
      <3>1. kills' \in 0..MaxKills /\ job' \in [Actors -> Job]
        BY <2>0, <2>11 DEF Kill
      <3>2. job[Consumer].stage = "write" => job[Consumer].day \in Days
        BY DEF Actors, Job, Idle
      <3> QED
        BY <2>11, <3>1, <3>2 DEF Kill
    <2>12. CASE Boot
      BY <2>12 DEF Boot
    <2>13. CASE UNCHANGED vars
      BY <2>13 DEF vars
    <2> QED
      BY <2>1, <2>2, <2>3, <2>4, <2>6, <2>7, <2>8, <2>9, <2>10, <2>11, <2>12, <2>13
         DEF Next, Over
  <1> QED
    BY <1>1, <1>2, PTL DEF Spec
-----------------------------------------------------------------------------
(* The ledger.  While nothing has crossed, one actor works at a time, so what *)
(* it has read of the rows still holds when it writes.                        *)

Measuring == {"fetch", "store"}
TimeOf(j) == IF j.stage = "fetch" THEN j.t ELSE j.row.t

\* What Telescopes says of one snapshot.
Measured(s) ==
    BeforeDay(Day(s.t)) # {} =>
        \E b \in LastOf(BeforeDay(Day(s.t))) : s.pv - b.pv = s.seen - b.seen

HasRowOf(d, pv) == \E s \in LastOf(OnDay(d)) : pv = s.pv

\* A job j that nothing crossed.
QuietJob(j) ==
    /\ j.stage \in Measuring =>
         /\ TimeOf(j) <= clock
         /\ \A s \in snaps : s.t < TimeOf(j)
         /\ \A d \in Finalized : d < Day(TimeOf(j))
    /\ j.stage = "store" => Measured(j.row)
    /\ j.stage = "write" =>
         /\ j.day < Day(clock)
         /\ HasRowOf(j.day, j.row.pv)
         /\ j.row.max = RollingMax(j.day, j.row.pv)

Quiet ==
    /\ \A s \in snaps : s.t <= clock
    /\ \A a, b \in Actors : Busy(a) /\ Busy(b) => a = b
    /\ \A s, o \in snaps : s.t = o.t => s = o
    /\ \A a \in Actors : QuietJob(job[a])
    /\ \A s \in snaps : Measured(s)
    /\ \A d \in Finalized : d < Day(clock) /\ HasRowOf(d, rows[d].pv)

MaxInOrder ==
    \A d \in Finalized : rows[d].max = Largest({rows[e].pv : e \in Finalized \cap 0..d})

\* Holds whatever crossed.
Past ==
    \A d \in Days : BeforeDay(d) # {} => LastOf(BeforeDay(d)) # {}

LedgerInv ==
    /\ Past
    /\ ~crossed => Quiet
    /\ ~crossed /\ ~refinalized => MaxInOrder

Queued(d) == \E i \in DOMAIN queue : queue[i] = [kind |-> "finalize", t |-> DueTick(d)]
Settled(d) ==
    \/ d \in Finalized
    \/ job[Consumer].stage = "write" /\ job[Consumer].day = d
    \/ /\ OnDay(d) = {}
       /\ \A a \in Actors : job[a].stage \in Measuring => Day(TimeOf(job[a])) # d

DueInv ==
    ~slipped /\ ~crossed =>
        \A d \in Days \ missed : DueTick(d) <= clock => Queued(d) \/ Settled(d)

\* What a job is depends on its stage.
LEMMA JobTypes ==
    ASSUME NEW j \in Job
    PROVE  /\ j.stage = "fetch" => j.t \in 0..MaxTime
           /\ j.stage = "store" => j.row \in Snapshot
           /\ j.stage = "write" => j.day \in Days /\ j.row \in Row
           /\ j.stage \in Measuring => TimeOf(j) \in 0..MaxTime
           /\ j # Idle <=> j.stage \in Measuring \cup {"write"}
  BY DEF Job, Idle, Measuring, TimeOf, Snapshot

\* Ticks and their days are integers.
LEMMA DayTypes ==
    ASSUME NEW t \in 0..MaxTime
    PROVE  t \in Int /\ Day(t) \in Int
  BY LedgerAssumption, DayIs

\* What is looked up in the database changes with it only.
LEMMA SameLookups ==
    ASSUME UNCHANGED <<snaps, rows>>
    PROVE  /\ \A d : OnDay(d)' = OnDay(d) /\ BeforeDay(d)' = BeforeDay(d)
           /\ Finalized' = Finalized
           /\ \A S : LastOf(S)' = LastOf(S)
           /\ \A d, pv : HasRowOf(d, pv)' = HasRowOf(d, pv)
           /\ \A d, pv : RollingMax(d, pv)' = RollingMax(d, pv)
           /\ \A s : Measured(s)' = Measured(s)
  <1>1. /\ \A d : OnDay(d)' = OnDay(d) /\ BeforeDay(d)' = BeforeDay(d)
        /\ Finalized' = Finalized
        /\ \A S : LastOf(S)' = LastOf(S)
    BY DEF OnDay, BeforeDay, Finalized, LastOf
  <1>2. \A d, pv : HasRowOf(d, pv)' = HasRowOf(d, pv)
    BY <1>1 DEF HasRowOf
  <1>3. \A d, pv : RollingMax(d, pv)' = RollingMax(d, pv)
    BY <1>1 DEF RollingMax
  <1>4. \A s : Measured(s)' = Measured(s)
    BY <1>1 DEF Measured
  <1> QED
    BY <1>1, <1>2, <1>3, <1>4

\* A step that leaves the database alone, and the jobs or all but one, whose new
\* job is j.
LEMMA DatabaseUntouched ==
    ASSUME TypeOK, TypeOK', LedgerInv, UNCHANGED <<snaps, rows, refinalized>>,
           clock <= clock', ~crossed' => ~crossed,
           ~crossed' => \A a \in Actors :
               \/ job'[a] = job[a]
               \/ QuietJob(job'[a]) /\ (job'[a] # Idle => \A b \in Actors \ {a} : job'[b] = Idle)
    PROVE  LedgerInv'
  <1>0. clock \in 0..MaxTime /\ clock' \in 0..MaxTime
    BY DEF TypeOK
  <1>1. /\ clock \in Int /\ clock' \in Int /\ Day(clock) \in Int /\ Day(clock') \in Int
        /\ Day(clock) <= Day(clock')
    BY <1>0, DayTypes, DayMonotone
  <1>2. Past'
    BY SameLookups DEF LedgerInv, Past
  <1>3. (~crossed /\ ~refinalized => MaxInOrder)'
    BY SameLookups DEF LedgerInv, MaxInOrder
  <1>4. ASSUME ~crossed' PROVE Quiet'
    <2>1. Quiet
      BY <1>4 DEF LedgerInv
    <2>2. ASSUME NEW a \in Actors, QuietJob(job'[a]) PROVE QuietJob(job[a])'
      <3>0. job'[a] \in Job
        BY DEF TypeOK
      <3> DEFINE j == job'[a]
      <3>1. j.stage \in Measuring => TimeOf(j) \in Int
        BY <3>0, JobTypes, LedgerAssumption
      <3>2. j.stage = "write" => j.day \in Int
        BY <3>0, JobTypes, LedgerAssumption DEF Days
      <3> QED
        BY <1>1, <2>2, <3>1, <3>2, SameLookups DEF QuietJob
    <2>3. \A a \in Actors : QuietJob(job[a])'
      BY <1>4, <2>1, <2>2 DEF Quiet
    <2>4. \A a, b \in Actors : Busy(a)' /\ Busy(b)' => a = b
      BY <1>4, <2>1 DEF Quiet, Busy
    <2>5. \A d \in Finalized : d \in Int
      BY DEF Finalized, Days
    <2>6. (\A d \in Finalized : d < Day(clock) /\ HasRowOf(d, rows[d].pv))'
      BY <1>1, <2>1, <2>5, SameLookups DEF Quiet
    <2>7. (\A s, o \in snaps : s.t = o.t => s = o)' /\ (\A s \in snaps : Measured(s))'
      BY <2>1, SameLookups DEF Quiet
    <2>8. (\A s \in snaps : s.t <= clock)'
      <3>1. \A s \in snaps : s.t \in Int
        BY LedgerAssumption DEF TypeOK, Snapshot
      <3> QED
        BY <1>1, <2>1, <3>1 DEF Quiet
    <2> QED
      BY <2>3, <2>4, <2>6, <2>7, <2>8 DEF Quiet
  <1> QED
    BY <1>2, <1>3, <1>4 DEF LedgerInv

\* A snapshot that starts now comes after all there are.
LEMMA NewCycleIsQuiet ==
    ASSUME TypeOK, LedgerInv, ~crossed, ~SameTimestamp
    PROVE  QuietJob([stage |-> "fetch", t |-> clock])
  <1> DEFINE j == [stage |-> "fetch", t |-> clock]
  <1>1. TimeOf(j) = clock /\ j.stage = "fetch"
    BY DEF TimeOf
  <1>2. clock \in Int /\ \A s \in snaps : s.t \in Int
    BY LedgerAssumption DEF TypeOK, Snapshot
  <1>3. \A s \in snaps : s.t < clock
    BY <1>2 DEF LedgerInv, Quiet, SameTimestamp
  <1>4. \A d \in Finalized : d < Day(clock)
    BY DEF LedgerInv, Quiet
  <1>5. TimeOf(j) <= clock
    BY <1>1, <1>2
  <1>6. j.stage \notin {"store", "write"}
    BY <1>1
  <1> QED
    BY <1>1, <1>3, <1>4, <1>5, <1>6 DEF QuietJob

\* A finalization of a day that is over.
LEMMA NewFinalizationIsQuiet ==
    ASSUME NEW d \in Int, d < Day(clock), NEW s \in LastOf(OnDay(d))
    PROVE  QuietJob(FinalizeJob(d, s))
  BY DEF QuietJob, FinalizeJob, HasRowOf, Measuring

\* A scheduled snapshot cycle begins.
LEMMA BeginCycleKeeps ==
    ASSUME TypeOK, TypeOK', LedgerInv, BeginCycle
    PROVE  LedgerInv'
  <1>1. /\ job' = [job EXCEPT ![Consumer] = [stage |-> "fetch", t |-> clock]]
        /\ UNCHANGED <<clock, snaps, rows, refinalized>>
        /\ crossed' = (crossed \/ Busy(Operator) \/ SameTimestamp)
    BY DEF BeginCycle, Start, db
  <1>2. /\ \A a \in Actors : a = Consumer \/ a = Operator
        /\ job'[Consumer] = [stage |-> "fetch", t |-> clock] /\ job'[Operator] = job[Operator]
        /\ clock <= clock'
    BY <1>1, LedgerAssumption DEF TypeOK, Actors
  <1> QED
    BY <1>1, <1>2, NewCycleIsQuiet, DatabaseUntouched DEF Busy

\* A snapshot by hand begins.
LEMMA TakeSnapshotKeeps ==
    ASSUME TypeOK, TypeOK', LedgerInv, TakeSnapshot
    PROVE  LedgerInv'
  <1>1. /\ job' = [job EXCEPT ![Operator] = [stage |-> "fetch", t |-> clock]]
        /\ UNCHANGED <<clock, snaps, rows, refinalized>>
        /\ crossed' = (crossed \/ Busy(Consumer) \/ SameTimestamp)
    BY DEF TakeSnapshot, Start, db
  <1>2. /\ \A a \in Actors : a = Consumer \/ a = Operator
        /\ job'[Operator] = [stage |-> "fetch", t |-> clock] /\ job'[Consumer] = job[Consumer]
        /\ clock <= clock'
    BY <1>1, LedgerAssumption DEF TypeOK, Actors
  <1> QED
    BY <1>1, <1>2, NewCycleIsQuiet, DatabaseUntouched DEF Busy

\* An actor that does nothing disturbs nothing.
LEMMA IdleIsQuiet == QuietJob(Idle)
  BY DEF QuietJob, Idle, Measuring

\* The scheduled finalization closes yesterday, which is over.
LEMMA BeginFinalizationKeeps ==
    ASSUME TypeOK, TypeOK', LedgerInv, BeginFinalization
    PROVE  LedgerInv'
  <1> DEFINE d == Day(clock) - 1
  <1>0. d \in Int /\ d < Day(clock)
    BY DayTypes DEF TypeOK
  <1>1. PICK j : job' = [job EXCEPT ![Consumer] = j] /\ QuietJob(j)
    BY <1>0, IdleIsQuiet, NewFinalizationIsQuiet DEF BeginFinalization, Start
  <1>2. /\ UNCHANGED <<clock, snaps, rows, refinalized>>
        /\ crossed' = (crossed \/ Busy(Operator))
    BY DEF BeginFinalization, db
  <1>3. /\ \A a \in Actors : a = Consumer \/ a = Operator
        /\ job'[Consumer] = j /\ job'[Operator] = job[Operator]
        /\ clock <= clock'
    BY <1>1, <1>2, LedgerAssumption DEF TypeOK, Actors
  <1> QED
    BY <1>1, <1>2, <1>3, DatabaseUntouched DEF Busy

\* A finalization by hand that crosses nothing closes a day that is over: not
\* today, and not a day to come, which has no snapshot.
LEMMA FinalizeByHandKeeps ==
    ASSUME TypeOK, TypeOK', LedgerInv, NEW d \in Days, FinalizeByHand(d)
    PROVE  LedgerInv'
  <1>1. PICK s \in LastOf(OnDay(d)) : job' = [job EXCEPT ![Operator] = FinalizeJob(d, s)]
    BY DEF FinalizeByHand, Start
  <1>2. /\ UNCHANGED <<clock, snaps, rows, refinalized>>
        /\ crossed' = (crossed \/ Busy(Consumer) \/ d = Day(clock))
    BY DEF FinalizeByHand, db
  <1>3. ~crossed => d \in Int /\ Day(clock) \in Int /\ d <= Day(clock)
    <2>1. s \in snaps /\ d = Day(s.t) /\ s.t \in 0..MaxTime /\ clock \in 0..MaxTime
      BY SnapshotsOfDays DEF TypeOK, Snapshot, Days
    <2>2. ~crossed => s.t <= clock
      BY <2>1 DEF LedgerInv, Quiet
    <2> QED
      BY <2>1, <2>2, DayTypes, DayMonotone
  <1>4. ASSUME ~crossed' PROVE QuietJob(FinalizeJob(d, s))
    <2>1. d # Day(clock) /\ ~crossed
      BY <1>2, <1>4
    <2>2. d < Day(clock) /\ d \in Int
      BY <1>3, <2>1
    <2> QED
      BY <2>2, NewFinalizationIsQuiet
  <1>5. /\ \A a \in Actors : a = Consumer \/ a = Operator
        /\ job'[Operator] = FinalizeJob(d, s) /\ job'[Consumer] = job[Consumer]
        /\ clock <= clock'
    BY <1>1, <1>2, LedgerAssumption DEF TypeOK, Actors
  <1> QED
    <2>1. ~crossed' => ~crossed /\ job[Consumer] = Idle
      BY <1>2 DEF Busy
    <2> QED
      BY <1>2, <1>4, <1>5, <2>1, DatabaseUntouched

\* What compute_pnl() answers is the value of the last snapshot of the days
\* before, and what the book has moved since.
LEMMA FetchIsMeasured ==
    ASSUME TypeOK, LedgerInv, ~crossed, NEW t \in 0..MaxTime, NEW seen \in Levels,
           NEW pv \in PortfolioValue(seen, RowOf(Day(t) - 1), LastOf(BeforeDay(Day(t))))
    PROVE  Measured([t |-> t, seen |-> seen, pv |-> pv])
  <1> DEFINE d == Day(t)
             refs == LastOf(BeforeDay(d))
  <1>1. SUFFICES ASSUME BeforeDay(d) # {}
                 PROVE  \E b \in refs : pv - b.pv = seen - b.seen
    BY DEF Measured
  <1>2. d \in Days /\ d \in Int /\ refs # {}
    BY <1>1, DayType, DayTypes DEF LedgerInv, Past
  <1>3. \A r \in refs : /\ r \in snaps /\ r \in BeforeDay(d)
                        /\ r.pv \in Int /\ r.seen \in Int /\ seen \in Int /\ r.t \in 0..MaxTime
    <2>1. refs \subseteq BeforeDay(d) /\ BeforeDay(d) \subseteq Snapshot /\ BeforeDay(d) \subseteq snaps
      <3> HIDE DEF d
      <3> QED
        BY <1>2, SnapshotsOfDays
    <2>2. \A r \in Snapshot : r.pv \in Int /\ r.seen \in Int /\ r.t \in 0..MaxTime
      BY LedgerAssumption DEF Snapshot
    <2>3. seen \in Int
      BY LedgerAssumption
    <2> HIDE DEF d, refs
    <2> QED
      BY <2>1, <2>2, <2>3
  <1>4. ASSUME RowOf(d - 1) # NoRow, NEW r \in refs
        PROVE  RowOf(d - 1).pv = r.pv
    <2>1. d - 1 \in Finalized /\ RowOf(d - 1) = rows[d - 1]
      BY <1>4 DEF RowOf, Finalized
    <2>2. PICK s \in LastOf(OnDay(d - 1)) : rows[d - 1].pv = s.pv
      BY <2>1 DEF LedgerInv, Quiet, HasRowOf
    <2>3. s \in snaps /\ s.t \in 0..MaxTime /\ Day(s.t) = d - 1
      BY <1>2, SnapshotsOfDays DEF Snapshot
    <2>4. s \in BeforeDay(d)
      BY <1>2, <2>3 DEF BeforeDay
    <2>5. s.t <= r.t
      BY <2>4 DEF LastOf
    <2>6. Day(s.t) <= Day(r.t) /\ Day(r.t) < d /\ Day(r.t) \in Int
      BY <1>3, <2>3, <2>5, DayMonotone, DayTypes DEF BeforeDay
    <2>7. r \in OnDay(d - 1)
      BY <1>2, <1>3, <2>3, <2>6 DEF OnDay
    <2>8. r.t <= s.t
      BY <2>7 DEF LastOf
    <2>9. r.t = s.t
      BY <1>3, <2>3, <2>5, <2>8
    <2> QED
      BY <1>3, <2>1, <2>2, <2>3, <2>9 DEF LedgerInv, Quiet
  <1>5. \E r \in refs : pv = r.pv + (seen - r.seen)
    BY <1>2, <1>4 DEF PortfolioValue
  <1> QED
    BY <1>3, <1>5

\* The readers answer, and the snapshot is measured.
LEMMA FetchKeeps ==
    ASSUME TypeOK, TypeOK', LedgerInv, NEW a \in Actors, Fetch(a)
    PROVE  LedgerInv'
  <1> DEFINE t == job[a].t
             refs == LastOf(BeforeDay(Day(t)))
             answer(seen, pv) == [stage |-> "store", row |-> [t |-> t, seen |-> seen, pv |-> pv]]
  <1>1. /\ job[a].stage = "fetch" /\ t \in 0..MaxTime
        /\ UNCHANGED <<clock, snaps, rows, crossed, refinalized>>
    <2>1. job[a] \in Job /\ job[a].stage = "fetch"
      BY DEF TypeOK, Fetch
    <2> QED
      BY <2>1, JobTypes DEF Fetch, db
  <1>2. PICK seen \in Levels :
          \E pv \in PortfolioValue(seen, RowOf(Day(t) - 1), refs) :
             job' = [job EXCEPT ![a] = answer(seen, pv)]
    BY DEF Fetch
  <1>3. PICK pv \in PortfolioValue(seen, RowOf(Day(t) - 1), refs) :
          job' = [job EXCEPT ![a] = answer(seen, pv)]
    BY <1>2
  <1>4. ASSUME ~crossed PROVE QuietJob(answer(seen, pv))
    <2> DEFINE j == answer(seen, pv)
    <2>1. Measured(j.row)
      BY <1>1, <1>4, FetchIsMeasured
    <2>2. TimeOf(j) = t /\ TimeOf(job[a]) = t /\ j.stage = "store" /\ job[a].stage \in Measuring
      BY <1>1 DEF TimeOf, Measuring
    <2>3. QuietJob(job[a])
      BY <1>4 DEF LedgerInv, Quiet
    <2> HIDE DEF j
    <2>4. QuietJob(j)
      BY <2>1, <2>2, <2>3 DEF QuietJob
    <2> QED
      BY <2>4 DEF j
  <1>5. \A b \in Actors \ {a} : job'[b] = job[b] /\ (~crossed => job[b] = Idle)
    <2>1. Busy(a)
      BY <1>1 DEF Busy, Idle
    <2> QED
      BY <1>3, <2>1 DEF TypeOK, LedgerInv, Quiet, Busy
  <1>6. job'[a] = answer(seen, pv) /\ clock <= clock'
    BY <1>1, <1>3, LedgerAssumption DEF TypeOK
  <1> HIDE DEF answer
  <1> QED
    BY <1>1, <1>4, <1>5, <1>6, DatabaseUntouched

\* A snapshot that is stored is later than all there are, so no day that has a
\* row, and no day an earlier snapshot is measured against, gets another one.
LEMMA StoreKeeps ==
    ASSUME TypeOK, TypeOK', LedgerInv, NEW a \in Actors, Store(a)
    PROVE  LedgerInv'
  <1> DEFINE row == job[a].row
             D == Day(row.t)
  <1>1. /\ job[a].stage = "store" /\ row \in Snapshot /\ job' = [job EXCEPT ![a] = Idle]
        /\ snaps' = snaps \cup {row}
        /\ UNCHANGED <<clock, rows, crossed, refinalized>>
    <2>1. job[a] \in Job /\ job[a].stage = "store"
      BY DEF TypeOK, Store
    <2> QED
      BY <2>1, JobTypes DEF Store
  <1>2. \A s \in snaps \cup {row} : s.t \in Int /\ Day(s.t) \in Int
    BY <1>1, DayTypes DEF TypeOK, Snapshot
  <1>3. \A d : /\ OnDay(d)' = IF D = d THEN OnDay(d) \cup {row} ELSE OnDay(d)
               /\ BeforeDay(d)' = IF D < d THEN BeforeDay(d) \cup {row} ELSE BeforeDay(d)
    BY <1>1 DEF OnDay, BeforeDay, Day
  <1>4. \A S : LastOf(S)' = LastOf(S)
    BY DEF LastOf
  <1>5. Past'
    <2> SUFFICES ASSUME NEW d \in Days, BeforeDay(d)' # {}
                 PROVE  LastOf(BeforeDay(d))' # {}
      BY <1>1 DEF Past, Days
    <2>1. CASE BeforeDay(d)' = BeforeDay(d)
      BY <1>4, <2>1 DEF LedgerInv, Past
    <2>2. CASE BeforeDay(d)' = BeforeDay(d) \cup {row} /\ BeforeDay(d) = {}
      BY <1>2, <2>2 DEF LastOf
    <2>3. CASE BeforeDay(d)' = BeforeDay(d) \cup {row} /\ BeforeDay(d) # {}
      <3>1. PICK b \in BeforeDay(d) : \A o \in BeforeDay(d) : o.t <= b.t
        BY <2>3 DEF LedgerInv, Past, LastOf
      <3>2. BeforeDay(d) \subseteq snaps
        BY DEF BeforeDay
      <3>3. CASE row.t <= b.t
        BY <1>2, <2>3, <3>1, <3>2, <3>3 DEF LastOf
      <3>4. CASE b.t <= row.t
        BY <1>2, <2>3, <3>1, <3>2, <3>4 DEF LastOf
      <3> QED
        BY <1>2, <3>2, <3>3, <3>4
    <2> QED
      BY <1>3, <2>1, <2>2, <2>3
  <1>6. (~crossed /\ ~refinalized => MaxInOrder)'
    BY <1>1 DEF LedgerInv, MaxInOrder, Finalized
  <1>7. ASSUME ~crossed PROVE Quiet'
    <2>1. Quiet
      BY <1>7 DEF LedgerInv
    <2>2. /\ row.t <= clock /\ Measured(row)
          /\ \A s \in snaps : s.t < row.t
          /\ \A d \in Finalized : d < D
      BY <1>1, <2>1 DEF Quiet, QuietJob, TimeOf, Measuring
    <2>3. \A b \in Actors : job'[b] = Idle
      <3>1. Busy(a)
        BY <1>1 DEF Busy, Idle
      <3> QED
        BY <1>1, <2>1, <3>1 DEF TypeOK, Quiet, Busy
    <2>4. (\A b \in Actors : QuietJob(job[b]))' /\ (\A b, c \in Actors : Busy(b) /\ Busy(c) => b = c)'
      BY <2>3 DEF QuietJob, Measuring, Idle, Busy
    <2>5. (\A s \in snaps : s.t <= clock)' /\ (\A s, o \in snaps : s.t = o.t => s = o)'
      BY <1>1, <1>2, <2>1, <2>2 DEF Quiet
    <2>6. (\A s \in snaps : Measured(s))'
      <3> SUFFICES ASSUME NEW s \in snaps' PROVE Measured(s)'
        OBVIOUS
      <3>1. Measured(s)
        BY <1>1, <2>1, <2>2 DEF Quiet
      <3>2. Day(s.t) <= D
        BY <1>1, <1>2, <2>2, DayMonotone
      <3>3. BeforeDay(Day(s.t))' = BeforeDay(Day(s.t))
        BY <1>1, <1>2, <1>3, <3>2
      <3> QED
        BY <1>4, <3>1, <3>3 DEF Measured
    <2>7. (\A d \in Finalized : d < Day(clock) /\ HasRowOf(d, rows[d].pv))'
      <3> SUFFICES ASSUME NEW d \in Finalized
                   PROVE  d < Day(clock) /\ HasRowOf(d, rows[d].pv)'
        BY <1>1 DEF Finalized, Day
      <3>1. d < Day(clock) /\ HasRowOf(d, rows[d].pv) /\ d < D /\ d \in Int
        BY <2>1, <2>2 DEF Quiet, Finalized, Days
      <3>2. OnDay(d)' = OnDay(d)
        BY <1>1, <1>2, <1>3, <3>1
      <3> QED
        BY <1>1, <1>4, <3>1, <3>2 DEF HasRowOf
    <2> QED
      BY <2>4, <2>5, <2>6, <2>7 DEF Quiet
  <1> QED
    BY <1>1, <1>5, <1>6, <1>7 DEF LedgerInv

\* What is looked up among the snapshots changes with them only.
LEMMA SameSnapshots ==
    ASSUME UNCHANGED snaps
    PROVE  /\ \A d : BeforeDay(d)' = BeforeDay(d)
           /\ \A S : LastOf(S)' = LastOf(S)
           /\ \A d, pv : HasRowOf(d, pv)' = HasRowOf(d, pv)
           /\ \A s : Measured(s)' = Measured(s)
  <1>1. /\ \A d : OnDay(d)' = OnDay(d) /\ BeforeDay(d)' = BeforeDay(d)
        /\ \A S : LastOf(S)' = LastOf(S)
    BY DEF OnDay, BeforeDay, LastOf
  <1> QED
    BY <1>1 DEF HasRowOf, Measured

\* A row is written of the day's last snapshot; its maximum is that of the rows
\* there are, which are those of earlier days when the days come in order.
LEMMA WriteRowKeeps ==
    ASSUME TypeOK, TypeOK', LedgerInv, NEW a \in Actors, WriteRow(a)
    PROVE  LedgerInv'
  <1> DEFINE D == job[a].day
             r == job[a].row
  <1>1. /\ job[a].stage = "write" /\ D \in Days /\ r \in Row /\ job' = [job EXCEPT ![a] = Idle]
        /\ rows' = [rows EXCEPT ![D] = r]
        /\ UNCHANGED <<clock, snaps, crossed>>
        /\ refinalized' = (refinalized \/ \E e \in Finalized : e > D)
    <2>1. job[a] \in Job /\ job[a].stage = "write"
      BY DEF TypeOK, WriteRow
    <2> QED
      BY <2>1, JobTypes DEF WriteRow
  <1>2. Finalized' = Finalized \cup {D} /\ Finalized \subseteq Int /\ D \in Int
    <2>1. r # NoRow
      BY <1>1, LedgerAssumption DEF Row
    <2> QED
      BY <1>1, <2>1 DEF Finalized, Days, TypeOK
  <1>3. rows'[D] = r /\ \A d \in Finalized \ {D} : rows'[d] = rows[d]
    BY <1>1 DEF TypeOK, Finalized
  <1>4. Past'
    BY <1>1, SameSnapshots DEF LedgerInv, Past
  <1>5. ASSUME ~crossed PROVE Quiet'
    <2>1. Quiet
      BY <1>5 DEF LedgerInv
    <2>2. D < Day(clock) /\ HasRowOf(D, r.pv)
      BY <1>1, <2>1 DEF Quiet, QuietJob
    <2>3. \A b \in Actors : job'[b] = Idle
      <3>1. Busy(a)
        BY <1>1 DEF Busy, Idle
      <3> QED
        BY <1>1, <2>1, <3>1 DEF TypeOK, Quiet, Busy
    <2>4. (\A b \in Actors : QuietJob(job[b]))' /\ (\A b, c \in Actors : Busy(b) /\ Busy(c) => b = c)'
      BY <2>3 DEF QuietJob, Measuring, Idle, Busy
    <2>5. (\A d \in Finalized : d < Day(clock) /\ HasRowOf(d, rows[d].pv))'
      BY <1>1, <1>2, <1>3, <2>1, <2>2, SameSnapshots DEF Quiet
    <2>6. /\ (\A s \in snaps : s.t <= clock)' /\ (\A s, o \in snaps : s.t = o.t => s = o)'
          /\ (\A s \in snaps : Measured(s))'
      BY <1>1, <2>1, SameSnapshots DEF Quiet
    <2> QED
      BY <2>4, <2>5, <2>6 DEF Quiet
  <1>6. ASSUME ~crossed, ~refinalized' PROVE MaxInOrder'
    <2>1. MaxInOrder /\ \A e \in Finalized : e <= D
      <3>1. ~refinalized /\ \A e \in Finalized : ~(e > D)
        BY <1>1, <1>6
      <3>2. \A e \in Finalized : e \in Int /\ (~(e > D) => e <= D)
        BY <1>2
      <3> QED
        BY <1>6, <3>1, <3>2 DEF LedgerInv
    <2>2. r.max = RollingMax(D, r.pv)
      BY <1>1, <1>6 DEF LedgerInv, Quiet, QuietJob
    <2> SUFFICES ASSUME NEW d \in Finalized \cup {D}
                 PROVE  rows'[d].max = Largest({rows'[e].pv : e \in (Finalized \cup {D}) \cap 0..d})
      BY <1>2 DEF MaxInOrder
    <2>3. CASE d = D
      <3>1. (Finalized \cup {D}) \cap 0..D = {D} \cup (Finalized \ {D})
        <4>1. Finalized \cup {D} \subseteq Nat
          BY <1>1, LedgerAssumption DEF Finalized, Days
        <4> QED
          BY <1>2, <2>1, <4>1
      <3>2. {rows'[e].pv : e \in {D} \cup (Finalized \ {D})} = {r.pv} \cup {rows[e].pv : e \in Finalized \ {D}}
        BY <1>3
      <3> QED
        BY <1>3, <2>2, <2>3, <3>1, <3>2 DEF RollingMax
    <2>4. CASE d # D
      <3>1. d \in Finalized /\ (Finalized \cup {D}) \cap 0..d = Finalized \cap 0..d
            /\ D \notin 0..d
        BY <1>2, <2>1, <2>4
      <3>2. {rows'[e].pv : e \in Finalized \cap 0..d} = {rows[e].pv : e \in Finalized \cap 0..d}
        BY <1>3, <3>1
      <3> QED
        BY <1>3, <2>1, <2>4, <3>1, <3>2 DEF MaxInOrder
    <2> QED
      BY <2>3, <2>4
  <1> QED
    BY <1>1, <1>4, <1>5, <1>6 DEF LedgerInv

\* The ledger's invariant: the jobs that nothing crossed measure against what is
\* still the last snapshot when they write.
THEOREM LedgerCorrect == Spec => []LedgerInv
  <1>1. Init => LedgerInv
    BY DEF Init, LedgerInv, Past, Quiet, MaxInOrder, QuietJob, Measuring, Idle, Busy,
           BeforeDay, Finalized
  <1>2. TypeOK /\ TypeOK' /\ LedgerInv /\ [Next]_vars => LedgerInv'
    <2> SUFFICES ASSUME TypeOK, TypeOK', LedgerInv, [Next]_vars PROVE LedgerInv'
      OBVIOUS
    <2>1. ASSUME UNCHANGED <<snaps, rows, refinalized, crossed, job>>, clock <= clock'
          PROVE  LedgerInv'
      BY <2>1, DatabaseUntouched
    <2>2. clock \in Int
      BY LedgerAssumption DEF TypeOK
    <2>3. CASE Tick \/ DropCycle \/ Boot \/ UNCHANGED vars
      BY <2>1, <2>2, <2>3 DEF Tick, DropCycle, Boot, vars, db
    <2>4. CASE Kill
      <3>1. /\ UNCHANGED <<clock, snaps, rows, refinalized, crossed>>
            /\ job' = [job EXCEPT ![Consumer] = Idle]
        BY <2>4 DEF Kill, db
      <3>2. \A a \in Actors : job'[a] = job[a] \/ job'[a] = Idle
        BY <3>1 DEF TypeOK
      <3> QED
        BY <2>2, <3>1, <3>2, IdleIsQuiet, DatabaseUntouched
    <2> QED
      BY <2>3, <2>4, BeginCycleKeeps, TakeSnapshotKeeps, BeginFinalizationKeeps,
         FinalizeByHandKeeps, FetchKeeps, StoreKeeps, WriteRowKeeps DEF Next, Over
  <1> QED
    BY <1>1, <1>2, TypeCorrect, PTL DEF Spec

\* A snapshot is worth what the last one of the earlier days is worth plus what
\* the book has moved since (compute_pnl()), whichever days were finalized, unless
\* two actors worked at once or a day was closed before its end.
THEOREM LedgerTelescopes == Spec => []Telescopes
  <1>1. LedgerInv => Telescopes
    BY DEF LedgerInv, Quiet, Measured, Telescopes
  <1> QED
    BY <1>1, LedgerCorrect, PTL

\* The row of a day is that of its last snapshot (finalize_daily()), unless two
\* actors worked at once or the day was closed before its end.
THEOREM RowsAreLastSnapshots == Spec => []RowIsLastSnapshot
  <1>1. LedgerInv => RowIsLastSnapshot
    BY DEF LedgerInv, Quiet, HasRowOf, RowIsLastSnapshot
  <1> QED
    BY <1>1, LedgerCorrect, PTL

\* "computes drawdown from prior max" (tests/test_collector.py): rolling_max is
\* the highest value up to its day, while the days are finalized in order.
THEOREM RollingMaxIsInOrder == Spec => []RollingMaxInOrder
  <1>1. LedgerInv => RollingMaxInOrder
    BY DEF LedgerInv, MaxInOrder, RollingMaxInOrder
  <1> QED
    BY <1>1, LedgerCorrect, PTL

-----------------------------------------------------------------------------
\* A task stays in the queue when others are put in ...
LEMMA StaysInFront ==
    ASSUME NEW q \in Seq(Task), NEW p \in Seq(Task), NEW x, \E i \in DOMAIN q : q[i] = x
    PROVE  \E i \in DOMAIN (q \o p) : (q \o p)[i] = x
  <1> PICK i \in DOMAIN q : q[i] = x
    OBVIOUS
  <1>1. DOMAIN q = 1..Len(q) /\ Len(q) \in Nat /\ Len(p) \in Nat
    OBVIOUS
  <1>2. i \in DOMAIN (q \o p) /\ (q \o p)[i] = x
    BY <1>1
  <1> QED
    BY <1>2

\* ... and when another one is taken from the head.
LEMMA StaysBehind ==
    ASSUME NEW q \in Seq(Task), NEW x, \E i \in DOMAIN q : q[i] = x, Head(q) # x
    PROVE  \E i \in DOMAIN Tail(q) : Tail(q)[i] = x
  <1> PICK i \in DOMAIN q : q[i] = x
    OBVIOUS
  <1>1. DOMAIN q = 1..Len(q) /\ Len(q) \in Nat
    OBVIOUS
  <1>2. i # 1
    BY <1>1
  <1>3. q # << >> /\ Len(Tail(q)) = Len(q) - 1 /\ Tail(q) \in Seq(Task)
    BY <1>1
  <1>4. DOMAIN Tail(q) = 1..(Len(q) - 1) /\ i - 1 \in 1..(Len(q) - 1)
    BY <1>1, <1>2, <1>3
  <1>5. Tail(q)[i - 1] = x
    BY <1>1, <1>2, <1>3, <1>4
  <1> QED
    BY <1>4, <1>5

\* The finalization of a day is due on the day after.
LEMMA DueTickIs ==
    ASSUME NEW d \in Days
    PROVE  /\ d \in Int /\ DueTick(d) \in Int /\ DueTick(d) % TicksPerDay = FinalTick
           /\ Day(DueTick(d)) = d + 1
  <1>1. /\ TicksPerDay \in Nat /\ TicksPerDay > 0 /\ FinalTick \in Int
        /\ 0 <= FinalTick /\ FinalTick < TicksPerDay
    BY LedgerAssumption
  <1>2. d \in Int /\ d + 1 \in Int
    BY DEF Days
  <1>3. DueTick(d) \in Int
    BY <1>1, <1>2 DEF DueTick
  <1> DEFINE n == TicksPerDay
             e == d + 1
  <1>4. (e + 1) * n = e * n + n /\ e * n \in Int
    BY <1>1, <1>2
  <1>5. e * n <= DueTick(d) /\ DueTick(d) < (e + 1) * n
    BY <1>1, <1>2, <1>4 DEF DueTick
  <1>6. Day(DueTick(d)) = e
    BY <1>2, <1>3, <1>5, DayUnique
  <1>7. DueTick(d) % n = DueTick(d) - n * (DueTick(d) \div n)
    BY <1>1, <1>3
  <1> QED
    BY <1>1, <1>2, <1>3, <1>4, <1>6, <1>7 DEF DueTick, Day

\* A day whose finalization is due is over.
LEMMA DueIsOver ==
    ASSUME TypeOK, NEW d \in Days, DueTick(d) <= clock
    PROVE  Day(clock) # d
  <1>1. clock \in Int /\ Day(clock) \in Int
    BY DayTypes DEF TypeOK
  <1>2. d + 1 <= Day(clock)
    BY <1>1, DueTickIs, DayMonotone
  <1> QED
    BY <1>1, <1>2, DueTickIs

\* A due finalization is in the queue until it begins, it closes the day it was
\* due for, and nothing measures that day any more; one the consumer is down
\* for, or killed in, is missed.
LEMMA DueInvKept ==
    ASSUME TypeOK, TypeOK', DueInv, [Next]_vars
    PROVE  DueInv'
  <1> SUFFICES ASSUME ~slipped', ~crossed', NEW d \in Days, d \notin missed', DueTick(d) <= clock'
               PROVE  Queued(d)' \/ Settled(d)'
    BY DEF DueInv, Days, DueTick
  <1>3. d \notin missed
    BY DEF Next, Over, vars, Tick, DropCycle, BeginCycle, TakeSnapshot, BeginFinalization,
           FinalizeByHand, Fetch, Store, WriteRow, Kill, Boot
  <1>4. Queued(d)' \/ Settled(d)'
    <2> DEFINE task == [kind |-> "finalize", t |-> DueTick(d)]
    <2>0. ~slipped /\ ~crossed
      <3>1. CASE Tick \/ DropCycle \/ UNCHANGED vars
        BY <3>1 DEF Tick, DropCycle, vars
      <3>2. CASE BeginCycle \/ TakeSnapshot
        <4>1. \E b : crossed' = (crossed \/ Busy(b) \/ SameTimestamp) /\ slipped' = slipped
          BY <3>2 DEF BeginCycle, TakeSnapshot
        <4>2. crossed \in BOOLEAN /\ crossed' \in BOOLEAN
          BY DEF TypeOK
        <4>3. crossed => crossed'
          BY <4>1, <4>2, Zenon
        <4> QED
          BY <4>1, <4>3
      <3>3. CASE BeginFinalization
        BY <3>3 DEF BeginFinalization
      <3>4. CASE \E e \in Days : FinalizeByHand(e)
        <4>1. \E e : crossed' = (crossed \/ Busy(Consumer) \/ e = Day(clock)) /\ slipped' = slipped
          BY <3>4 DEF FinalizeByHand
        <4>2. crossed \in BOOLEAN /\ crossed' \in BOOLEAN
          BY DEF TypeOK
        <4>3. crossed => crossed'
          BY <4>1, <4>2, Zenon
        <4> QED
          BY <4>1, <4>3
      <3>5. CASE \E a \in Actors : Fetch(a) \/ Store(a) \/ WriteRow(a)
        BY <3>5 DEF Fetch, Store, WriteRow
      <3>6. CASE Kill \/ Boot
        BY <3>6 DEF Kill, Boot
      <3> QED
        BY <3>1, <3>2, <3>3, <3>4, <3>5, <3>6 DEF Next, Over
    <2>1. DueTick(d) <= clock => Queued(d) \/ Settled(d)
      BY <1>3, <2>0 DEF DueInv
    <2>2. Queued(d) <=> \E i \in DOMAIN queue : queue[i] = task
      BY DEF Queued
    <2>3. Queued(d)' <=> \E i \in DOMAIN queue' : queue'[i] = task
      BY DEF Queued, DueTick
    <2>4. queue \in Seq(Task) /\ job \in [Actors -> Job] /\ Consumer \in Actors /\ Operator \in Actors
      BY DEF TypeOK, Actors
    <2> HIDE DEF task
    <2>5. ASSUME queue' = queue \/ (queue' = Tail(queue) /\ Head(queue) # task), Queued(d)
          PROVE  Queued(d)'
      <3>1. CASE queue' = queue
        BY <2>2, <2>3, <2>5, <3>1
      <3>2. CASE queue' = Tail(queue) /\ Head(queue) # task
        <4>1. \E i \in DOMAIN Tail(queue) : Tail(queue)[i] = task
          BY <2>2, <2>4, <2>5, <3>2, StaysBehind
        <4> QED
          BY <2>3, <3>2, <4>1
      <3> QED
        BY <2>5, <3>1, <3>2
    \* A step that finalizes no day and stores nothing, and starts to measure no day but today.
    <2>6. ASSUME Settled(d), UNCHANGED snaps, Finalized \subseteq Finalized', NEW x \in Actors,
                 NEW j, job' = [job EXCEPT ![x] = j],
                 x = Consumer => job[x].stage # "write" \/ j = job[x],
                 j.stage \in Measuring => Day(TimeOf(j)) # d \/ (job[x].stage \in Measuring /\ TimeOf(j) = TimeOf(job[x]))
          PROVE  Settled(d)'
      <3>1. job'[x] = j /\ \A a \in Actors \ {x} : job'[a] = job[a]
        BY <2>4, <2>6
      <3>2. OnDay(d)' = OnDay(d)
        BY <2>6 DEF OnDay
      <3>3. CASE d \in Finalized
        BY <2>6, <3>3 DEF Settled
      <3>4. CASE job[Consumer].stage = "write" /\ job[Consumer].day = d
        BY <2>6, <2>4, <3>1, <3>4 DEF Settled
      <3>5. CASE /\ OnDay(d) = {}
                 /\ \A a \in Actors : job[a].stage \in Measuring => Day(TimeOf(job[a])) # d
        <4>1. \A a \in Actors : job'[a].stage \in Measuring => Day(TimeOf(job'[a])) # d
          BY <2>6, <3>1, <3>5
        <4> QED
          BY <3>2, <3>5, <4>1 DEF Settled, Day, TimeOf
      <3> QED
        BY <2>6, <3>3, <3>4, <3>5 DEF Settled
    <2>7. ASSUME UNCHANGED <<snaps, rows, job>>, Settled(d) PROVE Settled(d)'
      BY <2>7 DEF Settled, OnDay, Finalized, TimeOf, Day
    <2>8. CASE Tick
      <3>1. clock \in Int /\ DueTick(d) \in Int /\ DueTick(d) % TicksPerDay = FinalTick
        BY DueTickIs, LedgerAssumption DEF TypeOK
      <3>2. /\ queue' = IF up THEN queue \o Due(clock + 1) ELSE queue
            /\ clock' = clock + 1 /\ UNCHANGED <<snaps, rows, job>>
            /\ up \/ DueTick(d) # clock + 1
        BY <2>8 DEF Tick, db
      <3>3. clock + 1 \in 0..MaxTime
        BY <2>8 DEF Tick, TypeOK
      <3>4. Due(clock + 1) \in Seq(Task)
        <4>1. \A t \in 0..MaxTime : <<[kind |-> "cycle", t |-> t]>> \in Seq(Task)
                /\ <<[kind |-> "finalize", t |-> t]>> \in Seq(Task) /\ << >> \in Seq(Task)
          BY DEF Task
        <4> QED
          BY <3>3, <4>1 DEF Due
      <3>5. CASE DueTick(d) <= clock /\ Queued(d)
        <4>1. \E i \in DOMAIN (queue \o Due(clock + 1)) : (queue \o Due(clock + 1))[i] = task
          BY <2>2, <2>4, <3>4, <3>5, StaysInFront
        <4> QED
          BY <2>2, <2>3, <3>2, <3>5, <4>1
      <3>6. CASE DueTick(d) <= clock /\ Settled(d)
        BY <2>7, <3>2, <3>6
      <3>7. CASE DueTick(d) = clock + 1
        <4>1. Due(clock + 1) = <<[kind |-> "cycle", t |-> clock + 1]>> \o <<task>>
          BY <3>1, <3>7 DEF Due, task
        <4>2. Len(Due(clock + 1)) = 2 /\ Due(clock + 1)[2] = task
          BY <4>1
        <4>3. Len(queue) + 2 \in DOMAIN (queue \o Due(clock + 1))
              /\ (queue \o Due(clock + 1))[Len(queue) + 2] = task
          BY <2>4, <3>4, <4>2
        <4> QED
          BY <2>3, <3>2, <3>7, <4>3
      <3> QED
        BY <2>1, <3>1, <3>2, <3>5, <3>6, <3>7
    <2>9. CASE DropCycle
      <3>1. /\ queue' = Tail(queue) /\ Head(queue).kind = "cycle"
            /\ UNCHANGED <<clock, snaps, rows, job>>
        BY <2>9 DEF DropCycle, db
      <3>2. Head(queue) # task
        BY <3>1 DEF task
      <3> QED
        BY <2>1, <2>5, <2>7, <3>1, <3>2
    <2>10. CASE UNCHANGED vars
      BY <2>1, <2>5, <2>7, <2>10 DEF vars
    <2>11. CASE BeginCycle \/ TakeSnapshot
      <3>1. PICK x \in Actors : job[x] = Idle /\ job' = [job EXCEPT ![x] = [stage |-> "fetch", t |-> clock]]
        BY <2>4, <2>11 DEF BeginCycle, TakeSnapshot, Start, Busy
      <3>2. UNCHANGED <<clock, snaps, rows>> /\ Finalized' = Finalized
        BY <2>11 DEF BeginCycle, TakeSnapshot, db, Finalized
      <3>3. queue' = queue \/ (queue' = Tail(queue) /\ Head(queue) # task)
        BY <2>11 DEF BeginCycle, TakeSnapshot, task
      <3>4. Day(clock) # d
        BY <3>2, DueIsOver
      <3> DEFINE j == [stage |-> "fetch", t |-> clock]
      <3>5. j.stage = "fetch" /\ TimeOf(j) = clock /\ job[x].stage # "write"
        BY <3>1 DEF TimeOf, Idle
      <3> HIDE DEF j
      <3>6. Settled(d) => Settled(d)'
        BY <2>6, <3>1, <3>2, <3>4, <3>5 DEF j
      <3> QED
        BY <2>1, <2>5, <3>2, <3>3, <3>6
    <2>12. CASE BeginFinalization
      <3>1. /\ queue' = Tail(queue) /\ queue # << >> /\ Head(queue).kind = "finalize"
            /\ UNCHANGED <<clock, snaps, rows>> /\ Finalized' = Finalized
            /\ Day(Head(queue).t) = Day(clock) /\ job[Operator] = Idle /\ job[Consumer] = Idle
        BY <2>12 DEF BeginFinalization, Start, Busy, db, Finalized
      <3> DEFINE D == Day(clock) - 1
      <3>2. PICK j : /\ job' = [job EXCEPT ![Consumer] = j]
                     /\ \/ OnDay(D) = {} /\ j = Idle
                        \/ j.stage = "write" /\ j.day = D
        <4>1. CASE OnDay(D) = {} /\ Start(Consumer, Idle)
          BY <4>1 DEF Start
        <4>2. ASSUME NEW s \in LastOf(OnDay(D)), Start(Consumer, FinalizeJob(D, s))
              PROVE  /\ job' = [job EXCEPT ![Consumer] = FinalizeJob(D, s)]
                     /\ FinalizeJob(D, s).stage = "write" /\ FinalizeJob(D, s).day = D
          BY <4>2 DEF Start, FinalizeJob
        <4>3. \/ OnDay(D) = {} /\ Start(Consumer, Idle)
              \/ \E s \in LastOf(OnDay(D)) : Start(Consumer, FinalizeJob(D, s))
          BY <2>12 DEF BeginFinalization
        <4> HIDE DEF D
        <4> QED
          BY <4>1, <4>2, <4>3
      <3>3. j.stage \notin Measuring
        BY <3>2 DEF Idle, Measuring
      <3>4. Settled(d) => Settled(d)'
        <4>1. /\ UNCHANGED snaps /\ Finalized \subseteq Finalized' /\ Consumer \in Actors
              /\ job[Consumer].stage # "write" /\ job' = [job EXCEPT ![Consumer] = j]
          BY <2>4, <3>1, <3>2 DEF Idle
        <4> QED
          BY <2>6, <3>3, <4>1
      <3>5. CASE Head(queue) # task
        BY <2>1, <2>5, <3>1, <3>4, <3>5
      <3>6. CASE Head(queue) = task
        <4>1. D = d
          <5>1. Day(DueTick(d)) = Day(clock)
            BY <3>1, <3>6 DEF task
          <5> QED
            BY <5>1, DueTickIs
        <4>2. job'[Consumer] = j /\ \A a \in Actors : a = Consumer \/ job'[a] = Idle
          <5>1. \A a \in Actors : a = Consumer \/ a = Operator
            BY DEF Actors
          <5> QED
            BY <2>4, <3>1, <3>2, <5>1, LedgerAssumption
        <4>3. OnDay(d)' = OnDay(d)
          BY <3>1 DEF OnDay
        <4> HIDE DEF D
        <4>4. CASE OnDay(d) = {} /\ j = Idle
          <5>1. \A a \in Actors : job'[a] = Idle
            BY <4>2, <4>4
          <5> QED
            BY <4>3, <4>4, <5>1 DEF Settled, Idle, Measuring
        <4>5. CASE j.stage = "write" /\ j.day = d
          BY <4>2, <4>5 DEF Settled
        <4> QED
          BY <3>2, <4>1, <4>4, <4>5
      <3> QED
        BY <3>5, <3>6
    <2>13. ASSUME NEW e \in Days, FinalizeByHand(e) PROVE Queued(d)' \/ Settled(d)'
      <3>1. /\ UNCHANGED <<clock, snaps, rows, queue>> /\ Finalized' = Finalized
        BY <2>13 DEF FinalizeByHand, db, Finalized
      <3> PICK s \in LastOf(OnDay(e)) : job' = [job EXCEPT ![Operator] = FinalizeJob(e, s)]
        BY <2>13 DEF FinalizeByHand, Start
      <3> DEFINE j == FinalizeJob(e, s)
      <3>2. job' = [job EXCEPT ![Operator] = j] /\ j.stage = "write"
        BY DEF FinalizeJob
      <3> HIDE DEF j
      <3>3. Settled(d) => Settled(d)'
        BY <2>4, <2>6, <3>1, <3>2, LedgerAssumption DEF Measuring
      <3> QED
        BY <2>1, <2>5, <3>1, <3>3
    <2>14. ASSUME NEW a \in Actors, Fetch(a) PROVE Queued(d)' \/ Settled(d)'
      <3>1. /\ UNCHANGED <<clock, snaps, rows, queue>> /\ Finalized' = Finalized
            /\ job[a].stage = "fetch"
        BY <2>14 DEF Fetch, db, Finalized
      <3>2. PICK j : /\ job' = [job EXCEPT ![a] = j] /\ j.stage = "store"
                     /\ j.row.t = job[a].t
        <4> DEFINE answer(seen, pv) ==
                     [stage |-> "store", row |-> [t |-> job[a].t, seen |-> seen, pv |-> pv]]
        <4>1. PICK seen, pv : job' = [job EXCEPT ![a] = answer(seen, pv)]
          BY <2>14 DEF Fetch
        <4> DEFINE k == answer(seen, pv)
        <4>2. job' = [job EXCEPT ![a] = k] /\ k.stage = "store" /\ k.row.t = job[a].t
          BY <4>1
        <4> HIDE DEF k
        <4> QED
          BY <4>2
      <3>3. TimeOf(j) = TimeOf(job[a]) /\ job[a].stage \in Measuring
        BY <3>1, <3>2 DEF TimeOf, Measuring
      <3>4. Settled(d) => Settled(d)'
        BY <2>6, <3>1, <3>2, <3>3
      <3> QED
        BY <2>1, <2>5, <3>1, <3>4
    <2>15. ASSUME NEW a \in Actors, Store(a) PROVE Queued(d)' \/ Settled(d)'
      <3>1. /\ UNCHANGED <<clock, rows, queue>> /\ Finalized' = Finalized
            /\ snaps' = snaps \cup {job[a].row} /\ job[a].stage = "store"
            /\ job' = [job EXCEPT ![a] = Idle]
        BY <2>15 DEF Store, Finalized
      <3>2. job'[a] = Idle /\ \A b \in Actors \ {a} : job'[b] = job[b]
        BY <2>4, <3>1
      <3>3. ASSUME Settled(d) PROVE Settled(d)'
        <4>1. CASE d \in Finalized
          BY <3>1, <4>1 DEF Settled
        <4>2. CASE job[Consumer].stage = "write" /\ job[Consumer].day = d
          BY <2>4, <3>1, <3>2, <4>2 DEF Settled
        <4>3. CASE /\ OnDay(d) = {}
                   /\ \A b \in Actors : job[b].stage \in Measuring => Day(TimeOf(job[b])) # d
          <5>1. Day(job[a].row.t) # d
            BY <3>1, <4>3 DEF Measuring, TimeOf
          <5>2. OnDay(d)' = {}
            BY <3>1, <4>3, <5>1 DEF OnDay, Day
          <5>3. \A b \in Actors : job'[b].stage \in Measuring => Day(TimeOf(job'[b])) # d
            BY <3>2, <4>3 DEF Idle, Measuring
          <5> QED
            BY <5>2, <5>3 DEF Settled, Day, TimeOf
        <4> QED
          BY <3>3, <4>1, <4>2, <4>3 DEF Settled
      <3> QED
        BY <2>1, <2>5, <3>1, <3>3
    <2>16. ASSUME NEW a \in Actors, WriteRow(a) PROVE Queued(d)' \/ Settled(d)'
      <3>1. /\ UNCHANGED <<clock, snaps, queue>>
            /\ rows' = [rows EXCEPT ![job[a].day] = job[a].row] /\ job[a].stage = "write"
            /\ job' = [job EXCEPT ![a] = Idle]
        BY <2>16 DEF WriteRow
      <3>2. Finalized' = Finalized \cup {job[a].day}
        <4>1. job[a] \in Job
          BY <2>4
        <4>2. job[a].row \in Row /\ job[a].day \in Days
          BY <3>1, <4>1, JobTypes
        <4>3. job[a].row # NoRow
          BY <4>2, LedgerAssumption DEF Row
        <4> QED
          BY <3>1, <4>2, <4>3 DEF TypeOK, Finalized, Days
      <3>3. CASE a = Consumer /\ job[Consumer].day = d
        BY <3>2, <3>3 DEF Settled
      <3>4. CASE ~(a = Consumer /\ job[Consumer].day = d)
        <4>1. job'[a] = Idle /\ \A b \in Actors \ {a} : job'[b] = job[b]
          BY <2>4, <3>1
        <4>2. Settled(d) => Settled(d)'
          <5>1. OnDay(d)' = OnDay(d)
            BY <3>1 DEF OnDay
          <5>2. (\A b \in Actors : job[b].stage \in Measuring => Day(TimeOf(job[b])) # d)
                => \A b \in Actors : job'[b].stage \in Measuring => Day(TimeOf(job'[b])) # d
            BY <4>1 DEF Idle, Measuring
          <5> QED
            BY <2>4, <3>2, <3>4, <4>1, <5>1, <5>2 DEF Settled, Day, TimeOf
        <4> QED
          BY <2>1, <2>5, <3>1, <4>2
      <3> QED
        BY <3>3, <3>4
    <2>17. CASE Kill
      <3>1. /\ UNCHANGED <<clock, snaps, rows, queue>> /\ Finalized' = Finalized
            /\ job' = [job EXCEPT ![Consumer] = Idle]
            /\ job[Consumer].stage = "write" => job[Consumer].day # d
        BY <2>17 DEF Kill, db, Finalized
      <3>2. OnDay(d)' = OnDay(d) /\ \A a \in Actors : job'[a] = job[a] \/ job'[a] = Idle
        BY <2>4, <3>1 DEF OnDay
      <3>3. Settled(d) => Settled(d)'
        <4>1. CASE d \in Finalized
          BY <3>1, <4>1 DEF Settled
        <4>2. CASE /\ OnDay(d) = {}
                   /\ \A a \in Actors : job[a].stage \in Measuring => Day(TimeOf(job[a])) # d
          <5>1. \A a \in Actors : job'[a].stage \in Measuring => Day(TimeOf(job'[a])) # d
            BY <3>2, <4>2 DEF Idle, Measuring
          <5> QED
            BY <3>2, <4>2, <5>1 DEF Settled, Day, TimeOf
        <4> QED
          BY <3>1, <4>1, <4>2 DEF Settled
      <3> QED
        BY <2>1, <2>5, <3>1, <3>3
    <2>18. CASE Boot
      BY <2>1, <2>5, <2>7, <2>18 DEF Boot, db
    <2> QED
      BY <2>8, <2>9, <2>10, <2>11, <2>12, <2>13, <2>14, <2>15, <2>16, <2>17, <2>18 DEF Next, Over
  <1> QED
    BY <1>4

\* Every day that had a snapshot has its row once its finalization is due and
\* no longer queued (run_daily_finalization()), but for those the consumer was
\* down for or killed in, however often it was killed elsewhere; if none waited
\* past midnight and no command crossed one.
THEOREM EveryDayGetsItsRow == Spec => []EveryDayIsFinalized
  <1>1. Init => DueInv
    <2> SUFFICES ASSUME Init, NEW d \in Days PROVE Settled(d)
      BY DEF DueInv
    <2>1. OnDay(d) = {} /\ \A a \in Actors : job[a] = Idle
      BY DEF Init, OnDay
    <2> QED
      BY <2>1 DEF Settled, Idle, Measuring
  <1>2. DueInv => EveryDayIsFinalized
    BY DEF DueInv, Queued, Settled, DueTick, Busy, Idle, EveryDayIsFinalized
  <1> QED
    BY <1>1, <1>2, DueInvKept, TypeCorrect, PTL DEF Spec

-----------------------------------------------------------------------------
\* NeverWedged, with what it takes to follow an update of one actor's job.
LockInv ==
    /\ job = [a \in Actors |-> job[a]]
    /\ NeverWedged

\* The consumer takes the lock and its job in one step and gives both up in
\* another, whatever the operator does meanwhile.
LEMMA OneJobChanges ==
    ASSUME NEW f, f = [a \in Actors |-> f[a]], NEW x \in Actors, NEW j,
           NEW g, g = [f EXCEPT ![x] = j]
    PROVE  /\ g = [a \in Actors |-> g[a]]
           /\ g[x] = j
           /\ \A a \in Actors \ {x} : g[a] = f[a]
  OBVIOUS

\* "a killed worker cannot wedge it" (tracker/tasks.py): the lock is held only
\* by a running cycle or until the consumer is started again, however often it
\* is killed and whatever the operator runs beside it.
THEOREM LockNeverWedges == Spec => []NeverWedged
  <1> USE DEF LockInv, NeverWedged
  <1>1. Init => LockInv
    BY DEF Init, Idle
  <1>2. LockInv /\ [Next]_vars => LockInv'
    <2> SUFFICES ASSUME LockInv, [Next]_vars
                 PROVE  LockInv'
      OBVIOUS
    <2> Consumer \in Actors /\ Operator \in Actors /\ Consumer # Operator
      BY LedgerAssumption DEF Actors
    <2>1. CASE Tick \/ DropCycle \/ Over
      BY <2>1 DEF Tick, DropCycle, Over, vars
    <2>2. CASE BeginCycle
      <3>1. job' = [job EXCEPT ![Consumer] = [stage |-> "fetch", t |-> clock]]
        BY <2>2 DEF BeginCycle, Start
      <3>2. job' = [a \in Actors |-> job'[a]] /\ job'[Consumer].stage = "fetch"
        BY <3>1, OneJobChanges
      <3> QED
        BY <3>2
    <2>3. CASE BeginFinalization
      <3>1. \E j : job' = [job EXCEPT ![Consumer] = j]
        BY <2>3 DEF BeginFinalization, Start
      <3>2. job' = [a \in Actors |-> job'[a]]
        BY <3>1, OneJobChanges
      <3>3. up /\ lock' = lock /\ up' = up /\ job[Consumer] = Idle
        BY <2>3 DEF BeginFinalization, Start, Busy
      <3>4. ~lock
        BY <3>3 DEF Idle
      <3> QED
        BY <3>2, <3>3, <3>4
    <2>4. CASE TakeSnapshot \/ \E d \in Days : FinalizeByHand(d)
      <3>1. \E j : job' = [job EXCEPT ![Operator] = j]
        BY <2>4 DEF TakeSnapshot, FinalizeByHand, Start
      <3>2. job' = [a \in Actors |-> job'[a]] /\ job'[Consumer] = job[Consumer]
        BY <3>1, OneJobChanges
      <3>3. lock' = lock /\ up' = up
        BY <2>4 DEF TakeSnapshot, FinalizeByHand
      <3> QED
        BY <3>2, <3>3
    <2>5. ASSUME NEW a \in Actors, Fetch(a)
          PROVE  LockInv'
      <3>1. \E r : job' = [job EXCEPT ![a] = [stage |-> "store", row |-> r]]
        BY <2>5 DEF Fetch
      <3>2. /\ job' = [b \in Actors |-> job'[b]]
            /\ job'[a].stage = "store"
            /\ \A b \in Actors \ {a} : job'[b] = job[b]
        BY <3>1, OneJobChanges
      <3>3. lock' = lock /\ up' = up
        BY <2>5 DEF Fetch
      <3> QED
        BY <3>2, <3>3
    <2>6. ASSUME NEW a \in Actors, Store(a)
          PROVE  LockInv'
      <3>1. job' = [job EXCEPT ![a] = Idle] /\ up' = up /\ lock' = (lock /\ a # Consumer)
        BY <2>6 DEF Store
      <3>2. /\ job' = [b \in Actors |-> job'[b]]
            /\ \A b \in Actors \ {a} : job'[b] = job[b]
        BY <3>1, OneJobChanges
      <3>3. CASE a = Consumer
        BY <3>1, <3>2, <3>3
      <3>4. CASE a # Consumer
        BY <3>1, <3>2, <3>4
      <3> QED
        BY <3>3, <3>4
    <2>7. ASSUME NEW a \in Actors, WriteRow(a)
          PROVE  LockInv'
      <3>1. /\ job' = [job EXCEPT ![a] = Idle] /\ up' = up /\ lock' = lock
            /\ job[a].stage = "write"
        BY <2>7 DEF WriteRow
      <3>2. /\ job' = [b \in Actors |-> job'[b]]
            /\ \A b \in Actors \ {a} : job'[b] = job[b]
        BY <3>1, OneJobChanges
      <3>3. CASE a = Consumer
        BY <3>1, <3>2, <3>3
      <3>4. CASE a # Consumer
        BY <3>1, <3>2, <3>4
      <3> QED
        BY <3>3, <3>4
    <2>8. CASE Kill
      <3>1. job' = [job EXCEPT ![Consumer] = Idle] /\ up' = FALSE
        BY <2>8 DEF Kill
      <3>2. job' = [b \in Actors |-> job'[b]]
        BY <3>1, OneJobChanges
      <3> QED
        BY <3>1, <3>2
    <2>9. CASE Boot
      BY <2>9 DEF Boot
    <2>10. CASE UNCHANGED vars
      BY <2>10 DEF vars
    <2> QED
      BY <2>1, <2>2, <2>3, <2>4, <2>5, <2>6, <2>7, <2>8, <2>9, <2>10 DEF Next
  <1>3. LockInv => NeverWedged
    OBVIOUS
  <1>4. QED
    BY <1>1, <1>2, <1>3, PTL DEF Spec
=============================================================================
