------------------------------ MODULE NavLedger ------------------------------
(***************************************************************************)
(* The profit-and-loss ledger of one NAV segment: tracker/tasks.py (what   *)
(* Huey schedules), tracker/services/collector.py (snapshots and the daily *)
(* rows made of them) and calculator/pnl.py (what a snapshot is worth).    *)
(*                                                                         *)
(* Actors: the Huey consumer, which runs one task at a time from a queue   *)
(* that survives it (Redis), and an operator at the command line           *)
(* (take_snapshot, finalize_daily, recompute_all).                         *)
(*                                                                         *)
(* Time is counted in ticks of the snapshot schedule, TicksPerDay to a     *)
(* UTC day; the finalization is scheduled in tick FinalTick of every day.  *)
(* The book is one number, the sum compute_pnl() takes differences of      *)
(* (-borrow + susds + cross_mtm): what a snapshot saw of it is what the    *)
(* readers returned, and 0 when they failed (_safe_get).  Funding, which   *)
(* compute_pnl() adds to each day, and the conversion into the native      *)
(* asset are left out: the segment is the USDC one, between two fundings.  *)
(***************************************************************************)
EXTENDS Integers, Sequences, FiniteSets

CONSTANTS Consumer, Operator,
          TicksPerDay, FinalTick,
          Levels,      \* what a cycle may see of the book; 0: or nothing
          InitialValue,\* INITIAL_VALUES[segment]
          MaxTime,     \* bound: ticks of the clock
          MaxCommands, \* bound: commands the operator runs
          MaxKills,    \* bound: kills of the consumer
          NoRow        \* no DailyPnl row, no value

ASSUME LedgerAssumption ==
    /\ TicksPerDay \in Nat \ {0}
    /\ FinalTick \in 0..(TicksPerDay - 1)
    /\ 0 \in Levels /\ Levels \subseteq Int
    /\ InitialValue \in Int
    /\ MaxTime \in Nat /\ MaxCommands \in Nat /\ MaxKills \in Nat
    /\ NoRow \notin Int \cup [pv : Int, max : Int]
    /\ Consumer # Operator

VARIABLES clock,
          snaps,    \* the Snapshot rows
          rows,     \* the DailyPnl rows, by day
          queue,    \* Huey's queue: tasks with the tick they were put in
          lock,     \* the lock "nav-snapshot-cycle"
          up,       \* the consumer runs
          job,      \* per actor: what it is doing
          commands, kills

\* History, for the properties only.
VARIABLES crossed,     \* two actors worked at once, two snapshots bear one
                       \* timestamp, or a day was finalized before its end
          refinalized, \* a day was finalized when a later one had been
          slipped,     \* a scheduled finalization ran a day or more late
          missed       \* days whose finalization the consumer was down for or killed in

vars == <<clock, snaps, rows, queue, lock, up, job, commands, kills,
          crossed, refinalized, slipped, missed>>

Actors == {Consumer, Operator}
Days == 0..(MaxTime \div TicksPerDay)
Day(t) == t \div TicksPerDay

Idle == [stage |-> "idle"]
Snapshot == [t : 0..MaxTime, seen : Levels, pv : Int]
Row == [pv : Int, max : Int]
Task == [kind : {"cycle", "finalize"}, t : 0..MaxTime]
Job == {Idle}
       \cup [stage : {"fetch"}, t : 0..MaxTime]
       \cup [stage : {"store"}, row : Snapshot]
       \cup [stage : {"write"}, day : Days, row : Row]

TypeOK ==
    /\ clock \in 0..MaxTime
    /\ snaps \in SUBSET Snapshot
    /\ rows \in [Days -> Row \cup {NoRow}]
    /\ queue \in Seq(Task)
    /\ lock \in BOOLEAN /\ up \in BOOLEAN
    /\ job \in [Actors -> Job]
    /\ commands \in 0..MaxCommands /\ kills \in 0..MaxKills
    /\ crossed \in BOOLEAN /\ refinalized \in BOOLEAN /\ slipped \in BOOLEAN
    /\ missed \subseteq Days

Init ==
    /\ clock = 0
    /\ snaps = {}
    /\ rows = [d \in Days |-> NoRow]
    /\ queue = <<>>
    /\ lock = FALSE
    /\ up = TRUE
    /\ job = [a \in Actors |-> Idle]
    /\ commands = 0 /\ kills = 0
    /\ crossed = FALSE /\ refinalized = FALSE /\ slipped = FALSE
    /\ missed = {}

Largest(S) == CHOOSE m \in S : \A n \in S : n <= m

\* order_by("-timestamp").first(), of equal timestamps any.
LastOf(S) == {s \in S : \A o \in S : o.t <= s.t}

OnDay(d) == {s \in snaps : Day(s.t) = d}
BeforeDay(d) == {s \in snaps : Day(s.t) < d}

Finalized == {d \in Days : rows[d] # NoRow}

\* The tasks the schedule puts in the queue at tick t.
Due(t) ==
    <<[kind |-> "cycle", t |-> t]>>
    \o (IF t % TicksPerDay = FinalTick THEN <<[kind |-> "finalize", t |-> t]>> ELSE <<>>)

\* The tick at which the finalization of a day is put in the queue.
DueTick(d) == (d + 1) * TicksPerDay + FinalTick

Busy(a) == job[a] # Idle
Start(a, j) ==
    /\ ~Busy(a)
    /\ job' = [job EXCEPT ![a] = j]

\* A cycle that begins now gets the timestamp of an earlier one.
SameTimestamp == \E s \in snaps : s.t = clock

db == <<snaps, rows>>
budget == <<commands, kills>>

-----------------------------------------------------------------------------
(* Bugs the properties below must catch; no action of the model uses them. *)

\* The day starts from the initial value unless yesterday has a row.
PortfolioValueFromInitial(seen, prevRow, refs) ==
    LET base == IF prevRow # NoRow THEN prevRow.pv ELSE InitialValue
    IN  IF refs # {} THEN {base + (seen - r.seen) : r \in refs} ELSE {base}

\* The maximum is taken of the other rows alone; without one it is None ...
RollingMaxOrNone(d, pv) ==
    IF Finalized \ {d} = {} THEN NoRow ELSE Largest({rows[e].pv : e \in Finalized \ {d}})

\* ... or the day's own value.
RollingMaxOfOthers(d, pv) ==
    IF Finalized \ {d} = {} THEN pv ELSE Largest({rows[e].pv : e \in Finalized \ {d}})

\* Every task expires, the finalization as well.
DropExpired ==
    /\ up /\ ~Busy(Consumer)
    /\ queue # <<>> /\ Head(queue).t < clock
    /\ queue' = Tail(queue)
    /\ UNCHANGED <<clock, db, lock, up, job, budget, crossed, refinalized, slipped, missed>>

\* The finalization closes today.
BeginFinalizationToday ==
    /\ up
    /\ queue # <<>> /\ Head(queue).kind = "finalize"
    /\ queue' = Tail(queue)
    /\ LET d == Day(clock)
       IN  \/ /\ OnDay(d) = {}
              /\ Start(Consumer, Idle)
           \/ \E s \in LastOf(OnDay(d)) :
                 Start(Consumer, [stage |-> "write", day |-> d,
                                  row |-> [pv |-> s.pv, max |-> s.pv]])
    /\ crossed' = (crossed \/ Busy(Operator))
    /\ slipped' = (slipped \/ Day(Head(queue).t) # Day(clock))
    /\ UNCHANGED <<clock, db, lock, up, budget, refinalized, missed>>

\* The consumer starts without --flush-locks.
BootKeepsLocks ==
    /\ ~up
    /\ up' = TRUE
    /\ UNCHANGED <<clock, db, queue, lock, job, budget, crossed, refinalized, slipped, missed>>

-----------------------------------------------------------------------------
\* compute_pnl(): the day's change of the book on top of the value the day
\* before ended with.  prevRow is yesterday's DailyPnl, refs the snapshots the
\* reference is one of; there may be neither.
PortfolioValue(seen, prevRow, refs) ==
    LET base(r) == IF prevRow # NoRow THEN prevRow.pv ELSE r.pv
    IN  IF refs # {} THEN {base(r) + (seen - r.seen) : r \in refs}
        ELSE {IF prevRow # NoRow THEN prevRow.pv ELSE InitialValue}

RowOf(d) == IF d \in Days THEN rows[d] ELSE NoRow

\* _get_rolling_max(): over every row but the one being written.
RollingMax(d, pv) == Largest({pv} \cup {rows[e].pv : e \in Finalized \ {d}})

-----------------------------------------------------------------------------
\* The clock goes on, and the consumer queues what is due.
Tick ==
    /\ clock < MaxTime
    /\ clock' = clock + 1
    /\ queue' = IF up THEN queue \o Due(clock + 1) ELSE queue
    /\ missed' = IF up THEN missed ELSE missed \cup {d \in Days : DueTick(d) = clock + 1}
    /\ UNCHANGED <<db, lock, up, job, budget, crossed, refinalized, slipped>>

\* A snapshot task that could not start in its own tick has expired; one that
\* finds the lock taken gives up.
DropCycle ==
    /\ up /\ ~Busy(Consumer)
    /\ queue # <<>> /\ Head(queue).kind = "cycle"
    /\ Head(queue).t < clock \/ lock
    /\ queue' = Tail(queue)
    /\ UNCHANGED <<clock, db, lock, up, job, budget, crossed, refinalized, slipped, missed>>

\* run_snapshot_cycle(): the timestamp is taken now.
BeginCycle ==
    /\ up
    /\ queue # <<>> /\ Head(queue) = [kind |-> "cycle", t |-> clock]
    /\ ~lock
    /\ queue' = Tail(queue)
    /\ lock' = TRUE
    /\ Start(Consumer, [stage |-> "fetch", t |-> clock])
    /\ crossed' = (crossed \/ Busy(Operator) \/ SameTimestamp)
    /\ UNCHANGED <<clock, db, up, budget, refinalized, slipped, missed>>

\* manage.py take_snapshot: the same without the queue and the lock.
TakeSnapshot ==
    /\ commands < MaxCommands
    /\ commands' = commands + 1
    /\ Start(Operator, [stage |-> "fetch", t |-> clock])
    /\ crossed' = (crossed \/ Busy(Consumer) \/ SameTimestamp)
    /\ UNCHANGED <<clock, db, queue, lock, up, kills, refinalized, slipped, missed>>

\* collect_snapshot_cycle(): the readers answer, or fail and count as 0, and
\* _build_snapshot_data() looks up what the day is measured against.
Fetch(a) ==
    /\ job[a].stage = "fetch"
    /\ LET d == Day(job[a].t)
       IN  \E seen \in Levels :
              \E pv \in PortfolioValue(seen, RowOf(d - 1), LastOf(BeforeDay(d))) :
                 job' = [job EXCEPT ![a] =
                            [stage |-> "store",
                             row |-> [t |-> job[a].t, seen |-> seen, pv |-> pv]]]
    /\ UNCHANGED <<clock, db, queue, lock, up, budget, crossed, refinalized, slipped, missed>>

\* Snapshot.objects.create(); the consumer's task ends and frees the lock.
Store(a) ==
    /\ job[a].stage = "store"
    /\ snaps' = snaps \cup {job[a].row}
    /\ job' = [job EXCEPT ![a] = Idle]
    /\ lock' = (lock /\ a # Consumer)
    /\ UNCHANGED <<clock, rows, queue, up, budget, crossed, refinalized, slipped, missed>>

-----------------------------------------------------------------------------
\* finalize_daily(): the last snapshot of the day and the rolling maximum.
FinalizeJob(d, s) ==
    [stage |-> "write", day |-> d, row |-> [pv |-> s.pv, max |-> RollingMax(d, s.pv)]]

\* run_daily_finalization(): yesterday, by the clock it runs at.
BeginFinalization ==
    /\ up
    /\ queue # <<>> /\ Head(queue).kind = "finalize"
    /\ queue' = Tail(queue)
    /\ LET d == Day(clock) - 1
       IN  \/ /\ OnDay(d) = {}
              /\ Start(Consumer, Idle)
           \/ \E s \in LastOf(OnDay(d)) : Start(Consumer, FinalizeJob(d, s))
    /\ crossed' = (crossed \/ Busy(Operator))
    /\ slipped' = (slipped \/ Day(Head(queue).t) # Day(clock))
    /\ UNCHANGED <<clock, db, lock, up, budget, refinalized, missed>>

\* manage.py finalize_daily for one day; recompute_all does it for every day
\* that has a snapshot, one after the other, today's included.
FinalizeByHand(d) ==
    /\ commands < MaxCommands
    /\ commands' = commands + 1
    /\ \E s \in LastOf(OnDay(d)) : Start(Operator, FinalizeJob(d, s))
    /\ crossed' = (crossed \/ Busy(Consumer) \/ d = Day(clock))
    /\ UNCHANGED <<clock, db, queue, lock, up, kills, refinalized, slipped, missed>>

\* DailyPnl.objects.update_or_create()
WriteRow(a) ==
    /\ job[a].stage = "write"
    /\ rows' = [rows EXCEPT ![job[a].day] = job[a].row]
    /\ job' = [job EXCEPT ![a] = Idle]
    /\ refinalized' = (refinalized \/ \E e \in Finalized : e > job[a].day)
    /\ UNCHANGED <<clock, snaps, queue, lock, up, budget, crossed, slipped, missed>>

-----------------------------------------------------------------------------
\* The consumer is killed: its task is gone, the queue and the lock are not.
Kill ==
    /\ up
    /\ kills < MaxKills
    /\ kills' = kills + 1
    /\ up' = FALSE
    /\ job' = [job EXCEPT ![Consumer] = Idle]
    /\ missed' = IF job[Consumer].stage = "write" THEN missed \cup {job[Consumer].day} ELSE missed
    /\ UNCHANGED <<clock, db, queue, lock, commands, crossed, refinalized, slipped>>

\* systemd starts it again, with --flush-locks.
Boot ==
    /\ ~up
    /\ up' = TRUE
    /\ lock' = FALSE
    /\ UNCHANGED <<clock, db, queue, job, budget, crossed, refinalized, slipped, missed>>

\* The end of the modelled time.
Over == clock = MaxTime /\ UNCHANGED vars

Next ==
    \/ Tick \/ Over
    \/ DropCycle \/ BeginCycle \/ BeginFinalization
    \/ TakeSnapshot
    \/ \E d \in Days : FinalizeByHand(d)
    \/ \E a \in Actors : Fetch(a) \/ Store(a) \/ WriteRow(a)
    \/ Kill \/ Boot

Spec == Init /\ [][Next]_vars

-----------------------------------------------------------------------------
\* The ledger telescopes: a snapshot is worth what the last snapshot of the
\* earlier days is worth plus what the book has moved since, whether that day
\* was finalized, finalized twice, or never, and whatever was read wrong in
\* between; unless two actors worked at once or a day was closed too early.
Telescopes ==
    ~crossed =>
        \A s \in snaps :
            BeforeDay(Day(s.t)) # {} =>
                \E b \in LastOf(BeforeDay(Day(s.t))) : s.pv - b.pv = s.seen - b.seen

\* The row of a day is that of its last snapshot, under the same condition.
RowIsLastSnapshot ==
    ~crossed =>
        \A d \in Finalized : \E s \in LastOf(OnDay(d)) : rows[d].pv = s.pv

\* "computes drawdown from prior max" (tests/test_collector.py): rolling_max
\* is the highest value up to that day and knows nothing of later ones.
\* It does while the days are finalized in order, by one actor at a time.
RollingMaxInOrder ==
    ~crossed /\ ~refinalized =>
        \A d \in Finalized : rows[d].max = Largest({rows[e].pv : e \in Finalized \cap 0..d})

\* Every day that had a snapshot gets its row, once its finalization is due
\* and no longer queued, whatever expired beside it and wherever the consumer
\* was killed, but for the finalizations it was down for or killed in; if no
\* finalization had to wait past midnight (it would close the wrong day), and no
\* command of the operator crossed a task (its snapshot may come after the
\* finalization) (run_daily_finalization).
EveryDayIsFinalized ==
    /\ ~slipped /\ ~crossed
    /\ \A i \in DOMAIN queue : queue[i].kind # "finalize"
    /\ ~Busy(Consumer)
    => \A d \in Days \ missed : DueTick(d) <= clock /\ OnDay(d) # {} => d \in Finalized

\* "a killed worker cannot wedge it" (tasks.py): a lock still held belongs to
\* a running cycle or to a consumer that has yet to restart.
NeverWedged == lock => ~up \/ job[Consumer].stage \in {"fetch", "store"}
=============================================================================
