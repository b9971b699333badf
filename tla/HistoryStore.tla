---------------------------- MODULE HistoryStore ----------------------------
(***************************************************************************)
(* callspread/store.py: history.jsonl, to which the poller appends a point *)
(* at every poll, and a gunicorn worker at every Refresh; each keeps the   *)
(* points in memory and rewrites the whole file from them when the oldest  *)
(* one has expired.  A request for the dashboard re-reads the file and     *)
(* then charts the points (views.py _state_payload, history).              *)
(*                                                                         *)
(* The lock of a store is a threading.Lock: the threads of one worker take *)
(* turns, two processes do not.  range() takes no lock at all.             *)
(*                                                                         *)
(* A line is a point <<t, n>> (the n-th point made, at time t), Torn (cut  *)
(* off by a kill, no newline) or Junk (a line json.loads refuses).  Lines  *)
(* have one length: when a rewrite passes over a line appended meanwhile,  *)
(* that line is replaced.  The file is read in one step, with the list     *)
(* empty until then: the worst of what a concurrent range() may see.       *)
(***************************************************************************)
EXTENDS Naturals, SequencesExt

CONSTANTS Poller, Web, \* the two processes
          Threads,     \* the threads of Web
          Retention,   \* retention_ms
          MaxTime,     \* bound: ticks of the clock
          MaxPoints,   \* bound: points made
          MaxKills,    \* bound: processes killed
          Torn, Junk   \* lines that are not a point

ASSUME HistoryAssumption ==
    /\ Poller # Web /\ Poller \notin Threads
    /\ {Retention, MaxTime, MaxPoints, MaxKills} \subseteq Nat /\ MaxPoints > 0
    /\ {Torn, Junk} \cap (Nat \X Nat) = {} /\ Torn # Junk

VARIABLES refreshing, \* the worker serves Refresh, and so appends as well
          now, made,
          file,       \* the lines of history.jsonl
          mem,        \* per process: self.points
          up,         \* the processes that run
          pc,         \* per actor
          point,      \* per actor: the point it appends
          left        \* per actor: the lines its rewrite has still to write

\* History, for the properties only.
VARIABLES acked,      \* the points whose append() has returned
          before,     \* per actor: the points on file when its request began
          pruned,     \* the file was rewritten at least once
          kills, torn,\* processes killed; of these, in the write of a line
          gutted      \* one was killed while it rewrote the file

vars == <<refreshing, now, made, file, mem, up, pc, point, left,
          acked, before, pruned, kills, torn, gutted>>

Procs == {Poller, Web}
Actors == {Poller} \cup Threads
Points == (0..MaxTime) \X (1..MaxPoints)
Lines == Points \cup {Torn, Junk}
NoPoint == <<0, 1>>

PollStages == {"append", "write", "prune", "rewrite"}
LockStages == {"write", "prune", "rewrite", "load"}

TypeOK ==
    /\ refreshing \in BOOLEAN
    /\ now \in 0..MaxTime /\ made \in 0..MaxPoints
    /\ file \in Seq(Lines)
    /\ mem \in [Procs -> Seq(Points)]
    /\ up \in SUBSET Procs
    /\ pc \in [Actors -> {"idle", "range"} \cup PollStages \cup LockStages]
    /\ point \in [Actors -> Points]
    /\ left \in [Actors -> Seq(Points)]
    /\ acked \in SUBSET Points
    /\ before \in [Actors -> SUBSET Points]
    /\ pruned \in BOOLEAN /\ gutted \in BOOLEAN
    /\ kills \in 0..MaxKills /\ torn \in 0..MaxKills

Init ==
    /\ refreshing \in BOOLEAN
    /\ now = 0 /\ made = 0
    /\ file = <<>>
    /\ mem = [p \in Procs |-> <<>>]
    /\ up = {}
    /\ pc = [a \in Actors |-> "idle"]
    /\ point = [a \in Actors |-> NoPoint]
    /\ left = [a \in Actors |-> <<>>]
    /\ acked = {}
    /\ before = [a \in Actors |-> {}]
    /\ pruned = FALSE /\ gutted = FALSE
    /\ kills = 0 /\ torn = 0

ProcOf(a) == IF a = Poller THEN Poller ELSE Web
Peers(a) == {b \in Actors : ProcOf(b) = ProcOf(a)}
LockFree(a) == \A b \in Peers(a) : pc[b] \notin LockStages

Goto(a, from, to) == pc[a] = from /\ pc' = [pc EXCEPT ![a] = to]

IsFresh(x) == x[1] + Retention >= now

PointsIn(lines) == {x \in ToSet(lines) : x \in Points}

\* A write in append mode: behind a torn line it ends up on that line.
Appended(lines, x) ==
    IF lines # <<>> /\ Last(lines) = Torn
    THEN Append(Front(lines), Junk)
    ELSE Append(lines, x)

\* A write of line x at the place of line i.
Overlaid(lines, i, x) ==
    IF i <= Len(lines) THEN [lines EXCEPT ![i] = x] ELSE Append(lines, x)

\* The places ps of a list by their key, equal ones as they stand: sort().
Order(ps, key) ==
    CHOOSE f \in [1..Cardinality(ps) -> ps] :
        \A m, n \in DOMAIN f : m < n =>
            \/ key[f[m]] < key[f[n]]
            \/ key[f[m]] = key[f[n]] /\ f[m] < f[n]
Selected(lines, ps, key) == [n \in 1..Cardinality(ps) |-> lines[Order(ps, key)[n]]]

FreshPlaces(lines) == {i \in DOMAIN lines : lines[i] \in Points /\ IsFresh(lines[i])}
Kept(lines) == LET ps == FreshPlaces(lines) IN Selected(lines, ps, [i \in ps |-> 0])

clock == <<refreshing, now, made>>
history == <<acked, before, pruned, kills, torn, gutted>>

-----------------------------------------------------------------------------
(* Bugs the properties below must catch; no action of the model uses them. *)

\* _load() stops at the first line that does not parse.
LoadedUpToJunk(lines) ==
    LET bad == {i \in DOMAIN lines : lines[i] \notin Points}
    IN  Kept(IF bad = {} THEN lines ELSE SubSeq(lines, 1, Min(bad) - 1))

\* _prune() rewrites the file before the list has the point just appended.
PruneOpenEarly(a) ==
    /\ Goto(a, "prune", "rewrite")
    /\ ~IsFresh(Head(mem[ProcOf(a)]))
    /\ LET kept == Kept(Front(mem[ProcOf(a)]))
       IN  /\ mem' = [mem EXCEPT ![ProcOf(a)] = kept]
           /\ left' = [left EXCEPT ![a] = kept]
    /\ file' = <<>>
    /\ pruned' = TRUE
    /\ UNCHANGED <<clock, up, point, acked, before, kills, torn, gutted>>

\* _load() does not test whether the line is a point.
LoadedUnchecked(lines) == SelectSeq(lines, LAMBDA x : x \in {Torn, Junk} \/ IsFresh(x))

-----------------------------------------------------------------------------
\* _load(): skip what does not parse and what has expired, oldest first.
Loaded(lines) ==
    LET ps == FreshPlaces(lines) IN Selected(lines, ps, [i \in ps |-> lines[i][1]])

Tick ==
    /\ now < MaxTime
    /\ now' = now + 1
    /\ UNCHANGED <<refreshing, made, file, mem, up, pc, point, left, history>>

\* HistoryStore(): a process starts, or starts again, and loads the file.
Boot(p) ==
    /\ p \notin up
    /\ up' = up \cup {p}
    /\ mem' = [mem EXCEPT ![p] = Loaded(file)]
    /\ UNCHANGED <<clock, file, pc, point, left, history>>

\* poll(persist=True) has built a snapshot; one poll at a time in a process.
TakePoint(a) ==
    /\ ProcOf(a) \in up
    /\ a = Poller \/ refreshing
    /\ \A b \in Peers(a) : pc[b] \notin PollStages
    /\ made < MaxPoints
    /\ made' = made + 1
    /\ Goto(a, "idle", "append")
    /\ point' = [point EXCEPT ![a] = <<now, made + 1>>]
    /\ UNCHANGED <<refreshing, now, file, mem, up, left, history>>

\* append(): take the lock, add the point in memory ...
AppendInMemory(a) ==
    /\ LockFree(a)
    /\ Goto(a, "append", "write")
    /\ mem' = [mem EXCEPT ![ProcOf(a)] = Append(@, point[a])]
    /\ UNCHANGED <<clock, file, up, point, left, history>>

\* ... and one line in the file.
AppendLine(a) ==
    /\ Goto(a, "write", "prune")
    /\ file' = Appended(file, point[a])
    /\ UNCHANGED <<clock, mem, up, point, left, history>>

\* _prune() with nothing expired.
PruneNothing(a) ==
    /\ Goto(a, "prune", "idle")
    /\ IsFresh(Head(mem[ProcOf(a)]))
    /\ acked' = acked \cup {point[a]}
    /\ point' = [point EXCEPT ![a] = NoPoint]
    /\ UNCHANGED <<clock, file, mem, up, left, before, pruned, kills, torn, gutted>>

\* _prune(): drop what has expired and open the file for writing.
PruneOpen(a) ==
    /\ Goto(a, "prune", "rewrite")
    /\ ~IsFresh(Head(mem[ProcOf(a)]))
    /\ LET kept == Kept(mem[ProcOf(a)])
       IN  /\ mem' = [mem EXCEPT ![ProcOf(a)] = kept]
           /\ left' = [left EXCEPT ![a] = kept]
    /\ file' = <<>>
    /\ pruned' = TRUE
    /\ UNCHANGED <<clock, up, point, acked, before, kills, torn, gutted>>

\* _rewrite(): one more line.
RewriteLine(a) ==
    /\ pc[a] = "rewrite"
    /\ left[a] # <<>>
    /\ left' = [left EXCEPT ![a] = Tail(@)]
    /\ file' = Overlaid(file, Len(mem[ProcOf(a)]) - Len(left[a]) + 1, Head(left[a]))
    /\ UNCHANGED <<clock, mem, up, pc, point, history>>

RewriteDone(a) ==
    /\ left[a] = <<>>
    /\ Goto(a, "rewrite", "idle")
    /\ acked' = acked \cup {point[a]}
    /\ point' = [point EXCEPT ![a] = NoPoint]
    /\ UNCHANGED <<clock, file, mem, up, left, before, pruned, kills, torn, gutted>>

-----------------------------------------------------------------------------
\* A request: reload() empties the list ...
ReloadClear(a) ==
    /\ a # Poller /\ Web \in up
    /\ LockFree(a)
    /\ Goto(a, "idle", "load")
    /\ mem' = [mem EXCEPT ![Web] = <<>>]
    /\ before' = [before EXCEPT ![a] = PointsIn(file)]
    /\ UNCHANGED <<clock, file, up, point, left, acked, pruned, kills, torn, gutted>>

\* ... and fills it from the file; then the lock is free again ...
ReloadLoad(a) ==
    /\ Goto(a, "load", "range")
    /\ mem' = [mem EXCEPT ![Web] = Loaded(file)]
    /\ UNCHANGED <<clock, file, up, point, left, history>>

\* ... and range() charts the list as it is by now.
ServeRange(a) ==
    /\ Goto(a, "range", "idle")
    /\ before' = [before EXCEPT ![a] = {}]
    /\ UNCHANGED <<clock, file, mem, up, point, left, acked, pruned, kills, torn, gutted>>

-----------------------------------------------------------------------------
\* Killed.  The write in progress may have been done in full, in part, or not
\* at all.
Kill(p) ==
    /\ p \in up
    /\ kills < MaxKills
    /\ kills' = kills + 1
    /\ up' = up \ {p}
    /\ LET mine == {a \in Actors : ProcOf(a) = p}
           writing == \E a \in mine : pc[a] \in {"write", "rewrite"}
           rewriting == \E a \in mine : pc[a] = "rewrite"
       IN  /\ pc' = [a \in Actors |-> IF a \in mine THEN "idle" ELSE pc[a]]
           /\ left' = [a \in Actors |-> IF a \in mine THEN <<>> ELSE left[a]]
           /\ point' = [a \in Actors |-> IF a \in mine THEN NoPoint ELSE point[a]]
           /\ before' = [a \in Actors |-> IF a \in mine THEN {} ELSE before[a]]
           /\ gutted' = (gutted \/ rewriting)
           /\ \/ file' = file /\ torn' = torn
              \/ /\ writing
                 /\ file' = Appended(file, Torn)
                 /\ torn' = torn + 1
    /\ mem' = [mem EXCEPT ![p] = <<>>]
    /\ UNCHANGED <<clock, acked, pruned>>

Next ==
    \/ Tick
    \/ \E p \in Procs : Boot(p) \/ Kill(p)
    \/ \E a \in Actors :
          \/ TakePoint(a) \/ AppendInMemory(a) \/ AppendLine(a)
          \/ PruneNothing(a) \/ PruneOpen(a) \/ RewriteLine(a) \/ RewriteDone(a)
          \/ ReloadClear(a) \/ ReloadLoad(a) \/ ServeRange(a)

Spec == Init /\ [][Next]_vars

-----------------------------------------------------------------------------
\* The points an append() has returned for that should still be kept and are
\* not on file.
Lost == {x \in acked : IsFresh(x)} \ PointsIn(file)

Rewriting == \E a \in Actors : pc[a] = "rewrite"

\* "A lock keeps an append from interleaving with a prune rewrite" (store.py
\* __init__): no point appended is lost before it expires.  The lock spans no
\* two processes, so it holds while only the poller appends, and of several
\* writers until one of them prunes; and then a kill in the middle of an append
\* costs at most one point already acknowledged: the torn line swallows the
\* next append.
AppendsSurvive ==
    (~refreshing \/ ~pruned) /\ ~gutted /\ ~Rewriting => Cardinality(Lost) <= torn

\* A chart has every fresh point that was on file when its request began,
\* while no file is being rewritten, no other thread of the worker is just
\* reloading, and whatever other requests and appends came in between.
ChartIsWhole ==
    [][\A a \in Threads :
         /\ pc[a] = "range" /\ pc'[a] = "idle" /\ Web \in up'
         /\ ~pruned
         /\ \A b \in Threads : pc[b] # "load"
         => {x \in before[a] : IsFresh(x)} \subseteq ToSet(mem[Web])]_vars
=============================================================================
