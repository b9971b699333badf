----------------------- MODULE CallSpreadRuntimeProofs -----------------------
(***************************************************************************)
(* Proofs about CallSpreadRuntime, for any number of workers, browsers,    *)
(* settings, edits and kills:                                              *)
(*   - the variables have their types, and whoever is served is served by  *)
(*     a process that has its settings (TypeInv);                          *)
(*   - the poller alone never raises and never blanks the screen           *)
(*     (AloneInv);                                                         *)
(*   - behind one worker and one browser no save is undone (SaveInv, with  *)
(*     BoundInv: no setting is newer than the last edit).                  *)
(***************************************************************************)
EXTENDS CallSpreadRuntime, FiniteSetTheorems, TLAPS

\* An actor that is served, and by a process that has its settings.
Active == {"save", "reload", "poll", "answer"} \cup PollStages
Served(a) ==
    pc[a] \in Active =>
        /\ Proc(a) \in Procs /\ mem[Proc(a)] \in Config
        /\ a # Poller => at[a] \in pool

TypeInv == TypeOK /\ \A a \in Actors : Served(a)

\* The poller writes a temporary file of its own while no worker writes one.
AloneInv ==
    ~webPolled =>
        /\ \A b \in Browsers : pc[b] \notin {"flush", "replace"}
        /\ pc[Poller] # "raised"
        /\ pc[Poller] = "flush" => st.tmp = Empty /\ st.fd[Poller] = "tmp"
        /\ pc[Poller] = "replace" => st.tmp = out[Poller]
        /\ pc[Poller] \in WriteStages /\ Shown # NoSnap => out[Poller].snap # NoSnap

AtMost(c, n) == \A k \in Keys : c[k] <= n
Known(c) == c = Unset \/ AtLeast(c, acked)

BoundInv ==
    /\ AtMost(cfg, edits) /\ AtMost(acked, edits)
    /\ \A p \in Procs : mem[p] = Unset \/ AtMost(mem[p], edits)
    /\ \A b \in Browsers : AtMost(posted[b], edits) /\ (form[b] = Unset \/ AtMost(form[b], edits))

SaveInv ==
    OneWorker =>
        /\ AtLeast(cfg, acked)
        /\ \A w \in pool : Known(mem[w])
        /\ \A b \in Browsers :
             /\ pc[b] = "idle" => Known(form[b])
             /\ pc[b] = "save" => AtLeast(posted[b], acked) /\ mem[at[b]] = posted[b]

-----------------------------------------------------------------------------
\* What the operations on latest.json return.
LEMMA FileTypes ==
    ASSUME NEW P, NEW V, NEW f \in FileType(P, V), NEW p \in P
    PROVE  /\ OpenTmp(f, p) \in FileType(P, V)
           /\ \A v \in V : FlushClose(f, p, v) \subseteq FileType(P, V)
           /\ Replaced(f) \in FileType(P, V)
           /\ Killed(f, p) \in FileType(P, V)
  <1>1. OpenTmp(f, p) \in FileType(P, V) /\ Killed(f, p) \in FileType(P, V)
    BY DEF OpenTmp, Killed, FileType, Descriptor, Broken
  <1>2. Replaced(f) \in FileType(P, V)
    BY DEF Replaced, FileType, Descriptor, Moved
  <1>3. ASSUME NEW v \in V PROVE FlushClose(f, p, v) \subseteq FileType(P, V)
    <2>1. \A old : Flushed(old, v) \subseteq V \cup Broken \cup {Absent}
      BY DEF Flushed, Broken
    <2>2. [f.fd EXCEPT ![p] = "none"] \in [P -> Descriptor]
      BY DEF FileType, Descriptor
    <2> QED
      BY <2>1, <2>2 DEF FlushClose, FileType
  <1> QED
    BY <1>1, <1>2, <1>3

\* What the state served, and the settings of a process, are.
LEMMA ReadTypes ==
    ASSUME TypeOK
    PROVE  /\ Shown \in Config \cup {NoSnap}
           /\ \A p \in Procs : Settings(p) \in Config
           /\ Shipped \in Config /\ NoPayload \in Payload
  <1>1. Shown \in Config \cup {NoSnap}
    BY DEF TypeOK, FileType, Shown, Payload
  <1>2. \A p \in Procs : Settings(p) \in Config
    BY DEF TypeOK, Settings
  <1>3. Shipped \in Config /\ NoPayload \in Payload
    BY RuntimeAssumption DEF Shipped, NoPayload, Config, Payload
  <1> QED
    BY <1>1, <1>2, <1>3

\* Nobody is served at first.
LEMMA TypeInvInit == Init => TypeInv
  <1> SUFFICES ASSUME Init PROVE TypeInv
    OBVIOUS
  <1>1. Shipped \in Config /\ NoPayload \in Payload
    BY RuntimeAssumption DEF Shipped, NoPayload, Config, Payload
  <1>2. NewFile(Procs, Absent) \in FileType(Procs, Payload)
    BY DEF NewFile, FileType, Descriptor
  <1>3. pc \in [Actors -> Stages] /\ \A a \in Actors : pc[a] \notin Active
    BY DEF Init, Stages, Active, PollStages, WriteStages
  <1>4. /\ cfg \in Config /\ st \in FileType(Procs, Payload)
        /\ mem \in [Procs -> Config \cup {Unset}] /\ at \in [Browsers -> Workers \cup {Nobody}]
        /\ asking \in [Browsers -> BOOLEAN] /\ form \in [Browsers -> Config \cup {Unset}]
        /\ posted \in [Browsers -> Config] /\ out \in [Actors -> Payload]
        /\ pool \in Pools /\ acked \in Config /\ webPolled \in BOOLEAN
    BY <1>1, <1>2 DEF Init
  <1>5. edits \in 0..MaxEdits /\ refreshes \in 0..MaxRefresh /\ crashes \in 0..MaxCrashes
    BY RuntimeAssumption DEF Init
  <1> QED
    BY <1>3, <1>4, <1>5 DEF TypeInv, TypeOK, Served

\* A process that serves a request or polls keeps its settings until it is
\* killed, and then it serves nobody.
LEMMA TypeInvKept == TypeInv /\ [Next]_vars => TypeInv'
  <1> SUFFICES ASSUME TypeInv, [Next]_vars PROVE TypeInv'
    OBVIOUS
  <1> USE DEF budget, history, Goto
  <1>0. /\ TypeOK /\ \A a \in Actors : Served(a)
        /\ Poller \in Procs /\ Poller \in Actors /\ Workers \subseteq Procs
        /\ \A b \in Browsers : b \in Actors /\ b # Poller
        /\ pool \subseteq Workers
    BY RuntimeAssumption DEF TypeInv, TypeOK, Procs, Actors
  <1>s. /\ {"idle", "down", "raised", "load"} \subseteq Stages \ Active
        /\ {"save", "reload", "poll", "answer", "fetch", "recover", "open", "flush", "replace"} = Active
        /\ Active \subseteq Stages
        /\ PollStages \subseteq Active
    BY DEF Stages, Active, PollStages, WriteStages
  \* A step of actor a alone: its new process has its settings.
  <1>1. ASSUME NEW a \in Actors, TypeOK', UNCHANGED pool,
               \A c \in Actors : c # a => pc'[c] = pc[c] /\ (c # Poller => at'[c] = at[c]),
               \A p \in Procs : mem'[p] = mem[p] \/ mem'[p] \in Config,
               pc'[a] \in Active =>
                   \/ pc[a] \in Active /\ (a # Poller => at'[a] = at[a])
                   \/ a # Poller /\ at'[a] \in pool /\ mem'[at'[a]] \in Config
                   \/ a = Poller /\ mem'[Poller] \in Config
        PROVE  TypeInv'
    <2> SUFFICES ASSUME NEW c \in Actors, pc'[c] \in Active
                 PROVE  /\ Proc(c)' \in Procs /\ mem'[Proc(c)'] \in Config
                        /\ c # Poller => at'[c] \in pool
      BY <1>1 DEF TypeInv, Served
    <2>1. Proc(c)' = IF c = Poller THEN Poller ELSE at'[c]
      BY DEF Proc
    <2>2. Served(c) /\ Proc(c) = IF c = Poller THEN Poller ELSE at[c]
      BY <1>0 DEF Proc
    <2> QED
      BY <1>0, <1>1, <2>1, <2>2 DEF Served
  <1> DEFINE Rest == /\ at \in [Browsers -> Workers \cup {Nobody}]
                     /\ mem \in [Procs -> Config \cup {Unset}]
                     /\ pc \in [Actors -> Stages]
  <1>2. Rest
    BY <1>0 DEF TypeOK
  <1>10. ASSUME NEW b \in Browsers, NEW w \in Workers, LoadState(b, w) PROVE TypeInv'
    <2>1. TypeOK'
      BY <1>0, <1>s, <1>10, ReadTypes DEF LoadState, TypeOK
    <2> QED
      BY <1>0, <1>1, <1>2, <1>s, <1>10, <2>1, ReadTypes DEF LoadState
  <1>11. ASSUME NEW b \in Browsers, NEW w \in Workers, LoadFirst(b, w) PROVE TypeInv'
    <2>1. TypeOK'
      BY <1>0, <1>s, <1>11, ReadTypes, RuntimeAssumption DEF LoadFirst, TypeOK
    <2> QED
      BY <1>0, <1>1, <1>2, <1>s, <1>11, <2>1, ReadTypes DEF LoadFirst
  <1>12. ASSUME NEW b \in Browsers, NEW w \in Workers, Refresh(b, w) PROVE TypeInv'
    <2>1. TypeOK'
      BY <1>0, <1>s, <1>12, ReadTypes, RuntimeAssumption DEF Refresh, TypeOK
    <2> QED
      BY <1>0, <1>1, <1>2, <1>s, <1>12, <2>1, ReadTypes DEF Refresh
  <1>13. ASSUME NEW b \in Browsers, NEW w \in Workers, NEW k \in Keys, PostSettings(b, w, k)
         PROVE  TypeInv'
    <2> DEFINE new == [form[b] EXCEPT ![k] = edits + 1]
    <2>1. form[b] \in Config /\ edits + 1 \in 0..MaxEdits
      BY <1>0, <1>13, RuntimeAssumption DEF PostSettings, TypeOK
    <2>2. new \in Config
      BY <2>1 DEF Config
    <2>3. TypeOK'
      <3> HIDE DEF new
      <3> QED
        BY <1>0, <1>s, <1>13, <2>1, <2>2 DEF PostSettings, TypeOK, new
    <2>4. mem' = [mem EXCEPT ![w] = new]
      BY <1>13 DEF PostSettings
    <2> HIDE DEF new
    <2> QED
      BY <1>0, <1>1, <1>2, <1>s, <1>13, <2>2, <2>3, <2>4 DEF PostSettings
  <1>14. ASSUME NEW b \in Browsers, NEW w \in Workers, NEW k \in Keys, NEW before \in SUBSET Keys,
                PostInvalid(b, w, k, before)
         PROVE  TypeInv'
    <2> DEFINE new == [j \in Keys |-> CASE j = k -> edits + 1
                                        [] j \in before \ {k} -> form[b][j]
                                        [] OTHER -> cfg[j]]
    <2>1. form[b] \in Config /\ edits + 1 \in 0..MaxEdits /\ cfg \in Config
      BY <1>0, <1>14, RuntimeAssumption DEF PostInvalid, TypeOK
    <2>2. new \in Config
      BY <2>1 DEF Config
    <2>4. mem' = [mem EXCEPT ![w] = new]
      BY <1>14 DEF PostInvalid
    <2> HIDE DEF new
    <2>3. TypeOK'
      BY <1>0, <1>s, <1>14, <2>1, <2>2, <2>4 DEF PostInvalid, TypeOK
    <2> QED
      BY <1>0, <1>1, <1>2, <1>s, <1>14, <2>2, <2>3, <2>4 DEF PostInvalid
  <1>15. ASSUME NEW b \in Browsers, SaveSettings(b) PROVE TypeInv'
    <2>1. acked' \in Config
      <3>1. posted[b] \in Config /\ acked \in Config
        BY <1>0 DEF TypeOK
      <3> QED
        BY <1>15, <3>1 DEF SaveSettings, Config
    <2>2. TypeOK'
      BY <1>0, <1>s, <1>15, <2>1, ReadTypes DEF SaveSettings, TypeOK
    <2> QED
      BY <1>0, <1>1, <1>2, <1>s, <1>15, <2>2 DEF SaveSettings
  <1>16. ASSUME NEW b \in Browsers, ReloadSettings(b) PROVE TypeInv'
    <2>1. TypeOK'
      BY <1>0, <1>s, <1>16 DEF ReloadSettings, TypeOK
    <2> QED
      BY <1>0, <1>1, <1>2, <1>s, <1>16, <2>1 DEF ReloadSettings, TypeOK
  <1>17. ASSUME NEW b \in Browsers, Answer(b) PROVE TypeInv'
    <2>1. mem[at[b]] \in Config
      BY <1>0, <1>s, <1>17 DEF Answer, Served, Proc
    <2>2. TypeOK'
      BY <1>0, <1>s, <1>17, <2>1 DEF Answer, TypeOK
    <2> QED
      BY <1>0, <1>1, <1>2, <1>s, <1>17, <2>2 DEF Answer
  <1>20. ASSUME NEW a \in Actors, PollBegin(a) PROVE TypeInv'
    <2>1. TypeOK'
      BY <1>0, <1>s, <1>20 DEF PollBegin, TypeOK
    <2> QED
      BY <1>0, <1>1, <1>2, <1>s, <1>20, <2>1 DEF PollBegin, TypeOK
  <1>21. ASSUME NEW a \in Actors, FetchOk(a) PROVE TypeInv'
    <2>1. mem[Proc(a)] \in Config
      BY <1>0, <1>s, <1>21 DEF FetchOk, Served
    <2>2. [snap |-> mem[Proc(a)], err |-> FALSE] \in Payload
      BY <2>1 DEF Payload
    <2>3. TypeOK'
      BY <1>0, <1>s, <1>21, <2>2 DEF FetchOk, TypeOK
    <2> QED
      BY <1>0, <1>1, <1>2, <1>s, <1>21, <2>3 DEF FetchOk
  <1>22. ASSUME NEW a \in Actors, FetchFails(a) PROVE TypeInv'
    <2>1. TypeOK'
      BY <1>0, <1>s, <1>22 DEF FetchFails, TypeOK
    <2> QED
      BY <1>0, <1>1, <1>2, <1>s, <1>22, <2>1 DEF FetchFails
  <1>23. ASSUME NEW a \in Actors, Recover(a) PROVE TypeInv'
    <2>2. [snap |-> Shown, err |-> TRUE] \in Payload
      BY <1>0, ReadTypes DEF Payload
    <2>3. TypeOK'
      BY <1>0, <1>s, <1>23, <2>2 DEF Recover, TypeOK
    <2> QED
      BY <1>0, <1>1, <1>2, <1>s, <1>23, <2>3 DEF Recover
  <1>24. ASSUME NEW a \in Actors, StateOpen(a) PROVE TypeInv'
    <2>1. Proc(a) \in Procs
      BY <1>0, <1>s, <1>24 DEF StateOpen, Served
    <2>2. st' \in FileType(Procs, Payload)
      BY <1>0, <1>24, <2>1, FileTypes DEF StateOpen, TypeOK
    <2>3. TypeOK'
      BY <1>0, <1>s, <1>24, <2>2 DEF StateOpen, TypeOK
    <2> QED
      BY <1>0, <1>1, <1>2, <1>s, <1>24, <2>3 DEF StateOpen
  <1>25. ASSUME NEW a \in Actors, StateFlush(a) PROVE TypeInv'
    <2>1. Proc(a) \in Procs
      BY <1>0, <1>s, <1>25 DEF StateFlush, Served
    <2>2. st' \in FileType(Procs, Payload)
      BY <1>0, <1>25, <2>1, FileTypes DEF StateFlush, TypeOK
    <2>3. TypeOK'
      BY <1>0, <1>s, <1>25, <2>2 DEF StateFlush, TypeOK
    <2> QED
      BY <1>0, <1>1, <1>2, <1>s, <1>25, <2>3 DEF StateFlush
  <1>l. ASSUME NEW a \in Actors, LeavePoll(a), pc[a] \in Active
        PROVE  /\ at' \in [Browsers -> Workers \cup {Nobody}] /\ out' \in [Actors -> Payload]
               /\ \A c \in Browsers : c # a => at'[c] = at[c]
               /\ a # Poller /\ asking[a] => at' = at
    BY <1>0, <1>2, <1>l, ReadTypes DEF LeavePoll, TypeOK
  <1>f. ASSUME NEW a \in Actors
        PROVE  /\ Finished(a) \in Stages /\ Failed(a, "raised") \in Stages
               /\ Finished(a) \in Active => a = Poller \/ (a # Poller /\ asking[a])
               /\ Failed(a, "raised") \notin Active
    BY <1>s DEF Finished, Failed
  <1>26. ASSUME NEW a \in Actors, StateReplace(a) PROVE TypeInv'
    <2>1. pc[a] = "replace" /\ pc' = [pc EXCEPT ![a] = Finished(a)] /\ LeavePoll(a)
          /\ UNCHANGED <<mem, pool>>
      BY <1>26 DEF StateReplace
    <2>2. st' \in FileType(Procs, Payload)
      BY <1>0, <1>26, FileTypes DEF StateReplace, TypeOK
    <2>3. TypeOK'
      BY <1>0, <1>s, <1>26, <1>l, <1>f, <2>1, <2>2 DEF StateReplace, TypeOK
    <2>4. pc'[a] = Finished(a) /\ \A c \in Actors : c # a => pc'[c] = pc[c]
      BY <1>2, <2>1
    <2>5. \A c \in Actors : c # a /\ c # Poller => at'[c] = at[c]
      BY <1>s, <1>l, <2>1 DEF Actors
    <2>6. pc'[a] \in Active => pc[a] \in Active /\ (a # Poller => at'[a] = at[a])
      BY <1>s, <1>l, <1>f, <2>1, <2>4
    <2> QED
      BY <1>1, <2>1, <2>3, <2>4, <2>5, <2>6
  <1>27. ASSUME NEW a \in Actors, StateReplaceFails(a) PROVE TypeInv'
    <2>1. pc[a] = "replace" /\ UNCHANGED <<cfg, st, mem, asking, form, posted, pool, budget, history>>
      BY <1>27 DEF StateReplaceFails
    <2>2. CASE pc' = [pc EXCEPT ![a] = "recover"] /\ UNCHANGED <<at, out>>
      <3>1. TypeOK'
        BY <1>0, <1>s, <2>1, <2>2 DEF TypeOK
      <3> QED
        BY <1>0, <1>1, <1>2, <1>s, <2>1, <2>2, <3>1
    <2>3. CASE pc' = [pc EXCEPT ![a] = Failed(a, "raised")] /\ LeavePoll(a)
      <3>1. TypeOK'
        BY <1>0, <1>s, <1>l, <1>f, <2>1, <2>3 DEF TypeOK
      <3>2. pc'[a] = Failed(a, "raised") /\ \A c \in Actors : c # a => pc'[c] = pc[c]
        BY <1>2, <2>3
      <3>3. \A c \in Actors : c # a /\ c # Poller => at'[c] = at[c]
        BY <1>s, <1>l, <2>1, <2>3 DEF Actors
      <3>4. pc'[a] \notin Active
        BY <1>f, <3>2
      <3> QED
        BY <1>1, <2>1, <3>1, <3>2, <3>3, <3>4
    <2> QED
      BY <1>27, <2>2, <2>3 DEF StateReplaceFails
  <1>30. CASE PollerStarts
    <2>1. TypeOK'
      BY <1>0, <1>s, <1>30 DEF PollerStarts, TypeOK
    <2> QED
      BY <1>0, <1>1, <1>2, <1>s, <1>30, <2>1 DEF PollerStarts, TypeOK
  <1>31. ASSUME NEW p \in Procs, Crash(p) PROVE TypeInv'
    <2>1. /\ \A a \in Actors : pc'[a] = IF Proc(a) = p THEN Failed(a, "down") ELSE pc[a]
          /\ \A b \in Browsers : at'[b] = IF Proc(b) = p THEN Nobody ELSE at[b]
          /\ mem' = [mem EXCEPT ![p] = Unset] /\ UNCHANGED pool
      BY <1>31 DEF Crash
    <2>2. \A a \in Actors : Failed(a, "down") \in Stages \ Active
      BY <1>s DEF Failed
    <2>3. Killed(st, p) \in FileType(Procs, Payload)
      BY <1>0, FileTypes DEF TypeOK
    <2>4. /\ pc' \in [Actors -> Stages] /\ at' \in [Browsers -> Workers \cup {Nobody}]
          /\ asking' \in [Browsers -> BOOLEAN] /\ posted' \in [Browsers -> Config]
          /\ out' \in [Actors -> Payload]
      BY <1>0, <1>31, <2>2, ReadTypes DEF Crash, TypeOK
    <2>5. crashes' \in 0..MaxCrashes
      BY <1>0, <1>31, RuntimeAssumption DEF Crash, TypeOK
    <2>6. TypeOK'
      BY <1>0, <1>31, <2>3, <2>4, <2>5 DEF Crash, TypeOK
    <2>7. ASSUME NEW a \in Actors PROVE Served(a)'
      <3>1. Proc(a)' = IF a = Poller THEN Poller ELSE at'[a]
        BY DEF Proc
      <3>2. a \in Browsers \/ a = Poller
        BY DEF Actors
      <3> QED
        BY <1>0, <1>2, <2>1, <2>2, <3>1, <3>2 DEF Served, Proc
    <2> QED
      BY <2>6, <2>7 DEF TypeInv
  <1>32. CASE UNCHANGED vars
    BY <1>0, <1>32 DEF vars, TypeInv, TypeOK, Served, Proc
  <1> QED
    BY <1>10, <1>11, <1>12, <1>13, <1>14, <1>15, <1>16, <1>17, <1>20, <1>21, <1>22, <1>23,
       <1>24, <1>25, <1>26, <1>27, <1>30, <1>31, <1>32
       DEF Next, Request, RequestStep, PollStep

\* Every variable has its type in every state: what a failed poll recovers from
\* latest.json is a snapshot or nothing, whatever had been half written.
THEOREM TypeCorrect == Spec => []TypeOK
  <1>1. TypeInv => TypeOK
    BY DEF TypeInv
  <1> QED
    BY <1>1, TypeInvInit, TypeInvKept, PTL DEF Spec

-----------------------------------------------------------------------------
(* The poller alone. *)

\* A step that leaves latest.json and the poller's place in its loop alone.
LEMMA PollerUndisturbed ==
    ASSUME AloneInv, ~webPolled' => ~webPolled,
           UNCHANGED st, pc'[Poller] = pc[Poller], out'[Poller] = out[Poller],
           \A b \in Browsers : pc'[b] \in {"flush", "replace"} => pc[b] \in {"flush", "replace"}
    PROVE  AloneInv'
  <1>1. Shown' = Shown
    BY DEF Shown
  <1> QED
    BY <1>1 DEF AloneInv

\* What the poller has open is the temporary file it has just made, so its
\* replace finds it, and what it publishes is no less than what was shown.
LEMMA AloneInvKept == TypeInv /\ AloneInv /\ [Next]_vars => AloneInv'
  <1> SUFFICES ASSUME TypeInv, AloneInv, [Next]_vars PROVE AloneInv'
    OBVIOUS
  <1> USE DEF budget, history, Goto
  <1>0. /\ TypeOK
        /\ Poller \in Procs /\ Poller \in Actors
        /\ \A b \in Browsers : b \in Actors /\ b # Poller
        /\ pc \in [Actors -> Stages] /\ out \in [Actors -> Payload]
        /\ Proc(Poller) = Poller
    BY RuntimeAssumption DEF TypeInv, TypeOK, Procs, Actors, Proc
  <1>s. WriteStages = {"open", "flush", "replace"}
    BY DEF WriteStages
  \* A browser in a stage that does not touch latest.json.
  <1>1. ASSUME NEW b \in Browsers, NEW to, to \notin {"flush", "replace"},
               pc' = [pc EXCEPT ![b] = to], UNCHANGED <<st, webPolled>>,
               out' = out \/ \E o : out' = [out EXCEPT ![b] = o]
        PROVE  AloneInv'
    BY <1>0, <1>1, PollerUndisturbed
  <1>2. ASSUME NEW b \in Browsers, Request(b) PROVE AloneInv'
    <2>1. \E to : /\ to \notin {"flush", "replace"} /\ pc' = [pc EXCEPT ![b] = to]
                  /\ UNCHANGED <<st, webPolled, out>>
      BY <1>2 DEF Request, LoadState, LoadFirst, Refresh, PostSettings, PostInvalid
    <2> QED
      BY <1>1, <2>1
  <1>3. ASSUME NEW b \in Browsers, RequestStep(b) PROVE AloneInv'
    <2>1. \E to : /\ to \notin {"flush", "replace"} /\ pc' = [pc EXCEPT ![b] = to]
                  /\ UNCHANGED <<st, webPolled, out>>
      BY <1>3 DEF RequestStep, SaveSettings, ReloadSettings, Answer
    <2> QED
      BY <1>1, <2>1
  <1>4. ASSUME NEW b \in Browsers, PollStep(b), ~webPolled' PROVE AloneInv'
    <2>1. ~StateOpen(b)
      BY <1>0, <1>4 DEF StateOpen
    <2>2. ~webPolled /\ ~StateFlush(b) /\ ~StateReplace(b) /\ ~StateReplaceFails(b)
      <3>1. ~webPolled
        BY <1>0, <1>4, <2>1 DEF PollStep, PollBegin, FetchOk, FetchFails, Recover, StateFlush, StateReplace,
                         StateReplaceFails
      <3> QED
        BY <3>1 DEF AloneInv, StateFlush, StateReplace, StateReplaceFails
    <2>3. CASE PollBegin(b)
      BY <1>1, <2>3 DEF PollBegin
    <2>4. CASE FetchOk(b)
      BY <1>1, <2>4 DEF FetchOk
    <2>5. CASE FetchFails(b)
      BY <1>1, <2>5 DEF FetchFails
    <2>6. CASE Recover(b)
      BY <1>1, <2>6 DEF Recover
    <2> QED
      BY <1>4, <2>1, <2>2, <2>3, <2>4, <2>5, <2>6 DEF PollStep
  \* The poller's own steps.
  <1>5. ASSUME pc'[Poller] \notin WriteStages \cup {"raised"},
               \A b \in Browsers : pc'[b] = pc[b], UNCHANGED webPolled
        PROVE  AloneInv'
    BY <1>0, <1>5, <1>s DEF AloneInv
  <1>6. CASE PollBegin(Poller)
    BY <1>0, <1>5, <1>6, <1>s DEF PollBegin
  <1>7. CASE FetchFails(Poller)
    BY <1>0, <1>5, <1>7, <1>s DEF FetchFails
  <1>8. ASSUME ~webPolled, NEW o, pc' = [pc EXCEPT ![Poller] = "open"], out' = [out EXCEPT ![Poller] = o],
               UNCHANGED <<st, webPolled>>, Shown # NoSnap => o.snap # NoSnap
        PROVE  AloneInv'
    <2>1. Shown' = Shown
      BY <1>8 DEF Shown
    <2> QED
      BY <1>0, <1>8, <1>s, <2>1 DEF AloneInv
  <1>9. CASE FetchOk(Poller)
    <2>1. mem[Poller] \in Config
      BY <1>0, <1>9 DEF TypeInv, Served, FetchOk, Active, PollStages
    <2>2. mem[Poller] # NoSnap
      BY <2>1, MarksAreNoContent
    <2> QED
      BY <1>0, <1>8, <1>9, <2>2 DEF FetchOk, AloneInv
  <1>10. CASE Recover(Poller)
    BY <1>0, <1>8, <1>10 DEF Recover, AloneInv
  <1>11. CASE StateOpen(Poller)
    <2>1. /\ pc[Poller] = "open" /\ pc' = [pc EXCEPT ![Poller] = "flush"] /\ UNCHANGED out
          /\ st' = OpenTmp(st, Poller) /\ webPolled' = webPolled
      BY <1>0, <1>11 DEF StateOpen, TypeOK
    <2>2. st'.tmp = Empty /\ st'.fd[Poller] = "tmp" /\ st'.live = st.live
      BY <1>0, <2>1 DEF OpenTmp, TypeOK, FileType
    <2>3. Shown' = Shown
      BY <2>2 DEF Shown
    <2> QED
      BY <1>0, <1>s, <2>1, <2>2, <2>3 DEF AloneInv
  <1>12. CASE StateFlush(Poller)
    <2>1. /\ pc[Poller] = "flush" /\ pc' = [pc EXCEPT ![Poller] = "replace"] /\ UNCHANGED <<out, webPolled>>
          /\ st' \in FlushClose(st, Poller, out[Poller])
      BY <1>0, <1>12 DEF StateFlush
    <2>2. ASSUME ~webPolled PROVE st'.tmp = out[Poller] /\ st'.live = st.live
      <3>1. st.tmp = Empty /\ st.fd[Poller] = "tmp"
        BY <2>1, <2>2 DEF AloneInv
      <3>2. Flushed(st.tmp, out[Poller]) = {out[Poller]}
        BY <3>1 DEF Flushed
      <3> QED
        BY <2>1, <3>1, <3>2 DEF FlushClose
    <2>3. ~webPolled => Shown' = Shown
      BY <2>2 DEF Shown
    <2> QED
      BY <1>0, <1>s, <2>1, <2>2, <2>3 DEF AloneInv
  <1>13. CASE StateReplace(Poller)
    BY <1>0, <1>5, <1>13, <1>s DEF StateReplace, Finished
  <1>14. CASE StateReplaceFails(Poller)
    <2>1. pc[Poller] = "replace" /\ st.tmp = Absent /\ webPolled' = webPolled
      BY <1>14 DEF StateReplaceFails
    <2>2. out[Poller] # Absent
      BY <1>0, MarksAreNoContent
    <2> QED
      BY <2>1, <2>2 DEF AloneInv
  <1>15. CASE PollerStarts
    BY <1>0, <1>5, <1>15, <1>s DEF PollerStarts
  <1>16. ASSUME NEW p \in Procs, Crash(p) PROVE AloneInv'
    <2>1. /\ \A a \in Actors : pc'[a] = IF Proc(a) = p THEN Failed(a, "down") ELSE pc[a]
          /\ \A a \in Actors : out'[a] = IF Proc(a) = p THEN NoPayload ELSE out[a]
          /\ st' = Killed(st, p) /\ UNCHANGED webPolled
      BY <1>16 DEF Crash
    <2>2. /\ st'.tmp = st.tmp /\ st'.live = st.live
          /\ Poller # p => st'.fd[Poller] = st.fd[Poller]
      BY <1>0, <2>1 DEF Killed, TypeOK, FileType
    <2>3. Shown' = Shown
      BY <2>2 DEF Shown
    <2>4. \A a \in Actors : Failed(a, "down") \notin {"flush", "replace", "open", "raised"}
      BY DEF Failed
    <2> QED
      BY <1>0, <1>s, <2>1, <2>2, <2>3, <2>4 DEF AloneInv
  <1>17. CASE UNCHANGED vars
    BY <1>17, PollerUndisturbed DEF vars
  <1>18. ASSUME webPolled' PROVE AloneInv'
    BY <1>18 DEF AloneInv
  <1> QED
    BY <1>2, <1>3, <1>4, <1>6, <1>7, <1>9, <1>10, <1>11, <1>12, <1>13, <1>14, <1>15, <1>16, <1>17, <1>18
       DEF Next, PollStep, Actors

\* The poller is not started yet.
LEMMA AloneInvInit == Init => AloneInv
  <1> SUFFICES ASSUME Init PROVE AloneInv
    OBVIOUS
  <1>1. pc[Poller] = "down" /\ \A b \in Browsers : pc[b] = "idle"
    BY RuntimeAssumption DEF Init, Actors
  <1> QED
    BY <1>1 DEF AloneInv, WriteStages

\* "Never raises" (runtime.py poll()): no exception ends the poller while no
\* worker publishes latest.json beside it, however often it is killed.
THEOREM PollerNeverRaises == Spec => []NeverRaisesAlone
  <1>1. AloneInv => NeverRaisesAlone
    BY DEF AloneInv, NeverRaisesAlone, NeverRaises
  <1> QED
    BY <1>1, TypeInvInit, TypeInvKept, AloneInvInit, AloneInvKept, PTL DEF Spec

\* While no worker has published latest.json, and so no replace of the poller's
\* can fail (PollerNeverRaises), failed fetches and reads and kills at any point
\* leave a snapshot on screen (runtime.py: "survive a web restart with data
\* already on screen").
THEOREM SnapshotStaysOnScreen == Spec => ScreenIsKept
  <1>1. TypeInv /\ AloneInv /\ [Next]_vars => [~webPolled' /\ Shown # NoSnap => Shown' # NoSnap]_vars
    <2> SUFFICES ASSUME TypeInv, AloneInv, Next, ~webPolled', Shown # NoSnap
                 PROVE  Shown' # NoSnap
      OBVIOUS
    <2> USE DEF budget, history, Goto
    <2>0. /\ TypeOK /\ Poller \in Procs /\ Poller \in Actors
          /\ \A b \in Browsers : b \in Actors /\ b # Poller
          /\ out \in [Actors -> Payload] /\ Proc(Poller) = Poller
      BY RuntimeAssumption DEF TypeInv, TypeOK, Procs, Actors, Proc
    <2>1. ASSUME st'.live = st.live PROVE Shown' # NoSnap
      BY <2>1 DEF Shown
    <2>2. ASSUME NEW p \in Procs, st' = Killed(st, p) PROVE Shown' # NoSnap
      BY <2>0, <2>1, <2>2 DEF Killed, TypeOK, FileType
    <2>3. ASSUME NEW a \in Actors, StateOpen(a) PROVE Shown' # NoSnap
      BY <2>0, <2>1, <2>3 DEF StateOpen, OpenTmp, TypeOK, FileType
    <2>4. ASSUME NEW a \in Actors, StateFlush(a) \/ StateReplace(a), UNCHANGED webPolled PROVE a = Poller
      BY <2>4 DEF AloneInv, StateFlush, StateReplace, Actors
    <2>5. ASSUME NEW a \in Actors, StateFlush(a) PROVE Shown' # NoSnap
      <3>1. a = Poller /\ ~webPolled
        BY <2>4, <2>5 DEF StateFlush
      <3>2. st.fd[Poller] = "tmp" /\ st' \in FlushClose(st, Poller, out[Poller])
        BY <2>0, <2>5, <3>1 DEF StateFlush, AloneInv
      <3> QED
        BY <2>1, <3>2 DEF FlushClose
    <2>6. ASSUME NEW a \in Actors, StateReplace(a) PROVE Shown' # NoSnap
      <3>1. a = Poller /\ ~webPolled
        BY <2>4, <2>6 DEF StateReplace
      <3>2. st.tmp = out[Poller] /\ out[Poller].snap # NoSnap /\ st'.live = st.tmp
        BY <2>6, <3>1 DEF StateReplace, AloneInv, WriteStages, Replaced
      <3>3. out[Poller] \notin Broken \cup {Absent}
        BY <2>0, MarksAreNoContent
      <3> QED
        BY <3>2, <3>3 DEF Shown
    <2>7. ASSUME UNCHANGED st PROVE Shown' # NoSnap
      BY <2>1, <2>7
    <2> QED
      <3>1. ASSUME NEW b \in Browsers, Request(b) \/ RequestStep(b) PROVE UNCHANGED st
        BY <3>1 DEF Request, RequestStep, LoadState, LoadFirst, Refresh, PostSettings, PostInvalid,
                    SaveSettings, ReloadSettings, Answer
      <3>2. ASSUME NEW a \in Actors, PollStep(a)
            PROVE  UNCHANGED st \/ StateOpen(a) \/ StateFlush(a) \/ StateReplace(a)
        BY <3>2 DEF PollStep, PollBegin, FetchOk, FetchFails, Recover, StateReplaceFails
      <3>3. PollerStarts => UNCHANGED st
        BY DEF PollerStarts
      <3>4. \A p \in Procs : Crash(p) => st' = Killed(st, p)
        BY DEF Crash
      <3> QED
        BY <2>2, <2>3, <2>5, <2>6, <2>7, <3>1, <3>2, <3>3, <3>4 DEF Next
  <1> QED
    BY <1>1, TypeInvInit, TypeInvKept, AloneInvInit, AloneInvKept, PTL DEF Spec, ScreenIsKept

-----------------------------------------------------------------------------
(* One worker and one browser. *)

\* What at most one worker serves is served by the same one.
LEMMA SameWorker ==
    ASSUME TypeOK, OneWorker, NEW v \in pool, NEW w \in pool
    PROVE  v = w
  <1>1. IsFiniteSet(pool)
    <2>1. pool \subseteq Workers
      BY RuntimeAssumption DEF TypeOK
    <2> QED
      BY <2>1, RuntimeAssumption, FS_Subset
  <1>2. Cardinality(pool) \in Nat
    BY <1>1, FS_CardinalityType
  <1>3. Cardinality(pool) # 0
    BY <1>1, FS_EmptySet
  <1>4. Cardinality(pool) = 1
    BY <1>2, <1>3 DEF OneWorker
  <1>5. PICK x : pool = {x}
    BY <1>1, <1>4, FS_Singleton
  <1> QED
    BY <1>5

\* The settings shipped are no edit.
LEMMA BoundInvInit == Init => BoundInv
  <1> SUFFICES ASSUME Init PROVE BoundInv
    OBVIOUS
  <1>1. AtMost(Shipped, 0)
    BY DEF AtMost, Shipped
  <1> QED
    BY <1>1 DEF Init, BoundInv

\* Every setting anywhere comes from an edit that was made.
LEMMA BoundInvKept == TypeInv /\ BoundInv /\ [Next]_vars => BoundInv'
  <1> SUFFICES ASSUME TypeInv, BoundInv, [Next]_vars PROVE BoundInv'
    OBVIOUS
  <1> USE DEF budget, history, Goto
  <1>0. /\ TypeOK /\ edits \in Nat
        /\ mem \in [Procs -> Config \cup {Unset}] /\ form \in [Browsers -> Config \cup {Unset}]
        /\ posted \in [Browsers -> Config] /\ cfg \in Config /\ acked \in Config
        /\ Workers \subseteq Procs
    BY RuntimeAssumption DEF TypeInv, TypeOK, Procs
  <1>c. \A c \in Config : \A k \in Keys : c[k] \in Nat
    BY RuntimeAssumption DEF Config
  <1>b. /\ \A p \in Procs : Settings(p) \in Config /\ AtMost(Settings(p), edits)
        /\ AtMost(Shipped, edits)
    <2>1. AtMost(Shipped, edits)
      BY <1>0 DEF AtMost, Shipped
    <2>2. \A p \in Procs : AtMost(Settings(p), edits)
      BY <1>0 DEF BoundInv, Settings
    <2> QED
      BY <1>0, <2>1, <2>2, ReadTypes
  \* Nothing but what there is already, and the settings shipped.
  <1>1. ASSUME UNCHANGED <<edits, acked, cfg>>,
               \A p \in Procs : mem'[p] = mem[p] \/ AtMost(mem'[p], edits) \/ mem'[p] = Unset,
               \A b \in Browsers : posted'[b] = posted[b] \/ AtMost(posted'[b], edits),
               \A b \in Browsers : form'[b] = form[b] \/ form'[b] = Unset \/ AtMost(form'[b], edits)
        PROVE  BoundInv'
    BY <1>1 DEF BoundInv, AtMost
  <1>2. ASSUME NEW c \in Config, AtMost(c, edits) PROVE AtMost(c, edits + 1)
    <2>1. \A k \in Keys : c[k] \in Nat /\ c[k] <= edits
      BY <1>c, <1>2 DEF AtMost
    <2> QED
      BY <1>0, <2>1 DEF AtMost
  <1>3. ASSUME edits' = edits + 1, UNCHANGED <<acked, cfg, form>>,
               NEW new \in Config, AtMost(new, edits + 1),
               \A p \in Procs : mem'[p] = mem[p] \/ mem'[p] = new,
               \A b \in Browsers : posted'[b] = posted[b] \/ posted'[b] = new
        PROVE  BoundInv'
    <2>1. AtMost(cfg, edits + 1) /\ AtMost(acked, edits + 1)
      BY <1>0, <1>2 DEF BoundInv
    <2>2. \A p \in Procs : mem[p] = Unset \/ AtMost(mem[p], edits + 1)
      BY <1>0, <1>2 DEF BoundInv
    <2>3. \A b \in Browsers : AtMost(posted[b], edits + 1) /\ (form[b] = Unset \/ AtMost(form[b], edits + 1))
      BY <1>0, <1>2 DEF BoundInv
    <2> QED
      BY <1>3, <2>1, <2>2, <2>3 DEF BoundInv, AtMost
  <1>10. ASSUME NEW b \in Browsers, NEW w \in Workers, LoadState(b, w) PROVE BoundInv'
    BY <1>0, <1>b, <1>1, <1>10 DEF LoadState
  <1>11. ASSUME NEW b \in Browsers, NEW w \in Workers, LoadFirst(b, w) \/ Refresh(b, w) PROVE BoundInv'
    BY <1>0, <1>b, <1>1, <1>11 DEF LoadFirst, Refresh
  <1>12. ASSUME NEW b \in Browsers, NEW w \in Workers, NEW k \in Keys, PostSettings(b, w, k)
         PROVE  BoundInv'
    <2> DEFINE new == [form[b] EXCEPT ![k] = edits + 1]
    <2>1. form[b] \in Config /\ AtMost(form[b], edits) /\ edits + 1 \in 0..MaxEdits
      BY <1>0, <1>12, RuntimeAssumption DEF BoundInv, PostSettings, TypeOK
    <2>2. AtMost(form[b], edits + 1) /\ new \in Config
      BY <1>2, <2>1 DEF Config
    <2>3. AtMost(new, edits + 1)
      BY <1>0, <2>1, <2>2 DEF AtMost, Config
    <2>4. /\ edits' = edits + 1 /\ UNCHANGED <<acked, cfg, form>>
          /\ mem' = [mem EXCEPT ![w] = new] /\ posted' = [posted EXCEPT ![b] = new]
      BY <1>12 DEF PostSettings
    <2> HIDE DEF new
    <2> QED
      BY <1>0, <1>3, <2>2, <2>3, <2>4
  <1>13. ASSUME NEW b \in Browsers, NEW w \in Workers, NEW k \in Keys, NEW before \in SUBSET Keys,
                PostInvalid(b, w, k, before)
         PROVE  BoundInv'
    <2> DEFINE new == [j \in Keys |-> CASE j = k -> edits + 1
                                        [] j \in before \ {k} -> form[b][j]
                                        [] OTHER -> cfg[j]]
    <2>1. /\ form[b] \in Config /\ AtMost(form[b], edits) /\ edits + 1 \in 0..MaxEdits
          /\ cfg \in Config /\ AtMost(cfg, edits)
      BY <1>0, <1>13, RuntimeAssumption DEF BoundInv, PostInvalid, TypeOK
    <2>2. AtMost(form[b], edits + 1) /\ AtMost(cfg, edits + 1) /\ new \in Config
      BY <1>2, <2>1 DEF Config
    <2>3. AtMost(new, edits + 1)
      BY <1>0, <2>1, <2>2 DEF AtMost, Config
    <2>4. /\ edits' = edits + 1 /\ UNCHANGED <<acked, cfg, form>>
          /\ mem' = [mem EXCEPT ![w] = new] /\ posted' = posted
      BY <1>13 DEF PostInvalid
    <2> HIDE DEF new
    <2> QED
      BY <1>0, <1>3, <2>2, <2>3, <2>4
  <1>14. ASSUME NEW b \in Browsers, SaveSettings(b) PROVE BoundInv'
    <2>1. /\ cfg' = posted[b] /\ UNCHANGED <<edits, mem, form>>
          /\ posted' = [posted EXCEPT ![b] = Shipped]
          /\ acked' = [k \in Keys |-> IF posted[b][k] > acked[k] THEN posted[b][k] ELSE acked[k]]
      BY <1>14 DEF SaveSettings
    <2>2. AtMost(posted[b], edits) /\ AtMost(acked, edits)
      BY DEF BoundInv
    <2>3. AtMost(acked', edits)
      BY <2>1, <2>2 DEF AtMost
    <2>4. \A c \in Browsers : AtMost(posted'[c], edits)
      BY <1>0, <1>b, <2>1 DEF BoundInv
    <2> QED
      BY <2>1, <2>2, <2>3, <2>4 DEF BoundInv
  <1>15. ASSUME NEW b \in Browsers, ReloadSettings(b) PROVE BoundInv'
    <2>1. AtMost(cfg, edits)
      BY DEF BoundInv
    <2> QED
      BY <1>0, <1>1, <1>15, <2>1 DEF ReloadSettings
  <1>16. ASSUME NEW b \in Browsers, Answer(b) PROVE BoundInv'
    <2>1. at[b] \in Workers
      BY <1>16, RuntimeAssumption DEF Answer, TypeInv, TypeOK, Served, Active, Actors
    <2>2. mem[at[b]] = Unset \/ AtMost(mem[at[b]], edits)
      BY <1>0, <2>1 DEF BoundInv
    <2> QED
      BY <1>0, <1>1, <1>16, <2>2 DEF Answer
  <1>17. ASSUME NEW a \in Actors, PollBegin(a) PROVE BoundInv'
    <2>1. AtMost(cfg, edits)
      BY DEF BoundInv
    <2> QED
      BY <1>0, <1>1, <1>17, <2>1 DEF PollBegin
  <1>18. ASSUME NEW a \in Actors,
                FetchOk(a) \/ FetchFails(a) \/ Recover(a) \/ StateOpen(a) \/ StateFlush(a)
                  \/ StateReplace(a) \/ StateReplaceFails(a)
         PROVE  BoundInv'
    BY <1>1, <1>18 DEF FetchOk, FetchFails, Recover, StateOpen, StateFlush, StateReplace, StateReplaceFails
  <1>19. CASE PollerStarts
    <2>1. AtMost(cfg, edits)
      BY DEF BoundInv
    <2> QED
      BY <1>0, <1>1, <1>19, <2>1 DEF PollerStarts
  <1>20. ASSUME NEW p \in Procs, Crash(p) PROVE BoundInv'
    <2>1. \A b \in Browsers : posted'[b] = Shipped \/ posted'[b] = posted[b]
      BY <1>20 DEF Crash
    <2> QED
      BY <1>0, <1>b, <1>1, <1>20, <2>1 DEF Crash
  <1>21. CASE UNCHANGED vars
    BY <1>1, <1>21 DEF vars
  <1> QED
    BY <1>10, <1>11, <1>12, <1>13, <1>14, <1>15, <1>16, <1>17, <1>18, <1>19, <1>20, <1>21
       DEF Next, Request, RequestStep, PollStep

\* Nothing has been saved and no form is loaded.
LEMMA SaveInvInit == TypeInv /\ Init => SaveInv
  <1> SUFFICES ASSUME TypeInv, Init PROVE SaveInv
    OBVIOUS
  <1>1. AtLeast(Shipped, Shipped)
    BY DEF AtLeast, Shipped
  <1>2. \A b \in Browsers : pc[b] = "idle" /\ form[b] = Unset
    BY RuntimeAssumption DEF Init, Actors
  <1>3. \A w \in pool : mem[w] = Unset
    BY RuntimeAssumption DEF Init, Procs
  <1> QED
    BY <1>1, <1>2, <1>3 DEF SaveInv, Known, Init

\* Which workers serve the dashboard is settled from the start.
LEMMA PoolIsFixed == [Next]_vars => UNCHANGED pool
  <1>1. \A b \in Browsers : Request(b) => UNCHANGED pool
    BY DEF Request, LoadState, LoadFirst, Refresh, PostSettings, PostInvalid
  <1>2. \A b \in Browsers : RequestStep(b) => UNCHANGED pool
    BY DEF RequestStep, SaveSettings, ReloadSettings, Answer
  <1>3. \A a \in Actors : PollStep(a) => UNCHANGED pool
    BY DEF PollStep, PollBegin, FetchOk, FetchFails, Recover, StateOpen, StateFlush, StateReplace,
           StateReplaceFails
  <1>4. PollerStarts => UNCHANGED pool
    BY DEF PollerStarts
  <1>5. \A p \in Procs : Crash(p) => UNCHANGED pool
    BY DEF Crash
  <1> QED
    BY <1>1, <1>2, <1>3, <1>4, <1>5 DEF Next, vars

\* The form of an idle browser and the copy of the one worker are no older than
\* what was last saved, so the whole form it posts brings nothing back.
LEMMA SaveInvKept ==
    ASSUME \A b, c \in Browsers : b = c
    PROVE  TypeInv /\ BoundInv /\ SaveInv /\ [Next]_vars => SaveInv'
  <1> SUFFICES ASSUME TypeInv, BoundInv, SaveInv, [Next]_vars PROVE SaveInv'
    OBVIOUS
  <1> SUFFICES ASSUME OneWorker PROVE SaveInv'
    <2>1. OneWorker' = OneWorker
      BY PoolIsFixed DEF OneWorker
    <2> QED
      BY <2>1 DEF SaveInv
  <1> USE DEF budget, history, Goto
  <1>0. /\ TypeOK /\ edits \in Nat
        /\ mem \in [Procs -> Config \cup {Unset}] /\ form \in [Browsers -> Config \cup {Unset}]
        /\ posted \in [Browsers -> Config] /\ cfg \in Config /\ acked \in Config
        /\ pc \in [Actors -> Stages] /\ at \in [Browsers -> Workers \cup {Nobody}]
        /\ Workers \subseteq Procs /\ pool \subseteq Workers
        /\ Poller \in Procs /\ Poller \notin Workers
        /\ \A b \in Browsers : b \in Actors /\ b # Poller
    BY RuntimeAssumption DEF TypeInv, TypeOK, Procs, Actors
  <1>c. \A c \in Config : \A k \in Keys : c[k] \in Nat
    BY RuntimeAssumption DEF Config
  <1>k. /\ AtLeast(cfg, acked) /\ \A w \in pool : Known(mem[w]) /\ AtLeast(Settings(w), acked)
    BY DEF SaveInv, Known, Settings
  <1>1. ASSUME UNCHANGED <<cfg, acked, pool>>,
               \A w \in pool : mem'[w] = mem[w] \/ mem'[w] = Unset \/ AtLeast(mem'[w], acked),
               \A b \in Browsers :
                  /\ pc'[b] = "idle" => \/ pc[b] = "idle" /\ form'[b] = form[b]
                                        \/ Known(form'[b])
                  /\ pc'[b] = "save" => /\ pc[b] = "save" /\ posted'[b] = posted[b] /\ at'[b] = at[b]
                                        /\ mem'[at[b]] = mem[at[b]]
        PROVE  SaveInv'
    <2>1. (\A w \in pool : Known(mem[w]))'
      BY <1>1, <1>k DEF Known, AtLeast
    <2>2. ASSUME NEW b \in Browsers, pc'[b] = "idle" PROVE Known(form[b])'
      BY <1>1, <2>2 DEF SaveInv, Known, AtLeast
    <2>3. ASSUME NEW b \in Browsers, pc'[b] = "save"
          PROVE  AtLeast(posted[b], acked)' /\ mem'[at'[b]] = posted'[b]
      BY <1>1, <2>3 DEF SaveInv, AtLeast
    <2> QED
      BY <1>1, <1>k, <2>1, <2>2, <2>3 DEF SaveInv, AtLeast
  <1>10. ASSUME NEW b \in Browsers, NEW w \in Workers, LoadState(b, w) PROVE SaveInv'
    <2>1. AtLeast(Settings(w), acked) /\ Known(Settings(w))
      BY <1>10, <1>k DEF LoadState, Known
    <2> QED
      BY <1>0, <1>1, <1>10, <2>1 DEF LoadState
  <1>11. ASSUME NEW b \in Browsers, NEW w \in Workers, LoadFirst(b, w) \/ Refresh(b, w) PROVE SaveInv'
    <2>1. AtLeast(Settings(w), acked)
      BY <1>11, <1>k DEF LoadFirst, Refresh
    <2>2. /\ pc' = [pc EXCEPT ![b] = "poll"] /\ mem' = [mem EXCEPT ![w] = Settings(w)]
          /\ UNCHANGED <<cfg, acked, pool>>
      BY <1>11 DEF LoadFirst, Refresh
    <2> QED
      BY <1>0, <1>1, <2>1, <2>2
  <1>12. ASSUME NEW b \in Browsers, NEW w \in Workers, NEW k \in Keys, PostSettings(b, w, k)
         PROVE  SaveInv'
    <2> DEFINE new == [form[b] EXCEPT ![k] = edits + 1]
    <2>1. /\ form[b] \in Config /\ AtLeast(form[b], acked) /\ AtMost(acked, edits) /\ w \in pool
      BY <1>0, <1>12 DEF BoundInv, PostSettings, SaveInv, Known
    <2>2. AtLeast(new, acked)
      <3>1. \A j \in Keys : acked[j] \in Nat /\ acked[j] <= edits /\ form[b][j] >= acked[j]
        BY <1>0, <1>c, <2>1 DEF AtMost, AtLeast
      <3> QED
        BY <1>0, <2>1, <3>1 DEF AtLeast, Config
    <2>3. /\ UNCHANGED <<acked, cfg, form, pool>> /\ pc' = [pc EXCEPT ![b] = "save"]
          /\ mem' = [mem EXCEPT ![w] = new] /\ posted' = [posted EXCEPT ![b] = new]
          /\ at' = [at EXCEPT ![b] = w]
      BY <1>12 DEF PostSettings
    <2> HIDE DEF new
    <2>4. \A v \in pool : mem'[v] = new
      BY <1>0, <2>1, <2>3, SameWorker
    <2>5. /\ \A c \in Browsers : c = b
          /\ pc'[b] = "save" /\ posted'[b] = new /\ at'[b] = w
      BY <1>0, <2>3
    <2>6. AtLeast(cfg, acked)'
      BY <1>k, <2>3 DEF AtLeast
    <2>7. AtLeast(new, acked')
      BY <2>2, <2>3 DEF AtLeast
    <2> QED
      BY <2>1, <2>3, <2>4, <2>5, <2>6, <2>7 DEF SaveInv, Known
  <1>13. ASSUME NEW b \in Browsers, NEW w \in Workers, NEW k \in Keys, NEW before \in SUBSET Keys,
                PostInvalid(b, w, k, before)
         PROVE  SaveInv'
    <2> DEFINE new == [j \in Keys |-> CASE j = k -> edits + 1
                                        [] j \in before \ {k} -> form[b][j]
                                        [] OTHER -> cfg[j]]
    <2>1. AtLeast(form[b], acked) /\ AtMost(acked, edits) /\ w \in pool
      BY <1>0, <1>13 DEF BoundInv, PostInvalid, SaveInv, Known
    <2>2. AtLeast(new, acked)
      <3>1. \A j \in Keys : /\ acked[j] \in Nat /\ acked[j] <= edits /\ form[b][j] >= acked[j]
                            /\ cfg[j] >= acked[j]
        BY <1>0, <1>c, <1>k, <2>1 DEF AtMost, AtLeast
      <3> QED
        BY <1>0, <3>1 DEF AtLeast
    <2>3. /\ UNCHANGED <<acked, cfg, form, pool>> /\ pc' = [pc EXCEPT ![b] = "load"]
          /\ mem' = [mem EXCEPT ![w] = new]
      BY <1>13 DEF PostInvalid
    <2> HIDE DEF new
    <2> QED
      BY <1>0, <1>1, <2>2, <2>3
  <1>14. ASSUME NEW b \in Browsers, SaveSettings(b) PROVE SaveInv'
    <2>1. /\ pc[b] = "save" /\ pc' = [pc EXCEPT ![b] = "reload"] /\ cfg' = posted[b]
          /\ acked' = [k \in Keys |-> IF posted[b][k] > acked[k] THEN posted[b][k] ELSE acked[k]]
          /\ UNCHANGED <<mem, at, form, pool>>
      BY <1>14 DEF SaveSettings
    <2>2. AtLeast(posted[b], acked) /\ mem[at[b]] = posted[b]
      BY <2>1 DEF SaveInv
    <2>3. at[b] \in pool
      BY <1>0, <2>1 DEF TypeInv, Served, Active
    <2>4. \A w \in pool : mem[w] = posted[b]
      BY <1>0, <2>2, <2>3, SameWorker
    <2>5. \A k \in Keys : posted[b][k] \in Nat /\ acked[k] \in Nat /\ posted[b][k] >= acked[k]
      BY <1>0, <1>c, <2>2 DEF AtLeast
    <2>6. \A k \in Keys : posted[b][k] >= acked'[k]
      BY <2>1, <2>5
    <2>7. AtLeast(posted[b], acked')
      BY <2>6 DEF AtLeast
    <2>8. \A c \in Browsers : pc'[c] = "reload"
      BY <1>0, <2>1
    <2> QED
      BY <2>1, <2>4, <2>7, <2>8 DEF SaveInv, Known
  <1>15. ASSUME NEW b \in Browsers, ReloadSettings(b) PROVE SaveInv'
    BY <1>0, <1>k, <1>1, <1>15 DEF ReloadSettings
  <1>16. ASSUME NEW b \in Browsers, Answer(b) PROVE SaveInv'
    <2>1. at[b] \in pool
      BY <1>0, <1>16 DEF Answer, TypeInv, Served, Active
    <2>2. Known(mem[at[b]])
      BY <1>k, <2>1
    <2> QED
      BY <1>0, <1>1, <1>16, <2>2 DEF Answer
  <1>17. ASSUME NEW a \in Actors, PollBegin(a) PROVE SaveInv'
    <2>1. /\ pc[a] = "poll" /\ pc' = [pc EXCEPT ![a] = "fetch"] /\ mem' = [mem EXCEPT ![Proc(a)] = cfg]
          /\ UNCHANGED <<cfg, at, form, posted, pool, acked>>
      BY <1>17 DEF PollBegin
    <2>2. ASSUME NEW b \in Browsers, pc'[b] = "save"
          PROVE  pc[b] = "save" /\ mem'[at[b]] = mem[at[b]]
      <3>1. a # b /\ a = Poller
        BY <1>0, <2>1, <2>2 DEF Actors
      <3>2. pc[b] = "save"
        BY <1>0, <2>1, <2>2, <3>1
      <3>3. at[b] \in pool
        BY <1>0, <3>2 DEF TypeInv, Served, Active
      <3> QED
        BY <1>0, <2>1, <3>1, <3>2, <3>3 DEF Proc
    <2>3. \A w \in pool : mem'[w] = mem[w] \/ mem'[w] = cfg
      BY <1>0, <2>1
    <2>4. \A b \in Browsers : pc'[b] = "idle" => pc[b] = "idle"
      BY <1>0, <2>1
    <2> QED
      BY <1>k, <1>1, <2>1, <2>2, <2>3, <2>4
  <1>18. ASSUME NEW a \in Actors,
                FetchOk(a) \/ FetchFails(a) \/ Recover(a) \/ StateOpen(a) \/ StateFlush(a)
                  \/ StateReplace(a) \/ StateReplaceFails(a)
         PROVE  SaveInv'
    <2>1. PICK to : /\ to \notin {"idle", "save"} /\ pc' = [pc EXCEPT ![a] = to]
                    /\ UNCHANGED <<cfg, mem, form, posted, pool, acked>>
      BY <1>18 DEF FetchOk, FetchFails, Recover, StateOpen, StateFlush, StateReplace, StateReplaceFails,
                   Finished, Failed
    <2>2. ASSUME NEW b \in Browsers, pc'[b] = "save" PROVE pc[b] = "save" /\ at'[b] = at[b]
      <3>1. a # b
        BY <1>0, <2>1, <2>2
      <3> QED
        BY <1>0, <1>18, <2>1, <2>2, <3>1
           DEF FetchOk, FetchFails, Recover, StateOpen, StateFlush, StateReplace, StateReplaceFails, LeavePoll
    <2>3. \A b \in Browsers : pc'[b] = "idle" => pc[b] = "idle"
      BY <1>0, <2>1
    <2> QED
      BY <1>1, <2>1, <2>2, <2>3
  <1>19. CASE PollerStarts
    <2>1. /\ pc' = [pc EXCEPT ![Poller] = "poll"] /\ mem' = [mem EXCEPT ![Poller] = cfg]
          /\ UNCHANGED <<cfg, at, form, posted, pool, acked>>
      BY <1>19 DEF PollerStarts
    <2>2. \A b \in Browsers : pc'[b] = pc[b] /\ (pc[b] = "save" => at[b] \in pool)
      BY <1>0, <2>1 DEF TypeInv, Served, Active
    <2>3. \A w \in pool : mem'[w] = mem[w]
      BY <1>0, <2>1
    <2> QED
      BY <1>1, <2>1, <2>2, <2>3
  <1>20. ASSUME NEW p \in Procs, Crash(p) PROVE SaveInv'
    <2>1. /\ \A b \in Browsers : pc'[b] = IF at[b] = p THEN "load" ELSE pc[b]
          /\ \A b \in Browsers : at[b] # p => at'[b] = at[b] /\ posted'[b] = posted[b]
          /\ mem' = [mem EXCEPT ![p] = Unset] /\ UNCHANGED <<cfg, form, pool, acked>>
      BY <1>0, <1>20 DEF Crash, Proc, Failed
    <2>2. \A b \in Browsers : at[b] # p => mem'[at[b]] = mem[at[b]]
      BY <1>0, <2>1
    <2>3. \A w \in pool : mem'[w] = mem[w] \/ mem'[w] = Unset
      BY <1>0, <2>1
    <2> QED
      BY <1>1, <2>1, <2>2, <2>3
  <1>21. CASE UNCHANGED vars
    BY <1>1, <1>21 DEF vars
  <1> QED
    BY <1>10, <1>11, <1>12, <1>13, <1>14, <1>15, <1>16, <1>17, <1>18, <1>19, <1>20, <1>21
       DEF Next, Request, RequestStep, PollStep

\* "A save must survive" (test_dashboard.py): behind one worker and one browser
\* no later save, refused form, crash or failed poll brings back an older value
\* (update_config() posts the whole form, views.py).
THEOREM SavesSurvive ==
    ASSUME \A b, c \in Browsers : b = c
    PROVE  Spec => []SaveSurvivesOneWorker
  <1>1. SaveInv => SaveSurvivesOneWorker
    BY DEF SaveInv, SaveSurvivesOneWorker
  <1>2. TypeInv /\ BoundInv /\ SaveInv /\ [Next]_vars => SaveInv'
    BY SaveInvKept
  <1> QED
    BY <1>1, <1>2, TypeInvInit, TypeInvKept, BoundInvInit, BoundInvKept, SaveInvInit, PTL DEF Spec
=============================================================================
