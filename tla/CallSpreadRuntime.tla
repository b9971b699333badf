-------------------------- MODULE CallSpreadRuntime --------------------------
(***************************************************************************)
(* callspread/runtime.py and views.py: the poller process and the gunicorn *)
(* workers, which share config.json and latest.json and nothing else.      *)
(*                                                                         *)
(* Each process has a Runtime with its own copy of the settings            *)
(* (self.config).  The poller polls STS in a loop; a worker polls when the *)
(* dashboard asks it to (Refresh, a Settings save, a page opened before    *)
(* there is anything to show).  The browser fills its Settings form from   *)
(* the last /api/state answer, by whichever worker gave it, and posts the  *)
(* WHOLE form (static/callspread/app.js); it asks for the state again when  *)
(* a Refresh or a save is answered, and the operator opens Settings only   *)
(* when that has come back.                                                *)
(*                                                                         *)
(* A settings value is the number of the edit it comes from, so "older"    *)
(* and "lost" can be told; a snapshot is the settings it was computed with.*)
(* Alerts and history are modelled in their own modules.  config.save() is *)
(* one step here: ConfigFile shows it is atomic when saves do not race,    *)
(* and a browser makes one at a time.                                      *)
(***************************************************************************)
EXTENDS SharedFile, Naturals, FiniteSets

CONSTANTS Poller,      \* the callspread_poll process
          Workers,     \* the gunicorn worker processes
          Pools,       \* the sets of workers that may serve the dashboard
          Browsers,    \* open dashboards, each with one request in flight
          Keys,        \* the fields of the Settings form
          MaxEdits,    \* bound: edits submitted
          MaxRefresh,  \* bound: presses of Refresh
          MaxCrashes,  \* bound: processes killed
          NoSnap,      \* null in place of a snapshot
          Unset,       \* a Runtime not built, a form not loaded
          Nobody       \* the worker of a browser with no request in flight

ASSUME RuntimeAssumption ==
    /\ Poller \notin Workers \cup Browsers
    /\ Nobody \notin Workers
    /\ IsFiniteSet(Workers) /\ Pools \subseteq SUBSET Workers
    /\ MaxEdits \in Nat /\ MaxRefresh \in Nat /\ MaxCrashes \in Nat

VARIABLES cfg,      \* config.json
          st,       \* latest.json and its temporary file
          mem,      \* per process: Runtime.config
          pc,       \* per actor (the poller's loop, a browser's request)
          at,       \* per browser: the worker that serves its request
          asking,   \* per browser: that request is GET /api/state
          form,     \* per browser: state.config, what the form is filled from
          posted,   \* per browser: the settings its save publishes
          out,      \* per actor: the payload its poll publishes
          pool,     \* the workers that happen to serve this dashboard
          edits, refreshes, crashes

\* History, for the properties only.
VARIABLES acked,     \* per field: the newest edit a save has published
          webPolled  \* a worker, and not only the poller, published a state

vars == <<cfg, st, mem, pc, at, asking, form, posted, out, pool, edits,
          refreshes, crashes, acked, webPolled>>

Procs == {Poller} \cup Workers
Actors == {Poller} \cup Browsers
Config == [Keys -> 0..MaxEdits]
Payload == [snap : Config \cup {NoSnap}, err : BOOLEAN]

ASSUME MarksAreNoContent ==
    /\ NoSnap \notin Config /\ Unset \notin Config
    /\ \A m \in Broken \cup {Absent} : m \notin Payload

WriteStages == {"open", "flush", "replace"}
PollStages == {"fetch", "recover"} \cup WriteStages
Stages == {"idle", "down", "raised", "save", "reload", "poll", "answer", "load"}
              \cup PollStages

TypeOK ==
    /\ cfg \in Config
    /\ st \in FileType(Procs, Payload)
    /\ mem \in [Procs -> Config \cup {Unset}]
    /\ pc \in [Actors -> Stages]
    /\ at \in [Browsers -> Workers \cup {Nobody}]
    /\ asking \in [Browsers -> BOOLEAN]
    /\ form \in [Browsers -> Config \cup {Unset}]
    /\ posted \in [Browsers -> Config]
    /\ out \in [Actors -> Payload]
    /\ pool \in Pools
    /\ edits \in 0..MaxEdits /\ refreshes \in 0..MaxRefresh
    /\ crashes \in 0..MaxCrashes
    /\ acked \in Config
    /\ webPolled \in BOOLEAN

NoPayload == [snap |-> NoSnap, err |-> FALSE]
Shipped == [k \in Keys |-> 0]

Init ==
    /\ cfg = Shipped
    /\ st = NewFile(Procs, Absent)
    /\ mem = [p \in Procs |-> Unset]
    /\ pc = [a \in Actors |-> IF a = Poller THEN "down" ELSE "idle"]
    /\ at = [b \in Browsers |-> Nobody]
    /\ asking = [b \in Browsers |-> FALSE]
    /\ form = [b \in Browsers |-> Unset]
    /\ posted = [b \in Browsers |-> Shipped]
    /\ out = [a \in Actors |-> NoPayload]
    /\ pool \in Pools
    /\ edits = 0 /\ refreshes = 0 /\ crashes = 0
    /\ acked = Shipped
    /\ webPolled = FALSE

Proc(a) == IF a = Poller THEN Poller ELSE at[a]

Goto(a, from, to) == pc[a] = from /\ pc' = [pc EXCEPT ![a] = to]

\* get_runtime(): the first request of a process builds its Runtime, which
\* loads config.json.
Settings(p) == IF mem[p] = Unset THEN cfg ELSE mem[p]

\* read_state(): {} for a missing or unreadable latest.json.
Shown == IF st.live \in Broken \cup {Absent} THEN NoSnap ELSE st.live.snap

\* Runtime._poll_lock of one process, held by the actor in these stages.
PollLockFree(p) == \A a \in Actors : pc[a] \in PollStages => Proc(a) # p

\* After its poll a request for the state is answered; any other one is
\* answered and the browser loads the state; the poller sleeps and polls again.
Finished(a) == CASE a = Poller -> "poll"
                 [] a # Poller /\ asking[a] -> "answer"
                 [] OTHER -> "load"
\* An exception leaves poll(), or the process is killed: the poller is down,
\* the browser gets an error page and loads the state again.
Failed(a, poller) == IF a = Poller THEN poller ELSE "load"
\* Either way the locals of the request are gone.
LeavePoll(a) ==
    /\ at' = IF a # Poller /\ ~asking[a] THEN [at EXCEPT ![a] = Nobody] ELSE at
    /\ out' = [out EXCEPT ![a] = NoPayload]

budget == <<edits, refreshes, crashes>>
history == <<acked, webPolled>>
-----------------------------------------------------------------------------
(* Bugs the properties below must catch; no action of the model uses them. *)

\* poll() without its reload_config().
PollBeginNoReload(a) ==
    /\ PollLockFree(Proc(a))
    /\ Goto(a, "poll", "fetch")
    /\ mem' = [mem EXCEPT ![Proc(a)] = Settings(Proc(a))]
    /\ UNCHANGED <<cfg, st, at, asking, form, posted, out, pool, budget, history>>

\* A failed poll publishes no snapshot.
RecoverBlank(a) ==
    /\ Goto(a, "recover", "open")
    /\ out' = [out EXCEPT ![a] = [snap |-> NoSnap, err |-> TRUE]]
    /\ UNCHANGED <<cfg, st, mem, at, asking, form, posted, pool, budget, history>>

\* A failed poll publishes the whole old state as the snapshot.
RecoverNested(a) ==
    /\ Goto(a, "recover", "open")
    /\ out' = [out EXCEPT ![a] = [snap |-> st.live, err |-> TRUE]]
    /\ UNCHANGED <<cfg, st, mem, at, asking, form, posted, pool, budget, history>>

\* read_state() without its except.
RecoverRaises(a) ==
    /\ Goto(a, "recover", IF Shown = NoSnap THEN Failed(a, "raised") ELSE "open")
    /\ out' = [out EXCEPT ![a] = [snap |-> Shown, err |-> TRUE]]
    /\ UNCHANGED <<cfg, st, mem, at, asking, form, posted, pool, budget, history>>

\* /api/state answers with the settings the last snapshot was computed with.
LoadStateFromSnapshot(b, w) ==
    /\ w \in pool
    /\ pc[b] \in {"idle", "load"}
    /\ Shown # NoSnap
    /\ mem' = [mem EXCEPT ![w] = Settings(w)]
    /\ form' = [form EXCEPT ![b] = Shown]
    /\ pc' = [pc EXCEPT ![b] = "idle"]
    /\ UNCHANGED <<cfg, st, at, asking, posted, out, pool, budget, history>>

-----------------------------------------------------------------------------
\* GET /api/state handled by w: _state_payload() answers with latest.json and
\* the worker's OWN copy of the settings.
LoadState(b, w) ==
    /\ w \in pool
    /\ pc[b] \in {"idle", "load"}
    /\ Shown # NoSnap
    /\ mem' = [mem EXCEPT ![w] = Settings(w)]
    /\ form' = [form EXCEPT ![b] = Settings(w)]
    /\ pc' = [pc EXCEPT ![b] = "idle"]
    /\ UNCHANGED <<cfg, st, at, asking, posted, out, pool, budget, history>>

\* With nothing to show it polls inline first ...
LoadFirst(b, w) ==
    /\ w \in pool
    /\ pc[b] \in {"idle", "load"}
    /\ Shown = NoSnap
    /\ refreshes < MaxRefresh
    /\ refreshes' = refreshes + 1
    /\ mem' = [mem EXCEPT ![w] = Settings(w)]
    /\ pc' = [pc EXCEPT ![b] = "poll"]
    /\ at' = [at EXCEPT ![b] = w]
    /\ asking' = [asking EXCEPT ![b] = TRUE]
    /\ UNCHANGED <<cfg, st, form, posted, out, pool, edits, crashes, history>>

\* ... and answers with what there is by then.
Answer(b) ==
    /\ Goto(b, "answer", "idle")
    /\ form' = [form EXCEPT ![b] = mem[at[b]]]
    /\ at' = [at EXCEPT ![b] = Nobody]
    /\ asking' = [asking EXCEPT ![b] = FALSE]
    /\ UNCHANGED <<cfg, st, mem, posted, out, pool, budget, history>>

\* POST /api/refresh handed to w.
Refresh(b, w) ==
    /\ w \in pool
    /\ refreshes < MaxRefresh
    /\ refreshes' = refreshes + 1
    /\ Goto(b, "idle", "poll")
    /\ at' = [at EXCEPT ![b] = w]
    /\ mem' = [mem EXCEPT ![w] = Settings(w)]
    /\ UNCHANGED <<cfg, st, asking, form, posted, out, pool, edits, crashes, history>>

\* POST /api/config handed to w: the form as last loaded, with k edited.
\* reload_config() and apply_patch() change Runtime.config in place, before
\* anything is saved.
PostSettings(b, w, k) ==
    /\ w \in pool
    /\ form[b] # Unset
    /\ edits < MaxEdits
    /\ edits' = edits + 1
    /\ LET new == [form[b] EXCEPT ![k] = edits + 1]
       IN  /\ mem' = [mem EXCEPT ![w] = new]
           /\ posted' = [posted EXCEPT ![b] = new]
    /\ Goto(b, "idle", "save")
    /\ at' = [at EXCEPT ![b] = w]
    /\ UNCHANGED <<cfg, st, asking, form, out, pool, refreshes, crashes, history>>

\* The same with a later field float() refuses: apply_patch() raises with the
\* fields before it already changed in memory, and the view answers 500.
PostInvalid(b, w, k, before) ==
    /\ w \in pool
    /\ Goto(b, "idle", "load")
    /\ form[b] # Unset
    /\ k \in before /\ before # Keys
    /\ edits < MaxEdits
    /\ edits' = edits + 1
    /\ mem' = [mem EXCEPT ![w] =
                 [j \in Keys |-> CASE j = k -> edits + 1
                                   [] j \in before \ {k} -> form[b][j]
                                   [] OTHER -> cfg[j]]]
    /\ UNCHANGED <<cfg, st, at, asking, form, posted, out, pool, refreshes, crashes, history>>

\* config.save(): from here the view has published the save.
SaveSettings(b) ==
    /\ Goto(b, "save", "reload")
    /\ cfg' = posted[b]
    /\ acked' = [k \in Keys |-> IF posted[b][k] > acked[k] THEN posted[b][k] ELSE acked[k]]
    /\ posted' = [posted EXCEPT ![b] = Shipped]
    /\ UNCHANGED <<st, mem, at, asking, form, out, pool, budget, webPolled>>

\* update_config's second reload_config(), then poll(persist=False).
ReloadSettings(b) ==
    /\ Goto(b, "reload", "poll")
    /\ mem' = [mem EXCEPT ![Proc(b)] = cfg]
    /\ UNCHANGED <<cfg, st, at, asking, form, posted, out, pool, budget, history>>

-----------------------------------------------------------------------------
\* poll(): take the poll lock and re-read config.json.
PollBegin(a) ==
    /\ PollLockFree(Proc(a))
    /\ Goto(a, "poll", "fetch")
    /\ mem' = [mem EXCEPT ![Proc(a)] = cfg]
    /\ UNCHANGED <<cfg, st, at, asking, form, posted, out, pool, budget, history>>

\* _fetch_book() answered; build_snapshot() uses self.config as it is by now.
FetchOk(a) ==
    /\ Goto(a, "fetch", "open")
    /\ out' = [out EXCEPT ![a] = [snap |-> mem[Proc(a)], err |-> FALSE]]
    /\ UNCHANGED <<cfg, st, mem, at, asking, form, posted, pool, budget, history>>

FetchFails(a) ==
    /\ Goto(a, "fetch", "recover")
    /\ UNCHANGED <<cfg, st, mem, at, asking, form, posted, out, pool, budget, history>>

\* except: read_state(), to publish the old snapshot with the error.
Recover(a) ==
    /\ Goto(a, "recover", "open")
    /\ out' = [out EXCEPT ![a] = [snap |-> Shown, err |-> TRUE]]
    /\ UNCHANGED <<cfg, st, mem, at, asking, form, posted, pool, budget, history>>

\* _write_state()
StateOpen(a) ==
    /\ Goto(a, "open", "flush")
    /\ st' = OpenTmp(st, Proc(a))
    /\ webPolled' = (webPolled \/ a # Poller)
    /\ UNCHANGED <<cfg, mem, at, asking, form, posted, out, pool, budget, acked>>

StateFlush(a) ==
    /\ Goto(a, "flush", "replace")
    /\ st' \in FlushClose(st, Proc(a), out[a])
    /\ UNCHANGED <<cfg, mem, at, asking, form, posted, out, pool, budget, history>>

StateReplace(a) ==
    /\ st.tmp # Absent
    /\ Goto(a, "replace", Finished(a))
    /\ st' = Replaced(st)
    /\ LeavePoll(a)
    /\ UNCHANGED <<cfg, mem, asking, form, posted, pool, budget, history>>

\* FileNotFoundError: inside the try it is one more failed poll; inside the
\* except nothing catches it.
StateReplaceFails(a) ==
    /\ st.tmp = Absent
    /\ \/ /\ ~out[a].err /\ Goto(a, "replace", "recover")
          /\ UNCHANGED <<at, out>>
       \/ /\ out[a].err /\ Goto(a, "replace", Failed(a, "raised"))
          /\ LeavePoll(a)
    /\ UNCHANGED <<cfg, st, mem, asking, form, posted, pool, budget, history>>

-----------------------------------------------------------------------------
\* callspread_poll starts, the first time or because systemd restarts it.
PollerStarts ==
    /\ pc[Poller] \in {"down", "raised"}
    /\ pc' = [pc EXCEPT ![Poller] = "poll"]
    /\ mem' = [mem EXCEPT ![Poller] = cfg]
    /\ UNCHANGED <<cfg, st, at, asking, form, posted, out, pool, budget, history>>

\* A process is killed between two steps, with the requests it was serving.
Crash(p) ==
    /\ crashes < MaxCrashes
    /\ crashes' = crashes + 1
    /\ LET Lost(a, blank, kept) == IF Proc(a) = p THEN blank ELSE kept
       IN  /\ pc' = [a \in Actors |->
                        Lost(a, Failed(a, "down"), pc[a])]
           /\ at' = [b \in Browsers |-> Lost(b, Nobody, at[b])]
           /\ asking' = [b \in Browsers |-> Lost(b, FALSE, asking[b])]
           /\ posted' = [b \in Browsers |-> Lost(b, Shipped, posted[b])]
           /\ out' = [a \in Actors |-> Lost(a, NoPayload, out[a])]
    /\ mem' = [mem EXCEPT ![p] = Unset]
    /\ st' = Killed(st, p)
    /\ UNCHANGED <<cfg, form, pool, edits, refreshes, acked, webPolled>>

PollStep(a) ==
    \/ PollBegin(a) \/ FetchOk(a) \/ FetchFails(a) \/ Recover(a)
    \/ StateOpen(a) \/ StateFlush(a) \/ StateReplace(a) \/ StateReplaceFails(a)

RequestStep(b) == SaveSettings(b) \/ ReloadSettings(b) \/ Answer(b)

Request(b) ==
    \E w \in Workers :
        \/ LoadState(b, w)
        \/ LoadFirst(b, w)
        \/ Refresh(b, w)
        \/ \E k \in Keys : \/ PostSettings(b, w, k)
                           \/ \E before \in SUBSET Keys : PostInvalid(b, w, k, before)

Next ==
    \/ \E b \in Browsers : Request(b)
    \/ \E b \in Browsers : RequestStep(b)
    \/ \E a \in Actors : PollStep(a)
    \/ PollerStarts
    \/ \E p \in Procs : Crash(p)

Spec == Init /\ [][Next]_vars

\* Every process that runs keeps running, systemd restarts the poller, and
\* STS does not fail for ever: the poller's fetch succeeds again and again.
Fairness ==
    /\ \A a \in Actors : WF_vars(PollStep(a))
    /\ \A b \in Browsers : WF_vars(RequestStep(b))
    /\ WF_vars(PollerStarts)
    /\ SF_vars(FetchOk(Poller))

FairSpec == Spec /\ Fairness

-----------------------------------------------------------------------------
OneWorker == Cardinality(pool) <= 1

AtLeast(c, d) == \A k \in Keys : c[k] >= d[k]

\* "A save must survive" (test_dashboard.py:132, checked on what /api/state
\* serves): whatever answers a browser after a save shows what was saved.
ServedSettingsAreSaved ==
    [][\A b \in Browsers : form'[b] # form[b] => AtLeast(form'[b], acked)]_vars

\* No later save brings back an older value of another field, when one worker
\* serves the dashboard: what a save published stays in config.json until it
\* is edited again, crashes and refused forms included.
SaveSurvivesOneWorker == OneWorker => AtLeast(cfg, acked)

\* "Never raises" (runtime.py poll()): no exception ends the poller.
NeverRaises == pc[Poller] # "raised"

\* The same while no worker publishes latest.json beside the poller.
NeverRaisesAlone == ~webPolled => NeverRaises

\* A failed poll or a killed poller leaves the last snapshot on screen, while
\* no worker publishes beside it (runtime.py: "survive a web restart with
\* data already on screen").
ScreenIsKept == [][~webPolled' /\ Shown # NoSnap => Shown' # NoSnap]_vars

\* Once the edits stop, latest.json comes to show the settings on disk and
\* keeps showing them, whatever polls were in flight, failed or were killed.
ScreenSettles == <>[](Shown = cfg)
=============================================================================
