-------------------------- MODULE CallSpreadAlerts --------------------------
(***************************************************************************)
(* callspread/alerts.py and callspread/tasks.py: what the Slack channel is *)
(* told about the state of each rule.                                      *)
(*                                                                         *)
(* A poll grades every rule and diffs the grades with _last_state, a       *)
(* module global: each process that polls (callspread_poll, and a gunicorn *)
(* worker that serves a Refresh or a save) has its own, empty after a      *)
(* restart.  What changed is posted, one message per rule; then the poll   *)
(* publishes its rules in latest.json.  Every six hours the Huey consumer  *)
(* posts all the rules as it reads them there.                             *)
(*                                                                         *)
(* The grades themselves are an input: what the book would be graded if it *)
(* were polled now.  ALERT_CONFIG is as shipped with a webhook: enabled,   *)
(* reminderMinutes 0.  A poll that fails before process_alerts() grades    *)
(* nothing and publishes the old rules, so it changes nothing here; one    *)
(* that fails after it has remembered its grades and keeps the old rules   *)
(* (PublishFails).                                                         *)
(***************************************************************************)
EXTENDS Naturals

CONSTANTS Poller,     \* the callspread_poll process
          Workers,    \* the gunicorn workers
          Rules,      \* the ids of the rules
          FirstGrades, \* bound: how the book may grade when it all starts
          MaxChanges, \* bound: changes of the book
          MaxCrashes, \* bound: processes killed
          Nothing,    \* no grade: not evaluated, not told, nothing to send
          FlatBook    \* the rules of a snapshot without legs

Grades == {"good", "warning", "critical"}

ASSUME AlertsAssumption ==
    /\ Nothing \notin Grades
    /\ Nothing # FlatBook
    /\ {Nothing, FlatBook} \cap [Rules -> Grades] = {}
    /\ Poller \notin Workers
    /\ FirstGrades \subseteq Grades
    /\ MaxChanges \in Nat /\ MaxCrashes \in Nat

VARIABLES pollers,   \* the processes that poll in this deployment
          grade,     \* per rule: how the open position grades
          flat,      \* no option leg is open
          pc,        \* per process: "idle", or "deliver" inside a poll
          snap,      \* per process: what its poll will publish
          last,      \* per process: _last_state
          pending,   \* per process and rule: what is left of to_send
          latest,    \* the rules of latest.json
          beat,      \* the rules a heartbeat in flight has read
          shown,     \* per rule: the last thing the channel was told
          changes, crashes

\* History, for the properties only.
VARIABLES told,      \* per process and rule: its last alert since it started
          disturbed  \* several processes poll, or a message or a publication
                     \* was lost, or one that polls restarted, or a heartbeat
                     \* crossed a poll

vars == <<pollers, grade, flat, pc, snap, last, pending, latest, beat, shown,
          changes, crashes, told, disturbed>>

Procs == {Poller} \cup Workers
Graded == [Rules -> Grades]
Silent == [r \in Rules |-> Nothing]
Noted == [Rules -> Grades \cup {Nothing}]
State == Graded \cup {FlatBook, Nothing}

TypeOK ==
    /\ pollers \in SUBSET Procs
    /\ grade \in Graded
    /\ flat \in BOOLEAN
    /\ pc \in [Procs -> {"idle", "deliver"}]
    /\ snap \in [Procs -> State]
    /\ last \in [Procs -> Noted]
    /\ pending \in [Procs -> Noted]
    /\ latest \in State
    /\ beat \in Graded \cup {Nothing}
    /\ shown \in Noted
    /\ changes \in 0..MaxChanges
    /\ crashes \in 0..MaxCrashes
    /\ told \in [Procs -> Noted]
    /\ disturbed \in BOOLEAN

Init ==
    /\ pollers \in {{Poller}, Procs}
    /\ grade \in [Rules -> FirstGrades]
    /\ flat \in BOOLEAN
    /\ pc = [p \in Procs |-> "idle"]
    /\ snap = [p \in Procs |-> Nothing]
    /\ last = [p \in Procs |-> Silent]
    /\ pending = [p \in Procs |-> Silent]
    /\ latest = Nothing
    /\ beat = Nothing
    /\ shown = Silent
    /\ changes = 0 /\ crashes = 0
    /\ told = [p \in Procs |-> Silent]
    /\ disturbed = (pollers # {Poller})

book == <<pollers, grade, flat, changes>>
channel == <<beat, shown>>
history == <<told, disturbed>>

-----------------------------------------------------------------------------
(* Bugs the properties below must catch; no action of the model uses them. *)

\* _last_state is set only for a rule that sends nothing.
PollForgets(p) ==
    /\ p \in pollers
    /\ ~flat
    /\ pc[p] = "idle"
    /\ pc' = [pc EXCEPT ![p] = "deliver"]
    /\ snap' = [snap EXCEPT ![p] = grade]
    /\ LET changed(r) == last[p][r] \notin {Nothing, grade[r]}
       IN  /\ pending' = [pending EXCEPT ![p] =
                            [r \in Rules |-> IF changed(r) THEN grade[r] ELSE Nothing]]
           /\ last' = [last EXCEPT ![p] =
                         [r \in Rules |-> IF changed(r) THEN last[p][r] ELSE grade[r]]]
    /\ disturbed' = (disturbed \/ beat # Nothing)
    /\ UNCHANGED <<book, latest, channel, crashes, told>>

\* The grades of a flat book are remembered, though nothing is sent.
PollFlatRemembers(p) ==
    /\ p \in pollers
    /\ flat
    /\ pc[p] = "idle"
    /\ pc' = [pc EXCEPT ![p] = "deliver"]
    /\ snap' = [snap EXCEPT ![p] = FlatBook]
    /\ last' = [last EXCEPT ![p] = grade]
    /\ disturbed' = (disturbed \/ beat # Nothing)
    /\ UNCHANGED <<book, pending, latest, channel, crashes, told>>

\* The heartbeat does not look whether the book is flat.
BeatReadFlat ==
    /\ beat = Nothing
    /\ latest # Nothing
    /\ beat' = latest
    /\ disturbed' = (disturbed \/ \E p \in Procs : pc[p] # "idle")
    /\ UNCHANGED <<book, pc, snap, last, pending, latest, shown, crashes, told>>

\* The heartbeat stays silent when there is no open issue.
BeatPostOpenIssues ==
    /\ beat # Nothing
    /\ shown' = IF \E r \in Rules : beat[r] # "good" THEN beat ELSE shown
    /\ beat' = Nothing
    /\ UNCHANGED <<book, pc, snap, last, pending, latest, crashes, history>>

-----------------------------------------------------------------------------
\* The market moves, or the book is traded.
Change(r, g) ==
    /\ changes < MaxChanges
    /\ changes' = changes + 1
    /\ grade' = [grade EXCEPT ![r] = g]
    /\ UNCHANGED <<pollers, flat, pc, snap, last, pending, latest, channel, crashes, history>>

\* The last leg is closed, or a first one opened.
OpenOrClose ==
    /\ changes < MaxChanges
    /\ changes' = changes + 1
    /\ flat' = ~flat
    /\ UNCHANGED <<pollers, grade, pc, snap, last, pending, latest, channel, crashes, history>>

\* poll() up to process_alerts(), for a book with legs: diff with _last_state
\* and remember the new grades.  A rule not seen before sends nothing.
Poll(p) ==
    /\ p \in pollers
    /\ ~flat
    /\ pc[p] = "idle"
    /\ pc' = [pc EXCEPT ![p] = "deliver"]
    /\ snap' = [snap EXCEPT ![p] = grade]
    /\ pending' = [pending EXCEPT ![p] =
                      [r \in Rules |-> IF last[p][r] \in {Nothing, grade[r]}
                                       THEN Nothing ELSE grade[r]]]
    /\ last' = [last EXCEPT ![p] = grade]
    /\ disturbed' = (disturbed \/ beat # Nothing)
    /\ UNCHANGED <<book, latest, channel, crashes, told>>

\* The same for a flat book: process_alerts() returns before the diff.
PollFlat(p) ==
    /\ p \in pollers
    /\ flat
    /\ pc[p] = "idle"
    /\ pc' = [pc EXCEPT ![p] = "deliver"]
    /\ snap' = [snap EXCEPT ![p] = FlatBook]
    /\ disturbed' = (disturbed \/ beat # Nothing)
    /\ UNCHANGED <<book, last, pending, latest, channel, crashes, told>>

Sent(p, r) ==
    /\ pending[p][r] # Nothing
    /\ pending' = [pending EXCEPT ![p][r] = Nothing]
    /\ told' = [told EXCEPT ![p][r] = pending[p][r]]

\* deliver(): the message reaches the channel.
Deliver(p, r) ==
    /\ Sent(p, r)
    /\ shown' = [shown EXCEPT ![r] = pending[p][r]]
    /\ UNCHANGED <<book, pc, snap, last, latest, beat, crashes, disturbed>>

\* deliver(): it does not; an exception is only logged, and the status of
\* Slack's answer is not looked at.
Lose(p, r) ==
    /\ Sent(p, r)
    /\ disturbed' = TRUE
    /\ UNCHANGED <<book, pc, snap, last, latest, channel, crashes>>

\* _write_state(), when every alert has been tried.
Publish(p) ==
    /\ pc[p] = "deliver"
    /\ pending[p] = Silent
    /\ pc' = [pc EXCEPT ![p] = "idle"]
    /\ latest' = snap[p]
    /\ snap' = [snap EXCEPT ![p] = Nothing]
    /\ UNCHANGED <<book, last, pending, channel, crashes, history>>

\* poll() fails after the alerts, in store.append() or in _write_state(): the
\* except block publishes the rules it reads back, and what was remembered and
\* posted stays so.
PublishFails(p) ==
    /\ pc[p] = "deliver"
    /\ pending[p] = Silent
    /\ pc' = [pc EXCEPT ![p] = "idle"]
    /\ snap' = [snap EXCEPT ![p] = Nothing]
    /\ disturbed' = TRUE
    /\ UNCHANGED <<book, last, pending, latest, channel, crashes, told>>

\* Killed, and restarted with an empty _last_state.
Crash(p) ==
    /\ p \in pollers
    /\ crashes < MaxCrashes
    /\ crashes' = crashes + 1
    /\ pc' = [pc EXCEPT ![p] = "idle"]
    /\ snap' = [snap EXCEPT ![p] = Nothing]
    /\ last' = [last EXCEPT ![p] = Silent]
    /\ pending' = [pending EXCEPT ![p] = Silent]
    /\ told' = [told EXCEPT ![p] = Silent]
    /\ disturbed' = TRUE
    /\ UNCHANGED <<book, latest, channel>>

-----------------------------------------------------------------------------
\* send_callspread_heartbeat(): read_state().  No snapshot, or a flat one: it
\* says nothing about any rule.
BeatRead ==
    /\ beat = Nothing
    /\ latest \in Graded
    /\ beat' = latest
    /\ disturbed' = (disturbed \/ \E p \in Procs : pc[p] # "idle")
    /\ UNCHANGED <<book, pc, snap, last, pending, latest, shown, crashes, told>>

\* send_heartbeat(): lists the open issues, so that the others read as good.
BeatPost ==
    /\ beat # Nothing
    /\ shown' = beat
    /\ beat' = Nothing
    /\ UNCHANGED <<book, pc, snap, last, pending, latest, crashes, history>>

\* The post fails, or the consumer is killed before it.
BeatLost ==
    /\ beat # Nothing
    /\ beat' = Nothing
    /\ UNCHANGED <<book, pc, snap, last, pending, latest, shown, crashes, history>>

-----------------------------------------------------------------------------
PollStep(p) ==
    \/ Poll(p) \/ PollFlat(p) \/ Publish(p) \/ PublishFails(p)
    \/ \E r \in Rules : Deliver(p, r) \/ Lose(p, r)

Next ==
    \/ \E r \in Rules, g \in Grades : Change(r, g)
    \/ OpenOrClose
    \/ \E p \in Procs : PollStep(p) \/ Crash(p)
    \/ BeatRead
    \/ BeatPost
    \/ BeatLost

Spec == Init /\ [][Next]_vars

\* The poller keeps polling and finishes its polls, now and then with the
\* state written; a worker finishes the poll it serves; and the six-hourly
\* heartbeat gets through again and again.
Fairness ==
    /\ WF_vars(PollStep(Poller))
    /\ SF_vars(Publish(Poller))
    /\ \A w \in Workers : WF_vars(pc[w] # "idle" /\ PollStep(w))
    /\ WF_vars(BeatRead)
    /\ SF_vars(BeatPost)

FairSpec == Spec /\ Fairness

-----------------------------------------------------------------------------
\* Each process for itself pages a grade once (alerts.py: process_alerts diffs
\* with its own _last_state): what a process is about to post differs from its
\* own last message on that rule, whatever happened between (flat spells, lost
\* messages, heartbeats, publications that failed), until it restarts.  Two
\* processes that poll each page the same transition: "pages you once" (7-8) holds
\* of the channel only while one process polls.
EachPagesOnce ==
    \A p \in Procs, r \in Rules :
        pending[p][r] # Nothing => pending[p][r] # told[p][r]

\* "so a channel never sits on a stale red" (alerts.py): a rule with nothing
\* left to send is shown as it graded last, while one process polls and is not
\* restarted, no message and no publication is lost, and no heartbeat crosses a
\* poll.  With any of these a red may stay until the next heartbeat.
ChannelAgrees ==
    ~disturbed =>
        \A r \in Rules :
            pending[Poller][r] = Nothing => shown[r] \in {Nothing, last[Poller][r]}

\* The heartbeat repairs everything else: once the book stops changing, and
\* unless it is flat, the channel comes to say how every rule grades, for
\* good, whatever was lost, killed or sent twice.
ChannelCatchesUp == <>[](flat \/ shown = grade)
=============================================================================
