----------------------- MODULE CallSpreadAlertsProofs -----------------------
(***************************************************************************)
(* What holds of CallSpreadAlerts for every set of workers and rules and   *)
(* every bound: the type invariant, that no process pages twice in a row   *)
(* with the same grade (two of them may page it once each), and that an    *)
(* undisturbed channel agrees with the last poll.                          *)
(***************************************************************************)
EXTENDS CallSpreadAlerts, TLAPS

-----------------------------------------------------------------------------
\* Trying one alert takes it off the list of that process, and nothing else
\* off any list (Sent of alerts.py's delivery loop).
LEMMA SentEffect ==
    ASSUME TypeOK, NEW p \in Procs, NEW r \in Rules, Sent(p, r)
    PROVE  /\ pending' \in [Procs -> Noted] /\ told' \in [Procs -> Noted]
           /\ \A q \in Procs, s \in Rules :
                 /\ pending'[q][s] = IF q = p /\ s = r THEN Nothing ELSE pending[q][s]
                 /\ told'[q][s] = IF q = p /\ s = r THEN pending[q][s] ELSE told[q][s]
  <1> USE DEF TypeOK, Sent, Noted
  <1>1. /\ pending[p] \in [Rules -> Grades \cup {Nothing}]
        /\ told[p] \in [Rules -> Grades \cup {Nothing}]
    OBVIOUS
  <1>2. [pending[p] EXCEPT ![r] = Nothing] \in [Rules -> Grades \cup {Nothing}]
    BY <1>1
  <1>3. [told[p] EXCEPT ![r] = pending[p][r]] \in [Rules -> Grades \cup {Nothing}]
    BY <1>1
  <1>4. /\ pending' = [pending EXCEPT ![p] = [pending[p] EXCEPT ![r] = Nothing]]
        /\ told' = [told EXCEPT ![p] = [told[p] EXCEPT ![r] = pending[p][r]]]
    OBVIOUS
  <1>5. QED
    BY <1>1, <1>2, <1>3, <1>4

\* A poll leaves to send what changed since a rule was last seen, and
\* remembers every grade (Poll, alerts.py's diff).
LEMMA PollEffect ==
    ASSUME TypeOK, NEW p \in Procs, Poll(p)
    PROVE  \A q \in Procs, s \in Rules :
             /\ last'[q][s] = IF q = p THEN grade[s] ELSE last[q][s]
             /\ pending'[q][s] = IF q # p THEN pending[q][s]
                                 ELSE IF last[p][s] \in {Nothing, grade[s]}
                                 THEN Nothing ELSE grade[s]
  BY DEF TypeOK, Poll, Noted, Graded

\* Every variable of the model of alerts.py keeps its type.
THEOREM TypeCorrect == Spec => []TypeOK
  <1> USE AlertsAssumption DEF Procs, Graded, Silent, Noted, State
  <1>1. Init => TypeOK
    BY DEF Init, TypeOK
  <1>2. TypeOK /\ [Next]_vars => TypeOK'
    <2> SUFFICES ASSUME TypeOK, [Next]_vars
                 PROVE  TypeOK'
      OBVIOUS
    <2> USE DEF TypeOK, book, channel, history
    <2>1. ASSUME NEW r \in Rules, NEW g \in Grades, Change(r, g) PROVE TypeOK'
      BY <2>1 DEF Change
    <2>2. CASE OpenOrClose
      BY <2>2 DEF OpenOrClose
    <2>3. ASSUME NEW p \in Procs, Poll(p) PROVE TypeOK'
      BY <2>3 DEF Poll
    <2>4. ASSUME NEW p \in Procs, PollFlat(p) PROVE TypeOK'
      BY <2>4 DEF PollFlat
    <2>5. ASSUME NEW p \in Procs, Publish(p) PROVE TypeOK'
      BY <2>5 DEF Publish
    <2>12. ASSUME NEW p \in Procs, PublishFails(p) PROVE TypeOK'
      BY <2>12 DEF PublishFails
    <2>6. ASSUME NEW p \in Procs, NEW r \in Rules, Deliver(p, r) \/ Lose(p, r)
          PROVE  TypeOK'
      <3>1. pending' \in [Procs -> Noted] /\ told' \in [Procs -> Noted]
        BY <2>6, SentEffect DEF Deliver, Lose
      <3>2. pending[p][r] # Nothing => pending[p][r] \in Grades
        OBVIOUS
      <3>3. QED
        BY <2>6, <3>1, <3>2 DEF Deliver, Lose, Sent
    <2>7. ASSUME NEW p \in Procs, Crash(p) PROVE TypeOK'
      BY <2>7 DEF Crash
    <2>8. CASE BeatRead
      BY <2>8 DEF BeatRead
    <2>9. CASE BeatPost \/ BeatLost
      BY <2>9 DEF BeatPost, BeatLost
    <2>10. CASE UNCHANGED vars
      BY <2>10 DEF vars
    <2>11. QED
      BY <2>1, <2>2, <2>3, <2>4, <2>5, <2>6, <2>7, <2>8, <2>9, <2>10, <2>12
         DEF Next, PollStep
  <1>3. QED
    BY <1>1, <1>2, PTL DEF Spec

-----------------------------------------------------------------------------
(* Paging once *)

\* What is left to send is what _last_state says by now and differs from the
\* last message; a rule that was told and has nothing left to send was told
\* its last state; and a process that does not poll has nothing left to send.
PagingInv ==
    \A p \in Procs, r \in Rules :
        IF pending[p][r] # Nothing
        THEN /\ pending[p][r] = last[p][r] /\ told[p][r] # last[p][r]
             /\ pc[p] = "deliver"
        ELSE told[p][r] \in {Nothing, last[p][r]}

\* No process posts the same grade of a rule twice in a row, each with its own
\* _last_state (alerts.py: process_alerts).
THEOREM EachPagesOnceHolds == Spec => []EachPagesOnce
  <1> USE AlertsAssumption DEF Silent
  <1>1. Init => PagingInv
    BY DEF Init, PagingInv
  <1>2. TypeOK /\ PagingInv /\ [Next]_vars => PagingInv'
    <2> SUFFICES ASSUME TypeOK, PagingInv, [Next]_vars
                 PROVE  PagingInv'
      OBVIOUS
    <2> USE DEF TypeOK, PagingInv, book, channel, history, Noted, Graded
    <2>1. CASE UNCHANGED <<pending, last, told, pc>>
      BY <2>1
    <2>2. ASSUME NEW p \in Procs, Poll(p) PROVE PagingInv'
      <3>1. told' = told /\ \A s \in Rules : pending[p][s] = Nothing
        BY <2>2 DEF Poll
      <3>2. pc' = [pc EXCEPT ![p] = "deliver"]
        BY <2>2 DEF Poll
      <3>3. QED
        BY <2>2, <3>1, <3>2, PollEffect
    <2>3. ASSUME NEW p \in Procs, NEW r \in Rules, Deliver(p, r) \/ Lose(p, r)
          PROVE  PagingInv'
      <3>1. last' = last /\ pc' = pc /\ Sent(p, r) /\ pending[p][r] # Nothing
        BY <2>3 DEF Deliver, Lose, Sent
      <3>2. \A q \in Procs, s \in Rules :
               /\ pending'[q][s] = IF q = p /\ s = r THEN Nothing ELSE pending[q][s]
               /\ told'[q][s] = IF q = p /\ s = r THEN pending[q][s] ELSE told[q][s]
        BY <3>1, SentEffect
      <3>3. QED
        BY <3>1, <3>2
    <2>4. ASSUME NEW p \in Procs, Crash(p) PROVE PagingInv'
      BY <2>4 DEF Crash
    <2>5. ASSUME NEW p \in Procs, PollFlat(p) \/ Publish(p) \/ PublishFails(p)
          PROVE  PagingInv'
      BY <2>5 DEF PollFlat, Publish, PublishFails
    <2>6. QED
      BY <2>1, <2>2, <2>3, <2>4, <2>5
         DEF Next, PollStep, vars, Change, OpenOrClose, BeatRead, BeatPost, BeatLost
  <1>3. PagingInv => EachPagesOnce
    BY DEF PagingInv, EachPagesOnce
  <1>4. QED
    BY <1>1, <1>2, <1>3, TypeCorrect, PTL DEF Spec

-----------------------------------------------------------------------------
(* The undisturbed channel *)

\* Why an undisturbed channel agrees with _last_state: only the poller polls;
\* between polls latest.json says what _last_state says (or that the book is
\* flat), and so does a heartbeat that has read it; a rule of which nothing
\* is left to send was shown its last state, by an alert or by a heartbeat.
Mirrors(rules) == rules \in {Nothing, FlatBook, last[Poller]}

UndisturbedInv ==
    ~disturbed =>
        /\ pollers = {Poller}
        /\ \A p \in Procs : p # Poller => pc[p] = "idle" /\ pending[p] = Silent
        /\ pc[Poller] = "idle" => pending[Poller] = Silent /\ Mirrors(latest)
        /\ pc[Poller] = "deliver" => Mirrors(snap[Poller]) /\ beat = Nothing
        /\ Mirrors(beat)
        /\ \A r \in Rules :
              IF pending[Poller][r] = Nothing
              THEN shown[r] \in {Nothing, last[Poller][r]}
              ELSE pending[Poller][r] = last[Poller][r]

\* While one process polls and is not restarted, no message and no publication
\* is lost and no heartbeat crosses a poll, the channel says of every rule what
\* the last poll found, so that no red is stale (alerts.py: process_alerts).
THEOREM ChannelAgreesHolds == Spec => []ChannelAgrees
  <1> USE AlertsAssumption DEF Silent, Procs, Mirrors
  <1>1. Init => UndisturbedInv
    BY DEF Init, UndisturbedInv
  <1>2. TypeOK /\ UndisturbedInv /\ [Next]_vars => UndisturbedInv'
    <2> SUFFICES ASSUME TypeOK, UndisturbedInv, [Next]_vars, ~disturbed'
                 PROVE  UndisturbedInv'
      BY DEF UndisturbedInv
    <2> USE DEF TypeOK, UndisturbedInv, book, channel, history, Noted, Graded, State
    <2>1. ASSUME NEW r \in Rules, NEW g \in Grades, Change(r, g)
          PROVE  UndisturbedInv'
      BY <2>1 DEF Change
    <2>2. CASE OpenOrClose
      BY <2>2 DEF OpenOrClose
    <2>3. ASSUME NEW p \in Procs, Poll(p) PROVE UndisturbedInv'
      <3>1. /\ p = Poller /\ ~disturbed /\ beat = Nothing
            /\ pc[p] = "idle" /\ pending[p] = Silent
            /\ pc' = [pc EXCEPT ![p] = "deliver"] /\ snap' = [snap EXCEPT ![p] = grade]
            /\ last' = [last EXCEPT ![p] = grade]
            /\ UNCHANGED <<pollers, beat, shown>>
        BY <2>3 DEF Poll
      <3>2. \A q \in Procs : q # p => pending'[q] = pending[q] /\ pc'[q] = pc[q]
        BY <2>3 DEF Poll
      <3>3. pc'[p] = "deliver" /\ snap'[p] = grade /\ last'[p] = grade
        BY <3>1
      <3>4. \A s \in Rules : IF pending'[p][s] = Nothing
                             THEN shown[s] \in {Nothing, grade[s]}
                             ELSE pending'[p][s] = grade[s]
        BY <2>3, <3>1, PollEffect
      <3>5. QED
        BY <3>1, <3>2, <3>3, <3>4
    <2>4. ASSUME NEW p \in Procs, PollFlat(p) PROVE UndisturbedInv'
      BY <2>4 DEF PollFlat
    <2>5. ASSUME NEW p \in Procs, Publish(p) PROVE UndisturbedInv'
      BY <2>5 DEF Publish
    <2>6. ASSUME NEW p \in Procs, NEW r \in Rules, Deliver(p, r)
          PROVE  UndisturbedInv'
      <3>1. /\ Sent(p, r) /\ ~disturbed /\ shown' = [shown EXCEPT ![r] = pending[p][r]]
            /\ UNCHANGED <<pollers, pc, snap, last, latest, beat>>
        BY <2>6 DEF Deliver
      <3>2. p = Poller /\ pc[p] = "deliver" /\ pending[p][r] # Nothing
        BY <3>1 DEF Sent
      <3>3. \A q \in Procs : q # p => pending'[q] = pending[q]
        BY <3>1 DEF Sent
      <3>4. pending[p][r] = last[p][r]
        BY <3>1, <3>2
      <3>5. \A s \in Rules : pending'[p][s] = IF s = r THEN Nothing ELSE pending[p][s]
        BY <3>1, SentEffect
      <3>6. \A s \in Rules : IF pending'[p][s] = Nothing
                             THEN shown'[s] \in {Nothing, last[p][s]}
                             ELSE pending'[p][s] = last[p][s]
        BY <3>1, <3>2, <3>4, <3>5
      <3>7. QED
        BY <3>1, <3>2, <3>3, <3>6
    <2>7. ASSUME NEW p \in Procs, NEW r \in Rules, Lose(p, r)
          PROVE  UndisturbedInv'
      BY <2>7 DEF Lose
    <2>8. CASE BeatRead
      BY <2>8 DEF BeatRead
    <2>9. CASE BeatPost \/ BeatLost
      BY <2>9 DEF BeatPost, BeatLost
    <2>10. CASE UNCHANGED vars
      BY <2>10 DEF vars
    <2>11. ASSUME NEW p \in Procs, Crash(p) \/ PublishFails(p)
           PROVE  UndisturbedInv'
      BY <2>11 DEF Crash, PublishFails
    <2>12. QED
      BY <2>1, <2>2, <2>3, <2>4, <2>5, <2>6, <2>7, <2>8, <2>9, <2>10, <2>11
         DEF Next, PollStep
  <1>3. UndisturbedInv => ChannelAgrees
    BY DEF UndisturbedInv, ChannelAgrees
  <1>4. QED
    BY <1>1, <1>2, <1>3, TypeCorrect, PTL DEF Spec
=============================================================================
