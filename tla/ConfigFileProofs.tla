-------------------------- MODULE ConfigFileProofs --------------------------
(***************************************************************************)
(* What holds of ConfigFile for every set of processes, values and savers. *)
(* The file operations of SharedFile come first, as lemmas; then the type  *)
(* invariant; then the two halves of the safety argument: why a save that  *)
(* fails was overtaken, and why one saver keeps config.json whole, from    *)
(* which the refinement of AtomicSave follows.                             *)
(***************************************************************************)
EXTENDS ConfigFile, TLAPS

-----------------------------------------------------------------------------
(* SharedFile *)

\* A file nobody has open is a file (SharedFile's NewFile).
LEMMA NewType ==
    ASSUME NEW P, NEW V, NEW c \in V \cup {Absent}
    PROVE  NewFile(P, c) \in FileType(P, V)
  BY DEF FileType, Descriptor, NewFile

\* A truncated file and a killed writer's are files again (SharedFile's
\* OpenTmp, OpenLive, Killed).
LEMMA OpenType ==
    ASSUME NEW P, NEW V, NEW f \in FileType(P, V), NEW p \in P
    PROVE  /\ OpenTmp(f, p) \in FileType(P, V)
           /\ OpenLive(f, p) \in FileType(P, V)
           /\ Killed(f, p) \in FileType(P, V)
  BY DEF FileType, Descriptor, Broken, OpenTmp, OpenLive, Killed

\* Flushing a value leaves a file and closes that descriptor and no other
\* (SharedFile's FlushClose).
LEMMA FlushType ==
    ASSUME NEW P, NEW V, NEW f \in FileType(P, V), NEW p \in P, NEW v \in V,
           NEW g \in FlushClose(f, p, v), Absent \notin V
    PROVE  /\ g \in FileType(P, V)
           /\ g.fd = [f.fd EXCEPT ![p] = "none"]
  <1> DEFINE closed == [f.fd EXCEPT ![p] = "none"]
  <1>1. closed \in [P -> Descriptor]
    BY DEF FileType, Descriptor
  <1>2. \A old \in V \cup Broken \cup {Absent} : \A c \in Flushed(old, v) :
            c \in V \cup Broken
    BY FileMarksAreDistinct DEF Flushed, Broken
  <1>3. f.tmp \in V \cup Broken \cup {Absent} /\ f.live \in V \cup Broken \cup {Absent}
    BY DEF FileType
  <1>4. f = [live |-> f.live, tmp |-> f.tmp, fd |-> f.fd]
    BY DEF FileType
  <1>5. CASE g \in {[live |-> f.live, tmp |-> c, fd |-> closed] : c \in Flushed(f.tmp, v)}
    BY <1>1, <1>2, <1>3, <1>5 DEF FileType
  <1>6. CASE g \in {[live |-> c, tmp |-> f.tmp, fd |-> closed] : c \in Flushed(f.live, v)}
    BY <1>1, <1>2, <1>3, <1>6 DEF FileType
  <1>7. CASE g = [f EXCEPT !.fd = closed]
    BY <1>1, <1>3, <1>4, <1>7 DEF FileType
  <1>8. QED
    BY <1>5, <1>6, <1>7 DEF FlushClose

\* The same about the descriptors alone (SharedFile's FlushClose).
LEMMA FlushClosesFd ==
    ASSUME NEW P, NEW V, NEW f \in FileType(P, V), NEW p \in P, NEW v \in V,
           NEW g \in FlushClose(f, p, v), Absent \notin V, NEW q \in P
    PROVE  g.fd[q] = IF q = p THEN "none" ELSE f.fd[q]
  <1>1. g.fd = [f.fd EXCEPT ![p] = "none"]
    BY FlushType
  <1>2. f.fd \in [P -> Descriptor]
    BY DEF FileType
  <1>3. QED
    BY <1>1, <1>2

\* Flushing never removes the temporary name (SharedFile's FlushClose).
LEMMA FlushKeepsTmp ==
    ASSUME NEW P, NEW V, NEW f \in FileType(P, V), NEW p \in P, NEW v \in V,
           NEW g \in FlushClose(f, p, v), Absent \notin V, f.tmp # Absent
    PROVE  g.tmp # Absent
  BY FileMarksAreDistinct DEF FileType, FlushClose, Flushed

\* What a descriptor opened on the temporary name flushes into an inode
\* nobody else wrote to is exactly the value (SharedFile's FlushClose).
LEMMA FlushExact ==
    ASSUME NEW P, NEW V, NEW f \in FileType(P, V), NEW p \in P, NEW v \in V,
           f.fd[p] = "tmp", f.tmp = Empty, NEW g \in FlushClose(f, p, v)
    PROVE  g.tmp = v /\ g.live = f.live
  BY DEF FlushClose, Flushed, FileType

\* The rename is a file too (SharedFile's Replaced).
LEMMA ReplaceType ==
    ASSUME NEW P, NEW V, NEW f \in FileType(P, V)
    PROVE  /\ Replaced(f) \in FileType(P, V)
           /\ \A p \in P : Replaced(f).fd[p] = Moved(f.fd[p])
  BY DEF FileType, Descriptor, Replaced, Moved

-----------------------------------------------------------------------------
(* Type correctness *)

LEMMA ValuesAreWhole == /\ Absent \notin Values /\ Empty \notin Values
                        /\ Torn \notin Values /\ NoRequest \notin Values
                        /\ Default \in Values
  BY ConfigAssumption

\* Every variable of config.py's model keeps its type.
THEOREM TypeCorrect == Spec => []TypeOK
  <1> USE ValuesAreWhole
  <1>1. Init => TypeOK
    <2> SUFFICES ASSUME Init PROVE TypeOK
      OBVIOUS
    <2>1. (IF firstBoot THEN Absent ELSE Default) \in Values \cup {Absent}
      OBVIOUS
    <2>2. file \in FileType(Procs, Values)
      BY <2>1, NewType DEF Init
    <2>3. QED
      BY <2>2 DEF Init, TypeOK, Stages
  <1>2. TypeOK /\ [Next]_vars => TypeOK'
    <2> SUFFICES ASSUME TypeOK, [Next]_vars
                 PROVE  TypeOK'
      OBVIOUS
    <2> USE DEF TypeOK, Goto, Stages, usage
    <2>1. ASSUME NEW p \in Procs, Boot(p) PROVE TypeOK'
      BY <2>1 DEF Boot
    <2>2. ASSUME NEW p \in Procs, BootFails(p) PROVE TypeOK'
      BY <2>2 DEF BootFails
    <2>3. ASSUME NEW p \in Procs, SeedCheck(p) PROVE TypeOK'
      BY <2>3 DEF SeedCheck
    <2>4. ASSUME NEW p \in Procs, SeedOpen(p) PROVE TypeOK'
      BY <2>4, OpenType DEF SeedOpen
    <2>5. ASSUME NEW p \in Procs, SeedWrite(p) PROVE TypeOK'
      BY <2>5, FlushType DEF SeedWrite
    <2>6. ASSUME NEW p \in Procs, NEW v \in Values, Patch(p, v) PROVE TypeOK'
      BY <2>6 DEF Patch
    <2>7. ASSUME NEW p \in Procs, Open(p) PROVE TypeOK'
      BY <2>7, OpenType DEF Open
    <2>8. ASSUME NEW p \in Procs, Write(p) PROVE TypeOK'
      <3>1. arg[p] \in Values
        OBVIOUS
      <3>2. QED
        BY <2>8, <3>1, FlushType DEF Write
    <2>9. ASSUME NEW p \in Procs, Publish(p) PROVE TypeOK'
      BY <2>9, ReplaceType DEF Publish
    <2>10. ASSUME NEW p \in Procs, PublishFails(p) PROVE TypeOK'
      BY <2>10 DEF PublishFails
    <2>11. ASSUME NEW p \in Procs, Crash(p) PROVE TypeOK'
      BY <2>11, OpenType DEF Crash
    <2>12. CASE UNCHANGED vars
      BY <2>12 DEF vars
    <2>13. QED
      BY <2>1, <2>2, <2>3, <2>4, <2>5, <2>6, <2>7, <2>8, <2>9, <2>10, <2>11,
         <2>12 DEF Next
  <1>3. QED
    BY <1>1, <1>2, PTL DEF Spec

-----------------------------------------------------------------------------
(* Racing saves *)

\* Between its open and its rename, a save nobody overtook still has its
\* temporary file.
StillThere ==
    \A p \in Procs : pc[p] \in {"opened", "written"} /\ ~overtaken[p]
                        => file.tmp # Absent

\* save() raises FileNotFoundError only when another process's save got in
\* first (config.py save(), tmp.replace).
THEOREM SaveFailsOnlyIfOvertaken == Spec => []FailsOnlyIfOvertaken
  <1> USE ValuesAreWhole, FileMarksAreDistinct
  <1>1. Init => StillThere
    BY DEF Init, StillThere
  <1>2. TypeOK /\ StillThere /\ [Next]_vars => StillThere'
    <2> SUFFICES ASSUME TypeOK, StillThere, [Next]_vars
                 PROVE  StillThere'
      OBVIOUS
    <2> USE DEF TypeOK, StillThere, Goto
    <2>1. ASSUME NEW p \in Procs,
                 \/ Boot(p) \/ BootFails(p) \/ SeedCheck(p) \/ PublishFails(p)
                 \/ \E v \in Values : Patch(p, v)
          PROVE  StillThere'
      BY <2>1 DEF Boot, BootFails, SeedCheck, PublishFails, Patch
    <2>2. ASSUME NEW p \in Procs, SeedOpen(p) PROVE StillThere'
      BY <2>2 DEF SeedOpen, OpenLive, FileType
    <2>3. ASSUME NEW p \in Procs, SeedWrite(p) PROVE StillThere'
      <3> file \in FileType(Procs, Values) /\ file' \in FlushClose(file, p, Default)
        BY <2>3 DEF SeedWrite
      <3>1. file'.tmp = Absent => file.tmp = Absent
        BY FlushKeepsTmp
      <3>2. pc' = [pc EXCEPT ![p] = "down"] /\ overtaken' = overtaken
        BY <2>3 DEF SeedWrite
      <3>3. QED
        BY <3>1, <3>2
    <2>4. ASSUME NEW p \in Procs, Open(p) PROVE StillThere'
      BY <2>4 DEF Open, OpenTmp, FileType
    <2>5. ASSUME NEW p \in Procs, Write(p) PROVE StillThere'
      <3>1. arg[p] \in Values
        OBVIOUS
      <3> file \in FileType(Procs, Values) /\ file' \in FlushClose(file, p, arg[p])
        BY <2>5 DEF Write
      <3>2. file'.tmp = Absent => file.tmp = Absent
        BY <3>1, FlushKeepsTmp
      <3>3. /\ pc[p] = "opened" /\ pc' = [pc EXCEPT ![p] = "written"]
            /\ overtaken' = overtaken
        BY <2>5 DEF Write
      <3>4. QED
        BY <3>2, <3>3
    <2>6. ASSUME NEW p \in Procs, Publish(p) PROVE StillThere'
      BY <2>6 DEF Publish
    <2>7. ASSUME NEW p \in Procs, Crash(p) PROVE StillThere'
      BY <2>7 DEF Crash, Killed, FileType
    <2>8. CASE UNCHANGED vars
      BY <2>8 DEF vars
    <2>9. QED
      BY <2>1, <2>2, <2>3, <2>4, <2>5, <2>6, <2>7, <2>8 DEF Next
  <1>3. StillThere => FailsOnlyIfOvertaken
    BY DEF StillThere, FailsOnlyIfOvertaken
  <1>4. QED
    BY <1>1, <1>2, <1>3, TypeCorrect, PTL DEF Spec

-----------------------------------------------------------------------------
(* One saver *)

\* Why one saver keeps config.json whole: nobody seeds, only the saver has a
\* descriptor, it points at the temporary name exactly between open and
\* flush, and what stands there is its own.
OneSaverInv ==
    Calm =>
      /\ file.live \in Values
      /\ \A p \in Procs :
           /\ pc[p] \notin {"seedOpen", "seedWrite"}
           /\ pc[p] \in Saving => p \in savers
           /\ file.fd[p] = IF pc[p] = "opened" THEN "tmp" ELSE "none"
           /\ pc[p] = "opened" => file.tmp = Empty
           /\ pc[p] = "written" => file.tmp = arg[p]

LEMMA OneSaverInit == Init => OneSaverInv
  BY ValuesAreWhole DEF Init, OneSaverInv, Calm, OneSaver, NewFile, Saving

LEMMA OneSaverStep == TypeOK /\ OneSaverInv /\ [Next]_vars => OneSaverInv'
  <1> SUFFICES ASSUME TypeOK, OneSaverInv, [Next]_vars, Calm'
               PROVE  OneSaverInv'
    BY DEF OneSaverInv
  <1> USE ValuesAreWhole, FileMarksAreDistinct
          DEF TypeOK, OneSaverInv, Calm, OneSaver, Goto, usage, Saving
  <1>1. Calm /\ savers' = savers /\ firstBoot' = firstBoot
    BY DEF Next, vars, Boot, BootFails, SeedCheck, SeedOpen, SeedWrite, Patch,
           Open, Write, Publish, PublishFails, Crash
  <1>2. ASSUME NEW p \in Procs,
               \/ Boot(p) \/ BootFails(p) \/ PublishFails(p)
               \/ \E v \in Values : Patch(p, v)
        PROVE  OneSaverInv'
    BY <1>1, <1>2 DEF Boot, BootFails, PublishFails, Patch
  <1>3. ASSUME NEW p \in Procs, SeedCheck(p) \/ SeedOpen(p) \/ SeedWrite(p)
        PROVE  FALSE
    BY <1>1, <1>3 DEF SeedCheck, SeedOpen, SeedWrite
  <1>4. ASSUME NEW p \in Procs, Open(p) PROVE OneSaverInv'
    BY <1>1, <1>4 DEF Open, OpenTmp, FileType
  <1>5. ASSUME NEW p \in Procs, Write(p) PROVE OneSaverInv'
    <2>1. arg[p] \in Values /\ file.fd[p] = "tmp" /\ file.tmp = Empty
      BY <1>1, <1>5 DEF Write
    <2>2. file'.tmp = arg[p] /\ file'.live = file.live
      BY <1>5, <2>1, FlushExact DEF Write
    <2>3. \A q \in Procs : file'.fd[q] = IF q = p THEN "none" ELSE file.fd[q]
      BY <1>5, <2>1, FlushClosesFd DEF Write
    <2>4. /\ pc[p] = "opened" /\ pc' = [pc EXCEPT ![p] = "written"]
          /\ arg' = arg
      BY <1>5 DEF Write
    <2>5. QED
      BY <1>1, <2>1, <2>2, <2>3, <2>4
  <1>6. ASSUME NEW p \in Procs, Publish(p) PROVE OneSaverInv'
    <2>1. file'.live = arg[p] /\ arg[p] \in Values
      BY <1>1, <1>6 DEF Publish, Replaced
    <2>2. \A q \in Procs : file'.fd[q] = Moved(file.fd[q])
      BY <1>6, ReplaceType DEF Publish
    <2>3. \A q \in Procs : q # p => pc[q] \notin Saving
      BY <1>1, <1>6 DEF Publish
    <2>4. \A q \in Procs : file.fd[q] = "none"
      BY <1>1, <1>6, <2>3 DEF Publish
    <2>5. QED
      BY <1>1, <1>6, <2>1, <2>2, <2>3, <2>4 DEF Publish, Moved
  <1>7. ASSUME NEW p \in Procs, Crash(p) PROVE OneSaverInv'
    BY <1>1, <1>7 DEF Crash, Killed, FileType
  <1>8. CASE UNCHANGED vars
    BY <1>8 DEF vars
  <1>9. QED
    BY <1>2, <1>3, <1>4, <1>5, <1>6, <1>7, <1>8 DEF Next

\* With one process handling the saves, no crash at any point leaves a
\* config.json that load() cannot parse (config.py save()'s comment).
THEOREM OneSaverKeepsConfigWhole == Spec => []LiveBoots
  <1>1. OneSaverInv => LiveBoots
    BY DEF OneSaverInv, LiveBoots, Calm
  <1>2. QED
    BY <1>1, OneSaverInit, OneSaverStep, TypeCorrect, PTL DEF Spec

-----------------------------------------------------------------------------
(* Refinement *)

\* Every step of a deployment with one saver is a step of AtomicSave or
\* leaves the published value and the requests alone.
LEMMA StepSimulation ==
    TypeOK /\ OneSaverInv /\ [Next]_vars => [Abstract!Next]_(Abstract!vars)
  <1> SUFFICES ASSUME TypeOK, OneSaverInv, [Next]_vars
               PROVE  [Abstract!Next]_(Abstract!vars)
    OBVIOUS
  <1> USE ValuesAreWhole DEF TypeOK, Goto, usage, Saving
  <1>1. savers' = savers /\ firstBoot' = firstBoot /\ (Calm' <=> Calm)
    BY DEF Calm, OneSaver, Next, vars, Boot, BootFails, SeedCheck, SeedOpen, SeedWrite,
           Patch, Open, Write, Publish, PublishFails, Crash
  <1>2. CASE ~Calm
    BY <1>1, <1>2 DEF Request, Abstract!vars
  <1>3. CASE Calm
    <2> USE <1>1, <1>3 DEF Request
    <2>1. ASSUME NEW p \in Procs, Boot(p) \/ BootFails(p) \/ Open(p)
          PROVE  UNCHANGED Abstract!vars
      <3>1. file'.live = file.live
        BY <2>1 DEF Boot, BootFails, Open, OpenTmp, FileType
      <3>2. /\ pc' = [pc EXCEPT ![p] = pc'[p]]
            /\ pc'[p] \in Saving <=> pc[p] \in Saving
            /\ arg' = arg
        BY <2>1 DEF Boot, BootFails, Open
      <3>3. Request' = Request
        BY <3>2
      <3>4. QED
        BY <3>1, <3>3 DEF Abstract!vars
    <2>2. ASSUME NEW p \in Procs, SeedCheck(p) \/ SeedOpen(p) \/ SeedWrite(p)
          PROVE  FALSE
      BY <2>2 DEF OneSaverInv, SeedCheck, SeedOpen, SeedWrite
    <2>3. ASSUME NEW p \in Procs, NEW v \in Values, Patch(p, v)
          PROVE  Abstract!Ask(p, v)
      BY <2>3 DEF Patch, Abstract!Ask
    <2>4. ASSUME NEW p \in Procs, Write(p)
          PROVE  UNCHANGED Abstract!vars
      <3>1. arg[p] \in Values /\ file.fd[p] = "tmp" /\ file.tmp = Empty
        BY <2>4 DEF Write, OneSaverInv
      <3>2. file'.live = file.live
        BY <2>4, <3>1, FlushExact DEF Write
      <3>3. /\ pc[p] = "opened" /\ pc' = [pc EXCEPT ![p] = "written"]
            /\ arg' = arg
        BY <2>4 DEF Write
      <3>4. Request' = Request
        BY <3>3
      <3>5. QED
        BY <3>2, <3>4 DEF Abstract!vars
    <2>5. ASSUME NEW p \in Procs, Publish(p)
          PROVE  Abstract!TakeEffect(p)
      BY <2>5 DEF Publish, Replaced, OneSaverInv, Abstract!TakeEffect
    <2>6. ASSUME NEW p \in Procs, PublishFails(p) \/ Crash(p)
          PROVE  Abstract!Drop(p)
      <3>1. pc' = [pc EXCEPT ![p] = pc'[p]] /\ pc'[p] \notin Saving /\ arg' = arg
        BY <2>6 DEF PublishFails, Crash
      <3>2. file'.live = file.live
        BY <2>6 DEF PublishFails, Crash, Killed, FileType
      <3>3. Request' = [Request EXCEPT ![p] = NoRequest]
        BY <3>1
      <3>4. QED
        BY <3>2, <3>3 DEF Abstract!Drop
    <2>7. CASE UNCHANGED vars
      BY <2>7 DEF vars, Abstract!vars
    <2>8. QED
      BY <2>1, <2>2, <2>3, <2>4, <2>5, <2>6, <2>7 DEF Next, Abstract!Next
  <1>4. QED
    BY <1>2, <1>3

\* With one saver, config.save() is an atomic write: config.json goes from
\* whole value to whole value, each the one a caller was saving.
THEOREM OneSaverIsAtomic == Spec => SavesAreAtomic
  <1>1. Init => Abstract!Init
    BY ValuesAreWhole DEF Init, Abstract!Init, Request, Calm, NewFile, Saving
  <1>2. QED
    BY <1>1, StepSimulation, OneSaverInit, OneSaverStep, TypeCorrect, PTL
       DEF Spec, SavesAreAtomic, Abstract!Spec
=============================================================================
