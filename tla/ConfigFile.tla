----------------------------- MODULE ConfigFile -----------------------------
(***************************************************************************)
(* callspread/config.py: config.json, read by load() in every process at   *)
(* boot and at every poll, seeded by load() on the very first boot, and    *)
(* rewritten by save() when a web worker handles the Settings panel.       *)
(*                                                                         *)
(* config.py serialises save() and the seeding with a threading.Lock,      *)
(* which one process does not share with another: here a process has at    *)
(* most one of them in progress, and different processes interleave.       *)
(*                                                                         *)
(* A save is update_config's: reload and patch (Patch), then save()'s      *)
(* open, flush and rename.  A process that raises while booting is         *)
(* restarted by systemd and boots again; one that raises later answers 500 *)
(* and goes on.                                                            *)
(***************************************************************************)
EXTENDS SharedFile

CONSTANTS Procs,      \* the processes that load config.json
          Values,     \* what a whole config.json may say
          Default,    \* default_config.json
          NoRequest   \* no save in progress, in the abstract specification

ASSUME ConfigAssumption ==
    /\ Default \in Values
    /\ Values \cap {Absent, Empty, Torn, NoRequest} = {}

\* How this deployment started and is used; chosen once, in Init.
VARIABLES savers,     \* the processes that serve the Settings panel
          firstBoot   \* TRUE: config.json did not exist yet

VARIABLES file,       \* config.json and config.json.tmp
          pc,         \* where each process is
          arg         \* the value its save is publishing

\* History, for the properties only.
VARIABLES overtaken,  \* somebody renamed the temporary file since this
                      \* process last opened it
          crashed     \* some process was killed

usage == <<savers, firstBoot>>
vars == <<savers, firstBoot, file, pc, arg, overtaken, crashed>>

Stages == {"down", "seedOpen", "seedWrite",
           "idle", "patched", "opened", "written"}

TypeOK ==
    /\ savers \in SUBSET Procs
    /\ firstBoot \in BOOLEAN
    /\ crashed \in BOOLEAN
    /\ file \in FileType(Procs, Values)
    /\ pc \in [Procs -> Stages]
    /\ arg \in [Procs -> Values]
    /\ overtaken \in [Procs -> BOOLEAN]

Init ==
    /\ savers \in SUBSET Procs
    /\ firstBoot \in BOOLEAN
    /\ crashed = FALSE
    /\ file = NewFile(Procs, IF firstBoot THEN Absent ELSE Default)
    /\ pc = [p \in Procs |-> "down"]
    /\ arg = [p \in Procs |-> Default]
    /\ overtaken = [p \in Procs |-> FALSE]

Goto(p, from, to) ==
    /\ pc[p] = from
    /\ pc' = [pc EXCEPT ![p] = to]

-----------------------------------------------------------------------------
(* Bugs the properties below must catch; no action of the model uses them. *)

\* A process that boots removes the temporary file a dead one left.
BootSweeps(p) ==
    /\ file.live \in Values
    /\ Goto(p, "down", "idle")
    /\ file' = [file EXCEPT !.tmp = Absent]
    /\ UNCHANGED <<usage, arg, overtaken, crashed>>

\* The defaults are created empty and never copied.
SeedWriteEmpty(p) ==
    /\ Goto(p, "seedWrite", "down")
    /\ file' = Killed(file, p)
    /\ UNCHANGED <<usage, arg, overtaken, crashed>>

\* apply_patch() returns nothing, and save() is given that.
PatchNone(p, v) ==
    /\ p \in savers
    /\ file.live \in Values
    /\ Goto(p, "idle", "patched")
    /\ arg' = [arg EXCEPT ![p] = NoRequest]
    /\ UNCHANGED <<usage, file, overtaken, crashed>>

\* save() opens the published name, as the code did before it used a rename.
OpenInPlace(p) ==
    /\ Goto(p, "patched", "opened")
    /\ file' = OpenLive(file, p)
    /\ overtaken' = [overtaken EXCEPT ![p] = FALSE]
    /\ UNCHANGED <<usage, arg, crashed>>

\* A process that boots publishes the save a dead one left behind.
BootFinishes(p) ==
    /\ file.live \in Values
    /\ Goto(p, "down", "idle")
    /\ file' = IF file.tmp \in Values THEN Replaced(file) ELSE file
    /\ UNCHANGED <<usage, arg, overtaken, crashed>>

-----------------------------------------------------------------------------
\* load() at boot, config.json there and whole.
Boot(p) ==
    /\ file.live \in Values
    /\ Goto(p, "down", "idle")
    /\ UNCHANGED <<usage, file, arg, overtaken, crashed>>

\* load() at boot, config.json there and unreadable: JSONDecodeError ends the
\* process, which systemd will start once more.
BootFails(p) ==
    /\ file.live \in Broken
    /\ Goto(p, "down", "down")
    /\ UNCHANGED <<usage, file, arg, overtaken, crashed>>

\* load() at boot, config.json absent in both of its checks: the second is
\* inside the lock, but another process has a lock of its own.
SeedCheck(p) ==
    /\ file.live = Absent
    /\ Goto(p, "down", "seedOpen")
    /\ UNCHANGED <<usage, file, arg, overtaken, crashed>>

\* shutil.copyfile opens the published name itself, there or not by now ...
SeedOpen(p) ==
    /\ Goto(p, "seedOpen", "seedWrite")
    /\ file' = OpenLive(file, p)
    /\ UNCHANGED <<usage, arg, overtaken, crashed>>

\* ... and copies the defaults into it.  load() then opens and parses it,
\* which is Boot.
SeedWrite(p) ==
    /\ Goto(p, "seedWrite", "down")
    /\ file' \in FlushClose(file, p, Default)
    /\ UNCHANGED <<usage, arg, overtaken, crashed>>

\* update_config: reload_config() and apply_patch().  On a broken file
\* load() raises, the view answers 500 and nothing changes.
Patch(p, v) ==
    /\ p \in savers
    /\ file.live \in Values
    /\ Goto(p, "idle", "patched")
    /\ arg' = [arg EXCEPT ![p] = v]
    /\ UNCHANGED <<usage, file, overtaken, crashed>>

\* save(): tmp.open("w")
Open(p) ==
    /\ Goto(p, "patched", "opened")
    /\ file' = OpenTmp(file, p)
    /\ overtaken' = [overtaken EXCEPT ![p] = FALSE]
    /\ UNCHANGED <<usage, arg, crashed>>

\* save(): json.dump, flushed when the with block ends
Write(p) ==
    /\ Goto(p, "opened", "written")
    /\ file' \in FlushClose(file, p, arg[p])
    /\ UNCHANGED <<usage, arg, overtaken, crashed>>

\* save(): tmp.replace(path)
Publish(p) ==
    /\ file.tmp # Absent
    /\ Goto(p, "written", "idle")
    /\ file' = Replaced(file)
    /\ overtaken' = [q \in Procs |-> q # p]
    /\ UNCHANGED <<usage, arg, crashed>>

\* The same call after another process renamed the temporary file away:
\* FileNotFoundError, and the view answers 500.
PublishFails(p) ==
    /\ file.tmp = Absent
    /\ Goto(p, "written", "idle")
    /\ UNCHANGED <<usage, file, arg, overtaken, crashed>>

\* Killed at any point; the supervisor starts it again.
Crash(p) ==
    /\ pc[p] # "down"
    /\ pc' = [pc EXCEPT ![p] = "down"]
    /\ file' = Killed(file, p)
    /\ crashed' = TRUE
    /\ UNCHANGED <<usage, arg, overtaken>>

Next ==
    \E p \in Procs :
        \/ Boot(p)
        \/ BootFails(p)
        \/ SeedCheck(p)
        \/ SeedOpen(p)
        \/ SeedWrite(p)
        \/ \E v \in Values : Patch(p, v)
        \/ Open(p)
        \/ Write(p)
        \/ Publish(p)
        \/ PublishFails(p)
        \/ Crash(p)

Spec == Init /\ [][Next]_vars

\* systemd restarts what died (Restart=always) and a process that is booting
\* or seeding keeps running.
BootFairness ==
    \A p \in Procs : WF_vars(Boot(p) \/ SeedCheck(p) \/ SeedOpen(p) \/ SeedWrite(p))

FairSpec == Spec /\ BootFairness

-----------------------------------------------------------------------------
\* At most one process serves the Settings panel.
OneSaver == \A p, q \in savers : p = q

\* "a crash mid-write must not leave a truncated config that stops the
\* dashboard booting" (config.py save()): once seeded, config.json parses at
\* every moment, whatever process is killed wherever, as long as one process
\* handles all the saves.
LiveBoots == ~firstBoot /\ OneSaver => file.live \in Values

\* A save ends in FileNotFoundError only when a save of another process was
\* published since it opened the temporary file: of several racing saves one
\* always gets in.
FailsOnlyIfOvertaken ==
    \A p \in Procs : pc[p] = "written" /\ ~overtaken[p] => file.tmp # Absent

\* First boot, load() in every process at once: whoever sees a half-copied
\* seed dies and is restarted, and unless one is killed in mid-copy every
\* process ends up running on a whole config.json.
BootSettles ==
    <>[](\/ crashed \/ ~OneSaver
         \/ file.live \in Values /\ \A p \in Procs : pc[p] # "down")

\* save() is atomic: what is published goes from whole value to whole value,
\* each the one some caller was saving.  Stated of the deployments LiveBoots
\* is about; in the others the mapping shows a register at rest.
Saving == {"patched", "opened", "written"}

Calm == ~firstBoot /\ OneSaver

Request ==
    [p \in Procs |-> IF Calm /\ pc[p] \in Saving THEN arg[p] ELSE NoRequest]

Abstract == INSTANCE AtomicSave
            WITH value <- IF Calm THEN file.live ELSE Default,
                 asked <- Request

SavesAreAtomic == Abstract!Spec
=============================================================================
