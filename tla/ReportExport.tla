---------------------------- MODULE ReportExport ----------------------------
(***************************************************************************)
(* Publishing the daily NAV report: tracker/tasks.py, run_nav_report_export*)
(* (the scheduled exporter) and the command export_nav_report (by hand),   *)
(* over tracker/services/gsheets.py.                                       *)
(*                                                                         *)
(* An export is a chain of remote calls: find the folder, find or create   *)
(* the day's spreadsheet, remember its id in a file, make the tabs, rewrite*)
(* and format two of them, tell.  Any call may fail, either process may be *)
(* killed between two calls, nothing keeps the two from running at once,   *)
(* and people may put a sheet in the trash or delete it.                   *)
(***************************************************************************)
EXTENDS Integers, FiniteSets, Sequences

CONSTANTS Torn,        \* what an unparseable file of ids holds
          MaxDays,     \* bound: days
          MaxRuns,     \* bound: exports started
          MaxFaults    \* bound: calls that fail, exporters killed, sheets removed

ASSUME ExportAssumption == {MaxDays, MaxRuns, MaxFaults} \subseteq Nat

VARIABLES fired,   \* the last date exported on schedule
          job,     \* per exporter: the export it is in
          idMap,   \* the file of sheet ids by date; Torn: not JSON
          folders, \* report folders in Drive, by number
          sheets,  \* spreadsheets in Drive, by number, removed ones included
          told,    \* outcomes posted to Slack (arrived or not) or printed
          killed,  \* exports killed
          crossed, \* dates two exporters worked on at once
          runs, faults

vars == <<fired, job, idMap, folders, sheets, told, killed, crossed, runs, faults>>

-----------------------------------------------------------------------------
Exporters == {"scheduled", "byHand"}
Days == 1..MaxDays
NoMap == [d \in {} |-> 0]
Put(map, d, n) == [e \in DOMAIN map \cup {d} |-> IF e = d THEN n ELSE map[e]]
Default == "Sheet1"
Wanted == {"NAV Summary", "Detail"}

\* rows: NAV Summary, the export behind the row of each date; detail: the
\* export behind the Detail tab, 0 while it is empty; rules: conditional
\* formats by tab; last: the last export that cleared a tab; place: in the
\* folder, in the trash, or gone for good.
NewSheet(d, folder) ==
    [title |-> d, folder |-> folder, place |-> "folder", tabs |-> {Default},
     rows |-> NoMap, detail |-> 0, rules |-> [t \in Wanted |-> 0], last |-> 0]

Idle == [stage |-> "idle", run |-> 0, date |-> 0, recon |-> FALSE, folder |-> 0,
         map |-> NoMap, sheet |-> 0, tabs |-> {}, rows |-> NoMap, rules |-> 0]

MapStages == {"map", "cached", "lookup", "create", "truncate", "save"}
SheetStages == {"tabs", "addTabs", "dropDefault", "clearSummary", "writeSummary",
                "metaSummary", "formatSummary", "clearDetail", "writeDetail", "metaDetail",
                "formatDetail"}
Stages == {"idle", "folder", "makeFolder", "tell"} \cup MapStages \cup SheetStages

Init ==
    /\ fired = 0
    /\ job = [a \in Exporters |-> Idle]
    /\ idMap = NoMap /\ folders = {}
    /\ sheets = << >>
    /\ told = {} /\ killed = {} /\ crossed = {}
    /\ runs = 0 /\ faults = 0

-----------------------------------------------------------------------------
(* Helpers. *)

\* A file that does not parse, torn or of an older format, is an empty map.
LoadIdMap == IF idMap = Torn THEN NoMap ELSE idMap

IdMaps == UNION {[D -> 1..MaxRuns] : D \in SUBSET Days}

Titled(d, folder) ==
    {i \in DOMAIN sheets : sheets[i].title = d /\ sheets[i].folder = folder
                           /\ sheets[i].place = "folder"}

\* By its id a sheet is found in the trash too, and written there.
Resolves(i) == sheets[i].place # "gone"

\* What to do about the tabs, by the tabs seen.
AfterTabs(tabs) == IF Default \in tabs THEN "dropDefault" ELSE "clearSummary"

\* Rules a tab is given: TOTAL rows in the summary, breaks, explained offsets
\* and large differences in the detail of a reconciled report.
RulesOf(tab, recon) == IF tab = "NAV Summary" THEN 1 ELSE IF recon THEN 3 ELSE 0

Fault == faults < MaxFaults /\ faults' = faults + 1
Go(a, stage) == job' = [job EXCEPT ![a].stage = stage]
Edit(i, sheet) == sheets' = [sheets EXCEPT ![i] = sheet]

\* The export ends; the failures are told as the successes are.
Leave(a, ok) ==
    /\ told' = told \cup {[by |-> a, run |-> job[a].run, date |-> job[a].date,
                           sheet |-> job[a].sheet, ok |-> ok]}
    /\ job' = [job EXCEPT ![a] = Idle]

-----------------------------------------------------------------------------
(* Bugs the properties must catch; nothing below uses them. *)

\* A sheet the file does not know is taken not to exist.
LookupNever(a) ==
    /\ job[a].stage = "lookup"
    /\ Go(a, "create")
    /\ UNCHANGED <<fired, idMap, folders, sheets, told, killed, crossed, runs, faults>>

\* The rules already on the tab are not counted.
TabMetaZero(a) ==
    /\ job[a].stage \in {"metaSummary", "metaDetail"}
    /\ Resolves(job[a].sheet)
    /\ job' = [job EXCEPT ![a].rules = 0,
                          ![a].stage = IF @ = "metaSummary" THEN "formatSummary" ELSE "formatDetail"]
    /\ UNCHANGED <<fired, idMap, folders, sheets, told, killed, crossed, runs, faults>>

\* The id of the sheet just made is not kept.
CreateForgets(a) ==
    /\ job[a].stage = "create"
    /\ sheets' = Append(sheets, NewSheet(job[a].date, job[a].folder))
    /\ Go(a, "truncate")
    /\ UNCHANGED <<fired, idMap, folders, told, killed, crossed, runs, faults>>

\* Writing is taken for cosmetics: a failure is logged and the export goes on.
FailTolerant(a) ==
    /\ job[a].stage \in {"clearSummary", "writeSummary", "clearDetail", "writeDetail"}
    /\ Fault
    /\ Go(a, CASE job[a].stage = "clearSummary" -> "writeSummary"
               [] job[a].stage = "writeSummary" -> "metaSummary"
               [] job[a].stage = "clearDetail" -> "writeDetail"
               [] job[a].stage = "writeDetail" -> "metaDetail")
    /\ UNCHANGED <<fired, idMap, folders, sheets, told, killed, crossed, runs>>

\* Only a failure to write the sheet is told.
FailUntold(a) ==
    /\ job[a].stage \in SheetStages \cup {"folder"}
    /\ Fault
    /\ IF job[a].stage = "folder"
         THEN job' = [job EXCEPT ![a] = Idle] /\ UNCHANGED told
         ELSE Leave(a, FALSE)
    /\ UNCHANGED <<fired, idMap, folders, sheets, killed, crossed, runs>>

-----------------------------------------------------------------------------
(* The start of an export. *)

\* Building the report reads the database only; if it fails, the export ends
\* before its first call.
Begin(a, d) ==
    /\ job[a] = Idle /\ runs < MaxRuns
    /\ runs' = runs + 1
    /\ job' = [job EXCEPT ![a] = [Idle EXCEPT !.stage = "folder", !.run = runs + 1, !.date = d]]
    /\ crossed' = IF \E o \in Exporters : job[o] # Idle /\ job[o].date = d
                    THEN crossed \cup {d} ELSE crossed
    /\ UNCHANGED <<idMap, folders, sheets, told, killed, faults>>

\* The hourly task acts in one hour of the day; queued past it, or with the
\* consumer down, it skips the day.
Fire ==
    /\ \E d \in Days : d > fired /\ fired' = d /\ Begin("scheduled", d)

\* The command takes the day it is run on or, with --date, any other.
Command(d) == Begin("byHand", d) /\ UNCHANGED fired

-----------------------------------------------------------------------------
(* Folder and sheet. *)

FindFolder(a) ==
    /\ job[a].stage = "folder"
    /\ \/ \E f \in folders : job' = [job EXCEPT ![a].folder = f, ![a].stage = "map"]
       \/ folders = {} /\ Go(a, "makeFolder")
    /\ UNCHANGED <<fired, idMap, folders, sheets, told, killed, crossed, runs, faults>>

MakeFolder(a) ==
    LET f == Cardinality(folders) + 1
    IN /\ job[a].stage = "makeFolder"
       /\ folders' = folders \cup {f}
       /\ job' = [job EXCEPT ![a].folder = f, ![a].stage = "map"]
       /\ UNCHANGED <<fired, idMap, sheets, told, killed, crossed, runs, faults>>

ReadIdMap(a) ==
    /\ job[a].stage = "map"
    /\ job' = [job EXCEPT ![a].map = LoadIdMap,
                          ![a].stage = IF job[a].date \in DOMAIN LoadIdMap THEN "cached" ELSE "lookup"]
    /\ UNCHANGED <<fired, idMap, folders, sheets, told, killed, crossed, runs, faults>>

UseCached(a) ==
    LET j == job[a]
    IN /\ j.stage = "cached"
       /\ job' = [job EXCEPT ![a] = IF Resolves(j.map[j.date])
                                      THEN [@ EXCEPT !.sheet = j.map[j.date], !.map = NoMap, !.stage = "tabs"]
                                      ELSE [@ EXCEPT !.stage = "lookup"]]
       /\ UNCHANGED <<fired, idMap, folders, sheets, told, killed, crossed, runs, faults>>

Lookup(a) ==
    LET found == Titled(job[a].date, job[a].folder)
    IN /\ job[a].stage = "lookup"
       /\ \/ \E i \in found : job' = [job EXCEPT ![a].sheet = i, ![a].stage = "truncate"]
          \/ found = {} /\ Go(a, "create")
       /\ UNCHANGED <<fired, idMap, folders, sheets, told, killed, crossed, runs, faults>>

Create(a) ==
    LET i == Len(sheets) + 1
    IN /\ job[a].stage = "create"
       /\ sheets' = Append(sheets, NewSheet(job[a].date, job[a].folder))
       /\ job' = [job EXCEPT ![a].sheet = i, ![a].stage = "truncate"]
       /\ UNCHANGED <<fired, idMap, folders, told, killed, crossed, runs, faults>>

\* open(id_file, "w")
TruncateIdMap(a) ==
    /\ job[a].stage = "truncate"
    /\ idMap' = Torn
    /\ Go(a, "save")
    /\ UNCHANGED <<fired, folders, sheets, told, killed, crossed, runs, faults>>

\* The whole map goes back as it was read, with this sheet; on top of a longer
\* one that another exporter wrote since, it leaves a torn file.
SaveIdMap(a) ==
    LET map == Put(job[a].map, job[a].date, job[a].sheet)
        over == idMap # Torn /\ Cardinality(DOMAIN LoadIdMap) > Cardinality(DOMAIN map)
    IN /\ job[a].stage = "save"
       /\ idMap' = IF over THEN Torn ELSE map
       /\ job' = [job EXCEPT ![a].map = NoMap, ![a].stage = "tabs"]
       /\ UNCHANGED <<fired, folders, sheets, told, killed, crossed, runs, faults>>

-----------------------------------------------------------------------------
(* Tabs.  A batch that asks for what is there, or for what is not, fails. *)

ReadTabs(a) ==
    LET tabs == sheets[job[a].sheet].tabs
    IN /\ job[a].stage = "tabs" /\ Resolves(job[a].sheet)
       /\ job' = [job EXCEPT ![a].tabs = tabs, ![a].folder = 0,
                             ![a].stage = IF Wanted \subseteq tabs THEN AfterTabs(tabs) ELSE "addTabs"]
       /\ UNCHANGED <<fired, idMap, folders, sheets, told, killed, crossed, runs, faults>>

CanAdd(j) == (Wanted \ j.tabs) \cap sheets[j.sheet].tabs = {}
AddTabs(a) ==
    LET j == job[a]
    IN /\ j.stage = "addTabs" /\ Resolves(j.sheet) /\ CanAdd(j)
       /\ Edit(j.sheet, [sheets[j.sheet] EXCEPT !.tabs = @ \cup Wanted])
       /\ Go(a, AfterTabs(j.tabs))
       /\ UNCHANGED <<fired, idMap, folders, told, killed, crossed, runs, faults>>

CanDrop(j) == Default \in sheets[j.sheet].tabs
DropDefault(a) ==
    LET j == job[a]
    IN /\ j.stage = "dropDefault" /\ Resolves(j.sheet) /\ CanDrop(j)
       /\ Edit(j.sheet, [sheets[j.sheet] EXCEPT !.tabs = @ \ {Default}])
       /\ job' = [job EXCEPT ![a].tabs = {}, ![a].stage = "clearSummary"]
       /\ UNCHANGED <<fired, idMap, folders, told, killed, crossed, runs, faults>>

-----------------------------------------------------------------------------
(* The two tabs. *)

\* The summary is read whole before it is cleared.
ClearTab(a) ==
    LET j == job[a]
        cleared == [sheets[j.sheet] EXCEPT !.last = j.run]
    IN /\ j.stage \in {"clearSummary", "clearDetail"} /\ Resolves(j.sheet)
       /\ Edit(j.sheet, IF j.stage = "clearSummary" THEN [cleared EXCEPT !.rows = NoMap]
                        ELSE [cleared EXCEPT !.detail = 0])
       /\ job' = [job EXCEPT ![a] = IF j.stage = "clearSummary"
                                      THEN [@ EXCEPT !.rows = sheets[j.sheet].rows, !.stage = "writeSummary"]
                                      ELSE [@ EXCEPT !.stage = "writeDetail"]]
       /\ UNCHANGED <<fired, idMap, folders, told, killed, crossed, runs, faults>>

\* The summary keeps the rows of other dates that were read; the detail is
\* rewritten, with the reconciliation's columns or without: the command may not
\* be asked for them, and a scheduled report goes on when they cannot be had.
WriteTab(a) ==
    LET j == job[a]
    IN /\ j.stage \in {"writeSummary", "writeDetail"} /\ Resolves(j.sheet)
       /\ \/ /\ j.stage = "writeSummary"
             /\ Edit(j.sheet, [sheets[j.sheet] EXCEPT !.rows = Put(j.rows, j.date, j.run)])
             /\ job' = [job EXCEPT ![a].rows = NoMap, ![a].stage = "metaSummary"]
          \/ /\ j.stage = "writeDetail"
             /\ Edit(j.sheet, [sheets[j.sheet] EXCEPT !.detail = j.run])
             /\ \E recon \in BOOLEAN :
                  job' = [job EXCEPT ![a].recon = recon, ![a].stage = "metaDetail"]
       /\ UNCHANGED <<fired, idMap, folders, told, killed, crossed, runs, faults>>

TabMeta(a) ==
    LET j == job[a]
        tab == IF j.stage = "metaSummary" THEN "NAV Summary" ELSE "Detail"
    IN /\ j.stage \in {"metaSummary", "metaDetail"} /\ Resolves(j.sheet)
       /\ job' = [job EXCEPT ![a].rules = sheets[j.sheet].rules[tab],
                             ![a].stage = IF tab = "Detail" THEN "formatDetail" ELSE "formatSummary"]
       /\ UNCHANGED <<fired, idMap, folders, sheets, told, killed, crossed, runs, faults>>

\* One batch: the rules counted are deleted and the new ones added, or, when
\* fewer are left or the call fails, nothing is done and the export goes on.
FormatTab(a) ==
    LET j == job[a]
        tab == IF j.stage = "formatSummary" THEN "NAV Summary" ELSE "Detail"
        had == sheets[j.sheet].rules[tab]
    IN /\ j.stage \in {"formatSummary", "formatDetail"}
       /\ IF Resolves(j.sheet) /\ had >= j.rules
            THEN Edit(j.sheet, [sheets[j.sheet] EXCEPT !.rules[tab] = had - j.rules + RulesOf(tab, j.recon)])
            ELSE UNCHANGED sheets
       /\ job' = [job EXCEPT ![a].rules = 0, ![a].recon = FALSE,
                             ![a].stage = IF tab = "Detail" THEN "tell" ELSE "clearDetail"]
       /\ UNCHANGED <<fired, idMap, folders, told, killed, crossed, runs, faults>>

Tell(a) ==
    /\ job[a].stage = "tell"
    /\ Leave(a, TRUE)
    /\ UNCHANGED <<fired, idMap, folders, sheets, killed, crossed, runs, faults>>

-----------------------------------------------------------------------------
(* What goes wrong. *)

\* A call fails that the export depends on, the first one for want of
\* credentials too; the command also ends here when there is nothing to report,
\* or no reconciliation though it was asked for one.  The message of a scheduled
\* export is composed under the same handler as the export.
Fail(a) ==
    /\ job[a].stage \notin {"idle", "map", "cached", "truncate", "save",
                            "formatSummary", "formatDetail"}
    /\ job[a].stage = "tell" => a = "scheduled"
    /\ Fault
    /\ Leave(a, FALSE)
    /\ UNCHANGED <<fired, idMap, folders, sheets, killed, crossed, runs>>

\* A call on the sheet that is bound to be refused.
Refused(a) ==
    LET j == job[a]
    IN /\ j.stage \in SheetStages \ {"formatSummary", "formatDetail"}
       /\ \/ ~Resolves(j.sheet)
          \/ j.stage = "addTabs" /\ ~CanAdd(j)
          \/ j.stage = "dropDefault" /\ ~CanDrop(j)
       /\ Leave(a, FALSE)
       /\ UNCHANGED <<fired, idMap, folders, sheets, killed, crossed, runs, faults>>

\* A failure the export gets over: the cached id is looked up by name, the
\* file stays as it is, the formatting is left out.
FailHandled(a) ==
    /\ job[a].stage \in {"cached", "truncate", "save", "formatSummary", "formatDetail"}
    /\ Fault
    /\ Go(a, CASE job[a].stage = "cached" -> "lookup"
               [] job[a].stage \in {"truncate", "save"} -> "tabs"
               [] job[a].stage = "formatSummary" -> "clearDetail"
               [] job[a].stage = "formatDetail" -> "tell")
    /\ UNCHANGED <<fired, idMap, folders, sheets, told, killed, crossed, runs>>

Kill(a) ==
    /\ job[a] # Idle /\ Fault
    /\ killed' = killed \cup {job[a].run}
    /\ job' = [job EXCEPT ![a] = Idle]
    /\ UNCHANGED <<fired, idMap, folders, sheets, told, crossed, runs>>

\* Someone trashes a sheet, or deletes it for good; nobody takes one back out
\* of the trash.
Delete(i) ==
    /\ Resolves(i) /\ Fault
    /\ \E place \in {"trash", "gone"} \ {sheets[i].place} :
         Edit(i, [sheets[i] EXCEPT !.place = place])
    /\ UNCHANGED <<fired, job, idMap, folders, told, killed, crossed, runs>>

Over == (\A a \in Exporters : job[a] = Idle) /\ runs = MaxRuns /\ UNCHANGED vars

-----------------------------------------------------------------------------
ExportStep(a) ==
    \/ FindFolder(a) \/ MakeFolder(a)
    \/ ReadIdMap(a) \/ UseCached(a) \/ Lookup(a) \/ Create(a)
    \/ TruncateIdMap(a) \/ SaveIdMap(a)
    \/ ReadTabs(a) \/ AddTabs(a) \/ DropDefault(a)
    \/ ClearTab(a) \/ WriteTab(a) \/ TabMeta(a) \/ FormatTab(a) \/ Tell(a)
    \/ Fail(a) \/ Refused(a) \/ FailHandled(a)

Next ==
    \/ Fire \/ \E d \in Days : Command(d)
    \/ \E a \in Exporters : ExportStep(a) \/ Kill(a)
    \/ \E i \in DOMAIN sheets : Delete(i)
    \/ Over

\* A running export goes on: every call has a timeout.
Spec == Init /\ [][Next]_vars /\ \A a \in Exporters : WF_vars(ExportStep(a))

-----------------------------------------------------------------------------
(* Properties. *)

Run == 0..MaxRuns
IsSheet(s) ==
    /\ s.title \in Days /\ s.folder \in folders /\ s.place \in {"folder", "trash", "gone"}
    /\ s.tabs \subseteq Wanted \cup {Default}
    /\ s.rows \in IdMaps
    /\ {s.detail, s.last} \subseteq Run
    /\ s.rules \in [Wanted -> Nat]
IsJob(j) ==
    /\ j.stage \in Stages /\ {j.run, j.date, j.sheet} \subseteq Run \cup Days
    /\ j.map \in IdMaps /\ j.rows \in IdMaps
    /\ j.stage \in SheetStages => j.sheet \in DOMAIN sheets

TypeOK ==
    /\ fired \in 0..MaxDays /\ crossed \subseteq Days
    /\ idMap \in IdMaps \cup {Torn}
    /\ \A i \in DOMAIN sheets : IsSheet(sheets[i])
    /\ \A a \in Exporters : IsJob(job[a])
    /\ killed \subseteq Run /\ runs \in Run /\ faults \in 0..MaxFaults

\* A day has one spreadsheet in the folder, whatever calls failed, wherever an
\* export was killed, and even when the file of ids is lost or overwritten, as
\* long as no two exports of that day overlapped and one folder was made
\* (_get_or_create_sheet, gsheets.py:178-180).
OneSheetADay ==
    Cardinality(folders) <= 1 =>
      \A i, k \in DOMAIN sheets :
        sheets[i].title = sheets[k].title /\ sheets[i].title \notin crossed
        /\ sheets[i].place = "folder" /\ sheets[k].place = "folder" => i = k

\* A sheet is what was said of it.  After an export that reported success both
\* tabs hold that export and no other day's, until another one begins to
\* rewrite them; and a sheet nobody is working on whose tabs do not belong
\* together was left by an export that was killed or reported failure.
TellsTheTruth ==
    \A i \in DOMAIN sheets :
      LET s == sheets[i]
          whole == s.rows = Put(NoMap, s.title, s.last) /\ s.detail = s.last
          Said(ok) == \E t \in told : t.run = s.last /\ t.sheet = i /\ t.ok = ok
      IN s.last # 0 /\ s.title \notin crossed =>
           /\ Said(TRUE) => whole
           /\ whole \/ Said(FALSE) \/ s.last \in killed
                    \/ \E a \in Exporters : job[a].run = s.last

\* Formatting rules do not pile up from one export to the next, whichever of
\* them were reconciled, failed or were killed (_tab_meta, gsheets.py:245-247).
RulesNeverStack ==
    \A i \in DOMAIN sheets :
      sheets[i].title \notin crossed =>
        \A tab \in Wanted : sheets[i].rules[tab] <= RulesOf(tab, TRUE)

\* The scheduled export always ends in a message, of success or of failure,
\* unless it is killed (run_nav_report_export).
EveryRunIsTold ==
    \A r \in 1..MaxRuns :
      job["scheduled"].run = r ~> (r \in killed \/ \E t \in told : t.run = r)
=============================================================================
