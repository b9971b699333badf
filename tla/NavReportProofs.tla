--------------------------- MODULE NavReportProofs ---------------------------
(***************************************************************************)
(* What holds of the report's two halves: of the sheet it is written to    *)
(* (ReportExport), for any number of days, exports and faults, and of the  *)
(* reconciliation on that sheet (NavRecon), for every report, every answer *)
(* and every map of accounts.                                              *)
(*                                                                         *)
(* The sheet: formatting rules do not pile up on its tabs (RulesInv), a    *)
(* day has one sheet (OneInv), a sheet is what was said of it (TruthInv),  *)
(* and the types (BoundsInv).  Each invariant rests on the ones before it. *)
(* The rules of a tab are counted in one call and replaced in a later one. *)
(* The count is still right then because nobody else works on the sheet:   *)
(* a sheet belongs to the date it is titled with, whichever way an export  *)
(* came to its number (file of ids, name, creation), and two exports of    *)
(* one date have crossed.                                                  *)
(*                                                                         *)
(* The reconciliation: a segment's lines are its rows, a footer, a row for *)
(* each position of theirs alone and one for each account not mapped.      *)
(* Each key of the comparison, and each position of the answer, has one of *)
(* these lines or none; what has none is worth nothing; so a column adds   *)
(* up line by line to what the fund reports, and to the footer's           *)
(* difference.                                                             *)
(***************************************************************************)
EXTENDS NavRecon, ReportExport, SumTheorems

-----------------------------------------------------------------------------
(* The sheet. *)

Maps == UNION {[D -> Nat] : D \in SUBSET Days}

Places == {"folder", "trash", "gone"}
Sheet == [title : Days, folder : Nat, place : Places, tabs : SUBSET (Wanted \cup {Default}),
          rows : Maps, detail : Nat, rules : [Wanted -> Nat], last : Nat]

JobRecord == [stage : Stages, run : Nat, date : Nat, recon : BOOLEAN, folder : Nat,
              map : Maps, sheet : Nat, tabs : SUBSET (Wanted \cup {Default}), rows : Maps,
              rules : Nat]

\* What a file of ids m says is so among the sheets s.
Names(m, s) == \A d \in DOMAIN m : m[d] \in DOMAIN s /\ s[m[d]].title = d

OnSheet == SheetStages \cup {"truncate", "save"}
Formatting == {"formatSummary", "formatDetail"}
TabOf(stage) == IF stage = "formatDetail" THEN "Detail" ELSE "NAV Summary"

SheetsOk(s, c) ==
    /\ s \in Seq(Sheet)
    /\ \A i \in DOMAIN s :
         s[i].title \notin c => \A tab \in Wanted : s[i].rules[tab] <= RulesOf(tab, TRUE)

\* A job j among the sheets s, c being the dates two exports worked on at once:
\* the sheet it works on is its date's, and what it counted is still there.
JobOk(j, s, c) ==
    /\ j \in JobRecord
    /\ IF j.stage = "idle" THEN j = Idle ELSE j.date \in Days
    /\ Names(j.map, s)
    /\ j.stage = "cached" => j.date \in DOMAIN j.map
    /\ j.stage \in OnSheet => j.sheet \in DOMAIN s /\ s[j.sheet].title = j.date
    /\ j.stage \in Formatting /\ j.date \notin c => j.rules = s[j.sheet].rules[TabOf(j.stage)]

FileOk(m, s) == m = Torn \/ (m \in Maps /\ Names(m, s))
FoldersOk(f) == IsFiniteSet(f) /\ f \subseteq Nat

Apart(jobs, c) ==
    \A a, o \in Exporters :
      a # o /\ jobs[a].stage # "idle" /\ jobs[o].stage # "idle" /\ jobs[a].date = jobs[o].date
        => jobs[a].date \in c

RulesInv ==
    /\ SheetsOk(sheets, crossed)
    /\ job \in [Exporters -> JobRecord]
    /\ \A a \in Exporters : JobOk(job[a], sheets, crossed)
    /\ Apart(job, crossed)
    /\ FileOk(idMap, sheets)
    /\ FoldersOk(folders)
    /\ runs \in Nat

-----------------------------------------------------------------------------
(* Lemmas. *)

\* The empty map of ids.
LEMMA NoMapType == NoMap \in Maps /\ DOMAIN NoMap = {}
  BY DEF NoMap, Maps

\* An entry more in a file of ids.
LEMMA Entered ==
    ASSUME NEW d \in Days, NEW n \in Nat, NEW m \in Maps
    PROVE  /\ Put(m, d, n) \in Maps
           /\ DOMAIN Put(m, d, n) = {d} \cup DOMAIN m
           /\ Put(m, d, n)[d] = n
           /\ \A e \in DOMAIN m : e # d => Put(m, d, n)[e] = m[e]
  <1>1. PICK D \in SUBSET Days : m \in [D -> Nat]
    BY DEF Maps
  <1>2. D \cup {d} \in SUBSET Days /\ Put(m, d, n) \in [D \cup {d} -> Nat]
    BY <1>1 DEF Put
  <1>3. Put(m, d, n) \in Maps
    BY <1>2 DEF Maps
  <1> QED
    BY <1>3 DEF Put

\* Sheets are added and edited, their titles stay.
KeepsTitles(s, t) == \A i \in DOMAIN s : i \in DOMAIN t /\ t[i].title = s[i].title

\* What a map of ids says stays so while titles stay.
LEMMA NamesKept ==
    ASSUME NEW m, NEW s, NEW t, KeepsTitles(s, t), Names(m, s)
    PROVE  Names(m, t)
  BY DEF KeepsTitles, Names

\* A job whose date's sheets keep their rules is as it was.
LEMMA JobKept ==
    ASSUME NEW j, NEW s, NEW t, NEW c, NEW e, JobOk(j, s, c), KeepsTitles(s, t), c \subseteq e,
           j.date \in e \/ \A i \in DOMAIN s : s[i].title = j.date => t[i].rules = s[i].rules
    PROVE  JobOk(j, t, e)
  <1>1. Names(j.map, t)
    BY NamesKept DEF JobOk
  <1>2. j.stage \in OnSheet => j.sheet \in DOMAIN t /\ t[j.sheet].title = j.date
    BY DEF JobOk, KeepsTitles
  <1>3. j.stage \in Formatting /\ j.date \notin e => j.rules = t[j.sheet].rules[TabOf(j.stage)]
    BY DEF JobOk, Formatting, OnSheet, SheetStages
  <1> QED
    BY <1>1, <1>2, <1>3 DEF JobOk

\* A step of one exporter, on sheets of its own date.
LEMMA OneExporterSteps ==
    ASSUME RulesInv, NEW a \in Exporters,
           job' = [job EXCEPT ![a] = job'[a]],
           JobOk(job'[a], sheets', crossed),
           job'[a].stage = "idle" \/ (job[a].stage # "idle" /\ job'[a].date = job[a].date),
           job[a].stage # "idle",
           SheetsOk(sheets', crossed), KeepsTitles(sheets, sheets'),
           \A i \in DOMAIN sheets : sheets[i].title # job[a].date => sheets'[i].rules = sheets[i].rules,
           FileOk(idMap', sheets'), FoldersOk(folders'),
           crossed' = crossed, runs' = runs
    PROVE  RulesInv'
  <1>1. job' \in [Exporters -> JobRecord]
    BY DEF RulesInv, JobOk
  <1>2. \A o \in Exporters : o # a => job'[o] = job[o]
    BY DEF RulesInv
  <1>3. ASSUME NEW o \in Exporters PROVE JobOk(job'[o], sheets', crossed)
    <2>1. CASE o = a
      BY <2>1
    <2>2. CASE o # a
      <3>1. job[o].stage \notin Formatting => JobOk(job[o], sheets', crossed)
        BY NamesKept DEF RulesInv, JobOk, KeepsTitles
      <3>2. CASE job[o].stage \in Formatting
        <4>1. job[o].date \in crossed \/ job[o].date # job[a].date
          BY <2>2, <3>2 DEF RulesInv, Apart, Formatting
        <4> QED
          BY <1>2, <2>2, <4>1, JobKept DEF RulesInv
      <3> QED
        BY <1>2, <2>2, <3>1, <3>2
    <2> QED
      BY <2>1, <2>2
  <1>4. Apart(job', crossed)
    BY <1>2 DEF RulesInv, Apart
  <1> QED
    BY <1>1, <1>3, <1>4 DEF RulesInv

\* A step that leaves the sheets alone.
LEMMA OnlyTheJobSteps ==
    ASSUME RulesInv, NEW a \in Exporters,
           job' = [job EXCEPT ![a] = job'[a]], JobOk(job'[a], sheets, crossed),
           job'[a].stage = "idle" \/ (job[a].stage # "idle" /\ job'[a].date = job[a].date),
           job[a].stage # "idle", FileOk(idMap', sheets), FoldersOk(folders'),
           sheets' = sheets, crossed' = crossed, runs' = runs
    PROVE  RulesInv'
  <1>1. KeepsTitles(sheets, sheets') /\ SheetsOk(sheets', crossed)
    BY DEF KeepsTitles, RulesInv
  <1>2. JobOk(job'[a], sheets', crossed) /\ FileOk(idMap', sheets')
    OBVIOUS
  <1> QED
    BY <1>1, <1>2, OneExporterSteps

-----------------------------------------------------------------------------
(* The steps of an exporter that leave the sheets alone. *)

\* The folder found is a folder.
LEMMA FindFolderKeeps ==
    ASSUME RulesInv, NEW a \in Exporters, FindFolder(a)
    PROVE  RulesInv'
  <1>1. /\ job[a] \in JobRecord /\ JobOk(job[a], sheets, crossed) /\ job \in [Exporters -> JobRecord]
        /\ FoldersOk(folders) /\ FileOk(idMap, sheets)
        /\ \A i \in DOMAIN sheets : i \in Nat /\ sheets[i] \in Sheet
    BY DEF RulesInv, SheetsOk
  <1>2. /\ job' = [job EXCEPT ![a] = job'[a]]
        /\ job[a].stage # "idle"
        /\ job'[a].stage = "idle" \/ job'[a].date = job[a].date
        /\ UNCHANGED <<sheets, crossed, runs>>
    <2>1. PICK r : /\ job' = [job EXCEPT ![a] = r] /\ r.date = job[a].date
                   /\ job[a].stage = "folder" /\ UNCHANGED <<sheets, crossed, runs>>
      <3>1. ASSUME NEW f PROVE [job[a] EXCEPT !.folder = f, !.stage = "map"].date = job[a].date
        BY <1>1 DEF JobRecord
      <3>2. [job[a] EXCEPT !.stage = "makeFolder"].date = job[a].date
        BY <1>1 DEF JobRecord
      <3> QED
        BY <1>1, <3>1, <3>2, Zenon DEF FindFolder, Go
    <2>2. job'[a] = r
      BY <1>1, <2>1
    <2> QED
      BY <2>1, <2>2
  <1>3. \/ \E f \in folders : job'[a] = [job[a] EXCEPT !.folder = f, !.stage = "map"]
        \/ job'[a] = [job[a] EXCEPT !.stage = "makeFolder"]
    BY <1>1 DEF JobRecord, FindFolder, Go, FoldersOk
  <1>4. JobOk(job'[a], sheets, crossed)
    <2>1. job'[a] \in JobRecord
      BY <1>1, <1>3, ZenonT(40) DEF JobRecord, Stages, MapStages, SheetStages, OnSheet, Formatting, FoldersOk
    <2>2. job'[a].map = job[a].map /\ job'[a].date = job[a].date /\ job'[a].stage \in {"map", "makeFolder"}
      BY <1>1, <1>3 DEF JobRecord, Formatting, TabOf
    <2>3. job[a].date \in Days
      BY <1>1, <1>2 DEF JobOk
    <2> QED
      BY <1>1, <2>3, <2>1, <2>2 DEF JobOk, Stages, MapStages, SheetStages, OnSheet, Formatting, Go, FoldersOk
  <1>5. FileOk(idMap', sheets) /\ FoldersOk(folders')
    BY <1>1 DEF FindFolder, Go, FoldersOk, FileOk
  <1> QED
    BY <1>2, <1>4, <1>5, OnlyTheJobSteps

\* Folders are numbered, finitely many.
LEMMA MakeFolderKeeps ==
    ASSUME RulesInv, NEW a \in Exporters, MakeFolder(a)
    PROVE  RulesInv'
  <1>1. /\ job[a] \in JobRecord /\ JobOk(job[a], sheets, crossed) /\ job \in [Exporters -> JobRecord]
        /\ FoldersOk(folders) /\ FileOk(idMap, sheets)
        /\ \A i \in DOMAIN sheets : i \in Nat /\ sheets[i] \in Sheet
    BY DEF RulesInv, SheetsOk
  <1>2. /\ job' = [job EXCEPT ![a] = job'[a]]
        /\ job[a].stage # "idle"
        /\ job'[a].stage = "idle" \/ job'[a].date = job[a].date
        /\ UNCHANGED <<sheets, crossed, runs>>
    BY <1>1 DEF JobRecord, MakeFolder, FoldersOk
  <1>3. JobOk(job'[a], sheets, crossed)
    BY <1>1, FS_AddElement, FS_CardinalityType DEF JobOk, JobRecord, MakeFolder, FoldersOk, Stages, MapStages, SheetStages, OnSheet, Formatting
  <1>4. FileOk(idMap', sheets) /\ FoldersOk(folders')
    BY <1>1, FS_AddElement, FS_CardinalityType DEF MakeFolder, FoldersOk, FileOk
  <1> QED
    BY <1>2, <1>3, <1>4, OnlyTheJobSteps

\* A map read names sheets of its dates, or nothing.
LEMMA ReadIdMapKeeps ==
    ASSUME RulesInv, NEW a \in Exporters, ReadIdMap(a)
    PROVE  RulesInv'
  <1>1. /\ job[a] \in JobRecord /\ JobOk(job[a], sheets, crossed) /\ job \in [Exporters -> JobRecord]
        /\ FoldersOk(folders) /\ FileOk(idMap, sheets)
        /\ \A i \in DOMAIN sheets : i \in Nat /\ sheets[i] \in Sheet
    BY DEF RulesInv, SheetsOk
  <1>2. /\ job' = [job EXCEPT ![a] = job'[a]]
        /\ job[a].stage # "idle"
        /\ job'[a].stage = "idle" \/ job'[a].date = job[a].date
        /\ UNCHANGED <<sheets, crossed, runs>>
    BY <1>1 DEF JobRecord, ReadIdMap, LoadIdMap, FileOk
  <1>3. JobOk(job'[a], sheets, crossed)
    BY <1>1, NoMapType DEF JobOk, JobRecord, ReadIdMap, LoadIdMap, FileOk, Stages, MapStages, SheetStages, OnSheet, Formatting
  <1>4. FileOk(idMap', sheets) /\ FoldersOk(folders')
    BY <1>1, NoMapType DEF ReadIdMap, LoadIdMap, FileOk
  <1> QED
    BY <1>2, <1>3, <1>4, OnlyTheJobSteps

\* A sheet by its id in the map is one of the date.
LEMMA UseCachedKeeps ==
    ASSUME RulesInv, NEW a \in Exporters, UseCached(a)
    PROVE  RulesInv'
  <1>1. /\ job[a] \in JobRecord /\ JobOk(job[a], sheets, crossed) /\ job \in [Exporters -> JobRecord]
        /\ FoldersOk(folders) /\ FileOk(idMap, sheets)
        /\ \A i \in DOMAIN sheets : i \in Nat /\ sheets[i] \in Sheet
    BY DEF RulesInv, SheetsOk
  <1>2. /\ job' = [job EXCEPT ![a] = job'[a]]
        /\ job[a].stage # "idle"
        /\ job'[a].stage = "idle" \/ job'[a].date = job[a].date
        /\ UNCHANGED <<sheets, crossed, runs>>
    BY <1>1 DEF JobRecord, UseCached, Names
  <1>3. /\ job[a].stage = "cached"
        /\ \/ job'[a] = [job[a] EXCEPT !.sheet = job[a].map[job[a].date], !.map = NoMap, !.stage = "tabs"]
           \/ job'[a] = [job[a] EXCEPT !.stage = "lookup"]
    BY <1>1 DEF JobRecord, UseCached, Names
  <1>4. JobOk(job'[a], sheets, crossed)
    <2>0. /\ job[a].map[job[a].date] \in Nat
         /\ job[a].map[job[a].date] \in DOMAIN sheets
         /\ sheets[job[a].map[job[a].date]].title = job[a].date
      BY <1>1, <1>3 DEF JobOk, Names, Stages, MapStages, SheetStages, OnSheet, Formatting
    <2>1. job'[a] \in JobRecord
      BY <1>1, <1>3, NoMapType, <2>0, ZenonT(40) DEF JobRecord, Stages, MapStages, SheetStages, OnSheet, Formatting
    <2>2. /\ job'[a].date = job[a].date
         /\ \/ job'[a].map = NoMap /\ job'[a].stage = "tabs" /\ job'[a].sheet = job[a].map[job[a].date]
            \/ job'[a].map = job[a].map /\ job'[a].stage = "lookup"
      BY <1>1, <1>3, NoMapType, <2>0 DEF JobRecord, Formatting, TabOf
    <2>3. job[a].date \in Days
      BY <1>1, <1>2 DEF JobOk
    <2> QED
      BY <1>1, <2>3, <2>0, <2>1, <2>2, NoMapType DEF JobOk, Stages, MapStages, SheetStages, OnSheet, Formatting, Names
  <1>5. FileOk(idMap', sheets) /\ FoldersOk(folders')
    BY <1>1, NoMapType DEF UseCached, Names, FileOk
  <1> QED
    BY <1>2, <1>4, <1>5, OnlyTheJobSteps

\* A sheet by its name is one of the date.
LEMMA LookupKeeps ==
    ASSUME RulesInv, NEW a \in Exporters, Lookup(a)
    PROVE  RulesInv'
  <1>1. /\ job[a] \in JobRecord /\ JobOk(job[a], sheets, crossed) /\ job \in [Exporters -> JobRecord]
        /\ FoldersOk(folders) /\ FileOk(idMap, sheets)
        /\ \A i \in DOMAIN sheets : i \in Nat /\ sheets[i] \in Sheet
    BY DEF RulesInv, SheetsOk
  <1>2. /\ job' = [job EXCEPT ![a] = job'[a]]
        /\ job[a].stage # "idle"
        /\ job'[a].stage = "idle" \/ job'[a].date = job[a].date
        /\ UNCHANGED <<sheets, crossed, runs>>
    BY <1>1, ZenonT(40) DEF JobRecord, Lookup, Go, Titled
  <1>3. /\ job[a].stage = "lookup"
        /\ \/ \E i \in DOMAIN sheets : sheets[i].title = job[a].date
                /\ job'[a] = [job[a] EXCEPT !.sheet = i, !.stage = "truncate"]
           \/ job'[a] = [job[a] EXCEPT !.stage = "create"]
    BY <1>1 DEF JobRecord, Lookup, Go, Titled
  <1>4. JobOk(job'[a], sheets, crossed)
    <2>1. job'[a] \in JobRecord
      BY <1>1, <1>3, ZenonT(40) DEF JobRecord, Stages, MapStages, SheetStages, OnSheet, Formatting
    <2>2. /\ job'[a].map = job[a].map /\ job'[a].date = job[a].date
         /\ \/ /\ job'[a].stage = "truncate"
               /\ job'[a].sheet \in DOMAIN sheets /\ sheets[job'[a].sheet].title = job[a].date
            \/ job'[a].stage = "create"
      BY <1>1, <1>3 DEF JobRecord, Formatting, TabOf
    <2>3. job[a].date \in Days
      BY <1>1, <1>2 DEF JobOk
    <2> QED
      BY <1>1, <2>3, <2>1, <2>2 DEF JobOk, Stages, MapStages, SheetStages, OnSheet, Formatting, Go, Titled
  <1>5. FileOk(idMap', sheets) /\ FoldersOk(folders')
    BY <1>1 DEF Lookup, Go, Titled, FileOk
  <1> QED
    BY <1>2, <1>4, <1>5, OnlyTheJobSteps

\* A torn file names nothing.
LEMMA TruncateIdMapKeeps ==
    ASSUME RulesInv, NEW a \in Exporters, TruncateIdMap(a)
    PROVE  RulesInv'
  <1>1. /\ job[a] \in JobRecord /\ JobOk(job[a], sheets, crossed) /\ job \in [Exporters -> JobRecord]
        /\ FoldersOk(folders) /\ FileOk(idMap, sheets)
        /\ \A i \in DOMAIN sheets : i \in Nat /\ sheets[i] \in Sheet
    BY DEF RulesInv, SheetsOk
  <1>2. /\ job' = [job EXCEPT ![a] = job'[a]]
        /\ job[a].stage # "idle"
        /\ job'[a].stage = "idle" \/ job'[a].date = job[a].date
        /\ UNCHANGED <<sheets, crossed, runs>>
    BY <1>1 DEF JobRecord, TruncateIdMap, Go
  <1>3. JobOk(job'[a], sheets, crossed)
    BY <1>1 DEF JobOk, JobRecord, TruncateIdMap, Go, Stages, MapStages, SheetStages, OnSheet, Formatting
  <1>4. FileOk(idMap', sheets) /\ FoldersOk(folders')
    BY <1>1 DEF TruncateIdMap, Go, FileOk
  <1> QED
    BY <1>2, <1>3, <1>4, OnlyTheJobSteps

\* The file saved names the sheet the export is on, for its date.
LEMMA SaveIdMapKeeps ==
    ASSUME RulesInv, NEW a \in Exporters, SaveIdMap(a)
    PROVE  RulesInv'
  <1>1. /\ job[a] \in JobRecord /\ JobOk(job[a], sheets, crossed) /\ job \in [Exporters -> JobRecord]
        /\ FoldersOk(folders) /\ FileOk(idMap, sheets)
        /\ \A i \in DOMAIN sheets : i \in Nat /\ sheets[i] \in Sheet
    BY DEF RulesInv, SheetsOk
  <1>2. /\ job' = [job EXCEPT ![a] = job'[a]]
        /\ job[a].stage # "idle"
        /\ job'[a].stage = "idle" \/ job'[a].date = job[a].date
        /\ UNCHANGED <<sheets, crossed, runs>>
    BY <1>1 DEF JobRecord, SaveIdMap, Names
  <1>3. JobOk(job'[a], sheets, crossed)
    BY <1>1, NoMapType, Entered DEF JobOk, JobRecord, SaveIdMap, Names, Stages, MapStages, SheetStages, OnSheet, Formatting
  <1>4. FileOk(idMap', sheets) /\ FoldersOk(folders')
    <2>1. idMap' = Torn \/ idMap' = Put(job[a].map, job[a].date, job[a].sheet)
      BY DEF SaveIdMap
    <2>2. /\ job[a].date \in Days /\ job[a].map \in Maps /\ Names(job[a].map, sheets)
          /\ job[a].sheet \in Nat
          /\ job[a].sheet \in DOMAIN sheets /\ sheets[job[a].sheet].title = job[a].date
      BY <1>1, <1>2 DEF JobOk, JobRecord, OnSheet, SaveIdMap
    <2>3. Put(job[a].map, job[a].date, job[a].sheet) \in Maps
      BY <2>2, Entered
    <2>4. Names(Put(job[a].map, job[a].date, job[a].sheet), sheets)
      <3>1. ASSUME NEW e \in DOMAIN Put(job[a].map, job[a].date, job[a].sheet)
            PROVE  /\ Put(job[a].map, job[a].date, job[a].sheet)[e] \in DOMAIN sheets
                   /\ sheets[Put(job[a].map, job[a].date, job[a].sheet)[e]].title = e
        BY <2>2 DEF Names, Put
      <3> QED
        BY <3>1 DEF Names
    <2> QED
      BY <1>1, <2>1, <2>3, <2>4 DEF FileOk, SaveIdMap
  <1> QED
    BY <1>2, <1>3, <1>4, OnlyTheJobSteps

\* Reading the tabs.
LEMMA ReadTabsKeeps ==
    ASSUME RulesInv, NEW a \in Exporters, ReadTabs(a)
    PROVE  RulesInv'
  <1>1. /\ job[a] \in JobRecord /\ JobOk(job[a], sheets, crossed) /\ job \in [Exporters -> JobRecord]
        /\ FoldersOk(folders) /\ FileOk(idMap, sheets)
        /\ \A i \in DOMAIN sheets : i \in Nat /\ sheets[i] \in Sheet
    BY DEF RulesInv, SheetsOk
  <1>2. /\ job' = [job EXCEPT ![a] = job'[a]]
        /\ job[a].stage # "idle"
        /\ job'[a].stage = "idle" \/ job'[a].date = job[a].date
        /\ UNCHANGED <<sheets, crossed, runs>>
    BY <1>1 DEF JobRecord, ReadTabs, AfterTabs, Sheet
  <1>3. /\ job[a].stage = "tabs"
        /\ job'[a].stage \in {"dropDefault", "clearSummary", "addTabs"}
        /\ job'[a] = [job[a] EXCEPT !.tabs = sheets[job[a].sheet].tabs, !.folder = 0, !.stage = job'[a].stage]
    BY <1>1 DEF JobRecord, ReadTabs, AfterTabs, Sheet
  <1>4. JobOk(job'[a], sheets, crossed)
    <2>0. /\ job[a].sheet \in DOMAIN sheets /\ sheets[job[a].sheet].title = job[a].date
         /\ sheets[job[a].sheet].tabs \in SUBSET (Wanted \cup {Default})
         /\ job'[a].stage \in Stages
      BY <1>1, <1>3 DEF JobOk, AfterTabs, Sheet, Stages, MapStages, SheetStages, OnSheet, Formatting
    <2>1. job'[a] \in JobRecord
      <3>1. job[a] \in JobRecord /\ 0 \in Nat
        BY <1>1
      <3> HIDE DEF JobRecord
      <3> DEFINE seen == sheets[job[a].sheet].tabs
                 next == job'[a].stage
      <3>2. seen \in SUBSET (Wanted \cup {Default}) /\ next \in Stages
        BY <2>0
      <3>3. job'[a] = [job[a] EXCEPT !.tabs = seen, !.folder = 0, !.stage = next]
        BY <1>3
      <3> HIDE DEF seen, next
      <3> QED
        BY <3>1, <3>2, <3>3 DEF JobRecord
    <2>2. /\ job'[a].map = job[a].map /\ job'[a].date = job[a].date /\ job'[a].sheet = job[a].sheet
         /\ job'[a].stage \in {"dropDefault", "clearSummary", "addTabs"}
      BY <1>1, <1>3, <2>0 DEF JobRecord, Formatting, TabOf
    <2>3. job[a].date \in Days
      BY <1>1, <1>2 DEF JobOk
    <2> QED
      BY <1>1, <2>3, <2>0, <2>1, <2>2 DEF JobOk, Stages, MapStages, SheetStages, OnSheet, Formatting, AfterTabs, Sheet
  <1>5. FileOk(idMap', sheets) /\ FoldersOk(folders')
    BY <1>1 DEF ReadTabs, AfterTabs, Sheet, FileOk
  <1> QED
    BY <1>2, <1>4, <1>5, OnlyTheJobSteps

\* The rules are counted on the sheet itself.
LEMMA TabMetaKeeps ==
    ASSUME RulesInv, NEW a \in Exporters, TabMeta(a)
    PROVE  RulesInv'
  <1>1. /\ job[a] \in JobRecord /\ JobOk(job[a], sheets, crossed) /\ job \in [Exporters -> JobRecord]
        /\ FoldersOk(folders) /\ FileOk(idMap, sheets)
        /\ \A i \in DOMAIN sheets : i \in Nat /\ sheets[i] \in Sheet
    BY DEF RulesInv, SheetsOk
  <1>2. /\ job' = [job EXCEPT ![a] = job'[a]]
        /\ job[a].stage # "idle"
        /\ job'[a].stage = "idle" \/ job'[a].date = job[a].date
        /\ UNCHANGED <<sheets, crossed, runs>>
    BY <1>1 DEF JobRecord, TabMeta, Sheet, TabOf, Wanted
  <1>3. \/ /\ job[a].stage = "metaSummary"
           /\ job'[a] = [job[a] EXCEPT !.rules = sheets[job[a].sheet].rules["NAV Summary"], !.stage = "formatSummary"]
        \/ /\ job[a].stage = "metaDetail"
           /\ job'[a] = [job[a] EXCEPT !.rules = sheets[job[a].sheet].rules["Detail"], !.stage = "formatDetail"]
    BY <1>1 DEF JobRecord, TabMeta, Sheet, TabOf, Wanted
  <1>4. JobOk(job'[a], sheets, crossed)
    <2>0. /\ job[a].sheet \in DOMAIN sheets /\ sheets[job[a].sheet].title = job[a].date
         /\ sheets[job[a].sheet].rules["NAV Summary"] \in Nat
         /\ sheets[job[a].sheet].rules["Detail"] \in Nat
      BY <1>1, <1>3 DEF JobOk, Sheet, TabOf, Wanted, Stages, MapStages, SheetStages, OnSheet, Formatting
    <2>1. job'[a] \in JobRecord
      BY <1>1, <1>3, <2>0, ZenonT(40) DEF JobRecord, Stages, MapStages, SheetStages, OnSheet, Formatting, Wanted
    <2>2. /\ job'[a].map = job[a].map /\ job'[a].date = job[a].date /\ job'[a].sheet = job[a].sheet
         /\ job'[a].stage \in Formatting
         /\ job'[a].rules = sheets[job[a].sheet].rules[TabOf(job'[a].stage)]
      BY <1>1, <1>3, <2>0 DEF JobRecord, Formatting, TabOf
    <2>3. job[a].date \in Days
      BY <1>1, <1>2 DEF JobOk
    <2> QED
      BY <1>1, <2>3, <2>0, <2>1, <2>2 DEF JobOk, Stages, MapStages, SheetStages, OnSheet, Formatting, Sheet, TabOf, Wanted
  <1>5. FileOk(idMap', sheets) /\ FoldersOk(folders')
    BY <1>1 DEF TabMeta, Sheet, TabOf, Wanted, FileOk
  <1> QED
    BY <1>2, <1>4, <1>5, OnlyTheJobSteps

\* A success is told.
LEMMA TellKeeps ==
    ASSUME RulesInv, NEW a \in Exporters, Tell(a)
    PROVE  RulesInv'
  <1>1. /\ job[a] \in JobRecord /\ JobOk(job[a], sheets, crossed) /\ job \in [Exporters -> JobRecord]
        /\ FoldersOk(folders) /\ FileOk(idMap, sheets)
        /\ \A i \in DOMAIN sheets : i \in Nat /\ sheets[i] \in Sheet
    BY DEF RulesInv, SheetsOk
  <1>2. /\ job' = [job EXCEPT ![a] = job'[a]]
        /\ job[a].stage # "idle"
        /\ job'[a].stage = "idle" \/ job'[a].date = job[a].date
        /\ UNCHANGED <<sheets, crossed, runs>>
    BY <1>1 DEF JobRecord, Tell, Leave, Idle, Names
  <1>3. JobOk(job'[a], sheets, crossed)
    BY <1>1, NoMapType DEF JobOk, JobRecord, Tell, Leave, Idle, Names, Stages, MapStages, SheetStages, OnSheet, Formatting
  <1>4. FileOk(idMap', sheets) /\ FoldersOk(folders')
    BY <1>1, NoMapType DEF Tell, Leave, Idle, Names, FileOk
  <1> QED
    BY <1>2, <1>3, <1>4, OnlyTheJobSteps

\* A failure is told.
LEMMA FailKeeps ==
    ASSUME RulesInv, NEW a \in Exporters, Fail(a)
    PROVE  RulesInv'
  <1>1. /\ job[a] \in JobRecord /\ JobOk(job[a], sheets, crossed) /\ job \in [Exporters -> JobRecord]
        /\ FoldersOk(folders) /\ FileOk(idMap, sheets)
        /\ \A i \in DOMAIN sheets : i \in Nat /\ sheets[i] \in Sheet
    BY DEF RulesInv, SheetsOk
  <1>2. /\ job' = [job EXCEPT ![a] = job'[a]]
        /\ job[a].stage # "idle"
        /\ job'[a].stage = "idle" \/ job'[a].date = job[a].date
        /\ UNCHANGED <<sheets, crossed, runs>>
    BY <1>1 DEF JobRecord, Fail, Leave, Fault, Idle, Names
  <1>3. JobOk(job'[a], sheets, crossed)
    BY <1>1, NoMapType DEF JobOk, JobRecord, Fail, Leave, Fault, Idle, Names, Stages, MapStages, SheetStages, OnSheet, Formatting
  <1>4. FileOk(idMap', sheets) /\ FoldersOk(folders')
    BY <1>1, NoMapType DEF Fail, Leave, Fault, Idle, Names, FileOk
  <1> QED
    BY <1>2, <1>3, <1>4, OnlyTheJobSteps

\* What is refused ends the export.
LEMMA RefusedKeeps ==
    ASSUME RulesInv, NEW a \in Exporters, Refused(a)
    PROVE  RulesInv'
  <1>1. /\ job[a] \in JobRecord /\ JobOk(job[a], sheets, crossed) /\ job \in [Exporters -> JobRecord]
        /\ FoldersOk(folders) /\ FileOk(idMap, sheets)
        /\ \A i \in DOMAIN sheets : i \in Nat /\ sheets[i] \in Sheet
    BY DEF RulesInv, SheetsOk
  <1>2. /\ job' = [job EXCEPT ![a] = job'[a]]
        /\ job[a].stage # "idle"
        /\ job'[a].stage = "idle" \/ job'[a].date = job[a].date
        /\ UNCHANGED <<sheets, crossed, runs>>
    BY <1>1 DEF JobRecord, Refused, Leave, Idle, Names, SheetStages
  <1>3. JobOk(job'[a], sheets, crossed)
    BY <1>1, NoMapType DEF JobOk, JobRecord, Refused, Leave, Idle, Names, Stages, MapStages, SheetStages, OnSheet, Formatting
  <1>4. FileOk(idMap', sheets) /\ FoldersOk(folders')
    BY <1>1, NoMapType DEF Refused, Leave, Idle, Names, FileOk
  <1> QED
    BY <1>2, <1>3, <1>4, OnlyTheJobSteps

\* A failure the export gets over.
LEMMA FailHandledKeeps ==
    ASSUME RulesInv, NEW a \in Exporters, FailHandled(a)
    PROVE  RulesInv'
  <1>1. /\ job[a] \in JobRecord /\ JobOk(job[a], sheets, crossed) /\ job \in [Exporters -> JobRecord]
        /\ FoldersOk(folders) /\ FileOk(idMap, sheets)
        /\ \A i \in DOMAIN sheets : i \in Nat /\ sheets[i] \in Sheet
    BY DEF RulesInv, SheetsOk
  <1>2. /\ job' = [job EXCEPT ![a] = job'[a]]
        /\ job[a].stage # "idle"
        /\ job'[a].stage = "idle" \/ job'[a].date = job[a].date
        /\ UNCHANGED <<sheets, crossed, runs>>
    BY <1>1 DEF JobRecord, FailHandled, Go, Fault
  <1>3. JobOk(job'[a], sheets, crossed)
    BY <1>1 DEF JobOk, JobRecord, FailHandled, Go, Fault, Stages, MapStages, SheetStages, OnSheet, Formatting
  <1>4. FileOk(idMap', sheets) /\ FoldersOk(folders')
    BY <1>1 DEF FailHandled, Go, Fault, FileOk
  <1> QED
    BY <1>2, <1>3, <1>4, OnlyTheJobSteps

\* A kill.
LEMMA KillKeeps ==
    ASSUME RulesInv, NEW a \in Exporters, Kill(a)
    PROVE  RulesInv'
  <1>1. /\ job[a] \in JobRecord /\ JobOk(job[a], sheets, crossed) /\ job \in [Exporters -> JobRecord]
        /\ FoldersOk(folders) /\ FileOk(idMap, sheets)
        /\ \A i \in DOMAIN sheets : i \in Nat /\ sheets[i] \in Sheet
    BY DEF RulesInv, SheetsOk
  <1>2. /\ job' = [job EXCEPT ![a] = job'[a]]
        /\ job[a].stage # "idle"
        /\ job'[a].stage = "idle" \/ job'[a].date = job[a].date
        /\ UNCHANGED <<sheets, crossed, runs>>
    BY <1>1 DEF JobRecord, Kill, Fault, Idle, Names, JobOk
  <1>3. JobOk(job'[a], sheets, crossed)
    BY <1>1, NoMapType DEF JobOk, JobRecord, Kill, Fault, Idle, Names, Stages, MapStages, SheetStages, OnSheet, Formatting
  <1>4. FileOk(idMap', sheets) /\ FoldersOk(folders')
    BY <1>1, NoMapType DEF Kill, Fault, Idle, Names, FileOk
  <1> QED
    BY <1>2, <1>3, <1>4, OnlyTheJobSteps

-----------------------------------------------------------------------------
(* The steps of an exporter that make or edit a sheet. *)

\* An edit of a sheet of the exporter's own date.
LEMMA OwnSheetEdited ==
    ASSUME RulesInv, NEW a \in Exporters, NEW i \in DOMAIN sheets,
           job[a].stage # "idle", sheets[i].title = job[a].date,
           sheets' = [sheets EXCEPT ![i] = sheets'[i]], sheets'[i] \in Sheet,
           sheets'[i].title = job[a].date,
           job[a].date \notin crossed =>
             \A tab \in Wanted : sheets'[i].rules[tab] <= RulesOf(tab, TRUE),
           job' = [job EXCEPT ![a] = job'[a]], JobOk(job'[a], sheets', crossed),
           job'[a].date = job[a].date,
           UNCHANGED <<idMap, folders, crossed, runs>>
    PROVE  RulesInv'
  <1>1. sheets \in Seq(Sheet) /\ DOMAIN sheets' = DOMAIN sheets /\ sheets' \in Seq(Sheet)
    BY DEF RulesInv, SheetsOk
  <1>2. \A k \in DOMAIN sheets : k # i => sheets'[k] = sheets[k]
    BY <1>1
  <1>3. KeepsTitles(sheets, sheets')
    BY <1>1, <1>2 DEF KeepsTitles
  <1>4. SheetsOk(sheets', crossed)
    BY <1>1, <1>2 DEF RulesInv, SheetsOk
  <1>5. FileOk(idMap', sheets') /\ FoldersOk(folders')
    BY <1>3, NamesKept DEF RulesInv, FileOk
  <1>6. \A k \in DOMAIN sheets : sheets[k].title # job[a].date => sheets'[k].rules = sheets[k].rules
    BY <1>2
  <1> QED
    BY <1>3, <1>4, <1>5, <1>6, OneExporterSteps

\* A new sheet carries the date and no rules.
LEMMA CreateKeeps ==
    ASSUME RulesInv, NEW a \in Exporters, Create(a)
    PROVE  RulesInv'
  <1> DEFINE n == Len(sheets) + 1
             new == NewSheet(job[a].date, job[a].folder)
  <1>1. /\ job[a] \in JobRecord /\ JobOk(job[a], sheets, crossed) /\ job \in [Exporters -> JobRecord]
        /\ FileOk(idMap, sheets) /\ FoldersOk(folders)
        /\ sheets \in Seq(Sheet)
    BY DEF RulesInv, SheetsOk
  <1>2. /\ job[a].stage = "create" /\ job[a].date \in Days
        /\ job' = [job EXCEPT ![a] = job'[a]]
        /\ job'[a] = [job[a] EXCEPT !.sheet = n, !.stage = "truncate"]
        /\ sheets' = Append(sheets, new)
        /\ UNCHANGED <<idMap, folders, crossed, runs>>
    BY <1>1 DEF JobOk, Create
  <1>3. new \in Sheet /\ new.title = job[a].date /\ \A tab \in Wanted : new.rules[tab] = 0
    BY <1>1, <1>2, NoMapType DEF NewSheet, Sheet, Places, JobRecord
  <1>4. /\ sheets' \in Seq(Sheet) /\ n \in DOMAIN sheets' /\ sheets'[n] = new /\ n \in Nat
        /\ DOMAIN sheets' = DOMAIN sheets \cup {n}
        /\ \A k \in DOMAIN sheets : k \in DOMAIN sheets' /\ sheets'[k] = sheets[k]
    BY <1>1, <1>2, <1>3
  <1> HIDE DEF n, new
  <1>5. KeepsTitles(sheets, sheets')
    BY <1>4 DEF KeepsTitles
  <1>6. SheetsOk(sheets', crossed)
    <2>0. \A tab \in Wanted : 0 <= RulesOf(tab, TRUE)
      BY DEF RulesOf
    <2>1. \A tab \in Wanted : new.rules[tab] <= RulesOf(tab, TRUE)
      BY <1>3, <2>0
    <2> QED
      BY <1>4, <2>1 DEF RulesInv, SheetsOk
  <1>7. JobOk(job'[a], sheets', crossed)
    <2>1. job'[a] \in JobRecord
      BY <1>1, <1>2, <1>4 DEF JobRecord, Stages, MapStages
    <2>2. /\ job'[a].map = job[a].map /\ job'[a].date = job[a].date
          /\ job'[a].sheet = n /\ job'[a].stage = "truncate"
      BY <1>1, <1>2 DEF JobRecord
    <2>3. Names(job[a].map, sheets')
      BY <1>1, <1>5, NamesKept DEF JobOk
    <2> QED
      BY <1>2, <1>3, <1>4, <2>1, <2>2, <2>3 DEF JobOk, OnSheet, Formatting
  <1>8. FileOk(idMap', sheets') /\ FoldersOk(folders')
    BY <1>1, <1>2, <1>5, NamesKept DEF FileOk
  <1>9. job'[a].date = job[a].date
    BY <1>1, <1>2 DEF JobRecord
  <1> QED
    BY <1>2, <1>4, <1>5, <1>6, <1>7, <1>8, <1>9, OneExporterSteps

\* The rules of the sheet are left alone, and the export goes on with it.
LEMMA ContentEdited ==
    ASSUME RulesInv, NEW a \in Exporters, job[a].stage \in SheetStages,
           NEW t, sheets' = [sheets EXCEPT ![job[a].sheet] = t], t \in Sheet,
           t.title = sheets[job[a].sheet].title, t.rules = sheets[job[a].sheet].rules,
           NEW r, job' = [job EXCEPT ![a] = r], r \in JobRecord,
           r.date = job[a].date, r.map = job[a].map, r.sheet = job[a].sheet,
           r.stage \in SheetStages \ Formatting,
           UNCHANGED <<idMap, folders, crossed, runs>>
    PROVE  RulesInv'
  <1> DEFINE i == job[a].sheet
  <1>1. /\ job[a] \in JobRecord /\ JobOk(job[a], sheets, crossed) /\ job \in [Exporters -> JobRecord]
        /\ sheets \in Seq(Sheet)
    BY DEF RulesInv, SheetsOk
  <1>2. i \in DOMAIN sheets /\ sheets[i].title = job[a].date /\ job[a].stage # "idle" /\ r.stage # "idle"
    BY <1>1 DEF JobOk, OnSheet, SheetStages
  <1>3. sheets'[i] = t /\ job'[a] = r /\ DOMAIN sheets' = DOMAIN sheets
    BY <1>1, <1>2
  <1>4. KeepsTitles(sheets, sheets')
    BY <1>1, <1>2 DEF KeepsTitles
  <1>5. JobOk(r, sheets', crossed)
    <2>1. Names(r.map, sheets')
      BY <1>1, <1>4, NamesKept DEF JobOk
    <2>2. r.date \in Days
      BY <1>1, <1>2 DEF JobOk
    <2>3. r.stage # "cached" /\ r.stage \notin Formatting
      BY DEF SheetStages
    <2> QED
      BY <1>2, <1>3, <2>1, <2>2, <2>3 DEF JobOk
  <1>6. job[a].date \notin crossed => \A tab \in Wanted : t.rules[tab] <= RulesOf(tab, TRUE)
    BY <1>2 DEF RulesInv, SheetsOk
  <1> QED
    BY <1>2, <1>3, <1>5, <1>6, OwnSheetEdited

\* Tabs are added.
LEMMA AddTabsKeeps ==
    ASSUME RulesInv, NEW a \in Exporters, AddTabs(a)
    PROVE  RulesInv'
  <1>1. /\ job[a] \in JobRecord /\ job[a].sheet \in DOMAIN sheets /\ sheets[job[a].sheet] \in Sheet
        /\ job[a].stage \in SheetStages /\ job[a].date \in Days /\ NoMap \in Maps
        /\ job[a].run \in Nat
    BY NoMapType DEF RulesInv, SheetsOk, JobOk, JobRecord, OnSheet, SheetStages, AddTabs
  <1>2. CASE job[a].stage = "addTabs"
    <2> DEFINE t == [sheets[job[a].sheet] EXCEPT !.tabs = @ \cup Wanted]
               next == AfterTabs(job[a].tabs)
               r == [job[a] EXCEPT !.stage = next]
    <2>1. t \in Sheet /\ t.title = sheets[job[a].sheet].title /\ t.rules = sheets[job[a].sheet].rules
      BY <1>1 DEF Sheet, JobRecord, Wanted
    <2>0. next \in (SheetStages \ Formatting) \cap Stages
      BY DEF AfterTabs, SheetStages, Formatting, Stages
    <2> HIDE DEF next
    <2>2. /\ r \in JobRecord /\ r.date = job[a].date /\ r.map = job[a].map /\ r.sheet = job[a].sheet
          /\ r.stage \in SheetStages \ Formatting
      BY <1>1, <2>0 DEF JobRecord
    <2>3. /\ sheets' = [sheets EXCEPT ![job[a].sheet] = t] /\ job' = [job EXCEPT ![a] = r]
          /\ UNCHANGED <<idMap, folders, crossed, runs>>
      BY <1>2 DEF AddTabs, Edit, Go, next
    <2> HIDE DEF t, r
    <2> QED
      BY <1>1, <2>1, <2>2, <2>3, ContentEdited
  <1> QED
    BY <1>2 DEF AddTabs

\* The default tab is dropped.
LEMMA DropDefaultKeeps ==
    ASSUME RulesInv, NEW a \in Exporters, DropDefault(a)
    PROVE  RulesInv'
  <1>1. /\ job[a] \in JobRecord /\ job[a].sheet \in DOMAIN sheets /\ sheets[job[a].sheet] \in Sheet
        /\ job[a].stage \in SheetStages /\ job[a].date \in Days /\ NoMap \in Maps
        /\ job[a].run \in Nat
    BY NoMapType DEF RulesInv, SheetsOk, JobOk, JobRecord, OnSheet, SheetStages, DropDefault
  <1>2. CASE job[a].stage = "dropDefault"
    <2> DEFINE t == [sheets[job[a].sheet] EXCEPT !.tabs = @ \ {Default}]
               r == [job[a] EXCEPT !.tabs = {}, !.stage = "clearSummary"]
    <2>1. t \in Sheet /\ t.title = sheets[job[a].sheet].title /\ t.rules = sheets[job[a].sheet].rules
      BY <1>1 DEF Sheet, JobRecord, Wanted
    <2>2. /\ r \in JobRecord /\ r.date = job[a].date /\ r.map = job[a].map /\ r.sheet = job[a].sheet
          /\ r.stage \in SheetStages \ Formatting
      BY <1>1 DEF JobRecord, Sheet, Stages, SheetStages, Formatting
    <2>3. /\ sheets' = [sheets EXCEPT ![job[a].sheet] = t] /\ job' = [job EXCEPT ![a] = r]
          /\ UNCHANGED <<idMap, folders, crossed, runs>>
      BY <1>2 DEF DropDefault, Edit, Go
    <2> HIDE DEF t, r
    <2> QED
      BY <1>1, <2>1, <2>2, <2>3, ContentEdited
  <1> QED
    BY <1>2 DEF DropDefault

\* A tab is cleared, its rules are not.
LEMMA ClearTabKeeps ==
    ASSUME RulesInv, NEW a \in Exporters, ClearTab(a)
    PROVE  RulesInv'
  <1>1. /\ job[a] \in JobRecord /\ job[a].sheet \in DOMAIN sheets /\ sheets[job[a].sheet] \in Sheet
        /\ job[a].stage \in SheetStages /\ job[a].date \in Days /\ NoMap \in Maps
        /\ job[a].run \in Nat
    BY NoMapType DEF RulesInv, SheetsOk, JobOk, JobRecord, OnSheet, SheetStages, ClearTab
  <1>2. CASE job[a].stage = "clearSummary"
    <2> DEFINE t == [sheets[job[a].sheet] EXCEPT !.last = job[a].run, !.rows = NoMap]
               r == [job[a] EXCEPT !.rows = sheets[job[a].sheet].rows, !.stage = "writeSummary"]
    <2>1. t \in Sheet /\ t.title = sheets[job[a].sheet].title /\ t.rules = sheets[job[a].sheet].rules
      BY <1>1 DEF Sheet, JobRecord, Wanted
    <2>2. /\ r \in JobRecord /\ r.date = job[a].date /\ r.map = job[a].map /\ r.sheet = job[a].sheet
          /\ r.stage \in SheetStages \ Formatting
      BY <1>1 DEF JobRecord, Sheet, Stages, SheetStages, Formatting
    <2>3. /\ sheets' = [sheets EXCEPT ![job[a].sheet] = t] /\ job' = [job EXCEPT ![a] = r]
          /\ UNCHANGED <<idMap, folders, crossed, runs>>
      BY <1>2 DEF ClearTab, Edit, Go
    <2> HIDE DEF t, r
    <2> QED
      BY <1>1, <2>1, <2>2, <2>3, ContentEdited
  <1>3. CASE job[a].stage = "clearDetail"
    <2> DEFINE t == [sheets[job[a].sheet] EXCEPT !.last = job[a].run, !.detail = 0]
               r == [job[a] EXCEPT !.stage = "writeDetail"]
    <2>1. t \in Sheet /\ t.title = sheets[job[a].sheet].title /\ t.rules = sheets[job[a].sheet].rules
      BY <1>1 DEF Sheet, JobRecord, Wanted
    <2>2. /\ r \in JobRecord /\ r.date = job[a].date /\ r.map = job[a].map /\ r.sheet = job[a].sheet
          /\ r.stage \in SheetStages \ Formatting
      BY <1>1 DEF JobRecord, Sheet, Stages, SheetStages, Formatting
    <2>3. /\ sheets' = [sheets EXCEPT ![job[a].sheet] = t] /\ job' = [job EXCEPT ![a] = r]
          /\ UNCHANGED <<idMap, folders, crossed, runs>>
      BY <1>3 DEF ClearTab, Edit, Go
    <2> HIDE DEF t, r
    <2> QED
      BY <1>1, <2>1, <2>2, <2>3, ContentEdited
  <1> QED
    BY <1>2, <1>3 DEF ClearTab

\* A tab is written, its rules are not.
LEMMA WriteTabKeeps ==
    ASSUME RulesInv, NEW a \in Exporters, WriteTab(a)
    PROVE  RulesInv'
  <1>1. /\ job[a] \in JobRecord /\ job[a].sheet \in DOMAIN sheets /\ sheets[job[a].sheet] \in Sheet
        /\ job[a].stage \in SheetStages /\ job[a].date \in Days /\ NoMap \in Maps
        /\ job[a].run \in Nat
    BY NoMapType DEF RulesInv, SheetsOk, JobOk, JobRecord, OnSheet, SheetStages, WriteTab
  <1>2. CASE job[a].stage = "writeSummary"
    <2> DEFINE t == [sheets[job[a].sheet] EXCEPT !.rows = Put(job[a].rows, job[a].date, job[a].run)]
               r == [job[a] EXCEPT !.rows = NoMap, !.stage = "metaSummary"]
    <2>1. t \in Sheet /\ t.title = sheets[job[a].sheet].title /\ t.rules = sheets[job[a].sheet].rules
      BY <1>1, Entered DEF Sheet, JobRecord, Wanted
    <2>2. /\ r \in JobRecord /\ r.date = job[a].date /\ r.map = job[a].map /\ r.sheet = job[a].sheet
          /\ r.stage \in SheetStages \ Formatting
      BY <1>1, Entered DEF JobRecord, Sheet, Stages, SheetStages, Formatting
    <2>3. /\ sheets' = [sheets EXCEPT ![job[a].sheet] = t] /\ job' = [job EXCEPT ![a] = r]
          /\ UNCHANGED <<idMap, folders, crossed, runs>>
      BY <1>2 DEF WriteTab, Edit, Go
    <2> HIDE DEF t, r
    <2> QED
      BY <1>1, <2>1, <2>2, <2>3, ContentEdited
  <1>3. CASE job[a].stage = "writeDetail"
    <2>0. PICK found \in BOOLEAN : job' = [job EXCEPT ![a].recon = found, ![a].stage = "metaDetail"]
      BY <1>3 DEF WriteTab
    <2> DEFINE t == [sheets[job[a].sheet] EXCEPT !.detail = job[a].run]
               r == [job[a] EXCEPT !.recon = found, !.stage = "metaDetail"]
    <2>1. t \in Sheet /\ t.title = sheets[job[a].sheet].title /\ t.rules = sheets[job[a].sheet].rules
      BY <1>1 DEF Sheet, JobRecord, Wanted
    <2>2. /\ r \in JobRecord /\ r.date = job[a].date /\ r.map = job[a].map /\ r.sheet = job[a].sheet
          /\ r.stage \in SheetStages \ Formatting
      BY <1>1 DEF JobRecord, Sheet, Stages, SheetStages, Formatting
    <2>3. /\ sheets' = [sheets EXCEPT ![job[a].sheet] = t] /\ job' = [job EXCEPT ![a] = r]
          /\ UNCHANGED <<idMap, folders, crossed, runs>>
      BY <1>3, <2>0 DEF WriteTab, Edit
    <2> HIDE DEF t, r
    <2> QED
      BY <1>1, <2>1, <2>2, <2>3, ContentEdited
  <1> QED
    BY <1>2, <1>3 DEF WriteTab

\* The rules that were counted are still all there, and are replaced.
LEMMA FormatTabKeeps ==
    ASSUME RulesInv, NEW a \in Exporters, FormatTab(a)
    PROVE  RulesInv'
  <1> DEFINE i == job[a].sheet
             tab == TabOf(job[a].stage)
             had == sheets[i].rules[tab]
             left == had - job[a].rules + RulesOf(tab, job[a].recon)
             r == [job[a] EXCEPT !.rules = 0, !.recon = FALSE,
                                 !.stage = IF tab = "Detail" THEN "tell" ELSE "clearDetail"]
             t == [sheets[i] EXCEPT !.rules[tab] = left]
  <1>1. /\ job[a] \in JobRecord /\ JobOk(job[a], sheets, crossed) /\ job \in [Exporters -> JobRecord]
        /\ sheets \in Seq(Sheet) /\ FileOk(idMap, sheets) /\ FoldersOk(folders)
        /\ job[a].stage \in Formatting
    BY DEF RulesInv, SheetsOk, FormatTab, Formatting
  <1>2. /\ i \in DOMAIN sheets /\ sheets[i] \in Sheet /\ sheets[i].title = job[a].date
        /\ job[a].date \in Days /\ job[a].stage # "idle" /\ tab \in Wanted
        /\ job[a].date \notin crossed => job[a].rules = had
    <2>1. tab \in Wanted /\ job[a].stage # "idle" /\ job[a].stage \in OnSheet
      BY <1>1 DEF OnSheet, SheetStages, Formatting, TabOf, Wanted
    <2>2. job[a].date \notin crossed => job[a].rules = had
      BY <1>1 DEF JobOk
    <2> QED
      BY <1>1, <2>1, <2>2 DEF JobOk
  <1>3. /\ had \in Nat /\ job[a].rules \in Nat
        /\ RulesOf(tab, job[a].recon) \in Nat /\ RulesOf(tab, job[a].recon) <= RulesOf(tab, TRUE)
        /\ RulesOf(tab, TRUE) \in Nat
    BY <1>1, <1>2 DEF Sheet, JobRecord, RulesOf
  <1>4. /\ r \in JobRecord /\ r.date = job[a].date /\ r.map = job[a].map
        /\ r.stage \in {"tell", "clearDetail"} /\ r.sheet = job[a].sheet
    BY <1>1 DEF JobRecord, Stages, SheetStages
  <1>5. /\ job' = [job EXCEPT ![a] = r] /\ UNCHANGED <<idMap, folders, crossed, runs>>
        /\ \/ UNCHANGED sheets
           \/ had >= job[a].rules /\ sheets' = [sheets EXCEPT ![i] = t]
    BY <1>1 DEF FormatTab, Edit, TabOf, Formatting
  <1>6. ASSUME NEW s, KeepsTitles(sheets, s), DOMAIN s = DOMAIN sheets
        PROVE  JobOk(r, s, crossed)
    <2>1. Names(r.map, s)
      BY <1>1, <1>4, <1>6, NamesKept DEF JobOk
    <2>2. i \in DOMAIN s /\ s[i].title = job[a].date
      BY <1>2, <1>6 DEF KeepsTitles
    <2> HIDE DEF r
    <2> QED
      BY <1>2, <1>4, <2>1, <2>2 DEF JobOk, Formatting
  <1>7. job'[a] = r
    BY <1>1, <1>5
  <1> HIDE DEF r
  <1>8. CASE UNCHANGED sheets
    <2>1. JobOk(r, sheets, crossed)
      BY <1>6 DEF KeepsTitles
    <2> QED
      BY <1>1, <1>2, <1>4, <1>5, <1>7, <1>8, <2>1, OnlyTheJobSteps
  <1>9. CASE had >= job[a].rules /\ sheets' = [sheets EXCEPT ![i] = t]
    <2>1. left \in Nat /\ (job[a].date \notin crossed => left <= RulesOf(tab, TRUE))
      <3>1. \A h, k, x, y \in Nat :
              h >= k /\ x <= y => h - k + x \in Nat /\ (k = h => h - k + x <= y)
        OBVIOUS
      <3> HIDE DEF had, tab
      <3> QED
        BY <1>2, <1>3, <1>9, <3>1
    <2>2. t \in Sheet /\ t.title = job[a].date
          /\ t.rules = [sheets[i].rules EXCEPT ![tab] = left]
      <3> HIDE DEF tab, left
      <3> QED
        BY <1>2, <2>1 DEF Sheet
    <2>3. job[a].date \notin crossed => \A u \in Wanted : t.rules[u] <= RulesOf(u, TRUE)
      <3>1. sheets[i].rules \in [Wanted -> Nat]
        BY <1>2 DEF Sheet
      <3>2. job[a].date \notin crossed => \A u \in Wanted : sheets[i].rules[u] <= RulesOf(u, TRUE)
        BY <1>2 DEF RulesInv, SheetsOk
      <3> HIDE DEF t, left, tab
      <3> QED
        BY <2>1, <2>2, <3>1, <3>2
    <2> HIDE DEF t
    <2>4. sheets'[i] = t /\ DOMAIN sheets' = DOMAIN sheets
      BY <1>1, <1>2, <1>9
    <2>5. KeepsTitles(sheets, sheets')
      BY <1>1, <1>2, <1>9, <2>2, <2>4 DEF KeepsTitles
    <2>6. JobOk(job'[a], sheets', crossed)
      BY <1>6, <1>7, <2>4, <2>5
    <2> QED
      BY <1>2, <1>4, <1>5, <1>7, <1>9, <2>2, <2>3, <2>4, <2>6, OwnSheetEdited
  <1> QED
    BY <1>5, <1>8, <1>9

-----------------------------------------------------------------------------
(* Starts, people, and the theorem. *)

\* An export begins; a date another one is working on is marked as crossed.
LEMMA BeginKeeps ==
    ASSUME RulesInv, NEW a \in Exporters, NEW d \in Days, Begin(a, d)
    PROVE  RulesInv'
  <1> DEFINE j == [Idle EXCEPT !.stage = "folder", !.run = runs + 1, !.date = d]
  <1>1. /\ job[a] = Idle /\ runs' = runs + 1 /\ job' = [job EXCEPT ![a] = j]
        /\ UNCHANGED <<idMap, folders, sheets>>
        /\ crossed' = IF \E o \in Exporters : job[o] # Idle /\ job[o].date = d
                        THEN crossed \cup {d} ELSE crossed
    BY DEF Begin
  <1>2. job \in [Exporters -> JobRecord] /\ runs \in Nat
    BY DEF RulesInv
  <1>3. /\ j \in JobRecord /\ j.stage = "folder" /\ j.date = d /\ j.map = NoMap
        /\ Idle.stage = "idle"
    <2>1. Idle \in JobRecord /\ Idle.map = NoMap /\ Idle.stage = "idle"
      BY NoMapType DEF Idle, JobRecord, Stages
    <2>2. "folder" \in Stages /\ runs + 1 \in Nat /\ d \in Nat
      BY <1>2, ExportAssumption DEF Stages, Days
    <2> QED
      BY <2>1, <2>2 DEF JobRecord
  <1> HIDE DEF j
  <1>4. job'[a] = j /\ \A o \in Exporters : o # a => job'[o] = job[o]
    BY <1>1, <1>2
  <1>5. SheetsOk(sheets', crossed')
    BY <1>1 DEF RulesInv, SheetsOk
  <1>6. ASSUME NEW o \in Exporters PROVE JobOk(job'[o], sheets', crossed')
    <2>1. CASE o = a
      BY <1>3, <1>4, <2>1, NoMapType DEF JobOk, Names, OnSheet, SheetStages, Formatting
    <2>2. CASE o # a
      BY <1>1, <1>4, <2>2, JobKept DEF RulesInv, KeepsTitles
    <2> QED
      BY <2>1, <2>2
  <1>7. Apart(job', crossed')
    <2>1. \A o \in Exporters : job[o].stage # "idle" /\ job[o].date = d => d \in crossed'
      BY <1>1, <1>3
    <2> QED
      BY <1>1, <1>3, <1>4, <2>1 DEF RulesInv, Apart
  <1>8. FileOk(idMap', sheets') /\ FoldersOk(folders') /\ runs' \in Nat
    BY <1>1, <1>2 DEF RulesInv
  <1>9. job' \in [Exporters -> JobRecord]
    BY <1>1, <1>2, <1>3
  <1> QED
    BY <1>5, <1>6, <1>7, <1>8, <1>9 DEF RulesInv

\* Someone trashes or deletes a sheet.
LEMMA DeleteMoves ==
    ASSUME NEW i \in DOMAIN sheets, Delete(i)
    PROVE  \E place \in Places \ {"folder"} :
              /\ sheets' = [sheets EXCEPT ![i] = [sheets[i] EXCEPT !.place = place]]
              /\ Fault /\ UNCHANGED <<fired, job, idMap, folders, told, killed, crossed, runs>>
  BY DEF Delete, Edit, Places

\* It keeps its title and its rules.
LEMMA DeleteKeeps ==
    ASSUME RulesInv, NEW i \in DOMAIN sheets, Delete(i)
    PROVE  RulesInv'
  <1>0. PICK place \in Places : /\ sheets' = [sheets EXCEPT ![i] = [sheets[i] EXCEPT !.place = place]]
                                /\ UNCHANGED <<job, idMap, folders, crossed, runs>>
    BY DeleteMoves
  <1> DEFINE t == [sheets[i] EXCEPT !.place = place]
  <1>1. sheets \in Seq(Sheet) /\ sheets[i] \in Sheet
    BY DEF RulesInv, SheetsOk
  <1>2. t \in Sheet /\ t.title = sheets[i].title /\ t.rules = sheets[i].rules
    BY <1>1 DEF Sheet
  <1>3. sheets' = [sheets EXCEPT ![i] = t] /\ UNCHANGED <<job, idMap, folders, crossed, runs>>
    BY <1>0
  <1> HIDE DEF t
  <1>4. /\ sheets' \in Seq(Sheet) /\ DOMAIN sheets' = DOMAIN sheets
        /\ \A k \in DOMAIN sheets :
             sheets'[k].title = sheets[k].title /\ sheets'[k].rules = sheets[k].rules
    BY <1>1, <1>2, <1>3
  <1>5. KeepsTitles(sheets, sheets') /\ SheetsOk(sheets', crossed')
    BY <1>3, <1>4 DEF KeepsTitles, RulesInv, SheetsOk
  <1>6. \A o \in Exporters : JobOk(job'[o], sheets', crossed')
    BY <1>3, <1>4, <1>5, JobKept DEF RulesInv
  <1>7. FileOk(idMap', sheets') /\ FoldersOk(folders')
    BY <1>3, <1>5, NamesKept DEF RulesInv, FileOk
  <1> QED
    BY <1>3, <1>5, <1>6, <1>7 DEF RulesInv

\* The invariant holds at first.
LEMMA RulesInvInit == Init => RulesInv
  <1> SUFFICES ASSUME Init PROVE RulesInv
    OBVIOUS
  <1>1. Idle \in JobRecord /\ Idle.stage = "idle" /\ Idle.map = NoMap
    BY NoMapType DEF Idle, JobRecord, Stages
  <1>2. job \in [Exporters -> JobRecord] /\ \A a \in Exporters : job[a] = Idle
    BY <1>1 DEF Init
  <1>3. \A a \in Exporters : JobOk(job[a], sheets, crossed)
    BY <1>1, <1>2, NoMapType DEF JobOk, Names, OnSheet, SheetStages, Formatting
  <1>4. SheetsOk(sheets, crossed) /\ Apart(job, crossed)
    BY <1>1, <1>2 DEF Init, SheetsOk, Apart
  <1>5. FileOk(idMap, sheets)
    BY NoMapType DEF Init, FileOk, Names
  <1>6. FoldersOk(folders) /\ runs \in Nat
    BY FS_EmptySet DEF Init, FoldersOk
  <1> QED
    BY <1>2, <1>3, <1>4, <1>5, <1>6 DEF RulesInv

\* Every step keeps it.
LEMMA RulesInvKept == RulesInv /\ [Next]_vars => RulesInv'
  <1> SUFFICES ASSUME RulesInv, [Next]_vars PROVE RulesInv'
    OBVIOUS
  <1>1. CASE Fire
    BY <1>1, BeginKeeps DEF Fire, Exporters
  <1>2. CASE \E d \in Days : Command(d)
    BY <1>2, BeginKeeps DEF Command, Exporters
  <1>3. ASSUME NEW a \in Exporters, ExportStep(a) PROVE RulesInv'
    <2>1. CASE FindFolder(a) \/ MakeFolder(a) \/ ReadIdMap(a) \/ UseCached(a) \/ Lookup(a)
      BY <2>1, FindFolderKeeps, MakeFolderKeeps, ReadIdMapKeeps, UseCachedKeeps, LookupKeeps
    <2>2. CASE Create(a) \/ TruncateIdMap(a) \/ SaveIdMap(a)
      BY <2>2, CreateKeeps, TruncateIdMapKeeps, SaveIdMapKeeps
    <2>3. CASE ReadTabs(a) \/ AddTabs(a) \/ DropDefault(a)
      BY <2>3, ReadTabsKeeps, AddTabsKeeps, DropDefaultKeeps
    <2>4. CASE ClearTab(a) \/ WriteTab(a) \/ TabMeta(a) \/ FormatTab(a)
      BY <2>4, ClearTabKeeps, WriteTabKeeps, TabMetaKeeps, FormatTabKeeps
    <2>5. CASE Tell(a) \/ Fail(a) \/ Refused(a) \/ FailHandled(a)
      BY <2>5, TellKeeps, FailKeeps, RefusedKeeps, FailHandledKeeps
    <2> QED
      BY <1>3, <2>1, <2>2, <2>3, <2>4, <2>5 DEF ExportStep
  <1>4. ASSUME NEW a \in Exporters, Kill(a) PROVE RulesInv'
    BY <1>4, KillKeeps
  <1>5. ASSUME NEW i \in DOMAIN sheets, Delete(i) PROVE RulesInv'
    BY <1>5, DeleteKeeps
  <1>6. CASE UNCHANGED vars
    BY <1>6 DEF vars, RulesInv
  <1> QED
    BY <1>1, <1>2, <1>3, <1>4, <1>5, <1>6 DEF Next, Over

\* Formatting rules do not pile up on a tab of a day two exports did not work
\* on at once, for any number of days, exports, failures, kills and deleted
\* sheets (_tab_meta and the batches that follow it, gsheets.py).
THEOREM RulesNeverStackHolds == Spec => []RulesNeverStack
  <1>1. RulesInv => RulesNeverStack
    BY DEF RulesInv, SheetsOk, RulesNeverStack
  <1> QED
    BY <1>1, RulesInvInit, RulesInvKept, PTL DEF Spec

-----------------------------------------------------------------------------
(* One sheet a day. *)

Placed == {"map", "cached", "lookup", "create"}
OneFolder == \A f, g \in folders : f = g

\* Sheets lie in folders that were found or made.  An export that is about to
\* create a sheet has seen that its date has none.
OneInv ==
    /\ \A i \in DOMAIN sheets : sheets[i].folder \in folders
    /\ \A a \in Exporters : job[a].stage \in Placed => job[a].folder \in folders
    /\ OneFolder =>
         /\ \A a \in Exporters : job[a].stage = "create" /\ job[a].date \notin crossed =>
              \A i \in DOMAIN sheets : sheets[i].title = job[a].date => sheets[i].place # "folder"
         /\ \A i, k \in DOMAIN sheets :
              sheets[i].title = sheets[k].title /\ sheets[i].title \notin crossed
              /\ sheets[i].place = "folder" /\ sheets[k].place = "folder" => i = k

\* Sheets are where they were, removed ones stay removed.
Stay(s, t) ==
    /\ DOMAIN t = DOMAIN s
    /\ \A i \in DOMAIN s : /\ t[i].title = s[i].title /\ t[i].folder = s[i].folder
                           /\ s[i].place # "folder" => t[i].place # "folder"

\* A step that makes no sheet.
LEMMA OneKept ==
    ASSUME OneInv, job \in [Exporters -> JobRecord], NEW a \in Exporters,
           job' = [job EXCEPT ![a] = job'[a]], Stay(sheets, sheets'),
           folders \subseteq folders', crossed \subseteq crossed',
           job'[a].stage \in Placed => job'[a].folder \in folders',
           OneFolder /\ job'[a].stage = "create" /\ job'[a].date \notin crossed =>
             \A i \in DOMAIN sheets : sheets[i].title = job'[a].date => sheets[i].place # "folder"
    PROVE  OneInv'
  <1>1. \A o \in Exporters : o # a => job'[o] = job[o]
    OBVIOUS
  <1>2. OneFolder' => OneFolder
    BY DEF OneFolder
  <1>3. \A i \in DOMAIN sheets' : sheets'[i].folder \in folders'
    BY DEF OneInv, Stay
  <1>4. \A o \in Exporters : job'[o].stage \in Placed => job'[o].folder \in folders'
    BY <1>1 DEF OneInv
  <1>5. ASSUME OneFolder', NEW o \in Exporters, job'[o].stage = "create", job'[o].date \notin crossed',
               NEW i \in DOMAIN sheets', sheets'[i].title = job'[o].date
        PROVE  sheets'[i].place # "folder"
    BY <1>1, <1>2, <1>5 DEF OneInv, Stay
  <1>6. ASSUME OneFolder', NEW i \in DOMAIN sheets', NEW k \in DOMAIN sheets',
               sheets'[i].title = sheets'[k].title, sheets'[i].title \notin crossed',
               sheets'[i].place = "folder", sheets'[k].place = "folder"
        PROVE  i = k
    BY <1>2, <1>6 DEF OneInv, Stay
  <1> QED
    BY <1>3, <1>4, <1>5, <1>6 DEF OneInv

\* What a step of a running exporter leaves alone, whatever it is.
Onward(a) ==
    /\ job[a].stage # "idle" /\ job'[a].stage # "idle"
    /\ job' = [job EXCEPT ![a] = job'[a]]
    /\ job'[a].run = job[a].run /\ job'[a].date = job[a].date
    /\ UNCHANGED <<told, killed, crossed, runs>>

\* The steps from the folder to the tabs.
LEMMA FirstSteps ==
    ASSUME RulesInv, NEW a \in Exporters,
           FindFolder(a) \/ MakeFolder(a) \/ ReadIdMap(a) \/ UseCached(a) \/ Lookup(a)
           \/ TruncateIdMap(a) \/ SaveIdMap(a) \/ ReadTabs(a)
    PROVE  /\ Onward(a) /\ UNCHANGED sheets
           /\ job[a].stage \in {"folder", "makeFolder", "tabs"} \cup MapStages
           /\ job'[a].stage \in {"makeFolder", "tabs", "addTabs", "dropDefault", "clearSummary"} \cup MapStages
           /\ job[a].stage \in Placed \/ job'[a].stage \notin Placed
              \/ FindFolder(a) \/ MakeFolder(a)
           /\ job'[a].stage \in Placed \/ UNCHANGED folders
           /\ job'[a].folder = job[a].folder \/ FindFolder(a) \/ MakeFolder(a) \/ ReadTabs(a)
           /\ job'[a].stage = "create" => Lookup(a)
  <1>1. job[a] \in JobRecord /\ job \in [Exporters -> JobRecord]
    BY DEF RulesInv
  <1>2. CASE FindFolder(a)
    <2>1. /\ job[a].stage = "folder" /\ UNCHANGED <<sheets, folders, told, killed, crossed, runs>>
          /\ \/ \E f \in folders : job' = [job EXCEPT ![a] = [job[a] EXCEPT !.folder = f, !.stage = "map"]]
             \/ job' = [job EXCEPT ![a] = [job[a] EXCEPT !.stage = "makeFolder"]]
      BY <1>1, <1>2 DEF FindFolder, Go
    <2>2. PICK r : /\ job' = [job EXCEPT ![a] = r] /\ r.stage \in {"map", "makeFolder"}
                   /\ r.run = job[a].run /\ r.date = job[a].date
      BY <1>1, <2>1 DEF JobRecord
    <2>3. job'[a] = r
      BY <1>1, <2>2
    <2> QED
      BY <1>2, <2>1, <2>2, <2>3 DEF Onward, MapStages
  <1>3. CASE MakeFolder(a)
    BY <1>1, <1>3 DEF MakeFolder, Go, Onward, JobRecord, Placed, MapStages
  <1>4. CASE ReadIdMap(a)
    BY <1>1, <1>4 DEF ReadIdMap, Go, Onward, JobRecord, Placed, MapStages
  <1>5. CASE UseCached(a)
    BY <1>1, <1>5 DEF UseCached, Go, Onward, JobRecord, Placed, MapStages
  <1>6. CASE Lookup(a)
    <2>1. /\ job[a].stage = "lookup" /\ UNCHANGED <<sheets, folders, told, killed, crossed, runs>>
          /\ \/ \E i \in DOMAIN sheets :
                  job' = [job EXCEPT ![a] = [job[a] EXCEPT !.sheet = i, !.stage = "truncate"]]
             \/ job' = [job EXCEPT ![a] = [job[a] EXCEPT !.stage = "create"]]
      BY <1>1, <1>6 DEF Lookup, Go, Titled
    <2>2. PICK r : /\ job' = [job EXCEPT ![a] = r] /\ r.stage \in {"truncate", "create"}
                   /\ r.run = job[a].run /\ r.date = job[a].date /\ r.folder = job[a].folder
      BY <1>1, <2>1 DEF JobRecord
    <2>3. job'[a] = r
      BY <1>1, <2>2
    <2> QED
      BY <1>6, <2>1, <2>2, <2>3 DEF Onward, MapStages, Placed
  <1>7. CASE TruncateIdMap(a)
    BY <1>1, <1>7 DEF TruncateIdMap, Go, Onward, JobRecord, Placed, MapStages
  <1>8. CASE SaveIdMap(a)
    BY <1>1, <1>8 DEF SaveIdMap, Go, Onward, JobRecord, Placed, MapStages
  <1>9. CASE ReadTabs(a)
    BY <1>1, <1>9 DEF ReadTabs, AfterTabs, Go, Onward, JobRecord, Placed, MapStages
  <1> QED
    BY <1>2, <1>3, <1>4, <1>5, <1>6, <1>7, <1>8, <1>9

\* An edit of the sheet the exporter works on.
Edited(a) ==
    /\ job[a].sheet \in DOMAIN sheets /\ sheets[job[a].sheet].title = job[a].date
    /\ DOMAIN sheets' = DOMAIN sheets
    /\ \A k \in DOMAIN sheets : k # job[a].sheet => sheets'[k] = sheets[k]

\* The steps on the sheet.
LEMMA LaterSteps ==
    ASSUME RulesInv, NEW a \in Exporters,
           AddTabs(a) \/ DropDefault(a) \/ ClearTab(a) \/ WriteTab(a) \/ TabMeta(a) \/ FormatTab(a)
    PROVE  /\ Onward(a) /\ UNCHANGED folders
           /\ job'[a].stage \in (SheetStages \ {"tabs", "addTabs"}) \cup {"tell"}
           /\ job'[a].sheet = job[a].sheet
           /\ Edited(a) /\ Stay(sheets, sheets')
  <1>1. /\ job[a] \in JobRecord /\ job \in [Exporters -> JobRecord] /\ sheets \in Seq(Sheet)
        /\ job[a].stage \in OnSheet => job[a].sheet \in DOMAIN sheets /\ sheets[job[a].sheet].title = job[a].date
    BY DEF RulesInv, SheetsOk, JobOk
  <1>2. job[a].stage \in SheetStages
    BY DEF AddTabs, DropDefault, ClearTab, WriteTab, TabMeta, FormatTab, SheetStages
  <1>3. job[a].sheet \in DOMAIN sheets /\ sheets[job[a].sheet].title = job[a].date /\ sheets[job[a].sheet] \in Sheet
    BY <1>1, <1>2 DEF OnSheet
  <1>4. ASSUME NEW t, t.title = sheets[job[a].sheet].title, t.folder = sheets[job[a].sheet].folder,
               t.place = sheets[job[a].sheet].place,
               sheets' = [sheets EXCEPT ![job[a].sheet] = t]
        PROVE  Edited(a) /\ Stay(sheets, sheets')
    BY <1>1, <1>3, <1>4 DEF Edited, Stay
  <1>5. UNCHANGED sheets => Edited(a) /\ Stay(sheets, sheets')
    BY <1>3 DEF Edited, Stay
  <1>6. CASE AddTabs(a)
    <2> DEFINE next == AfterTabs(job[a].tabs)
    <2>1. /\ sheets' = [sheets EXCEPT ![job[a].sheet] = [sheets[job[a].sheet] EXCEPT !.tabs = @ \cup Wanted]]
          /\ job' = [job EXCEPT ![a] = [job[a] EXCEPT !.stage = next]]
          /\ UNCHANGED <<folders, told, killed, crossed, runs>> /\ job[a].stage = "addTabs"
      BY <1>1, <1>6 DEF AddTabs, Edit, Go
    <2>2. next \in {"dropDefault", "clearSummary"}
      BY DEF AfterTabs
    <2> HIDE DEF next
    <2>3. Edited(a) /\ Stay(sheets, sheets')
      BY <1>3, <1>4, <2>1 DEF Sheet
    <2> QED
      BY <1>1, <2>1, <2>2, <2>3 DEF Onward, JobRecord, SheetStages
  <1>7. CASE DropDefault(a)
    <2>1. /\ sheets' = [sheets EXCEPT ![job[a].sheet] = [sheets[job[a].sheet] EXCEPT !.tabs = @ \ {Default}]]
          /\ job' = [job EXCEPT ![a] = [job[a] EXCEPT !.tabs = {}, !.stage = "clearSummary"]]
          /\ UNCHANGED <<folders, told, killed, crossed, runs>> /\ job[a].stage = "dropDefault"
      BY <1>1, <1>7 DEF DropDefault, Edit
    <2>2. Edited(a) /\ Stay(sheets, sheets')
      BY <1>3, <1>4, <2>1 DEF Sheet
    <2> QED
      BY <1>1, <2>1, <2>2 DEF Onward, JobRecord, SheetStages
  <1>8. CASE ClearTab(a)
    <2>1. PICK t : /\ sheets' = [sheets EXCEPT ![job[a].sheet] = t]
                   /\ \/ t = [sheets[job[a].sheet] EXCEPT !.last = job[a].run, !.rows = NoMap]
                      \/ t = [sheets[job[a].sheet] EXCEPT !.last = job[a].run, !.detail = 0]
      BY <1>8 DEF ClearTab, Edit
    <2>2. PICK r : /\ job' = [job EXCEPT ![a] = r]
                   /\ \/ r = [job[a] EXCEPT !.rows = sheets[job[a].sheet].rows, !.stage = "writeSummary"]
                      \/ r = [job[a] EXCEPT !.stage = "writeDetail"]
      BY <1>8 DEF ClearTab
    <2>3. Edited(a) /\ Stay(sheets, sheets')
      BY <1>3, <1>4, <2>1 DEF Sheet
    <2>4. UNCHANGED <<folders, told, killed, crossed, runs>>
      BY <1>8 DEF ClearTab
    <2>5. r.stage \in {"writeSummary", "writeDetail"} /\ r.run = job[a].run /\ r.date = job[a].date /\ r.sheet = job[a].sheet
      BY <1>1, <2>2 DEF JobRecord
    <2>6. job'[a] = r
      BY <1>1, <2>2
    <2> QED
      BY <1>1, <1>2, <2>2, <2>3, <2>4, <2>5, <2>6 DEF Onward, SheetStages
  <1>9. CASE WriteTab(a)
    <2>1. PICK t : /\ sheets' = [sheets EXCEPT ![job[a].sheet] = t]
                   /\ \/ t = [sheets[job[a].sheet] EXCEPT !.rows = Put(job[a].rows, job[a].date, job[a].run)]
                      \/ t = [sheets[job[a].sheet] EXCEPT !.detail = job[a].run]
      BY <1>9 DEF WriteTab, Edit
    <2>2. PICK r : /\ job' = [job EXCEPT ![a] = r]
                   /\ \/ r = [job[a] EXCEPT !.rows = NoMap, !.stage = "metaSummary"]
                      \/ \E found \in BOOLEAN : r = [job[a] EXCEPT !.recon = found, !.stage = "metaDetail"]
      <3>1. CASE job[a].stage = "writeSummary"
        BY <1>9, <3>1 DEF WriteTab
      <3>2. CASE job[a].stage = "writeDetail"
        <4>1. PICK found \in BOOLEAN :
                job' = [job EXCEPT ![a] = [job[a] EXCEPT !.recon = found, !.stage = "metaDetail"]]
          BY <1>9, <3>2 DEF WriteTab
        <4> QED
          BY <4>1
      <3> QED
        BY <1>9, <3>1, <3>2 DEF WriteTab
    <2>3. Edited(a) /\ Stay(sheets, sheets')
      BY <1>3, <1>4, <2>1 DEF Sheet
    <2>4. UNCHANGED <<folders, told, killed, crossed, runs>>
      BY <1>9 DEF WriteTab
    <2>5. r.stage \in {"metaSummary", "metaDetail"} /\ r.run = job[a].run /\ r.date = job[a].date /\ r.sheet = job[a].sheet
      BY <1>1, <2>2 DEF JobRecord
    <2>6. job'[a] = r
      BY <1>1, <2>2
    <2> QED
      BY <1>1, <1>2, <2>2, <2>3, <2>4, <2>5, <2>6 DEF Onward, SheetStages
  <1>10. CASE TabMeta(a)
    <2>1. PICK r, n : /\ job' = [job EXCEPT ![a] = r]
                   /\ \/ r = [job[a] EXCEPT !.rules = n, !.stage = "formatSummary"]
                      \/ r = [job[a] EXCEPT !.rules = n, !.stage = "formatDetail"]
      BY <1>10 DEF TabMeta
    <2>2. UNCHANGED <<sheets, folders, told, killed, crossed, runs>>
      BY <1>10 DEF TabMeta
    <2>3. r.stage \in {"formatSummary", "formatDetail"} /\ r.run = job[a].run /\ r.date = job[a].date /\ r.sheet = job[a].sheet
      BY <1>1, <2>1 DEF JobRecord
    <2>4. job'[a] = r
      BY <1>1, <2>1
    <2> QED
      BY <1>1, <1>2, <1>5, <2>1, <2>2, <2>3, <2>4 DEF Onward, SheetStages
  <1>11. CASE FormatTab(a)
    <2>1. \/ UNCHANGED sheets
          \/ \E tab, n : sheets' = [sheets EXCEPT ![job[a].sheet] = [sheets[job[a].sheet] EXCEPT !.rules[tab] = n]]
      BY <1>11 DEF FormatTab, Edit
    <2>2. PICK r : /\ job' = [job EXCEPT ![a] = r]
                   /\ \/ r = [job[a] EXCEPT !.rules = 0, !.recon = FALSE, !.stage = "tell"]
                      \/ r = [job[a] EXCEPT !.rules = 0, !.recon = FALSE, !.stage = "clearDetail"]
      BY <1>11 DEF FormatTab
    <2>3. Edited(a) /\ Stay(sheets, sheets')
      BY <1>3, <1>4, <1>5, <2>1 DEF Sheet
    <2>4. UNCHANGED <<folders, told, killed, crossed, runs>>
      BY <1>11 DEF FormatTab
    <2>5. r.stage \in {"tell", "clearDetail"} /\ r.run = job[a].run /\ r.date = job[a].date /\ r.sheet = job[a].sheet
      BY <1>1, <2>2 DEF JobRecord
    <2>6. job'[a] = r
      BY <1>1, <2>2
    <2> QED
      BY <1>1, <1>2, <2>2, <2>3, <2>4, <2>5, <2>6 DEF Onward, SheetStages
  <1> QED
    BY <1>6, <1>7, <1>8, <1>9, <1>10, <1>11

\* A failure the export gets over.
LEMMA HandledSteps ==
    ASSUME RulesInv, NEW a \in Exporters, FailHandled(a)
    PROVE  /\ Onward(a) /\ UNCHANGED <<sheets, folders>>
           /\ job[a].stage \in {"cached", "truncate", "save", "formatSummary", "formatDetail"}
           /\ job'[a] = [job[a] EXCEPT !.stage = job'[a].stage]
           /\ job[a].stage = "cached" => job'[a].stage = "lookup"
           /\ job[a].stage \in {"truncate", "save"} => job'[a].stage = "tabs"
           /\ job[a].stage = "formatSummary" => job'[a].stage = "clearDetail"
           /\ job[a].stage = "formatDetail" => job'[a].stage = "tell"
  <1>1. job[a] \in JobRecord /\ job \in [Exporters -> JobRecord]
    BY DEF RulesInv
  <1> QED
    BY <1>1 DEF FailHandled, Go, Onward, JobRecord

\* The steps an export ends with.
LEMMA LastSteps ==
    ASSUME RulesInv, NEW a \in Exporters, Tell(a) \/ Fail(a) \/ Refused(a) \/ Kill(a)
    PROVE  /\ job[a].stage # "idle" /\ job' = [job EXCEPT ![a] = Idle]
           /\ job'[a] = Idle /\ job'[a].stage = "idle"
           /\ UNCHANGED <<sheets, folders, crossed, runs>>
  <1>1. job[a] \in JobRecord /\ job \in [Exporters -> JobRecord] /\ Idle.stage = "idle"
        /\ (job[a].stage = "idle" => job[a] = Idle)
    BY DEF RulesInv, JobOk, Idle
  <1> QED
    BY <1>1 DEF Tell, Fail, Refused, Kill, Leave, SheetStages

\* A sheet is made for a date that has none.
LEMMA OneCreate ==
    ASSUME RulesInv, OneInv, NEW a \in Exporters, Create(a)
    PROVE  OneInv'
  <1> DEFINE n == Len(sheets) + 1
             new == NewSheet(job[a].date, job[a].folder)
  <1>1. /\ job[a] \in JobRecord /\ job \in [Exporters -> JobRecord] /\ sheets \in Seq(Sheet)
        /\ Apart(job, crossed)
    BY DEF RulesInv, SheetsOk
  <1>2. /\ job[a].stage = "create" /\ job' = [job EXCEPT ![a] = [job[a] EXCEPT !.sheet = n, !.stage = "truncate"]]
        /\ sheets' = Append(sheets, new) /\ UNCHANGED <<folders, crossed>>
    BY DEF Create
  <1>3. new.title = job[a].date /\ new.folder = job[a].folder
    BY DEF NewSheet
  <1> HIDE DEF new
  <1>4. /\ DOMAIN sheets' = DOMAIN sheets \cup {n} /\ sheets'[n] = new
        /\ \A k \in DOMAIN sheets : sheets'[k] = sheets[k] /\ k # n
    BY <1>1, <1>2
  <1> HIDE DEF n
  <1>5. /\ \A o \in Exporters : o # a => job'[o] = job[o]
        /\ job'[a].stage = "truncate"
    BY <1>1, <1>2 DEF JobRecord
  <1>6. \A i \in DOMAIN sheets' : sheets'[i].folder \in folders'
    BY <1>2, <1>3, <1>4 DEF OneInv, Placed
  <1>7. \A o \in Exporters : job'[o].stage \in Placed => job'[o].folder \in folders'
    BY <1>2, <1>5 DEF OneInv, Placed
  <1>8. OneFolder' => OneFolder
    BY <1>2 DEF OneFolder
  <1>9. ASSUME OneFolder', NEW o \in Exporters, job'[o].stage = "create", job'[o].date \notin crossed',
               NEW i \in DOMAIN sheets', sheets'[i].title = job'[o].date
        PROVE  sheets'[i].place # "folder"
    <2>1. o # a /\ job'[o] = job[o] /\ job[o].date # job[a].date
      BY <1>1, <1>2, <1>5, <1>9 DEF Apart
    <2>2. i # n
      BY <1>3, <1>4, <1>9, <2>1
    <2> QED
      BY <1>2, <1>4, <1>8, <1>9, <2>1, <2>2 DEF OneInv
  <1>10. ASSUME OneFolder', NEW i \in DOMAIN sheets', NEW k \in DOMAIN sheets',
               sheets'[i].title = sheets'[k].title, sheets'[i].title \notin crossed',
               sheets'[i].place = "folder", sheets'[k].place = "folder"
        PROVE  i = k
    <2>1. \A m \in DOMAIN sheets : sheets[m].title = new.title /\ new.title \notin crossed => sheets[m].place # "folder"
      BY <1>2, <1>3, <1>8, <1>10 DEF OneInv
    <2>2. CASE i # n /\ k # n
      BY <1>2, <1>4, <1>8, <1>10, <2>2 DEF OneInv
    <2>3. CASE i = n /\ k # n
      BY <1>2, <1>4, <1>10, <2>1, <2>3
    <2>4. CASE i # n /\ k = n
      BY <1>2, <1>4, <1>10, <2>1, <2>4
    <2> QED
      BY <2>2, <2>3, <2>4
  <1> QED
    BY <1>6, <1>7, <1>9, <1>10 DEF OneInv

\* Every step keeps it.
LEMMA OneInvKept == RulesInv /\ OneInv /\ [Next]_vars => OneInv'
  <1> SUFFICES ASSUME RulesInv, OneInv, [Next]_vars PROVE OneInv'
    OBVIOUS
  <1>0. /\ job \in [Exporters -> JobRecord] /\ \A a \in Exporters : job[a] \in JobRecord
        /\ sheets \in Seq(Sheet) /\ \A i \in DOMAIN sheets : sheets[i] \in Sheet
        /\ FoldersOk(folders)
    BY DEF RulesInv, SheetsOk
  <1>s. UNCHANGED sheets => Stay(sheets, sheets')
    BY DEF Stay
  <1>1. ASSUME NEW a \in Exporters, NEW d \in Days, Begin(a, d) PROVE OneInv'
    <2>1. /\ UNCHANGED <<sheets, folders>> /\ crossed \subseteq crossed'
          /\ job' = [job EXCEPT ![a] = job'[a]] /\ job'[a].stage = "folder"
      BY <1>0, <1>1 DEF Begin, Idle
    <2> QED
      BY <1>0, <1>s, <2>1, OneKept DEF Placed
  <1>2. ASSUME NEW a \in Exporters, FindFolder(a) PROVE OneInv'
    <2>1. Onward(a) /\ UNCHANGED sheets /\ job'[a].stage # "create"
      BY <1>2, FirstSteps DEF FindFolder, Lookup
    <2>2. UNCHANGED folders /\ (job'[a].stage \in Placed => job'[a].folder \in folders)
      <3>1. CASE \E f \in folders : job' = [job EXCEPT ![a].folder = f, ![a].stage = "map"]
        BY <1>0, <1>2, <3>1, ZenonT(40) DEF FindFolder, JobRecord
      <3>2. CASE Go(a, "makeFolder")
        BY <1>0, <1>2, <3>2 DEF FindFolder, JobRecord, Go, Placed
      <3> QED
        BY <1>2, <3>1, <3>2 DEF FindFolder
    <2> QED
      BY <1>0, <1>s, <2>1, <2>2, OneKept DEF Onward
  <1>3. ASSUME NEW a \in Exporters, MakeFolder(a) PROVE OneInv'
    <2>1. Onward(a) /\ UNCHANGED sheets /\ job'[a].stage # "create"
      BY <1>3, FirstSteps DEF MakeFolder, Lookup
    <2>2. folders \subseteq folders' /\ job'[a].folder \in folders'
      BY <1>0, <1>3 DEF MakeFolder, JobRecord
    <2> QED
      BY <1>0, <1>s, <2>1, <2>2, OneKept DEF Onward
  <1>4. ASSUME NEW a \in Exporters, Lookup(a) PROVE OneInv'
    <2>1. /\ Onward(a) /\ UNCHANGED <<sheets, folders>> /\ job'[a].folder = job[a].folder
          /\ job[a].stage \in Placed
      BY <1>0, <1>4, FirstSteps DEF Lookup, FindFolder, MakeFolder, ReadTabs, Placed, Go
    <2>2. job[a].folder \in folders
      BY <2>1 DEF OneInv
    <2>3. ASSUME OneFolder, job'[a].stage = "create", NEW i \in DOMAIN sheets, sheets[i].title = job[a].date
          PROVE  sheets[i].place # "folder"
      <3>1. Titled(job[a].date, job[a].folder) = {}
        BY <1>0, <1>4, <2>3 DEF Lookup, JobRecord
      <3>2. sheets[i].folder = job[a].folder
        BY <2>2, <2>3 DEF OneInv, OneFolder
      <3> QED
        BY <2>3, <3>1, <3>2 DEF Titled
    <2> QED
      BY <1>0, <1>s, <2>1, <2>2, <2>3, OneKept DEF Onward
  <1>5. ASSUME NEW a \in Exporters,
               ReadIdMap(a) \/ UseCached(a) \/ TruncateIdMap(a) \/ SaveIdMap(a) \/ ReadTabs(a)
        PROVE OneInv'
    <2>1. /\ Onward(a) /\ UNCHANGED sheets
          /\ job[a].stage \in Placed \/ job'[a].stage \notin Placed \/ FindFolder(a) \/ MakeFolder(a)
          /\ job'[a].stage \in Placed \/ UNCHANGED folders
          /\ job'[a].folder = job[a].folder \/ FindFolder(a) \/ MakeFolder(a) \/ ReadTabs(a)
          /\ job'[a].stage = "create" => Lookup(a)
          /\ job'[a].stage \in {"makeFolder", "tabs", "addTabs", "dropDefault", "clearSummary"} \cup MapStages
      BY <1>5, FirstSteps
    <2>2. ~FindFolder(a) /\ ~MakeFolder(a) /\ ~Lookup(a) /\ UNCHANGED folders
      BY <1>5 DEF FindFolder, MakeFolder, Lookup, ReadIdMap, UseCached, TruncateIdMap, SaveIdMap, ReadTabs
    <2>3. ReadTabs(a) => job'[a].stage \notin Placed
      BY <2>1 DEF ReadTabs, Placed, FindFolder, MakeFolder
    <2>4. job'[a].stage \in Placed => job'[a].folder \in folders
      BY <2>1, <2>2, <2>3 DEF OneInv
    <2> QED
      BY <1>0, <1>s, <2>1, <2>2, <2>4, OneKept DEF Onward
  <1>6. ASSUME NEW a \in Exporters,
               AddTabs(a) \/ DropDefault(a) \/ ClearTab(a) \/ WriteTab(a) \/ TabMeta(a) \/ FormatTab(a)
        PROVE OneInv'
    <2>1. /\ Onward(a) /\ UNCHANGED folders /\ Stay(sheets, sheets')
          /\ job'[a].stage \in (SheetStages \ {"tabs", "addTabs"}) \cup {"tell"}
      BY <1>6, LaterSteps
    <2>2. job'[a].stage \notin Placed
      BY <2>1 DEF Placed, SheetStages
    <2>3. job'[a].stage # "create"
      BY <2>2 DEF Placed
    <2> QED
      BY <1>0, <2>1, <2>2, <2>3, OneKept DEF Onward
  <1>7. ASSUME NEW a \in Exporters, FailHandled(a) PROVE OneInv'
    <2>1. /\ Onward(a) /\ UNCHANGED <<sheets, folders>>
          /\ job'[a].folder = job[a].folder /\ job'[a].stage # "create"
          /\ job'[a].stage \in Placed => job[a].stage \in Placed
      BY <1>0, <1>7, HandledSteps, ZenonT(40) DEF Placed, JobRecord
    <2> QED
      BY <1>0, <1>s, <2>1, OneKept DEF OneInv, Onward
  <1>8. ASSUME NEW a \in Exporters, Tell(a) \/ Fail(a) \/ Refused(a) \/ Kill(a) PROVE OneInv'
    <2>1. job' = [job EXCEPT ![a] = Idle] /\ job'[a].stage = "idle" /\ UNCHANGED <<sheets, folders, crossed>>
          /\ job' = [job EXCEPT ![a] = job'[a]]
      BY <1>8, LastSteps
    <2> QED
      BY <1>0, <1>s, <2>1, OneKept DEF Placed
  <1>9. ASSUME NEW i \in DOMAIN sheets, Delete(i) PROVE OneInv'
    <2>1. PICK place \in Places \ {"folder"} :
            /\ sheets' = [sheets EXCEPT ![i] = [sheets[i] EXCEPT !.place = place]]
            /\ UNCHANGED <<job, folders, crossed>>
      BY <1>9, DeleteMoves
    <2>2. Stay(sheets, sheets')
      BY <1>0, <2>1 DEF Stay, Sheet
    <2>3. PICK a \in Exporters : TRUE
      BY DEF Exporters
    <2>4. job' = [job EXCEPT ![a] = job'[a]] /\ job'[a] = job[a]
      BY <1>0, <2>1
    <2>5. folders \subseteq folders' /\ crossed \subseteq crossed'
      BY <2>1
    <2>6. job'[a].stage \in Placed => job'[a].folder \in folders'
      BY <2>1, <2>4 DEF OneInv
    <2>7. OneFolder /\ job'[a].stage = "create" /\ job'[a].date \notin crossed =>
            \A k \in DOMAIN sheets : sheets[k].title = job'[a].date => sheets[k].place # "folder"
      BY <2>4 DEF OneInv
    <2> QED
      BY <1>0, <2>2, <2>4, <2>5, <2>6, <2>7, OneKept
  <1>10. CASE UNCHANGED vars
    BY <1>10 DEF vars, OneInv, OneFolder
  <1>11. Fire => OneInv'
    BY <1>1 DEF Fire, Exporters
  <1>12. (\E d \in Days : Command(d)) => OneInv'
    BY <1>1 DEF Command, Exporters
  <1>13. ASSUME NEW a \in Exporters, ExportStep(a) PROVE OneInv'
    BY <1>13, <1>2, <1>3, <1>4, <1>5, <1>6, <1>7, <1>8, OneCreate DEF ExportStep
  <1> QED
    BY <1>8, <1>9, <1>10, <1>11, <1>12, <1>13 DEF Next, Over

\* A finite set with at most one member.
LEMMA AtMostOne ==
    ASSUME NEW S, IsFiniteSet(S), Cardinality(S) <= 1
    PROVE  \A f, g \in S : f = g
  <1> SUFFICES ASSUME NEW f \in S, NEW g \in S, f # g PROVE FALSE
    OBVIOUS
  <1>1. /\ IsFiniteSet(S \ {f}) /\ Cardinality(S \ {f}) = Cardinality(S) - 1
        /\ g \in S \ {f} /\ Cardinality(S) \in Nat
    BY FS_RemoveElement, FS_CardinalityType
  <1>2. IsFiniteSet((S \ {f}) \ {g}) /\ Cardinality((S \ {f}) \ {g}) = Cardinality(S \ {f}) - 1
    BY <1>1, FS_RemoveElement
  <1>3. Cardinality((S \ {f}) \ {g}) \in Nat
    BY <1>2, FS_CardinalityType
  <1> QED
    BY <1>1, <1>2, <1>3

\* A day has one spreadsheet, whatever calls fail, wherever an export is
\* killed and whatever becomes of the file of ids, as long as no two exports of
\* the day overlapped and one folder was made (_get_or_create_sheet, gsheets.py).
THEOREM OneSheetADayHolds == Spec => []OneSheetADay
  <1>1. Init => OneInv
    BY DEF Init, OneInv, Idle, Placed
  <1>2. RulesInv /\ OneInv => OneSheetADay
    BY AtMostOne DEF RulesInv, FoldersOk, OneInv, OneFolder, OneSheetADay, Resolves
  <1> QED
    BY <1>1, <1>2, OneInvKept, RulesInvInit, RulesInvKept, PTL DEF Spec

-----------------------------------------------------------------------------
(* A sheet is what was said of it. *)

\* From the clearing of the summary on, an export has left its mark.
Written == {"writeSummary", "metaSummary", "formatSummary", "clearDetail", "writeDetail",
            "metaDetail", "formatDetail", "tell"}
Filled == {"metaDetail", "formatDetail", "tell"}

\* The sheet a job j works on among s.
Where(j, s) == j.sheet \in DOMAIN s /\ s[j.sheet].title = j.date

\* A job j among the sheets s, c being the dates two exports worked on at once:
\* no sheet but its own bears its mark, and its own holds what it has written.
JobTruth(j, s, c) ==
    j.stage # "idle" =>
      /\ \A k \in DOMAIN s : s[k].last = j.run => j.stage \in Written /\ j.sheet = k
      /\ j.stage \in Written => Where(j, s)
      /\ j.stage = "writeSummary" => DOMAIN j.rows \subseteq {j.date}
      /\ j.stage \in Written /\ j.date \notin c =>
           /\ s[j.sheet].last = j.run
           /\ j.stage # "writeSummary" => s[j.sheet].rows = Put(NoMap, j.date, j.run)
           /\ j.stage \in Filled => s[j.sheet].detail = j.run

\* Exports are numbered; one that is running has told nothing yet.
RunsApart(jobs, n, ts) ==
    /\ \A a \in Exporters : jobs[a].stage # "idle" => jobs[a].run \in 1..n
    /\ \A a, o \in Exporters :
         a # o /\ jobs[a].stage # "idle" /\ jobs[o].stage # "idle" => jobs[a].run # jobs[o].run
    /\ \A t \in ts : /\ t.run \in 1..n
                     /\ \A a \in Exporters : jobs[a].stage # "idle" => jobs[a].run # t.run

\* The summary of a sheet has the row of its own date or none.
SheetTruth(s, n) == s.last \in 0..n /\ DOMAIN s.rows \subseteq {s.title}

TruthInv ==
    /\ \A a \in Exporters : JobTruth(job[a], sheets, crossed)
    /\ RunsApart(job, runs, told)
    /\ \A i \in DOMAIN sheets : SheetTruth(sheets[i], runs)
    /\ TellsTheTruth

\* What a sheet says of exports, read by the properties.
Same(s, t) == t.title = s.title /\ t.rows = s.rows /\ t.detail = s.detail /\ t.last = s.last

Whole(s) == s.rows = Put(NoMap, s.title, s.last) /\ s.detail = s.last
SaidOf(ts, i, s, ok) == \E t \in ts : t.run = s.last /\ t.sheet = i /\ t.ok = ok

\* TellsTheTruth of one sheet.
SheetTold(i, s, jobs, ts, ks) ==
    /\ SaidOf(ts, i, s, TRUE) => Whole(s)
    /\ \/ Whole(s) \/ SaidOf(ts, i, s, FALSE) \/ s.last \in ks
       \/ \E a \in Exporters : jobs[a].run = s.last

\* The property, sheet by sheet.
LEMMA TruthBySheet ==
    TellsTheTruth <=>
      \A i \in DOMAIN sheets : sheets[i].last # 0 /\ sheets[i].title \notin crossed
                               => SheetTold(i, sheets[i], job, told, killed)
  BY DEF TellsTheTruth, SheetTold, SaidOf, Whole

\* A job that is not the one that steps: sheets are made, and edited by others.
LEMMA OtherJobTruth ==
    ASSUME NEW j, NEW s, NEW t, NEW c, NEW e, JobTruth(j, s, c), j.stage # "idle" => j.run # 0,
           c \subseteq e, DOMAIN s \subseteq DOMAIN t,
           \A k \in DOMAIN t : \/ k \in DOMAIN s /\ Same(s[k], t[k])
                               \/ k \notin DOMAIN s /\ t[k].last = 0
                               \/ /\ k \in DOMAIN s /\ t[k].title = s[k].title
                                  /\ s[k].title = j.date => j.date \in e
                                  /\ t[k].last = s[k].last \/ t[k].last # j.run
    PROVE  JobTruth(j, t, e)
  <1> SUFFICES ASSUME j.stage # "idle" PROVE JobTruth(j, t, e)
    BY DEF JobTruth
  <1>1. ASSUME NEW k \in DOMAIN t, t[k].last = j.run
        PROVE  j.stage \in Written /\ j.sheet = k
    BY <1>1 DEF JobTruth, Same
  <1>2. j.stage \in Written => Where(j, t)
    BY DEF JobTruth, Where, Same
  <1>3. ASSUME j.stage \in Written, j.date \notin e
        PROVE  j.sheet \in DOMAIN s /\ Same(s[j.sheet], t[j.sheet])
    BY <1>3 DEF JobTruth, Where
  <1>4. ASSUME j.stage \in Written, j.date \notin e
        PROVE  /\ t[j.sheet].last = j.run
               /\ j.stage # "writeSummary" => t[j.sheet].rows = Put(NoMap, j.date, j.run)
               /\ j.stage \in Filled => t[j.sheet].detail = j.run
    BY <1>3, <1>4 DEF JobTruth, Same
  <1> QED
    BY <1>1, <1>2, <1>4 DEF JobTruth

\* What is so of a sheet stays so while it says the same and nothing is told.
LEMMA SameTold ==
    ASSUME NEW i, NEW s, NEW t, NEW jobs, NEW more, NEW ts, NEW ks, Same(s, t),
           \A a \in Exporters : jobs[a].run = s.last => \E o \in Exporters : more[o].run = s.last,
           SheetTold(i, s, jobs, ts, ks)
    PROVE  SheetTold(i, t, more, ts, ks)
  BY DEF SheetTold, SaidOf, Whole, Same

\* A step of an exporter that goes on.
LEMMA TruthStep ==
    ASSUME RulesInv, TruthInv, NEW a \in Exporters, Onward(a),
           DOMAIN sheets \subseteq DOMAIN sheets',
           \A k \in DOMAIN sheets' :
             /\ SheetTruth(sheets'[k], runs)
             /\ \/ k \in DOMAIN sheets /\ Same(sheets[k], sheets'[k])
                \/ k \notin DOMAIN sheets /\ sheets'[k].last = 0
                \/ /\ k \in DOMAIN sheets /\ sheets[k].title = job[a].date
                   /\ sheets'[k].title = job[a].date
                   /\ sheets'[k].last \in {sheets[k].last, job[a].run}
                   /\ job[a].date \notin crossed => sheets'[k].last = job[a].run,
           JobTruth(job'[a], sheets', crossed)
    PROVE  TruthInv'
  <1>1. /\ job \in [Exporters -> JobRecord] /\ runs \in Nat /\ Apart(job, crossed)
        /\ \A o \in Exporters : job[o] \in JobRecord
    BY DEF RulesInv
  <1>2. /\ job[a].stage # "idle" /\ job'[a].stage # "idle"
        /\ job'[a].run = job[a].run /\ job'[a].date = job[a].date
        /\ UNCHANGED <<told, killed, crossed, runs>>
        /\ \A o \in Exporters : o # a => job'[o] = job[o]
    BY <1>1 DEF Onward
  <1>3. /\ RunsApart(job, runs, told)
        /\ \A o \in Exporters : job[o].stage # "idle" => job[o].run # 0
    BY <1>1 DEF TruthInv, RunsApart
  <1>4. ASSUME NEW o \in Exporters PROVE JobTruth(job'[o], sheets', crossed')
    <2>1. CASE o = a
      BY <1>2, <2>1
    <2>2. CASE o # a /\ job[o].stage = "idle"
      BY <1>2, <2>2 DEF JobTruth
    <2>3. CASE o # a /\ job[o].stage # "idle"
      <3>1. job[o].date = job[a].date => job[a].date \in crossed
        BY <1>1, <1>2, <2>3 DEF Apart
      <3>2. job[o].run # job[a].run
        BY <1>2, <1>3, <2>3 DEF RunsApart
      <3>3. JobTruth(job[o], sheets, crossed)
        BY DEF TruthInv
      <3>4. JobTruth(job[o], sheets', crossed)
        BY <1>3, <2>3, <3>1, <3>2, <3>3, OtherJobTruth
      <3> QED
        BY <1>2, <2>3, <3>4
    <2> QED
      BY <2>1, <2>2, <2>3
  <1>5. RunsApart(job', runs', told')
    BY <1>2, <1>3 DEF RunsApart
  <1>6. \A i \in DOMAIN sheets' : SheetTruth(sheets'[i], runs')
    BY <1>2
  <1>7. ASSUME NEW i \in DOMAIN sheets', sheets'[i].last # 0, sheets'[i].title \notin crossed'
        PROVE  SheetTold(i, sheets'[i], job', told', killed')
    <2>1. CASE i \in DOMAIN sheets /\ Same(sheets[i], sheets'[i])
      <3>1. SheetTold(i, sheets[i], job, told, killed)
        BY <1>2, <1>7, <2>1, TruthBySheet DEF TruthInv, Same
      <3>2. \A o \in Exporters : job'[o].run = job[o].run
        BY <1>2
      <3>3. SheetTold(i, sheets'[i], job', told, killed)
        BY <2>1, <3>1, <3>2, SameTold
      <3> QED
        BY <1>2, <3>3
    <2>2. CASE sheets'[i].last = job[a].run
      <3>1. \A t \in told : t.run # job[a].run
        BY <1>2, <1>3 DEF RunsApart
      <3> QED
        BY <1>2, <2>2, <3>1 DEF SheetTold, SaidOf
    <2> QED
      BY <1>2, <1>7, <2>1, <2>2
  <1>8. TellsTheTruth'
    <2>1. TellsTheTruth' <=> \A i \in DOMAIN sheets' : sheets'[i].last # 0 /\ sheets'[i].title \notin crossed'
                               => SheetTold(i, sheets'[i], job', told', killed')
      BY DEF TellsTheTruth, SheetTold, SaidOf, Whole
    <2> QED
      BY <1>7, <2>1
  <1> QED
    BY <1>4, <1>5, <1>6, <1>8 DEF TruthInv

\* A step that does no more than make a sheet, before the export leaves a mark.
LEMMA EarlyStep ==
    ASSUME RulesInv, TruthInv, NEW a \in Exporters, Onward(a),
           job[a].stage \notin Written, job'[a].stage \notin Written,
           DOMAIN sheets \subseteq DOMAIN sheets',
           \A k \in DOMAIN sheets' :
             \/ k \in DOMAIN sheets /\ Same(sheets[k], sheets'[k])
             \/ k \notin DOMAIN sheets /\ sheets'[k].last = 0 /\ sheets'[k].rows = NoMap
    PROVE  TruthInv'
  <1>1. \A k \in DOMAIN sheets' : SheetTruth(sheets'[k], runs)
    BY NoMapType DEF TruthInv, RulesInv, SheetTruth, Same
  <1>2. job[a].run # 0
    <2>1. runs \in Nat /\ job[a].run \in 1..runs
      BY DEF RulesInv, TruthInv, RunsApart, Onward
    <2> QED
      BY <2>1
  <1>3. JobTruth(job'[a], sheets', crossed)
    <2>1. \A k \in DOMAIN sheets : sheets[k].last # job[a].run
      BY DEF TruthInv, JobTruth, Onward
    <2>2. \A k \in DOMAIN sheets' : sheets'[k].last # job'[a].run
      BY <1>2, <2>1 DEF Same, Onward
    <2>3. job'[a].stage # "writeSummary"
      BY DEF Written
    <2> QED
      BY <2>2, <2>3 DEF JobTruth
  <1> QED
    BY <1>1, <1>3, TruthStep

\* A step between two that write, on the same sheet.
LEMMA LateStep ==
    ASSUME RulesInv, TruthInv, NEW a \in Exporters, Onward(a),
           job[a].stage \in Written \ {"writeSummary"}, job'[a].stage \in Written \ {"writeSummary"},
           job'[a].stage \in Filled => job[a].stage \in Filled, job'[a].sheet = job[a].sheet,
           DOMAIN sheets' = DOMAIN sheets, \A k \in DOMAIN sheets : Same(sheets[k], sheets'[k])
    PROVE  TruthInv'
  <1>1. \A k \in DOMAIN sheets' : SheetTruth(sheets'[k], runs)
    BY DEF TruthInv, SheetTruth, Same
  <1>2. JobTruth(job'[a], sheets', crossed)
    BY DEF TruthInv, JobTruth, Where, Same, Onward
  <1> QED
    BY <1>1, <1>2, TruthStep

\* Tabs and rules are no content.
LEMMA SameContent ==
    ASSUME RulesInv, NEW a \in Exporters, AddTabs(a) \/ DropDefault(a) \/ TabMeta(a) \/ FormatTab(a)
    PROVE  /\ DOMAIN sheets' = DOMAIN sheets /\ \A k \in DOMAIN sheets : Same(sheets[k], sheets'[k])
           /\ job'[a].rows = job[a].rows
           /\ \/ job[a].stage \in {"addTabs", "dropDefault"} /\ job'[a].stage \in {"dropDefault", "clearSummary"}
              \/ job[a].stage = "metaSummary" /\ job'[a].stage = "formatSummary"
              \/ job[a].stage = "metaDetail" /\ job'[a].stage = "formatDetail"
              \/ job[a].stage = "formatSummary" /\ job'[a].stage = "clearDetail"
              \/ job[a].stage = "formatDetail" /\ job'[a].stage = "tell"
  <1>1. /\ job[a] \in JobRecord /\ job \in [Exporters -> JobRecord] /\ sheets \in Seq(Sheet)
        /\ \A k \in DOMAIN sheets : sheets[k] \in Sheet
    BY DEF RulesInv, SheetsOk
  <1>2. Edited(a)
    BY LaterSteps
  <1>3. \/ UNCHANGED sheets
        \/ \E t : Same(sheets[job[a].sheet], t) /\ sheets' = [sheets EXCEPT ![job[a].sheet] = t]
    <2>1. \/ UNCHANGED sheets
          \/ \E tabs : sheets' = [sheets EXCEPT ![job[a].sheet] = [sheets[job[a].sheet] EXCEPT !.tabs = tabs]]
          \/ \E tab, n : sheets' = [sheets EXCEPT ![job[a].sheet] = [sheets[job[a].sheet] EXCEPT !.rules[tab] = n]]
      BY DEF AddTabs, DropDefault, TabMeta, FormatTab, Edit
    <2>2. \A tabs : Same(sheets[job[a].sheet], [sheets[job[a].sheet] EXCEPT !.tabs = tabs])
      BY <1>1, <1>2 DEF Edited, Sheet, Same
    <2>3. \A tab, n : Same(sheets[job[a].sheet], [sheets[job[a].sheet] EXCEPT !.rules[tab] = n])
      BY <1>1, <1>2 DEF Edited, Sheet, Same
    <2> QED
      BY <2>1, <2>2, <2>3
  <1>4. DOMAIN sheets' = DOMAIN sheets /\ \A k \in DOMAIN sheets : Same(sheets[k], sheets'[k])
    BY <1>1, <1>2, <1>3 DEF Edited, Same
  <1>5. CASE AddTabs(a)
    BY <1>1, <1>4, <1>5 DEF AddTabs, AfterTabs, Go, JobRecord
  <1>6. CASE DropDefault(a)
    BY <1>1, <1>4, <1>6 DEF DropDefault, JobRecord
  <1>7. CASE TabMeta(a)
    <2>1. PICK n : \/ /\ job[a].stage = "metaSummary"
                      /\ job' = [job EXCEPT ![a] = [job[a] EXCEPT !.rules = n, !.stage = "formatSummary"]]
                   \/ /\ job[a].stage = "metaDetail"
                      /\ job' = [job EXCEPT ![a] = [job[a] EXCEPT !.rules = n, !.stage = "formatDetail"]]
      BY <1>7 DEF TabMeta
    <2>2. /\ job'[a].rows = job[a].rows
          /\ \/ job[a].stage = "metaSummary" /\ job'[a].stage = "formatSummary"
             \/ job[a].stage = "metaDetail" /\ job'[a].stage = "formatDetail"
      <3>0. job[a] \in JobRecord /\ job \in [Exporters -> JobRecord]
        BY <1>1
      <3>1. CASE job[a].stage = "metaSummary"
        <4>1. job'[a] = [job[a] EXCEPT !.rules = n, !.stage = "formatSummary"]
          BY <2>1, <3>0, <3>1
        <4> QED
          BY <3>0, <3>1, <4>1 DEF JobRecord
      <3>2. CASE job[a].stage = "metaDetail"
        <4>1. job'[a] = [job[a] EXCEPT !.rules = n, !.stage = "formatDetail"]
          BY <2>1, <3>0, <3>2
        <4> QED
          BY <3>0, <3>2, <4>1 DEF JobRecord
      <3> QED
        BY <2>1, <3>1, <3>2
    <2> QED
      BY <1>4, <2>2
  <1>8. CASE FormatTab(a)
    <2>1. \/ /\ job[a].stage = "formatSummary"
             /\ job' = [job EXCEPT ![a] = [job[a] EXCEPT !.rules = 0, !.recon = FALSE, !.stage = "clearDetail"]]
          \/ /\ job[a].stage = "formatDetail"
             /\ job' = [job EXCEPT ![a] = [job[a] EXCEPT !.rules = 0, !.recon = FALSE, !.stage = "tell"]]
      BY <1>8 DEF FormatTab
    <2>2. /\ job'[a].rows = job[a].rows
          /\ \/ job[a].stage = "formatSummary" /\ job'[a].stage = "clearDetail"
             \/ job[a].stage = "formatDetail" /\ job'[a].stage = "tell"
      <3>0. job[a] \in JobRecord /\ job \in [Exporters -> JobRecord]
        BY <1>1
      <3>1. CASE job[a].stage = "formatSummary"
        <4>1. job'[a] = [job[a] EXCEPT !.rules = 0, !.recon = FALSE, !.stage = "clearDetail"]
          BY <2>1, <3>0, <3>1
        <4> QED
          BY <3>0, <3>1, <4>1 DEF JobRecord
      <3>2. CASE job[a].stage = "formatDetail"
        <4>1. job'[a] = [job[a] EXCEPT !.rules = 0, !.recon = FALSE, !.stage = "tell"]
          BY <2>1, <3>0, <3>2
        <4> QED
          BY <3>0, <3>2, <4>1 DEF JobRecord
      <3> QED
        BY <2>1, <3>1, <3>2
    <2> QED
      BY <1>4, <2>2
  <1> QED
    BY <1>5, <1>6, <1>7, <1>8

\* An export clears the summary and, later, the detail of its sheet.
LEMMA TruthClearTab ==
    ASSUME RulesInv, TruthInv, NEW a \in Exporters, ClearTab(a)
    PROVE  TruthInv'
  <1> DEFINE i == job[a].sheet
  <1>1. /\ job[a] \in JobRecord /\ job \in [Exporters -> JobRecord] /\ runs \in Nat
        /\ sheets \in Seq(Sheet) /\ \A k \in DOMAIN sheets : sheets[k] \in Sheet
    BY DEF RulesInv, SheetsOk
  <1>2. /\ Onward(a) /\ i \in DOMAIN sheets /\ sheets[i].title = job[a].date
        /\ DOMAIN sheets' = DOMAIN sheets /\ job'[a].sheet = i
        /\ \A k \in DOMAIN sheets : k # i => sheets'[k] = sheets[k]
    BY LaterSteps DEF Edited
  <1>3. sheets[i] \in Sheet /\ job[a].run \in 1..runs
    BY <1>1, <1>2 DEF TruthInv, RunsApart, Onward
  <1>4. JobTruth(job[a], sheets, crossed) /\ \A k \in DOMAIN sheets : SheetTruth(sheets[k], runs)
    BY DEF TruthInv
  <1>5. \A k \in DOMAIN sheets : k # i => sheets[k].last # job[a].run
    BY <1>2, <1>4 DEF JobTruth, Onward
  <1>6. sheets'[i].title = job[a].date /\ sheets'[i].last = job[a].run
    BY <1>1, <1>2, <1>3 DEF ClearTab, Edit, Sheet
  <1>7. CASE job[a].stage = "clearSummary"
    <2>1. sheets'[i].rows = NoMap
      BY <1>1, <1>2, <1>3, <1>7 DEF ClearTab, Edit, Sheet
    <2>2. job'[a].stage = "writeSummary" /\ job'[a].rows = sheets[i].rows
      BY <1>1, <1>7 DEF ClearTab, JobRecord
    <2>3. \A k \in DOMAIN sheets' : SheetTruth(sheets'[k], runs)
      BY <1>2, <1>3, <1>4, <1>6, <2>1, NoMapType DEF SheetTruth
    <2>4. JobTruth(job'[a], sheets', crossed)
      BY <1>2, <1>4, <1>5, <1>6, <2>2 DEF JobTruth, Where, Written, Filled, SheetTruth, Onward
    <2> QED
      BY <1>2, <1>6, <2>3, <2>4, TruthStep DEF Same
  <1>8. CASE job[a].stage = "clearDetail"
    <2>1. sheets'[i].rows = sheets[i].rows
      BY <1>1, <1>2, <1>3, <1>8 DEF ClearTab, Edit, Sheet
    <2>2. job'[a].stage = "writeDetail"
      BY <1>1, <1>8 DEF ClearTab, JobRecord
    <2>3. \A k \in DOMAIN sheets' : SheetTruth(sheets'[k], runs)
      BY <1>2, <1>3, <1>4, <1>6, <2>1 DEF SheetTruth
    <2>4. JobTruth(job'[a], sheets', crossed)
      BY <1>2, <1>4, <1>5, <1>6, <1>8, <2>1, <2>2 DEF JobTruth, Where, Written, Filled, Onward
    <2> QED
      BY <1>2, <1>6, <2>3, <2>4, TruthStep DEF Same
  <1> QED
    BY <1>7, <1>8 DEF ClearTab

\* Rows read of one date alone go back with the new row over the old.
LEMMA OnlyRow ==
    ASSUME NEW m, NEW d, NEW n, DOMAIN m \subseteq {d}
    PROVE  Put(m, d, n) = Put(NoMap, d, n) /\ DOMAIN Put(m, d, n) = {d}
  <1>1. DOMAIN m \cup {d} = {d} /\ DOMAIN NoMap \cup {d} = {d}
    BY NoMapType
  <1>2. Put(m, d, n) = [e \in {d} |-> n]
    BY <1>1 DEF Put
  <1>3. Put(NoMap, d, n) = [e \in {d} |-> n]
    BY <1>1 DEF Put
  <1> QED
    BY <1>2, <1>3

\* It writes its row over what the date had, and then the detail.
LEMMA TruthWriteTab ==
    ASSUME RulesInv, TruthInv, NEW a \in Exporters, WriteTab(a)
    PROVE  TruthInv'
  <1> DEFINE i == job[a].sheet
  <1>1. /\ job[a] \in JobRecord /\ job \in [Exporters -> JobRecord] /\ runs \in Nat
        /\ sheets \in Seq(Sheet) /\ \A k \in DOMAIN sheets : sheets[k] \in Sheet
    BY DEF RulesInv, SheetsOk
  <1>2. /\ Onward(a) /\ i \in DOMAIN sheets /\ sheets[i].title = job[a].date
        /\ DOMAIN sheets' = DOMAIN sheets /\ job'[a].sheet = i
        /\ \A k \in DOMAIN sheets : k # i => sheets'[k] = sheets[k]
    BY LaterSteps DEF Edited
  <1>3. sheets[i] \in Sheet /\ job[a].run \in 1..runs
    BY <1>1, <1>2 DEF TruthInv, RunsApart, Onward
  <1>4. JobTruth(job[a], sheets, crossed) /\ \A k \in DOMAIN sheets : SheetTruth(sheets[k], runs)
    BY DEF TruthInv
  <1>5. \A k \in DOMAIN sheets : k # i => sheets[k].last # job[a].run
    BY <1>2, <1>4 DEF JobTruth, Onward
  <1>6. /\ sheets'[i].title = job[a].date /\ sheets'[i].last = sheets[i].last
        /\ job[a].date \notin crossed => sheets'[i].last = job[a].run
    <2>1. sheets'[i].title = job[a].date /\ sheets'[i].last = sheets[i].last
      <3>1. PICK rows, detail :
              \/ sheets' = [sheets EXCEPT ![i] = [sheets[i] EXCEPT !.rows = rows]]
              \/ sheets' = [sheets EXCEPT ![i] = [sheets[i] EXCEPT !.detail = detail]]
        BY DEF WriteTab, Edit
      <3> QED
        BY <1>1, <1>2, <1>3, <3>1 DEF Sheet
    <2>2. job[a].stage \in Written
      BY DEF WriteTab, Written
    <2> QED
      BY <1>2, <1>4, <2>1, <2>2 DEF JobTruth, Onward
  <1>7. CASE job[a].stage = "writeSummary"
    <2>1. DOMAIN job[a].rows \subseteq {job[a].date}
      BY <1>2, <1>4, <1>7 DEF JobTruth, Onward
    <2>2. sheets'[i].rows = Put(job[a].rows, job[a].date, job[a].run)
      BY <1>1, <1>2, <1>3, <1>7 DEF WriteTab, Edit, Sheet
    <2>3. sheets'[i].rows = Put(NoMap, job[a].date, job[a].run) /\ DOMAIN sheets'[i].rows = {job[a].date}
      <3>1. ASSUME NEW m, NEW d, NEW n, DOMAIN m \subseteq {d}, sheets'[i].rows = Put(m, d, n)
            PROVE  sheets'[i].rows = Put(NoMap, d, n) /\ DOMAIN sheets'[i].rows = {d}
        <4>1. Put(m, d, n) = Put(NoMap, d, n) /\ DOMAIN Put(m, d, n) = {d}
          BY ONLY <3>1, OnlyRow
        <4> QED
          BY ONLY <3>1, <4>1
      <3> QED
        BY <2>1, <2>2, <3>1
    <2>4. job'[a].stage = "metaSummary"
      BY <1>1, <1>7 DEF WriteTab, JobRecord
    <2>5. \A k \in DOMAIN sheets' : SheetTruth(sheets'[k], runs)
      BY <1>2, <1>3, <1>4, <1>6, <2>3 DEF SheetTruth
    <2>6. JobTruth(job'[a], sheets', crossed)
      BY <1>2, <1>4, <1>5, <1>6, <2>3, <2>4 DEF JobTruth, Where, Written, Filled, Onward
    <2> QED
      BY <1>2, <1>6, <2>5, <2>6, TruthStep DEF Same
  <1>8. CASE job[a].stage = "writeDetail"
    <2>0. sheets' = [sheets EXCEPT ![i] = [sheets[i] EXCEPT !.detail = job[a].run]]
      BY <1>8 DEF WriteTab, Edit
    <2>1. sheets'[i].rows = sheets[i].rows /\ sheets'[i].detail = job[a].run
      BY <1>1, <1>2, <1>3, <2>0 DEF Sheet
    <2>2. job'[a].stage = "metaDetail"
      <3>1. PICK found \in BOOLEAN : job' = [job EXCEPT ![a] = [job[a] EXCEPT !.recon = found, !.stage = "metaDetail"]]
        BY <1>8 DEF WriteTab
      <3> QED
        BY <1>1, <3>1 DEF JobRecord
    <2>3. \A k \in DOMAIN sheets' : SheetTruth(sheets'[k], runs)
      BY <1>2, <1>3, <1>4, <1>6, <2>1 DEF SheetTruth
    <2>4. JobTruth(job'[a], sheets', crossed)
      BY <1>2, <1>4, <1>5, <1>6, <1>8, <2>1, <2>2 DEF JobTruth, Where, Written, Filled, Onward
    <2> QED
      BY <1>2, <1>6, <2>3, <2>4, TruthStep DEF Same
  <1> QED
    BY <1>7, <1>8 DEF WriteTab

\* An export that ends is told of, as a success only when it is at its end, or
\* was killed.
LEMMA TruthLeave ==
    ASSUME RulesInv, TruthInv, NEW a \in Exporters, job[a].stage # "idle",
           job' = [job EXCEPT ![a] = Idle], UNCHANGED <<sheets, crossed, runs>>,
           NEW t, t.run = job[a].run, t.sheet = job[a].sheet, t.ok \in BOOLEAN,
           \/ told' = told \cup {t} /\ UNCHANGED killed /\ (t.ok => job[a].stage = "tell")
           \/ UNCHANGED told /\ killed' = killed \cup {job[a].run}
    PROVE  TruthInv'
  <1>1. /\ job \in [Exporters -> JobRecord] /\ runs \in Nat /\ Idle.stage = "idle"
        /\ job'[a] = Idle /\ \A o \in Exporters : o # a => job'[o] = job[o]
    BY DEF RulesInv, Idle
  <1>2. /\ RunsApart(job, runs, told) /\ JobTruth(job[a], sheets, crossed)
        /\ job[a].run \in 1..runs
    BY DEF TruthInv, RunsApart
  <1>3. \A o \in Exporters : JobTruth(job'[o], sheets', crossed')
    BY <1>1 DEF TruthInv, JobTruth
  <1>4. RunsApart(job', runs', told')
    <2>1. \A o \in Exporters : job'[o].stage # "idle" => job'[o] = job[o] /\ job[o].run # job[a].run
      BY <1>1, <1>2 DEF RunsApart
    <2>2. \A u \in told' : u \in told \/ u.run = job[a].run
      OBVIOUS
    <2> QED
      BY <1>1, <1>2, <2>1, <2>2 DEF RunsApart
  <1>5. \A i \in DOMAIN sheets' : SheetTruth(sheets'[i], runs')
    BY DEF TruthInv
  <1>6. ASSUME NEW i \in DOMAIN sheets, sheets[i].last # 0, sheets[i].title \notin crossed
        PROVE  SheetTold(i, sheets[i], job', told', killed')
    <2>1. SheetTold(i, sheets[i], job, told, killed)
      BY <1>6, TruthBySheet DEF TruthInv
    <2>2. CASE sheets[i].last = job[a].run
      <3>1. job[a].stage \in Written /\ job[a].sheet = i /\ sheets[i].title = job[a].date
        BY <1>2, <2>2 DEF JobTruth, Where
      <3>2. ~SaidOf(told, i, sheets[i], TRUE)
        BY <1>2, <2>2 DEF RunsApart, SaidOf
      <3>3. CASE told' = told \cup {t} /\ t.ok /\ job[a].stage = "tell"
        <4>1. Whole(sheets[i])
          <5>1. job[a].stage = "tell" /\ job[a].date \notin crossed
            BY <1>6, <3>1, <3>3
          <5>2. /\ sheets[job[a].sheet].rows = Put(NoMap, job[a].date, job[a].run)
                /\ sheets[job[a].sheet].detail = job[a].run
            BY <1>2, <3>1, <5>1 DEF JobTruth, Filled
          <5> QED
            BY <2>2, <3>1, <5>2 DEF Whole
        <4> QED
          BY <4>1 DEF SheetTold
      <3>4. CASE told' = told \cup {t} /\ ~t.ok
        <4>1. SaidOf(told', i, sheets[i], FALSE)
          BY <2>2, <3>1, <3>4 DEF SaidOf
        <4>2. ~SaidOf(told', i, sheets[i], TRUE)
          BY <3>2, <3>4 DEF SaidOf
        <4> QED
          BY <4>1, <4>2 DEF SheetTold
      <3>5. CASE UNCHANGED told /\ killed' = killed \cup {job[a].run}
        BY <2>2, <3>2, <3>5 DEF SheetTold
      <3> QED
        BY <3>3, <3>4, <3>5
    <2>3. CASE sheets[i].last # job[a].run
      <3>1. \A ok \in BOOLEAN : SaidOf(told', i, sheets[i], ok) <=> SaidOf(told, i, sheets[i], ok)
        BY <2>3 DEF SaidOf
      <3>2. \A o \in Exporters : job[o].run = sheets[i].last => job'[o].run = sheets[i].last
        BY <1>1, <2>3
      <3>3. sheets[i].last \in killed => sheets[i].last \in killed'
        OBVIOUS
      <3> QED
        BY <2>1, <3>1, <3>2, <3>3 DEF SheetTold
    <2> QED
      BY <2>2, <2>3
  <1>7. TellsTheTruth'
    <2>1. TellsTheTruth' <=> \A i \in DOMAIN sheets' : sheets'[i].last # 0 /\ sheets'[i].title \notin crossed'
                               => SheetTold(i, sheets'[i], job', told', killed')
      BY DEF TellsTheTruth, SheetTold, SaidOf, Whole
    <2> QED
      BY <1>6, <2>1
  <1> QED
    BY <1>3, <1>4, <1>5, <1>7 DEF TruthInv

\* Someone deletes a sheet, or an export begins: nothing that was said is
\* about it.
LEMMA TruthAside ==
    ASSUME RulesInv, TruthInv, DOMAIN sheets' = DOMAIN sheets,
           \A k \in DOMAIN sheets : Same(sheets[k], sheets'[k]),
           crossed \subseteq crossed', UNCHANGED <<told, killed>>, runs' \in Nat, runs <= runs',
           NEW a \in Exporters,
           \/ UNCHANGED job
           \/ /\ job[a] = Idle /\ job' = [job EXCEPT ![a] = job'[a]]
              /\ job'[a].stage = "folder" /\ job'[a].run = runs + 1 /\ runs' = runs + 1
    PROVE  TruthInv'
  <1>1. /\ job \in [Exporters -> JobRecord] /\ runs \in Nat /\ Idle.stage = "idle"
        /\ \A o \in Exporters : o # a => job'[o] = job[o]
    BY DEF RulesInv, Idle
  <1>2. RunsApart(job, runs, told)
    BY DEF TruthInv
  <1>3. \A i \in DOMAIN sheets : SheetTruth(sheets[i], runs)
    BY DEF TruthInv
  <1>4. ASSUME NEW o \in Exporters, job'[o] = job[o] PROVE JobTruth(job'[o], sheets', crossed')
    <2>1. job[o].stage # "idle" => job[o].run # 0
      BY <1>1, <1>2 DEF RunsApart
    <2>2. JobTruth(job[o], sheets, crossed)
      BY DEF TruthInv
    <2>3. JobTruth(job[o], sheets', crossed')
      BY <2>1, <2>2, OtherJobTruth
    <2> QED
      BY <1>4, <2>3
  <1>5. ASSUME job'[a].stage = "folder", job'[a].run = runs + 1 PROVE JobTruth(job'[a], sheets', crossed')
    <2>1. \A k \in DOMAIN sheets' : sheets'[k].last # runs + 1
      BY <1>1, <1>3 DEF SheetTruth, Same
    <2> QED
      BY <1>5, <2>1 DEF JobTruth, Written
  <1>6. RunsApart(job', runs', told')
    <2>1. CASE UNCHANGED job
      BY <1>1, <1>2, <2>1 DEF RunsApart
    <2>2. CASE job'[a].run = runs + 1 /\ runs' = runs + 1
      <3>1. \A o \in Exporters : job'[o].stage # "idle" => (o = a /\ job'[o].run = runs + 1)
                                    \/ (o # a /\ job[o].stage # "idle" /\ job'[o].run = job[o].run)
        BY <1>1, <2>2
      <3>2. \A o \in Exporters : job[o].stage # "idle" => job[o].run \in 1..runs
        BY <1>2 DEF RunsApart
      <3>3. \A t \in told : t.run \in 1..runs
        BY <1>2 DEF RunsApart
      <3> QED
        BY <1>1, <1>2, <2>2, <3>1, <3>2, <3>3 DEF RunsApart
    <2> QED
      BY <2>1, <2>2
  <1>7. \A i \in DOMAIN sheets' : SheetTruth(sheets'[i], runs')
    BY <1>1, <1>3 DEF SheetTruth, Same
  <1>8. ASSUME NEW i \in DOMAIN sheets', sheets'[i].last # 0, sheets'[i].title \notin crossed'
        PROVE  SheetTold(i, sheets'[i], job', told', killed')
    <2>1. SheetTold(i, sheets[i], job, told, killed)
      BY <1>8, TruthBySheet DEF TruthInv, Same
    <2>2. \A o \in Exporters : job[o].run = sheets[i].last => job'[o].run = sheets[i].last
      <3>1. CASE UNCHANGED job
        BY <3>1
      <3>2. CASE job[a] = Idle
        BY <1>1, <1>8, <3>2 DEF Idle, Same
      <3> QED
        BY <3>1, <3>2
    <2>3. SheetTold(i, sheets'[i], job', told, killed)
      BY <2>1, <2>2, SameTold
    <2> QED
      BY <2>3
  <1>9. TellsTheTruth'
    <2>1. TellsTheTruth' <=> \A i \in DOMAIN sheets' : sheets'[i].last # 0 /\ sheets'[i].title \notin crossed'
                               => SheetTold(i, sheets'[i], job', told', killed')
      BY DEF TellsTheTruth, SheetTold, SaidOf, Whole
    <2> QED
      BY <1>8, <2>1
  <1>10. \A o \in Exporters : JobTruth(job'[o], sheets', crossed')
    BY <1>1, <1>4, <1>5
  <1> QED
    BY <1>6, <1>7, <1>9, <1>10 DEF TruthInv

\* Every step keeps it.
LEMMA TruthInvKept == RulesInv /\ TruthInv /\ [Next]_vars => TruthInv'
  <1> SUFFICES ASSUME RulesInv, TruthInv, [Next]_vars PROVE TruthInv'
    OBVIOUS
  <1>0. /\ job \in [Exporters -> JobRecord] /\ \A a \in Exporters : job[a] \in JobRecord
        /\ sheets \in Seq(Sheet) /\ \A i \in DOMAIN sheets : sheets[i] \in Sheet
        /\ runs \in Nat
    BY DEF RulesInv, SheetsOk
  <1>s. UNCHANGED sheets => DOMAIN sheets' = DOMAIN sheets /\ \A k \in DOMAIN sheets : Same(sheets[k], sheets'[k])
    BY DEF Same
  <1>1. ASSUME NEW a \in Exporters, NEW d \in Days, Begin(a, d) PROVE TruthInv'
    <2>1. /\ UNCHANGED <<sheets, told, killed>> /\ crossed \subseteq crossed' /\ runs' = runs + 1
          /\ job[a] = Idle /\ job' = [job EXCEPT ![a] = job'[a]]
          /\ job'[a].stage = "folder" /\ job'[a].run = runs + 1
      BY <1>0, <1>1 DEF Begin, Idle
    <2>2. runs' \in Nat /\ runs <= runs'
      BY <1>0, <2>1
    <2> QED
      BY <1>s, <2>1, <2>2, TruthAside
  <1>2. ASSUME NEW a \in Exporters,
               FindFolder(a) \/ MakeFolder(a) \/ ReadIdMap(a) \/ UseCached(a) \/ Lookup(a)
               \/ TruncateIdMap(a) \/ SaveIdMap(a) \/ ReadTabs(a)
        PROVE  TruthInv'
    <2>1. /\ Onward(a) /\ UNCHANGED sheets
          /\ job[a].stage \in {"folder", "makeFolder", "tabs"} \cup MapStages
          /\ job'[a].stage \in {"makeFolder", "tabs", "addTabs", "dropDefault", "clearSummary"} \cup MapStages
      BY <1>2, FirstSteps
    <2>2. job[a].stage \notin Written /\ job'[a].stage \notin Written
      BY <2>1 DEF Written, MapStages
    <2> QED
      BY <1>s, <2>1, <2>2, EarlyStep
  <1>3. ASSUME NEW a \in Exporters, Create(a) PROVE TruthInv'
    <2> DEFINE n == Len(sheets) + 1
               new == NewSheet(job[a].date, job[a].folder)
    <2>1. /\ job' = [job EXCEPT ![a] = [job[a] EXCEPT !.sheet = n, !.stage = "truncate"]]
          /\ sheets' = Append(sheets, new) /\ UNCHANGED <<told, killed, crossed, runs>>
          /\ job[a].stage = "create"
      BY <1>3 DEF Create
    <2>2. new.last = 0 /\ new.rows = NoMap
      BY DEF NewSheet
    <2> HIDE DEF new
    <2>3. /\ DOMAIN sheets' = DOMAIN sheets \cup {n} /\ n \notin DOMAIN sheets /\ sheets'[n] = new
          /\ \A k \in DOMAIN sheets : sheets'[k] = sheets[k]
      BY <1>0, <2>1
    <2> HIDE DEF n
    <2>4. /\ job'[a] = [job[a] EXCEPT !.sheet = n, !.stage = "truncate"] /\ job' = [job EXCEPT ![a] = job'[a]]
          /\ job'[a].run = job[a].run /\ job'[a].date = job[a].date /\ job'[a].stage = "truncate"
      BY <1>0, <2>1 DEF JobRecord
    <2> QED
      BY <2>1, <2>2, <2>3, <2>4, EarlyStep DEF Onward, Written, Same
  <1>4. ASSUME NEW a \in Exporters, AddTabs(a) \/ DropDefault(a) \/ TabMeta(a) \/ FormatTab(a)
        PROVE  TruthInv'
    <2>1. Onward(a) /\ job'[a].sheet = job[a].sheet
      BY <1>4, LaterSteps
    <2>2. DOMAIN sheets' = DOMAIN sheets /\ \A k \in DOMAIN sheets : Same(sheets[k], sheets'[k])
      BY <1>4, SameContent
    <2>3. CASE job[a].stage \in {"addTabs", "dropDefault"} /\ job'[a].stage \in {"dropDefault", "clearSummary"}
      BY <2>1, <2>2, <2>3, EarlyStep DEF Written
    <2>4. CASE \/ job[a].stage = "metaSummary" /\ job'[a].stage = "formatSummary"
               \/ job[a].stage = "metaDetail" /\ job'[a].stage = "formatDetail"
               \/ job[a].stage = "formatSummary" /\ job'[a].stage = "clearDetail"
               \/ job[a].stage = "formatDetail" /\ job'[a].stage = "tell"
      BY <2>1, <2>2, <2>4, LateStep DEF Written, Filled
    <2> QED
      BY <1>4, <2>3, <2>4, SameContent
  <1>7. ASSUME NEW a \in Exporters, FailHandled(a) PROVE TruthInv'
    <2>1. /\ Onward(a) /\ UNCHANGED sheets /\ job'[a].sheet = job[a].sheet
          /\ \/ job[a].stage = "cached" /\ job'[a].stage = "lookup"
             \/ job[a].stage \in {"truncate", "save"} /\ job'[a].stage = "tabs"
             \/ job[a].stage = "formatSummary" /\ job'[a].stage = "clearDetail"
             \/ job[a].stage = "formatDetail" /\ job'[a].stage = "tell"
      BY <1>0, <1>7, HandledSteps, ZenonT(40) DEF JobRecord
    <2>2. CASE job[a].stage \in {"cached", "truncate", "save"}
      BY <1>s, <2>1, <2>2, EarlyStep DEF Written
    <2>3. CASE job[a].stage \in {"formatSummary", "formatDetail"}
      BY <1>s, <2>1, <2>3, LateStep DEF Written, Filled
    <2> QED
      BY <2>1, <2>2, <2>3
  <1>8. ASSUME NEW a \in Exporters, Tell(a) \/ Fail(a) \/ Refused(a) PROVE TruthInv'
    <2>1. job[a].stage # "idle" /\ job' = [job EXCEPT ![a] = Idle] /\ UNCHANGED <<sheets, crossed, runs>>
      BY <1>8, LastSteps
    <2>2. PICK ok \in BOOLEAN : Leave(a, ok) /\ UNCHANGED killed /\ (ok => job[a].stage = "tell")
      BY <1>8 DEF Tell, Fail, Refused
    <2> DEFINE t == [by |-> a, run |-> job[a].run, date |-> job[a].date, sheet |-> job[a].sheet, ok |-> ok]
    <2>3. told' = told \cup {t}
      BY <2>2 DEF Leave
    <2>4. t.run = job[a].run /\ t.sheet = job[a].sheet /\ t.ok = ok
      OBVIOUS
    <2> HIDE DEF t
    <2> QED
      BY <2>1, <2>2, <2>3, <2>4, TruthLeave
  <1>9. ASSUME NEW a \in Exporters, Kill(a) PROVE TruthInv'
    <2>1. job[a].stage # "idle" /\ job' = [job EXCEPT ![a] = Idle] /\ UNCHANGED <<sheets, crossed, runs>>
      BY <1>9, LastSteps
    <2>2. UNCHANGED told /\ killed' = killed \cup {job[a].run}
      BY <1>9 DEF Kill
    <2> DEFINE t == [run |-> job[a].run, sheet |-> job[a].sheet, ok |-> FALSE]
    <2>3. t.run = job[a].run /\ t.sheet = job[a].sheet /\ t.ok \in BOOLEAN
      OBVIOUS
    <2> HIDE DEF t
    <2> QED
      BY <2>1, <2>2, <2>3, TruthLeave
  <1>10. ASSUME NEW i \in DOMAIN sheets, Delete(i) PROVE TruthInv'
    <2>1. PICK place : /\ sheets' = [sheets EXCEPT ![i] = [sheets[i] EXCEPT !.place = place]]
                       /\ UNCHANGED <<job, told, killed, crossed, runs>>
      BY <1>10, DeleteMoves
    <2>2. DOMAIN sheets' = DOMAIN sheets /\ \A k \in DOMAIN sheets : Same(sheets[k], sheets'[k])
      BY <1>0, <2>1 DEF Same, Sheet
    <2>3. PICK a \in Exporters : TRUE
      BY DEF Exporters
    <2>4. runs' \in Nat /\ runs <= runs' /\ crossed \subseteq crossed'
      BY <1>0, <2>1
    <2> QED
      BY <2>1, <2>2, <2>4, TruthAside
  <1>11. CASE UNCHANGED vars
    BY <1>11 DEF vars, TruthInv, TellsTheTruth
  <1>12. Fire => TruthInv'
    BY <1>1 DEF Fire, Exporters
  <1>13. (\E d \in Days : Command(d)) => TruthInv'
    BY <1>1 DEF Command, Exporters
  <1>14. ASSUME NEW a \in Exporters, ExportStep(a) PROVE TruthInv'
    BY <1>14, <1>2, <1>3, <1>4, <1>7, <1>8, TruthClearTab, TruthWriteTab DEF ExportStep
  <1> QED
    BY <1>9, <1>10, <1>11, <1>12, <1>13, <1>14 DEF Next, Over

\* A sheet is what was said of it: after an export that reported success both
\* tabs hold that export, and a sheet whose tabs do not belong together was left
\* by an export that was killed, reported failure or still runs
\* (run_nav_report_export, tasks.py, and export_nav_report).
THEOREM TellsTheTruthHolds == Spec => []TellsTheTruth
  <1>1. Init => TruthInv
    BY DEF Init, TruthInv, JobTruth, RunsApart, TellsTheTruth, Idle
  <1>2. TruthInv => TellsTheTruth
    BY DEF TruthInv
  <1> QED
    BY <1>1, <1>2, TruthInvKept, RulesInvInit, RulesInvKept, PTL DEF Spec

-----------------------------------------------------------------------------
(* Types: an export makes one sheet at most. *)

Pending(j) == IF j.stage \in Placed \cup {"folder", "makeFolder"} THEN 1 ELSE 0

\* What a job and a sheet hold, n being the number of sheets.
JobBound(j, n) == j.rows \in IdMaps /\ j.run \in Run /\ j.sheet \in 0..n
SheetBound(s) == s.rows \in IdMaps /\ s.detail \in Run

BoundsInv ==
    /\ fired \in 0..MaxDays /\ crossed \subseteq Days
    /\ runs \in Run /\ killed \subseteq Run /\ faults \in 0..MaxFaults
    /\ Len(sheets) + Pending(job["scheduled"]) + Pending(job["byHand"]) <= runs
    /\ \A i \in DOMAIN sheets : SheetBound(sheets[i])
    /\ \A a \in Exporters : JobBound(job[a], Len(sheets))

\* The bounds are numbers.
LEMMA BoundNat == MaxDays \in Nat /\ MaxRuns \in Nat /\ MaxFaults \in Nat /\ Run = 0..MaxRuns
  BY ExportAssumption DEF Run

\* The empty map.
LEMMA NoMapBound == NoMap \in IdMaps
  <1>1. NoMap \in [{} -> 1..MaxRuns]
    BY DEF NoMap
  <1> QED
    BY <1>1 DEF IdMaps

\* A map with an entry more.
LEMMA PutBound ==
    ASSUME NEW m \in IdMaps, NEW d \in Days, NEW n \in 1..MaxRuns
    PROVE  Put(m, d, n) \in IdMaps
  <1>1. PICK D \in SUBSET Days : m \in [D -> 1..MaxRuns]
    BY DEF IdMaps
  <1>2. D \cup {d} \in SUBSET Days /\ Put(m, d, n) \in [D \cup {d} -> 1..MaxRuns]
    BY <1>1 DEF Put
  <1> QED
    BY <1>2 DEF IdMaps

\* A map that names sheets.
LEMMA NamesBound ==
    ASSUME NEW m \in Maps, NEW s \in Seq(Sheet), Names(m, s), Len(s) <= MaxRuns
    PROVE  m \in IdMaps
  <1>1. PICK D \in SUBSET Days : m \in [D -> Nat]
    BY DEF Maps
  <1>2. \A d \in D : m[d] \in 1..MaxRuns
    BY <1>1, BoundNat DEF Names
  <1>3. m \in [D -> 1..MaxRuns]
    BY <1>1, <1>2
  <1> QED
    BY <1>3 DEF IdMaps

\* A step of one exporter.
LEMMA BoundsStep ==
    ASSUME RulesInv, BoundsInv, sheets' \in Seq(Sheet), NEW a \in Exporters,
           job' = [job EXCEPT ![a] = job'[a]], UNCHANGED <<fired, crossed, runs>>,
           faults' \in 0..MaxFaults, killed' \subseteq Run,
           Len(sheets) <= Len(sheets'),
           Len(sheets') + Pending(job'[a]) <= Len(sheets) + Pending(job[a]),
           \A i \in DOMAIN sheets' : SheetBound(sheets'[i]), JobBound(job'[a], Len(sheets'))
    PROVE  BoundsInv'
  <1>1. job \in [Exporters -> JobRecord] /\ sheets \in Seq(Sheet) /\ runs \in Nat
    BY DEF RulesInv, SheetsOk
  <1>2. \A o \in Exporters : o # a => job'[o] = job[o]
    BY <1>1
  <1>3. \A j : Pending(j) \in {0, 1}
    BY DEF Pending
  <1>4. Len(sheets') + Pending(job'["scheduled"]) + Pending(job'["byHand"]) <= runs'
    <2>0. /\ Len(sheets) \in Nat /\ Len(sheets') \in Nat
          /\ Len(sheets) + Pending(job["scheduled"]) + Pending(job["byHand"]) <= runs
      BY <1>1 DEF BoundsInv
    <2> DEFINE x == Pending(job["scheduled"])
               y == Pending(job["byHand"])
               u == Pending(job'["scheduled"])
               v == Pending(job'["byHand"])
    <2>1. x \in {0, 1} /\ y \in {0, 1} /\ u \in {0, 1} /\ v \in {0, 1}
      BY <1>3
    <2>2. \/ v = y /\ Len(sheets') + u <= Len(sheets) + x
          \/ u = x /\ Len(sheets') + v <= Len(sheets) + y
      BY <1>2 DEF Exporters
    <2>3. Len(sheets) + x + y <= runs
      BY <2>0
    <2> HIDE DEF x, y, u, v
    <2>4. Len(sheets') + u + v <= runs
      BY <1>1, <2>0, <2>1, <2>2, <2>3
    <2> QED
      BY <2>4 DEF u, v
  <1>5. \A o \in Exporters : JobBound(job'[o], Len(sheets'))
    <2>1. Len(sheets) \in Nat /\ Len(sheets') \in Nat
      BY <1>1
    <2>2. \A o \in Exporters : JobBound(job[o], Len(sheets))
      BY DEF BoundsInv
    <2>3. \A o \in Exporters : JobBound(job[o], Len(sheets'))
      BY <2>1, <2>2 DEF JobBound
    <2> QED
      BY <1>2, <2>3
  <1> QED
    BY <1>4, <1>5 DEF BoundsInv

\* A step that changes no content of a sheet and makes none.
LEMMA SheetsBoundKept ==
    ASSUME RulesInv, BoundsInv, DOMAIN sheets' = DOMAIN sheets, sheets' \in Seq(Sheet),
           \A k \in DOMAIN sheets : Same(sheets[k], sheets'[k])
    PROVE  Len(sheets') = Len(sheets) /\ \A i \in DOMAIN sheets' : SheetBound(sheets'[i])
  <1>1. sheets \in Seq(Sheet)
    BY DEF RulesInv, SheetsOk
  <1> QED
    BY <1>1 DEF BoundsInv, SheetBound, Same

\* What an exporter's step does besides.
LEMMA Besides ==
    ASSUME BoundsInv, NEW a \in Exporters, ExportStep(a) \/ Kill(a)
    PROVE  UNCHANGED fired /\ faults' \in 0..MaxFaults
  <1>1. UNCHANGED fired /\ (UNCHANGED faults \/ Fault)
    BY DEF ExportStep, Kill, FindFolder, MakeFolder, ReadIdMap, UseCached, Lookup, Create, TruncateIdMap,
           SaveIdMap, ReadTabs, AddTabs, DropDefault, ClearTab, WriteTab, TabMeta, FormatTab, Tell, Fail,
           Refused, FailHandled
  <1>2. faults \in 0..MaxFaults
    BY DEF BoundsInv
  <1>3. Fault => faults' \in 0..MaxFaults
    BY <1>2, BoundNat DEF Fault
  <1> QED
    BY <1>1, <1>2, <1>3

\* Every step keeps it.
LEMMA BoundsInvKept == RulesInv /\ TruthInv /\ BoundsInv /\ RulesInv' /\ [Next]_vars => BoundsInv'
  <1> SUFFICES ASSUME RulesInv, TruthInv, BoundsInv, RulesInv', [Next]_vars PROVE BoundsInv'
    OBVIOUS
  <1>0. /\ job \in [Exporters -> JobRecord] /\ \A a \in Exporters : job[a] \in JobRecord
        /\ sheets \in Seq(Sheet) /\ \A i \in DOMAIN sheets : sheets[i] \in Sheet
        /\ runs \in Nat /\ Len(sheets) \in Nat /\ sheets' \in Seq(Sheet)
    BY DEF RulesInv, SheetsOk
  <1>b. /\ \A a \in Exporters : JobBound(job[a], Len(sheets)) /\ \A i \in DOMAIN sheets : SheetBound(sheets[i])
        /\ killed \subseteq Run /\ \A j : Pending(j) \in {0, 1}
    BY DEF BoundsInv, Pending
  <1>s. UNCHANGED sheets => DOMAIN sheets' = DOMAIN sheets /\ \A k \in DOMAIN sheets : Same(sheets[k], sheets'[k])
    BY DEF Same
  <1>k. ASSUME NEW a \in Exporters, Onward(a), UNCHANGED fired, faults' \in 0..MaxFaults,
               DOMAIN sheets' = DOMAIN sheets, \A k \in DOMAIN sheets : Same(sheets[k], sheets'[k]),
               job[a].stage \notin Placed \cup {"folder", "makeFolder"}
                 => job'[a].stage \notin Placed \cup {"folder", "makeFolder"},
               job'[a].rows \in IdMaps, job'[a].sheet \in 0..Len(sheets)
        PROVE  BoundsInv'
    <2>1. Len(sheets') = Len(sheets) /\ \A i \in DOMAIN sheets' : SheetBound(sheets'[i])
      BY <1>0, <1>k, SheetsBoundKept
    <2>2. Pending(job'[a]) <= Pending(job[a])
      BY <1>k DEF Pending
    <2>3. Len(sheets') + Pending(job'[a]) <= Len(sheets) + Pending(job[a]) /\ Len(sheets) <= Len(sheets')
      BY <1>0, <1>b, <2>1, <2>2
    <2>4. JobBound(job'[a], Len(sheets'))
      BY <1>b, <1>k, <2>1 DEF JobBound, Onward
    <2> QED
      BY <1>0, <1>b, <1>k, <2>1, <2>3, <2>4, BoundsStep DEF Onward
  <1>1. ASSUME NEW a \in Exporters, NEW d \in Days, Begin(a, d), fired' \in 0..MaxDays PROVE BoundsInv'
    <2>1. /\ UNCHANGED <<sheets, killed, faults>> /\ runs' = runs + 1 /\ runs < MaxRuns
          /\ crossed' \in {crossed, crossed \cup {d}}
          /\ job[a] = Idle /\ job' = [job EXCEPT ![a] = job'[a]]
          /\ job'[a] = [Idle EXCEPT !.stage = "folder", !.run = runs + 1, !.date = d]
      BY <1>0, <1>1 DEF Begin
    <2>2. /\ job'[a].stage = "folder" /\ job'[a].run = runs + 1 /\ job'[a].rows = NoMap /\ job'[a].sheet = 0
          /\ Pending(Idle) = 0
      BY <2>1 DEF Idle, Pending, Placed
    <2>3. Pending(job'[a]) = 1
      BY <2>2 DEF Pending
    <2>4. \A o \in Exporters : o # a => job'[o] = job[o]
      BY <1>0, <2>1
    <2>5. runs' \in Run
      BY <1>0, <2>1, BoundNat
    <2>6. crossed' \subseteq Days
      BY <2>1 DEF BoundsInv
    <2>7. Len(sheets') + Pending(job'["scheduled"]) + Pending(job'["byHand"]) <= runs'
      <3>1. Len(sheets) + Pending(job["scheduled"]) + Pending(job["byHand"]) <= runs
        BY DEF BoundsInv
      <3>2. CASE a = "scheduled"
        <4>1. /\ Pending(job["scheduled"]) = 0 /\ Pending(job'["scheduled"]) = 1
              /\ Pending(job'["byHand"]) = Pending(job["byHand"]) /\ Pending(job["byHand"]) \in {0, 1}
          BY <1>b, <2>1, <2>2, <2>3, <2>4, <3>2 DEF Exporters
        <4> QED
          BY <1>0, <2>1, <3>1, <4>1
      <3>3. CASE a = "byHand"
        <4>1. /\ Pending(job["byHand"]) = 0 /\ Pending(job'["byHand"]) = 1
              /\ Pending(job'["scheduled"]) = Pending(job["scheduled"]) /\ Pending(job["scheduled"]) \in {0, 1}
          BY <1>b, <2>1, <2>2, <2>3, <2>4, <3>3 DEF Exporters
        <4> QED
          BY <1>0, <2>1, <3>1, <4>1
      <3> QED
        BY <3>2, <3>3 DEF Exporters
    <2>8. \A o \in Exporters : JobBound(job'[o], Len(sheets'))
      <3>1. JobBound(job'[a], Len(sheets))
        BY <1>0, <2>2, <2>1, BoundNat, NoMapBound DEF JobBound
      <3> QED
        BY <1>b, <2>1, <2>4, <3>1
    <2> QED
      BY <1>1, <1>b, <2>1, <2>5, <2>6, <2>7, <2>8 DEF BoundsInv
  <1>2. ASSUME NEW a \in Exporters,
               FindFolder(a) \/ MakeFolder(a) \/ ReadIdMap(a) \/ UseCached(a) \/ Lookup(a)
               \/ TruncateIdMap(a) \/ SaveIdMap(a) \/ ReadTabs(a)
        PROVE  BoundsInv'
    <2>1. /\ Onward(a) /\ UNCHANGED sheets
          /\ job[a].stage \in Placed \/ job'[a].stage \notin Placed \/ FindFolder(a) \/ MakeFolder(a)
      BY <1>2, FirstSteps
    <2>2. UNCHANGED fired /\ faults' \in 0..MaxFaults
      BY <1>2, Besides DEF ExportStep
    <2>3. job'[a].rows = job[a].rows /\ job'[a].sheet \in {job[a].sheet} \cup DOMAIN sheets
          /\ (job'[a].stage = "makeFolder" => FindFolder(a)) /\ job'[a].stage # "folder"
      <3>1. CASE FindFolder(a)
        <4>1. PICK f, stage : stage # "folder" /\ job' = [job EXCEPT ![a] = [job[a] EXCEPT !.folder = f, !.stage = stage]]
          <5>1. \/ \E f \in folders : job' = [job EXCEPT ![a] = [job[a] EXCEPT !.folder = f, !.stage = "map"]]
                \/ job' = [job EXCEPT ![a] = [job[a] EXCEPT !.folder = job[a].folder, !.stage = "makeFolder"]]
            BY <1>0, <3>1 DEF FindFolder, Go, JobRecord
          <5> QED
            BY <5>1
        <4> QED
          BY <1>0, <3>1, <4>1 DEF JobRecord
      <3>2. CASE MakeFolder(a) \/ ReadIdMap(a) \/ TruncateIdMap(a) \/ SaveIdMap(a)
        BY <1>0, <3>2 DEF JobRecord, MakeFolder, ReadIdMap, TruncateIdMap, SaveIdMap, Go
      <3>3. CASE ReadTabs(a)
        BY <1>0, <3>3 DEF JobRecord, ReadTabs, AfterTabs
      <3>4. CASE Lookup(a)
        <4>1. \/ \E i \in DOMAIN sheets : job' = [job EXCEPT ![a] = [job[a] EXCEPT !.sheet = i, !.stage = "truncate"]]
              \/ job' = [job EXCEPT ![a] = [job[a] EXCEPT !.stage = "create"]]
          BY <1>0, <3>4 DEF Lookup, Go, Titled
        <4>2. CASE job' = [job EXCEPT ![a] = [job[a] EXCEPT !.stage = "create"]]
          BY <1>0, <4>2 DEF JobRecord
        <4>3. ASSUME NEW i \in DOMAIN sheets,
                     job' = [job EXCEPT ![a] = [job[a] EXCEPT !.sheet = i, !.stage = "truncate"]]
              PROVE  /\ job'[a].rows = job[a].rows /\ job'[a].sheet \in {job[a].sheet} \cup DOMAIN sheets
                     /\ job'[a].stage = "truncate"
          BY <1>0, <4>3 DEF JobRecord
        <4> QED
          BY <4>1, <4>2, <4>3
      <3>5. CASE UseCached(a)
        <4>1. /\ \/ job' = [job EXCEPT ![a] = [job[a] EXCEPT !.sheet = job[a].map[job[a].date], !.map = NoMap, !.stage = "tabs"]]
                 \/ job' = [job EXCEPT ![a] = [job[a] EXCEPT !.stage = "lookup"]]
              /\ job[a].stage = "cached"
          BY <1>0, <3>5 DEF UseCached
        <4>2. job[a].map[job[a].date] \in DOMAIN sheets
          BY <4>1 DEF RulesInv, JobOk, Names
        <4> QED
          <5>1. CASE job' = [job EXCEPT ![a] = [job[a] EXCEPT !.stage = "lookup"]]
            BY <1>0, <5>1 DEF JobRecord
          <5>2. ASSUME NEW k \in DOMAIN sheets,
                       job' = [job EXCEPT ![a] = [job[a] EXCEPT !.sheet = k, !.map = NoMap, !.stage = "tabs"]]
                PROVE  /\ job'[a].rows = job[a].rows /\ job'[a].sheet = k /\ job'[a].stage = "tabs"
            BY <1>0, <5>2 DEF JobRecord
          <5> QED
            BY <4>1, <4>2, <5>1, <5>2
      <3> QED
        BY <1>2, <3>1, <3>2, <3>3, <3>4, <3>5
    <2>4. job'[a].rows \in IdMaps /\ job'[a].sheet \in 0..Len(sheets)
      BY <1>0, <1>b, <2>3 DEF JobBound
    <2>5. job[a].stage \notin Placed \cup {"folder", "makeFolder"}
            => job'[a].stage \notin Placed \cup {"folder", "makeFolder"}
      BY <2>1, <2>3 DEF FindFolder, MakeFolder
    <2> QED
      BY <1>s, <1>k, <2>1, <2>2, <2>4, <2>5
  <1>3. ASSUME NEW a \in Exporters, Create(a) PROVE BoundsInv'
    <2> DEFINE n == Len(sheets) + 1
               new == NewSheet(job[a].date, job[a].folder)
    <2>1. /\ job' = [job EXCEPT ![a] = [job[a] EXCEPT !.sheet = n, !.stage = "truncate"]]
          /\ sheets' = Append(sheets, new) /\ UNCHANGED <<fired, killed, crossed, runs, faults>>
          /\ job[a].stage = "create"
      BY <1>3 DEF Create
    <2>2. SheetBound(new)
      BY NoMapBound, BoundNat DEF NewSheet, SheetBound
    <2> HIDE DEF new
    <2>3. Len(sheets') = n /\ \A i \in DOMAIN sheets' : SheetBound(sheets'[i])
      BY <1>0, <1>b, <2>1, <2>2
    <2>4. /\ job' = [job EXCEPT ![a] = job'[a]] /\ job'[a].stage = "truncate"
          /\ job'[a].run = job[a].run /\ job'[a].rows = job[a].rows /\ job'[a].sheet = n
      BY <1>0, <2>1 DEF JobRecord
    <2>5. Pending(job[a]) = 1 /\ Pending(job'[a]) = 0
      BY <2>1, <2>4 DEF Pending, Placed
    <2>6. JobBound(job'[a], Len(sheets'))
      BY <1>0, <1>b, <2>3, <2>4 DEF JobBound
    <2>7. Len(sheets) <= Len(sheets') /\ Len(sheets') + Pending(job'[a]) <= Len(sheets) + Pending(job[a])
      BY <1>0, <2>3, <2>5
    <2>8. faults' \in 0..MaxFaults
      BY <2>1 DEF BoundsInv
    <2> QED
      BY <1>0, <1>b, <2>1, <2>3, <2>4, <2>6, <2>7, <2>8, BoundsStep
  <1>4. ASSUME NEW a \in Exporters, AddTabs(a) \/ DropDefault(a) \/ TabMeta(a) \/ FormatTab(a)
        PROVE  BoundsInv'
    <2>1. /\ Onward(a) /\ job'[a].sheet = job[a].sheet
          /\ job'[a].stage \in (SheetStages \ {"tabs", "addTabs"}) \cup {"tell"}
      BY <1>4, LaterSteps
    <2>2. /\ DOMAIN sheets' = DOMAIN sheets /\ \A k \in DOMAIN sheets : Same(sheets[k], sheets'[k])
          /\ job'[a].rows = job[a].rows
      BY <1>4, SameContent
    <2>3. UNCHANGED fired /\ faults' \in 0..MaxFaults
      BY <1>4, Besides DEF ExportStep
    <2>4. job'[a].rows \in IdMaps /\ job'[a].sheet \in 0..Len(sheets)
      BY <1>b, <2>1, <2>2 DEF JobBound
    <2>5. job'[a].stage \notin Placed \cup {"folder", "makeFolder"}
      BY <2>1 DEF Placed, SheetStages
    <2> QED
      BY <1>k, <2>1, <2>2, <2>3, <2>4, <2>5
  <1>5. ASSUME NEW a \in Exporters, ClearTab(a) \/ WriteTab(a) PROVE BoundsInv'
    <2> DEFINE i == job[a].sheet
    <2>1. /\ Onward(a) /\ job'[a].sheet = i /\ i \in DOMAIN sheets
          /\ job'[a].stage \in (SheetStages \ {"tabs", "addTabs"}) \cup {"tell"}
          /\ DOMAIN sheets' = DOMAIN sheets /\ \A k \in DOMAIN sheets : k # i => sheets'[k] = sheets[k]
      BY <1>5, LaterSteps DEF Edited
    <2>2. UNCHANGED fired /\ faults' \in 0..MaxFaults /\ UNCHANGED killed
      BY <1>5, Besides DEF ExportStep, ClearTab, WriteTab
    <2>3. job[a].run \in 1..MaxRuns /\ job[a].date \in Days
      <3>1. job[a].run \in 1..runs /\ runs \in Run
        BY <2>1 DEF TruthInv, RunsApart, Onward, BoundsInv
      <3>2. job[a].date \in Days
        BY <2>1 DEF RulesInv, JobOk, Onward
      <3> QED
        BY <1>0, <3>1, <3>2, BoundNat
    <2>4. job[a].rows \in IdMaps /\ sheets[i].rows \in IdMaps /\ sheets[i].detail \in Run /\ sheets[i] \in Sheet
      BY <1>0, <1>b, <2>1 DEF JobBound, SheetBound
    <2>5. SheetBound(sheets'[i]) /\ job'[a].rows \in IdMaps
      <3>1. CASE ClearTab(a) /\ job[a].stage = "clearSummary"
        BY <1>0, <2>1, <2>4, <3>1, NoMapBound DEF ClearTab, Edit, Sheet, SheetBound, JobRecord
      <3>2. CASE ClearTab(a) /\ job[a].stage = "clearDetail"
        <4>1. /\ sheets' = [sheets EXCEPT ![i] = [sheets[i] EXCEPT !.last = job[a].run, !.detail = 0]]
              /\ job' = [job EXCEPT ![a] = [job[a] EXCEPT !.stage = "writeDetail"]]
          BY <3>2 DEF ClearTab, Edit
        <4>2. job'[a].rows = job[a].rows
          BY <1>0, <4>1 DEF JobRecord
        <4>3. sheets'[i].rows = sheets[i].rows /\ sheets'[i].detail = 0
          BY <1>0, <2>1, <2>4, <4>1 DEF Sheet
        <4> QED
          BY <2>4, <4>2, <4>3, BoundNat DEF SheetBound
      <3>3. CASE WriteTab(a) /\ job[a].stage = "writeSummary"
        <4>1. Put(job[a].rows, job[a].date, job[a].run) \in IdMaps
          BY <2>3, <2>4, PutBound
        <4>2. /\ sheets' = [sheets EXCEPT ![i] = [sheets[i] EXCEPT !.rows = Put(job[a].rows, job[a].date, job[a].run)]]
              /\ job' = [job EXCEPT ![a] = [job[a] EXCEPT !.rows = NoMap, !.stage = "metaSummary"]]
          BY <3>3 DEF WriteTab, Edit
        <4>3. job'[a].rows = NoMap
          BY <1>0, <4>2 DEF JobRecord
        <4>4. /\ sheets'[i].rows = Put(job[a].rows, job[a].date, job[a].run)
              /\ sheets'[i].detail = sheets[i].detail
          BY <1>0, <2>1, <2>4, <4>2 DEF Sheet
        <4> QED
          BY <2>4, <4>1, <4>3, <4>4, NoMapBound DEF SheetBound
      <3>4. CASE WriteTab(a) /\ job[a].stage = "writeDetail"
        <4>1. sheets' = [sheets EXCEPT ![i] = [sheets[i] EXCEPT !.detail = job[a].run]]
          BY <3>4 DEF WriteTab, Edit
        <4>2. PICK found \in BOOLEAN : job' = [job EXCEPT ![a] = [job[a] EXCEPT !.recon = found, !.stage = "metaDetail"]]
          BY <3>4 DEF WriteTab
        <4>3. job'[a].rows = job[a].rows
          BY <1>0, <4>2 DEF JobRecord
        <4>4. sheets'[i].rows = sheets[i].rows /\ sheets'[i].detail = job[a].run
          BY <1>0, <2>1, <2>4, <4>1 DEF Sheet
        <4>5. job[a].run \in Run
          BY <2>3, BoundNat
        <4> QED
          BY <2>4, <4>3, <4>4, <4>5 DEF SheetBound
      <3> QED
        BY <1>5, <3>1, <3>2, <3>3, <3>4 DEF ClearTab, WriteTab
    <2>6. Len(sheets') = Len(sheets) /\ \A k \in DOMAIN sheets' : SheetBound(sheets'[k])
      BY <1>0, <1>b, <2>1, <2>5
    <2>7. Pending(job'[a]) = 0
      BY <2>1 DEF Pending, Placed, SheetStages
    <2>8. JobBound(job'[a], Len(sheets'))
      BY <1>b, <2>1, <2>5, <2>6 DEF JobBound, Onward
    <2>9. Len(sheets) <= Len(sheets') /\ Len(sheets') + Pending(job'[a]) <= Len(sheets) + Pending(job[a])
      BY <1>0, <1>b, <2>6, <2>7
    <2> HIDE DEF i
    <2> QED
      BY <1>0, <1>b, <2>1, <2>2, <2>6, <2>8, <2>9, BoundsStep DEF Onward
  <1>6. ASSUME NEW a \in Exporters, FailHandled(a) PROVE BoundsInv'
    <2>1. /\ Onward(a) /\ UNCHANGED sheets /\ job'[a].sheet = job[a].sheet /\ job'[a].rows = job[a].rows
          /\ \/ job[a].stage = "cached" /\ job'[a].stage = "lookup"
             \/ job[a].stage \in {"truncate", "save"} /\ job'[a].stage = "tabs"
             \/ job[a].stage = "formatSummary" /\ job'[a].stage = "clearDetail"
             \/ job[a].stage = "formatDetail" /\ job'[a].stage = "tell"
      BY <1>0, <1>6, HandledSteps, ZenonT(40) DEF JobRecord
    <2>2. UNCHANGED fired /\ faults' \in 0..MaxFaults
      BY <1>6, Besides DEF ExportStep
    <2>3. job'[a].rows \in IdMaps /\ job'[a].sheet \in 0..Len(sheets)
      BY <1>b, <2>1 DEF JobBound
    <2>4. job[a].stage \notin Placed \cup {"folder", "makeFolder"}
            => job'[a].stage \notin Placed \cup {"folder", "makeFolder"}
      BY <2>1 DEF Placed
    <2> QED
      BY <1>s, <1>k, <2>1, <2>2, <2>3, <2>4
  <1>7. ASSUME NEW a \in Exporters, Tell(a) \/ Fail(a) \/ Refused(a) \/ Kill(a) PROVE BoundsInv'
    <2>1. /\ job[a].stage # "idle" /\ job' = [job EXCEPT ![a] = Idle] /\ job'[a] = Idle
          /\ UNCHANGED <<sheets, crossed, runs>>
      BY <1>7, LastSteps
    <2>2. UNCHANGED fired /\ faults' \in 0..MaxFaults
      BY <1>7, Besides DEF ExportStep
    <2>3. killed' \subseteq Run
      <3>1. job[a].run \in Run
        BY <1>b DEF JobBound
      <3>2. UNCHANGED killed \/ killed' = killed \cup {job[a].run}
        BY <1>7 DEF Tell, Fail, Refused, Kill
      <3> QED
        BY <1>b, <3>1, <3>2
    <2>4. Pending(Idle) = 0 /\ JobBound(Idle, Len(sheets))
      BY <1>0, BoundNat, NoMapBound DEF Pending, Placed, Idle, JobBound
    <2>5. Len(sheets) <= Len(sheets') /\ Len(sheets') + Pending(job'[a]) <= Len(sheets) + Pending(job[a])
      BY <1>0, <1>b, <2>1, <2>4
    <2>6. JobBound(job'[a], Len(sheets')) /\ job' = [job EXCEPT ![a] = job'[a]]
      BY <2>1, <2>4
    <2>7. \A i \in DOMAIN sheets' : SheetBound(sheets'[i])
      BY <1>b, <2>1
    <2> QED
      BY <1>0, <2>1, <2>2, <2>3, <2>5, <2>6, <2>7, BoundsStep
  <1>8. ASSUME NEW i \in DOMAIN sheets, Delete(i) PROVE BoundsInv'
    <2>1. PICK place : /\ sheets' = [sheets EXCEPT ![i] = [sheets[i] EXCEPT !.place = place]] /\ Fault
                       /\ UNCHANGED <<fired, job, killed, crossed, runs>>
      BY <1>8, DeleteMoves
    <2>2. DOMAIN sheets' = DOMAIN sheets /\ \A k \in DOMAIN sheets : Same(sheets[k], sheets'[k])
      BY <1>0, <2>1 DEF Same, Sheet
    <2>3. Len(sheets') = Len(sheets) /\ \A k \in DOMAIN sheets' : SheetBound(sheets'[k])
      BY <1>0, <2>2, SheetsBoundKept
    <2>4. faults' \in 0..MaxFaults
      BY <2>1, BoundNat DEF Fault, BoundsInv
    <2> QED
      BY <2>1, <2>3, <2>4 DEF BoundsInv
  <1>9. CASE UNCHANGED vars
    BY <1>9 DEF vars, BoundsInv
  <1>10. Fire => BoundsInv'
    <2>1. Fire => fired' \in 0..MaxDays
      BY BoundNat DEF Fire, Days
    <2> QED
      BY <1>1, <2>1 DEF Fire, Exporters
  <1>11. (\E d \in Days : Command(d)) => BoundsInv'
    BY <1>1 DEF Command, Exporters, BoundsInv
  <1>12. ASSUME NEW a \in Exporters, ExportStep(a) PROVE BoundsInv'
    BY <1>12, <1>2, <1>3, <1>4, <1>5, <1>6, <1>7 DEF ExportStep
  <1> QED
    BY <1>7, <1>8, <1>9, <1>10, <1>11, <1>12 DEF Next, Over

\* The types of the report export: sheets and jobs name dates, exports and
\* sheets there are, and the file of ids is torn or maps dates to sheets.
THEOREM TypeCorrect == Spec => []TypeOK
  <1>1. Init => OneInv /\ TruthInv /\ BoundsInv
    <2>1. Init => OneInv
      BY DEF Init, OneInv, Idle, Placed
    <2>2. Init => TruthInv
      BY DEF Init, TruthInv, JobTruth, RunsApart, TellsTheTruth, Idle
    <2>3. Init => BoundsInv
      <3> SUFFICES ASSUME Init PROVE BoundsInv
        OBVIOUS
      <3>1. \A a \in Exporters : job[a] = Idle
        BY DEF Init
      <3>2. Pending(Idle) = 0 /\ JobBound(Idle, 0)
        BY BoundNat, NoMapBound DEF Pending, Placed, Idle, JobBound
      <3>3. Len(sheets) = 0 /\ DOMAIN sheets = {}
        BY DEF Init
      <3> QED
        BY <3>1, <3>2, <3>3, BoundNat DEF Init, BoundsInv, Exporters
    <2> QED
      BY <2>1, <2>2, <2>3
  <1>2. RulesInv /\ OneInv /\ TruthInv /\ BoundsInv => TypeOK
    <2> SUFFICES ASSUME RulesInv, OneInv, TruthInv, BoundsInv PROVE TypeOK
      OBVIOUS
    <2>0. /\ job \in [Exporters -> JobRecord] /\ \A a \in Exporters : job[a] \in JobRecord
          /\ sheets \in Seq(Sheet) /\ \A i \in DOMAIN sheets : sheets[i] \in Sheet
          /\ \A a \in Exporters : JobOk(job[a], sheets, crossed) /\ JobBound(job[a], Len(sheets))
          /\ runs \in Nat /\ Len(sheets) \in Nat
      BY DEF RulesInv, SheetsOk, BoundsInv
    <2>1. Len(sheets) <= runs /\ runs <= MaxRuns
      <3>1. \A j : Pending(j) \in {0, 1}
        BY DEF Pending
      <3>2. /\ Pending(job["scheduled"]) \in {0, 1} /\ Pending(job["byHand"]) \in {0, 1}
            /\ Len(sheets) + Pending(job["scheduled"]) + Pending(job["byHand"]) <= runs
            /\ runs \in Run
        BY <3>1 DEF BoundsInv
      <3> QED
        BY <2>0, <3>2, BoundNat
    <2>2. idMap \in IdMaps \cup {Torn}
      BY <2>0, <2>1, NamesBound, BoundNat DEF RulesInv, FileOk
    <2>3. ASSUME NEW i \in DOMAIN sheets PROVE IsSheet(sheets[i])
      <3>1. /\ sheets[i].last \in 0..runs /\ runs \in Run
            /\ sheets[i].rows \in IdMaps /\ sheets[i].detail \in Run /\ sheets[i].folder \in folders
        BY DEF TruthInv, SheetTruth, BoundsInv, SheetBound, OneInv
      <3>2. sheets[i].last \in Run
        BY <2>0, <3>1, BoundNat
      <3>3. /\ sheets[i].title \in Days /\ sheets[i].place \in Places
            /\ sheets[i].tabs \subseteq Wanted \cup {Default} /\ sheets[i].rules \in [Wanted -> Nat]
        BY <2>0 DEF Sheet
      <3> QED
        BY <3>1, <3>2, <3>3 DEF IsSheet, Places
    <2>4. ASSUME NEW a \in Exporters PROVE IsJob(job[a])
      <3>1. job[a].stage \in Stages /\ job[a].map \in Maps
        BY <2>0 DEF JobRecord
      <3>2. job[a].map \in IdMaps
        BY <2>0, <2>1, <3>1, NamesBound, BoundNat DEF JobOk
      <3>3. job[a].rows \in IdMaps /\ job[a].run \in Run /\ job[a].sheet \in 0..Len(sheets)
        BY <2>0 DEF JobBound
      <3>4. job[a].sheet \in Run
        BY <2>0, <2>1, <3>3, BoundNat
      <3>5. job[a].date \in Run \cup Days
        BY <2>0, BoundNat DEF JobOk, Idle
      <3>6. job[a].stage \in SheetStages => job[a].sheet \in DOMAIN sheets
        BY <2>0 DEF JobOk, OnSheet
      <3> QED
        BY <3>1, <3>2, <3>3, <3>4, <3>5, <3>6 DEF IsJob
    <2> QED
      BY <2>2, <2>3, <2>4 DEF TypeOK, BoundsInv
  <1> QED
    BY <1>1, <1>2, OneInvKept, TruthInvKept, BoundsInvKept, RulesInvInit, RulesInvKept, PTL DEF Spec

-----------------------------------------------------------------------------
(* The reconciliation. *)

\* A set listed has every member once.
LEMMA ListingIsOneToOne ==
    ASSUME NEW S, IsFiniteSet(S)
    PROVE  /\ SetToSeq(S) \in Seq(S)
           /\ \A x \in S : \E i \in DOMAIN SetToSeq(S) : SetToSeq(S)[i] = x
           /\ \A i, j \in DOMAIN SetToSeq(S) : SetToSeq(S)[i] = SetToSeq(S)[j] => i = j
<1> DEFINE n == Cardinality(S)
<1>1. n \in Nat /\ ExistsBijection(1..n, S)
  BY FS_CardinalityType
<1>2. \E f \in [1..n -> S] : IsInjective(f)
  BY <1>1 DEF ExistsBijection, Bijection, Injection
<1>3. SetToSeq(S) \in [1..n -> S] /\ IsInjective(SetToSeq(S))
  BY <1>2 DEF SetToSeq
<1>4. SetToSeq(S) \in Injection(1..n, S)
  BY <1>3 DEF Injection
<1>5. Cardinality(1..n) = n /\ IsFiniteSet(1..n)
  BY <1>1, FS_Interval
<1>6. SetToSeq(S) \in Surjection(1..n, S)
  BY <1>4, <1>5, FS_Injection
<1>7. SetToSeq(S) \in Seq(S)
  BY <1>1, <1>3
<1>8. QED
  BY <1>3, <1>6, <1>7 DEF Surjection, IsInjective

\* What a function makes of a finite set is finite.
LEMMA FiniteImage ==
    ASSUME NEW S, IsFiniteSet(S), NEW f
    PROVE  IsFiniteSet({f[x] : x \in S})
<1> DEFINE T == {f[x] : x \in S}
<1>1. [x \in S |-> f[x]] \in Surjection(S, T)
  BY DEF Surjection
<1>2. QED
  BY <1>1, FS_Surjection

-----------------------------------------------------------------------------
(* The two sides. *)

\* A column of a catalog or an answer consists of numbers.
LEMMA ColumnsAreNumbers ==
    ASSUME NEW c, c \in Seq(CatalogRows) \/ c \in Seq(AnswerRows)
    PROVE  /\ DOMAIN c = 1..Len(c) /\ Len(c) \in Nat /\ IsFiniteSet(DOMAIN c)
           /\ DOMAIN Quantities(c) = DOMAIN c /\ DOMAIN Values(c) = DOMAIN c
           /\ \A i \in DOMAIN c : Quantities(c)[i] \in Int /\ Values(c)[i] \in Int
<1>1. DOMAIN c = 1..Len(c) /\ Len(c) \in Nat
  OBVIOUS
<1>2. IsFiniteSet(DOMAIN c)
  BY <1>1, FS_Interval
<1>3. \A i \in DOMAIN c : c[i] \in CatalogRows \/ c[i] \in AnswerRows
  BY <1>1
<1>4. \A i \in DOMAIN c : Or0(c[i].qty) \in Int /\ Or0(c[i].value) \in Int
  BY <1>3 DEF CatalogRows, AnswerRows, Or0
<1>5. QED
  BY <1>1, <1>2, <1>4 DEF Quantities, Values

\* Our side: a quantity, a value and a price for every key, the last two
\* possibly missing.
LEMMA OursTyped ==
    ASSUME NEW c \in Seq(CatalogRows)
    PROVE  /\ DOMAIN FlattenOurs(c) = {RowKey(c, i) : i \in Positions(c)}
           /\ IsFiniteSet(DOMAIN FlattenOurs(c))
           /\ \A k \in DOMAIN FlattenOurs(c) :
                /\ FlattenOurs(c)[k].qty \in Int
                /\ FlattenOurs(c)[k].usd \in Int \cup {None}
                /\ FlattenOurs(c)[k].price \in Int \cup {None}
<1>1. Positions(c) \subseteq DOMAIN c /\ IsFiniteSet(DOMAIN c)
  BY ColumnsAreNumbers DEF Positions
<1>2. DOMAIN FlattenOurs(c) = {RowKey(c, i) : i \in Positions(c)}
  BY DEF FlattenOurs
<1>3. IsFiniteSet(DOMAIN FlattenOurs(c))
  <2> DEFINE keys == [i \in Positions(c) |-> RowKey(c, i)]
  <2>1. IsFiniteSet(Positions(c))
    BY <1>1, FS_Subset
  <2>2. IsFiniteSet({keys[i] : i \in Positions(c)})
    <3> HIDE DEF keys
    <3>1. QED
      BY <2>1, FiniteImage
  <2>3. {keys[i] : i \in Positions(c)} = {RowKey(c, i) : i \in Positions(c)}
    OBVIOUS
  <2>4. QED
    BY <1>2, <2>2, <2>3
<1>4. ASSUME NEW k \in DOMAIN FlattenOurs(c)
      PROVE  /\ FlattenOurs(c)[k].qty \in Int
             /\ FlattenOurs(c)[k].usd \in Int \cup {None}
             /\ FlattenOurs(c)[k].price \in Int \cup {None}
  <2> DEFINE same == {i \in Positions(c) : RowKey(c, i) = k}
             priced == {i \in same : c[i].price # None}
             valued == {i \in same : c[i].value # None}
  <2>1. FlattenOurs(c)[k] =
          [category |-> c[Min(same)].category, asset |-> c[Min(same)].asset,
           qty |-> SumFunctionOnSet(Quantities(c), same),
           usd |-> IF valued = {} THEN None ELSE SumFunctionOnSet(Values(c), valued),
           price |-> IF priced = {} THEN None ELSE c[Min(priced)].price]
    BY <1>2, <1>4 DEF FlattenOurs
  <2>2. same \subseteq DOMAIN c /\ valued \subseteq DOMAIN c /\ priced \subseteq DOMAIN c
    BY <1>1
  <2>3. IsFiniteSet(same) /\ IsFiniteSet(valued)
    <3> HIDE DEF same, priced, valued
    <3>1. QED
      BY <1>1, <2>2, FS_Subset
  <2>4. SumFunctionOnSet(Quantities(c), same) \in Int /\ SumFunctionOnSet(Values(c), valued) \in Int
    <3>1. \A i \in DOMAIN c : Quantities(c)[i] \in Int /\ Values(c)[i] \in Int
      BY ColumnsAreNumbers
    <3> HIDE DEF same, priced, valued
    <3>2. QED
      BY <2>2, <2>3, <3>1, SumType
  <2>5. ASSUME priced # {} PROVE c[Min(priced)].price \in Int
    <3>1. DOMAIN c \subseteq Nat /\ \A i \in DOMAIN c : c[i] \in CatalogRows
      OBVIOUS
    <3>2. Min(priced) \in priced
      <4> HIDE DEF same, priced
      <4>1. QED
        BY <2>2, <2>5, <3>1, MinOfNaturals
    <3>3. c[Min(priced)] \in CatalogRows /\ c[Min(priced)].price # None
      BY <2>2, <3>1, <3>2
    <3>4. QED
      BY <3>3 DEF CatalogRows
  <2> HIDE DEF same, priced, valued
  <2>6. QED
    BY <2>1, <2>4, <2>5
<1>5. QED
  BY <1>2, <1>3, <1>4

\* A bucket sums up the rows of its place, of which one is the first.
LEMMA BucketTyped ==
    ASSUME NEW raw \in Seq(AnswerRows), NEW i \in Mapped(raw)
    PROVE  /\ SamePlace(raw, i) \subseteq DOMAIN raw /\ i \in SamePlace(raw, i)
           /\ Bucket(raw, i).first \in SamePlace(raw, i)
           /\ Bucket(raw, i).qty \in Int
           /\ Bucket(raw, i).base \in Int
           /\ Bucket(raw, i).base = SumFunctionOnSet(Values(raw), SamePlace(raw, i))
<1>1. SamePlace(raw, i) \subseteq DOMAIN raw /\ i \in SamePlace(raw, i)
  BY DEF SamePlace, Mapped
<1>2. DOMAIN raw \subseteq Nat
  OBVIOUS
<1>3. Min(SamePlace(raw, i)) \in SamePlace(raw, i)
  BY <1>1, <1>2, MinOfNaturals
<1>4. IsFiniteSet(SamePlace(raw, i))
  BY <1>1, ColumnsAreNumbers, FS_Subset
<1>5. /\ SumFunctionOnSet(Quantities(raw), SamePlace(raw, i)) \in Int
      /\ SumFunctionOnSet(Values(raw), SamePlace(raw, i)) \in Int
  <2>1. \A j \in DOMAIN raw : Quantities(raw)[j] \in Int /\ Values(raw)[j] \in Int
    BY ColumnsAreNumbers
  <2>2. QED
    BY <1>1, <1>4, <2>1, SumType
<1>6. QED
  BY <1>1, <1>3, <1>5 DEF Bucket

\* Their side: of the buckets of a key there is a last one.
LEMMA LastBucketIsKept ==
    ASSUME NEW raw \in Seq(AnswerRows)
    PROVE  /\ DOMAIN FlattenNav(raw) = {BucketKey(Bucket(raw, i)) : i \in Mapped(raw)}
           /\ IsFiniteSet(DOMAIN FlattenNav(raw))
           /\ \A k \in DOMAIN FlattenNav(raw) : FlattenNav(raw)[k] \in BucketsAt(raw, k)
<1>1. DOMAIN FlattenNav(raw) = {BucketKey(Bucket(raw, i)) : i \in Mapped(raw)}
  BY DEF FlattenNav, RollupByAsset
<1>2. IsFiniteSet(DOMAIN FlattenNav(raw))
  <2> DEFINE keys == [i \in Mapped(raw) |-> BucketKey(Bucket(raw, i))]
  <2>1. IsFiniteSet(Mapped(raw))
    BY ColumnsAreNumbers, FS_Subset DEF Mapped
  <2>2. IsFiniteSet({keys[i] : i \in Mapped(raw)})
    <3> HIDE DEF keys
    <3>1. QED
      BY <2>1, FiniteImage
  <2>3. {keys[i] : i \in Mapped(raw)} = {BucketKey(Bucket(raw, i)) : i \in Mapped(raw)}
    OBVIOUS
  <2>4. QED
    BY <1>1, <2>2, <2>3
<1>3. ASSUME NEW k \in DOMAIN FlattenNav(raw)
      PROVE  FlattenNav(raw)[k] \in BucketsAt(raw, k)
  <2> DEFINE Later == {Len(raw) - b.first : b \in BucketsAt(raw, k)}
  <2>1. \A b \in BucketsAt(raw, k) : b.first \in 1..Len(raw)
    <3>1. \A b \in BucketsAt(raw, k) : \E i \in Mapped(raw) : b = Bucket(raw, i)
      BY DEF BucketsAt, RollupByAsset
    <3>2. DOMAIN raw = 1..Len(raw)
      OBVIOUS
    <3>3. QED
      BY <3>1, <3>2, BucketTyped
  <2>2. BucketsAt(raw, k) # {}
    BY <1>1, <1>3 DEF BucketsAt, RollupByAsset
  <2>3. Later \subseteq Nat /\ Later # {}
    BY <2>1, <2>2
  <2>4. Min(Later) \in Later /\ \A y \in Later : Min(Later) <= y
    <3> HIDE DEF Later
    <3>1. QED
      BY <2>3, MinOfNaturals
  <2>5. PICK b \in BucketsAt(raw, k) : Min(Later) = Len(raw) - b.first
    BY <2>4
  <2>6. \A other \in BucketsAt(raw, k) : other.first <= b.first
    <3>1. TAKE other \in BucketsAt(raw, k)
    <3>2. Len(raw) - b.first <= Len(raw) - other.first
      BY <2>4, <2>5
    <3>3. QED
      BY <2>1, <3>2
  <2>7. FlattenNav(raw)[k] = CHOOSE x \in BucketsAt(raw, k) :
                               \A other \in BucketsAt(raw, k) : other.first <= x.first
    BY <1>3 DEF FlattenNav
  <2>8. QED
    BY <2>5, <2>6, <2>7
<1>4. QED
  BY <1>1, <1>2, <1>3

\* A row of theirs has numbers.
LEMMA TheirsTyped ==
    ASSUME NEW raw \in Seq(AnswerRows), NEW k \in DOMAIN FlattenNav(raw)
    PROVE  FlattenNav(raw)[k].qty \in Int /\ FlattenNav(raw)[k].base \in Int
<1>1. PICK i \in Mapped(raw) : FlattenNav(raw)[k] = Bucket(raw, i)
  BY LastBucketIsKept DEF BucketsAt, RollupByAsset
<1>2. QED
  BY <1>1, BucketTyped

-----------------------------------------------------------------------------
(* A row of the comparison. *)

\* Both sides have a value or none, and so has the difference.
LEMMA RowTyped ==
    ASSUME NEW c \in Seq(CatalogRows), NEW raw \in Seq(AnswerRows), NEW base \in Int,
           NEW k \in DOMAIN ReconcileSegment(c, raw, base)
    PROVE  LET ours == FlattenOurs(c)
               navs == FlattenNav(raw)
           IN /\ ReconcileSegment(c, raw, base)[k] = RowOf(ours, navs, k, base)
              /\ k \in DOMAIN ours \cup DOMAIN navs
              /\ Or0(OurUsd(ours, k)) \in Int
              /\ Or0(NavUsd(ours, navs, k, base)) \in Int
              /\ ReconcileSegment(c, raw, base)[k].diffUsd \in Int
<1> DEFINE ours == FlattenOurs(c)
           navs == FlattenNav(raw)
<1>1. ReconcileSegment(c, raw, base)[k] = RowOf(ours, navs, k, base)
      /\ k \in DOMAIN ours \cup DOMAIN navs
  BY DEF ReconcileSegment
<1>2. k \in DOMAIN ours => /\ ours[k].usd \in Int \cup {None}
                           /\ ours[k].price \in Int \cup {None}
  BY OursTyped
<1>3. k \in DOMAIN navs => navs[k].qty \in Int /\ navs[k].base \in Int
  BY TheirsTyped
<1> HIDE DEF ours, navs
<1>4. Or0(OurUsd(ours, k)) \in Int
  BY <1>2 DEF OurUsd, Or0
<1>5. NavUsd(ours, navs, k, base) \in Int \cup {None}
  <2>1. CASE k \notin DOMAIN navs
    BY <2>1 DEF NavUsd
  <2>2. CASE k \in DOMAIN navs /\ k \in DOMAIN ours /\ Or0(ours[k].price) # 0
    <3>1. ours[k].price \in Int
      BY <1>2, <2>2 DEF Or0
    <3>2. NavUsd(ours, navs, k, base) = navs[k].qty * ours[k].price
      BY <2>2 DEF NavUsd
    <3>3. QED
      BY <1>3, <2>2, <3>1, <3>2
  <2>3. CASE k \in DOMAIN navs /\ ~(k \in DOMAIN ours /\ Or0(ours[k].price) # 0)
    <3>1. NavUsd(ours, navs, k, base) = navs[k].base * base
      BY <2>3 DEF NavUsd
    <3>2. QED
      BY <1>3, <2>3, <3>1
  <2>4. QED
    BY <2>1, <2>2, <2>3
<1>6. Or0(NavUsd(ours, navs, k, base)) \in Int
  BY <1>5 DEF Or0
<1>7. RowOf(ours, navs, k, base).diffUsd
        = Or0(OurUsd(ours, k)) - Or0(NavUsd(ours, navs, k, base))
  BY DEF RowOf
<1>8. ReconcileSegment(c, raw, base)[k].diffUsd \in Int
  BY <1>1, <1>4, <1>6, <1>7
<1>9. QED
  BY <1>1, <1>4, <1>6, <1>8 DEF ours, navs

\* A comparison has finitely many rows.
LEMMA FinitelyManyRows ==
    ASSUME NEW c \in Seq(CatalogRows), NEW raw \in Seq(AnswerRows), NEW base
    PROVE  IsFiniteSet(DOMAIN ReconcileSegment(c, raw, base))
<1>1. IsFiniteSet(DOMAIN FlattenOurs(c)) /\ IsFiniteSet(DOMAIN FlattenNav(raw))
  BY OursTyped, LastBucketIsKept
<1>2. IsFiniteSet(DOMAIN FlattenOurs(c) \cup DOMAIN FlattenNav(raw))
  BY <1>1, FS_Union
<1>3. QED
  BY <1>2 DEF ReconcileSegment

\* Equal quantities at our price have equal values.
LEMMA EqualQuantitiesAreNoBreak ==
    ASSUME NEW c \in Seq(CatalogRows), NEW raw \in Seq(AnswerRows), NEW base \in Int,
           NEW k \in DOMAIN ReconcileSegment(c, raw, base),
           ReconcileSegment(c, raw, base)[k].diffQty = 0,
           Or0(FlattenOurs(c)[k].price) # 0,
           FlattenOurs(c)[k].usd = FlattenOurs(c)[k].qty * FlattenOurs(c)[k].price
    PROVE  /\ ReconcileSegment(c, raw, base)[k].diffUsd = 0
           /\ ~ReconcileSegment(c, raw, base)[k].flagged
<1> DEFINE ours == FlattenOurs(c)
           navs == FlattenNav(raw)
           row == ReconcileSegment(c, raw, base)[k]
<1>1. row = RowOf(ours, navs, k, base)
  BY RowTyped
<1>2. k \in DOMAIN ours /\ k \in DOMAIN navs
  <2>1. None # 0
    BY ReconAssumption
  <2>2. row.diffQty = IF k \in DOMAIN ours \cap DOMAIN navs THEN ours[k].qty - navs[k].qty ELSE None
    <3> HIDE DEF ours, navs, row
    <3>1. QED
      BY <1>1 DEF RowOf
  <2>3. QED
    BY <2>1, <2>2
<1>3. /\ ours[k].qty \in Int /\ ours[k].price \in Int \cup {None}
      /\ navs[k].qty \in Int
  BY <1>2, OursTyped, TheirsTyped
<1>4. ours[k].qty - navs[k].qty = 0
  <2> HIDE DEF ours, navs
  <2>1. row.diffQty = ours[k].qty - navs[k].qty
    <3> HIDE DEF row
    <3>1. QED
      BY <1>1, <1>2 DEF RowOf
  <2>2. QED
    BY <2>1
<1>5. Or0(ours[k].price) # 0 /\ ours[k].usd = ours[k].qty * ours[k].price
  OBVIOUS
<1> HIDE DEF ours, navs, row
<1>6. ours[k].qty = navs[k].qty
  BY <1>3, <1>4
<1>7. ours[k].price \in Int
  BY <1>3, <1>5 DEF Or0
<1>8. OurUsd(ours, k) = ours[k].qty * ours[k].price
  BY <1>2, <1>5 DEF OurUsd
<1>9. NavUsd(ours, navs, k, base) = ours[k].qty * ours[k].price
  BY <1>2, <1>5, <1>6 DEF NavUsd
<1>10. ours[k].qty * ours[k].price \in Int
  BY <1>3, <1>7
<1>11. Or0(OurUsd(ours, k)) - Or0(NavUsd(ours, navs, k, base)) = 0
  BY <1>8, <1>9, <1>10 DEF Or0
<1>12. ~(Mag(0) > Threshold)
  BY DEF Mag, Threshold
<1>13. /\ row.diffUsd = Or0(OurUsd(ours, k)) - Or0(NavUsd(ours, navs, k, base))
       /\ row.flagged = (~Structural(ours, navs, k)
                          /\ Mag(Or0(OurUsd(ours, k)) - Or0(NavUsd(ours, navs, k, base))) > Threshold)
  BY <1>1 DEF RowOf
<1>14. row.diffUsd = 0 /\ ~row.flagged
  BY <1>11, <1>12, <1>13
<1>15. QED
  BY <1>14 DEF row

-----------------------------------------------------------------------------
(* The lines of a segment. *)

\* What has no value counts for nothing; what is listed is theirs alone.
LEMMA TheirsAlone ==
    ASSUME NEW c \in Seq(CatalogRows), NEW raw \in Seq(AnswerRows), NEW base \in Int,
           NEW k \in DOMAIN ReconcileSegment(c, raw, base)
    PROVE  LET row == ReconcileSegment(c, raw, base)[k]
           IN /\ row.navBase = IF k \in DOMAIN FlattenNav(raw) THEN FlattenNav(raw)[k].base ELSE None
              /\ Listed(row) => k \notin DOMAIN FlattenOurs(c)
              /\ k \notin DOMAIN FlattenOurs(c) /\ ~Listed(row)
                   => ~row.flagged /\ row.diffUsd = 0 /\ FlattenNav(raw)[k].base = 0
<1> DEFINE ours == FlattenOurs(c)
           navs == FlattenNav(raw)
           row == ReconcileSegment(c, raw, base)[k]
<1>1. row = RowOf(ours, navs, k, base) /\ k \in DOMAIN ours \cup DOMAIN navs
  BY RowTyped
<1>2. k \in DOMAIN navs => navs[k].qty \in Int /\ navs[k].base \in Int
  BY TheirsTyped
<1> HIDE DEF ours, navs, row
<1>3. /\ row.navBase = IF k \in DOMAIN navs THEN navs[k].base ELSE None
      /\ row.navQty = IF k \in DOMAIN navs THEN navs[k].qty ELSE None
      /\ row.presence = IF k \in DOMAIN ours \cap DOMAIN navs THEN "both"
                        ELSE IF k \in DOMAIN ours THEN "ours only" ELSE "NAV only"
  BY <1>1 DEF RowOf
<1>4. row.diffUsd = Or0(OurUsd(ours, k)) - Or0(NavUsd(ours, navs, k, base))
  BY <1>1 DEF RowOf
<1>5. Listed(row) => k \notin DOMAIN ours
  BY <1>3 DEF Listed
<1>6. ASSUME k \notin DOMAIN ours, ~Listed(row)
      PROVE  ~row.flagged /\ row.diffUsd = 0 /\ navs[k].base = 0
  <2>1. k \in DOMAIN navs
    BY <1>1, <1>6
  <2>2. ~row.flagged /\ Or0(row.navBase) = 0
    BY <1>3, <1>6 DEF Listed
  <2>3. navs[k].base \in Int /\ navs[k].base # None
    BY <1>2, <2>1, ReconAssumption
  <2>4. navs[k].base = 0
    BY <1>3, <2>1, <2>2, <2>3 DEF Or0
  <2>5. NavUsd(ours, navs, k, base) = navs[k].base * base /\ OurUsd(ours, k) = None
    BY <1>6, <2>1 DEF NavUsd, OurUsd
  <2>6. navs[k].base * base = 0
    BY <2>4
  <2>7. row.diffUsd = 0
    <3>1. Or0(OurUsd(ours, k)) = 0 /\ Or0(NavUsd(ours, navs, k, base)) = 0
      BY <2>5, <2>6 DEF Or0
    <3>2. QED
      BY <1>4, <3>1
  <2>8. QED
    BY <2>2, <2>4, <2>7
<1>7. QED
  BY <1>3, <1>5, <1>6 DEF ours, navs, row

\* Where the lines of two sequences end up in their concatenation.
LEMMA TwoParts ==
    ASSUME NEW X, NEW a \in Seq(X), NEW b \in Seq(X), NEW all, all = a \o b
    PROVE  /\ all \in Seq(X) /\ Len(all) = Len(a) + Len(b)
           /\ Len(a) \in Nat /\ Len(b) \in Nat
           /\ \A i \in 1..Len(a) : all[i] = a[i]
           /\ \A i \in 1..Len(b) : all[Len(a) + i] = b[i]
<1>1. all \in Seq(X) /\ Len(all) = Len(a) + Len(b) /\ Len(a) \in Nat /\ Len(b) \in Nat
  OBVIOUS
<1>2. \A i \in 1..Len(a) : all[i] = a[i]
  OBVIOUS
<1>3. ASSUME NEW i \in 1..Len(b) PROVE all[Len(a) + i] = b[i]
  <2>1. Len(a) + i \in 1..(Len(a) + Len(b)) /\ Len(a) + i > Len(a) /\ Len(a) + i - Len(a) = i
    BY <1>1
  <2>2. QED
    BY <1>1, <2>1
<1>4. QED
  BY <1>1, <1>2, <1>3

\* The places of the sections of a segment's lines.
ListedFrom(c) == Len(c) + 1
UnmappedFrom(c, rows) == Len(c) + 1 + Len(SetToSeq(ListedKeys(rows)))

\* A segment's lines: its rows, the footer, what is theirs alone, and the
\* accounts not mapped (SegmentLines).
LEMMA LinesInOrder ==
    ASSUME NEW c \in Seq(CatalogRows), c # << >>, NEW raw \in Seq(AnswerRows),
           NEW rows, rows # None, IsFiniteSet(DOMAIN rows)
    PROVE  LET block == SegmentLines(c, raw, rows)
               keys == SetToSeq(ListedKeys(rows))
               left == SetToSeq(Unmapped(raw))
           IN /\ DOMAIN block = 1..(UnmappedFrom(c, rows) + Len(left))
              /\ Len(c) \in Nat /\ Len(keys) \in Nat /\ Len(left) \in Nat
              /\ \A i \in 1..Len(c) : block[i] = CatalogLine(c, i, rows)
              /\ block[Len(c) + 1] = FooterLine(raw, rows)
              /\ \A i \in 1..Len(keys) :
                   block[ListedFrom(c) + i] = ReconCells("navonly", rows[keys[i]])
              /\ \A i \in 1..Len(left) :
                   block[UnmappedFrom(c, rows) + i]
                     = [Line("unmapped") EXCEPT !.nav = raw[left[i]].value]
<1> DEFINE keys == SetToSeq(ListedKeys(rows))
           left == SetToSeq(Unmapped(raw))
           a == [i \in DOMAIN c |-> CatalogLine(c, i, rows)]
           f == FooterLine(raw, rows)
           b == NavOnlyLines(rows)
           d == UnmappedLines(raw)
           X == {a[i] : i \in DOMAIN a} \cup {f} \cup {b[i] : i \in DOMAIN b} \cup {d[i] : i \in DOMAIN d}
<1>1. IsFiniteSet(ListedKeys(rows)) /\ IsFiniteSet(Unmapped(raw))
  <2>1. ListedKeys(rows) \subseteq DOMAIN rows /\ Unmapped(raw) \subseteq DOMAIN raw
    BY DEF ListedKeys, Unmapped
  <2>2. IsFiniteSet(DOMAIN raw)
    BY ColumnsAreNumbers
  <2>3. QED
    BY <2>1, <2>2, FS_Subset
<1>2. keys \in Seq(ListedKeys(rows)) /\ left \in Seq(Unmapped(raw))
  BY <1>1, ListingIsOneToOne
<1>3. /\ DOMAIN a = 1..Len(c) /\ Len(c) \in Nat
      /\ DOMAIN b = 1..Len(keys) /\ Len(keys) \in Nat
      /\ DOMAIN d = 1..Len(left) /\ Len(left) \in Nat
  <2>1. DOMAIN c = 1..Len(c) /\ Len(c) \in Nat
    OBVIOUS
  <2>2. DOMAIN keys = 1..Len(keys) /\ Len(keys) \in Nat
    BY <1>2
  <2>3. DOMAIN left = 1..Len(left) /\ Len(left) \in Nat
    BY <1>2
  <2>4. DOMAIN b = DOMAIN keys /\ DOMAIN d = DOMAIN left
    BY DEF NavOnlyLines, UnmappedLines
  <2>5. QED
    BY <2>1, <2>2, <2>3, <2>4
<1>4. /\ \A i \in 1..Len(c) : a[i] = CatalogLine(c, i, rows)
      /\ \A i \in 1..Len(keys) : b[i] = ReconCells("navonly", rows[keys[i]])
      /\ \A i \in 1..Len(left) : d[i] = [Line("unmapped") EXCEPT !.nav = raw[left[i]].value]
  BY <1>3 DEF NavOnlyLines, UnmappedLines
<1>5. /\ a = [i \in 1..Len(c) |-> a[i]]
      /\ b = [i \in 1..Len(keys) |-> b[i]]
      /\ d = [i \in 1..Len(left) |-> d[i]]
  BY <1>3 DEF NavOnlyLines, UnmappedLines
<1>6. SegmentLines(c, raw, rows) = a \o <<f>> \o b \o d
  BY DEF SegmentLines
<1> HIDE DEF a, b, d, f, keys, left
<1>7. /\ a \in Seq(X) /\ Len(a) = Len(c)
      /\ b \in Seq(X) /\ Len(b) = Len(keys)
      /\ d \in Seq(X) /\ Len(d) = Len(left)
      /\ f \in X
  BY <1>3, <1>5
<1> HIDE DEF X
<1> DEFINE one == a \o <<f>>
           two == one \o b
           all == two \o d
<1>8. /\ one \in Seq(X) /\ Len(one) = Len(c) + 1
      /\ \A i \in 1..Len(c) : one[i] = a[i]
      /\ one[Len(c) + 1] = f
  BY <1>7
<1>9. /\ two \in Seq(X) /\ Len(two) = Len(c) + 1 + Len(keys)
      /\ \A i \in 1..Len(c) + 1 : two[i] = one[i]
      /\ \A i \in 1..Len(keys) : two[Len(c) + 1 + i] = b[i]
  <2> HIDE DEF one
  <2>1. one \in Seq(X) /\ b \in Seq(X)
    BY <1>7, <1>8
  <2>2. /\ two \in Seq(X) /\ Len(two) = Len(one) + Len(b)
        /\ \A i \in 1..Len(one) : two[i] = one[i]
        /\ \A i \in 1..Len(b) : two[Len(one) + i] = b[i]
    BY <2>1, TwoParts
  <2> HIDE DEF two
  <2>3. QED
    BY <1>7, <1>8, <2>2
<1>10. /\ all \in Seq(X) /\ Len(all) = Len(c) + 1 + Len(keys) + Len(left)
       /\ \A i \in 1..Len(c) + 1 + Len(keys) : all[i] = two[i]
       /\ \A i \in 1..Len(left) : all[Len(c) + 1 + Len(keys) + i] = d[i]
  <2> HIDE DEF one, two
  <2>1. two \in Seq(X) /\ d \in Seq(X)
    BY <1>7, <1>9
  <2>2. /\ all \in Seq(X) /\ Len(all) = Len(two) + Len(d)
        /\ \A i \in 1..Len(two) : all[i] = two[i]
        /\ \A i \in 1..Len(d) : all[Len(two) + i] = d[i]
    BY <2>1, TwoParts
  <2> HIDE DEF all
  <2>3. QED
    BY <1>7, <1>9, <2>2
<1> HIDE DEF one, two, all
<1>11. ListedFrom(c) = Len(c) + 1 /\ UnmappedFrom(c, rows) = Len(c) + 1 + Len(keys)
  BY DEF ListedFrom, UnmappedFrom, keys
<1>12. SegmentLines(c, raw, rows) = all
  BY <1>6 DEF one, two, all
<1>13. DOMAIN all = 1..(UnmappedFrom(c, rows) + Len(left))
  BY <1>10, <1>11
<1>14. \A i \in 1..Len(c) : all[i] = CatalogLine(c, i, rows)
  BY <1>3, <1>4, <1>8, <1>9, <1>10
<1>15. all[Len(c) + 1] = f
  <2>1. Len(c) + 1 \in 1..Len(c) + 1 /\ Len(c) + 1 \in 1..Len(c) + 1 + Len(keys)
    BY <1>3
  <2>2. QED
    BY <1>8, <1>9, <1>10, <2>1
<1>16. \A i \in 1..Len(keys) : all[ListedFrom(c) + i] = ReconCells("navonly", rows[keys[i]])
  <2>1. ASSUME NEW i \in 1..Len(keys) PROVE all[Len(c) + 1 + i] = b[i]
    <3>1. Len(c) + 1 + i \in 1..Len(c) + 1 + Len(keys)
      BY <1>3
    <3>2. QED
      BY <1>9, <1>10, <3>1
  <2>2. QED
    BY <1>4, <1>11, <2>1
<1>17. \A i \in 1..Len(left) : all[UnmappedFrom(c, rows) + i]
                                 = [Line("unmapped") EXCEPT !.nav = raw[left[i]].value]
  BY <1>4, <1>10, <1>11
<1>18. QED
  BY <1>3, <1>12, <1>13, <1>14, <1>15, <1>16, <1>17 DEF f, keys, left

-----------------------------------------------------------------------------
(* The line of a key. *)

\* The rows of ours that show a key, and its place among those of theirs alone.
RowLines(c, k) == {i \in DOMAIN c : c[i].kind = "asset" /\ RowKey(c, i) = k}
ListedPlace(rows, k) == CHOOSE i \in DOMAIN SetToSeq(ListedKeys(rows)) : SetToSeq(ListedKeys(rows))[i] = k

\* The line that shows a key; 0 for none.
KeyLine(c, rows, k) ==
    IF RowLines(c, k) # {} THEN CHOOSE i \in RowLines(c, k) : TRUE
    ELSE IF k \in ListedKeys(rows) THEN ListedFrom(c) + ListedPlace(rows, k)
    ELSE 0

\* Without twins a key has one line and a line one key.
LEMMA KeyLinesAreApart ==
    ASSUME NEW c \in Seq(CatalogRows), NEW raw \in Seq(AnswerRows), NEW base \in Int,
           NEW rows, rows = ReconcileSegment(c, raw, base), ~Twins(c)
    PROVE  LET keys == SetToSeq(ListedKeys(rows))
           IN /\ Len(keys) \in Nat
              /\ \A i \in 1..Len(keys) : keys[i] \in ListedKeys(rows)
              /\ \A k \in DOMAIN rows : KeyLine(c, rows, k) \in 0..UnmappedFrom(c, rows)
              /\ \A i \in 1..Len(c) : c[i].kind = "asset" =>
                   /\ RowKey(c, i) \in DOMAIN rows
                   /\ \A k \in DOMAIN rows : KeyLine(c, rows, k) = i <=> k = RowKey(c, i)
              /\ \A i \in 1..Len(c) : c[i].kind # "asset" =>
                   \A k \in DOMAIN rows : KeyLine(c, rows, k) # i
              /\ \A k \in DOMAIN rows : KeyLine(c, rows, k) # Len(c) + 1
              /\ \A i \in 1..Len(keys) :
                   \A k \in DOMAIN rows : KeyLine(c, rows, k) = ListedFrom(c) + i <=> k = keys[i]
              /\ \A k \in DOMAIN rows :
                   KeyLine(c, rows, k) = 0 => RowLines(c, k) = {} /\ k \notin ListedKeys(rows)
<1> DEFINE keys == SetToSeq(ListedKeys(rows))
<1>1. DOMAIN c = 1..Len(c) /\ Len(c) \in Nat
  OBVIOUS
<1>2. IsFiniteSet(ListedKeys(rows))
  BY FinitelyManyRows, FS_Subset DEF ListedKeys
<1>3. /\ keys \in Seq(ListedKeys(rows))
      /\ \A k \in ListedKeys(rows) : \E i \in DOMAIN keys : keys[i] = k
      /\ \A i, j \in DOMAIN keys : keys[i] = keys[j] => i = j
  BY <1>2, ListingIsOneToOne
<1>4. \A k \in ListedKeys(rows) : ListedPlace(rows, k) \in DOMAIN keys /\ keys[ListedPlace(rows, k)] = k
  BY <1>3 DEF ListedPlace
<1>5. ListedFrom(c) = Len(c) + 1 /\ UnmappedFrom(c, rows) = Len(c) + 1 + Len(keys)
  BY DEF ListedFrom, UnmappedFrom
<1>6. DOMAIN FlattenOurs(c) \subseteq DOMAIN rows
  BY DEF ReconcileSegment
<1>7. \A i \in DOMAIN c : c[i].kind = "asset" => i \in Positions(c) /\ RowKey(c, i) \in DOMAIN FlattenOurs(c)
  BY OursTyped DEF Positions
<1>8. \A k \in ListedKeys(rows) : k \in DOMAIN rows /\ k \notin DOMAIN FlattenOurs(c)
  BY TheirsAlone DEF ListedKeys
<1>9. \A k \in ListedKeys(rows) : RowLines(c, k) = {}
  BY <1>7, <1>8 DEF RowLines
<1>10. \A i \in DOMAIN c : c[i].kind = "asset" => RowLines(c, RowKey(c, i)) = {i}
  BY <1>7 DEF RowLines, Twins
<1> HIDE DEF keys
<1>11. DOMAIN keys = 1..Len(keys) /\ Len(keys) \in Nat /\ \A i \in 1..Len(keys) : keys[i] \in ListedKeys(rows)
  BY <1>3
<1>12. \A k : \/ RowLines(c, k) # {} /\ KeyLine(c, rows, k) \in RowLines(c, k)
              \/ /\ RowLines(c, k) = {} /\ k \in ListedKeys(rows)
                 /\ KeyLine(c, rows, k) = Len(c) + 1 + ListedPlace(rows, k)
                 /\ ListedPlace(rows, k) \in 1..Len(keys)
              \/ RowLines(c, k) = {} /\ k \notin ListedKeys(rows) /\ KeyLine(c, rows, k) = 0
  BY <1>4, <1>5, <1>11 DEF KeyLine
<1>13. \A k : RowLines(c, k) \subseteq 1..Len(c)
  BY <1>1 DEF RowLines
<1>14. \A k \in DOMAIN rows : KeyLine(c, rows, k) \in 0..UnmappedFrom(c, rows)
  BY <1>1, <1>5, <1>11, <1>12, <1>13
<1>15. ASSUME NEW i \in 1..Len(c), c[i].kind = "asset"
       PROVE  /\ RowKey(c, i) \in DOMAIN rows
              /\ \A k \in DOMAIN rows : KeyLine(c, rows, k) = i <=> k = RowKey(c, i)
  <2>1. RowKey(c, i) \in DOMAIN rows
    BY <1>1, <1>6, <1>7, <1>15
  <2>2. KeyLine(c, rows, RowKey(c, i)) = i
    BY <1>1, <1>10, <1>12, <1>15
  <2>3. ASSUME NEW k \in DOMAIN rows, KeyLine(c, rows, k) = i
        PROVE  k = RowKey(c, i)
    <3>1. i \in RowLines(c, k)
      BY <1>1, <1>11, <1>12, <2>3
    <3>2. QED
      BY <3>1 DEF RowLines
  <2>4. QED
    BY <2>1, <2>2, <2>3
<1>16. ASSUME NEW i \in 1..Len(c), c[i].kind # "asset", NEW k \in DOMAIN rows
       PROVE  KeyLine(c, rows, k) # i
  <2>1. i \notin RowLines(c, k)
    BY <1>16 DEF RowLines
  <2>2. QED
    BY <1>1, <1>11, <1>12, <2>1
<1>17. \A k \in DOMAIN rows : KeyLine(c, rows, k) # Len(c) + 1
  BY <1>1, <1>11, <1>12, <1>13
<1>18. ASSUME NEW i \in 1..Len(keys), NEW k \in DOMAIN rows
       PROVE  KeyLine(c, rows, k) = ListedFrom(c) + i <=> k = keys[i]
  <2>1. ASSUME k = keys[i] PROVE KeyLine(c, rows, k) = ListedFrom(c) + i
    <3>1. k \in ListedKeys(rows)
      BY <1>11, <2>1
    <3>2. ListedPlace(rows, k) = i
      <4>1. ListedPlace(rows, k) \in DOMAIN keys /\ keys[ListedPlace(rows, k)] = keys[i]
        BY <1>4, <2>1, <3>1
      <4>2. QED
        BY <1>3, <1>11, <4>1
    <3>3. QED
      BY <1>5, <1>9, <1>12, <3>1, <3>2
  <2>2. ASSUME KeyLine(c, rows, k) = ListedFrom(c) + i PROVE k = keys[i]
    <3>1. k \in ListedKeys(rows) /\ ListedPlace(rows, k) = i
      BY <1>1, <1>5, <1>11, <1>12, <1>13, <2>2
    <3>2. QED
      BY <1>4, <3>1
  <2>3. QED
    BY <2>1, <2>2
<1>19. \A k \in DOMAIN rows :
         KeyLine(c, rows, k) = 0 => RowLines(c, k) = {} /\ k \notin ListedKeys(rows)
  BY <1>1, <1>11, <1>12, <1>13
<1>20. QED
  BY <1>11, <1>14, <1>15, <1>16, <1>17, <1>18, <1>19 DEF keys

-----------------------------------------------------------------------------
(* Adding up lines. *)

\* The items on a line.
OnLine(S, line, l) == {i \in S : line[i] = l}

\* Every line from 1 on holds the sum of its items, and no other item counts.
LineByLine(f, S, line, low, lines, column) ==
    /\ IsFiniteSet(S) /\ \A i \in S : f[i] \in Int
    /\ low \in Int /\ low <= 0 /\ lines \in Nat
    /\ \A i \in S : line[i] \in low..lines
    /\ \A l \in 1..lines : column[l] = SumFunctionOnSet(f, OnLine(S, line, l))
    /\ \A l \in low..0 : SumFunctionOnSet(f, OnLine(S, line, l)) = 0

\* Then the column adds up to all items.
LEMMA SumLineByLine ==
    ASSUME NEW f, NEW S, NEW line, NEW low, NEW lines, NEW column,
           LineByLine(f, S, line, low, lines, column)
    PROVE  SumFunctionOnSet(column, 1..lines) = SumFunctionOnSet(f, S)
<1> DEFINE K == low..lines
           part == [l \in K |-> OnLine(S, line, l)]
           sums == [l \in K |-> SumFunctionOnSet(f, part[l])]
<1> USE DEF LineByLine
<1>1. IsFiniteSet(K) /\ IsFiniteSet(1..lines) /\ \A i \in S : line[i] \in K
  BY FS_Interval
<1>2. 1..lines \subseteq K /\ \A l \in K : l \in 1..lines \/ l \in low..0
  OBVIOUS
<1>3. \A l \in K : /\ sums[l] = SumFunctionOnSet(f, part[l])
                   /\ sums[l] = SumFunctionOnSet(f, OnLine(S, line, l))
                   /\ part[l] \subseteq S /\ \A i \in S : i \in part[l] <=> line[i] = l
  BY DEF OnLine
<1> HIDE DEF K, part, sums
<1>4. SumFunctionOnSet(sums, K) = SumFunctionOnSet(f, S)
  <2>1. KeyedSums(f, S, line, K, part, sums)
    BY <1>1, <1>3 DEF KeyedSums
  <2>2. QED
    BY <2>1, SumByPart
<1>5. \A l \in K : sums[l] \in Int
  <2>1. TAKE l \in K
  <2>2. IsFiniteSet(part[l]) /\ \A i \in part[l] : f[i] \in Int
    BY <1>3, FS_Subset
  <2>3. SumFunctionOnSet(f, part[l]) \in Int
    BY <2>2, SumType
  <2>4. QED
    BY <1>3, <2>3
<1>6. \A l \in K \ (1..lines) : sums[l] = 0
  BY <1>2, <1>3
<1>7. SumFunctionOnSet(sums, K) = SumFunctionOnSet(sums, 1..lines)
  BY <1>1, <1>2, <1>5, <1>6, SumOfTheRest
<1>8. \A l \in 1..lines : sums[l] = column[l]
  BY <1>2, <1>3
<1>9. SumFunctionOnSet(sums, 1..lines) = SumFunctionOnSet(column, 1..lines)
  BY <1>1, <1>8, SumAgrees
<1>10. QED
  BY <1>4, <1>7, <1>9

\* What stands in the cells of the lines.
LEMMA CellsOfLines ==
    ASSUME NEW c \in Seq(CatalogRows), c # << >>, NEW raw \in Seq(AnswerRows), NEW base \in Int,
           NEW rows, rows = ReconcileSegment(c, raw, base), rows # None
    PROVE  LET block == SegmentLines(c, raw, rows)
               keys == SetToSeq(ListedKeys(rows))
               left == SetToSeq(Unmapped(raw))
               nav == NavColumn(block)
               diff == DiffColumn(block)
           IN /\ DOMAIN block = 1..(UnmappedFrom(c, rows) + Len(left))
              /\ DOMAIN nav = DOMAIN block /\ DOMAIN diff = DOMAIN block
              /\ Len(c) \in Nat /\ Len(keys) \in Nat /\ Len(left) \in Nat
              /\ \A i \in 1..Len(c) : c[i].kind = "asset" =>
                   /\ nav[i] = Or0(rows[RowKey(c, i)].navBase)
                   /\ diff[i] = rows[RowKey(c, i)].diffUsd
                   /\ block[i].flag = "BREAK" <=> rows[RowKey(c, i)].flagged
              /\ \A i \in 1..Len(c) : c[i].kind # "asset" =>
                   nav[i] = 0 /\ diff[i] = 0 /\ block[i].flag # "BREAK"
              /\ LET i == Len(c) + 1 IN nav[i] = 0 /\ diff[i] = 0 /\ block[i].flag # "BREAK"
              /\ \A i \in 1..Len(keys) : LET at == ListedFrom(c) + i IN
                   /\ nav[at] = Or0(rows[keys[i]].navBase)
                   /\ diff[at] = rows[keys[i]].diffUsd
                   /\ block[at].flag = "BREAK" <=> rows[keys[i]].flagged
              /\ \A i \in 1..Len(left) : LET at == UnmappedFrom(c, rows) + i IN
                   nav[at] = Values(raw)[left[i]] /\ diff[at] = 0 /\ block[at].flag # "BREAK"
<1> DEFINE block == SegmentLines(c, raw, rows)
           keys == SetToSeq(ListedKeys(rows))
           left == SetToSeq(Unmapped(raw))
           nav == NavColumn(block)
           diff == DiffColumn(block)
<1>1. None # "BREAK" /\ None \notin Int
  BY ReconAssumption
<1>2. /\ DOMAIN block = 1..(UnmappedFrom(c, rows) + Len(left))
      /\ Len(c) \in Nat /\ Len(keys) \in Nat /\ Len(left) \in Nat
      /\ \A i \in 1..Len(c) : block[i] = CatalogLine(c, i, rows)
      /\ block[Len(c) + 1] = FooterLine(raw, rows)
      /\ \A i \in 1..Len(keys) : block[ListedFrom(c) + i] = ReconCells("navonly", rows[keys[i]])
      /\ \A i \in 1..Len(left) :
           block[UnmappedFrom(c, rows) + i] = [Line("unmapped") EXCEPT !.nav = raw[left[i]].value]
  BY FinitelyManyRows, LinesInOrder
<1>3. keys \in Seq(ListedKeys(rows)) /\ left \in Seq(Unmapped(raw))
  <2>1. ListedKeys(rows) \subseteq DOMAIN rows /\ Unmapped(raw) \subseteq DOMAIN raw
    BY DEF ListedKeys, Unmapped
  <2>2. IsFiniteSet(DOMAIN raw) /\ IsFiniteSet(DOMAIN rows)
    BY ColumnsAreNumbers, FinitelyManyRows
  <2>3. IsFiniteSet(ListedKeys(rows)) /\ IsFiniteSet(Unmapped(raw))
    BY <2>1, <2>2, FS_Subset
  <2>4. QED
    BY <2>3, ListingIsOneToOne
<1>4. \A i \in 1..Len(keys) : keys[i] \in DOMAIN rows
  BY <1>3 DEF ListedKeys
<1>5. \A i \in 1..Len(left) : left[i] \in DOMAIN raw
  BY <1>3 DEF Unmapped
<1>6. \A i \in 1..Len(c) : c[i].kind = "asset" => RowKey(c, i) \in DOMAIN rows
  <2>1. \A i \in 1..Len(c) : c[i].kind = "asset" => i \in Positions(c)
    BY DEF Positions
  <2>2. QED
    BY <2>1, OursTyped DEF ReconcileSegment
<1>7. \A k \in DOMAIN rows : rows[k].diffUsd \in Int
  BY RowTyped
<1>8. \A i \in 1..Len(c) : c[i].kind # "footer"
  <2>1. \A i \in 1..Len(c) : c[i] \in CatalogRows
    OBVIOUS
  <2>2. QED
    BY <2>1 DEF CatalogRows, Kinds
<1> HIDE DEF block, keys, left
<1>9. DOMAIN nav = DOMAIN block /\ DOMAIN diff = DOMAIN block
  BY DEF NavColumn, DiffColumn
<1>10. \A i \in DOMAIN block :
         /\ nav[i] = IF block[i].role = "footer" THEN 0 ELSE Or0(block[i].nav)
         /\ diff[i] = IF block[i].role = "footer" THEN 0 ELSE Or0(block[i].diff)
  BY DEF NavColumn, DiffColumn
<1>11. ListedFrom(c) = Len(c) + 1 /\ UnmappedFrom(c, rows) = Len(c) + 1 + Len(keys)
  BY DEF ListedFrom, UnmappedFrom, keys
<1> HIDE DEF nav, diff
<1>12. ASSUME NEW i \in 1..Len(c), c[i].kind = "asset"
       PROVE  /\ nav[i] = Or0(rows[RowKey(c, i)].navBase)
              /\ diff[i] = rows[RowKey(c, i)].diffUsd
              /\ block[i].flag = "BREAK" <=> rows[RowKey(c, i)].flagged
  <2>1. block[i] = ReconCells("asset", rows[RowKey(c, i)])
    BY <1>2, <1>12 DEF CatalogLine
  <2>2. i \in DOMAIN block
    BY <1>2, <1>11
  <2>3. rows[RowKey(c, i)].diffUsd \in Int
    BY <1>6, <1>7, <1>12
  <2>4. /\ block[i].role = "asset" /\ block[i].nav = rows[RowKey(c, i)].navBase
        /\ block[i].diff = rows[RowKey(c, i)].diffUsd
    BY <2>1 DEF ReconCells
  <2>5. block[i].flag = "BREAK" <=> rows[RowKey(c, i)].flagged
    BY <1>1, <2>1 DEF ReconCells
  <2>6. QED
    BY <1>1, <1>10, <2>2, <2>3, <2>4, <2>5 DEF Or0
<1>13. ASSUME NEW i \in 1..Len(c), c[i].kind # "asset"
       PROVE  nav[i] = 0 /\ diff[i] = 0 /\ block[i].flag # "BREAK"
  <2>1. \E role : role # "footer" /\ block[i] = Line(role)
    BY <1>2, <1>8, <1>13 DEF CatalogLine
  <2>2. i \in DOMAIN block
    BY <1>2, <1>11
  <2>3. block[i].role # "footer" /\ block[i].nav = None /\ block[i].diff = None /\ block[i].flag = None
    BY <2>1 DEF Line
  <2>4. QED
    BY <1>1, <1>10, <2>2, <2>3 DEF Or0
<1>14. LET i == Len(c) + 1 IN nav[i] = 0 /\ diff[i] = 0 /\ block[i].flag # "BREAK"
  <2>1. Len(c) + 1 \in DOMAIN block
    BY <1>2, <1>11
  <2>2. block[Len(c) + 1].role = "footer" /\ block[Len(c) + 1].flag = None
    BY <1>2 DEF FooterLine, Line
  <2>3. QED
    BY <1>1, <1>10, <2>1, <2>2
<1>15. ASSUME NEW i \in 1..Len(keys)
       PROVE  LET at == ListedFrom(c) + i IN
                /\ nav[at] = Or0(rows[keys[i]].navBase)
                /\ diff[at] = rows[keys[i]].diffUsd
                /\ block[at].flag = "BREAK" <=> rows[keys[i]].flagged
  <2> DEFINE at == ListedFrom(c) + i
  <2>1. block[at] = ReconCells("navonly", rows[keys[i]]) /\ at \in DOMAIN block
    BY <1>2, <1>11
  <2>2. rows[keys[i]].diffUsd \in Int
    BY <1>4, <1>7
  <2> HIDE DEF at
  <2>3. /\ block[at].role = "navonly" /\ block[at].nav = rows[keys[i]].navBase
        /\ block[at].diff = rows[keys[i]].diffUsd
    BY <2>1 DEF ReconCells
  <2>4. block[at].flag = "BREAK" <=> rows[keys[i]].flagged
    BY <1>1, <2>1 DEF ReconCells
  <2>5. nav[at] = Or0(rows[keys[i]].navBase) /\ diff[at] = rows[keys[i]].diffUsd
    BY <1>1, <1>10, <2>1, <2>2, <2>3 DEF Or0
  <2>6. QED
    BY <2>4, <2>5 DEF at
<1>16. ASSUME NEW i \in 1..Len(left)
       PROVE  LET at == UnmappedFrom(c, rows) + i IN
                nav[at] = Values(raw)[left[i]] /\ diff[at] = 0 /\ block[at].flag # "BREAK"
  <2> DEFINE at == UnmappedFrom(c, rows) + i
  <2>1. block[at] = [Line("unmapped") EXCEPT !.nav = raw[left[i]].value]
    BY <1>2
  <2>2. at \in DOMAIN block
    BY <1>2, <1>11
  <2>3. Values(raw)[left[i]] = Or0(raw[left[i]].value)
    BY <1>5 DEF Values
  <2> HIDE DEF at
  <2>4. /\ block[at].role = "unmapped" /\ block[at].nav = raw[left[i]].value
        /\ block[at].diff = None /\ block[at].flag = None
    BY <2>1 DEF Line
  <2>5. nav[at] = Values(raw)[left[i]] /\ diff[at] = 0 /\ block[at].flag # "BREAK"
    BY <1>1, <1>10, <2>2, <2>3, <2>4 DEF Or0
  <2>6. QED
    BY <2>5 DEF at
<1>17. QED
  BY <1>2, <1>9, <1>12, <1>13, <1>14, <1>15, <1>16 DEF block, keys, left, nav, diff

\* Every place among a segment's lines belongs to one of the four sections.
LEMMA EveryLineHasASection ==
    ASSUME NEW c \in Seq(CatalogRows), NEW rows, NEW left \in Nat,
           Len(SetToSeq(ListedKeys(rows))) \in Nat,
           NEW l \in 1..(UnmappedFrom(c, rows) + left)
    PROVE  \/ l \in 1..Len(c)
           \/ l = Len(c) + 1
           \/ \E i \in 1..Len(SetToSeq(ListedKeys(rows))) : l = ListedFrom(c) + i
           \/ \E i \in 1..left : l = UnmappedFrom(c, rows) + i
<1> DEFINE p == Len(SetToSeq(ListedKeys(rows)))
<1>1. Len(c) \in Nat /\ p \in Nat /\ ListedFrom(c) = Len(c) + 1 /\ UnmappedFrom(c, rows) = Len(c) + 1 + p
  BY DEF ListedFrom, UnmappedFrom
<1> HIDE DEF p
<1>2. CASE l \in Len(c) + 2..UnmappedFrom(c, rows)
  <2>1. l - ListedFrom(c) \in 1..p /\ l = ListedFrom(c) + (l - ListedFrom(c))
    BY <1>1, <1>2
  <2>2. QED
    BY <2>1 DEF p
<1>3. CASE l > UnmappedFrom(c, rows)
  <2>1. l - UnmappedFrom(c, rows) \in 1..left /\ l = UnmappedFrom(c, rows) + (l - UnmappedFrom(c, rows))
    BY <1>1, <1>3
  <2>2. QED
    BY <2>1
<1>4. QED
  BY <1>1, <1>2, <1>3

\* A key without a line has no difference, and is no break.
LEMMA NoLineNoDifference ==
    ASSUME NEW c \in Seq(CatalogRows), NEW raw \in Seq(AnswerRows), NEW base \in Int,
           NEW rows, rows = ReconcileSegment(c, raw, base), ~Twins(c), ~Perps(c),
           NEW k \in DOMAIN rows, KeyLine(c, rows, k) = 0
    PROVE  rows[k].diffUsd = 0 /\ ~rows[k].flagged
<1>1. RowLines(c, k) = {} /\ k \notin ListedKeys(rows)
  BY KeyLinesAreApart
<1>2. k \notin DOMAIN FlattenOurs(c)
  <2>1. \A i \in Positions(c) : i \in DOMAIN c /\ c[i].kind = "asset"
    BY DEF Positions, Perps
  <2>2. \A i \in Positions(c) : RowKey(c, i) # k
    BY <1>1, <2>1 DEF RowLines
  <2>3. QED
    BY <2>2, OursTyped
<1>3. ~Listed(rows[k])
  BY <1>1 DEF ListedKeys
<1>4. QED
  BY <1>2, <1>3, TheirsAlone

\* The lines show every difference once.
LEMMA DifferencesAddUp ==
    ASSUME NEW c \in Seq(CatalogRows), c # << >>, NEW raw \in Seq(AnswerRows), NEW base \in Int,
           NEW rows, rows = ReconcileSegment(c, raw, base), rows # None, ~Twins(c), ~Perps(c)
    PROVE  SumFunction(DiffColumn(SegmentLines(c, raw, rows))) = DiffTotal(rows)
<1> DEFINE keys == SetToSeq(ListedKeys(rows))
           left == SetToSeq(Unmapped(raw))
           diff == DiffColumn(SegmentLines(c, raw, rows))
           lines == UnmappedFrom(c, rows) + Len(left)
           line == [k \in DOMAIN rows |-> KeyLine(c, rows, k)]
           f == Differences(rows)
           D == DOMAIN rows
<1>1. /\ DOMAIN diff = 1..lines
      /\ Len(c) \in Nat /\ Len(keys) \in Nat /\ Len(left) \in Nat
      /\ \A i \in 1..Len(c) : c[i].kind = "asset" => diff[i] = rows[RowKey(c, i)].diffUsd
      /\ \A i \in 1..Len(c) : c[i].kind # "asset" => diff[i] = 0
      /\ diff[Len(c) + 1] = 0
      /\ \A i \in 1..Len(keys) : diff[ListedFrom(c) + i] = rows[keys[i]].diffUsd
      /\ \A i \in 1..Len(left) : diff[UnmappedFrom(c, rows) + i] = 0
  BY CellsOfLines
<1>2. /\ \A i \in 1..Len(keys) : keys[i] \in D
      /\ \A k \in D : KeyLine(c, rows, k) \in 0..UnmappedFrom(c, rows)
      /\ \A i \in 1..Len(c) : c[i].kind = "asset" =>
           /\ RowKey(c, i) \in D
           /\ \A k \in D : KeyLine(c, rows, k) = i <=> k = RowKey(c, i)
      /\ \A i \in 1..Len(c) : c[i].kind # "asset" => \A k \in D : KeyLine(c, rows, k) # i
      /\ \A k \in D : KeyLine(c, rows, k) # Len(c) + 1
      /\ \A i \in 1..Len(keys) :
           \A k \in D : KeyLine(c, rows, k) = ListedFrom(c) + i <=> k = keys[i]
  <2>1. \A i \in 1..Len(keys) : keys[i] \in ListedKeys(rows)
    BY KeyLinesAreApart
  <2>2. \A i \in 1..Len(keys) : keys[i] \in D
    BY <2>1 DEF ListedKeys
  <2>3. /\ \A k \in D : KeyLine(c, rows, k) \in 0..UnmappedFrom(c, rows)
        /\ \A k \in D : KeyLine(c, rows, k) # Len(c) + 1
        /\ \A i \in 1..Len(keys) :
             \A k \in D : KeyLine(c, rows, k) = ListedFrom(c) + i <=> k = keys[i]
    BY KeyLinesAreApart
  <2>4. /\ \A i \in 1..Len(c) : c[i].kind = "asset" =>
             /\ RowKey(c, i) \in D
             /\ \A k \in D : KeyLine(c, rows, k) = i <=> k = RowKey(c, i)
        /\ \A i \in 1..Len(c) : c[i].kind # "asset" => \A k \in D : KeyLine(c, rows, k) # i
    BY KeyLinesAreApart
  <2> HIDE DEF D, keys
  <2>5. QED
    BY <2>2, <2>3, <2>4
<1>3. UnmappedFrom(c, rows) = Len(c) + 1 + Len(keys)
  BY DEF UnmappedFrom
<1>4. IsFiniteSet(D)
  BY FinitelyManyRows
<1>5. \A k \in D : f[k] = rows[k].diffUsd /\ f[k] \in Int
  BY RowTyped DEF Differences
<1>6. \A k \in D : KeyLine(c, rows, k) = 0 => f[k] = 0
  BY <1>5, NoLineNoDifference
<1> HIDE DEF diff, f, D, keys, left
<1>7. lines \in Nat /\ line \in [D -> 0..lines] /\ \A k \in D : line[k] = KeyLine(c, rows, k)
  BY <1>1, <1>2, <1>3 DEF D
<1> HIDE DEF line
<1>8. \A l : OnLine(D, line, l) \subseteq D /\ \A k \in D : k \in OnLine(D, line, l) <=> line[k] = l
  BY DEF OnLine
<1>9. ASSUME NEW l, NEW k \in D, \A j \in D : line[j] = l <=> j = k
      PROVE  SumFunctionOnSet(f, OnLine(D, line, l)) = rows[k].diffUsd
  <2>1. OnLine(D, line, l) = {k}
    BY <1>8, <1>9
  <2>2. f[k] \in Int /\ f[k] = rows[k].diffUsd
    BY <1>5
  <2>3. SumFunctionOnSet(f, {k}) = f[k]
    BY <2>2, SumOfOne
  <2>4. QED
    BY <2>1, <2>2, <2>3
<1>10. ASSUME NEW l, \A j \in D : line[j] # l
       PROVE  SumFunctionOnSet(f, OnLine(D, line, l)) = 0
  <2>1. OnLine(D, line, l) = {}
    BY <1>8, <1>10
  <2>2. QED
    BY <2>1, SumOfNone
<1>11. ASSUME NEW l \in 1..lines
       PROVE  diff[l] = SumFunctionOnSet(f, OnLine(D, line, l))
  <2>1. CASE l \in 1..Len(c) /\ c[l].kind = "asset"
    <3>1. RowKey(c, l) \in D /\ \A j \in D : line[j] = l <=> j = RowKey(c, l)
      BY <1>2, <1>7, <2>1
    <3>2. diff[l] = rows[RowKey(c, l)].diffUsd
      BY <1>1, <2>1
    <3>3. QED
      BY <1>9, <3>1, <3>2
  <2>2. CASE l \in 1..Len(c) /\ c[l].kind # "asset"
    BY <1>1, <1>2, <1>7, <1>10, <2>2
  <2>3. CASE l = Len(c) + 1
    BY <1>1, <1>2, <1>7, <1>10, <2>3
  <2>4. ASSUME NEW i \in 1..Len(keys), l = ListedFrom(c) + i
        PROVE  diff[l] = SumFunctionOnSet(f, OnLine(D, line, l))
    <3>1. keys[i] \in D /\ \A j \in D : line[j] = l <=> j = keys[i]
      BY <1>2, <1>7, <2>4
    <3>2. QED
      BY <1>1, <1>9, <2>4, <3>1
  <2>5. ASSUME NEW i \in 1..Len(left), l = UnmappedFrom(c, rows) + i
        PROVE  diff[l] = SumFunctionOnSet(f, OnLine(D, line, l))
    <3>1. \A j \in D : line[j] # l
      BY <1>1, <1>2, <1>3, <1>7, <2>5
    <3>2. QED
      BY <1>1, <1>10, <2>5, <3>1
  <2>6. \/ l \in 1..Len(c)
        \/ l = Len(c) + 1
        \/ \E i \in 1..Len(keys) : l = ListedFrom(c) + i
        \/ \E i \in 1..Len(left) : l = UnmappedFrom(c, rows) + i
    BY <1>1, EveryLineHasASection DEF keys
  <2>7. QED
    BY <2>1, <2>2, <2>3, <2>4, <2>5, <2>6
<1>12. SumFunctionOnSet(f, OnLine(D, line, 0)) = 0
  <2>1. OnLine(D, line, 0) \subseteq D /\ \A k \in OnLine(D, line, 0) : f[k] = 0
    BY <1>6, <1>7, <1>8
  <2>2. IsFiniteSet(OnLine(D, line, 0)) /\ \A k \in OnLine(D, line, 0) : f[k] \in Int
    BY <1>4, <1>5, <2>1, FS_Subset
  <2>3. SumFunctionOnSet(f, OnLine(D, line, 0)) = SumFunctionOnSet(f, {})
    BY <2>1, <2>2, SumOfTheRest
  <2>4. QED
    BY <2>3, SumOfNone
<1>13. \A l \in 0..0 : l = 0
  OBVIOUS
<1> HIDE DEF lines
<1>14. SumFunctionOnSet(diff, 1..lines) = SumFunctionOnSet(f, D)
  <2>1. \A l \in 0..0 : SumFunctionOnSet(f, OnLine(D, line, l)) = 0
    BY <1>12, <1>13
  <2>2. LineByLine(f, D, line, 0, lines, diff)
    BY <1>4, <1>5, <1>7, <1>11, <2>1 DEF LineByLine
  <2>3. QED
    BY <2>2, SumLineByLine
<1>15. SumFunction(diff) = SumFunctionOnSet(diff, 1..lines)
  BY <1>1 DEF SumFunction, lines
<1>16. DiffTotal(rows) = SumFunctionOnSet(f, D)
  BY DEF DiffTotal, SumFunction, Differences, f, D
<1>17. QED
  BY <1>14, <1>15, <1>16 DEF diff

\* A break is a line that reads BREAK.
LEMMA BreaksAreMarked ==
    ASSUME NEW c \in Seq(CatalogRows), c # << >>, NEW raw \in Seq(AnswerRows), NEW base \in Int,
           NEW rows, rows = ReconcileSegment(c, raw, base), rows # None, ~Twins(c), ~Perps(c)
    PROVE  Flagged(rows) # {} <=> \E i \in DOMAIN SegmentLines(c, raw, rows) :
                                    SegmentLines(c, raw, rows)[i].flag = "BREAK"
<1> DEFINE keys == SetToSeq(ListedKeys(rows))
           left == SetToSeq(Unmapped(raw))
           block == SegmentLines(c, raw, rows)
           D == DOMAIN rows
<1>1. /\ DOMAIN block = 1..(UnmappedFrom(c, rows) + Len(left))
      /\ Len(c) \in Nat /\ Len(keys) \in Nat /\ Len(left) \in Nat
      /\ \A i \in 1..Len(c) : c[i].kind = "asset" =>
           (block[i].flag = "BREAK" <=> rows[RowKey(c, i)].flagged)
      /\ \A i \in 1..Len(c) : c[i].kind # "asset" => block[i].flag # "BREAK"
      /\ block[Len(c) + 1].flag # "BREAK"
      /\ \A i \in 1..Len(keys) : block[ListedFrom(c) + i].flag = "BREAK" <=> rows[keys[i]].flagged
      /\ \A i \in 1..Len(left) : block[UnmappedFrom(c, rows) + i].flag # "BREAK"
  BY CellsOfLines
<1>2. \A i \in 1..Len(keys) : keys[i] \in D
  <2>1. \A i \in 1..Len(keys) : keys[i] \in ListedKeys(rows)
    BY KeyLinesAreApart
  <2>2. QED
    BY <2>1 DEF ListedKeys
<1> HIDE DEF D
<1>3. /\ \A k \in D : KeyLine(c, rows, k) \in 0..UnmappedFrom(c, rows)
      /\ \A i \in 1..Len(c) : c[i].kind = "asset" =>
           /\ RowKey(c, i) \in D
           /\ \A k \in D : KeyLine(c, rows, k) = i <=> k = RowKey(c, i)
      /\ \A i \in 1..Len(c) : c[i].kind # "asset" => \A k \in D : KeyLine(c, rows, k) # i
      /\ \A k \in D : KeyLine(c, rows, k) # Len(c) + 1
      /\ \A i \in 1..Len(keys) :
           \A k \in D : KeyLine(c, rows, k) = ListedFrom(c) + i <=> k = keys[i]
  BY KeyLinesAreApart DEF D
<1>4. UnmappedFrom(c, rows) = Len(c) + 1 + Len(keys)
  BY DEF UnmappedFrom
<1>5. \A l \in DOMAIN block : \/ l \in 1..Len(c)
                              \/ l = Len(c) + 1
                              \/ \E i \in 1..Len(keys) : l = ListedFrom(c) + i
                              \/ \E i \in 1..Len(left) : l = UnmappedFrom(c, rows) + i
  <2> DEFINE n == Len(left)
  <2>1. n \in Nat /\ Len(SetToSeq(ListedKeys(rows))) \in Nat /\ DOMAIN block = 1..(UnmappedFrom(c, rows) + n)
    BY <1>1
  <2> HIDE DEF n, block
  <2>2. ASSUME NEW l \in 1..(UnmappedFrom(c, rows) + n)
        PROVE  \/ l \in 1..Len(c)
               \/ l = Len(c) + 1
               \/ \E i \in 1..Len(SetToSeq(ListedKeys(rows))) : l = ListedFrom(c) + i
               \/ \E i \in 1..n : l = UnmappedFrom(c, rows) + i
    BY <2>1, EveryLineHasASection
  <2>3. QED
    BY <2>1, <2>2 DEF n
<1> HIDE DEF block, keys, left
<1>6. ASSUME NEW k \in Flagged(rows)
      PROVE  \E i \in DOMAIN block : block[i].flag = "BREAK"
  <2> DEFINE l == KeyLine(c, rows, k)
  <2>1. k \in D /\ rows[k].flagged
    BY DEF Flagged, D
  <2>2. l # 0
    BY <2>1, NoLineNoDifference DEF D
  <2>3. l \in DOMAIN block /\ l \in 1..UnmappedFrom(c, rows)
    BY <1>1, <1>3, <1>4, <2>1, <2>2
  <2>4. CASE l \in 1..Len(c)
    <3>1. c[l].kind = "asset" /\ k = RowKey(c, l)
      BY <1>3, <2>1, <2>4
    <3>2. QED
      BY <1>1, <2>1, <2>3, <2>4, <3>1
  <2>5. ASSUME NEW i \in 1..Len(keys), l = ListedFrom(c) + i
        PROVE  block[l].flag = "BREAK"
    <3>1. k = keys[i]
      BY <1>3, <2>1, <2>5
    <3>2. QED
      BY <1>1, <2>1, <2>5, <3>1
  <2>6. l # Len(c) + 1 /\ \A i \in 1..Len(left) : l # UnmappedFrom(c, rows) + i
    BY <1>1, <1>3, <1>4, <2>1, <2>3
  <2> HIDE DEF l
  <2>7. QED
    BY <1>5, <2>3, <2>4, <2>5, <2>6
<1>7. ASSUME NEW l \in DOMAIN block, block[l].flag = "BREAK"
      PROVE  Flagged(rows) # {}
  <2>1. CASE l \in 1..Len(c)
    <3>1. c[l].kind = "asset" /\ rows[RowKey(c, l)].flagged /\ RowKey(c, l) \in D
      BY <1>1, <1>3, <1>7, <2>1
    <3>2. QED
      BY <3>1 DEF Flagged, D
  <2>2. ASSUME NEW i \in 1..Len(keys), l = ListedFrom(c) + i
        PROVE  Flagged(rows) # {}
    <3>1. rows[keys[i]].flagged /\ keys[i] \in D
      BY <1>1, <1>2, <1>7, <2>2
    <3>2. QED
      BY <3>1 DEF Flagged, D
  <2>3. l # Len(c) + 1 /\ \A i \in 1..Len(left) : l # UnmappedFrom(c, rows) + i
    BY <1>1, <1>7
  <2>4. QED
    BY <1>5, <2>1, <2>2, <2>3
<1>8. QED
  BY <1>6, <1>7 DEF block

-----------------------------------------------------------------------------
(* What the fund reported. *)

\* The key of a position of theirs.
KeyOf(raw, i) == BucketKey(Bucket(raw, i))

\* The rows of a place have one bucket.
LEMMA OneBucketAPlace ==
    ASSUME NEW raw \in Seq(AnswerRows), NEW i \in Mapped(raw), NEW j \in SamePlace(raw, i)
    PROVE  /\ j \in Mapped(raw) /\ SamePlace(raw, j) = SamePlace(raw, i)
           /\ Bucket(raw, j) = Bucket(raw, i)
<1>1. j \in Mapped(raw) /\ Ours(raw, j).location = Ours(raw, i).location
      /\ Ours(raw, j).asset = Ours(raw, i).asset
  BY DEF SamePlace
<1>2. SamePlace(raw, j) = SamePlace(raw, i)
  BY <1>1 DEF SamePlace
<1>3. QED
  BY <1>1, <1>2 DEF Bucket

\* When every place has one spelling, a key stands for one bucket, and for all
\* the rows of its place.
LEMMA OneBucketAKey ==
    ASSUME NEW raw \in Seq(AnswerRows), OneSpelling(raw), NEW i \in Mapped(raw)
    PROVE  /\ KeyOf(raw, i) \in DOMAIN FlattenNav(raw)
           /\ \A j \in Mapped(raw) : KeyOf(raw, j) = KeyOf(raw, i) <=> j \in SamePlace(raw, i)
           /\ FlattenNav(raw)[KeyOf(raw, i)].base = SumFunctionOnSet(Values(raw), SamePlace(raw, i))
<1>1. ASSUME NEW j \in Mapped(raw), KeyOf(raw, j) = KeyOf(raw, i)
      PROVE  j \in SamePlace(raw, i)
  <2>1. /\ Bucket(raw, j).location = Ours(raw, j).location
        /\ Bucket(raw, j).asset = Ours(raw, j).asset
        /\ Bucket(raw, i).location = Ours(raw, i).location
        /\ Bucket(raw, i).asset = Ours(raw, i).asset
    BY DEF Bucket
  <2>2. /\ NormalizeKey(Ours(raw, i).location) = NormalizeKey(Ours(raw, j).location)
        /\ NormalizeKey(Ours(raw, i).asset) = NormalizeKey(Ours(raw, j).asset)
    BY <1>1, <2>1 DEF KeyOf, BucketKey, Key
  <2>3. QED
    BY <2>2 DEF OneSpelling
<1>2. ASSUME NEW j \in SamePlace(raw, i)
      PROVE  KeyOf(raw, j) = KeyOf(raw, i)
  BY OneBucketAPlace DEF KeyOf
<1>3. KeyOf(raw, i) \in DOMAIN FlattenNav(raw)
  BY LastBucketIsKept DEF KeyOf
<1>4. FlattenNav(raw)[KeyOf(raw, i)] \in BucketsAt(raw, KeyOf(raw, i))
  BY <1>3, LastBucketIsKept
<1>5. PICK j \in Mapped(raw) : /\ FlattenNav(raw)[KeyOf(raw, i)] = Bucket(raw, j)
                               /\ KeyOf(raw, j) = KeyOf(raw, i)
  BY <1>4 DEF BucketsAt, RollupByAsset, KeyOf
<1>6. Bucket(raw, j) = Bucket(raw, i)
  BY <1>1, <1>5, OneBucketAPlace
<1>7. FlattenNav(raw)[KeyOf(raw, i)].base = SumFunctionOnSet(Values(raw), SamePlace(raw, i))
  BY <1>5, <1>6, BucketTyped
<1>8. QED
  BY <1>1, <1>2, <1>3, <1>7

\* The place of a position among those of accounts not mapped.
LeftPlace(raw, i) == CHOOSE j \in DOMAIN SetToSeq(Unmapped(raw)) : SetToSeq(Unmapped(raw))[j] = i

\* The line of a position: that of its key, the one of its own if its account is
\* not mapped, or none, for which its place has a number of its own.
PositionLine(c, raw, rows, i) ==
    IF i \in Unmapped(raw) THEN UnmappedFrom(c, rows) + LeftPlace(raw, i)
    ELSE IF KeyLine(c, rows, KeyOf(raw, i)) # 0 THEN KeyLine(c, rows, KeyOf(raw, i))
    ELSE -Bucket(raw, i).first

\* Every account not mapped has a place and every place one of them.
LEMMA LeftPlacesAreApart ==
    ASSUME NEW raw \in Seq(AnswerRows)
    PROVE  LET left == SetToSeq(Unmapped(raw))
           IN /\ Len(left) \in Nat
              /\ \A j \in 1..Len(left) : left[j] \in Unmapped(raw) /\ LeftPlace(raw, left[j]) = j
              /\ \A i \in Unmapped(raw) : LeftPlace(raw, i) \in 1..Len(left) /\ left[LeftPlace(raw, i)] = i
<1> DEFINE left == SetToSeq(Unmapped(raw))
<1>1. IsFiniteSet(Unmapped(raw))
  BY ColumnsAreNumbers, FS_Subset DEF Unmapped
<1>2. /\ left \in Seq(Unmapped(raw))
      /\ \A i \in Unmapped(raw) : \E j \in DOMAIN left : left[j] = i
      /\ \A i, j \in DOMAIN left : left[i] = left[j] => i = j
  BY <1>1, ListingIsOneToOne
<1>3. \A i \in Unmapped(raw) : LeftPlace(raw, i) \in DOMAIN left /\ left[LeftPlace(raw, i)] = i
  BY <1>2 DEF LeftPlace
<1> HIDE DEF left
<1>4. DOMAIN left = 1..Len(left) /\ Len(left) \in Nat /\ \A j \in 1..Len(left) : left[j] \in Unmapped(raw)
  BY <1>2
<1>5. \A j \in 1..Len(left) : LeftPlace(raw, left[j]) = j
  BY <1>2, <1>3, <1>4
<1>6. QED
  BY <1>3, <1>4, <1>5 DEF left

\* A position without a line is worth nothing, with all of its place.
LEMMA NoLineNoValue ==
    ASSUME NEW c \in Seq(CatalogRows), NEW raw \in Seq(AnswerRows), NEW base \in Int,
           NEW rows, rows = ReconcileSegment(c, raw, base),
           ~Twins(c), OneSpelling(raw), ~PerpMatched(c, raw),
           NEW i \in Mapped(raw), KeyLine(c, rows, KeyOf(raw, i)) = 0
    PROVE  SumFunctionOnSet(Values(raw), SamePlace(raw, i)) = 0
<1> DEFINE k == KeyOf(raw, i)
<1>1. k \in DOMAIN FlattenNav(raw)
      /\ FlattenNav(raw)[k].base = SumFunctionOnSet(Values(raw), SamePlace(raw, i))
  BY OneBucketAKey
<1> HIDE DEF k
<1>2. k \in DOMAIN rows
  BY <1>1 DEF ReconcileSegment
<1>3. RowLines(c, k) = {} /\ k \notin ListedKeys(rows)
  BY <1>2, KeyLinesAreApart DEF k
<1>4. k \notin DOMAIN FlattenOurs(c)
  <2>1. \A j \in Positions(c) : j \in DOMAIN c /\ (c[j].kind = "asset" \/ c[j].kind = "perp")
    BY DEF Positions
  <2>2. \A j \in Positions(c) : RowKey(c, j) # k
    BY <1>1, <1>3, <2>1 DEF RowLines, PerpMatched
  <2>3. QED
    BY <2>2, OursTyped
<1>5. ~Listed(rows[k])
  BY <1>2, <1>3 DEF ListedKeys
<1>6. FlattenNav(raw)[k].base = 0
  BY <1>2, <1>4, <1>5, TheirsAlone
<1>7. QED
  BY <1>1, <1>6

\* The lines show every position of theirs once.
LEMMA PositionsAddUp ==
    ASSUME NEW c \in Seq(CatalogRows), c # << >>, NEW raw \in Seq(AnswerRows), NEW base \in Int,
           NEW rows, rows = ReconcileSegment(c, raw, base), rows # None,
           ~Twins(c), OneSpelling(raw), ~PerpMatched(c, raw)
    PROVE  SumFunction(NavColumn(SegmentLines(c, raw, rows))) = SumFunction(Values(raw))
<1> DEFINE keys == SetToSeq(ListedKeys(rows))
           left == SetToSeq(Unmapped(raw))
           nav == NavColumn(SegmentLines(c, raw, rows))
           lines == UnmappedFrom(c, rows) + Len(left)
           line == [i \in DOMAIN raw |-> PositionLine(c, raw, rows, i)]
           f == Values(raw)
           D == DOMAIN raw
           navs == FlattenNav(raw)
<1>1. /\ DOMAIN nav = 1..lines
      /\ Len(c) \in Nat /\ Len(keys) \in Nat /\ Len(left) \in Nat
      /\ \A i \in 1..Len(c) : c[i].kind = "asset" => nav[i] = Or0(rows[RowKey(c, i)].navBase)
      /\ \A i \in 1..Len(c) : c[i].kind # "asset" => nav[i] = 0
      /\ nav[Len(c) + 1] = 0
      /\ \A i \in 1..Len(keys) : nav[ListedFrom(c) + i] = Or0(rows[keys[i]].navBase)
      /\ \A i \in 1..Len(left) : nav[UnmappedFrom(c, rows) + i] = f[left[i]]
  BY CellsOfLines
<1>2. \A i \in 1..Len(keys) : keys[i] \in DOMAIN rows
  <2>1. \A i \in 1..Len(keys) : keys[i] \in ListedKeys(rows)
    BY KeyLinesAreApart
  <2>2. QED
    BY <2>1 DEF ListedKeys
<1>3. /\ \A k \in DOMAIN rows : KeyLine(c, rows, k) \in 0..UnmappedFrom(c, rows)
      /\ \A i \in 1..Len(c) : c[i].kind = "asset" =>
           /\ RowKey(c, i) \in DOMAIN rows
           /\ \A k \in DOMAIN rows : KeyLine(c, rows, k) = i <=> k = RowKey(c, i)
      /\ \A i \in 1..Len(c) : c[i].kind # "asset" => \A k \in DOMAIN rows : KeyLine(c, rows, k) # i
      /\ \A k \in DOMAIN rows : KeyLine(c, rows, k) # Len(c) + 1
      /\ \A i \in 1..Len(keys) :
           \A k \in DOMAIN rows : KeyLine(c, rows, k) = ListedFrom(c) + i <=> k = keys[i]
  BY KeyLinesAreApart
<1>4. UnmappedFrom(c, rows) = Len(c) + 1 + Len(keys) /\ ListedFrom(c) = Len(c) + 1
  BY DEF UnmappedFrom, ListedFrom
<1>5. /\ \A j \in 1..Len(left) : left[j] \in Unmapped(raw) /\ LeftPlace(raw, left[j]) = j
      /\ \A i \in Unmapped(raw) : LeftPlace(raw, i) \in 1..Len(left) /\ left[LeftPlace(raw, i)] = i
  BY LeftPlacesAreApart
<1>6. /\ IsFiniteSet(D) /\ Len(raw) \in Nat /\ D = 1..Len(raw)
      /\ \A i \in D : f[i] \in Int
  BY ColumnsAreNumbers
<1>7. /\ Mapped(raw) \subseteq D /\ Unmapped(raw) \subseteq D
      /\ \A i \in D : i \in Unmapped(raw) <=> i \notin Mapped(raw)
  BY DEF Mapped, Unmapped
<1>8. \A i \in Mapped(raw) : KeyOf(raw, i) \in DOMAIN rows /\ Bucket(raw, i).first \in 1..Len(raw)
  <2>1. \A i \in Mapped(raw) : KeyOf(raw, i) \in DOMAIN rows
    BY OneBucketAKey DEF ReconcileSegment
  <2>2. \A i \in Mapped(raw) : Bucket(raw, i).first \in D
    BY BucketTyped
  <2>3. QED
    BY <1>6, <2>1, <2>2
<1>9. \A k \in DOMAIN rows : rows[k].navBase = IF k \in DOMAIN navs THEN navs[k].base ELSE None
  BY TheirsAlone
<1> HIDE DEF nav, f, D, keys, left, navs
<1>10. \A i \in Mapped(raw) : PositionLine(c, raw, rows, i) =
          IF KeyLine(c, rows, KeyOf(raw, i)) # 0 THEN KeyLine(c, rows, KeyOf(raw, i))
          ELSE -Bucket(raw, i).first
  BY <1>7 DEF PositionLine, D
<1>11. \A i \in Unmapped(raw) : PositionLine(c, raw, rows, i) = UnmappedFrom(c, rows) + LeftPlace(raw, i)
  BY DEF PositionLine
<1>12. \A i \in D : line[i] = PositionLine(c, raw, rows, i)
  BY DEF D
<1>13. lines \in Nat /\ line \in [D -> (-Len(raw))..lines]
  <2>1. lines \in Nat
    BY <1>1, <1>4
  <2>2. \A i \in D : PositionLine(c, raw, rows, i) \in (-Len(raw))..lines
    <3>1. TAKE i \in D
    <3>2. CASE i \in Mapped(raw)
      <4>1. Bucket(raw, i).first \in 1..Len(raw) /\ Len(raw) \in Nat
        BY <1>6, <1>8, <3>2
      <4>2. KeyLine(c, rows, KeyOf(raw, i)) \in 0..UnmappedFrom(c, rows)
        BY <1>3, <1>8, <3>2
      <4>3. UnmappedFrom(c, rows) \in Nat /\ UnmappedFrom(c, rows) <= lines
        BY <1>1, <1>4
      <4>4. PositionLine(c, raw, rows, i) \in {KeyLine(c, rows, KeyOf(raw, i)), -Bucket(raw, i).first}
        BY <1>10, <3>2
      <4>5. \A x \in 0..UnmappedFrom(c, rows) : x \in (-Len(raw))..lines
        BY <2>1, <4>1, <4>3
      <4>6. \A x \in 1..Len(raw) : -x \in (-Len(raw))..lines
        BY <2>1, <4>1
      <4>7. QED
        BY <4>1, <4>2, <4>4, <4>5, <4>6
    <3>3. CASE i \in Unmapped(raw)
      BY <1>1, <1>4, <1>5, <1>6, <1>11, <3>3
    <3>4. QED
      BY <1>7, <3>2, <3>3
  <2>3. QED
    BY <2>1, <2>2 DEF D
<1> HIDE DEF line
<1>14. \A l : OnLine(D, line, l) \subseteq D /\ \A i \in D : i \in OnLine(D, line, l) <=> line[i] = l
  BY DEF OnLine
\* On the line of a key is what has that key.
<1>15. ASSUME NEW l \in 1..UnmappedFrom(c, rows), NEW k \in DOMAIN rows,
              \A q \in DOMAIN rows : KeyLine(c, rows, q) = l <=> q = k
       PROVE  SumFunctionOnSet(f, OnLine(D, line, l)) = Or0(rows[k].navBase)
  <2>1. \A i \in D : line[i] = l <=> i \in Mapped(raw) /\ KeyOf(raw, i) = k
    <3>1. TAKE i \in D
    <3>2. CASE i \in Mapped(raw)
      BY <1>3, <1>6, <1>8, <1>10, <1>12, <1>15, <3>2
    <3>3. CASE i \in Unmapped(raw)
      BY <1>1, <1>4, <1>5, <1>7, <1>11, <1>12, <1>15, <3>3
    <3>4. QED
      BY <1>7, <3>2, <3>3
  <2>2. ASSUME NEW i \in Mapped(raw), KeyOf(raw, i) = k
        PROVE  SumFunctionOnSet(f, OnLine(D, line, l)) = Or0(rows[k].navBase)
    <3>1. /\ k \in DOMAIN navs
          /\ \A j \in Mapped(raw) : KeyOf(raw, j) = k <=> j \in SamePlace(raw, i)
          /\ navs[k].base = SumFunctionOnSet(f, SamePlace(raw, i))
      BY <2>2, OneBucketAKey DEF navs, f
    <3>2. SamePlace(raw, i) \subseteq Mapped(raw)
      BY DEF SamePlace
    <3>3. OnLine(D, line, l) = SamePlace(raw, i)
      BY <1>7, <1>14, <2>1, <3>1, <3>2
    <3>4. navs[k].base \in Int
      BY <3>1, TheirsTyped DEF navs
    <3>5. Or0(rows[k].navBase) = navs[k].base
      BY <1>9, <3>1, <3>4, ReconAssumption DEF Or0
    <3>6. QED
      BY <3>1, <3>3, <3>5
  <2>3. ASSUME \A i \in Mapped(raw) : KeyOf(raw, i) # k
        PROVE  SumFunctionOnSet(f, OnLine(D, line, l)) = Or0(rows[k].navBase)
    <3>1. OnLine(D, line, l) = {}
      BY <1>14, <2>1, <2>3
    <3>2. k \notin DOMAIN navs
      BY <2>3, LastBucketIsKept DEF navs, KeyOf
    <3>3. Or0(rows[k].navBase) = 0
      BY <1>9, <3>2 DEF Or0
    <3>4. QED
      BY <3>1, <3>3, SumOfNone
  <2>4. QED
    BY <2>2, <2>3
<1>16. ASSUME NEW l, \A i \in D : line[i] # l
       PROVE  SumFunctionOnSet(f, OnLine(D, line, l)) = 0
  <2>1. OnLine(D, line, l) = {}
    BY <1>14, <1>16
  <2>2. QED
    BY <2>1, SumOfNone
\* No position is on a line that is no key's and no account's.
<1>17. ASSUME NEW l \in 1..UnmappedFrom(c, rows), \A k \in DOMAIN rows : KeyLine(c, rows, k) # l
       PROVE  SumFunctionOnSet(f, OnLine(D, line, l)) = 0
  <2>1. \A i \in D : line[i] # l
    <3>1. TAKE i \in D
    <3>2. CASE i \in Mapped(raw)
      BY <1>6, <1>8, <1>10, <1>12, <1>17, <3>2
    <3>3. CASE i \in Unmapped(raw)
      BY <1>1, <1>4, <1>5, <1>7, <1>11, <1>12, <1>17, <3>3
    <3>4. QED
      BY <1>7, <3>2, <3>3
  <2>2. QED
    BY <1>16, <2>1
<1>18. ASSUME NEW l \in 1..lines
       PROVE  nav[l] = SumFunctionOnSet(f, OnLine(D, line, l))
  <2>1. CASE l \in 1..Len(c) /\ c[l].kind = "asset"
    <3>1. /\ RowKey(c, l) \in DOMAIN rows /\ l \in 1..UnmappedFrom(c, rows)
          /\ \A q \in DOMAIN rows : KeyLine(c, rows, q) = l <=> q = RowKey(c, l)
      BY <1>1, <1>3, <1>4, <2>1
    <3>2. QED
      BY <1>1, <1>15, <2>1, <3>1
  <2>2. CASE l \in 1..Len(c) /\ c[l].kind # "asset"
    <3>1. l \in 1..UnmappedFrom(c, rows) /\ \A k \in DOMAIN rows : KeyLine(c, rows, k) # l
      BY <1>1, <1>3, <1>4, <2>2
    <3>2. QED
      BY <1>1, <1>17, <2>2, <3>1
  <2>3. CASE l = Len(c) + 1
    <3>1. l \in 1..UnmappedFrom(c, rows) /\ \A k \in DOMAIN rows : KeyLine(c, rows, k) # l
      BY <1>1, <1>3, <1>4, <2>3
    <3>2. QED
      BY <1>1, <1>17, <2>3, <3>1
  <2>4. ASSUME NEW i \in 1..Len(keys), l = ListedFrom(c) + i
        PROVE  nav[l] = SumFunctionOnSet(f, OnLine(D, line, l))
    <3>1. /\ keys[i] \in DOMAIN rows /\ l \in 1..UnmappedFrom(c, rows)
          /\ \A q \in DOMAIN rows : KeyLine(c, rows, q) = l <=> q = keys[i]
      BY <1>1, <1>2, <1>3, <1>4, <2>4
    <3>2. QED
      BY <1>1, <1>15, <2>4, <3>1
  <2>5. ASSUME NEW j \in 1..Len(left), l = UnmappedFrom(c, rows) + j
        PROVE  nav[l] = SumFunctionOnSet(f, OnLine(D, line, l))
    <3>1. left[j] \in D /\ \A i \in D : line[i] = l <=> i = left[j]
      <4>1. left[j] \in Unmapped(raw) /\ LeftPlace(raw, left[j]) = j
        BY <1>5
      <4>2. ASSUME NEW i \in Mapped(raw) PROVE line[i] # l
        <5>1. /\ KeyLine(c, rows, KeyOf(raw, i)) \in 0..UnmappedFrom(c, rows)
              /\ Bucket(raw, i).first \in 1..Len(raw) /\ Len(raw) \in Nat
          BY <1>3, <1>6, <1>8
        <5>2. line[i] \in {KeyLine(c, rows, KeyOf(raw, i)), -Bucket(raw, i).first}
          BY <1>7, <1>10, <1>12
        <5>3. l > UnmappedFrom(c, rows) /\ UnmappedFrom(c, rows) \in Nat /\ l \in Nat
          BY <1>1, <1>4, <2>5
        <5>4. l # KeyLine(c, rows, KeyOf(raw, i))
          BY <5>1, <5>3
        <5>5. l # -Bucket(raw, i).first
          BY <5>1, <5>3
        <5>6. QED
          BY <5>2, <5>4, <5>5
      <4>3. ASSUME NEW i \in Unmapped(raw), line[i] = l PROVE i = left[j]
        <5>1. LeftPlace(raw, i) \in 1..Len(left) /\ left[LeftPlace(raw, i)] = i
          BY <1>5
        <5>2. UnmappedFrom(c, rows) + LeftPlace(raw, i) = UnmappedFrom(c, rows) + j
          BY <1>7, <1>11, <1>12, <2>5, <4>3
        <5>3. LeftPlace(raw, i) = j
          BY <1>1, <1>4, <5>1, <5>2
        <5>4. QED
          BY <5>1, <5>3
      <4>4. line[left[j]] = l
        BY <1>7, <1>11, <1>12, <2>5, <4>1
      <4>5. QED
        BY <1>7, <4>1, <4>2, <4>3, <4>4
    <3>2. OnLine(D, line, l) = {left[j]}
      BY <1>14, <3>1
    <3>3. SumFunctionOnSet(f, {left[j]}) = f[left[j]]
      BY <1>6, <3>1, SumOfOne
    <3>4. QED
      BY <1>1, <2>5, <3>2, <3>3
  <2>6. \/ l \in 1..Len(c)
        \/ l = Len(c) + 1
        \/ \E i \in 1..Len(keys) : l = ListedFrom(c) + i
        \/ \E i \in 1..Len(left) : l = UnmappedFrom(c, rows) + i
    BY <1>1, EveryLineHasASection DEF keys
  <2>7. QED
    BY <2>1, <2>2, <2>3, <2>4, <2>5, <2>6
<1>19. ASSUME NEW l \in (-Len(raw))..0
       PROVE  SumFunctionOnSet(f, OnLine(D, line, l)) = 0
  <2>1. CASE \E i \in D : line[i] = l
    <3>1. PICK i \in D : line[i] = l
      BY <2>1
    <3>2. i \in Mapped(raw)
      BY <1>1, <1>4, <1>5, <1>7, <1>11, <1>12, <3>1
    <3>3. KeyLine(c, rows, KeyOf(raw, i)) = 0 /\ l = -Bucket(raw, i).first
      BY <1>1, <1>3, <1>4, <1>8, <1>10, <1>12, <3>1, <3>2
    <3>4. ASSUME NEW j \in SamePlace(raw, i) PROVE j \in D /\ line[j] = l
      <4>1. j \in Mapped(raw) /\ Bucket(raw, j) = Bucket(raw, i)
        BY <3>2, OneBucketAPlace
      <4>2. KeyOf(raw, j) = KeyOf(raw, i)
        BY <4>1 DEF KeyOf
      <4>3. QED
        BY <1>7, <1>10, <1>12, <3>3, <4>1, <4>2
    <3>5. ASSUME NEW j \in D, line[j] = l PROVE j \in SamePlace(raw, i)
      <4>1. j \in Mapped(raw)
        BY <1>1, <1>4, <1>5, <1>7, <1>11, <1>12, <3>5
      <4>2. Bucket(raw, j).first = Bucket(raw, i).first
        <5>1. /\ Bucket(raw, i).first \in 1..Len(raw) /\ Bucket(raw, j).first \in 1..Len(raw)
              /\ Len(raw) \in Nat
          BY <1>6, <1>8, <3>2, <4>1
        <5>2. KeyLine(c, rows, KeyOf(raw, j)) >= 0 /\ KeyLine(c, rows, KeyOf(raw, j)) \in Int
          BY <1>1, <1>3, <1>4, <1>8, <4>1
        <5>3. \/ l = KeyLine(c, rows, KeyOf(raw, j)) /\ l # 0
              \/ l = -Bucket(raw, j).first
          BY <1>10, <1>12, <3>5, <4>1
        <5>4. l = -Bucket(raw, i).first
          BY <3>3
        <5>5. QED
          BY <5>1, <5>2, <5>3, <5>4
      <4>3. Bucket(raw, j).first \in SamePlace(raw, j) /\ Bucket(raw, i).first \in SamePlace(raw, i)
        BY <3>2, <4>1, BucketTyped
      <4>4. SamePlace(raw, j) = SamePlace(raw, i)
        BY <3>2, <4>1, <4>2, <4>3, OneBucketAPlace
      <4>5. QED
        BY <4>1, <4>4, BucketTyped
    <3>6. OnLine(D, line, l) = SamePlace(raw, i)
      BY <1>14, <3>4, <3>5
    <3>7. SumFunctionOnSet(f, SamePlace(raw, i)) = 0
      BY <3>2, <3>3, NoLineNoValue DEF f
    <3>8. QED
      BY <3>6, <3>7
  <2>2. CASE \A i \in D : line[i] # l
    BY <1>16, <2>2
  <2>3. QED
    BY <2>1, <2>2
<1> HIDE DEF lines
<1>20. SumFunctionOnSet(nav, 1..lines) = SumFunctionOnSet(f, D)
  <2> DEFINE low == -Len(raw)
  <2>1. low \in Int /\ low <= 0
    BY <1>6
  <2>2. line \in [D -> low..lines] /\ \A l \in low..0 : SumFunctionOnSet(f, OnLine(D, line, l)) = 0
    BY <1>13, <1>19
  <2> HIDE DEF low
  <2>3. LineByLine(f, D, line, low, lines, nav)
    BY <1>6, <1>13, <1>18, <2>1, <2>2 DEF LineByLine
  <2>4. QED
    BY <2>3, SumLineByLine
<1>21. SumFunction(nav) = SumFunctionOnSet(nav, 1..lines)
  BY <1>1 DEF SumFunction, lines
<1>22. SumFunction(Values(raw)) = SumFunctionOnSet(f, D)
  BY DEF SumFunction, Values, f, D
<1>23. QED
  BY <1>20, <1>21, <1>22 DEF nav

-----------------------------------------------------------------------------
(* Asking. *)

\* What is known of a segment reconciled: its fund did not answer, or its rows
\* come from its catalog and from one of the answers the fund may give.
SegmentResult(s) ==
    \/ recon[s] = Failed
    \/ /\ answer[s] \in Answers[s]
       /\ recon[s] = ReconcileSegment(catalog[s], answer[s], BasePrice[s])

\* Only segments with data are asked for, and unless the list of funds could
\* not be had, what is published comes from what was answered.
ReconInv ==
    /\ \A s \in ToSet(Segments) : catalog[s] \in Catalogs[s]
    /\ asked \in {"funds", "done"} \cup ToSet(Segments)
    /\ asked \in ToSet(Segments) => catalog[asked] # << >>
    /\ asked # "done" \/ recon # None =>
         /\ DOMAIN recon \subseteq ToSet(Segments) \cap DOMAIN answer
         /\ \A s \in DOMAIN recon : catalog[s] # << >> /\ SegmentResult(s)

\* The segment asked for next has data (After).
LEMMA NextHasData ==
    ASSUME NEW n
    PROVE  /\ After(n) \in {"done"} \cup ToSet(Segments)
           /\ After(n) \in ToSet(Segments) => catalog[After(n)] # << >>
<1> DEFINE left == {i \in DOMAIN Segments : i > n /\ catalog[Segments[i]] # << >>}
<1>1. /\ DOMAIN Segments \subseteq Nat
      /\ \A i \in DOMAIN Segments : Segments[i] \in ToSet(Segments)
      /\ "done" \notin ToSet(Segments)
  BY ReconAssumption DEF ToSet
<1>2. After(n) = IF left = {} THEN "done" ELSE Segments[Min(left)]
  BY DEF After
<1>3. left # {} => Min(left) \in left
  BY <1>1, MinOfNaturals
<1>4. QED
  BY <1>1, <1>2, <1>3

\* The invariant holds at the start.
LEMMA ReconInvInit == ReconInit => ReconInv
<1> SUFFICES ASSUME ReconInit PROVE ReconInv
  OBVIOUS
<1>1. DOMAIN catalog = ToSet(Segments) /\ \A s \in ToSet(Segments) : catalog[s] \in Catalogs[s]
  BY DEF ReconInit
<1>2. "funds" \notin ToSet(Segments)
  BY ReconAssumption DEF ToSet
<1>3. asked = "funds" /\ DOMAIN recon = {}
  BY DEF ReconInit, NoResult
<1>4. QED
  BY <1>1, <1>2, <1>3 DEF ReconInv

\* No step of the reconciliation breaks it.
LEMMA ReconInvKept == ReconInv /\ [ReconNext]_reconVars => ReconInv'
<1> SUFFICES ASSUME ReconInv, [ReconNext]_reconVars PROVE ReconInv'
  OBVIOUS
<1>1. "funds" \notin ToSet(Segments) /\ "done" \notin ToSet(Segments)
  BY ReconAssumption DEF ToSet
<1>2. \A n : /\ After(n) \in {"done"} \cup ToSet(Segments)
             /\ After(n) \in ToSet(Segments) => catalog[After(n)] # << >>
  BY NextHasData
<1>3. CASE FundList
  <2>1. /\ asked # "done" /\ asked' = After(0)
        /\ catalog' = catalog /\ answer' = answer /\ recon' = recon
    BY <1>3 DEF FundList
  <2>2. \A s : SegmentResult(s)' <=> SegmentResult(s)
    BY <2>1 DEF SegmentResult
  <2>3. QED
    BY <1>2, <2>1, <2>2 DEF ReconInv
<1>4. CASE Answered
  <2>1. PICK raw \in Answers[asked] :
          /\ answer' = [s \in DOMAIN answer \cup {asked} |-> IF s = asked THEN raw ELSE answer[s]]
          /\ recon' = [s \in DOMAIN recon \cup {asked} |->
                         IF s = asked THEN ReconcileSegment(catalog[s], raw, BasePrice[s]) ELSE recon[s]]
    BY <1>4 DEF Answered
  <2>2. /\ asked \in ToSet(Segments) /\ asked # "done" /\ catalog' = catalog
        /\ asked' = After(Index(asked))
    BY <1>1, <1>4 DEF Answered
  <2>3. ASSUME NEW s, s = asked PROVE SegmentResult(s)'
    BY <2>1, <2>2, <2>3 DEF SegmentResult
  <2>4. ASSUME NEW s \in DOMAIN recon, s # asked, s \in DOMAIN answer, SegmentResult(s)
        PROVE  SegmentResult(s)'
    BY <2>1, <2>2, <2>4 DEF SegmentResult
  <2>5. QED
    BY <1>2, <2>1, <2>2, <2>3, <2>4 DEF ReconInv
<1>5. CASE Retry
  <2>1. /\ asked # "done" /\ asked' = asked
        /\ catalog' = catalog /\ answer' = answer /\ recon' = recon
    BY <1>5 DEF Retry
  <2>2. \A s : SegmentResult(s)' <=> SegmentResult(s)
    BY <2>1 DEF SegmentResult
  <2>3. QED
    BY <2>1, <2>2 DEF ReconInv
<1>6. CASE GiveUp
  <2>1. asked # "done" /\ catalog' = catalog
    BY <1>6 DEF GiveUp
  <2>2. CASE asked = "funds"
    BY <1>1, <1>6, <2>1, <2>2 DEF GiveUp, ReconInv
  <2>3. CASE asked # "funds"
    <3>1. /\ recon' = [s \in DOMAIN recon \cup {asked} |-> IF s = asked THEN Failed ELSE recon[s]]
          /\ answer' = [s \in DOMAIN answer \cup {asked} |-> IF s = asked THEN Failed ELSE answer[s]]
          /\ asked' = After(Index(asked))
      BY <1>6, <2>3 DEF GiveUp
    <3>2. asked \in ToSet(Segments)
      BY <2>1, <2>3 DEF ReconInv
    <3>3. ASSUME NEW s, s = asked PROVE SegmentResult(s)'
      BY <3>1, <3>3 DEF SegmentResult
    <3>4. ASSUME NEW s \in DOMAIN recon, s # asked, s \in DOMAIN answer, SegmentResult(s)
          PROVE  SegmentResult(s)'
      BY <2>1, <3>1, <3>4 DEF SegmentResult
    <3>5. QED
      BY <1>2, <2>1, <3>1, <3>2, <3>3, <3>4 DEF ReconInv
  <2>4. QED
    BY <2>2, <2>3
<1>7. CASE FundUndated
  BY <1>1, <1>7 DEF FundUndated, ReconInv
<1>8. CASE UNCHANGED reconVars
  <2>1. asked' = asked /\ catalog' = catalog /\ answer' = answer /\ recon' = recon
    BY <1>8 DEF reconVars
  <2>2. \A s : SegmentResult(s)' <=> SegmentResult(s)
    BY <2>1 DEF SegmentResult
  <2>3. QED
    BY <2>1, <2>2 DEF ReconInv
<1>9. QED
  BY <1>3, <1>4, <1>5, <1>6, <1>7, <1>8 DEF ReconNext, Published

\* A segment reconciled has data, an answer of its fund, and the rows these two give.
LEMMA ReconciledSegment ==
    ASSUME ReconInv, NEW s \in Reconciled
    PROVE  /\ catalog[s] \in Seq(CatalogRows) /\ catalog[s] # << >>
           /\ RawOf(s) \in Seq(AnswerRows) /\ BasePrice[s] \in Int
           /\ ResultOf(s) # None
           /\ ResultOf(s) = ReconcileSegment(catalog[s], RawOf(s), BasePrice[s])
           /\ SlackLine(s) = IF Flagged(ResultOf(s)) # {} THEN "issue" ELSE "reconciled"
<1>1. s \in ToSet(Segments) /\ ResultOf(s) # None
  BY DEF Reconciled
<1>2. recon # None /\ s \in DOMAIN recon /\ recon[s] # Failed /\ ResultOf(s) = recon[s]
  BY <1>1 DEF ResultOf
<1>3. catalog[s] \in Catalogs[s] /\ catalog[s] # << >> /\ SegmentResult(s)
  BY <1>1, <1>2 DEF ReconInv
<1>4. RawOf(s) = answer[s]
  BY <1>1 DEF RawOf
<1>5. Catalogs[s] \subseteq Seq(CatalogRows) /\ Answers[s] \subseteq Seq(AnswerRows) /\ BasePrice[s] \in Int
  BY <1>1, ReconAssumption
<1>6. answer[s] \in Answers[s] /\ recon[s] = ReconcileSegment(catalog[s], answer[s], BasePrice[s])
  BY <1>2, <1>3 DEF SegmentResult
<1>7. SlackLine(s) = IF Flagged(ResultOf(s)) # {} THEN "issue" ELSE "reconciled"
  BY <1>2, <1>3 DEF SlackLine
<1>8. QED
  BY <1>1, <1>2, <1>3, <1>4, <1>5, <1>6, <1>7

\* The invariant of every state of the reconciliation.
LEMMA ReconInvHolds == ReconSpec => []ReconInv
  BY ReconInvInit, ReconInvKept, PTL DEF ReconSpec

-----------------------------------------------------------------------------
(* What is published. *)

\* Everything a fund reports is in the Detail tab once, whatever the catalogs,
\* the answers and the map of accounts are, as long as each place of ours has
\* one spelling, each of our rows a key of its own and no position of theirs is
\* a perpetual's (rollup_by_asset and reconcile_segment, recon.py, and the
\* rows of gsheets.py).
THEOREM NothingGetsLost == ReconSpec => []NothingIsLost
<1>1. ReconInv => NothingIsLost
  <2> SUFFICES ASSUME ReconInv, NEW s \in Reconciled,
                      OneSpelling(RawOf(s)), ~Twins(catalog[s]), ~PerpMatched(catalog[s], RawOf(s))
               PROVE  SumFunction(NavColumn(Block(s))) = SumFunction(Values(RawOf(s)))
    BY DEF NothingIsLost
  <2>1. /\ catalog[s] \in Seq(CatalogRows) /\ catalog[s] # << >>
        /\ RawOf(s) \in Seq(AnswerRows) /\ BasePrice[s] \in Int /\ ResultOf(s) # None
        /\ ResultOf(s) = ReconcileSegment(catalog[s], RawOf(s), BasePrice[s])
    BY ReconciledSegment
  <2>2. QED
    BY <2>1, PositionsAddUp DEF Block
<1>2. QED
  BY <1>1, ReconInvHolds, PTL

\* The column of differences adds up to the footer, and the message calls out a
\* segment exactly when a row of it reads BREAK, when each row of ours has a key
\* of its own and none is a perpetual (reconcile_segment, recon.py,
\* _recon_cells, gsheets.py, and slack_alert.py).
THEOREM SheetAddsUpHolds == ReconSpec => []SheetAddsUp
<1>1. ReconInv => SheetAddsUp
  <2> SUFFICES ASSUME ReconInv, NEW s \in Reconciled, ~Twins(catalog[s]), ~Perps(catalog[s])
               PROVE  /\ SumFunction(DiffColumn(Block(s))) = DiffTotal(ResultOf(s))
                      /\ SlackLine(s) = "issue" <=>
                           \E i \in DOMAIN Block(s) : Block(s)[i].flag = "BREAK"
    BY DEF SheetAddsUp
  <2>1. /\ catalog[s] \in Seq(CatalogRows) /\ catalog[s] # << >>
        /\ RawOf(s) \in Seq(AnswerRows) /\ BasePrice[s] \in Int /\ ResultOf(s) # None
        /\ ResultOf(s) = ReconcileSegment(catalog[s], RawOf(s), BasePrice[s])
        /\ SlackLine(s) = IF Flagged(ResultOf(s)) # {} THEN "issue" ELSE "reconciled"
    BY ReconciledSegment
  <2>2. SumFunction(DiffColumn(Block(s))) = DiffTotal(ResultOf(s))
    BY <2>1, DifferencesAddUp DEF Block
  <2>3. Flagged(ResultOf(s)) # {} <=> \E i \in DOMAIN Block(s) : Block(s)[i].flag = "BREAK"
    BY <2>1, BreaksAreMarked DEF Block
  <2>4. QED
    BY <2>1, <2>2, <2>3
<1>2. QED
  BY <1>1, ReconInvHolds, PTL

\* When the quantities agree and our row is priced, the price the fund used
\* makes no difference and no break (_reval_nav and reconcile_segment, recon.py).
THEOREM PriceDriftHolds == ReconSpec => []PriceDriftIsNoBreak
<1>1. ReconInv => PriceDriftIsNoBreak
  <2> SUFFICES ASSUME ReconInv, NEW s \in Reconciled, NEW k \in DOMAIN ResultOf(s),
                      ResultOf(s)[k].diffQty = 0, Or0(FlattenOurs(catalog[s])[k].price) # 0,
                      FlattenOurs(catalog[s])[k].usd
                        = FlattenOurs(catalog[s])[k].qty * FlattenOurs(catalog[s])[k].price
               PROVE  ResultOf(s)[k].diffUsd = 0 /\ ~ResultOf(s)[k].flagged
    BY DEF PriceDriftIsNoBreak
  <2>1. /\ catalog[s] \in Seq(CatalogRows)
        /\ RawOf(s) \in Seq(AnswerRows) /\ BasePrice[s] \in Int
        /\ ResultOf(s) = ReconcileSegment(catalog[s], RawOf(s), BasePrice[s])
    BY ReconciledSegment
  <2>2. QED
    BY <2>1, EqualQuantitiesAreNoBreak
<1>2. QED
  BY <1>1, ReconInvHolds, PTL
=============================================================================
