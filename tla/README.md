# Verification of the Excellar internal application

TLA+ models of the parts of this Django project whose correctness depends on
*when* things happen: several processes sharing files without a common lock,
a scheduler that is killed and restarted, messages that get lost, figures put
together from a dozen remote calls of which any may fail, and a report published
call by call into a sheet people look at. TLC checks the
models on small instances; TLAPS proves the properties marked below for every
value of the constants. `PROJECT.json` maps each definition to source lines,
and lists runs, mutants, findings, hazards and theorems.

## 1. The system

Four kinds of processes run (`deploy/`):

| process | unit | what it does |
|---|---|---|
| gunicorn, 3 workers x 4 threads | `excellar.service` | portal, NAV dashboard, CallSpread dashboard |
| `callspread_poll` | `callspread-poll.service` | polls STS once a minute, alerts, history, `latest.json` |
| Huey consumer, 1 worker | `excellar-scheduler.service` | NAV snapshots, daily finalization, report export, CallSpread heartbeat |
| `manage.py ...` | by hand | `take_snapshot`, `finalize_daily`, `recompute_all`, `export_nav_report`, ... |

systemd restarts the first three when they die. They share the files
`data/callspread/{config.json, latest.json, history.jsonl}`, the database
(`Snapshot`, `DailyPnl`, users, dashboards), Redis (Huey's queue and locks),
the sheet-id map, Google Drive and one Slack channel.

### Inventory

| component | state | operations | interacts through | hard behaviour | correct when |
|---|---|---|---|---|---|
| settings file `callspread/config.py` | `config.json`, one temporary name, a lock per process | `load` (seeds), `save`, `apply_patch` | read by every process, written by workers | kills between open and rename, savers racing through one temporary name, several first boots | it parses at every boot; a save is atomic |
| runtime `callspread/runtime.py`, `views.py` | per process: settings copy, rules, last error, poll lock; shared: `latest.json` | `poll`, `reload_config`, `read_state`, `_write_state`, the views, the poller's loop | files, browser | stale copies, polls in flight across a save, failed polls, racing publishers | a save survives, reaches the screen; the poller never dies or blanks the screen |
| alerts `callspread/alerts.py`, `tasks.py` | per process `_last_state`; the channel | `process_alerts`, `deliver`, `send_heartbeat` | `latest.json`, Slack | lost messages, restarts, heartbeat crossing a poll, flat book | no process repeats a page of its own; the channel comes to agree with the book |
| history `callspread/store.py` | `history.jsonl`, per process `points` | `append`, `_prune`, `reload`, `range` | two processes append and rewrite one file | rewrite from stale memory, torn line, unlocked read | an acknowledged point stays until it expires; a chart is whole |
| risk model `callspread/model.py` | none | `build_snapshot`, `aggregate_fills`, `build_leg` | two fetches of one book | the book changes between them; boundaries | profit is the book's; screen and alerts grade alike |
| STS client `callspread/sts.py` | token, expiry, lock | `token`, `get` | used under the poll's lock | 401 in mid-flight | one revoked token costs one retry, not the poll |
| NAV scheduler `tracker/tasks.py` | Huey queue, lock `nav-snapshot-cycle` | snapshot cycle, finalization, report | Redis | expiry, kill with the lock held, tasks run late | no wedge; every day closed |
| NAV collector, P&L `services/collector.py`, `calculator/pnl.py` | `Snapshot`, `DailyPnl` | `collect_snapshot_cycle`, `_build_snapshot_data`, `compute_pnl`, `finalize_daily` | scheduler, operator | failed readers, missed/late/repeated finalization, commands crossing tasks | daily values add up; a row is its day's last snapshot |
| scrapers `tracker/scrapers/` | none | remote reads | collector | partial failure | a failure is not an empty position; a partial read invents nothing |
| NAV dashboard `nav/views.py` | none | back-fill from history, catalog | database | stale back-fill, sections read from other fields than the total | a closed position does not come back; what is old is marked; the sections add up |
| report export `services/{nav_report,gsheets,slack_alert}.py` | sheet-id map, Drive, tabs | find or create the day's sheet, rewrite its tabs | Drive, Sheets, Slack, two exporters | failure between clear and write, kills, trashed or deleted sheets, two exporters | one sheet a day; a sheet is what was said of it; every run is told |
| reconciliation `navfund/` | none | fund list, positions, `reconcile_segment`, keys, normalisation | NAV's gateway, report | matching, price drift, one fund failing | nothing reported is lost; the column adds up; a drifted price is no break |
| accounts `accounts/views.py` | users | edit, delete, passwords | database | concurrent edits | an administrator remains |
| gateway, catalog, settings, API, scripts | configuration | proxying, rendering | — | none that interleaves | — |

## 2. Modules

```
SharedFile          a file published through "<name>.tmp" + rename; descriptors, kills
  +- ConfigFile           config.py across processes ---implements---> AtomicSave
  |    +- ConfigFileProofs
  +- CallSpreadRuntime    runtime.py, views.py, the poller, the browser
       +- CallSpreadRuntimeProofs
CallSpreadAlerts    alerts.py, heartbeat, the channel
  +- CallSpreadAlertsProofs
HistoryStore        store.py across two processes and the threads of one
CallSpreadBook      sts.py, model.py and evaluate_rules over a book that is traded
  +- MCCallSpreadBook
  +- CallSpreadPollProofs   (of HistoryStore too; with SumTheorems)
NavLedger           tracker/tasks.py, collector.py, pnl.py, commands
  +- NavLedgerProofs
NavReaders          scrapers and venue readers: what a set of failed calls leaves
  +- NavView              the stored row; the dashboard's and the report's figures
       +- NavCapture          overlapping cycles against a moving book
            +- MCNavCapture
            +- NavCaptureProofs   (with SumTheorems)
ReportExport        the scheduled export and the command over Drive and Sheets
NavRecon            reconciliation with NAV Fund Services, the Detail tab
  +- MCNavRecon
  +- NavReportProofs        (of ReportExport too; with SumTheorems)
SumTheorems         sums and minima over a finite set, and induction without predicates
```

**SharedFile** has no state of its own: it says what open, flush, rename and a
kill do to a record `[live, tmp, fd]`. Descriptors follow the inode, as on
POSIX: a process whose temporary file was renamed away flushes into the live
file. `Flushed` gives the outcomes of writing over the remains of a longer
payload. A payload is one write: `config.json` is about 1.5 KB, below the text
buffer; for `latest.json`, which may be larger, `Empty` stands for any file cut
off before its end, which readers treat in the same way.

**ConfigFile**: `pc[p]` is the place in `load()` or `save()`, one action per
system call. `Patch` is `update_config`'s reload and patch (any value may come
out), `Open`/`Write`/`Publish` are the three lines of `save()`, `SeedCheck`/
`SeedOpen`/`SeedWrite` the seeding, `Boot`/`BootFails` the parse. The lock of
`config.py` is per process: a process has one save or seeding at a time, and
nothing orders two processes. `Crash` may come between any two steps.
**AtomicSave** is the register `save()` promises; `Abstract` maps `config.json`
to it.

**CallSpreadRuntime**: `mem[p]` is `Runtime.config`, `cfg` is `config.json`,
`st` is `latest.json` with its temporary file. A settings value is, per field,
the number of the edit it comes from, so old and lost values can be told
apart; a snapshot is the settings it was computed with. An *actor* is the
poller's loop or a browser's request; `poll()` is `PollBegin` (lock,
`reload_config`), `FetchOk`/`FetchFails`, `Recover` (the except block),
`StateOpen`/`StateFlush`/`StateReplace`/`StateReplaceFails`. The browser posts
the whole form it loaded, as `app.js` does. `config.save()` is one step here;
ConfigFile and its theorem `OneSaverIsAtomic` justify that while saves do not
race, and the model has one browser.

**CallSpreadAlerts**: `last[p]` is `_last_state`, `pending[p]` what is left of
`to_send`, `latest` the rules in `latest.json`, `shown` what the channel was
last told per rule. `Poll` diffs and remembers before anything is delivered,
as `process_alerts` does; `PollFlat` is its early return; `PublishFails` is a poll
that cannot append or publish and puts the rules it had back into the state file,
though `_last_state` is the new one already. The grades are an input and change at
any time.

**HistoryStore**: `file` is a sequence of lines (points, `Torn`, `Junk`),
`mem[p]` is `points`. An append is three steps under the lock (memory, file,
prune), a rewrite truncates and then writes line by line, a reload empties the
list and then fills it, and `range()` takes no lock.

**NavLedger**: time in ticks of the snapshot schedule. The consumer works off
`queue` in order; `Fetch` reads and looks up the reference and yesterday's row,
`Store` creates the Snapshot row, `BeginFinalization`/`WriteRow` are
`finalize_daily`. The operator runs the commands at any moment, without queue and
lock. `missed` remembers the days whose finalization fell due while the consumer was
down, or was killed in. What a cycle saw of the book is the one number `compute_pnl`
takes differences of, 0 when the reader failed.

**CallSpreadBook**: the book is contracts by code, premium not yet converted
and coin posted; `fills` is what was traded. A poll is `Begin`, `GetToken`,
`ReadPositions` and `ReadTrades`, two requests between which the book goes on
changing; `Rejected` is the 401 with its one retry, `CallFails` what a failed
request means at each of the two (the poll fails, or goes on without fills).
`Snapshot` is `build_snapshot` and `evaluate_rules` over what was read. Prices
and quantities are integers and a division by held coin or spot is a
multiplication on the other side, so comparisons are exact. The poll's lock lets
one poll run in a process, and nothing else uses its client; what the two
processes that poll do to the shared screen is CallSpreadRuntime's subject.

**NavReaders** has no variables: an operator per reader, over answers that are
partial functions (a call that failed is not in the domain, `None` is Python's).
**NavView** turns readings into a `Snapshot` row (`BuildSnapshot`), merges rows
as the dashboard does (`MergeWithHistory`, `CarriedForward`) and computes the
value of a segment and the catalog. **NavCapture** puts them into cycles: the
timestamp and the first reads (`Begin`), the addresses custody named
(`ReadChain`), the perpetuals and the row (`Store`), for the scheduled cycle and
one by hand, with a position opened or closed in between (`Move`). A hedge is one
BTC leg at each venue, and custody, quotes, tickers and venue funds are read at one
moment; the code takes the first leg of a list, whatever asset it is in, and reads
these one after the other. The book, the
answers and the sets of calls that fail together are constants or small
definitions marked external in the map.

**ReportExport**: an exporter's `job` is its place in the chain of calls, one
action per call: folder, file of ids, sheet, tabs, two tabs cleared, written and
formatted, message. `idMap` is the file of ids, truncated and then written;
`sheets` is Drive: a sheet is in its folder, in the trash, where its id still opens
it and the search by name does not find it, or gone (`Delete`, by somebody else;
nobody restores one). A tab may be written without the reconciliation, which the
task goes on without. `Fail` is a failed call the export depends on, `FailHandled`
one it gets over, `Refused` a call on a sheet or tab that is not as it was
read. A tab's content is the number of the export that wrote it.

**NavRecon**: `FundList`, `Answered`, `Retry` and `GiveUp` are the requests;
`FundUndated` is a fund that has data and is missing from the list, for which
`date_for_seg`, outside the `try`, ends the whole reconciliation. Everything else is
pure: the two sides by key (`FlattenOurs`; `FlattenNav`, which rolls their rows up
by place, spelled as they are, into a `Bucket` and keeps the last bucket of a key),
the comparison (`RowOf`), the lines of the Detail tab (`Detail`), the rows its
formatting rule colours (`Highlighted`) and the Slack line. `account_map.yaml` is a
constant. The properties add the lines of a segment up without its footer
(`NavColumn`, `DiffColumn`).

## 3. Runs

| run | instance | properties | shows |
|---|---|---|---|
| `config_file` | 3 processes, 2 settings, any set of savers, first boot or not, unbounded kills | `TypeOK` `LiveBoots` `FailsOnlyIfOvertaken` `BootSettles` `SavesAreAtomic` | one saver: always whole, atomic; racing savers: one gets in; first boot settles |
| `callspread_runtime` | poller, at most one worker, one browser, 2 fields, 2 edits, 1 refresh, 1 kill | `TypeOK` `SaveSurvivesOneWorker` `NeverRaisesAlone` `ScreenIsKept` `ScreenSettles` | saved settings stay, the screen settles on them and is never blanked |
| `callspread_served` | two workers | `ServedSettingsAreSaved` | **violated**: `/api/state` serves a stale copy |
| `callspread_raises` | poller and two workers | `NeverRaises` | **violated**: shared temporary name |
| `callspread_alerts` | poller and a worker, 2 rules, 3 grades, 2 changes, 1 kill | `TypeOK` `EachPagesOnce` `ChannelAgrees` `ChannelCatchesUp` | no process repeats a page of its own; the heartbeat repairs every loss |
| `callspread_book` | 2 strikes, 4 quotes, 3 fills of which the API returns 2, 1 move, 2 polls, 1 failed call, 2 revoked tokens | `PnlIsTheBooks` `RulesAgreeWithScreen` | the profit shown is the book's when its positions were read; alerts grade as the screen does |
| `history_store` | poller, worker with 2 threads, 3 points, 1 kill | `TypeOK` `AppendsSurvive` `ChartIsWhole` | what one writer keeps, what a torn line costs |
| `nav_ledger` | 3 days of 2 ticks, 2 commands, 1 kill, levels {0, 1} | `TypeOK` `Telescopes` `RowIsLastSnapshot` `RollingMaxInOrder` `EveryDayIsFinalized` `NeverWedged` | the ledger adds up over missed, late and repeated finalizations |
| `nav_capture` | 2 actors, 3 cycles, 1 of them with one of 16 sets of failed calls, 1 move of a book of 14 positions | `TypeOK` `ShownIsLastAnswer` `StaleIsMarked` `SnapshotIsWorth` `CrossMtmIsLegsProfit` `ReadsNeverInvent` `ScreenAddsUp` | the screen shows each source's last answer, marks it when old, and counts nothing twice |
| `nav_export` | 2 days, 2 exports, 1 failed call, kill, or trashed or deleted sheet | `TypeOK` `OneSheetADay` `TellsTheTruth` `RulesNeverStack` `EveryRunIsTold` | one sheet a day, whatever is lost; a sheet is what was said of it |
| `nav_recon` | 2 segments, 72 and 2 catalogs, 36 and 2 answers, 2 attempts a request | `NothingIsLost` `SheetAddsUp` `PriceDriftIsNoBreak` | the published reconciliation is complete and adds up |
| `break_highlight` | the same | `HighlightedRowsAreBreaks` | **violated**: the colouring rule reads the row above |

The three violated statements are quoted from comments, docstrings or tests of
the repository; `PROJECT.json` "findings" gives each quotation.

**Bounds, and why they are enough.** Processes: the file hazards need two processes
that write and one that reads; no step relates more. Edits: one edit to be saved and
one to revert it. A settings form of two fields tells a lost field from a saved one,
and a form refused after its first field. Alerts: two rules, because a heartbeat
tells all of them and an alert one; two changes bring a rule up and back down.
History: with retention 1 and three points, one expires while another is in flight.
NavLedger: telescoping relates two days, and a day that was never finalized lies
between two that have snapshots only when there are three; two ticks a day give
every day a last snapshot and one before it. CallSpreadBook: three fills open a
spread, close a leg and push one fill out of the API's window; two polls let the
second begin with a token that was revoked, and one revoke in mid-flight on top of
it is the case where the retry is refused as well. NavCapture: what is shown relates
the newest row, an older one that answered and one stored out of order, so three
cycles; the fourteen positions put at least one in every reader and, for the readers
that add several calls up and the venues that hold money in two ways, two; the
outages fail each reader alone, in part and together with all others. Only one cycle
has an outage, but outages in two cycles of one source only repeat the search of the
merge. The actors are interchangeable and reduced by symmetry; no temporal property
is checked there. ReportExport: what is on a sheet comes from its last export and
the one before; a second day gives the file of ids and Drive something else to
confuse it with. NavRecon: one segment has a position in every section with twins,
unpriced rows, perpetuals and accounts not mapped, the other makes a request fail
beside it. Kills are bounded where the state after one kill is a state a run may
start from, or where two kills only repeat the losses of one.

**Fairness.** `ConfigFile!BootFairness`, `CallSpreadRuntime!Fairness` and
`CallSpreadAlerts!Fairness` assume that a process that runs goes on running, that
systemd restarts what died (`Restart=always`), and, strongly, what happens again and
again in operation: an STS fetch of the poller succeeds now and then, and so does a
heartbeat's post. `ReportExport!Spec` assumes that an export that runs goes on: its
calls end, with an answer or an error. Nothing is assumed of browsers starting
requests, of operators, of changes of the book, or of the order of processes.
Liveness is stated with escapes for what a kill really breaks (a seed killed in
mid-copy stops every later boot: `crashed` in `BootSettles`).

`Over` (NavLedger, NavCapture, ReportExport, CallSpreadBook) and
`NavRecon!Published` let a finished behaviour stand still; no run switches deadlock
checking off.

**Mutants.** Each module has a section of definitions no action uses: the
plausible bugs its properties must catch, one for each property of each passing
run (`PROJECT.json` "mutants").

### What the models show besides

Each of these is behaviour of the code the models contain and a property has to
make room for; the condition is written in the property.

*CallSpread.* `_last_state` is one per process: each process pages once, and the
channel is paged once by every process that polls (`EachPagesOnce`), though
`alerts.py:7-8` says that a position below the floor "pages you once". A poll that
cannot append or publish puts the rules it had back into `latest.json`, and the
heartbeat repeats them. A settings form that is refused after its first field leaves
that field in the worker's memory until the next reload; `SaveSurvivesOneWorker`
says only that the file keeps what was acknowledged. A channel may sit on a stale
red until the next heartbeat, though `alerts.py:8-9` says otherwise: a heartbeat
posts what it read before a resolve overtook it, and a resolve lost on the way or
found by the first poll after a restart is not sent again (`ChannelAgrees`,
`ChannelCatchesUp`). The lock that "keeps an append from interleaving with a prune
rewrite" (`store.py:34-35`) spans no two processes (`AppendsSurvive`).
`PnlIsTheBooks` needs a moment without fills between the two fetches, or a fill
counts in one half only. When the fills cannot be read, the premium not yet
converted stands in for them, so realized profit moves with a conversion although
`model.py:423` says it moves only with a fill; of more than 1000 fills the oldest
vanish, and closed legs with them (`model.py:445-446`). A book without coin is
"unknown" on screen and "critical" to the alerts.

*NAV figures.* The rolling maximum looks at later days when an old one is finalized
again, and so does `recompute_all` for all of them (`RollingMaxInOrder`), though the
test at `tests/test_collector.py:73` calls it a prior maximum. The vaults, sUSDS,
the loan and the health factor are back-filled without a mark (`StaleIsMarked`
covers the sources that have a label), although `nav/views.py:51-53` says a stale
figure is never presented as a fresh one. Custody is announced besides when BitGo
answered and a price its total needs did not, or the segment's own coin was not
among the holdings (`Complete` in `StaleIsMarked`), though `nav/views.py:29` calls
the fields it watches those "whose absence means a whole data source failed to
collect". A custody found empty stores an amount of nothing as unknown, so the
previous one comes back (`Emptied`); health factor and supplied amount of a closed
loan come back in the same way. Venue equity in a coin without a price counts as
nothing. A venue with equity and no asset (a Hyperliquid wallet without spot
balance, Binance futures cash) is in the NAV and in no section, although it answered
and `nav/views.py:296-298` says that the rows of a venue sum to its equity:
`ScreenAddsUp` says that the sections fall short by exactly such equity
(`UnlistedEquity`), and by that of a venue that did not answer, which the back-fill
keeps in the NAV. Two texts disagree about a unified Hyperliquid account: the
docstring of `fetch_hl_account_value` (`collector.py:200-201`) promises perp equity
plus spot value, the comment at the choice (242-245) and the code the spot value
alone. `SnapshotIsWorth` holds the code to the comment; the docstring's sum is the
double count. A failed read of positions is a flat book for that cycle, and one
venue alone failing leaves the configured entry cost (`CrossMtmIsLegsProfit`). Money
that moves between custody and chain while a cycle reads them is counted twice or
not at all (`quiet` in `SnapshotIsWorth`). A missing price of a native asset makes
`compute_pnl` divide by 1.0 (`pnl.py:108`).

*Report.* An export goes on writing a sheet that is in the trash, through the id in
its file; `OneSheetADay` counts the sheets in the folder. A call before the
formatting proper (`_tab_meta`) fails the export, though `gsheets.py:260` calls
formatting never fatal. "Told" in `EveryRunIsTold` means posted: a message Slack
refuses is logged. A day whose hourly task is dequeued after the hour is skipped.
Two exporters of the same day at once may make two sheets, and two first exports two
folders (`OneSheetADay`). The summary tab has no column for the vaults, so its
components fall short of its NAV, while `nav_report.py:46-47` says they reconcile.

*Reconciliation.* When quantities agree there is no difference in dollars, whatever
the fund's price (`PriceDriftIsNoBreak`): so say the code and its comment
(`recon.py:142-155`), while the module's docstring (13-18) and
`navfund/README.md:40-42` say that such a row differs because the prices do. A fund
missing from the list ends the reconciliation of every segment (`FundUndated`). Two
rows of ours with one name in one place share a key, and each shows the difference
of both (`Twins`); perpetuals count in the footer and the message but have no cells
(`Perps`), and a position of theirs with the key of one would be in no row of the
tab (`PerpMatched`); rows of one place whose names differ in case overwrite each
other (`OneSpelling`); "USDC (borrowed)", which only we list, is annotated like a
receipt and never flagged.

## 4. Proofs

Every invariant a passing run checks is a theorem, and so are its action properties
(`ScreenIsKept`, `ChartIsWhole`) and the refinement `SavesAreAtomic`. The theorems
hold for any number of processes, threads, browsers, settings, rules, points, days,
cycles, exports, strikes, fills, segments and any bounds, under the named
assumptions of the modules only: the marks of a file are distinct and no setting or
point is one; the grades, `Nothing` and `FlatBook` differ; the poller is not a
worker or one of its threads, nor the operator the consumer; quotes, premiums,
catalogs and answers have their types; a missing value is no number, and nothing a
call returns. Two theorems have a hypothesis of their own, named below. TLC finds
the invariants given here to hold on the instances of the runs (`RulesInv` apart,
which speaks of infinite sets, and `CaptureInv`, whose `SnapOk` enumerates three
books, on a smaller one).

**Settings file, alerts**

* `TypeCorrect` (settings file, alerts): `Spec => []TypeOK`. The lemmas on
  SharedFile's operators (`OpenType`, `FlushType`, `ReplaceType`, ...) carry the
  file part.
* `SaveFailsOnlyIfOvertaken`. The invariant speaks of `written` only; what makes
  it inductive is `StillThere`: from `Open` on, the temporary name exists until
  somebody renames it, which marks everybody else overtaken.
* `OneSaverKeepsConfigWhole`. "config.json parses" is not inductive: a step of
  `save()` could make it false if the descriptor pointed at the live file.
  `OneSaverInv` adds where the only saver's descriptor points at every stage
  (at the temporary file while it is open, nowhere otherwise), that nobody
  else has one, and that what it publishes is a whole value.
* `OneSaverIsAtomic`: the same invariant makes every step of ConfigFile a step
  of AtomicSave or a stutter (`StepSimulation`): `Patch` asks, `Publish` takes
  effect, a failed rename or a kill drops the request.
* `EachPagesOnceHolds`. What a process posts differs from the last it posted because it
  differs from `_last_state`; `PagingInv` ties `told` to `last` through what is
  still pending.
* `ChannelAgreesHolds`. `UndisturbedInv` says what is true besides when nothing
  was lost, restarted or crossed: only the poller polls, a heartbeat in flight
  carries exactly what the poller last found, and so does `latest.json` while
  the book is not flat.
**Runtime**

* `TypeCorrect`. `TypeOK` alone is not inductive: a request reads the settings
  of the process that serves it, so `TypeInv` adds that an actor under way is
  served by a process that runs and has settings (`Served`).
* `PollerNeverRaises`, `SnapshotStaysOnScreen` (an action property). While no worker
  has polled, and so published `latest.json`, the temporary file is the poller's:
  `AloneInv` says what is in it and where the descriptor points between the calls of
  `write_state`, and that a payload about to replace a snapshot carries one.
* `SavesSurvive`, for one browser (`ASSUME \A b, c \in Browsers : b = c`), as in
  the run. The browser posts the whole form, so of two browsers the one that loaded
  its form earlier undoes the other's save: that hypothesis is the code's.
  `SaveInv`: behind one worker the file, the worker's copy and an idle form are
  each as new as what was acknowledged, and `BoundInv` that nothing is newer
  than the last edit.

**Ledger**

* `TypeCorrect`. The rolling maximum is a number because the day's own value is
  among those it is taken of, which needs the day of a job to have a snapshot.
* `LedgerTelescopes`, `RowsAreLastSnapshots`, `RollingMaxIsInOrder`, from one
  invariant, `LedgerInv` (`LedgerCorrect`). While no two actors crossed,
  at most one job measures or writes (`Quiet`), and what it measured against at
  `Fetch` or `BeginFinalization` is still the last snapshot of its day, or the
  row of the day before, when it stores. `MaxInOrder` says the same of the maximum
  while no day was finalized again after a later one.
* `EveryDayGetsItsRow`. `DueInv`: while no actors crossed, every day whose
  finalization is due has its row, is being written, has no snapshot, its task is
  still in the queue, or the day is in `missed` or was skipped as late. A kill loses
  the task it falls into and none of the queue; the work is in the queue: that taking
  its head leaves every other task in it.
* `LockNeverWedges`. `NeverWedged` is inductive once it is known that a step
  changes the job of one actor only (`LockInv`, `OneJobChanges`): the consumer
  takes the lock with its job and gives both up together, and a kill leaves the
  lock only to a `Boot` that flushes it.
**Report export**: one invariant resting on the other.

* `RulesNeverStackHolds`. An export counts the rules of a tab in one call
  (`TabMeta`) and replaces that many in a later one (`FormatTab`), so the property
  needs the count to be still right when it is used. `RulesInv` adds that it is,
  for dates never worked on twice at once, and what makes that inductive: a job is
  always on a sheet titled with its own date, however it came to the number (so
  the file of ids and the maps read from it name sheets of their dates, torn,
  lost or overwritten though the file may be), and two jobs of one date are in
  `crossed`. One lemma per action; the sheet that is edited is the exporter's own
  (`OwnSheetEdited`, `ContentEdited`).

* `OneSheetADayHolds`. `OneInv`: every sheet lies in a folder that was found or
  made, and while there is one folder an export about to create a sheet has seen
  that its date has none. Both sheets of a date would be found by the search
  (`Lookup`), so the second is never made. One that is trashed or deleted leaves the
  folder and never comes back.
* `TellsTheTruthHolds`. The content of a tab is the number of an export, so it
  takes that numbers are never used twice (`RunsApart`) and where an export under
  way stands with what its sheet holds (`JobTruth`): nobody else's sheet bears its
  mark, and its own holds what it has written so far.
* `TypeCorrect`. There are never more sheets than exports, because an export makes
  one at most (`Pending` in `BoundsInv`).

**Book**

* `AlertsGradeTheScreen`, for a floor of the delta above zero
  (`ASSUME 0 < Policy.floor`). The shipped policy has one, but the settings form
  takes any number, and with a floor of zero a book without coin, whose delta is no
  number on screen, is graded on both sides of it. Screen and rules compare the
  same figures in different forms; the proof is by cases of the snapshot.
* `ProfitIsTheBooks`. The screen adds, code by code, what was paid for the code
  to what its leg is worth (`PnlLegs`); the property is about one sum over all
  fills and one over the book. `PnlInv` says that the cash is the sum of the
  fills, and that what a poll read is worth what it says while nothing was traded
  since; `SumByKey` turns the sum over codes into that over fills.

**History**

`load()` keeps the fresh points of the file and sorts them by time. The model says
what it does as one choice of an order (`Order`), and the lemmas give what the
proofs need of it: every finite set of places has such an order (`SomeOrder`), it
takes every place once (`OrderEffect`), so a reload has exactly the fresh points
of the file (`SelectedEffect`) and a prune exactly those of the list (`KeptEffect`).

* `AppendsAlwaysSurvive`. That lost points are at most the torn lines is not
  inductive in three ways, one conjunct of `SurviveInv` each. The file is
  rewritten from the poller's list, so what is due must be in that list as well
  (`InMemoryInv`), and a half-written file must be the first lines of it
  (`RewriteInv`). A torn line costs its point only when the next append is glued to
  it: until then one loss is still in reserve (`Swallowed` in `OnFileInv`). And who
  appends at all depends on whether Refresh is served (`WritersInv`).
* `ChartsAreWhole` (an action property). Between the moment a request begins and
  its `range()`, the list may be emptied by another thread's reload; `ChartInv` says
  that the file keeps what the request began with, and the list as well while no
  thread is loading.

**Capture and dashboard**

One invariant, `CaptureInv` (`CaptureInvHolds`): jobs and rows have their types, no
two cycles one timestamp (`ClocksApart`), and every row stored is *right*
(`RowRight`): column by column it says what the readers and mergers make of the
three books it was read of and of the calls that failed. The three books are one if
nothing moved meanwhile. Most of the proof is this step, `Store`: each
reader is followed from its calls to its columns, for any set of calls that fail
(`RowIsRight`, over a section of lemmas for custody, Aave, Spark and the vaults,
the venues and the hedge).

* `SnapshotWorthHolds`, `ReadsInventNothing`, `CrossMtmHolds` are about one row,
  and follow from `RowRight` position by position.
* `ShownHolds`, `StaleHolds`, `ScreenHolds` are about a set of rows. The dashboard
  takes every column for itself from the newest row that has it (`NewestIs`,
  `ShownIs`). The columns of one source are empty together, and empty only when the
  source did not answer (custody's, which are empty besides without the coin or its
  price, are a case of their own, `Complete` in `StaleIsMarked`); so what is shown
  of a source comes from one row, that of the last cycle it answered, and a label is
  announced exactly if that row is not the newest. For `ScreenHolds` the
  sum over the venues is split into those with a row and those without (`SumOfVenues`),
  and a venue without a row has no assets in the newest row (`LeftOutFollows`).
* The theorems are about any books in `Books`, any outages, actors, native asset and
  sets of stable coins and receipts. What the fourteen positions are worth and which
  call reads them is fixed in the module, as in the run.

**Reconciliation**

* `NothingGetsLost`, `SheetAddsUpHolds`, `PriceDriftHolds`. The invariant is
  small (`ReconInv`: a segment that is reconciled has data, an answer of its
  fund, and the rows `reconcile_segment` makes of these two); the work is in the
  lemmas on that function, which is pure. `LinesInOrder` says where the sections
  of a segment's lines are; `KeyLinesAreApart` that, without twins, a key has one
  line (that of our row, one of its own, or none) and a line one key;
  `TheirsAlone` and `NoLineNoValue` that a key without a line is worth nothing.
  Then a column adds up line by line (`SumLineByLine`): to the differences of the
  keys (`DifferencesAddUp`), and to the positions of the answer
  (`PositionsAddUp`), of which each line holds those of one place, one account
  not mapped, or none. For `SheetAddsUp` it takes besides that a row is flagged
  exactly when its line reads BREAK (`BreaksAreMarked`). The proof of
  `NothingIsLost` brought out the condition `PerpMatched`.

**Sums** (SumTheorems). The library's induction takes a predicate, which none of the
provers here instantiates. Induction over a *set* needs none: `NatSetInduction`
and `FiniteSubsetInduction` say that a set with 0 and every successor has all
numbers, and a set of subsets with {} and every enlargement all finite ones; what is
to be shown is put into a set comprehension. From these, `SumFunctionOnSet` is
independent of the order in which it adds (`SumOfOneMore`), adds argument by argument
(`SumOfSums`), and splits by key (`SumByKey`, `SumByPart`).

Only model-checked:

* liveness (`BootSettles`, `ScreenSettles`, `ChannelCatchesUp`,
  `EveryRunIsTold`): the prover has no rules for fairness and ENABLED.

## 5. Not modelled

Demo mode; the rebalance advice of the risk model (`model.py:407-418`) and its
series for display; the reminder of the alerts, off as shipped; the down-sampling of
`range()` (the picks `int(i * step)` are increasing and end before the last point
because `step > 1`); a client token's expiry by its own clock, which is the state
without a token. In NavLedger: the native-asset conversion and funding. In
CallSpreadRuntime: two requests of one browser at once. In NavCapture: hedges of
several legs or in other assets than BTC, quotes that move within a cycle, paging
and decoding of answers, retries after a 429, dust thresholds. In ReportExport: the
content of the tabs, which NavView and NavRecon give; logging in by browser. In
NavRecon: the signing of requests, balance-sheet series. The accounts pages, where
two administrators who demote each other at once both pass the own-account check
(`accounts/views.py:53`): no document promises that one remains. The DeBank scraper,
which nothing calls. The gateway, catalog, API and start-up checks keep no state
that interleaves. `seed_reference`, `update_cross_mtm` and `prune_json`, which no
scheduled code calls.

## 6. Plan

1. *(done)* The shared-file core, the runtime, alerts, history and the ledger;
   proofs of the settings file, of the alerts and of the cycle's lock.
2. *(done)* Readers, rows and the dashboard (NavReaders, NavView, NavCapture), the
   export (ReportExport), the reconciliation (NavRecon), the book and its
   figures (CallSpreadBook).
3. *(done)* Proofs: the ledger, the runtime, the export, the book and the
   reconciliation, with the sums the last two rest on.
4. *(done)* Proofs: the history, with lemmas on sorting, and the capture with the
   dashboard's merge.
5. Open: accounts, and the native-asset conversion in the ledger.
